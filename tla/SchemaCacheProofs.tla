-------------------------- MODULE SchemaCacheProofs --------------------------
(***************************************************************************)
(* Proofs about SchemaCache for every set of requests, datasets and        *)
(* tables, whether or not BigQuery fails on its own.                       *)
(***************************************************************************)
EXTENDS SchemaCache, FiniteSetTheorems, TLAPS

\* While a request fetches a dataset, the cache has no entry for it.
FetchedIsAbsent ==
  \A r \in Requests : pc[r] \in {"listing", "reading"} => cache[ds[r]] = NoEntry

\* A section, unless it is empty, has no table older than v.
AsNewAs(sec, v) == \A t \in DOMAIN sec : sec[t] >= v

\* firm is a lower bound of the version of everything cached or being read.
FirmBounds ==
  /\ \A d \in Datasets : firm[d] <= version[d]
  /\ \A d \in Datasets : cache[d] # NoEntry => AsNewAs(cache[d], firm[d])
  /\ \A r \in Requests :
       pc[r] \in {"reading", "returning"} /\ section[r] # NoSection
         => AsNewAs(section[r], firm[ds[r]])

\* A request needs no more than the firm bound of its dataset.
NeedBounds ==
  \A r \in Requests : pc[r] # "idle" => need[r].firm <= firm[ds[r]]

\* Without a failed call, what is cached or returned is complete, and what is
\* being read lacks just the pending tables.
Complete ==
  /\ \A d \in Datasets \ troubled : cache[d] # NoEntry => DOMAIN cache[d] = Tables
  /\ \A r \in Requests : ds[r] \in Datasets \ troubled =>
       /\ pc[r] = "reading" => DOMAIN section[r] = Tables \ pending[ds[r]]
       /\ pc[r] = "returning" => section[r] # NoSection /\ DOMAIN section[r] = Tables

\* Past its beginning a request has a dataset; it has no section before it
\* has listed the tables, and while it reads it describes some of them.
Begun ==
  \A r \in Requests :
    /\ pc[r] # "idle" => ds[r] \in Datasets
    /\ pc[r] = "reading" => section[r] \in Described
    /\ pc[r] \in {"idle", "missed", "waiting", "leading", "listing"} => section[r] = NoSection

-----------------------------------------------------------------------------

\* The initial state is well typed.
LEMMA SchemaCacheInitTypeOK == Init => TypeOK /\ Begun
<1> SUFFICES ASSUME Init PROVE TypeOK /\ Begun
  OBVIOUS
<1> USE SchemaCacheAssumption DEF SchemaCacheAssumption, Init
<1>1. version \in [Datasets -> 0..MaxVersion]
  OBVIOUS
<1>2. cache \in [Datasets -> Entries]
  BY DEF Entries
<1>3. flight \in [Datasets -> Requests \cup {NoFlight}]
  OBVIOUS
<1>4. pc \in [Requests -> {"idle", "missed", "waiting", "done"} \cup Leading]
  OBVIOUS
<1>5. ds \in [Requests -> Datasets \cup {NoDataset}]
  OBVIOUS
<1>6. section \in [Requests -> Sections]
  <2>1. NoSection \in Sections
    BY DEF Sections
  <2>2. QED
    BY <2>1
<1>7. pending \in [Datasets -> SUBSET Tables]
  OBVIOUS
<1>8. gone \in SUBSET Requests /\ troubled \in SUBSET Datasets
  OBVIOUS
<1>9. floor \in [Datasets -> 0..MaxVersion] /\ firm \in [Datasets -> 0..MaxVersion]
  OBVIOUS
<1>10. need \in [Requests -> [floor : 0..MaxVersion, firm : 0..MaxVersion]]
  OBVIOUS
<1>11. FlightOK
  BY DEF FlightOK, Leading
<1>12. Begun
  BY DEF Begun
<1>13. QED
  BY <1>1, <1>2, <1>3, <1>4, <1>5, <1>6, <1>7, <1>8, <1>9, <1>10, <1>11, <1>12
     DEF TypeOK

\* The sections that describe tables, spelled out.
LEMMA DescribedSpelledOut ==
  \A sec : sec \in Described <=> \E S \in SUBSET Tables : sec \in [S -> 0..MaxVersion]
BY DEF Described

\* A description of tables is neither the empty section nor a missing entry.
LEMMA DescribedIsNotNone ==
  \A sec \in Described : sec # NoSection /\ sec # NoEntry
<1> SUFFICES ASSUME NEW sec \in Described PROVE sec # NoSection /\ sec # NoEntry
  OBVIOUS
<1>1. PICK S \in SUBSET Tables : sec \in [S -> 0..MaxVersion]
  BY DescribedSpelledOut
<1>2. sec \in [S -> Nat]
  BY <1>1
<1>3. QED
  BY <1>2, SchemaCacheAssumption DEF SchemaCacheAssumption

\* Reading one more table makes a section of a section.
LEMMA SectionGrows ==
  ASSUME NEW sec \in Described, NEW t \in Tables, NEW v \in 0..MaxVersion
  PROVE  WithTable(sec, t, v) \in Described
<1>1. PICK S \in SUBSET Tables : sec \in [S -> 0..MaxVersion]
  BY DescribedSpelledOut
<1>2. S \cup {t} \in SUBSET Tables
  OBVIOUS
<1>3. WithTable(sec, t, v) \in [S \cup {t} -> 0..MaxVersion]
  BY <1>1 DEF WithTable
<1>4. QED
  BY <1>2, <1>3, DescribedSpelledOut

\* The section a fetch begins with describes no table.
LEMMA EmptySection == [t \in {} |-> 0] \in Described
<1>1. [t \in {} |-> 0] \in [{} -> 0..MaxVersion]
  OBVIOUS
<1>2. {} \in SUBSET Tables
  OBVIOUS
<1>3. QED
  BY <1>1, <1>2, DescribedSpelledOut

-----------------------------------------------------------------------------

TypeInv == TypeOK /\ Begun

\* Every step keeps the types.
LEMMA SchemaCacheTypeStep == TypeInv /\ [Next]_vars => TypeInv'
<1> SUFFICES ASSUME TypeInv, [Next]_vars PROVE TypeInv'
  OBVIOUS
<1> USE SchemaCacheAssumption
    DEF SchemaCacheAssumption, TypeInv, TypeOK, FlightOK, Begun, Leading, Entries, Sections
<1>1. ASSUME NEW d \in Datasets, Expire(d) PROVE TypeInv'
  BY <1>1 DEF Expire
<1>2. ASSUME NEW d \in Datasets, Alter(d) PROVE TypeInv'
  BY <1>2 DEF Alter
<1>3. ASSUME NEW d \in Datasets, Invalidate(d) PROVE TypeInv'
  BY <1>3 DEF Invalidate
<1>4. ASSUME NEW r \in Requests, Disconnect(r) PROVE TypeInv'
  BY <1>4 DEF Disconnect
<1>5. ASSUME NEW r \in Requests, NEW d \in Datasets, BeginHit(r, d) PROVE TypeInv'
  BY <1>5 DEF BeginHit, Live
<1>6. ASSUME NEW r \in Requests, NEW d \in Datasets, BeginMiss(r, d) PROVE TypeInv'
  BY <1>6 DEF BeginMiss
<1>7. ASSUME NEW r \in Requests, Lead(r) PROVE TypeInv'
  BY <1>7 DEF Lead
<1>8. ASSUME NEW r \in Requests, Join(r) PROVE TypeInv'
  BY <1>8 DEF Join
<1>9. ASSUME NEW r \in Requests, DoubleCheckHit(r) PROVE TypeInv'
  BY <1>9 DEF DoubleCheckHit, Live
<1>10. ASSUME NEW r \in Requests, DoubleCheckMiss(r) PROVE TypeInv'
  BY <1>10 DEF DoubleCheckMiss
<1>11. ASSUME NEW r \in Requests, ListTables(r) PROVE TypeInv'
  BY <1>11, EmptySection DEF ListTables
<1>12. ASSUME NEW r \in Requests, ListTablesFails(r) PROVE TypeInv'
  BY <1>12 DEF ListTablesFails
<1>13. ASSUME NEW r \in Requests, NEW t \in Tables, GetTableSchema(r, t) PROVE TypeInv'
  <2> DEFINE grown == WithTable(section[r], t, version[ds[r]])
  <2>0. section[r] \in Described /\ version[ds[r]] \in 0..MaxVersion
    BY <1>13 DEF GetTableSchema
  <2>1. grown \in Described
    BY <2>0, SectionGrows
  <2>2. section' = [section EXCEPT ![r] = grown]
    BY <1>13 DEF GetTableSchema
  <2> HIDE DEF grown
  <2>3. /\ section' \in [Requests -> Sections] /\ section'[r] \in Described
        /\ \A q \in Requests \ {r} : section'[q] = section[q]
    BY <2>1, <2>2
  <2>4. pending' \in [Datasets -> SUBSET Tables]
    BY <1>13 DEF GetTableSchema
  <2>5. QED
    BY <1>13, <2>3, <2>4 DEF GetTableSchema
<1>14. ASSUME NEW r \in Requests, NEW t \in Tables, GetTableSchemaFails(r, t) PROVE TypeInv'
  BY <1>14 DEF GetTableSchemaFails
<1>15. ASSUME NEW r \in Requests, Store(r) PROVE TypeInv'
  BY <1>15 DEF Store
<1>16. ASSUME NEW r \in Requests, Return(r) PROVE TypeInv'
  BY <1>16 DEF Return, FlightForgotten, Waiters
<1>17. CASE UNCHANGED vars
  BY <1>17 DEF vars
<1>18. QED
  BY <1>1, <1>2, <1>3, <1>4, <1>5, <1>6, <1>7, <1>8, <1>9, <1>10, <1>11, <1>12,
     <1>13, <1>14, <1>15, <1>16, <1>17 DEF Next, Progress,
     OwnStep, DatabaseAnswers

\* The variables keep their types and the singleflight bookkeeping is
\* consistent: a flight has a leader who is at work for its dataset, nobody
\* leads or waits without a flight.
THEOREM SchemaCacheTypeOK == Spec => []TypeOK
<1>1. Init => TypeInv
  BY SchemaCacheInitTypeOK DEF TypeInv
<1>2. TypeInv => TypeOK
  BY DEF TypeInv
<1>3. QED
  BY <1>1, <1>2, SchemaCacheTypeStep, PTL DEF Spec

-----------------------------------------------------------------------------

\* Flights exclude each other, so what a fetch found absent stays absent until
\* that fetch stores it.
LEMMA FetchedStaysAbsent ==
  TypeInv /\ FetchedIsAbsent /\ [Next]_vars => FetchedIsAbsent'
<1> SUFFICES ASSUME TypeInv, FetchedIsAbsent, [Next]_vars PROVE FetchedIsAbsent'
  OBVIOUS
<1> USE SchemaCacheAssumption
    DEF SchemaCacheAssumption, TypeInv, TypeOK, FlightOK, Begun, Leading, FetchedIsAbsent
<1>1. ASSUME NEW d \in Datasets, Expire(d) PROVE FetchedIsAbsent'
  BY <1>1 DEF Expire
<1>2. ASSUME NEW d \in Datasets, Alter(d) PROVE FetchedIsAbsent'
  BY <1>2 DEF Alter
<1>3. ASSUME NEW d \in Datasets, Invalidate(d) PROVE FetchedIsAbsent'
  BY <1>3 DEF Invalidate
<1>4. ASSUME NEW r \in Requests, Disconnect(r) PROVE FetchedIsAbsent'
  BY <1>4 DEF Disconnect
<1>5. ASSUME NEW r \in Requests, NEW d \in Datasets, BeginHit(r, d) PROVE FetchedIsAbsent'
  BY <1>5 DEF BeginHit, Live
<1>6. ASSUME NEW r \in Requests, NEW d \in Datasets, BeginMiss(r, d) PROVE FetchedIsAbsent'
  BY <1>6 DEF BeginMiss, Live
<1>7. ASSUME NEW r \in Requests, Lead(r) PROVE FetchedIsAbsent'
  BY <1>7 DEF Lead
<1>8. ASSUME NEW r \in Requests, Join(r) PROVE FetchedIsAbsent'
  BY <1>8 DEF Join
<1>9. ASSUME NEW r \in Requests, DoubleCheckHit(r) PROVE FetchedIsAbsent'
  BY <1>9 DEF DoubleCheckHit, Live
<1>10. ASSUME NEW r \in Requests, DoubleCheckMiss(r) PROVE FetchedIsAbsent'
  BY <1>10 DEF DoubleCheckMiss, Live
<1>11. ASSUME NEW r \in Requests, ListTables(r) PROVE FetchedIsAbsent'
  BY <1>11 DEF ListTables
<1>12. ASSUME NEW r \in Requests, ListTablesFails(r) PROVE FetchedIsAbsent'
  BY <1>12 DEF ListTablesFails
<1>13. ASSUME NEW r \in Requests, NEW t \in Tables, GetTableSchema(r, t) PROVE FetchedIsAbsent'
  BY <1>13 DEF GetTableSchema, WithTable
<1>14. ASSUME NEW r \in Requests, NEW t \in Tables, GetTableSchemaFails(r, t) PROVE FetchedIsAbsent'
  BY <1>14 DEF GetTableSchemaFails
<1>15. ASSUME NEW r \in Requests, Store(r) PROVE FetchedIsAbsent'
  BY <1>15 DEF Store, AllRead
<1>16. ASSUME NEW r \in Requests, Return(r) PROVE FetchedIsAbsent'
  BY <1>16 DEF Return, FlightForgotten, Waiters
<1>17. CASE UNCHANGED vars
  BY <1>17 DEF vars
<1>18. QED
  BY <1>1, <1>2, <1>3, <1>4, <1>5, <1>6, <1>7, <1>8,
     <1>9, <1>10, <1>11, <1>12, <1>13, <1>14, <1>15, <1>16, <1>17 DEF Next, Progress,
     OwnStep, DatabaseAnswers

\* singleflight: at most one fetch of a dataset runs at a time.
THEOREM SchemaCacheOneFetch == Spec => []OneFetchPerDataset
<1>1. TypeInv => OneFetchPerDataset
  <2> SUFFICES ASSUME TypeInv, NEW d \in Datasets
               PROVE  Cardinality({r \in Requests :
                        ds[r] = d /\ pc[r] \in {"listing", "reading"}}) <= 1
    BY DEF OneFetchPerDataset
  <2> DEFINE fetching == {r \in Requests : ds[r] = d /\ pc[r] \in {"listing", "reading"}}
  <2>1. fetching \subseteq {flight[d]}
    BY DEF TypeInv, TypeOK, FlightOK, Leading
  <2>2. IsFiniteSet({flight[d]}) /\ Cardinality({flight[d]}) = 1
    BY FS_Singleton
  <2>3. IsFiniteSet(fetching) /\ Cardinality(fetching) <= 1
    BY <2>1, <2>2, FS_Subset
  <2>4. QED
    BY <2>3
<1>2. Init => TypeInv
  BY SchemaCacheInitTypeOK DEF TypeInv
<1>3. QED
  BY <1>1, <1>2, SchemaCacheTypeStep, PTL DEF Spec

\* A fetch never overwrites a live entry.
THEOREM SchemaCacheNoOverwrite == Spec => LiveEntryNotOverwritten
<1>1. Init => TypeInv /\ FetchedIsAbsent
  BY SchemaCacheInitTypeOK DEF TypeInv, Init, FetchedIsAbsent
<1> DEFINE Kept == \A d \in Datasets : Live(d) /\ cache'[d] # cache[d] => cache'[d] = NoEntry
<1>2. TypeInv /\ FetchedIsAbsent /\ [Next]_vars => [Kept]_vars
  <2> SUFFICES ASSUME TypeInv, FetchedIsAbsent, Next PROVE Kept
    OBVIOUS
  <2>1. ASSUME NEW r \in Requests, Store(r) PROVE Kept
    BY <2>1 DEF Store, TypeInv, TypeOK, Begun, FetchedIsAbsent, Live
  <2>2. ASSUME NEW d \in Datasets, Expire(d) \/ Invalidate(d) PROVE Kept
    BY <2>2 DEF Expire, Invalidate, TypeInv, TypeOK
  <2>3. ASSUME UNCHANGED cache PROVE Kept
    BY <2>3
  <2>4. QED
    BY <2>1, <2>2, <2>3 DEF Next, Progress,
     OwnStep, DatabaseAnswers, Alter, Disconnect, BeginHit, BeginMiss, Lead,
       Join, DoubleCheckHit, DoubleCheckMiss, ListTables, ListTablesFails,
       GetTableSchema, GetTableSchemaFails, Return
<1>3. QED
  BY <1>1, <1>2, SchemaCacheTypeStep, FetchedStaysAbsent, PTL
     DEF Spec, LiveEntryNotOverwritten

-----------------------------------------------------------------------------

FreshInv == TypeInv /\ FirmBounds /\ NeedBounds /\ InvalidationHonoured

\* An invalidation that meets no flight raises the bound when there is nothing
\* cached or being read; one that meets a flight leaves the bound alone.
LEMMA FreshStep == FreshInv /\ TypeInv' /\ [Next]_vars => FreshInv'
<1> SUFFICES ASSUME FreshInv, TypeInv', [Next]_vars
             PROVE  FirmBounds' /\ NeedBounds' /\ InvalidationHonoured'
  BY DEF FreshInv
<1> USE SchemaCacheAssumption, DescribedIsNotNone
    DEF SchemaCacheAssumption, FreshInv, TypeInv, TypeOK, FlightOK, Begun, Leading, Entries,
        FirmBounds, NeedBounds, InvalidationHonoured, AsNewAs
<1>1. ASSUME NEW d \in Datasets, Expire(d) PROVE FirmBounds' /\ NeedBounds' /\ InvalidationHonoured'
  BY <1>1 DEF Expire
<1>2. ASSUME NEW d \in Datasets, Alter(d) PROVE FirmBounds' /\ NeedBounds' /\ InvalidationHonoured'
  BY <1>2 DEF Alter
<1>3. ASSUME NEW d \in Datasets, Invalidate(d) PROVE FirmBounds' /\ NeedBounds' /\ InvalidationHonoured'
  BY <1>3 DEF Invalidate
<1>4. ASSUME NEW r \in Requests, Disconnect(r) PROVE FirmBounds' /\ NeedBounds' /\ InvalidationHonoured'
  BY <1>4 DEF Disconnect
<1>5. ASSUME NEW r \in Requests, NEW d \in Datasets, BeginHit(r, d) PROVE FirmBounds' /\ NeedBounds' /\ InvalidationHonoured'
  BY <1>5 DEF BeginHit, Live
<1>6. ASSUME NEW r \in Requests, NEW d \in Datasets, BeginMiss(r, d) PROVE FirmBounds' /\ NeedBounds' /\ InvalidationHonoured'
  BY <1>6 DEF BeginMiss, Live
<1>7. ASSUME NEW r \in Requests, Lead(r) PROVE FirmBounds' /\ NeedBounds' /\ InvalidationHonoured'
  BY <1>7 DEF Lead
<1>8. ASSUME NEW r \in Requests, Join(r) PROVE FirmBounds' /\ NeedBounds' /\ InvalidationHonoured'
  BY <1>8 DEF Join
<1>9. ASSUME NEW r \in Requests, DoubleCheckHit(r) PROVE FirmBounds' /\ NeedBounds' /\ InvalidationHonoured'
  BY <1>9 DEF DoubleCheckHit, Live
<1>10. ASSUME NEW r \in Requests, DoubleCheckMiss(r) PROVE FirmBounds' /\ NeedBounds' /\ InvalidationHonoured'
  BY <1>10 DEF DoubleCheckMiss, Live
<1>11. ASSUME NEW r \in Requests, ListTables(r) PROVE FirmBounds' /\ NeedBounds' /\ InvalidationHonoured'
  BY <1>11 DEF ListTables
<1>12. ASSUME NEW r \in Requests, ListTablesFails(r) PROVE FirmBounds' /\ NeedBounds' /\ InvalidationHonoured'
  BY <1>12 DEF ListTablesFails
<1>13. ASSUME NEW r \in Requests, NEW t \in Tables, GetTableSchema(r, t) PROVE FirmBounds' /\ NeedBounds' /\ InvalidationHonoured'
  BY <1>13 DEF GetTableSchema, WithTable
<1>14. ASSUME NEW r \in Requests, NEW t \in Tables, GetTableSchemaFails(r, t) PROVE FirmBounds' /\ NeedBounds' /\ InvalidationHonoured'
  BY <1>14 DEF GetTableSchemaFails
<1>15. ASSUME NEW r \in Requests, Store(r) PROVE FirmBounds' /\ NeedBounds' /\ InvalidationHonoured'
  BY <1>15 DEF Store, AllRead
<1>16. ASSUME NEW r \in Requests, Return(r) PROVE FirmBounds' /\ NeedBounds' /\ InvalidationHonoured'
  <2>1. /\ pc[r] = "returning" /\ ds[r] \in Datasets
        /\ version' = version /\ cache' = cache /\ firm' = firm /\ need' = need /\ ds' = ds
    BY <1>16 DEF Return
  <2>2. \A q \in Requests :
          /\ section'[q] = IF q \in Waiters(r) \cup {r} THEN section[r] ELSE section[q]
          /\ pc'[q] = IF q \in Waiters(r) \cup {r} THEN "done" ELSE pc[q]
    BY <1>16 DEF Return
  <2>3. NeedBounds'
    BY <2>1, <2>2 DEF Waiters
  <2>4. FirmBounds'
    BY <2>1, <2>2
  <2>5. ASSUME NEW q \in Requests, pc'[q] = "done", section'[q] # NoSection,
               NEW t \in DOMAIN section'[q]
        PROVE  section'[q][t] >= need'[q].firm
    <3>1. CASE q \in Waiters(r) \cup {r}
      <4>1. section'[q] = section[r] /\ ds[q] = ds[r] /\ pc[q] # "idle"
        BY <2>1, <2>2, <3>1 DEF Waiters
      <4>2. section[r][t] >= firm[ds[r]] /\ need[q].firm <= firm[ds[r]]
        BY <2>1, <2>5, <4>1
      <4>3. section[r] \in Described
        BY <2>5, <4>1 DEF Sections
      <4>4. section[r][t] \in Nat
        <5>1. PICK S \in SUBSET Tables : section[r] \in [S -> 0..MaxVersion]
          BY <4>3, DescribedSpelledOut
        <5>2. QED
          BY <2>5, <4>1, <5>1
      <4>5. need[q].firm \in Nat /\ firm[ds[r]] \in Nat
        BY <2>1
      <4>6. QED
        BY <2>1, <4>1, <4>2, <4>4, <4>5
    <3>2. CASE q \notin Waiters(r) \cup {r}
      BY <2>1, <2>2, <2>5, <3>2
    <3>3. QED
      BY <3>1, <3>2
  <2>6. QED
    BY <2>3, <2>4, <2>5
<1>17. CASE UNCHANGED vars
  BY <1>17 DEF vars
<1>18. QED
  BY <1>1, <1>2, <1>3, <1>4, <1>5, <1>6, <1>7, <1>8,
     <1>9, <1>10, <1>11, <1>12, <1>13, <1>14, <1>15, <1>16, <1>17 DEF Next, Progress,
     OwnStep, DatabaseAnswers

CompleteInv == TypeInv /\ Complete /\ CompleteUnlessTroubled

\* No step loses a table while no call has failed.
LEMMA CompleteStep == CompleteInv /\ TypeInv' /\ [Next]_vars => CompleteInv'
<1> SUFFICES ASSUME CompleteInv, TypeInv', [Next]_vars
             PROVE  Complete' /\ CompleteUnlessTroubled'
  BY DEF CompleteInv
<1> USE SchemaCacheAssumption, DescribedIsNotNone
    DEF SchemaCacheAssumption, CompleteInv, TypeInv, TypeOK, FlightOK, Begun, Leading, Entries,
        Complete, CompleteUnlessTroubled
<1>1. ASSUME NEW d \in Datasets, Expire(d) PROVE Complete' /\ CompleteUnlessTroubled'
  BY <1>1 DEF Expire
<1>2. ASSUME NEW d \in Datasets, Alter(d) PROVE Complete' /\ CompleteUnlessTroubled'
  BY <1>2 DEF Alter
<1>3. ASSUME NEW d \in Datasets, Invalidate(d) PROVE Complete' /\ CompleteUnlessTroubled'
  BY <1>3 DEF Invalidate
<1>4. ASSUME NEW r \in Requests, Disconnect(r) PROVE Complete' /\ CompleteUnlessTroubled'
  BY <1>4 DEF Disconnect
<1>5. ASSUME NEW r \in Requests, NEW d \in Datasets, BeginHit(r, d) PROVE Complete' /\ CompleteUnlessTroubled'
  BY <1>5 DEF BeginHit, Live
<1>6. ASSUME NEW r \in Requests, NEW d \in Datasets, BeginMiss(r, d) PROVE Complete' /\ CompleteUnlessTroubled'
  BY <1>6 DEF BeginMiss, Live
<1>7. ASSUME NEW r \in Requests, Lead(r) PROVE Complete' /\ CompleteUnlessTroubled'
  BY <1>7 DEF Lead
<1>8. ASSUME NEW r \in Requests, Join(r) PROVE Complete' /\ CompleteUnlessTroubled'
  BY <1>8 DEF Join
<1>9. ASSUME NEW r \in Requests, DoubleCheckHit(r) PROVE Complete' /\ CompleteUnlessTroubled'
  BY <1>9 DEF DoubleCheckHit, Live
<1>10. ASSUME NEW r \in Requests, DoubleCheckMiss(r) PROVE Complete' /\ CompleteUnlessTroubled'
  BY <1>10 DEF DoubleCheckMiss, Live
<1>11. ASSUME NEW r \in Requests, ListTables(r) PROVE Complete' /\ CompleteUnlessTroubled'
  BY <1>11 DEF ListTables
<1>12. ASSUME NEW r \in Requests, ListTablesFails(r) PROVE Complete' /\ CompleteUnlessTroubled'
  BY <1>12 DEF ListTablesFails
<1>13. ASSUME NEW r \in Requests, NEW t \in Tables, GetTableSchema(r, t) PROVE Complete' /\ CompleteUnlessTroubled'
  BY <1>13 DEF GetTableSchema, WithTable
<1>14. ASSUME NEW r \in Requests, NEW t \in Tables, GetTableSchemaFails(r, t) PROVE Complete' /\ CompleteUnlessTroubled'
  BY <1>14 DEF GetTableSchemaFails
<1>15. ASSUME NEW r \in Requests, Store(r) PROVE Complete' /\ CompleteUnlessTroubled'
  <2>1. /\ pc[r] = "reading" /\ ds[r] \in Datasets /\ pending[ds[r]] = {}
        /\ section[r] \in Described /\ section[r] # NoSection
        /\ cache' = [cache EXCEPT ![ds[r]] = section[r]]
        /\ pc' = [pc EXCEPT ![r] = "returning"]
        /\ UNCHANGED <<ds, section, pending, troubled>>
    BY <1>15 DEF Store, AllRead
  <2>2. ds[r] \notin troubled => DOMAIN section[r] = Tables
    <3>1. Tables \ {} = Tables
      OBVIOUS
    <3>2. ds[r] \notin troubled => DOMAIN section[r] = Tables \ pending[ds[r]]
      BY <2>1
    <3>3. QED
      BY <2>1, <3>1, <3>2
  <2>3. Complete'
    BY <2>1, <2>2
  <2>4. CompleteUnlessTroubled'
    BY <2>1
  <2>5. QED
    BY <2>3, <2>4
<1>16. ASSUME NEW r \in Requests, Return(r) PROVE Complete' /\ CompleteUnlessTroubled'
  BY <1>16 DEF Return, FlightForgotten, Waiters
<1>17. CASE UNCHANGED vars
  BY <1>17 DEF vars
<1>18. QED
  BY <1>1, <1>2, <1>3, <1>4, <1>5, <1>6, <1>7, <1>8,
     <1>9, <1>10, <1>11, <1>12, <1>13, <1>14, <1>15, <1>16, <1>17 DEF Next, Progress,
     OwnStep, DatabaseAnswers

\* A request that begins after an invalidation which met no fetch never sees a
\* table as it was before.
THEOREM SchemaCacheInvalidation == Spec => []InvalidationHonoured
<1>1. Init => FreshInv
  <2> SUFFICES ASSUME Init PROVE FirmBounds /\ NeedBounds /\ InvalidationHonoured
    BY SchemaCacheInitTypeOK DEF FreshInv, TypeInv
  <2> QED
    BY SchemaCacheAssumption
       DEF SchemaCacheAssumption, Init, FirmBounds, NeedBounds, InvalidationHonoured
<1>2. Init => TypeInv
  BY SchemaCacheInitTypeOK DEF TypeInv
<1>3. FreshInv => InvalidationHonoured
  BY DEF FreshInv
<1>4. QED
  BY <1>1, <1>2, <1>3, SchemaCacheTypeStep, FreshStep, PTL DEF Spec

\* As long as no BigQuery call for a dataset has failed, whoever asks about it
\* is told all its tables.
THEOREM SchemaCacheComplete == Spec => []CompleteUnlessTroubled
<1>1. Init => CompleteInv
  <2> SUFFICES ASSUME Init PROVE Complete /\ CompleteUnlessTroubled
    BY SchemaCacheInitTypeOK DEF CompleteInv, TypeInv
  <2> QED
    BY SchemaCacheAssumption
       DEF SchemaCacheAssumption, Init, Complete, CompleteUnlessTroubled
<1>2. Init => TypeInv
  BY SchemaCacheInitTypeOK DEF TypeInv
<1>3. CompleteInv => CompleteUnlessTroubled
  BY DEF CompleteInv
<1>4. QED
  BY <1>1, <1>2, <1>3, SchemaCacheTypeStep, CompleteStep, PTL DEF Spec
-----------------------------------------------------------------------------
(***************************************************************************)
(* What a lookup still has before it, in steps of the request that does    *)
(* the work: its own, or those of the leader it waits for.  Only that      *)
(* request takes from it, and nobody adds to it: this is what              *)
(* EveryLookupReturns rests on, next to fairness.                          *)
(***************************************************************************)
\* The steps a request at p has left, with n tables still to read.
Rank(p, n) ==
  CASE p = "idle"      -> Cardinality(Tables) + 6
    [] p = "missed"    -> Cardinality(Tables) + 5
    [] p = "leading"   -> Cardinality(Tables) + 4
    [] p = "listing"   -> Cardinality(Tables) + 3
    [] p = "reading"   -> n + 2
    [] p = "returning" -> 1
    [] p = "done"      -> 0

\* Who works for a request: itself, or the leader of the flight it has joined.
Worker(r) == IF pc[r] = "waiting" THEN flight[ds[r]] ELSE r

Remaining(r) == Rank(pc[Worker(r)], Cardinality(pending[ds[r]]))

\* Somebody works for each request that is in getSchemaSection, until it is out.
LEMMA WorkerWorks ==
  TypeInv => \A r \in Requests :
               /\ Worker(r) \in Requests /\ pc[Worker(r)] # "waiting"
               /\ pc[r] = "waiting" => /\ pc[Worker(r)] \in Leading
                                       /\ ds[Worker(r)] = ds[r]
  BY SchemaCacheAssumption
     DEF SchemaCacheAssumption, TypeInv, TypeOK, FlightOK, Begun, Worker, Leading

\* No more tables are left to read than there are.
LEMMA PendingIsFinite ==
  TypeInv => \A d \in Datasets : /\ IsFiniteSet(pending[d])
                                 /\ Cardinality(pending[d]) \in 0..Cardinality(Tables)
<1> SUFFICES ASSUME TypeInv, NEW d \in Datasets
             PROVE  /\ IsFiniteSet(pending[d])
                    /\ Cardinality(pending[d]) \in 0..Cardinality(Tables)
  OBVIOUS
<1>1. pending[d] \subseteq Tables
  BY DEF TypeInv, TypeOK
<1>2. IsFiniteSet(pending[d]) /\ Cardinality(pending[d]) <= Cardinality(Tables)
  BY <1>1, FiniteTables, FS_Subset
<1>3. Cardinality(pending[d]) \in Nat /\ Cardinality(Tables) \in Nat
  BY <1>2, FiniteTables, FS_CardinalityType
<1>4. QED
  BY <1>2, <1>3

\* What is left is a number, and none only when the lookup has returned.
LEMMA RemainingIsNat ==
  TypeInv => \A q \in Requests : /\ Remaining(q) \in 0..(Cardinality(Tables) + 6)
                                 /\ Remaining(q) = 0 <=> pc[q] = "done"
<1> SUFFICES ASSUME TypeInv, NEW q \in Requests
             PROVE  /\ Remaining(q) \in 0..(Cardinality(Tables) + 6)
                    /\ Remaining(q) = 0 <=> pc[q] = "done"
  OBVIOUS
<1>1. Cardinality(Tables) \in Nat
  BY FiniteTables, FS_CardinalityType
<1>2. pc[Worker(q)] = "reading" => Cardinality(pending[ds[q]]) \in 0..Cardinality(Tables)
  <2>1. pc[Worker(q)] = "reading" => ds[q] \in Datasets
    BY WorkerWorks DEF TypeInv, Begun, Worker
  <2>2. QED
    BY <2>1, PendingIsFinite
<1>3. /\ pc[Worker(q)] \in {"idle", "missed", "done"} \cup Leading
      /\ pc[Worker(q)] = "done" <=> pc[q] = "done"
  BY WorkerWorks DEF TypeInv, TypeOK, Leading, Worker
<1>4. QED
  BY <1>1, <1>2, <1>3 DEF Remaining, Rank, Leading

\* A step of r takes from what those have left for whom r works, and adds to
\* nobody's.
Spent(q, r) ==
  /\ Remaining(q)' <= Remaining(q)
  /\ Worker(q) = r => Remaining(q)' < Remaining(q)

\* Singleflight makes it so: of the requests for a dataset only one reads, so
\* that nobody else's tables become pending again when it lists them.
LEMMA WorkerSpends ==
  TypeInv => \A r \in Requests, q \in Requests : Progress(r) => Spent(q, r)
<1> SUFFICES ASSUME TypeInv, NEW r \in Requests, NEW q \in Requests, Progress(r)
             PROVE  Spent(q, r)
  OBVIOUS
<1> DEFINE N == Cardinality(Tables)
<1>1. N \in Nat /\ \A d \in Datasets : Cardinality(pending[d]) \in 0..N
  BY PendingIsFinite, FiniteTables, FS_CardinalityType
<1>2. /\ Worker(q) \in Requests /\ pc[Worker(q)] # "waiting"
      /\ pc[q] = "waiting" => pc[Worker(q)] \in Leading /\ ds[Worker(q)] = ds[q]
  BY WorkerWorks
<1>3. pc[r] # "idle" /\ ds[r] \in Datasets
  BY DEF Progress,
     OwnStep, DatabaseAnswers, Lead, Join, DoubleCheckHit, DoubleCheckMiss, ListTables,
     ListTablesFails, GetTableSchema, GetTableSchemaFails, Store, Return, TypeInv, Begun
<1> HIDE DEF N
<1>4. CASE ListTables(r)
  <2>1. /\ pc[r] = "listing" /\ pc' = [pc EXCEPT ![r] = "reading"]
        /\ pending' = [pending EXCEPT ![ds[r]] = Tables]
        /\ UNCHANGED <<ds, flight>>
    BY <1>4 DEF ListTables
  <2>2. Worker(q)' = Worker(q)
    BY <2>1 DEF Worker, TypeInv, TypeOK
  <2>3. CASE Worker(q) = r
    <3>1. ds[q] = ds[r] /\ pc[Worker(q)] = "listing"
      BY <1>2, <2>1, <2>3 DEF Worker
    <3>2. pc'[Worker(q)'] = "reading" /\ Cardinality(pending'[ds'[q]]) = N
      BY <1>3, <2>1, <2>2, <2>3, <3>1 DEF TypeInv, TypeOK, N
    <3>3. Remaining(q) = N + 3 /\ Remaining(q)' = N + 2
      BY <3>1, <3>2 DEF Remaining, Rank, N
    <3>4. QED
      BY <1>1, <3>3 DEF Spent
  <2>4. CASE Worker(q) # r
    <3>1. pc'[Worker(q)'] = pc[Worker(q)]
      BY <1>2, <2>1, <2>2, <2>4 DEF TypeInv, TypeOK
    <3>2. pc[Worker(q)] = "reading" => ds[q] # ds[r]
      BY <1>2, <2>1, <2>4 DEF Worker, Leading, TypeInv, TypeOK, FlightOK
    <3>3. pc[Worker(q)] = "reading" => pending'[ds'[q]] = pending[ds[q]]
      BY <2>1, <3>2 DEF TypeInv, TypeOK
    <3>4. Remaining(q)' = Remaining(q)
      BY <3>1, <3>3 DEF Remaining, Rank
    <3>5. Remaining(q) \in Nat
      BY RemainingIsNat
    <3>6. QED
      BY <2>4, <3>4, <3>5 DEF Spent
  <2>5. QED
    BY <2>3, <2>4
<1> USE <1>1, <1>2, <1>3, SchemaCacheAssumption
    DEF SchemaCacheAssumption, TypeInv, TypeOK, FlightOK, Begun, Leading, Spent, Remaining, Worker,
        Rank, N
<1>5. CASE Lead(r)
  BY <1>5 DEF Lead
<1>6. CASE Join(r)
  BY <1>6 DEF Join
<1>7. CASE DoubleCheckHit(r)
  BY <1>7 DEF DoubleCheckHit
<1>8. CASE DoubleCheckMiss(r)
  BY <1>8 DEF DoubleCheckMiss
<1>9. CASE ListTablesFails(r)
  BY <1>9 DEF ListTablesFails
<1>10. ASSUME NEW t \in Tables, GetTableSchema(r, t) \/ GetTableSchemaFails(r, t)
       PROVE  Spent(q, r)
  <2>1. /\ pc[r] = "reading" /\ t \in pending[ds[r]] /\ UNCHANGED <<pc, ds, flight>>
        /\ pending' = [pending EXCEPT ![ds[r]] = @ \ {t}]
    BY <1>10 DEF GetTableSchema, GetTableSchemaFails
  <2>2. Cardinality(pending[ds[r]] \ {t}) = Cardinality(pending[ds[r]]) - 1
    <3>1. IsFiniteSet(pending[ds[r]])
      BY PendingIsFinite
    <3>2. QED
      BY ONLY <2>1, <3>1, FS_RemoveElement
  <2>3. QED
    BY <2>1, <2>2
<1>11. CASE Store(r)
  BY <1>11 DEF Store
<1>12. CASE Return(r)
  <2>1. /\ pc[r] = "returning" /\ flight[ds[r]] = r
        /\ UNCHANGED <<ds, pending>>
        /\ flight' = [flight EXCEPT ![ds[r]] = NoFlight]
    BY <1>12 DEF Return, FlightForgotten
  <2>2. \A p \in Requests :
          pc'[p] = IF (pc[p] = "waiting" /\ ds[p] = ds[r]) \/ p = r THEN "done"
                   ELSE pc[p]
    BY <1>12 DEF Return, Waiters
  <2>3. CASE Worker(q) = r
    <3>1. pc'[q] = "done" /\ pc[Worker(q)] = "returning"
      BY <2>1, <2>2, <2>3
    <3>2. QED
      BY <2>3, <3>1
  <2>4. CASE Worker(q) # r
    <3>1. pc'[q] = pc[q]
      BY <2>1, <2>2, <2>4
    <3>2. Worker(q)' = Worker(q) /\ pc'[Worker(q)] = pc[Worker(q)]
      BY <2>1, <2>2, <2>4, <3>1
    <3>3. QED
      BY <2>1, <2>4, <3>1, <3>2
  <2>5. QED
    BY <2>3, <2>4
<1>13. QED
  BY <1>4, <1>5, <1>6, <1>7, <1>8, <1>9, <1>10, <1>11, <1>12 DEF Progress,
     OwnStep, DatabaseAnswers

\* No other step gives a request more to wait for.
LEMMA NobodyAdds ==
  TypeInv /\ [Next]_vars => \A q \in Requests : Remaining(q)' <= Remaining(q)
<1> SUFFICES ASSUME TypeInv, [Next]_vars, NEW q \in Requests
             PROVE  Remaining(q)' <= Remaining(q)
  OBVIOUS
<1>1. Remaining(q) \in Nat /\ Cardinality(Tables) \in Nat
  BY RemainingIsNat, FiniteTables, FS_CardinalityType
<1>2. ASSUME NEW r \in Requests, Progress(r) PROVE Remaining(q)' <= Remaining(q)
  BY <1>2, WorkerSpends DEF Spent
<1>3. ASSUME UNCHANGED <<pc, ds, flight, pending>>
      PROVE  Remaining(q)' <= Remaining(q)
  <2>1. Remaining(q)' = Remaining(q)
    BY <1>3 DEF Remaining, Worker
  <2>2. QED
    BY <1>1, <2>1
<1>4. ASSUME NEW r \in Requests, NEW d \in Datasets, BeginHit(r, d) \/ BeginMiss(r, d)
      PROVE  Remaining(q)' <= Remaining(q)
  <2>1. pc[r] = "idle" /\ UNCHANGED <<flight, pending>>
    BY <1>4 DEF BeginHit, BeginMiss
  <2>2. /\ pc' \in {[pc EXCEPT ![r] = "done"], [pc EXCEPT ![r] = "missed"]}
        /\ ds' = [ds EXCEPT ![r] = d]
    BY <1>4 DEF BeginHit, BeginMiss
  <2>3. CASE q = r
    BY <1>1, <2>1, <2>2, <2>3 DEF Remaining, Worker, Rank, TypeInv, TypeOK
  <2>4. CASE q # r
    <3>1. Worker(q) # r /\ Worker(q) \in Requests
      BY <2>1, <2>4, WorkerWorks DEF Worker, Leading
    <3>2. pc'[q] = pc[q] /\ ds'[q] = ds[q]
      BY <2>2, <2>4 DEF TypeInv, TypeOK
    <3>3. Worker(q)' = Worker(q) /\ pc'[Worker(q)] = pc[Worker(q)]
      BY <2>1, <2>2, <3>1, <3>2 DEF Worker, TypeInv, TypeOK
    <3>4. Remaining(q)' = Remaining(q)
      BY <2>1, <3>2, <3>3 DEF Remaining
    <3>5. QED
      BY <1>1, <3>4
  <2>5. QED
    BY <2>3, <2>4
<1>5. QED
  BY <1>2, <1>3, <1>4 DEF Next, vars, Expire, Alter, Invalidate, Disconnect

\* A lookup waits for at most as many steps as there are tables, and six, all of
\* the request that works for it: each of these steps takes one away, nobody's
\* step adds any, and until the lookup has returned there is a request that
\* works for it, however leaders fail, clients leave and entries come and go.
THEOREM SchemaCacheLookupsAdvance ==
  Spec => /\ [](\A q \in Requests :
                  /\ Remaining(q) \in 0..(Cardinality(Tables) + 6)
                  /\ Remaining(q) = 0 <=> pc[q] = "done"
                  /\ pc[q] = "waiting" => pc[Worker(q)] \in Leading)
          /\ [][\A q \in Requests :
                  /\ Remaining(q)' <= Remaining(q)
                  /\ Progress(Worker(q)) => Remaining(q)' < Remaining(q)]_vars
<1> DEFINE Bounded == \A q \in Requests :
                        /\ Remaining(q) \in 0..(Cardinality(Tables) + 6)
                        /\ Remaining(q) = 0 <=> pc[q] = "done"
                        /\ pc[q] = "waiting" => pc[Worker(q)] \in Leading
           Advance == \A q \in Requests :
                        /\ Remaining(q)' <= Remaining(q)
                        /\ Progress(Worker(q)) => Remaining(q)' < Remaining(q)
<1>1. Init => TypeInv
  BY SchemaCacheInitTypeOK DEF TypeInv
<1>2. TypeInv => Bounded
  BY RemainingIsNat, WorkerWorks
<1>3. TypeInv /\ [Next]_vars => [Advance]_vars
  <2> SUFFICES ASSUME TypeInv, Next, NEW q \in Requests
               PROVE  /\ Remaining(q)' <= Remaining(q)
                      /\ Progress(Worker(q)) => Remaining(q)' < Remaining(q)
    OBVIOUS
  <2>1. Remaining(q)' <= Remaining(q)
    BY NobodyAdds
  <2>2. Worker(q) \in Requests
    BY WorkerWorks
  <2>3. Progress(Worker(q)) => Remaining(q)' < Remaining(q)
    BY <2>2, WorkerSpends DEF Spent
  <2>4. QED
    BY <2>1, <2>3
<1> HIDE DEF Bounded, Advance
<1>4. Spec => []Bounded /\ [][Advance]_vars
  BY <1>1, <1>2, <1>3, SchemaCacheTypeStep, PTL DEF Spec
<1>5. QED
  BY <1>4 DEF Bounded, Advance

=============================================================================
