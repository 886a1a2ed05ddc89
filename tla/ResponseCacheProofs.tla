------------------------- MODULE ResponseCacheProofs -------------------------
(***************************************************************************)
(* Proofs about ResponseCache for every set of requests, users, personas,  *)
(* prompts and datasets.                                                   *)
(***************************************************************************)
EXTENDS ResponseCache, TLAPS

USE ResponseCacheAssumption DEF ResponseCacheAssumption

\* A request that has come has a query, and the query a key.
LEMMA KeyOfQuery ==
  /\ NoQuery \notin Queries
  /\ \A q \in Queries : Key(q) \in Keys /\ q.dry \in BOOLEAN /\ q.user \in Users
  BY DEF Queries, Keys

\* The initial state is well typed.
LEMMA ResponseCacheInit == Init => TypeOK
<1> SUFFICES ASSUME Init PROVE TypeOK
  OBVIOUS
<1> USE DEF Init
<1>1. pc \in [Requests -> {"idle", "arrived", "running", "sent", "failed",
                           "lost"} \cup Touching]
  OBVIOUS
<1>2. query \in [Requests -> Queries \cup {NoQuery}]
  OBVIOUS
<1>3. cache \in [Keys -> Requests \cup {NoResponse}]
  OBVIOUS
<1>4. held \in [Requests -> Requests \cup {NoResponse}]
  OBVIOUS
<1>5. tag \in [Requests -> {"none", "miss", "hit"}]
  OBVIOUS
<1>6. persona \in [Requests -> Personas \cup {NoPersona}]
  OBVIOUS
<1>7. sent \in [Requests -> Labels]
  BY DEF Labels
<1>8. shared \in SUBSET Requests /\ retired \in SUBSET Requests
  OBVIOUS
<1>9. HeldOK
  BY DEF HeldOK, Touching, Writing, Ran
<1>10. QED
  BY <1>1, <1>2, <1>3, <1>4, <1>5, <1>6, <1>7, <1>8, <1>9 DEF TypeOK

\* The types of the variables, apart from HeldOK, are kept.
LEMMA TypesStep == TypeOK /\ [Next]_vars => TypeOK'
<1> SUFFICES ASSUME TypeOK, [Next]_vars PROVE TypeOK'
  OBVIOUS
<1> USE KeyOfQuery DEF TypeOK, HeldOK, Touching, Writing, Ran, Labels
<1>1. ASSUME NEW r \in Requests, NEW q \in Queries, Arrive(r, q) PROVE TypeOK'
  BY <1>1 DEF Arrive, Go
<1>2. ASSUME NEW r \in Requests, Reject(r) PROVE TypeOK'
  BY <1>2 DEF Reject, Go
<1>3. ASSUME NEW r \in Requests, LookupHit(r) PROVE TypeOK'
  BY <1>3 DEF LookupHit, Go, Hit, With
<1>4. ASSUME NEW r \in Requests, LookupMiss(r) PROVE TypeOK'
  BY <1>4 DEF LookupMiss, Go, Hit
<1>5. ASSUME NEW r \in Requests, MarkHit(r) PROVE TypeOK'
  BY <1>5 DEF MarkHit, Go
<1>6. ASSUME NEW r \in Requests, RunSucceeds(r) PROVE TypeOK'
  BY <1>6 DEF RunSucceeds, Go, StoredFor
<1>7. ASSUME NEW r \in Requests, RunFails(r) PROVE TypeOK'
  BY <1>7 DEF RunFails, Go
<1>8. ASSUME NEW r \in Requests, Label(r) PROVE TypeOK'
  BY <1>8 DEF Label, Go
<1>9. ASSUME NEW r \in Requests, Encode(r) PROVE TypeOK'
  BY <1>9 DEF Encode, Go
<1>10. ASSUME NEW r \in Requests, NEW s \in Requests, Fault(r, s) PROVE TypeOK'
  BY <1>10 DEF Fault, Go, Emptied
<1>11. CASE Flush
  BY <1>11 DEF Flush, Go, Emptied
<1>12. ASSUME NEW k \in Keys, Expire(k) PROVE TypeOK'
  BY <1>12 DEF Expire, Go
<1>13. CASE UNCHANGED vars
  BY <1>13 DEF vars
<1>14. QED
  BY <1>1, <1>2, <1>3, <1>4, <1>5, <1>6, <1>7, <1>8,
     <1>9, <1>10, <1>11, <1>12, <1>13 DEF Next

\* Every state is well typed; a request holds a response exactly while it
\* should, and what is cached or held has been made.
THEOREM ResponseCacheTypeOK == Spec => []TypeOK
  BY ResponseCacheInit, TypesStep, PTL DEF Spec

-----------------------------------------------------------------------------
\* A request that was answered from the cache shares its key with the maker.
HeldFor ==
  \A r \in Requests : held[r] # NoResponse /\ held[r] # r =>
    LET q == query[held[r]]
    IN  q \in Queries /\ Key(q) = Key(query[r]) /\ ~q.dry /\ ~query[r].dry

KeyedInv == TypeOK /\ CachedForItsKey /\ HeldFor

\* No step puts a response under a key that is not its query's.
LEMMA KeyedStep == KeyedInv /\ [Next]_vars => KeyedInv'
<1> SUFFICES ASSUME KeyedInv, [Next]_vars, TypeOK' PROVE CachedForItsKey' /\ HeldFor'
  BY TypesStep DEF KeyedInv
<1> USE KeyOfQuery
    DEF KeyedInv, TypeOK, HeldOK, Touching, Writing, Ran, CachedForItsKey, HeldFor
<1>1. ASSUME NEW r \in Requests, NEW q \in Queries, Arrive(r, q) PROVE CachedForItsKey' /\ HeldFor'
  BY <1>1 DEF Arrive, Go
<1>2. ASSUME NEW r \in Requests, Reject(r) PROVE CachedForItsKey' /\ HeldFor'
  BY <1>2 DEF Reject, Go
<1>3. ASSUME NEW r \in Requests, LookupHit(r) PROVE CachedForItsKey' /\ HeldFor'
  BY <1>3 DEF LookupHit, Go, Hit, With
<1>4. ASSUME NEW r \in Requests, LookupMiss(r) PROVE CachedForItsKey' /\ HeldFor'
  BY <1>4 DEF LookupMiss, Go, Hit
<1>5. ASSUME NEW r \in Requests, MarkHit(r) PROVE CachedForItsKey' /\ HeldFor'
  BY <1>5 DEF MarkHit, Go
<1>6. ASSUME NEW r \in Requests, RunSucceeds(r) PROVE CachedForItsKey' /\ HeldFor'
  BY <1>6 DEF RunSucceeds, Go, StoredFor
<1>7. ASSUME NEW r \in Requests, RunFails(r) PROVE CachedForItsKey' /\ HeldFor'
  BY <1>7 DEF RunFails, Go
<1>8. ASSUME NEW r \in Requests, Label(r) PROVE CachedForItsKey' /\ HeldFor'
  BY <1>8 DEF Label, Go
<1>9. ASSUME NEW r \in Requests, Encode(r) PROVE CachedForItsKey' /\ HeldFor'
  BY <1>9 DEF Encode, Go
<1>10. ASSUME NEW r \in Requests, NEW s \in Requests, Fault(r, s) PROVE CachedForItsKey' /\ HeldFor'
  BY <1>10 DEF Fault, Go, Emptied
<1>11. CASE Flush
  BY <1>11 DEF Flush, Go, Emptied
<1>12. ASSUME NEW k \in Keys, Expire(k) PROVE CachedForItsKey' /\ HeldFor'
  BY <1>12 DEF Expire, Go
<1>13. CASE UNCHANGED vars
  BY <1>13 DEF vars
<1>14. QED
  BY <1>1, <1>2, <1>3, <1>4, <1>5, <1>6, <1>7, <1>8,
     <1>9, <1>10, <1>11, <1>12, <1>13 DEF Next

\* Init establishes the invariant, whose first part is the typing.
LEMMA KeyedAlways == Spec => []KeyedInv
<1>1. Init => KeyedInv
  BY ResponseCacheInit DEF Init, KeyedInv, CachedForItsKey, HeldFor
<1>2. QED
  BY <1>1, KeyedStep, PTL DEF Spec

\* Whatever is cached was made for a query of its key that was no dry run.
THEOREM ResponseCacheKeyed == Spec => []CachedForItsKey
<1>1. KeyedInv => CachedForItsKey
  BY DEF KeyedInv
<1>2. QED
  BY <1>1, KeyedAlways, PTL

-----------------------------------------------------------------------------
\* Nothing made before the last flush is in the cache, or will be put there.
RetiredInv ==
  /\ retired \subseteq Ran
  /\ \A k \in Keys : cache[k] # NoResponse => cache[k] \notin retired

\* No step puts a retired response back into the cache.
LEMMA RetiredStep == TypeOK /\ RetiredInv /\ [Next]_vars => RetiredInv'
<1> SUFFICES ASSUME TypeOK, RetiredInv, [Next]_vars PROVE RetiredInv'
  OBVIOUS
<1> USE KeyOfQuery DEF TypeOK, HeldOK, Touching, Writing, Ran, RetiredInv
<1>1. ASSUME NEW r \in Requests, NEW q \in Queries, Arrive(r, q) PROVE RetiredInv'
  BY <1>1 DEF Arrive, Go
<1>2. ASSUME NEW r \in Requests, Reject(r) PROVE RetiredInv'
  BY <1>2 DEF Reject, Go
<1>3. ASSUME NEW r \in Requests, LookupHit(r) PROVE RetiredInv'
  BY <1>3 DEF LookupHit, Go, Hit, With
<1>4. ASSUME NEW r \in Requests, LookupMiss(r) PROVE RetiredInv'
  BY <1>4 DEF LookupMiss, Go, Hit
<1>5. ASSUME NEW r \in Requests, MarkHit(r) PROVE RetiredInv'
  BY <1>5 DEF MarkHit, Go
<1>6. ASSUME NEW r \in Requests, RunSucceeds(r) PROVE RetiredInv'
  BY <1>6 DEF RunSucceeds, Go, StoredFor
<1>7. ASSUME NEW r \in Requests, RunFails(r) PROVE RetiredInv'
  BY <1>7 DEF RunFails, Go
<1>8. ASSUME NEW r \in Requests, Label(r) PROVE RetiredInv'
  BY <1>8 DEF Label, Go
<1>9. ASSUME NEW r \in Requests, Encode(r) PROVE RetiredInv'
  BY <1>9 DEF Encode, Go
<1>10. ASSUME NEW r \in Requests, NEW s \in Requests, Fault(r, s) PROVE RetiredInv'
  BY <1>10 DEF Fault, Go, Emptied
<1>11. CASE Flush
  BY <1>11 DEF Flush, Go, Emptied
<1>12. ASSUME NEW k \in Keys, Expire(k) PROVE RetiredInv'
  BY <1>12 DEF Expire, Go
<1>13. CASE UNCHANGED vars
  BY <1>13 DEF vars
<1>14. QED
  BY <1>1, <1>2, <1>3, <1>4, <1>5, <1>6, <1>7, <1>8,
     <1>9, <1>10, <1>11, <1>12, <1>13 DEF Next

\* A lookup never finds what was complete when the cache was last flushed.
THEOREM ResponseCacheFlush == Spec => FlushHonoured
<1> DEFINE Honoured == \A r \in Requests :
             pc[r] = "arrived" /\ pc'[r] = "hit" => held'[r] \notin retired
<1>1. Init => RetiredInv
  BY DEF Init, RetiredInv
<1>2. TypeOK /\ RetiredInv /\ [Next]_vars => [Honoured]_vars
  <2> SUFFICES ASSUME TypeOK, RetiredInv, Next PROVE Honoured
    OBVIOUS
  <2> USE KeyOfQuery DEF TypeOK, HeldOK, RetiredInv
  <2>1. ASSUME NEW r \in Requests, LookupHit(r) PROVE Honoured
    BY <2>1 DEF LookupHit, Hit, Go
  <2>2. ASSUME NEW r \in Requests, NEW q \in Queries, Arrive(r, q) PROVE Honoured
    BY <2>2 DEF Arrive, Go
  <2>3. ASSUME NEW r \in Requests,
               \/ Reject(r) \/ LookupMiss(r) \/ MarkHit(r) \/ RunSucceeds(r)
               \/ RunFails(r) \/ Label(r) \/ Encode(r)
        PROVE  Honoured
    BY <2>3 DEF Reject, LookupMiss, MarkHit, RunSucceeds, RunFails, Label, Encode, Go
  <2>4. ASSUME NEW r \in Requests, NEW s \in Requests, Fault(r, s) PROVE Honoured
    BY <2>4 DEF Fault
  <2>5. CASE Flush
    BY <2>5 DEF Flush
  <2>6. ASSUME NEW k \in Keys, Expire(k) PROVE Honoured
    BY <2>6 DEF Expire
  <2>7. QED
    BY <2>1, <2>2, <2>3, <2>4, <2>5, <2>6 DEF Next
<1>3. Spec => []RetiredInv
  BY <1>1, RetiredStep, ResponseCacheTypeOK, PTL DEF Spec
<1>4. QED
  BY <1>2, <1>3, ResponseCacheTypeOK, PTL DEF Spec, FlushHonoured

-----------------------------------------------------------------------------
\* Requests in one response together are known to share it; one that is alone
\* finds there the labels it wrote.
LabelsInv ==
  /\ \A r \in Requests : pc[r] = "running" =>
       tag[r] = IF query[r].dry THEN "none" ELSE "miss"
  /\ \A r \in Requests : pc[r] = "hit" => held[r] # r
  /\ \A r, s \in Requests :
       r # s /\ pc[r] \in Touching /\ pc[s] \in Touching /\ held[r] = held[s]
         => r \in shared
  /\ \A r \in Requests : pc[r] \in {"answered", "labelled"} /\ r \notin shared =>
       tag[held[r]] = OwnTag(r)
  /\ \A r \in Requests : pc[r] = "labelled" /\ r \notin shared =>
       (PersonaOf[query[r].user] # NoPersona =>
          persona[held[r]] = PersonaOf[query[r].user])
  /\ OwnLabelsUnlessShared

\* No step mixes up the labels of a response that only one request touches.
LEMMA LabelsStep == KeyedInv /\ LabelsInv /\ [Next]_vars => LabelsInv'
<1> SUFFICES ASSUME KeyedInv, LabelsInv, [Next]_vars, TypeOK' PROVE LabelsInv'
  BY TypesStep DEF KeyedInv
<1> USE KeyOfQuery
    DEF KeyedInv, TypeOK, HeldOK, HeldFor, Touching, Writing, Ran, LabelsInv, OwnTag,
        OwnLabelsUnlessShared, Labels
<1>1. ASSUME NEW r \in Requests, NEW q \in Queries, Arrive(r, q) PROVE LabelsInv'
  BY <1>1 DEF Arrive, Go
<1>2. ASSUME NEW r \in Requests, Reject(r) PROVE LabelsInv'
  BY <1>2 DEF Reject, Go
<1>3. ASSUME NEW r \in Requests, LookupHit(r) PROVE LabelsInv'
  BY <1>3 DEF LookupHit, Go, Hit, With
<1>4. ASSUME NEW r \in Requests, LookupMiss(r) PROVE LabelsInv'
  BY <1>4 DEF LookupMiss, Go, Hit
<1>5. ASSUME NEW r \in Requests, MarkHit(r) PROVE LabelsInv'
  BY <1>5 DEF MarkHit, Go
<1>6. ASSUME NEW r \in Requests, RunSucceeds(r) PROVE LabelsInv'
  BY <1>6 DEF RunSucceeds, Go, StoredFor
<1>7. ASSUME NEW r \in Requests, RunFails(r) PROVE LabelsInv'
  BY <1>7 DEF RunFails, Go
<1>8. ASSUME NEW r \in Requests, Label(r) PROVE LabelsInv'
  BY <1>8 DEF Label, Go
<1>9. ASSUME NEW r \in Requests, Encode(r) PROVE LabelsInv'
  BY <1>9 DEF Encode, Go
<1>10. ASSUME NEW r \in Requests, NEW s \in Requests, Fault(r, s) PROVE LabelsInv'
  BY <1>10 DEF Fault, Go, Emptied
<1>11. CASE Flush
  BY <1>11 DEF Flush, Go, Emptied
<1>12. ASSUME NEW k \in Keys, Expire(k) PROVE LabelsInv'
  BY <1>12 DEF Expire, Go
<1>13. CASE UNCHANGED vars
  BY <1>13 DEF vars
<1>14. QED
  BY <1>1, <1>2, <1>3, <1>4, <1>5, <1>6, <1>7, <1>8,
     <1>9, <1>10, <1>11, <1>12, <1>13 DEF Next

\* A client whose response nobody else was writing to is told hit or miss, and
\* the persona, of its own request.
THEOREM ResponseCacheLabels == Spec => []OwnLabelsUnlessShared
<1>1. Init => LabelsInv
  BY DEF Init, LabelsInv, OwnLabelsUnlessShared, Touching, Writing
<1>2. LabelsInv => OwnLabelsUnlessShared
  BY DEF LabelsInv
<1>3. QED
  BY <1>1, <1>2, LabelsStep, KeyedAlways, PTL DEF Spec

-----------------------------------------------------------------------------
\* Each step of the cache is a step of the memo, or none that clients see.
LEMMA MemoStep == KeyedInv /\ KeyedInv' /\ [Next]_vars
                    => [Memo!Next]_<<query, Ran, Received>>
<1> SUFFICES ASSUME KeyedInv, KeyedInv', [Next]_vars
             PROVE  Memo!Next \/ UNCHANGED <<query, Ran, Received>>
  OBVIOUS
<1> USE KeyOfQuery DEF KeyedInv, TypeOK, HeldOK, Touching, Writing, Ran, Received
<1> USE DEF Go
<1>1. ASSUME NEW r \in Requests, NEW q \in Queries, Arrive(r, q)
      PROVE  Memo!Ask(r, q)
  BY <1>1 DEF Arrive, Memo!Ask
<1>2. ASSUME NEW r \in Requests, Reject(r) \/ RunFails(r)
      PROVE  Memo!Refuse({r})
  BY <1>2 DEF Reject, RunFails, Memo!Refuse, Memo!Waiting
<1>3. ASSUME NEW r \in Requests, LookupHit(r)
      PROVE  UNCHANGED <<query, Ran, Received>>
  BY <1>3 DEF LookupHit, Hit
<1>4. ASSUME NEW r \in Requests, LookupMiss(r) \/ MarkHit(r) \/ Label(r)
      PROVE  UNCHANGED <<query, Ran, Received>>
  BY <1>4 DEF LookupMiss, MarkHit, Label
<1>5. ASSUME NEW r \in Requests, RunSucceeds(r)
      PROVE  Memo!Run(r)
  BY <1>5 DEF RunSucceeds, Memo!Run, Memo!Waiting
<1>6. ASSUME NEW r \in Requests, Encode(r), NEW o \in Requests, o = held[r]
      PROVE  Memo!Answer(r, o)
  <2>1. Memo!Answers(o, r)
    BY <1>6 DEF Encode, Memo!Answers, HeldFor, Key, ReadmeKey, Live
  <2>2. Received' = [Received EXCEPT ![r] = o]
    BY <1>6 DEF Encode
  <2>3. QED
    BY <1>6, <2>1, <2>2 DEF Encode, Memo!Waiting, Memo!Answer
<1>7. ASSUME NEW r \in Requests, NEW s \in Requests, Fault(r, s),
             NEW S \in SUBSET Requests,
             S = {x \in Requests : pc[x] \in {"arrived", "running"} \cup Touching}
      PROVE  Memo!Refuse(S)
  BY <1>7 DEF Fault, Memo!Refuse, Memo!Waiting
<1>8. CASE Flush
  BY <1>8 DEF Flush
<1>9. CASE UNCHANGED vars
  BY <1>9 DEF vars
<1>10. ASSUME NEW S \in SUBSET Requests, Memo!Refuse(S) PROVE Memo!Next
  BY <1>10 DEF Memo!Next
<1>11. ASSUME NEW r \in Requests, NEW q \in Queries, Memo!Ask(r, q) PROVE Memo!Next
  BY <1>11 DEF Memo!Next
<1>12. ASSUME NEW r \in Requests, NEW o \in Requests, Memo!Run(r) \/ Memo!Answer(r, o)
       PROVE  Memo!Next
  BY <1>12 DEF Memo!Next
<1>13. ASSUME NEW r \in Requests, Reject(r) \/ RunFails(r) PROVE Memo!Next
  <2>1. {r} \in SUBSET Requests
    OBVIOUS
  <2>2. Memo!Refuse({r})
    BY <1>13, <1>2
  <2>3. QED
    BY ONLY <2>1, <2>2, <1>10
<1>14. ASSUME NEW r \in Requests, NEW s \in Requests, Fault(r, s) PROVE Memo!Next
  <2>1. PICK S \in SUBSET Requests :
               S = {x \in Requests : pc[x] \in {"arrived", "running"} \cup Touching}
    OBVIOUS
  <2>2. QED
    BY ONLY <1>14, <1>7, <1>10, <2>1, r \in Requests, s \in Requests, S \in SUBSET Requests
<1>15. ASSUME NEW r \in Requests, Encode(r) PROVE Memo!Next
  <2>1. SUFFICES ASSUME NEW o \in Requests, o = held[r] PROVE Memo!Next
    BY <1>15 DEF Encode
  <2>2. QED
    BY ONLY <1>15, <1>6, <1>12, <2>1, r \in Requests, o \in Requests
<1> DEFINE Goal == Memo!Next \/ UNCHANGED <<query, Ran, Received>>
<1> HIDE DEF Goal
<1>16. ASSUME NEW r \in Requests, NEW q \in Queries, Arrive(r, q) PROVE Goal
  BY ONLY <1>16, <1>1, <1>11 DEF Goal
<1>17. ASSUME NEW r \in Requests, RunSucceeds(r) PROVE Goal
  BY ONLY <1>17, <1>5, <1>12, r \in Requests DEF Goal
<1>19. ASSUME NEW r \in Requests,
              \/ Reject(r) \/ RunFails(r) \/ LookupHit(r) \/ LookupMiss(r)
              \/ MarkHit(r) \/ Label(r) \/ Encode(r)
       PROVE  Goal
  BY ONLY <1>19, <1>3, <1>4, <1>13, <1>15, r \in Requests DEF Goal
<1>20. ASSUME NEW r \in Requests, NEW s \in Requests, Fault(r, s) PROVE Goal
  BY ONLY <1>20, <1>14 DEF Goal
<1>21. ASSUME Flush PROVE Goal
  BY ONLY <1>21, <1>8 DEF Goal
<1>22. ASSUME NEW k \in Keys, Expire(k) PROVE Goal
  BY <1>22 DEF Expire, Goal
<1>23. CASE Next
  BY ONLY <1>23, <1>16, <1>17, <1>19, <1>20, <1>21, <1>22 DEF Next, Goal
<1>24. QED
  BY <1>9, <1>23

\* The cache, shared pointers, expiry, flushes and crashes included, implements
\* the memo: an answer is one's own or was made for the same key.
THEOREM ResponseCacheImplementsMemo == Spec => ImplementsMemo
<1>1. Init => Memo!Init
  BY DEF Init, Memo!Init, Ran, Received
<1>2. QED
  BY <1>1, MemoStep, KeyedAlways, PTL DEF Spec, ImplementsMemo, Memo!Spec

=============================================================================
