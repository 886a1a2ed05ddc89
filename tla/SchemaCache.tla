----------------------------- MODULE SchemaCache -----------------------------
(***************************************************************************)
(* The schema caches of the agent handlers, one cache each for BigQuery    *)
(* (internal/agent/bigquery_handler.go) and, in the same words,            *)
(* PostgreSQL (postgres_handler.go): agent requests that need the schema   *)
(* of a dataset in their system prompt read it from a TTL cache; on a miss *)
(* the requests for one dataset share a single fetch                       *)
(* (golang.org/x/sync/singleflight), run by the first of them with that    *)
(* request's own context.  Admins invalidate entries meanwhile, and tables *)
(* are altered in the database.  For PostgreSQL a dataset is a pair of     *)
(* squad and database, as in the cache's key.                              *)
(*                                                                         *)
(* A schema section of a prompt is a function from the tables it describes *)
(* to the version of the dataset at which each was read; NoSection is the  *)
(* empty string a request gets when there is nothing to inject.  Time is   *)
(* left out: an entry may expire at any moment, and an expired entry is to *)
(* get() the same as none.  Definitions named for a slip (FlightKept, ...) *)
(* are what the mutation runs swap in.                                     *)
(***************************************************************************)
EXTENDS Integers, FiniteSets

CONSTANTS
  Requests,     \* agent requests
  Datasets,     \* datasets they ask about
  NoDataset,    \* the dataset of a request that has not begun
  Tables,       \* the tables of each dataset
  NoSection,    \* the empty schema section
  NoEntry,      \* no cache entry
  NoFlight,     \* no fetch in flight
  Flaky,        \* BigQuery calls may fail on their own
  MaxVersion    \* bound on the number of schema changes

ASSUME SchemaCacheAssumption ==
  /\ Flaky \in BOOLEAN
  /\ MaxVersion \in Nat
  /\ NoDataset \notin Datasets
  /\ NoFlight \notin Requests
  /\ NoSection # NoEntry
  /\ \A S \in SUBSET Tables : {NoSection, NoEntry} \cap [S -> Nat] = {}

\* ListTables returns a slice.
ASSUME FiniteTables == IsFiniteSet(Tables)

VARIABLES
  version,    \* BigQuery: how often each dataset was altered
  cache,      \* schemaCache.store
  flight,     \* singleflight.Group: the leader of the call for each dataset
  pc,         \* where each request is in getSchemaSection
  ds,         \* the dataset of each request
  section,    \* the section a request has built or was given
  pending,    \* tables the leader of a dataset's flight has still to read
  gone,       \* leaders whose client has disconnected
  floor,      \* history: version at the last invalidation of a dataset
  firm,       \* history: the same, of invalidations that met no flight
  need,       \* history: floor and firm of its dataset when a request began
  troubled    \* history: datasets of which a BigQuery call has failed

vars == <<version, cache, flight, pc, ds, section, pending, gone, floor,
          firm, need, troubled>>

\* Where the leader of a flight can be.
Leading == {"leading", "listing", "reading", "returning"}

\* Sections that describe some of the tables.
Described == UNION {[S -> 0..MaxVersion] : S \in SUBSET Tables}

Sections == Described \cup {NoSection}

Entries == Described \cup {NoEntry}

\* A flight is led by a request for that dataset that is still at it, and a
\* request leads or waits only while there is a flight.
FlightOK ==
  /\ \A d \in Datasets : flight[d] # NoFlight =>
       ds[flight[d]] = d /\ pc[flight[d]] \in Leading
  /\ \A r \in Requests :
       /\ pc[r] \in Leading => flight[ds[r]] = r
       /\ pc[r] = "waiting" => flight[ds[r]] # NoFlight

TypeOK ==
  /\ version \in [Datasets -> 0..MaxVersion]
  /\ cache \in [Datasets -> Entries]
  /\ flight \in [Datasets -> Requests \cup {NoFlight}]
  /\ pc \in [Requests -> {"idle", "missed", "waiting", "done"} \cup Leading]
  /\ ds \in [Requests -> Datasets \cup {NoDataset}]
  /\ section \in [Requests -> Sections]
  /\ pending \in [Datasets -> SUBSET Tables]
  /\ gone \in SUBSET Requests
  /\ floor \in [Datasets -> 0..MaxVersion]
  /\ firm \in [Datasets -> 0..MaxVersion]
  /\ need \in [Requests -> [floor : 0..MaxVersion, firm : 0..MaxVersion]]
  /\ troubled \in SUBSET Datasets
  /\ FlightOK

Init ==
  /\ version = [d \in Datasets |-> 0]
  /\ cache = [d \in Datasets |-> NoEntry]
  /\ flight = [d \in Datasets |-> NoFlight]
  /\ pc = [r \in Requests |-> "idle"]
  /\ ds = [r \in Requests |-> NoDataset]
  /\ section = [r \in Requests |-> NoSection]
  /\ pending = [d \in Datasets |-> {}]
  /\ gone = {}
  /\ floor = [d \in Datasets |-> 0]
  /\ firm = [d \in Datasets |-> 0]
  /\ need = [r \in Requests |-> [floor |-> 0, firm |-> 0]]
  /\ troubled = {}

(***************************************************************************)
(* The environment: time, BigQuery, clients that go away.                  *)
(***************************************************************************)
\* The TTL of an entry runs out.
Expire(d) ==
  /\ cache[d] # NoEntry
  /\ cache' = [cache EXCEPT ![d] = NoEntry]
  /\ UNCHANGED <<version, flight, pc, ds, section, pending, gone, floor, firm,
                 need, troubled>>

Alter(d) ==
  /\ version[d] < MaxVersion
  /\ version' = [version EXCEPT ![d] = @ + 1]
  /\ UNCHANGED <<cache, flight, pc, ds, section, pending, gone, floor,
                 firm, need, troubled>>

\* The client of a request closes its connection: the request's context is
\* cancelled, the handler goes on.  Only the fetch looks at the context, so it
\* is enough to let a leader's client go while it fetches.
Disconnect(r) ==
  /\ pc[r] \in {"listing", "reading"}
  /\ r \notin gone
  /\ gone' = gone \cup {r}
  /\ UNCHANGED <<version, cache, flight, pc, ds, section, pending, floor,
                 firm, need, troubled>>

(***************************************************************************)
(* getSchemaSection.                                                       *)
(***************************************************************************)
\* schemaCache.get finds an entry.
Live(d) == cache[d] # NoEntry

\* The first look into the cache: a hit ends the call.
BeginHit(r, d) ==
  /\ pc[r] = "idle"
  /\ Live(d)
  /\ ds' = [ds EXCEPT ![r] = d]
  /\ need' = [need EXCEPT ![r] = [floor |-> floor[d], firm |-> firm[d]]]
  /\ section' = [section EXCEPT ![r] = cache[d]]
  /\ pc' = [pc EXCEPT ![r] = "done"]
  /\ UNCHANGED <<version, cache, flight, pending, gone, floor, firm, troubled>>

BeginMiss(r, d) ==
  /\ pc[r] = "idle"
  /\ ~Live(d)
  /\ ds' = [ds EXCEPT ![r] = d]
  /\ need' = [need EXCEPT ![r] = [floor |-> floor[d], firm |-> firm[d]]]
  /\ pc' = [pc EXCEPT ![r] = "missed"]
  /\ UNCHANGED <<version, cache, flight, section, pending, gone, floor,
                 firm, troubled>>

LeadAnyway(r) ==
  /\ pc[r] = "missed"
  /\ flight' = [flight EXCEPT ![ds[r]] = r]
  /\ pc' = [pc EXCEPT ![r] = "leading"]
  /\ UNCHANGED <<version, cache, ds, section, pending, gone, floor, firm,
                 need, troubled>>

\* sf.Do when no call is in flight for the dataset: this request leads one.
Lead(r) ==
  /\ pc[r] = "missed"
  /\ flight[ds[r]] = NoFlight
  /\ flight' = [flight EXCEPT ![ds[r]] = r]
  /\ pc' = [pc EXCEPT ![r] = "leading"]
  /\ UNCHANGED <<version, cache, ds, section, pending, gone, floor, firm,
                 need, troubled>>

\* sf.Do when a call is in flight: wait for its result, whatever becomes of
\* this request's own context.
Join(r) ==
  /\ pc[r] = "missed"
  /\ flight[ds[r]] # NoFlight
  /\ pc' = [pc EXCEPT ![r] = "waiting"]
  /\ UNCHANGED <<version, cache, flight, ds, section, pending, gone, floor,
                 firm, need, troubled>>

\* The leader looks again: the cache may have been filled since it missed.
DoubleCheckHit(r) ==
  /\ pc[r] = "leading"
  /\ Live(ds[r])
  /\ section' = [section EXCEPT ![r] = cache[ds[r]]]
  /\ pc' = [pc EXCEPT ![r] = "returning"]
  /\ UNCHANGED <<version, cache, flight, ds, pending, gone, floor, firm,
                 need, troubled>>

NoDoubleCheck(r) ==
  /\ pc[r] = "leading"
  /\ pc' = [pc EXCEPT ![r] = "listing"]
  /\ UNCHANGED <<version, cache, flight, ds, section, pending, gone, floor,
                 firm, need, troubled>>

DoubleCheckMiss(r) ==
  /\ pc[r] = "leading"
  /\ ~Live(ds[r])
  /\ pc' = [pc EXCEPT ![r] = "listing"]
  /\ UNCHANGED <<version, cache, flight, ds, section, pending, gone, floor,
                 firm, need, troubled>>

\* A BigQuery call made with r's context can succeed, can fail.
CanSucceed(r) == r \notin gone
CanFail(r) == Flaky \/ r \in gone

ListTables(r) ==
  /\ pc[r] = "listing"
  /\ CanSucceed(r)
  /\ section' = [section EXCEPT ![r] = [t \in {} |-> 0]]
  /\ pending' = [pending EXCEPT ![ds[r]] = Tables]
  /\ pc' = [pc EXCEPT ![r] = "reading"]
  /\ UNCHANGED <<version, cache, flight, ds, gone, floor, firm, need, troubled>>

\* A list that fails is a soft failure: an empty section, not cached.
ListTablesFails(r) ==
  /\ pc[r] = "listing"
  /\ CanFail(r)
  /\ troubled' = troubled \cup {ds[r]}
  /\ pc' = [pc EXCEPT ![r] = "returning"]
  /\ UNCHANGED <<version, cache, flight, ds, section, pending, gone, floor,
                 firm, need>>

\* A section with one more table.
WithTable(sec, t, v) ==
  [u \in DOMAIN sec \cup {t} |-> IF u = t THEN v ELSE sec[u]]

GetTableSchema(r, t) ==
  /\ pc[r] = "reading"
  /\ t \in pending[ds[r]]
  /\ CanSucceed(r)
  /\ pending' = [pending EXCEPT ![ds[r]] = @ \ {t}]
  /\ section' = [section EXCEPT ![r] = WithTable(@, t, version[ds[r]])]
  /\ UNCHANGED <<version, cache, flight, pc, ds, gone, floor, firm, need,
                 troubled>>

\* A table that cannot be read is left out of the section.
GetTableSchemaFails(r, t) ==
  /\ pc[r] = "reading"
  /\ t \in pending[ds[r]]
  /\ CanFail(r)
  /\ pending' = [pending EXCEPT ![ds[r]] = @ \ {t}]
  /\ troubled' = troubled \cup {ds[r]}
  /\ UNCHANGED <<version, cache, flight, pc, ds, section, gone, floor, firm,
                 need>>

AllReadEarly(r) == Cardinality(pending[ds[r]]) < Cardinality(Tables)

\* Every table was read or given up.
AllRead(r) == pending[ds[r]] = {}

Store(r) ==
  /\ pc[r] = "reading"
  /\ AllRead(r)
  /\ cache' = [cache EXCEPT ![ds[r]] = section[r]]
  /\ pc' = [pc EXCEPT ![r] = "returning"]
  /\ UNCHANGED <<version, flight, ds, section, pending, gone, floor, firm,
                 need, troubled>>

WaitersNone(r) == {}

\* The requests that joined the flight r leads.
Waiters(r) == {q \in Requests : pc[q] = "waiting" /\ ds[q] = ds[r]}

FlightKept(d) == flight

FlightForgotten(d) == [flight EXCEPT ![d] = NoFlight]

\* The call is over: the flight is forgotten and every request that joined
\* it gets the leader's result.
Return(r) ==
  LET released == Waiters(r) \cup {r}
  IN  /\ pc[r] = "returning"
      /\ flight' = FlightForgotten(ds[r])
      /\ section' = [q \in Requests |-> IF q \in released THEN section[r] ELSE section[q]]
      /\ pc' = [q \in Requests |-> IF q \in released THEN "done" ELSE pc[q]]
      /\ gone' = gone \ {r}
      /\ UNCHANGED <<version, cache, ds, pending, floor, firm, need, troubled>>

(***************************************************************************)
(* The admin endpoint.                                                     *)
(***************************************************************************)
InvalidateNothing(d) ==
  /\ floor' = [floor EXCEPT ![d] = version[d]]
  /\ firm' = [firm EXCEPT ![d] = IF flight[d] = NoFlight THEN version[d] ELSE @]
  /\ UNCHANGED <<version, cache, flight, pc, ds, section, pending, gone, need, troubled>>

Invalidate(d) ==
  /\ cache' = [cache EXCEPT ![d] = NoEntry]
  /\ floor' = [floor EXCEPT ![d] = version[d]]
  /\ firm' = [firm EXCEPT ![d] = IF flight[d] = NoFlight THEN version[d] ELSE @]
  /\ UNCHANGED <<version, flight, pc, ds, section, pending, gone, need, troubled>>

\* A call of the fetch comes back.
DatabaseAnswers(r) ==
  \/ ListTables(r) \/ ListTablesFails(r)
  \/ \E t \in Tables : GetTableSchema(r, t) \/ GetTableSchemaFails(r, t)

\* What a request does of itself.
OwnStep(r) ==
  \/ Lead(r) \/ Join(r)
  \/ DoubleCheckHit(r) \/ DoubleCheckMiss(r)
  \/ Store(r) \/ Return(r)

Progress(r) == OwnStep(r) \/ DatabaseAnswers(r)

Next ==
  \/ \E d \in Datasets : Expire(d) \/ Alter(d) \/ Invalidate(d)
  \/ \E r \in Requests : Disconnect(r) \/ Progress(r)
  \/ \E r \in Requests, d \in Datasets : BeginHit(r, d) \/ BeginMiss(r, d)

Spec == Init /\ [][Next]_vars

\* A goroutine that can run does, and a call whose context has been cancelled
\* comes back.  Any other call may never: the fetch runs on the context of the
\* leader's HTTP request, which has no deadline.
FairSpec ==
  /\ Spec
  /\ \A r \in Requests : /\ WF_vars(OwnStep(r))
                         /\ WF_vars(r \in gone /\ DatabaseAnswers(r))

\* A call of the fetch of d is out, on a context that has not been cancelled.
Asking(d) ==
  /\ flight[d] # NoFlight
  /\ flight[d] \notin gone
  /\ \/ pc[flight[d]] = "listing"
     \/ pc[flight[d]] = "reading" /\ ~AllRead(flight[d])

(***************************************************************************)
(* Properties.                                                             *)
(***************************************************************************)

\* README, "singleflight": however requests, expiries and invalidations
\* interleave, at most one fetch of a dataset runs at a time.
OneFetchPerDataset ==
  \A d \in Datasets :
    Cardinality({r \in Requests : ds[r] = d /\ pc[r] \in {"listing", "reading"}}) <= 1

\* A fetch only ever replaces an entry that is absent or expired: a request
\* that missed, and was overtaken by a whole flight before it entered its
\* own, does not fetch again.
LiveEntryNotOverwritten ==
  [][\A d \in Datasets :
       Live(d) /\ cache'[d] # cache[d] => cache'[d] = NoEntry]_vars

\* An invalidation that meets no fetch in flight is honoured: a request that
\* begins after it never sees a table as it was before, even when a later
\* invalidation does meet a fetch.
InvalidationHonoured ==
  \A r \in Requests :
    pc[r] = "done" /\ section[r] # NoSection
      => \A t \in DOMAIN section[r] : section[r][t] >= need[r].firm

\* As long as no BigQuery call for a dataset has failed, every request about
\* it is told all its tables: leader, waiter or served from the cache.
CompleteUnlessTroubled ==
  \A r \in Requests :
    pc[r] = "done" /\ ds[r] \in Datasets \ troubled
      => section[r] # NoSection /\ DOMAIN section[r] = Tables

\* Every request gets out of getSchemaSection: a leader whose client has gone,
\* or whose fetch fails, still releases the requests that wait for it.  The one
\* way to be kept is that the database never answers the leader and the leader's
\* client stays; then all wait with it, whatever becomes of their own clients.
EveryLookupReturns ==
  \A r \in Requests, d \in Datasets :
    pc[r] = "missed" /\ ds[r] = d ~> (pc[r] = "done" \/ []Asking(d))

\* The comments on InvalidateSchemaCache: the next request re-fetches a fresh
\* schema.  No request that begins after an invalidation sees a table as it
\* was before.
InvalidationForcesRefetch ==
  \A r \in Requests :
    pc[r] = "done" /\ section[r] # NoSection
      => \A t \in DOMAIN section[r] : section[r][t] >= need[r].floor

\* BQSchemaClosingInstruction, which ends every section, tells the model that
\* all table schemas are in the prompt: what is cached for everyone describes
\* every table.
CachedSchemaComplete ==
  \A d \in Datasets : cache[d] # NoEntry => DOMAIN cache[d] = Tables
=============================================================================
