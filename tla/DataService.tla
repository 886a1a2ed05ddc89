----------------------------- MODULE DataService -----------------------------
(***************************************************************************)
(* Calls of the three data services (internal/service/bigquery.go,         *)
(* postgres.go, elasticsearch.go), several at a time.  A BigQuery query    *)
(* starts a job, waits for it and reads its rows.  A PostgreSQL call needs  *)
(* one of the pool's connections and gives it back when it returns.  An    *)
(* Elasticsearch call is checked against the patterns of the service       *)
(* object it is made on, which WithPatterns makes for one request.  Each   *)
(* call ends early when something fails or its context is over.            *)
(* Definitions named for a slip (ItemsEndWithError, ...) are what the      *)
(* mutation runs swap in.                                                  *)
(***************************************************************************)
EXTENDS Integers, FiniteSets

CONSTANTS
  Calls,           \* calls that may be made
  MaxConns,        \* max_conns of the pool the PostgreSQL calls share
  MaxItems,        \* bound on the rows or entries of an answer
  Patterns,        \* index patterns
  Indices,         \* indices of the cluster
  Expressions,     \* what may be searched: an index, a wildcard, a list of them
  Reaches,         \* the indices that the cluster takes an expression for
  Matches,         \* the pairs of a pattern and an expression that, as a string,
                   \* matches it
  Scopes,          \* the es_index_patterns squads have
  ServicePatterns, \* es_allowed_patterns, those of the shared service
  Shared           \* the name of that service object

ASSUME DataServiceAssumption ==
  /\ MaxConns \in Nat \ {0}
  /\ MaxItems \in Nat
  /\ Indices \subseteq Expressions
  /\ Reaches \in [Expressions -> SUBSET Indices]
  /\ \A i \in Indices : Reaches[i] = {i}
  /\ Matches \subseteq Patterns \X Expressions
  /\ Scopes \subseteq SUBSET Patterns
  /\ ServicePatterns \subseteq Patterns
  /\ Shared \notin Calls

VARIABLES
  kind,     \* which method is called
  deadline, \* whether the call's context has a deadline
  over,     \* whether the call's context is over
  at,       \* where the call is
  job,      \* BigQuery's job for the call
  size,     \* how many items the whole answer has
  got,      \* how many of them the call has read and would return
  conns,    \* the calls that have a connection of the pool
  service,  \* the Elasticsearch service object the call is made on
  allowed,  \* allowedPatterns of each service object
  scope,    \* es_index_patterns of the caller's squad
  index,    \* what a search is given for an index, as a set
  seen,     \* the indices an answer tells of
  outcome   \* what the call returns

callVars == <<kind, deadline, over, at, job, size, got, conns, service, allowed,
              scope, index, seen, outcome>>

\* ExecuteQuery, without and with dryRun; listings of items; single entries.
BigQuery == {"query", "dry", "datasets", "tables", "dataset", "table"}
\* ExecuteQuery; ListTables, GetTableSchema and GetSampleData; ExplainCost.
Postgres == {"pgquery", "pgread", "explain"}
\* Search, Count, Aggregate, GetMapping and GetIndexInfo; ListIndices.
Elasticsearch == {"search", "indices"}
Kinds == BigQuery \cup Postgres \cup Elasticsearch

HasConnection(c) ==
  kind[c] \in Postgres /\ at[c] \in {"timeout", "send", "items"}

\* A call has a connection from Acquire to its return and at no other time, and
\* no more have one than the pool may open.
ConnectionsOK ==
  /\ conns = {c \in Calls : HasConnection(c)}
  /\ IsFiniteSet(conns) /\ Cardinality(conns) <= MaxConns

CallTypeOK ==
  /\ kind \in [Calls -> Kinds]
  /\ deadline \in [Calls -> BOOLEAN]
  /\ over \in [Calls -> BOOLEAN]
  /\ at \in [Calls -> {"idle", "run", "wait", "connect", "timeout", "check",
                       "send", "items", "returned"}]
  /\ job \in [Calls -> {"none", "running", "done", "failed"}]
  /\ size \in [Calls -> 0..MaxItems]
  /\ got \in [Calls -> 0..MaxItems]
  /\ conns \in SUBSET Calls
  /\ service \in [Calls -> Calls \cup {Shared}]
  /\ allowed \in [Calls \cup {Shared} -> SUBSET Patterns]
  /\ scope \in [Calls -> SUBSET Patterns]
  /\ index \in [Calls -> SUBSET Expressions]
  /\ seen \in [Calls -> SUBSET Indices]
  /\ outcome \in [Calls -> {"none", "result", "error"}]
  /\ ConnectionsOK

CallInit ==
  /\ kind = [c \in Calls |-> "query"]
  /\ deadline = [c \in Calls |-> FALSE]
  /\ over = [c \in Calls |-> FALSE]
  /\ at = [c \in Calls |-> "idle"]
  /\ job = [c \in Calls |-> "none"]
  /\ size = [c \in Calls |-> 0]
  /\ got = [c \in Calls |-> 0]
  /\ conns = {}
  /\ service = [c \in Calls |-> Shared]
  /\ allowed = [o \in Calls \cup {Shared} |-> IF o = Shared THEN ServicePatterns ELSE {}]
  /\ scope = [c \in Calls |-> {}]
  /\ index = [c \in Calls |-> {}]
  /\ seen = [c \in Calls |-> {}]
  /\ outcome = [c \in Calls |-> "none"]

\* The call goes on to s.
Goto(c, s) == at' = [at EXCEPT ![c] = s]

\* The method returns: its deferred calls close the rows, roll the read-only
\* transaction back and so return the connection.
Return(c, how) ==
  /\ Goto(c, "returned")
  /\ outcome' = [outcome EXCEPT ![c] = how]
  /\ conns' = conns \ {c}

(***************************************************************************)
(* The call and its context.                                               *)
(***************************************************************************)
WithPatternsInPlace(c, ps) ==
  /\ service' = [service EXCEPT ![c] = Shared]
  /\ allowed' = [allowed EXCEPT ![Shared] = ps]

\* A copy of the shared object, with the patterns ps.
WithPatterns(c, ps) ==
  /\ service' = [service EXCEPT ![c] = c]
  /\ allowed' = [allowed EXCEPT ![c] = ps]

\* esSvc: a request whose squad has patterns of its own uses such a copy.
ServiceFor(c, ps) ==
  IF ps = {}
  THEN service' = [service EXCEPT ![c] = Shared] /\ UNCHANGED allowed
  ELSE WithPatterns(c, ps)

FirstStep(k) ==
  CASE k \in {"query", "dry"} -> "run"
    [] k \in Postgres -> "connect"
    [] k = "search" -> "check"
    [] OTHER -> "send"

\* Method k is called, by a request whose squad has the patterns ps, with a
\* context that has a deadline or ends only when the client leaves.
Begin(c, k, timed) ==
  /\ at[c] = "idle"
  /\ kind' = [kind EXCEPT ![c] = k]
  /\ deadline' = [deadline EXCEPT ![c] = timed]
  /\ Goto(c, FirstStep(k))
  /\ \E ps \in IF k \in Elasticsearch THEN Scopes ELSE {{}} :
       /\ scope' = [scope EXCEPT ![c] = ps]
       /\ ServiceFor(c, ps)
  /\ \E es \in IF k = "search" THEN {{e} : e \in Expressions} ELSE {{}} :
       index' = [index EXCEPT ![c] = es]
  /\ UNCHANGED <<over, job, size, got, conns, seen, outcome>>

InProgress(c) == at[c] \notin {"idle", "returned"}

\* The deadline passes or the client leaves.
ContextEnds(c) ==
  /\ InProgress(c)
  /\ ~over[c]
  /\ over' = [over EXCEPT ![c] = TRUE]
  /\ UNCHANGED <<kind, deadline, at, job, size, got, conns, service, allowed,
                 scope, index, seen, outcome>>

\* The wait for a connection does not look at the context.
FailsUnlessQueued(c) ==
  /\ InProgress(c)
  /\ at[c] # "connect"
  /\ got' = [got EXCEPT ![c] = 0]
  /\ Return(c, "error")
  /\ UNCHANGED <<kind, deadline, over, job, size, service, allowed, scope, index,
                 seen>>

\* Whatever the call is waiting for may fail, and does once the context is over:
\* it returns the error and nothing that it has read.  The job it may have
\* started goes on; nobody asks for it again.
Fails(c) ==
  /\ InProgress(c)
  /\ got' = [got EXCEPT ![c] = 0]
  /\ Return(c, "error")
  /\ UNCHANGED <<kind, deadline, over, job, size, service, allowed, scope, index,
                 seen>>

(***************************************************************************)
(* BigQuery.                                                               *)
(***************************************************************************)
\* q.Run
RunJob(c) ==
  /\ at[c] = "run"
  /\ ~over[c]
  /\ job' = [job EXCEPT ![c] = "running"]
  /\ Goto(c, "wait")
  /\ UNCHANGED <<kind, deadline, over, size, got, conns, service, allowed, scope,
                 index, seen, outcome>>

\* BigQuery is done with the job, well or not.
JobEnds(c) ==
  /\ at[c] = "wait"
  /\ job[c] = "running"
  /\ \/ /\ job' = [job EXCEPT ![c] = "done"]
        /\ \E n \in IF kind[c] = "dry" THEN {0} ELSE 0..MaxItems :
             size' = [size EXCEPT ![c] = n]
     \/ job' = [job EXCEPT ![c] = "failed"] /\ UNCHANGED size
  /\ UNCHANGED <<kind, deadline, over, at, got, conns, service, allowed, scope,
                 index, seen, outcome>>

\* job.Wait without an error, and status.Err without one: a dry run has its
\* result, a query goes on to read its rows.  A failed job is an error (Fails).
Wait(c) ==
  /\ at[c] = "wait"
  /\ job[c] = "done"
  /\ IF kind[c] = "dry"
     THEN Return(c, "result")
     ELSE Goto(c, "items") /\ UNCHANGED <<conns, outcome>>
  /\ UNCHANGED <<kind, deadline, over, job, size, got, service, allowed, scope,
                 index, seen>>

(***************************************************************************)
(* PostgreSQL.                                                             *)
(***************************************************************************)
AcquireUnbounded(c) ==
  /\ at[c] = "connect"
  /\ ~over[c]
  /\ conns' = conns \cup {c}
  /\ UNCHANGED <<kind, deadline, over, job, size, got, service, allowed, scope,
                 index, seen, outcome>>

\* One of the pool's connections is free, and the call gets it.
Acquire(c) ==
  /\ at[c] = "connect"
  /\ ~over[c]
  /\ Cardinality(conns) < MaxConns
  /\ conns' = conns \cup {c}
  /\ UNCHANGED <<kind, deadline, over, job, size, got, service, allowed, scope,
                 index, seen, outcome>>

\* A query runs in a read-only transaction.
BeginTx(c) == kind[c] = "pgquery" /\ Acquire(c) /\ Goto(c, "timeout")

\* The other methods query outside of one.
Connect(c) == kind[c] \in {"pgread", "explain"} /\ Acquire(c) /\ Goto(c, "send")

\* SET LOCAL statement_timeout
SetTimeout(c) ==
  /\ at[c] = "timeout"
  /\ Goto(c, "send")
  /\ UNCHANGED <<kind, deadline, over, job, size, got, conns, service, allowed,
                 scope, index, seen, outcome>>

(***************************************************************************)
(* Answers that are read item by item: the rows of a query, the datasets   *)
(* or tables of a listing.  An entry of a listing whose metadata cannot be *)
(* had is listed without.                                                  *)
(***************************************************************************)
\* PostgreSQL has executed the statement; BigQuery begins a listing.
SendQuery(c) ==
  /\ at[c] = "send"
  /\ kind[c] \in {"pgquery", "pgread", "datasets", "tables"}
  /\ \E n \in 0..MaxItems : size' = [size EXCEPT ![c] = n]
  /\ Goto(c, "items")
  /\ UNCHANGED <<kind, deadline, over, job, got, conns, service, allowed, scope,
                 index, seen, outcome>>

NextItem(c) ==
  /\ at[c] = "items"
  /\ got[c] < size[c]
  /\ got' = [got EXCEPT ![c] = @ + 1]
  /\ UNCHANGED <<kind, deadline, over, at, job, size, conns, service, allowed,
                 scope, index, seen, outcome>>

ReadRow(c) == kind[c] = "query" /\ NextItem(c)

ListDatasets(c) == kind[c] = "datasets" /\ NextItem(c)

ListTables(c) == kind[c] = "tables" /\ NextItem(c)

ScanRow(c) == kind[c] \in {"pgquery", "pgread"} /\ NextItem(c)

ItemsEndWithError(c) ==
  /\ at[c] = "items"
  /\ Return(c, "result")
  /\ UNCHANGED <<kind, deadline, over, job, size, got, service, allowed, scope,
                 index, seen>>

\* iterator.Done, or rows.Next false and rows.Err nil.
ItemsEnd(c) ==
  /\ at[c] = "items"
  /\ got[c] = size[c]
  /\ Return(c, "result")
  /\ UNCHANGED <<kind, deadline, over, job, size, got, service, allowed, scope,
                 index, seen>>

\* The one entry that was asked for is there.
Single(c) ==
  /\ at[c] = "send"
  /\ Return(c, "result")
  /\ UNCHANGED <<kind, deadline, over, job, size, got, service, allowed, scope,
                 index, seen>>

GetDataset(c) == kind[c] = "dataset" /\ Single(c)

GetTableSchema(c) == kind[c] = "table" /\ Single(c)

\* The plan, although its cost may not be understood.
ExplainCost(c) == kind[c] = "explain" /\ Single(c)

(***************************************************************************)
(* Elasticsearch.                                                          *)
(***************************************************************************)
\* Whether the patterns ps let expression e through; no patterns let all through.
Permits(ps, e) == ps = {} \/ \E p \in ps : <<p, e>> \in Matches

IsIndexAllowed(c, e) == Permits(allowed[service[c]], e)

\* The methods that are given an index check it first, as the string it is.
CheckIndex(c) ==
  /\ at[c] = "check"
  /\ IF \A e \in index[c] : IsIndexAllowed(c, e)
     THEN Goto(c, "send") /\ UNCHANGED <<conns, outcome>>
     ELSE Return(c, "error")
  /\ UNCHANGED <<kind, deadline, over, job, size, got, service, allowed, scope,
                 index, seen>>

\* The body is decoded and is no error; the answer is of the indices is.
Decode(c, is) ==
  /\ at[c] = "send"
  /\ seen' = [seen EXCEPT ![c] = is]
  /\ Return(c, "result")
  /\ UNCHANGED <<kind, deadline, over, job, size, got, service, allowed, scope,
                 index>>

\* The cluster resolves the expression.
Search(c) ==
  kind[c] = "search" /\ Decode(c, UNION {Reaches[e] : e \in index[c]})

\* What the patterns do not let through is left out.
ListIndices(c) ==
  kind[c] = "indices" /\ Decode(c, {i \in Indices : IsIndexAllowed(c, i)})

CallStep(c) ==
  \/ Fails(c)
  \/ RunJob(c) \/ Wait(c)
  \/ BeginTx(c) \/ Connect(c) \/ SetTimeout(c)
  \/ SendQuery(c)
  \/ ReadRow(c) \/ ListDatasets(c) \/ ListTables(c) \/ ScanRow(c) \/ ItemsEnd(c)
  \/ GetDataset(c) \/ GetTableSchema(c) \/ ExplainCost(c)
  \/ CheckIndex(c) \/ Search(c) \/ ListIndices(c)

(***************************************************************************)
(* Properties.                                                             *)
(***************************************************************************)
\* An answer is whole or there is none: a call that returns a result has read
\* all there was, of a job that was done, although its context may have ended,
\* the database failed or the connection been lost at any point before.
WholeOrNothing ==
  \A c \in Calls :
    outcome[c] = "result" => /\ got[c] = size[c]
                             /\ kind[c] \in {"query", "dry"} => job[c] = "done"

\* An index that a listing tells of by its name, and one that a search tells of
\* by the expression that found it, was let through by the patterns of the
\* request's own squad, or those of the configuration when it has none, whatever
\* requests of other squads use the service meanwhile.  Not so the index itself:
\* an expression that is let through may reach further than the pattern does.
OwnPatterns ==
  \A c \in Calls : \A i \in seen[c] :
    \E e \in IF kind[c] = "search" THEN index[c] ELSE {i} :
      /\ i \in Reaches[e]
      /\ Permits(IF scope[c] = {} THEN ServicePatterns ELSE scope[c], e)

=============================================================================
