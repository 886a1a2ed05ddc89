------------------------------ MODULE DirectApi ------------------------------
(***************************************************************************)
(* The REST endpoints that call BigQuery without an agent, POST /query and *)
(* the dataset and table endpoints (internal/handler/query.go, datasets.go,*)
(* tables.go), next to whatever agents call meanwhile on the same services *)
(* (internal/tools, the schema sections of the agent handlers).  A query   *)
(* goes through the validator, BigQuery, the byte limit, the cost log, the *)
(* mask and the audit log.                                                 *)
(* Definitions named for a slip are what the mutation runs swap in.        *)
(***************************************************************************)
EXTENDS DataService, Sequences

CONSTANTS
  MaxBytes,    \* the CostTracker's limit; a query processes one byte more at most
  AuditEnabled \* enable_audit_logging

ASSUME DirectApiAssumption == MaxBytes \in Nat /\ AuditEnabled \in BOOLEAN

VARIABLES
  enableMask, \* enable_data_masking
  caller,     \* who calls: the endpoint of the call's kind, or an agent
  status,     \* the reply's status code, 0 while there is none
  bytes,      \* TotalBytesProcessed, of the statistics of the job
  shown,      \* the rows in the reply
  audits,     \* the verdicts of the query's entries in the audit log
  costs       \* the queries in the cost log

Verdicts == {"success", "failure"}

replyVars == <<status, shown, audits, costs>>
vars == <<callVars, enableMask, caller, bytes, replyVars>>

TypeOK ==
  /\ CallTypeOK
  /\ enableMask \in BOOLEAN
  /\ caller \in [Calls -> {"none", "rest", "agent"}]
  /\ status \in [Calls -> {0, 200, 400, 403, 404, 429, 500}]
  /\ bytes \in [Calls -> 0..(MaxBytes + 1)]
  /\ shown \in [Calls -> {"none", "raw", "masked"}]
  /\ audits \in [Calls -> Seq(Verdicts)]
  /\ costs \in SUBSET Calls

Init ==
  /\ CallInit
  /\ enableMask \in BOOLEAN
  /\ caller = [c \in Calls |-> "none"]
  /\ status = [c \in Calls |-> 0]
  /\ bytes = [c \in Calls |-> 0]
  /\ shown = [c \in Calls |-> "none"]
  /\ audits = [c \in Calls |-> <<>>]
  /\ costs = {}

(***************************************************************************)
(* Requests.                                                               *)
(***************************************************************************)
\* Which calls are made, and whether with a deadline.  POST /query gives its own
\* to the query, whose timeout SetDefaults puts between 1 and 300 seconds; the
\* other endpoints call with the request's context.  An agent calls with a
\* deadline, but for the schema section it prepares before the run.
Offers ==
  ({"rest"} \X {"query", "dry"} \X {TRUE})
    \cup ({"rest"} \X {"datasets", "dataset", "tables", "table"} \X {FALSE})
    \cup ({"agent"} \X (Kinds \ {"dry", "dataset"}) \X {TRUE})
    \cup ({"agent"} \X {"tables", "table", "pgread"} \X {FALSE})

Call(c) ==
  /\ caller[c] = "none"
  /\ \E o \in Offers : caller' = [caller EXCEPT ![c] = o[1]] /\ Begin(c, o[2], o[3])
  /\ UNCHANGED <<enableMask, bytes, replyVars>>

\* A request is answered without a call: a query that cannot be decoded or does
\* not pass the SQL validator, a dataset that is not the squad's.
Refuse(c) ==
  /\ caller[c] = "none"
  /\ caller' = [caller EXCEPT ![c] = "rest"]
  /\ \E code \in {400, 403} : status' = [status EXCEPT ![c] = code]
  /\ UNCHANGED <<callVars, enableMask, bytes, shown, audits, costs>>

\* The service is at work on the call.
Work(c) == CallStep(c) /\ UNCHANGED <<enableMask, caller, bytes, replyVars>>

Expire(c) == ContextEnds(c) /\ UNCHANGED <<enableMask, caller, bytes, replyVars>>

\* BigQuery ends the job, and its statistics say what it has processed.
JobCounts(c) ==
  /\ JobEnds(c)
  /\ \E b \in 0..(MaxBytes + 1) : bytes' = [bytes EXCEPT ![c] = b]
  /\ UNCHANGED <<enableMask, caller, replyVars>>

(***************************************************************************)
(* Replies.                                                                *)
(***************************************************************************)
Returned(c, kinds, how) ==
  /\ caller[c] = "rest" /\ kind[c] \in kinds
  /\ status[c] = 0
  /\ at[c] = "returned"
  /\ outcome[c] = how

Queries == {"query", "dry"}

Reply(c, code) ==
  /\ status' = [status EXCEPT ![c] = code]
  /\ UNCHANGED <<callVars, enableMask, caller, bytes>>

\* LogQuery
Audit(c, verdict) ==
  audits' = IF AuditEnabled THEN [audits EXCEPT ![c] = Append(@, verdict)] ELSE audits

\* Up to the limit.  One of 0 refuses whatever processes a byte, although
\* integration_test.go:96 has it for no limit, as PGCostTracker does.
CheckLimits(c) == bytes[c] <= MaxBytes

QueryFails(c) ==
  /\ Returned(c, Queries, "error")
  /\ Audit(c, "failure")
  /\ Reply(c, 500)
  /\ UNCHANGED <<shown, costs>>

QueryTooDearUnlogged(c) ==
  /\ Returned(c, Queries, "result")
  /\ ~CheckLimits(c)
  /\ Reply(c, 429)
  /\ UNCHANGED <<shown, audits, costs>>

QueryTooDear(c) ==
  /\ Returned(c, Queries, "result")
  /\ ~CheckLimits(c)
  /\ Audit(c, "failure")
  /\ Reply(c, 429)
  /\ UNCHANGED <<shown, costs>>

\* LogQueryCost, MaskRows if it is enabled, LogQuery, and the rows.
QueryAnswered(c) ==
  /\ Returned(c, Queries, "result")
  /\ CheckLimits(c)
  /\ costs' = costs \cup {c}
  /\ shown' = [shown EXCEPT ![c] = IF enableMask THEN "masked" ELSE "raw"]
  /\ Audit(c, "success")
  /\ Reply(c, 200)

\* A call of method k is answered with what the service returns, or code.
Replies(c, k, code) ==
  /\ \/ Returned(c, {k}, "result") /\ Reply(c, 200)
     \/ Returned(c, {k}, "error") /\ Reply(c, code)
  /\ UNCHANGED <<shown, audits, costs>>

\* Without the datasets that are not the squad's.
DatasetsReplied(c) == Replies(c, "datasets", 500)

TablesReplied(c) == Replies(c, "tables", 500)

DatasetReplied(c) == Replies(c, "dataset", 404)

TableReplied(c) == Replies(c, "table", 404)

Answer(c) == QueryFails(c) \/ QueryTooDear(c) \/ QueryAnswered(c)
             \/ DatasetsReplied(c) \/ TablesReplied(c)
             \/ DatasetReplied(c) \/ TableReplied(c)

Next ==
  \E c \in Calls :
    \/ Call(c) \/ Refuse(c)
    \/ Work(c) \/ Expire(c) \/ JobCounts(c)
    \/ Answer(c)

Spec == Init /\ [][Next]_vars

\* Deadlines pass, a call whose context is over gives up, and the handlers'
\* goroutines go on.  Nothing is assumed of BigQuery, PostgreSQL, Elasticsearch
\* and the clients: they may be silent for ever.
Fairness ==
  \A c \in Calls :
    /\ WF_vars(deadline[c] /\ Expire(c))
    /\ WF_vars(over[c] /\ Work(c))
    /\ WF_vars(Answer(c))

FairSpec == Spec /\ Fairness

(***************************************************************************)
(* Properties.                                                             *)
(***************************************************************************)
\* The reply to a query, its entry in the audit log and that in the cost log
\* agree: every early return of Execute that has called BigQuery logs its failure
\* once, and rows go out, masked if masking is on, only for a whole result of a
\* job that was done, within the byte limit if one is set: nothing is asked of a
\* limit of 0, on which the code and integration_test.go:96 are not agreed.
QueryAccounted ==
  \A c \in Calls :
    LET answered == kind[c] \in Queries /\ status[c] \in {200, 429, 500} IN
    /\ audits[c] = IF AuditEnabled /\ answered
                   THEN <<IF status[c] = 200 THEN "success" ELSE "failure">> ELSE <<>>
    /\ (c \in costs) = (answered /\ status[c] = 200)
    /\ (shown[c] # "none") = (c \in costs)
    /\ c \in costs => /\ job[c] = "done" /\ got[c] = size[c]
                     /\ (MaxBytes > 0 => bytes[c] <= MaxBytes)
                     /\ shown[c] = IF enableMask THEN "masked" ELSE "raw"

\* A call with a deadline returns, and a query is answered, although the database
\* may be silent and the pool's connections held by calls that have none.
TimedCallsReturn ==
  \A c \in Calls :
    (at[c] # "idle" /\ deadline[c])
      ~> (at[c] = "returned" /\ (caller[c] = "rest" => status[c] # 0))

=============================================================================
