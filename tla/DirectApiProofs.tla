--------------------------- MODULE DirectApiProofs ---------------------------
(***************************************************************************)
(* Proofs about DirectApi, and so about DataService with its callers, for  *)
(* every number of calls, connections, items, indices and patterns.        *)
(***************************************************************************)
EXTENDS DirectApi, FiniteSetTheorems, TLAPS

USE DataServiceAssumption, DirectApiAssumption DEF DataServiceAssumption, DirectApiAssumption

(***************************************************************************)
(* The pool.                                                               *)
(***************************************************************************)
\* A step of c alone keeps the pool within its limit when c joins the holders
\* of connections only if one is free.
LEMMA ConnectionsKept ==
  ASSUME ConnectionsOK, NEW c \in Calls,
         \A d \in Calls \ {c} : at'[d] = at[d] /\ kind'[d] = kind[d],
         conns' = IF HasConnection(c)' THEN conns \cup {c} ELSE conns \ {c},
         HasConnection(c)' => HasConnection(c) \/ Cardinality(conns) < MaxConns
  PROVE  ConnectionsOK'
<1>1. conns' = {d \in Calls : HasConnection(d)'}
  <2>1. \A d \in Calls \ {c} : HasConnection(d)' = HasConnection(d)
    BY DEF HasConnection
  <2>2. QED
    BY <2>1 DEF ConnectionsOK
<1>2. IsFiniteSet(conns) /\ Cardinality(conns) <= MaxConns /\ Cardinality(conns) \in Nat
  BY FS_CardinalityType DEF ConnectionsOK
<1>3. CASE HasConnection(c)' /\ ~HasConnection(c)
  <2>1. conns' = conns \cup {c} /\ c \notin conns
    BY <1>3 DEF ConnectionsOK
  <2>2. IsFiniteSet(conns') /\ Cardinality(conns') = Cardinality(conns) + 1
    <3>1. /\ IsFiniteSet(conns \cup {c})
          /\ Cardinality(conns \cup {c}) = Cardinality(conns) + 1
      BY <1>2, <2>1, FS_AddElement
    <3>2. QED
      BY <2>1, <3>1
  <2>3. Cardinality(conns) < MaxConns
    BY <1>3
  <2>4. Cardinality(conns') <= MaxConns
    BY <1>2, <2>2, <2>3
  <2>5. QED
    BY <1>1, <2>2, <2>4 DEF ConnectionsOK
<1>4. CASE HasConnection(c)' /\ HasConnection(c)
  <2>1. conns' = conns
    BY <1>4 DEF ConnectionsOK
  <2>2. QED
    BY <1>1, <1>2, <2>1 DEF ConnectionsOK
<1>5. CASE ~HasConnection(c)'
  <2>1. conns' = conns \ {c}
    BY <1>5
  <2>2. IsFiniteSet(conns') /\ Cardinality(conns') <= Cardinality(conns)
        /\ Cardinality(conns') \in Nat
    <3>1. /\ IsFiniteSet(conns \ {c})
          /\ Cardinality(conns \ {c}) \in {Cardinality(conns), Cardinality(conns) - 1}
      BY <1>2, FS_RemoveElement
    <3>2. Cardinality(conns \ {c}) \in Nat
      BY <3>1, FS_CardinalityType
    <3>3. QED
      BY <1>2, <2>1, <3>1, <3>2
  <2>3. Cardinality(conns') <= MaxConns
    BY <1>2, <2>2
  <2>4. QED
    BY <1>1, <2>2, <2>3 DEF ConnectionsOK
<1>6. QED
  BY <1>3, <1>4, <1>5

\* A return gives the connection back.
LEMMA ReturnType ==
  ASSUME CallTypeOK, NEW c \in Calls, NEW how \in {"result", "error"}, Return(c, how),
         UNCHANGED kind
  PROVE  ConnectionsOK' /\ conns' \subseteq conns
<1>1. ~HasConnection(c)' /\ conns' = conns \ {c}
  BY DEF Return, Goto, HasConnection, CallTypeOK
<1>2. \A d \in Calls \ {c} : at'[d] = at[d] /\ kind'[d] = kind[d]
  BY DEF Return, Goto, CallTypeOK
<1>3. QED
  BY <1>1, <1>2, ConnectionsKept DEF CallTypeOK

\* A step that leaves the pool alone.
LEMMA GotoType ==
  ASSUME CallTypeOK, NEW c \in Calls, NEW s, Goto(c, s), UNCHANGED <<kind, conns>>,
         HasConnection(c)' = HasConnection(c)
  PROVE  ConnectionsOK'
<1>1. \A d \in Calls \ {c} : at'[d] = at[d] /\ kind'[d] = kind[d]
  BY DEF Goto, CallTypeOK
<1>2. conns' = IF HasConnection(c)' THEN conns \cup {c} ELSE conns \ {c}
  BY DEF CallTypeOK, ConnectionsOK
<1>3. QED
  BY <1>1, <1>2, ConnectionsKept DEF CallTypeOK

\* A step that takes a connection, of which one is free.
LEMMA AcquireType ==
  ASSUME CallTypeOK, NEW c \in Calls, kind[c] \in Postgres,
         NEW s \in {"timeout", "send"}, Acquire(c), Goto(c, s)
  PROVE  CallTypeOK'
<1>1. HasConnection(c)' /\ \A d \in Calls \ {c} : at'[d] = at[d] /\ kind'[d] = kind[d]
  BY DEF Acquire, Goto, HasConnection, CallTypeOK
<1>2. conns' = conns \cup {c} /\ Cardinality(conns) < MaxConns
  BY DEF Acquire
<1>3. ConnectionsOK'
  BY <1>1, <1>2, ConnectionsKept DEF CallTypeOK
<1>4. QED
  BY <1>2, <1>3 DEF Acquire, Goto, CallTypeOK

(***************************************************************************)
(* Types.                                                                  *)
(***************************************************************************)
LEMMA InitTypeOK == Init => TypeOK
<1> SUFFICES ASSUME Init PROVE TypeOK
  OBVIOUS
<1>1. \A c \in Calls : ~HasConnection(c)
  BY DEF Init, CallInit, HasConnection
<1>2. ConnectionsOK
  BY <1>1, FS_EmptySet DEF Init, CallInit, ConnectionsOK
<1>3. CallTypeOK
  BY <1>2 DEF Init, CallInit, CallTypeOK, Kinds, BigQuery
<1>4. \A c \in Calls : <<>> \in Seq(Verdicts)
  OBVIOUS
<1>5. QED
  BY <1>3, <1>4 DEF Init, TypeOK

\* Only a query runs a job, only a search checks its index, and only a query of
\* PostgreSQL's sets a timeout.
StepsOfKind ==
  \A c \in Calls : /\ at[c] \in {"run", "wait"} => kind[c] \in Queries
                   /\ at[c] = "check" => kind[c] = "search"
                   /\ at[c] = "timeout" => kind[c] = "pgquery"

LEMMA CallStepType ==
  ASSUME CallTypeOK, StepsOfKind, NEW c \in Calls, CallStep(c)
  PROVE  CallTypeOK'
<1>1. CASE Fails(c)
  <2>1. ConnectionsOK' /\ conns' \subseteq conns
    BY <1>1, ReturnType DEF Fails
  <2>2. QED
    BY <1>1, <2>1 DEF Fails, Return, Goto, CallTypeOK
<1>2. CASE RunJob(c)
  <2>1. ConnectionsOK'
    BY <1>2, GotoType DEF RunJob, Goto, HasConnection, CallTypeOK
  <2>2. QED
    BY <1>2, <2>1 DEF RunJob, Goto, CallTypeOK
<1>3. CASE Wait(c)
  <2>1. CASE kind[c] = "dry"
    <3>1. ConnectionsOK' /\ conns' \subseteq conns
      BY <1>3, <2>1, ReturnType DEF Wait
    <3>2. QED
      BY <1>3, <2>1, <3>1 DEF Wait, Return, Goto, CallTypeOK
  <2>2. CASE kind[c] # "dry"
    <3>1. kind[c] = "query"
      BY <1>3, <2>2 DEF Wait, StepsOfKind, Queries
    <3>2. ConnectionsOK'
      BY <1>3, <3>1, GotoType DEF Wait, Goto, HasConnection, CallTypeOK, Postgres
    <3>3. QED
      BY <1>3, <2>2, <3>2 DEF Wait, Goto, CallTypeOK
  <2>3. QED
    BY <2>1, <2>2
<1>4. CASE BeginTx(c)
  BY <1>4, AcquireType DEF BeginTx, Postgres
<1>5. CASE Connect(c)
  BY <1>5, AcquireType DEF Connect, Postgres
<1>6. CASE SetTimeout(c)
  <2>1. ConnectionsOK'
    BY <1>6, GotoType DEF SetTimeout, Goto, HasConnection, CallTypeOK
  <2>2. QED
    BY <1>6, <2>1 DEF SetTimeout, Goto, CallTypeOK
<1>7. CASE SendQuery(c)
  <2>1. ConnectionsOK'
    BY <1>7, GotoType DEF SendQuery, Goto, HasConnection, CallTypeOK
  <2>2. QED
    BY <1>7, <2>1 DEF SendQuery, Goto, CallTypeOK
<1>8. CASE NextItem(c)
  <2>1. ConnectionsOK'
    BY <1>8 DEF NextItem, HasConnection, CallTypeOK, ConnectionsOK
  <2>2. got[c] + 1 \in 0..MaxItems
    BY <1>8 DEF NextItem, CallTypeOK
  <2>3. QED
    BY <1>8, <2>1, <2>2 DEF NextItem, CallTypeOK
<1>9. CASE ItemsEnd(c) \/ Single(c)
  <2>1. ConnectionsOK' /\ conns' \subseteq conns
    BY <1>9, ReturnType DEF ItemsEnd, Single
  <2>2. QED
    BY <1>9, <2>1 DEF ItemsEnd, Single, Return, Goto, CallTypeOK
<1>10. CASE CheckIndex(c)
  <2>1. CASE Goto(c, "send") /\ UNCHANGED <<conns, outcome>>
    <3>1. kind[c] = "search"
      BY <1>10 DEF CheckIndex, StepsOfKind
    <3>2. ConnectionsOK'
      BY <1>10, <2>1, <3>1, GotoType DEF CheckIndex, Goto, HasConnection, CallTypeOK, Postgres
    <3>3. QED
      BY <1>10, <2>1, <3>2 DEF CheckIndex, Goto, CallTypeOK
  <2>2. CASE Return(c, "error")
    <3>1. ConnectionsOK' /\ conns' \subseteq conns
      BY <1>10, <2>2, ReturnType DEF CheckIndex
    <3>2. QED
      BY <1>10, <2>2, <3>1 DEF CheckIndex, Return, Goto, CallTypeOK
  <2>3. QED
    BY <1>10, <2>1, <2>2 DEF CheckIndex
<1>11. ASSUME NEW is \in SUBSET Indices, Decode(c, is) PROVE CallTypeOK'
  <2>1. ConnectionsOK' /\ conns' \subseteq conns
    BY <1>11, ReturnType DEF Decode
  <2>2. QED
    BY <1>11, <2>1 DEF Decode, Return, Goto, CallTypeOK
<1>12. CASE Search(c)
  <2>1. index[c] \subseteq Expressions
    BY DEF CallTypeOK
  <2>2. UNION {Reaches[e] : e \in index[c]} \in SUBSET Indices
    BY <2>1, DataServiceAssumption DEF DataServiceAssumption
  <2>3. QED
    BY <1>11, <1>12, <2>2 DEF Search
<1>13. CASE ListIndices(c)
  BY <1>11, <1>13 DEF ListIndices
<1>14. QED
  BY <1>1, <1>2, <1>3, <1>4, <1>5, <1>6, <1>7, <1>8, <1>9, <1>10, <1>12, <1>13
     DEF CallStep, ReadRow, ListDatasets, ListTables, ScanRow, GetDataset, GetTableSchema, ExplainCost

LEMMA CallStepSteps ==
  ASSUME CallTypeOK, StepsOfKind, NEW c \in Calls, CallStep(c)
  PROVE  StepsOfKind'
<1>1. kind' = kind /\ \A d \in Calls \ {c} : at'[d] = at[d]
  BY DEF CallStep, Fails, RunJob, Wait, BeginTx, Connect, Acquire, SetTimeout, SendQuery,
         ReadRow, ListDatasets, ListTables, ScanRow, NextItem, ItemsEnd, GetDataset,
         GetTableSchema, ExplainCost, Single, CheckIndex, Search, ListIndices, Decode,
         Goto, Return, CallTypeOK
<1>2. at'[c] \in {"run", "wait"} => at[c] \in {"run", "wait"}
  BY DEF CallStep, Fails, RunJob, Wait, BeginTx, Connect, Acquire, SetTimeout, SendQuery,
         ReadRow, ListDatasets, ListTables, ScanRow, NextItem, ItemsEnd, GetDataset,
         GetTableSchema, ExplainCost, Single, CheckIndex, Search, ListIndices, Decode,
         Goto, Return, CallTypeOK
<1>3. at'[c] # "check"
  BY DEF CallStep, Fails, RunJob, Wait, BeginTx, Connect, Acquire, SetTimeout, SendQuery,
         ReadRow, ListDatasets, ListTables, ScanRow, NextItem, ItemsEnd, GetDataset,
         GetTableSchema, ExplainCost, Single, CheckIndex, Search, ListIndices, Decode,
         Goto, Return, CallTypeOK
<1>4. at'[c] = "timeout" => kind[c] = "pgquery"
  BY DEF CallStep, Fails, RunJob, Wait, BeginTx, Connect, Acquire, SetTimeout, SendQuery,
         ReadRow, ListDatasets, ListTables, ScanRow, NextItem, ItemsEnd, GetDataset,
         GetTableSchema, ExplainCost, Single, CheckIndex, Search, ListIndices, Decode,
         Goto, Return, CallTypeOK, StepsOfKind
<1>5. QED
  BY <1>1, <1>2, <1>3, <1>4 DEF StepsOfKind

\* A call of the offered kinds, with a service object of its own or the shared.
LEMMA BeginType ==
  ASSUME CallTypeOK, StepsOfKind, NEW c \in Calls, NEW k \in Kinds, NEW timed \in BOOLEAN,
         Begin(c, k, timed)
  PROVE  CallTypeOK' /\ StepsOfKind'
<1>1. PICK ps \in IF k \in Elasticsearch THEN Scopes ELSE {{}} :
         scope' = [scope EXCEPT ![c] = ps] /\ ServiceFor(c, ps)
  BY DEF Begin
<1>2. ps \in SUBSET Patterns
  BY <1>1
<1>3. scope' \in [Calls -> SUBSET Patterns]
  BY <1>1, <1>2 DEF CallTypeOK
<1>4. service' \in [Calls -> Calls \cup {Shared}]
  BY <1>1 DEF ServiceFor, WithPatterns, CallTypeOK
<1>5. allowed' \in [Calls \cup {Shared} -> SUBSET Patterns]
  BY <1>1, <1>2 DEF ServiceFor, WithPatterns, CallTypeOK
<1>6. index' \in [Calls -> SUBSET Expressions]
  BY DEF Begin, CallTypeOK
<1>7. /\ FirstStep(k) \in {"run", "connect", "check", "send"}
      /\ FirstStep(k) = "run" => k \in Queries
      /\ FirstStep(k) = "check" => k = "search"
      /\ FirstStep(k) = "send" => k \notin Postgres
  BY DEF FirstStep, Queries, Postgres
<1>8. at' = [at EXCEPT ![c] = FirstStep(k)] /\ kind' = [kind EXCEPT ![c] = k]
      /\ conns' = conns /\ at[c] = "idle"
  BY DEF Begin, Goto
<1>9. ConnectionsOK'
  <2>1. ~HasConnection(c)' /\ ~HasConnection(c)
    BY <1>7, <1>8 DEF HasConnection, CallTypeOK
  <2>2. conns' = conns \ {c}
    BY <1>8, <2>1 DEF ConnectionsOK, CallTypeOK
  <2>3. \A d \in Calls \ {c} : at'[d] = at[d] /\ kind'[d] = kind[d]
    BY <1>8 DEF CallTypeOK
  <2>4. QED
    BY <2>1, <2>2, <2>3, ConnectionsKept DEF CallTypeOK
<1>10. CallTypeOK'
  BY <1>3, <1>4, <1>5, <1>6, <1>7, <1>8, <1>9 DEF Begin, CallTypeOK
<1>11. StepsOfKind'
  BY <1>7, <1>8 DEF StepsOfKind, CallTypeOK
<1>12. QED
  BY <1>10, <1>11

\* The environment's steps.
LEMMA OutsideType ==
  ASSUME CallTypeOK, StepsOfKind, NEW c \in Calls, ContextEnds(c) \/ JobEnds(c)
  PROVE  CallTypeOK' /\ StepsOfKind'
<1>1. ConnectionsOK'
  BY DEF ContextEnds, JobEnds, CallTypeOK, ConnectionsOK, HasConnection
<1>2. CASE ContextEnds(c)
  BY <1>1, <1>2 DEF ContextEnds, CallTypeOK, StepsOfKind
<1>3. CASE JobEnds(c)
  BY <1>1, <1>3 DEF JobEnds, CallTypeOK, StepsOfKind
<1>4. QED
  BY <1>2, <1>3

LEMMA CallVarsKept ==
  ASSUME CallTypeOK, StepsOfKind, UNCHANGED callVars
  PROVE  CallTypeOK' /\ StepsOfKind'
  BY DEF callVars, CallTypeOK, StepsOfKind, ConnectionsOK, HasConnection

LEMMA OfferParts ==
  ASSUME NEW o \in Offers
  PROVE  /\ o[1] \in {"rest", "agent"} /\ o[2] \in Kinds /\ o[3] \in BOOLEAN
         /\ o[1] = "rest" => o[2] \in BigQuery
  BY DEF Offers, Kinds, BigQuery, Postgres, Elasticsearch

\* What an answer does: the reply to another endpoint, a failed or a refused
\* query, or rows.
OtherReply(c) ==
  /\ kind[c] \notin Queries
  /\ status'[c] \in {200, 404, 500}
  /\ UNCHANGED <<shown, audits, costs>>

QueryRefused(c) ==
  /\ kind[c] \in Queries
  /\ status'[c] \in {429, 500}
  /\ UNCHANGED <<shown, costs>>
  /\ audits'[c] = IF AuditEnabled THEN Append(audits[c], "failure") ELSE audits[c]

QueryServed(c) ==
  /\ kind[c] \in Queries /\ outcome[c] = "result" /\ bytes[c] <= MaxBytes
  /\ status'[c] = 200
  /\ shown' = [shown EXCEPT ![c] = IF enableMask THEN "masked" ELSE "raw"]
  /\ costs' = costs \cup {c}
  /\ audits'[c] = IF AuditEnabled THEN Append(audits[c], "success") ELSE audits[c]

LEMMA AuditParts ==
  ASSUME TypeOK, NEW c \in Calls, NEW verdict \in Verdicts, Audit(c, verdict)
  PROVE  /\ audits' \in [Calls -> Seq(Verdicts)]
         /\ audits'[c] = IF AuditEnabled THEN Append(audits[c], verdict) ELSE audits[c]
         /\ \A d \in Calls \ {c} : audits'[d] = audits[d]
<1>1. Append(audits[c], verdict) \in Seq(Verdicts)
  BY DEF TypeOK
<1>2. CASE AuditEnabled
  <2>1. audits' = [audits EXCEPT ![c] = Append(audits[c], verdict)]
    BY <1>2 DEF Audit
  <2>2. QED
    BY <1>1, <1>2, <2>1 DEF TypeOK
<1>3. CASE ~AuditEnabled
  BY <1>3 DEF Audit, TypeOK
<1>4. QED
  BY <1>2, <1>3

LEMMA ReplyParts ==
  ASSUME TypeOK, NEW c \in Calls, NEW code \in {200, 404, 429, 500}, Reply(c, code)
  PROVE  /\ UNCHANGED <<callVars, enableMask, caller, bytes>>
         /\ status' \in [Calls -> {0, 200, 400, 403, 404, 429, 500}]
         /\ status'[c] = code
         /\ \A d \in Calls \ {c} : status'[d] = status[d]
<1>1. status' = [status EXCEPT ![c] = code]
  BY DEF Reply
<1>2. QED
  BY <1>1 DEF Reply, TypeOK

LEMMA AnswerParts ==
  ASSUME TypeOK, NEW c \in Calls, Answer(c)
  PROVE  /\ status[c] = 0 /\ caller[c] = "rest" /\ at[c] = "returned"
         /\ UNCHANGED <<callVars, enableMask, caller, bytes>>
         /\ status' \in [Calls -> {0, 200, 400, 403, 404, 429, 500}]
         /\ \A d \in Calls \ {c} : status'[d] = status[d]
         /\ audits' \in [Calls -> Seq(Verdicts)]
         /\ \A d \in Calls \ {c} : audits'[d] = audits[d]
         /\ OtherReply(c) \/ QueryRefused(c) \/ QueryServed(c)
<1>1. CASE QueryFails(c)
  <2>1. Reply(c, 500) /\ Returned(c, Queries, "error")
    BY <1>1 DEF QueryFails
  <2>0. "failure" \in Verdicts /\ Audit(c, "failure")
    BY <1>1 DEF QueryFails, Verdicts
  <2>2. QueryRefused(c)
    BY <1>1, <2>0, <2>1, ReplyParts, AuditParts DEF QueryFails, Returned, QueryRefused
  <2>3. QED
    BY <2>0, <2>1, <2>2, ReplyParts, AuditParts DEF Returned
<1>2. CASE QueryTooDear(c)
  <2>1. Reply(c, 429) /\ Returned(c, Queries, "result")
    BY <1>2 DEF QueryTooDear
  <2>0. "failure" \in Verdicts /\ Audit(c, "failure")
    BY <1>2 DEF QueryTooDear, Verdicts
  <2>2. QueryRefused(c)
    BY <1>2, <2>0, <2>1, ReplyParts, AuditParts DEF QueryTooDear, Returned, QueryRefused
  <2>3. QED
    BY <2>0, <2>1, <2>2, ReplyParts, AuditParts DEF Returned
<1>3. CASE QueryAnswered(c)
  <2>1. Reply(c, 200) /\ Returned(c, Queries, "result")
    BY <1>3 DEF QueryAnswered
  <2>0. "success" \in Verdicts /\ Audit(c, "success")
    BY <1>3 DEF QueryAnswered, Verdicts
  <2>2. QueryServed(c)
    BY <1>3, <2>0, <2>1, ReplyParts, AuditParts DEF QueryAnswered, Returned, QueryServed, CheckLimits
  <2>3. QED
    BY <2>0, <2>1, <2>2, ReplyParts, AuditParts DEF Returned
<1>4. ASSUME NEW k \in {"datasets", "tables", "dataset", "table"}, NEW code \in {404, 500},
             Replies(c, k, code)
      PROVE  /\ status[c] = 0 /\ caller[c] = "rest" /\ at[c] = "returned"
             /\ UNCHANGED <<callVars, enableMask, caller, bytes>>
             /\ status' \in [Calls -> {0, 200, 400, 403, 404, 429, 500}]
             /\ \A d \in Calls \ {c} : status'[d] = status[d]
             /\ OtherReply(c)
  <2>1. kind[c] = k /\ status[c] = 0 /\ caller[c] = "rest" /\ at[c] = "returned"
    BY <1>4 DEF Replies, Returned
  <2>2. PICK r \in {200, 404, 500} : Reply(c, r)
    BY <1>4 DEF Replies
  <2>3. OtherReply(c)
    <3>1. kind[c] \notin Queries
      BY <2>1 DEF Queries
    <3>2. UNCHANGED <<shown, audits, costs>>
      BY <1>4 DEF Replies
    <3>3. status'[c] \in {200, 404, 500}
      BY <2>2, ReplyParts
    <3>4. QED
      BY <3>1, <3>2, <3>3 DEF OtherReply
  <2>4. QED
    BY <2>1, <2>2, <2>3, ReplyParts
<1>5. CASE DatasetsReplied(c) \/ TablesReplied(c) \/ DatasetReplied(c) \/ TableReplied(c)
  BY <1>4, <1>5 DEF DatasetsReplied, TablesReplied, DatasetReplied, TableReplied, OtherReply, TypeOK
<1>6. QED
  BY <1>1, <1>2, <1>3, <1>5 DEF Answer

LEMMA StepTypeOK ==
  ASSUME TypeOK, StepsOfKind, [Next]_vars
  PROVE  TypeOK' /\ StepsOfKind'
<1>a. CallTypeOK
  BY DEF TypeOK
<1>1. ASSUME NEW c \in Calls, Call(c) PROVE TypeOK' /\ StepsOfKind'
  <2>1. PICK o \in Offers : caller' = [caller EXCEPT ![c] = o[1]] /\ Begin(c, o[2], o[3])
    BY <1>1 DEF Call
  <2>2. CallTypeOK' /\ StepsOfKind'
    BY <1>a, <2>1, OfferParts, BeginType
  <2>3. caller' \in [Calls -> {"none", "rest", "agent"}]
    BY <2>1, OfferParts DEF TypeOK
  <2>4. QED
    BY <1>1, <2>2, <2>3 DEF Call, TypeOK, replyVars
<1>2. ASSUME NEW c \in Calls, Refuse(c) PROVE TypeOK' /\ StepsOfKind'
  BY <1>a, <1>2, CallVarsKept DEF Refuse, TypeOK
<1>3. ASSUME NEW c \in Calls, Work(c) PROVE TypeOK' /\ StepsOfKind'
  <2>1. CallTypeOK' /\ StepsOfKind'
    BY <1>a, <1>3, CallStepType, CallStepSteps DEF Work
  <2>2. QED
    BY <1>3, <2>1 DEF Work, TypeOK, replyVars
<1>4. ASSUME NEW c \in Calls, Expire(c) PROVE TypeOK' /\ StepsOfKind'
  <2>1. CallTypeOK' /\ StepsOfKind'
    BY <1>a, <1>4, OutsideType DEF Expire
  <2>2. QED
    BY <1>4, <2>1 DEF Expire, TypeOK, replyVars
<1>5. ASSUME NEW c \in Calls, JobCounts(c) PROVE TypeOK' /\ StepsOfKind'
  <2>1. CallTypeOK' /\ StepsOfKind'
    BY <1>a, <1>5, OutsideType DEF JobCounts
  <2>2. bytes' \in [Calls -> 0..(MaxBytes + 1)]
    BY <1>5 DEF JobCounts, TypeOK
  <2>3. QED
    BY <1>5, <2>1, <2>2 DEF JobCounts, TypeOK, replyVars
<1>6. ASSUME NEW c \in Calls, Answer(c) PROVE TypeOK' /\ StepsOfKind'
  <2>1. UNCHANGED <<callVars, enableMask, caller, bytes>>
    BY <1>6, AnswerParts
  <2>2. OtherReply(c) \/ QueryRefused(c) \/ QueryServed(c)
    BY <1>6, AnswerParts
  <2>3. status' \in [Calls -> {0, 200, 400, 403, 404, 429, 500}]
    BY <1>6, AnswerParts
  <2>4. shown' \in [Calls -> {"none", "raw", "masked"}] /\ costs' \in SUBSET Calls
    <3>1. CASE OtherReply(c) \/ QueryRefused(c)
      BY <3>1 DEF OtherReply, QueryRefused, TypeOK
    <3>2. CASE QueryServed(c)
      <4>1. PICK how \in {"masked", "raw"} : shown' = [shown EXCEPT ![c] = how]
        BY <3>2 DEF QueryServed
      <4>2. QED
        BY <3>2, <4>1 DEF QueryServed, TypeOK
    <3>3. QED
      BY <2>2, <3>1, <3>2
  <2>5. audits' \in [Calls -> Seq(Verdicts)]
    BY <1>6, AnswerParts
  <2>6. CallTypeOK' /\ StepsOfKind'
    BY <1>a, <2>1, CallVarsKept
  <2>7. QED
    BY <2>1, <2>3, <2>4, <2>5, <2>6 DEF TypeOK
<1>7. CASE UNCHANGED vars
  BY <1>a, <1>7, CallVarsKept DEF vars, replyVars, TypeOK
<1>8. QED
  BY <1>1, <1>2, <1>3, <1>4, <1>5, <1>6, <1>7 DEF Next

\* The calls never hold more connections than the pool may open, and hold none
\* when they have returned.
THEOREM TypeCorrect == Spec => []TypeOK
<1>1. Init => TypeOK /\ StepsOfKind
  BY InitTypeOK DEF Init, CallInit, StepsOfKind
<1>2. (TypeOK /\ StepsOfKind) /\ [Next]_vars => (TypeOK /\ StepsOfKind)'
  BY StepTypeOK
<1>3. QED
  BY <1>1, <1>2, PTL DEF Spec

(***************************************************************************)
(* What a call's steps leave alone.                                        *)
(***************************************************************************)
LEMMA OthersUntouched ==
  ASSUME CallTypeOK, NEW c \in Calls, CallStep(c)
  PROVE  /\ UNCHANGED <<kind, service, allowed, scope, index>>
         /\ \A d \in Calls \ {c} : /\ at'[d] = at[d] /\ size'[d] = size[d]
                                   /\ got'[d] = got[d] /\ outcome'[d] = outcome[d]
                                   /\ seen'[d] = seen[d]
         /\ UNCHANGED job \/ (RunJob(c) /\ job' = [job EXCEPT ![c] = "running"])
<1>1. CASE Fails(c)
  BY <1>1 DEF Fails, Return, Goto, CallTypeOK
<1>2. CASE RunJob(c) \/ SetTimeout(c)
  BY <1>2 DEF RunJob, SetTimeout, Goto, CallTypeOK
<1>3. CASE Wait(c)
  BY <1>3 DEF Wait, Return, Goto, CallTypeOK
<1>4. CASE BeginTx(c) \/ Connect(c)
  BY <1>4 DEF BeginTx, Connect, Acquire, Goto, CallTypeOK
<1>5. CASE SendQuery(c)
  BY <1>5 DEF SendQuery, Goto, CallTypeOK
<1>6. CASE NextItem(c)
  BY <1>6 DEF NextItem, CallTypeOK
<1>7. CASE ItemsEnd(c) \/ Single(c)
  BY <1>7 DEF ItemsEnd, Single, Return, Goto, CallTypeOK
<1>8. CASE CheckIndex(c)
  BY <1>8 DEF CheckIndex, Return, Goto, CallTypeOK
<1>9. CASE Search(c) \/ ListIndices(c)
  BY <1>9 DEF Search, ListIndices, Decode, Return, Goto, CallTypeOK
<1>10. QED
  BY <1>1, <1>2, <1>3, <1>4, <1>5, <1>6, <1>7, <1>8, <1>9
     DEF CallStep, ReadRow, ListDatasets, ListTables, ScanRow, GetDataset, GetTableSchema, ExplainCost

(***************************************************************************)
(* Whole answers.                                                          *)
(***************************************************************************)
\* Until its answer is read a call has nothing of it, and what is returned is
\* all there is, of a job that is done.
WholeSoFar(c) ==
  /\ at[c] \notin {"wait", "items", "returned"} => size[c] = 0 /\ got[c] = 0
  /\ at[c] = "wait" => got[c] = 0 /\ (kind[c] = "dry" => size[c] = 0)
  /\ at[c] = "items" => kind[c] # "dry" /\ (kind[c] = "query" => job[c] = "done")
  /\ at[c] # "returned" => outcome[c] = "none"
  /\ outcome[c] = "result" =>
       got[c] = size[c] /\ (kind[c] \in Queries => job[c] = "done")

WholeInv == \A c \in Calls : WholeSoFar(c)

LEMMA CallStepWhole ==
  ASSUME CallTypeOK, StepsOfKind, WholeInv, NEW c \in Calls, CallStep(c)
  PROVE  WholeInv'
<1>1. \A d \in Calls \ {c} : job'[d] = job[d]
  BY OthersUntouched DEF CallTypeOK
<1>2. \A d \in Calls \ {c} : WholeSoFar(d)'
  BY <1>1, OthersUntouched DEF WholeInv, WholeSoFar
<1>a. WholeSoFar(c)
  BY DEF WholeInv
<1>3. WholeSoFar(c)'
  <2> USE DEF WholeSoFar, CallTypeOK
  <2>1. CASE Fails(c)
    BY <1>a, <2>1 DEF Fails, Return, Goto
  <2>2. CASE RunJob(c) \/ SetTimeout(c)
    BY <1>a, <2>2 DEF RunJob, SetTimeout, Goto
  <2>3. CASE Wait(c)
    BY <1>a, <2>3 DEF Wait, Return, Goto, Queries
  <2>4. CASE BeginTx(c) \/ Connect(c)
    BY <1>a, <2>4 DEF BeginTx, Connect, Acquire, Goto
  <2>5. CASE SendQuery(c)
    BY <1>a, <2>5 DEF SendQuery, Goto
  <2>6. CASE NextItem(c)
    BY <1>a, <2>6 DEF NextItem
  <2>7. CASE ItemsEnd(c)
    BY <1>a, <2>7 DEF ItemsEnd, Return, Goto, Queries
  <2>8. CASE GetDataset(c) \/ GetTableSchema(c) \/ ExplainCost(c)
    BY <1>a, <2>8 DEF GetDataset, GetTableSchema, ExplainCost, Single, Return, Goto, Queries
  <2>9. CASE CheckIndex(c)
    BY <1>a, <2>9 DEF CheckIndex, Return, Goto
  <2>10. CASE Search(c) \/ ListIndices(c)
    BY <1>a, <2>10 DEF Search, ListIndices, Decode, Return, Goto, Queries
  <2>11. QED
    BY <2>1, <2>2, <2>3, <2>4, <2>5, <2>6, <2>7, <2>8, <2>9, <2>10
       DEF CallStep, ReadRow, ListDatasets, ListTables, ScanRow
<1>4. QED
  BY <1>2, <1>3 DEF WholeInv

\* A call begins with nothing, and BigQuery ends a job while the call waits.
LEMMA StepWhole ==
  ASSUME TypeOK, StepsOfKind, WholeInv, [Next]_vars
  PROVE  WholeInv'
<1>a. CallTypeOK
  BY DEF TypeOK
<1>1. ASSUME NEW c \in Calls, Call(c) PROVE WholeInv'
  <2>1. PICK o \in Offers : Begin(c, o[2], o[3])
    BY <1>1 DEF Call
  <2>2. at[c] = "idle" /\ at' = [at EXCEPT ![c] = FirstStep(o[2])]
        /\ kind' = [kind EXCEPT ![c] = o[2]] /\ UNCHANGED <<job, size, got, outcome>>
    BY <2>1 DEF Begin, Goto
  <2>3. FirstStep(o[2]) \notin {"wait", "items", "returned"}
    BY DEF FirstStep
  <2>4. QED
    BY <1>a, <2>2, <2>3 DEF WholeInv, WholeSoFar, CallTypeOK
<1>2. ASSUME NEW c \in Calls, Work(c) PROVE WholeInv'
  BY <1>a, <1>2, CallStepWhole DEF Work
<1>3. ASSUME NEW c \in Calls, Expire(c) PROVE WholeInv'
  BY <1>3 DEF Expire, ContextEnds, WholeInv, WholeSoFar
<1>4. ASSUME NEW c \in Calls, JobCounts(c) PROVE WholeInv'
  <2>1. at[c] = "wait" /\ UNCHANGED <<kind, at, got, outcome>>
        /\ (kind[c] = "dry" => size'[c] = 0)
    BY <1>a, <1>4 DEF JobCounts, JobEnds, CallTypeOK, WholeInv, WholeSoFar
  <2>2. \A d \in Calls \ {c} : job'[d] = job[d] /\ size'[d] = size[d]
    BY <1>a, <1>4 DEF JobCounts, JobEnds, CallTypeOK
  <2>3. QED
    BY <2>1, <2>2 DEF WholeInv, WholeSoFar
<1>5. ASSUME NEW c \in Calls, Refuse(c) \/ Answer(c) PROVE WholeInv'
  <2>1. UNCHANGED callVars
    BY <1>5, AnswerParts DEF Refuse
  <2>2. QED
    BY <2>1 DEF callVars, WholeInv, WholeSoFar
<1>6. CASE UNCHANGED vars
  BY <1>6 DEF vars, callVars, WholeInv, WholeSoFar
<1>7. QED
  BY <1>1, <1>2, <1>3, <1>4, <1>5, <1>6 DEF Next

LEMMA InitWhole == Init => StepsOfKind /\ WholeInv
  BY DEF Init, CallInit, StepsOfKind, WholeInv, WholeSoFar

\* A call that returns a result returns all of it.
THEOREM AnswersAreWhole == Spec => []WholeOrNothing
<1>1. Init => TypeOK /\ StepsOfKind /\ WholeInv
  BY InitTypeOK, InitWhole
<1>2. (TypeOK /\ StepsOfKind /\ WholeInv) /\ [Next]_vars
        => (TypeOK /\ StepsOfKind /\ WholeInv)'
  BY StepTypeOK, StepWhole
<1>3. WholeInv => WholeOrNothing
  BY DEF WholeInv, WholeSoFar, WholeOrNothing, Queries
<1>4. QED
  BY <1>1, <1>2, <1>3, PTL DEF Spec

(***************************************************************************)
(* Index patterns.                                                         *)
(***************************************************************************)
OwnPatternsOf(c) == IF scope[c] = {} THEN ServicePatterns ELSE scope[c]

\* What a call was told of was found by what its squad's patterns let through.
Told(c) ==
  \A i \in seen[c] :
    \E e \in IF kind[c] = "search" THEN index[c] ELSE {i} :
      i \in Reaches[e] /\ Permits(OwnPatternsOf(c), e)

\* A call is made on the shared object or on one of its own, which has the
\* patterns of its squad; what it is about to ask for is let through by them.
PatternsOf(c) ==
  /\ service[c] \in {c, Shared}
  /\ at[c] # "returned" => seen[c] = {}
  /\ at[c] # "idle" /\ kind[c] \in Elasticsearch => allowed[service[c]] = OwnPatternsOf(c)
  /\ at[c] = "send" /\ kind[c] = "search" =>
       \A e \in index[c] : Permits(OwnPatternsOf(c), e)
  /\ Told(c)

PatternsInv == allowed[Shared] = ServicePatterns /\ \A c \in Calls : PatternsOf(c)

LEMMA CallStepPatterns ==
  ASSUME CallTypeOK, StepsOfKind, PatternsInv, NEW c \in Calls, CallStep(c)
  PROVE  PatternsInv'
<1>1. UNCHANGED <<kind, service, allowed, scope, index>>
  BY OthersUntouched
<1>2. /\ \A d : OwnPatternsOf(d)' = OwnPatternsOf(d)
      /\ \A d : seen'[d] = seen[d] => Told(d)' = Told(d)
  BY <1>1 DEF OwnPatternsOf, Told
<1>3. \A d \in Calls \ {c} : PatternsOf(d)'
  BY <1>1, <1>2, OthersUntouched DEF PatternsInv, PatternsOf
<1>a. PatternsOf(c)
  BY DEF PatternsInv
<1>b. at[c] # "idle"
  BY DEF CallStep, Fails, InProgress, RunJob, Wait, BeginTx, Connect, Acquire, SetTimeout, SendQuery,
         ReadRow, ListDatasets, ListTables, ScanRow, NextItem, ItemsEnd, GetDataset,
         GetTableSchema, ExplainCost, Single, CheckIndex, Search, ListIndices, Decode
<1>c. at'[c] # "idle"
  BY <1>b DEF CallStep, Fails, RunJob, Wait, BeginTx, Connect, Acquire, SetTimeout, SendQuery,
         ReadRow, ListDatasets, ListTables, ScanRow, NextItem, ItemsEnd, GetDataset,
         GetTableSchema, ExplainCost, Single, CheckIndex, Search, ListIndices, Decode,
         Return, Goto, CallTypeOK
<1>4. ASSUME UNCHANGED seen, at[c] # "returned",
             ~(at'[c] = "send" /\ kind[c] = "search") \/ CheckIndex(c)
      PROVE  PatternsOf(c)'
  <2>1. CASE CheckIndex(c) /\ at'[c] = "send"
    <3>1. kind[c] = "search" /\ \A e \in index[c] : IsIndexAllowed(c, e)
      BY <2>1 DEF CheckIndex, StepsOfKind, Return, Goto, CallTypeOK
    <3>2. allowed[service[c]] = OwnPatternsOf(c)
      BY <1>a, <1>b, <3>1 DEF PatternsOf, Elasticsearch
    <3>3. \A e \in index[c] : Permits(OwnPatternsOf(c), e)
      BY <3>1, <3>2 DEF IsIndexAllowed
    <3>4. QED
      BY <1>1, <1>2, <1>4, <1>a, <1>b, <3>3 DEF PatternsOf
  <2>2. CASE ~(at'[c] = "send" /\ kind[c] = "search")
    BY <1>1, <1>2, <1>4, <1>a, <1>b, <2>2 DEF PatternsOf
  <2>3. QED
    BY <1>1, <1>4, <2>1, <2>2
<1>5. CASE Search(c)
  <2>1. /\ at[c] = "send" /\ kind[c] = "search" /\ at'[c] = "returned"
        /\ seen'[c] = UNION {Reaches[e] : e \in index[c]}
    BY <1>5 DEF Search, Decode, Return, Goto, CallTypeOK
  <2>2. \A e \in index[c] : Permits(OwnPatternsOf(c), e)
    BY <1>a, <2>1 DEF PatternsOf
  <2>3. \A i \in seen'[c] : \E e \in index[c] :
           i \in Reaches[e] /\ Permits(OwnPatternsOf(c), e)
    BY <2>1, <2>2
  <2>4. \A e : Permits(OwnPatternsOf(c)', e) = Permits(OwnPatternsOf(c), e)
    BY <1>2
  <2>5. Told(c)'
    BY <1>1, <2>1, <2>3, <1>2 DEF Told, Permits
  <2>6. PatternsOf(c)'
    BY <1>1, <1>2, <1>a, <2>1, <2>5 DEF PatternsOf
  <2>7. QED
    BY <1>1, <1>3, <2>6 DEF PatternsInv
<1>6. CASE ListIndices(c)
  <2>1. kind[c] = "indices" /\ at'[c] = "returned"
        /\ seen'[c] = {i \in Indices : IsIndexAllowed(c, i)}
    BY <1>6 DEF ListIndices, Decode, Return, Goto, CallTypeOK
  <2>2. allowed[service[c]] = OwnPatternsOf(c)
    BY <1>a, <1>b, <2>1 DEF PatternsOf, Elasticsearch
  <2>3. Told(c)'
    <3>1. \A i \in seen'[c] : i \in Reaches[i] /\ Permits(OwnPatternsOf(c), i)
      BY <2>1, <2>2, DataServiceAssumption DEF DataServiceAssumption, IsIndexAllowed
    <3>2. kind'[c] # "search"
      BY <1>1, <2>1
    <3>3. QED
      BY <1>2, <3>1, <3>2 DEF Told, Permits
  <2>4. PatternsOf(c)'
    BY <1>1, <1>2, <1>a, <1>b, <2>1, <2>3 DEF PatternsOf
  <2>5. QED
    BY <1>1, <1>3, <2>4 DEF PatternsInv
<1>7. CASE ~Search(c) /\ ~ListIndices(c)
  <2>1. UNCHANGED seen /\ at[c] # "returned"
    BY <1>7 DEF CallStep, Fails, InProgress, RunJob, Wait, BeginTx, Connect, Acquire, SetTimeout,
         SendQuery, ReadRow, ListDatasets, ListTables, ScanRow, NextItem, ItemsEnd, GetDataset,
         GetTableSchema, ExplainCost, Single, CheckIndex
  <2>2. ~(at'[c] = "send" /\ kind[c] = "search") \/ CheckIndex(c)
    BY <1>7 DEF CallStep, Fails, InProgress, RunJob, Wait, BeginTx, Connect, Acquire, SetTimeout,
         SendQuery, ReadRow, ListDatasets, ListTables, ScanRow, NextItem, ItemsEnd, GetDataset,
         GetTableSchema, ExplainCost, Single, Return, Goto, CallTypeOK, StepsOfKind
  <2>3. QED
    BY <1>1, <1>3, <1>4, <2>1, <2>2 DEF PatternsInv
<1>8. QED
  BY <1>5, <1>6, <1>7

LEMMA StepPatterns ==
  ASSUME TypeOK, StepsOfKind, PatternsInv, [Next]_vars
  PROVE  PatternsInv'
<1>a. CallTypeOK
  BY DEF TypeOK
<1>1. ASSUME NEW c \in Calls, Call(c) PROVE PatternsInv'
  <2>1. PICK o \in Offers : Begin(c, o[2], o[3])
    BY <1>1 DEF Call
  <2>2. at[c] = "idle" /\ at' = [at EXCEPT ![c] = FirstStep(o[2])]
        /\ kind' = [kind EXCEPT ![c] = o[2]] /\ UNCHANGED seen
    BY <2>1 DEF Begin, Goto
  <2>3. PICK ps : scope' = [scope EXCEPT ![c] = ps] /\ ServiceFor(c, ps)
    BY <2>1 DEF Begin
  <2>4. PICK is : index' = [index EXCEPT ![c] = is]
    BY <2>1 DEF Begin
  <2>5. o[2] = "search" => FirstStep(o[2]) # "send"
    BY DEF FirstStep, Postgres
  <2>6. allowed'[Shared] = ServicePatterns
    BY <1>a, <2>3 DEF ServiceFor, WithPatterns, PatternsInv, CallTypeOK
  <2>7. \A d \in Calls \ {c} :
          /\ service'[d] = service[d] /\ allowed'[d] = allowed[d]
          /\ OwnPatternsOf(d)' = OwnPatternsOf(d) /\ Told(d)' = Told(d)
    BY <1>a, <2>2, <2>3, <2>4
       DEF ServiceFor, WithPatterns, OwnPatternsOf, Told, CallTypeOK
  <2>8. \A d \in Calls \ {c} : PatternsOf(d)'
    BY <1>a, <2>2, <2>4, <2>6, <2>7 DEF PatternsInv, PatternsOf, CallTypeOK
  <2>9. service'[c] \in {c, Shared} /\ allowed'[service'[c]] = OwnPatternsOf(c)'
    <3>1. CASE ps = {}
      BY <1>a, <2>3, <2>6, <3>1 DEF ServiceFor, WithPatterns, OwnPatternsOf, CallTypeOK
    <3>2. CASE ps # {}
      BY <1>a, <2>3, <3>2 DEF ServiceFor, WithPatterns, OwnPatternsOf, CallTypeOK
    <3>3. QED
      BY <3>1, <3>2
  <2>10. seen'[c] = {} /\ ~(at'[c] = "send" /\ kind'[c] = "search")
    BY <1>a, <2>2, <2>5 DEF PatternsInv, PatternsOf, CallTypeOK
  <2>11. PatternsOf(c)'
    BY <2>9, <2>10 DEF PatternsOf, Told
  <2>12. QED
    BY <2>6, <2>8, <2>11 DEF PatternsInv
<1>2. ASSUME NEW c \in Calls, Work(c) PROVE PatternsInv'
  BY <1>a, <1>2, CallStepPatterns DEF Work
<1>3. ASSUME NEW c \in Calls, Expire(c) \/ JobCounts(c) PROVE PatternsInv'
  BY <1>3 DEF Expire, ContextEnds, JobCounts, JobEnds, PatternsInv, PatternsOf,
     OwnPatternsOf, Told
<1>4. ASSUME NEW c \in Calls, Refuse(c) \/ Answer(c) PROVE PatternsInv'
  <2>1. UNCHANGED callVars
    BY <1>4, AnswerParts DEF Refuse
  <2>2. QED
    BY <2>1 DEF callVars, PatternsInv, PatternsOf, OwnPatternsOf, Told
<1>5. CASE UNCHANGED vars
  BY <1>5 DEF vars, callVars, PatternsInv, PatternsOf, OwnPatternsOf, Told
<1>6. QED
  BY <1>1, <1>2, <1>3, <1>4, <1>5 DEF Next

LEMMA InitPatterns == Init => PatternsInv
  BY DEF Init, CallInit, PatternsInv, PatternsOf, Told

\* What one is told of was found by what its own squad's patterns let through, for
\* any patterns and expressions and whatever these reach; requests of other squads
\* never change that.
THEOREM PatternsAreOwn == Spec => []OwnPatterns
<1>1. Init => TypeOK /\ StepsOfKind /\ PatternsInv
  BY InitTypeOK, InitWhole, InitPatterns
<1>2. (TypeOK /\ StepsOfKind /\ PatternsInv) /\ [Next]_vars
        => (TypeOK /\ StepsOfKind /\ PatternsInv)'
  BY StepTypeOK, StepPatterns
<1>3. PatternsInv => OwnPatterns
  BY DEF PatternsInv, PatternsOf, OwnPatternsOf, Told, OwnPatterns
<1>4. QED
  BY <1>1, <1>2, <1>3, PTL DEF Spec

(***************************************************************************)
(* The books of the queries.                                               *)
(***************************************************************************)
Answered(c) == kind[c] \in Queries /\ status[c] \in {200, 429, 500}

\* What QueryAccounted says of one call.
Accounted(c) ==
  /\ audits[c] = IF AuditEnabled /\ Answered(c)
                 THEN <<IF status[c] = 200 THEN "success" ELSE "failure">> ELSE <<>>
  /\ (c \in costs) = (Answered(c) /\ status[c] = 200)
  /\ (shown[c] # "none") = (c \in costs)
  /\ c \in costs => /\ job[c] = "done" /\ got[c] = size[c]
                    /\ bytes[c] <= MaxBytes
                    /\ shown[c] = IF enableMask THEN "masked" ELSE "raw"

\* A call is answered when it has returned, and a request of no one's is at rest.
AnsweredLate(c) ==
  /\ caller[c] = "none" => status[c] = 0 /\ at[c] = "idle"
  /\ status[c] \in {200, 404, 429, 500} => at[c] = "returned"

AccountsInv == \A c \in Calls : Accounted(c) /\ AnsweredLate(c)

\* Until its reply a query has no entry anywhere.
LEMMA NoEntryYet ==
  ASSUME TypeOK, AccountsInv, NEW c \in Calls, at[c] # "returned" \/ status[c] = 0
  PROVE  /\ ~Answered(c) /\ audits[c] = <<>> /\ c \notin costs /\ shown[c] = "none"
<1>1. ~Answered(c)
  BY DEF AccountsInv, AnsweredLate, Answered
<1>2. QED
  BY <1>1 DEF AccountsInv, Accounted

LEMMA EntriesKept ==
  ASSUME TypeOK, AccountsInv, NEW c \in Calls, UNCHANGED <<enableMask, replyVars>>,
         ~Answered(c), ~Answered(c)', AnsweredLate(c)',
         \A d \in Calls \ {c} :
           /\ kind'[d] = kind[d] /\ at'[d] = at[d] /\ caller'[d] = caller[d]
           /\ job'[d] = job[d] /\ got'[d] = got[d] /\ size'[d] = size[d]
           /\ bytes'[d] = bytes[d]
  PROVE  AccountsInv'
<1>1. \A d \in Calls \ {c} : Answered(d)' = Answered(d)
  BY DEF Answered, replyVars
<1>2. \A d \in Calls \ {c} : Accounted(d)' /\ AnsweredLate(d)'
  BY <1>1 DEF AccountsInv, Accounted, AnsweredLate, replyVars
<1>3. Accounted(c)'
  BY DEF AccountsInv, Accounted, replyVars
<1>4. QED
  BY <1>2, <1>3 DEF AccountsInv

\* A reply makes the query's entries.
LEMMA AnswerAccounts ==
  ASSUME TypeOK, WholeInv, AccountsInv, NEW c \in Calls, Answer(c)
  PROVE  AccountsInv'
<1>1. /\ status[c] = 0 /\ caller[c] = "rest" /\ at[c] = "returned"
      /\ UNCHANGED <<callVars, enableMask, caller, bytes>>
      /\ \A d \in Calls \ {c} : status'[d] = status[d] /\ audits'[d] = audits[d]
      /\ OtherReply(c) \/ QueryRefused(c) \/ QueryServed(c)
  BY AnswerParts
<1>2. UNCHANGED <<kind, at, job, got, size, outcome>>
  BY <1>1 DEF callVars
<1>3. audits[c] = <<>> /\ c \notin costs /\ shown[c] = "none"
  BY <1>1, NoEntryYet
<1>4. \A d \in Calls \ {c} : shown'[d] = shown[d] /\ ((d \in costs') = (d \in costs))
  BY <1>1 DEF OtherReply, QueryRefused, QueryServed, TypeOK
<1>5. ASSUME NEW d \in Calls \ {c} PROVE Accounted(d)' /\ AnsweredLate(d)'
  BY <1>1, <1>2, <1>4 DEF AccountsInv, Accounted, AnsweredLate, Answered
<1>6. AnsweredLate(c)'
  BY <1>1, <1>2 DEF AnsweredLate
<1>7. Accounted(c)'
  <2>1. CASE OtherReply(c)
    BY <1>2, <1>3, <2>1 DEF OtherReply, Accounted, Answered
  <2>2. CASE QueryRefused(c)
    <3>1. Answered(c)' /\ status'[c] # 200
      BY <1>2, <2>2 DEF QueryRefused, Answered
    <3>2. audits'[c] = IF AuditEnabled THEN <<"failure">> ELSE <<>>
      BY <1>3, <2>2 DEF QueryRefused
    <3>3. QED
      BY <1>3, <2>2, <3>1, <3>2 DEF QueryRefused, Accounted
  <2>3. CASE QueryServed(c)
    <3>1. Answered(c)' /\ status'[c] = 200
      BY <1>2, <2>3 DEF QueryServed, Answered
    <3>2. audits'[c] = IF AuditEnabled THEN <<"success">> ELSE <<>>
      BY <1>3, <2>3 DEF QueryServed
    <3>3. c \in costs' /\ shown'[c] = IF enableMask THEN "masked" ELSE "raw"
      BY <2>3 DEF QueryServed, TypeOK
    <3>4. job[c] = "done" /\ got[c] = size[c] /\ bytes[c] <= MaxBytes
      BY <2>3 DEF QueryServed, WholeInv, WholeSoFar
    <3>5. QED
      BY <1>1, <1>2, <3>1, <3>2, <3>3, <3>4 DEF Accounted
  <2>4. QED
    BY <1>1, <2>1, <2>2, <2>3
<1>8. QED
  BY <1>5, <1>6, <1>7 DEF AccountsInv

LEMMA StepAccounts ==
  ASSUME TypeOK, StepsOfKind, WholeInv, AccountsInv, [Next]_vars
  PROVE  AccountsInv'
<1>a. CallTypeOK
  BY DEF TypeOK
<1>1. ASSUME NEW c \in Calls, Call(c) PROVE AccountsInv'
  <2>1. PICK o \in Offers : caller' = [caller EXCEPT ![c] = o[1]] /\ Begin(c, o[2], o[3])
    BY <1>1 DEF Call
  <2>2. caller[c] = "none" /\ status[c] = 0 /\ UNCHANGED <<enableMask, bytes, replyVars>>
    BY <1>1 DEF Call, AccountsInv, AnsweredLate
  <2>3. caller'[c] # "none" /\ \A d \in Calls \ {c} : caller'[d] = caller[d]
    BY <2>1, OfferParts DEF TypeOK
  <2>4. \A d \in Calls \ {c} : at'[d] = at[d] /\ kind'[d] = kind[d]
    BY <1>a, <2>1 DEF Begin, Goto, CallTypeOK
  <2>5. UNCHANGED <<job, size, got>>
    BY <2>1 DEF Begin
  <2>6. ~Answered(c) /\ ~Answered(c)' /\ AnsweredLate(c)'
    BY <2>2, <2>3 DEF Answered, AnsweredLate, replyVars
  <2>7. QED
    BY <2>2, <2>3, <2>4, <2>5, <2>6, EntriesKept
<1>2. ASSUME NEW c \in Calls, Refuse(c) PROVE AccountsInv'
  <2>1. caller[c] = "none" /\ status[c] = 0
    BY <1>2 DEF Refuse, AccountsInv, AnsweredLate
  <2>2. UNCHANGED <<kind, at, job, size, got, enableMask, bytes, shown, audits, costs>>
    BY <1>2 DEF Refuse, callVars
  <2>3. PICK code \in {400, 403} : status' = [status EXCEPT ![c] = code]
    BY <1>2 DEF Refuse
  <2>4. status'[c] \in {400, 403} /\ \A d \in Calls \ {c} : status'[d] = status[d]
    BY <2>3 DEF TypeOK
  <2>5. caller'[c] = "rest" /\ \A d \in Calls \ {c} : caller'[d] = caller[d]
    BY <1>2 DEF Refuse, TypeOK
  <2>6. \A d \in Calls \ {c} : Accounted(d)' /\ AnsweredLate(d)'
    BY <2>2, <2>4, <2>5 DEF AccountsInv, Accounted, AnsweredLate, Answered
  <2>7. ~Answered(c)' /\ AnsweredLate(c)'
    BY <2>4, <2>5 DEF Answered, AnsweredLate
  <2>8. audits[c] = <<>> /\ c \notin costs /\ shown[c] = "none"
    BY <2>1, NoEntryYet
  <2>9. Accounted(c)'
    BY <2>2, <2>7, <2>8 DEF Accounted
  <2>10. QED
    BY <2>6, <2>7, <2>9 DEF AccountsInv
<1>3. ASSUME NEW c \in Calls, Work(c) \/ JobCounts(c), UNCHANGED <<enableMask, caller, replyVars>>,
             at[c] # "returned", caller[c] # "none",
             UNCHANGED kind,
             \A d \in Calls \ {c} : /\ at'[d] = at[d] /\ job'[d] = job[d] /\ got'[d] = got[d]
                                    /\ size'[d] = size[d] /\ bytes'[d] = bytes[d]
      PROVE  AccountsInv'
  <2>1. ~Answered(c) /\ status[c] \notin {200, 404, 429, 500}
    BY <1>3, NoEntryYet DEF AccountsInv, AnsweredLate
  <2>2. ~Answered(c)' /\ AnsweredLate(c)'
    BY <1>3, <2>1 DEF Answered, AnsweredLate, replyVars
  <2>3. QED
    BY <1>3, <2>1, <2>2, EntriesKept
<1>4. ASSUME NEW c \in Calls, Work(c) PROVE AccountsInv'
  <2>1. at[c] \notin {"idle", "returned"}
    BY <1>4 DEF Work, CallStep, Fails, InProgress, RunJob, Wait, BeginTx, Connect, Acquire,
         SetTimeout, SendQuery, ReadRow, ListDatasets, ListTables, ScanRow, NextItem, ItemsEnd,
         GetDataset, GetTableSchema, ExplainCost, Single, CheckIndex, Search, ListIndices, Decode
  <2>2. caller[c] # "none"
    BY <2>1 DEF AccountsInv, AnsweredLate
  <2>3. CallStep(c) /\ UNCHANGED <<enableMask, caller, bytes, replyVars>>
    BY <1>4 DEF Work
  <2>4. \A d \in Calls \ {c} : job'[d] = job[d]
    BY <1>a, <2>3, OthersUntouched DEF CallTypeOK
  <2>5. UNCHANGED kind /\ \A d \in Calls \ {c} : at'[d] = at[d] /\ got'[d] = got[d] /\ size'[d] = size[d]
    BY <1>a, <2>3, OthersUntouched
  <2>6. QED
    BY <1>3, <1>4, <2>1, <2>2, <2>3, <2>4, <2>5
<1>5. ASSUME NEW c \in Calls, Expire(c) PROVE AccountsInv'
  BY <1>5 DEF Expire, ContextEnds, AccountsInv, Accounted, AnsweredLate, Answered, replyVars
<1>6. ASSUME NEW c \in Calls, JobCounts(c) PROVE AccountsInv'
  <2>1. at[c] = "wait" /\ UNCHANGED <<kind, at, got, enableMask, caller, replyVars>>
    BY <1>6 DEF JobCounts, JobEnds
  <2>2. caller[c] # "none"
    BY <2>1 DEF AccountsInv, AnsweredLate
  <2>3. \A d \in Calls \ {c} : job'[d] = job[d] /\ size'[d] = size[d]
    BY <1>a, <1>6 DEF JobCounts, JobEnds, CallTypeOK
  <2>4. \A d \in Calls \ {c} : bytes'[d] = bytes[d]
    BY <1>6 DEF JobCounts, TypeOK
  <2>5. QED
    BY <1>3, <1>6, <2>1, <2>2, <2>3, <2>4
<1>7. ASSUME NEW c \in Calls, Answer(c) PROVE AccountsInv'
  BY <1>7, AnswerAccounts
<1>8. CASE UNCHANGED vars
  BY <1>8 DEF vars, callVars, replyVars, AccountsInv, Accounted, AnsweredLate, Answered
<1>9. QED
  BY <1>1, <1>2, <1>4, <1>5, <1>6, <1>7, <1>8 DEF Next

LEMMA InitAccounts == Init => AccountsInv
  BY DEF Init, CallInit, AccountsInv, Accounted, AnsweredLate, Answered

\* Reply, audit log and cost log of every query agree.
THEOREM QueriesAreAccounted == Spec => []QueryAccounted
<1>1. Init => TypeOK /\ StepsOfKind /\ WholeInv /\ AccountsInv
  BY InitTypeOK, InitWhole, InitAccounts
<1>2. (TypeOK /\ StepsOfKind /\ WholeInv /\ AccountsInv) /\ [Next]_vars
        => (TypeOK /\ StepsOfKind /\ WholeInv /\ AccountsInv)'
  BY StepTypeOK, StepWhole, StepAccounts
<1>3. AccountsInv => QueryAccounted
  BY DEF AccountsInv, Accounted, Answered, QueryAccounted
<1>4. QED
  BY <1>1, <1>2, <1>3, PTL DEF Spec

(***************************************************************************)
(* How many steps are left to a call: those of the service, the end of its *)
(* context, and the reply.  Every step of the system is one call's, and    *)
(* takes from that call's count alone.                                     *)
(***************************************************************************)
WorkLeft(c) ==
  CASE at[c] = "run" -> MaxItems + 4
    [] at[c] = "wait" -> IF job[c] = "running" THEN MaxItems + 3 ELSE MaxItems + 2
    [] at[c] = "connect" -> MaxItems + 4
    [] at[c] \in {"timeout", "check"} -> MaxItems + 3
    [] at[c] = "send" -> MaxItems + 2
    [] at[c] = "items" -> size[c] - got[c] + 1
    [] OTHER -> 0

ContextLeft(c) == IF InProgress(c) /\ ~over[c] THEN 1 ELSE 0

ReplyLeft(c) == IF caller[c] = "rest" /\ at[c] # "idle" /\ status[c] = 0 THEN 1 ELSE 0

CallLeft(c) == IF caller[c] = "none" THEN MaxItems + 7
               ELSE WorkLeft(c) + ContextLeft(c) + ReplyLeft(c)

\* No more items are read than there are, and no service works for nobody.
CountInv ==
  \A c \in Calls : /\ at[c] = "items" => got[c] <= size[c]
                   /\ caller[c] = "none" => at[c] = "idle"

LEMMA WorkLeftType ==
  ASSUME CallTypeOK, CountInv, NEW c \in Calls
  PROVE  WorkLeft(c) \in 0..(MaxItems + 4)
<1>1. /\ at[c] \in {"idle", "run", "wait", "connect", "timeout", "check",
                    "send", "items", "returned"}
      /\ size[c] \in 0..MaxItems /\ got[c] \in 0..MaxItems
      /\ at[c] = "items" => got[c] <= size[c]
  BY DEF CallTypeOK, CountInv
<1>2. QED
  BY <1>1 DEF WorkLeft

LEMMA CallLeftType ==
  ASSUME CallTypeOK, CountInv, NEW c \in Calls
  PROVE  CallLeft(c) \in 0..(MaxItems + 7)
<1>1. WorkLeft(c) \in 0..(MaxItems + 4)
  BY WorkLeftType
<1>2. ContextLeft(c) \in {0, 1} /\ ReplyLeft(c) \in {0, 1}
  BY DEF ContextLeft, ReplyLeft
<1> HIDE DEF WorkLeft, ContextLeft, ReplyLeft
<1>3. QED
  BY <1>1, <1>2 DEF CallLeft

\* The count depends on what the call itself has.
LEMMA CallLeftKept ==
  ASSUME NEW d, at'[d] = at[d], job'[d] = job[d], size'[d] = size[d], got'[d] = got[d],
         over'[d] = over[d], caller'[d] = caller[d], status'[d] = status[d]
  PROVE  CallLeft(d)' = CallLeft(d)
  BY DEF CallLeft, WorkLeft, ContextLeft, ReplyLeft, InProgress

\* A service's step brings its call nearer to the return.
LEMMA CallStepWorks ==
  ASSUME CallTypeOK, WholeInv, CountInv, NEW c \in Calls, CallStep(c)
  PROVE  /\ WorkLeft(c)' < WorkLeft(c)
         /\ InProgress(c)
         /\ at'[c] = "items" => got'[c] <= size'[c]
         /\ at'[c] # "idle"
         /\ over' = over
<1>1. /\ at[c] \in {"idle", "run", "wait", "connect", "timeout", "check",
                    "send", "items", "returned"}
      /\ size[c] \in 0..MaxItems /\ got[c] \in 0..MaxItems
      /\ at[c] = "items" => got[c] <= size[c]
      /\ at[c] \in {"wait", "send"} => got[c] = 0
  BY DEF CallTypeOK, CountInv, WholeInv, WholeSoFar
<1> USE <1>1 DEF WorkLeft, InProgress
<1>2. CASE Fails(c)
  <2>1. at'[c] = "returned" /\ at[c] \notin {"idle", "returned"} /\ over' = over
    BY <1>2 DEF Fails, Return, Goto, CallTypeOK
  <2>2. QED
    BY <2>1
<1>3. CASE RunJob(c)
  <2>1. at[c] = "run" /\ at'[c] = "wait" /\ job'[c] = "running" /\ over' = over
    BY <1>3 DEF RunJob, Goto, CallTypeOK
  <2>2. QED
    BY <2>1
<1>4. CASE Wait(c)
  <2>1. at[c] = "wait" /\ job[c] = "done" /\ at'[c] \in {"items", "returned"}
        /\ UNCHANGED <<over, size, got>>
    BY <1>4 DEF Wait, Return, Goto, CallTypeOK
  <2>2. QED
    BY <2>1
<1>5. CASE BeginTx(c) \/ Connect(c)
  <2>1. at[c] = "connect" /\ at'[c] \in {"timeout", "send"} /\ over' = over
    BY <1>5 DEF BeginTx, Connect, Acquire, Goto, CallTypeOK
  <2>2. QED
    BY <2>1
<1>6. CASE SetTimeout(c)
  <2>1. at[c] = "timeout" /\ at'[c] = "send" /\ over' = over
    BY <1>6 DEF SetTimeout, Goto, CallTypeOK
  <2>2. QED
    BY <2>1
<1>7. CASE SendQuery(c)
  <2>1. at[c] = "send" /\ at'[c] = "items" /\ size'[c] \in 0..MaxItems
        /\ UNCHANGED <<over, got>>
    BY <1>7 DEF SendQuery, Goto, CallTypeOK
  <2>2. QED
    BY <2>1
<1>8. CASE NextItem(c)
  <2>1. at[c] = "items" /\ got[c] < size[c] /\ got'[c] = got[c] + 1
        /\ UNCHANGED <<at, over, size>>
    BY <1>8 DEF NextItem, CallTypeOK
  <2>2. QED
    BY <2>1
<1>9. CASE ItemsEnd(c) \/ Single(c)
  <2>1. at[c] \in {"items", "send"} /\ at'[c] = "returned" /\ over' = over
    BY <1>9 DEF ItemsEnd, Single, Return, Goto, CallTypeOK
  <2>2. QED
    BY <2>1
<1>10. CASE CheckIndex(c)
  <2>1. at[c] = "check" /\ at'[c] \in {"send", "returned"} /\ over' = over
    BY <1>10 DEF CheckIndex, Return, Goto, CallTypeOK
  <2>2. QED
    BY <2>1
<1>11. CASE Search(c) \/ ListIndices(c)
  <2>1. at[c] = "send" /\ at'[c] = "returned" /\ over' = over
    BY <1>11 DEF Search, ListIndices, Decode, Return, Goto, CallTypeOK
  <2>2. QED
    BY <2>1
<1>12. QED
  BY <1>2, <1>3, <1>4, <1>5, <1>6, <1>7, <1>8, <1>9, <1>10, <1>11
     DEF CallStep, ReadRow, ListDatasets, ListTables, ScanRow, GetDataset, GetTableSchema, ExplainCost

\* A step is of one call, and takes from its count alone.
OneCallSpends ==
  \E c \in Calls : /\ CallLeft(c)' < CallLeft(c)
                   /\ \A d \in Calls \ {c} : CallLeft(d)' = CallLeft(d)

LEMMA StepSpends ==
  ASSUME TypeOK, StepsOfKind, WholeInv, CountInv, Next
  PROVE  CountInv' /\ OneCallSpends
<1>a. CallTypeOK
  BY DEF TypeOK
<1>1. ASSUME NEW c \in Calls, Call(c) PROVE CountInv' /\ OneCallSpends
  <2>1. PICK o \in Offers : caller' = [caller EXCEPT ![c] = o[1]] /\ Begin(c, o[2], o[3])
    BY <1>1 DEF Call
  <2>2. /\ caller[c] = "none" /\ caller'[c] # "none"
        /\ \A d \in Calls \ {c} : caller'[d] = caller[d]
    <3>1. o[1] \in {"rest", "agent"}
      BY OfferParts
    <3>2. caller'[c] = o[1] /\ \A d \in Calls \ {c} : caller'[d] = caller[d]
      BY <2>1 DEF TypeOK
    <3>3. caller[c] = "none"
      BY <1>1 DEF Call
    <3>4. QED
      BY <3>1, <3>2, <3>3
  <2>3. /\ at'[c] = FirstStep(o[2])
        /\ \A d \in Calls \ {c} : at'[d] = at[d]
        /\ UNCHANGED <<job, size, got, over, status>>
    BY <1>a, <1>1, <2>1 DEF Call, Begin, Goto, CallTypeOK, replyVars
  <2>4. FirstStep(o[2]) \in {"run", "connect", "check", "send"}
    BY DEF FirstStep
  <2>5. CountInv'
    BY <2>2, <2>3, <2>4 DEF CountInv
  <2>6. WorkLeft(c)' <= MaxItems + 4 /\ WorkLeft(c)' \in Int
    BY <2>3, <2>4 DEF WorkLeft
  <2>7. ContextLeft(c)' \in {0, 1} /\ ReplyLeft(c)' \in {0, 1}
    BY DEF ContextLeft, ReplyLeft
  <2>8. CallLeft(c)' = WorkLeft(c)' + ContextLeft(c)' + ReplyLeft(c)' /\ CallLeft(c) = MaxItems + 7
    BY <2>2 DEF CallLeft
  <2>9. CallLeft(c)' < CallLeft(c)
    BY <2>6, <2>7, <2>8
  <2>10. \A d \in Calls \ {c} : CallLeft(d)' = CallLeft(d)
    BY <2>2, <2>3, CallLeftKept
  <2>11. QED
    BY <2>5, <2>9, <2>10 DEF OneCallSpends
<1>2. ASSUME NEW c \in Calls, Refuse(c) PROVE CountInv' /\ OneCallSpends
  <2>1. /\ caller[c] = "none" /\ caller'[c] = "rest" /\ UNCHANGED callVars
        /\ \A d \in Calls \ {c} : caller'[d] = caller[d] /\ status'[d] = status[d]
    BY <1>2 DEF Refuse, TypeOK
  <2>2. CountInv'
    BY <2>1 DEF CountInv, callVars
  <2>3. at'[c] = "idle"
    BY <2>1 DEF CountInv, callVars
  <2>4. CallLeft(c) = MaxItems + 7 /\ CallLeft(c)' = 0
    BY <2>1, <2>3 DEF CallLeft, WorkLeft, ContextLeft, ReplyLeft, InProgress
  <2>5. \A d \in Calls \ {c} : CallLeft(d)' = CallLeft(d)
    BY <2>1, CallLeftKept DEF callVars
  <2>6. QED
    BY <2>2, <2>4, <2>5 DEF OneCallSpends
<1>3. ASSUME NEW c \in Calls, Work(c) PROVE CountInv' /\ OneCallSpends
  <2>1. CallStep(c) /\ UNCHANGED <<caller, status>>
    BY <1>3 DEF Work, replyVars
  <2>2. /\ WorkLeft(c)' < WorkLeft(c) /\ InProgress(c) /\ at'[c] # "idle" /\ over' = over
        /\ at'[c] = "items" => got'[c] <= size'[c]
    BY <1>a, <2>1, CallStepWorks
  <2>3. \A d \in Calls \ {c} : /\ at'[d] = at[d] /\ size'[d] = size[d]
                               /\ got'[d] = got[d] /\ job'[d] = job[d]
    BY <1>a, <2>1, OthersUntouched DEF CallTypeOK
  <2>4. caller[c] # "none" /\ at[c] # "idle"
    BY <2>2 DEF CountInv, InProgress
  <2>5. CountInv'
    BY <2>1, <2>2, <2>3, <2>4 DEF CountInv
  <2>6. CallTypeOK'
    BY <1>a, <2>1, CallStepType
  <2>7. WorkLeft(c) \in Int /\ WorkLeft(c)' \in Int
    <3>1. WorkLeft(c) \in 0..(MaxItems + 4)
      BY <1>a, WorkLeftType
    <3>2. /\ size'[c] \in Int /\ got'[c] \in Int
      BY <2>6 DEF CallTypeOK
    <3>3. WorkLeft(c)' \in Int
      BY <3>2 DEF WorkLeft
    <3> HIDE DEF WorkLeft
    <3>4. QED
      BY <3>1, <3>3
  <2>8. /\ ReplyLeft(c)' = ReplyLeft(c) /\ ReplyLeft(c) \in {0, 1}
        /\ ContextLeft(c)' \in {0, 1} /\ ContextLeft(c) \in {0, 1}
        /\ ContextLeft(c)' <= ContextLeft(c)
    BY <2>1, <2>2, <2>4 DEF ReplyLeft, ContextLeft
  <2>9. /\ CallLeft(c) = WorkLeft(c) + ContextLeft(c) + ReplyLeft(c)
        /\ CallLeft(c)' = WorkLeft(c)' + ContextLeft(c)' + ReplyLeft(c)'
    BY <2>1, <2>4 DEF CallLeft
  <2>10. CallLeft(c)' < CallLeft(c)
    BY <2>2, <2>7, <2>8, <2>9
  <2>11. \A d \in Calls \ {c} : CallLeft(d)' = CallLeft(d)
    BY <2>1, <2>2, <2>3, CallLeftKept
  <2>12. QED
    BY <2>5, <2>10, <2>11 DEF OneCallSpends
<1>4. ASSUME NEW c \in Calls, Expire(c) PROVE CountInv' /\ OneCallSpends
  <2>1. /\ InProgress(c) /\ ~over[c] /\ over'[c]
        /\ \A d \in Calls \ {c} : over'[d] = over[d]
        /\ UNCHANGED <<at, job, size, got, caller, status>>
    BY <1>a, <1>4 DEF Expire, ContextEnds, CallTypeOK, replyVars
  <2>2. CountInv'
    BY <2>1 DEF CountInv
  <2>3. caller[c] # "none"
    BY <2>1 DEF CountInv, InProgress
  <2>4. /\ ContextLeft(c) = 1 /\ ContextLeft(c)' = 0
        /\ ReplyLeft(c)' = ReplyLeft(c) /\ ReplyLeft(c) \in Int
    BY <2>1 DEF ContextLeft, ReplyLeft
  <2>5. WorkLeft(c)' = WorkLeft(c)
    BY <2>1 DEF WorkLeft
  <2>6. WorkLeft(c) \in Int
    BY <1>a, WorkLeftType
  <2>7. /\ CallLeft(c) = WorkLeft(c) + ContextLeft(c) + ReplyLeft(c)
        /\ CallLeft(c)' = WorkLeft(c)' + ContextLeft(c)' + ReplyLeft(c)'
    BY <2>1, <2>3 DEF CallLeft
  <2>8. CallLeft(c)' < CallLeft(c)
    BY <2>4, <2>5, <2>6, <2>7
  <2>9. \A d \in Calls \ {c} : CallLeft(d)' = CallLeft(d)
    BY <2>1, CallLeftKept
  <2>10. QED
    BY <2>2, <2>8, <2>9 DEF OneCallSpends
<1>5. ASSUME NEW c \in Calls, JobCounts(c) PROVE CountInv' /\ OneCallSpends
  <2>1. /\ at[c] = "wait" /\ job[c] = "running" /\ job'[c] # "running"
        /\ \A d \in Calls \ {c} : job'[d] = job[d] /\ size'[d] = size[d]
        /\ UNCHANGED <<at, got, over, caller, status>>
    BY <1>a, <1>5 DEF JobCounts, JobEnds, CallTypeOK, replyVars
  <2>2. CountInv'
    BY <2>1 DEF CountInv
  <2>3. caller[c] # "none"
    BY <2>1 DEF CountInv
  <2>4. WorkLeft(c) = MaxItems + 3 /\ WorkLeft(c)' = MaxItems + 2
    BY <2>1 DEF WorkLeft
  <2>5. /\ ContextLeft(c)' = ContextLeft(c) /\ ContextLeft(c) \in Int
        /\ ReplyLeft(c)' = ReplyLeft(c) /\ ReplyLeft(c) \in Int
    BY <2>1 DEF ContextLeft, ReplyLeft, InProgress
  <2>6. /\ CallLeft(c) = WorkLeft(c) + ContextLeft(c) + ReplyLeft(c)
        /\ CallLeft(c)' = WorkLeft(c)' + ContextLeft(c)' + ReplyLeft(c)'
    BY <2>1, <2>3 DEF CallLeft
  <2>7. CallLeft(c)' < CallLeft(c)
    BY <2>4, <2>5, <2>6
  <2>8. \A d \in Calls \ {c} : CallLeft(d)' = CallLeft(d)
    BY <2>1, CallLeftKept
  <2>9. QED
    BY <2>2, <2>7, <2>8 DEF OneCallSpends
<1>6. ASSUME NEW c \in Calls, Answer(c) PROVE CountInv' /\ OneCallSpends
  <2>1. /\ status[c] = 0 /\ caller[c] = "rest" /\ at[c] = "returned"
        /\ UNCHANGED <<callVars, caller>>
        /\ \A d \in Calls \ {c} : status'[d] = status[d]
    BY <1>6, AnswerParts
  <2>2. status'[c] # 0
    BY <1>6, AnswerParts DEF OtherReply, QueryRefused, QueryServed
  <2>3. CountInv'
    BY <2>1 DEF CountInv, callVars
  <2>4. CallLeft(c) = 1 /\ CallLeft(c)' = 0
    BY <2>1, <2>2 DEF CallLeft, WorkLeft, ContextLeft, ReplyLeft, InProgress, callVars
  <2>5. \A d \in Calls \ {c} : CallLeft(d)' = CallLeft(d)
    BY <2>1, CallLeftKept DEF callVars
  <2>6. QED
    BY <2>3, <2>4, <2>5 DEF OneCallSpends
<1>7. QED
  BY <1>1, <1>2, <1>3, <1>4, <1>5, <1>6 DEF Next

\* A call and its reply take at most MaxItems + 7 steps, those of BigQuery and of
\* its context among them, and no other call lengthens it: whoever waits, waits
\* for one of these steps.
THEOREM CallsTakeFewSteps ==
  Spec => /\ [](\A c \in Calls : CallLeft(c) \in 0..(MaxItems + 7))
          /\ [][OneCallSpends]_vars
<1> DEFINE Inv == TypeOK /\ StepsOfKind /\ WholeInv /\ CountInv
           Few == \A c \in Calls : CallLeft(c) \in 0..(MaxItems + 7)
<1>1. Init => Inv
  <2>1. Init => CountInv
    BY DEF Init, CallInit, CountInv
  <2>2. QED
    BY <2>1, InitTypeOK, InitWhole
<1>2. Inv /\ [Next]_vars => Inv'
  <2> SUFFICES ASSUME Inv, [Next]_vars PROVE Inv'
    OBVIOUS
  <2>1. (TypeOK /\ StepsOfKind /\ WholeInv)'
    BY StepTypeOK, StepWhole
  <2>2. CASE Next
    BY <2>1, <2>2, StepSpends
  <2>3. CASE UNCHANGED vars
    <3>1. CountInv'
      BY <2>3 DEF vars, callVars, CountInv
    <3>2. QED
      BY <2>1, <3>1
  <2>4. QED
    BY <2>2, <2>3
<1>3. Inv => Few
  BY CallLeftType DEF TypeOK
<1>4. Inv /\ [Next]_vars => [OneCallSpends]_vars
  BY StepSpends
<1>5. QED
  <2> HIDE DEF Inv, Few
  <2>1. Spec => []Few /\ [][OneCallSpends]_vars
    BY <1>1, <1>2, <1>3, <1>4, PTL DEF Spec
  <2>2. QED
    BY <2>1 DEF Few

=============================================================================
