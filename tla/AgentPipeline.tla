---------------------------- MODULE AgentPipeline ----------------------------
(***************************************************************************)
(* One agent request through Handle or HandleStream of the BigQuery and    *)
(* the PostgreSQL handler, or Handle of the Elasticsearch handler          *)
(* (internal/agent/*_handler.go), with the agent loop inside: the checks   *)
(* of the prompt, the choice of tools, the run, the extraction, validation,*)
(* costing and execution of the SQL, the reply or the event stream.        *)
(* The caches are left out (SchemaCache and ResponseCache model them):     *)
(* this is a request that misses.  Definitions named for a slip            *)
(* (HideRowsLate, ...) are what the mutation runs swap in.                 *)
(***************************************************************************)
EXTENDS AgentLoop, FiniteSets

CONSTANT Exclusions     \* the excluded_tools of the personas

ASSUME AgentPipelineAssumption == Exclusions \subseteq SUBSET ToolNames

VARIABLES
  source,    \* which handler
  dry,       \* dry_run
  stream,    \* HandleStream rather than Handle
  dataset,   \* whether dataset_id is given
  excluded,  \* excluded_tools of the user's persona
  shared,    \* dry runs of both databases write behind the persona's names
  step,      \* where the handler is
  sql,       \* generatedSQL
  meta,      \* sql_validation, cost_tracking and data_masking
  estimate,  \* history: what is known of the cost of sql before it is executed
  executed,  \* history: the handler has handed sql to the database
  rows,      \* execResult is not nil
  audits,    \* lines in the audit log
  last,      \* the last event of the stream
  terminals, \* how many events of the stream were "result" or "error"
  reply      \* what the caller gets

requestVars == <<source, dry, stream, dataset, excluded, shared>>
handlerVars == <<step, sql, meta, estimate, executed, rows, audits, reply>>
eventVars == <<last, terminals>>
vars == <<loopVars, requestVars, handlerVars, eventVars>>

Sources == {"bigquery", "postgres", "elasticsearch"}

Meta == [validation : {"n/a", "passed", "blocked"},
         cost : {"n/a", "ok", "blocked"},
         masking : {"n/a", "applied"}]

TypeOK ==
  /\ LoopTypeOK
  /\ source \in Sources
  /\ dry \in BOOLEAN /\ stream \in BOOLEAN /\ dataset \in BOOLEAN
  /\ excluded \in SUBSET ToolNames
  /\ shared \in BOOLEAN
  /\ step \in {"gate", "prepare", "loop", "validate", "explain", "execute",
               "finish", "end"}
  /\ sql \in SQL
  /\ meta \in Meta
  /\ estimate \in {"none", "within", "over", "unknown"}
  /\ executed \in BOOLEAN /\ rows \in BOOLEAN
  /\ audits \in 0..1
  /\ last \in {"none", "start", "progress", "llm_call", "tool_call", "result",
               "error"}
  /\ terminals \in Nat
  /\ reply \in {"none", "success", "blocked", "failed"}

Init ==
  /\ LoopInit
  /\ source \in Sources
  /\ dry \in BOOLEAN /\ dataset \in BOOLEAN
  /\ stream \in IF source = "elasticsearch" THEN {FALSE} ELSE BOOLEAN
  /\ excluded \in Exclusions
  /\ shared \in IF excluded = {} THEN {FALSE} ELSE BOOLEAN
  /\ step = "gate"
  /\ sql = NoSQL
  /\ meta = [validation |-> "n/a", cost |-> "n/a", masking |-> "n/a"]
  /\ estimate = "none"
  /\ executed = FALSE
  /\ rows = FALSE
  /\ audits = 0
  /\ last = "none"
  /\ terminals = 0
  /\ reply = "none"

(***************************************************************************)
(* What the caller sees.                                                   *)
(***************************************************************************)
\* emitFn, which only HandleStream has.
Emit(e) ==
  /\ last' = IF stream THEN e ELSE last
  /\ terminals' = IF stream /\ e \in {"result", "error"} THEN terminals + 1
                  ELSE terminals

EndUnannounced(how) ==
  /\ step' = "end"
  /\ reply' = how
  /\ Emit(IF how = "success" THEN "result" ELSE "progress")

\* The handler returns, how being the reply of Handle; a stream ends with an
\* event instead.
End(how) ==
  /\ step' = "end"
  /\ reply' = how
  /\ Emit(IF how = "success" THEN "result" ELSE "error")

(***************************************************************************)
(* Before the run.                                                         *)
(***************************************************************************)
\* Squad, PII or prompt check; for PostgreSQL also no service for the squad or
\* no database name, for Elasticsearch the check of identifiers.
Block ==
  /\ step = "gate"
  /\ End("blocked")
  /\ UNCHANGED <<loopVars, requestVars, sql, meta, estimate, executed, rows,
                 audits>>

Pass ==
  /\ step = "gate"
  /\ source = "postgres" => dataset
  /\ step' = "prepare"
  /\ Emit("progress")
  /\ UNCHANGED <<loopVars, requestVars, sql, meta, estimate, executed, rows,
                 audits, reply>>

ExecuteTool ==
  IF source = "bigquery" THEN "execute_bigquery_sql" ELSE "execute_postgres_sql"

OnlyInspectionExcluded == IF dataset THEN {"inspect"} ELSE {}

\* What a dry run appends to excludedTools: inspection is not needed with the
\* schema of the dataset in the prompt.
DryRunExclusions == {ExecuteTool} \cup IF dataset THEN {"inspect"} ELSE {}

\* What of that another request's append may have replaced before filterTools
\* reads it: the array behind the slice is the persona's (RequestGate has the
\* writes one by one).  A nil slice has no room behind it.
Overwritten == IF dry /\ shared THEN SUBSET DryRunExclusions ELSE {{}}

\* filterTools, when the names in lost were overwritten; Elasticsearch does not
\* use it.
Tools(lost) ==
  IF source = "elasticsearch" THEN {"list", "search"}
  ELSE {"list", "inspect", ExecuteTool}
         \ (excluded \cup IF dry THEN DryRunExclusions \ lost ELSE {})

\* The tools are chosen, the schema section is fetched, the run begins.
Prepare ==
  /\ step = "prepare"
  /\ step' = "loop"
  /\ \E lost \in Overwritten : BeginRun(Tools(lost))
  /\ Emit("progress")
  /\ UNCHANGED <<requestVars, sql, meta, estimate, executed, rows, audits, reply>>

(***************************************************************************)
(* The run, which emits an event for each LLM call at the head of the loop *)
(* and for each tool call.                                                 *)
(***************************************************************************)
Running == step = "loop" /\ UNCHANGED <<requestVars, handlerVars>>

RunAsks == Ask /\ Running /\ Emit("llm_call")

RunCallsTool == RunTool /\ Running /\ Emit("tool_call")

RunSilently ==
  /\ Running
  /\ \/ AskFails
     \/ \E s \in SQL : Answer(s)
     \/ \E cs \in Batches : CallTools(cs)
     \/ \E cs \in Batches, s \in SQL : ForceAnswer(cs, s)
     \/ FinalFails
     \/ \E s \in SQL : FinalAnswer(s)
     \/ GoRound
  /\ UNCHANGED eventVars

\* "agent run: ...", without a response.
RunFailed ==
  /\ step = "loop"
  /\ ended = "error"
  /\ End("failed")
  /\ UNCHANGED <<loopVars, requestVars, sql, meta, estimate, executed, rows,
                 audits>>

(***************************************************************************)
(* After the run.                                                          *)
(***************************************************************************)
\* The statement in the text, or else the last the run executed.
Generated ==
  IF source = "elasticsearch" THEN NoSQL
  ELSE IF text # NoSQL THEN text ELSE lastSQL

ToExecute == Generated # NoSQL /\ ~dry

ExtractIfAny ==
  /\ step = "loop"
  /\ ended = "answer"
  /\ Generated # NoSQL
  /\ sql' = Generated
  /\ step' = IF ToExecute THEN "validate" ELSE "finish"
  /\ UNCHANGED <<loopVars, requestVars, eventVars, meta, estimate, executed,
                 rows, audits, reply>>

Extract ==
  /\ step = "loop"
  /\ ended = "answer"
  /\ sql' = Generated
  /\ step' = IF ToExecute THEN "validate" ELSE "finish"
  /\ UNCHANGED <<loopVars, requestVars, eventVars, meta, estimate, executed,
                 rows, audits, reply>>

Invalid ==
  /\ step = "validate"
  /\ meta' = [meta EXCEPT !.validation = "blocked"]
  /\ End("blocked")
  /\ UNCHANGED <<loopVars, requestVars, sql, estimate, executed, rows, audits>>

Valid ==
  /\ step = "validate"
  /\ meta' = [meta EXCEPT !.validation = "passed"]
  /\ step' = IF source = "postgres" THEN "explain" ELSE "execute"
  /\ UNCHANGED <<loopVars, requestVars, eventVars, sql, estimate, executed, rows,
                 audits, reply>>

\* EXPLAIN says that the statement is too dear.
TooDear ==
  /\ step = "explain"
  /\ estimate' = "over"
  /\ meta' = [meta EXCEPT !.cost = "blocked"]
  /\ End("blocked")
  /\ UNCHANGED <<loopVars, requestVars, sql, executed, rows, audits>>

\* EXPLAIN says that it is not; or EXPLAIN fails, or cannot be parsed and its
\* cost is taken for 0, and the check is passed all the same.
NotTooDear(known) ==
  /\ step = "explain"
  /\ estimate' = known
  /\ step' = "execute"
  /\ UNCHANGED <<loopVars, requestVars, eventVars, sql, meta, executed, rows,
                 audits, reply>>

\* The statement fails: no rows, and on with the reply.
ExecuteFails ==
  /\ step = "execute"
  /\ executed' = TRUE
  /\ step' = "finish"
  /\ Emit("progress")
  /\ UNCHANGED <<loopVars, requestVars, sql, meta, estimate, rows, audits, reply>>

ShowRows ==
  /\ meta' = [meta EXCEPT !.cost = "ok", !.masking = "applied"]
  /\ rows' = TRUE

HideRowsLate ==
  /\ meta' = [meta EXCEPT !.cost = "blocked", !.masking = "applied"]
  /\ rows' = TRUE

\* BigQuery tells afterwards how much it has read.
HideRows ==
  /\ meta' = [meta EXCEPT !.cost = "blocked"]
  /\ UNCHANGED rows

ExecuteSucceeds ==
  /\ step = "execute"
  /\ executed' = TRUE
  /\ ShowRows \/ (source = "bigquery" /\ HideRows)
  /\ step' = "finish"
  /\ Emit("progress")
  /\ UNCHANGED <<loopVars, requestVars, sql, estimate, audits, reply>>

Finish ==
  /\ step = "finish"
  /\ audits' = audits + 1
  /\ End("success")
  /\ UNCHANGED <<loopVars, requestVars, sql, meta, estimate, executed, rows>>

HandlerStep ==
  \/ Block
  \/ Pass
  \/ Prepare
  \/ RunFailed
  \/ Extract
  \/ Invalid
  \/ Valid
  \/ TooDear
  \/ \E known \in {"within", "unknown"} : NotTooDear(known)
  \/ ExecuteFails
  \/ ExecuteSucceeds
  \/ Finish

RunStep == RunAsks \/ RunCallsTool \/ RunSilently

Next == HandlerStep \/ RunStep

Spec == Init /\ [][Next]_vars

\* The schema section is read from the database, on the context of the HTTP
\* request, which has no deadline: the database may never answer.
FetchingSchema == step = "prepare" /\ dataset /\ source # "elasticsearch"

\* Each later call of an LLM, a tool or a database returns at the latest when
\* the context made for the run expires, and the handler's goroutine goes on.
FairSpec == Spec /\ WF_vars(~FetchingSchema /\ Next)

(***************************************************************************)
(* Properties.                                                             *)
(***************************************************************************)
\* "The final 'result' or 'error' event is always the last call to emitFn": a
\* stream that has ended has had one such event, as its last, and none before.
TerminalEventLast ==
  stream => /\ (step = "end") = (terminals = 1)
            /\ terminals \in 0..1
            /\ step = "end" => last \in {"result", "error"}

\* The handler executes nothing of a dry run after the loop, whatever tools the
\* loop had.  Nor does the loop hand a statement to a database, though the LLM
\* may call what it was not offered; but only if no dry run of the other
\* database can write over the names that hide the tool (DryRunToolsHidden in
\* RequestGate fails because they can).
DryRunExecutesNothing == dry => ~executed /\ (~shared => lastRun = NoSQL)

\* Rows are returned only for a statement that was validated, not found over the
\* cost limit and masked, and never under a label saying otherwise.
RowsAreChecked ==
  rows => /\ executed /\ ~dry
          /\ meta = [validation |-> "passed", cost |-> "ok", masking |-> "applied"]
          /\ estimate # "over"

\* "PostgreSQL EXPLAIN cost enforcement": rows from PostgreSQL go out under the
\* label "cost_tracking: ok" only if their cost is known to be within the limit.
CostEnforced ==
  source = "postgres" /\ meta.cost = "ok" => estimate = "within"

\* Every request ends, unless the database never answers when the schema section
\* is read: the LLM cannot keep it going by calling tools.
RequestEnds == <>[](step = "end" \/ FetchingSchema)

=============================================================================
