------------------------- MODULE AgentPipelineProofs -------------------------
(***************************************************************************)
(* Proofs about AgentPipeline for every set of statements and of persona   *)
(* exclusions and every bound of the loop.  The invariant of the handler   *)
(* leans on that of the loop inside it: a handler that is about to execute *)
(* SQL is not on a dry run, and a loop without an execute tool has not     *)
(* executed any.  The theorems about the loop alone hold wherever it runs. *)
(***************************************************************************)
EXTENDS AgentPipeline, SequenceTheorems, TLAPS

(***************************************************************************)
(* The loop.                                                               *)
(***************************************************************************)
USE AgentLoopAssumption DEF AgentLoopAssumption

\* A batch of tool calls has one call at least, and its members are tool calls.
LEMMA BatchIsSequence ==
  \A cs \in Batches : /\ Len(cs) \in 1..MaxCalls
                      /\ \A i \in 1..Len(cs) : cs[i] \in ToolCalls
<1> SUFFICES ASSUME NEW cs \in Batches
             PROVE  /\ Len(cs) \in 1..MaxCalls
                    /\ \A i \in 1..Len(cs) : cs[i] \in ToolCalls
  OBVIOUS
<1>1. PICK n \in 1..MaxCalls : cs \in [1..n -> ToolCalls]
  BY DEF Batches
<1>2. cs \in Seq(ToolCalls)
  BY <1>1, SeqDef
<1>3. Len(cs) = n
  BY <1>1, <1>2, LenProperties
<1>4. QED
  BY <1>1, <1>3

\* Where the loop is decides how often the LLM has been asked and which tool
\* calls have no result yet.
Rounds ==
  /\ at = "off" => iter = 0 /\ asked = 0 /\ calls = <<>> /\ opened = answered
                   /\ lastSQL = NoSQL /\ lastRun = NoSQL
  /\ at = "start" => iter <= ForceAt /\ asked = iter /\ calls = <<>>
                     /\ opened = answered
  /\ at = "waiting" => iter <= ForceAt /\ asked = iter + 1 /\ calls = <<>>
                       /\ opened = answered
  /\ at = "tools" => iter < ForceAt /\ asked = iter + 1 /\ calls \in Batches
                     /\ opened = answered + Len(calls)
  /\ at = "final" => asked <= ForceAt + 2
  /\ at = "ended" => asked <= ForceAt + 2
  /\ at \in {"off", "start", "waiting", "tools", "final"} <=> ended = "running"

\* Nothing is handed to a database without an execute tool.
NoToolNoRun == offered \cap ExecuteTools = {} => lastRun = NoSQL

LoopInv == LoopTypeOK /\ Rounds /\ FallbackIsLastRun /\ NoToolNoRun

\* The invariant holds before the run.
LEMMA LoopInitInv == LoopInit => LoopInv
  BY DEF LoopInit, LoopInv, LoopTypeOK, Rounds, FallbackIsLastRun, NoToolNoRun, SQL

\* No step of the loop breaks it.
LEMMA LoopStepInv == LoopInv /\ [LoopNext]_loopVars => LoopInv'
<1> SUFFICES ASSUME LoopInv, [LoopNext]_loopVars PROVE LoopInv'
  OBVIOUS
<1> USE BatchIsSequence
    DEF LoopInv, LoopTypeOK, Rounds, FallbackIsLastRun, NoToolNoRun, ExecuteTools,
        Watched, SQL, ToolCalls
<1>1. ASSUME NEW T \in SUBSET ToolNames, BeginRun(T)
      PROVE  LoopInv'
  BY <1>1 DEF BeginRun
<1>2. CASE Ask
  BY <1>2 DEF Ask
<1>3. CASE AskFails
  BY <1>3 DEF AskFails, Return
<1>4. ASSUME NEW found \in SQL, Answer(found)
      PROVE  LoopInv'
  BY <1>4 DEF Answer, Return
<1>5. ASSUME NEW cs \in Batches, CallTools(cs)
      PROVE  LoopInv'
  BY <1>5 DEF CallTools, Forcing
<1>6. ASSUME NEW cs \in Batches, NEW found \in SQL, ForceAnswer(cs, found)
      PROVE  LoopInv'
  BY <1>6 DEF ForceAnswer, Forcing
<1>7. CASE FinalFails
  BY <1>7 DEF FinalFails, Return
<1>8. ASSUME NEW found \in SQL, FinalAnswer(found)
      PROVE  LoopInv'
  BY <1>8 DEF FinalAnswer, Return
<1>9. CASE RunTool
  BY <1>9 DEF RunTool, Watch, HandsOver
<1>10. CASE GoRound
  BY <1>10 DEF GoRound, Results
<1>11. CASE UNCHANGED loopVars
  BY <1>11 DEF loopVars
<1>12. QED
  BY <1>1, <1>2, <1>3, <1>4, <1>5, <1>6,
     <1>7, <1>8, <1>9, <1>10, <1>11 DEF LoopNext, LoopStep

\* The types of the loop's variables.
THEOREM AgentLoopTypeOK == LoopSpec => []LoopTypeOK
<1>1. LoopInv => LoopTypeOK
  BY DEF LoopInv
<1>2. QED
  BY <1>1, LoopInitInv, LoopStepInv, PTL DEF LoopSpec

\* The loop always comes to a forced answer before it runs out of iterations.
THEOREM AgentLoopCallsBounded == LoopSpec => []CallsBounded
<1>1. LoopInv => CallsBounded
  BY DEF LoopInv, LoopTypeOK, Rounds, CallsBounded
<1>2. QED
  BY <1>1, LoopInitInv, LoopStepInv, PTL DEF LoopSpec

\* From the head of the loop the LLM is asked with a result for every call.
THEOREM AgentLoopCallsAnswered == LoopSpec => []EveryCallAnswered
<1>1. LoopInv => EveryCallAnswered
  BY DEF LoopInv, Rounds, EveryCallAnswered
<1>2. QED
  BY <1>1, LoopInitInv, LoopStepInv, PTL DEF LoopSpec

\* With only execute_bigquery_sql offered the fallback is what was last run.
THEOREM AgentLoopFallback == LoopSpec => []FallbackIsLastRun
<1>1. LoopInv => FallbackIsLastRun
  BY DEF LoopInv
<1>2. QED
  BY <1>1, LoopInitInv, LoopStepInv, PTL DEF LoopSpec

(***************************************************************************)
(* The handler.                                                            *)
(***************************************************************************)
\* The handler does nothing to the run but start it, with tools it has.
LEMMA HandlerRunsLoop == [Next]_vars => [LoopNext]_loopVars
<1> SUFFICES ASSUME [Next]_vars PROVE [LoopNext]_loopVars
  OBVIOUS
<1>1. CASE Prepare
  <2>1. \A lost \in Overwritten : Tools(lost) \in SUBSET ToolNames
    BY DEF Tools, ToolNames, ExecuteTools, ExecuteTool
  <2>2. QED
    BY <1>1, <2>1 DEF Prepare, LoopNext
<1>2. CASE RunStep
  BY <1>2 DEF RunStep, RunAsks, RunCallsTool, RunSilently, LoopNext, LoopStep
<1>3. CASE Block
  BY <1>3 DEF Block
<1>4. CASE Pass
  BY <1>4 DEF Pass
<1>5. CASE RunFailed
  BY <1>5 DEF RunFailed
<1>6. CASE Extract
  BY <1>6 DEF Extract
<1>7. CASE Invalid
  BY <1>7 DEF Invalid
<1>8. CASE Valid
  BY <1>8 DEF Valid
<1>9. CASE TooDear
  BY <1>9 DEF TooDear
<1>10. ASSUME NEW known \in {"within", "unknown"}, NotTooDear(known)
      PROVE  UNCHANGED loopVars
  BY <1>10 DEF NotTooDear
<1>11. CASE ExecuteFails
  BY <1>11 DEF ExecuteFails
<1>12. CASE ExecuteSucceeds
  BY <1>12 DEF ExecuteSucceeds
<1>13. CASE Finish
  BY <1>13 DEF Finish
<1>14. CASE UNCHANGED vars
  BY <1>14 DEF vars
<1>15. QED
  BY <1>1, <1>2, <1>3, <1>4, <1>5, <1>6, <1>7,
     <1>8, <1>9, <1>10, <1>11, <1>12, <1>13, <1>14 DEF Next, HandlerStep

\* Types, but for the loop's, and what the stage of the handler says about what
\* it has done: where a run is, whether there are rows, what has been announced.
Types ==
  /\ source \in Sources
  /\ dry \in BOOLEAN /\ stream \in BOOLEAN /\ dataset \in BOOLEAN
  /\ excluded \in SUBSET ToolNames
  /\ shared \in BOOLEAN
  /\ step \in {"gate", "prepare", "loop", "validate", "explain", "execute",
               "finish", "end"}
  /\ sql \in SQL
  /\ meta \in Meta
  /\ estimate \in {"none", "within", "over", "unknown"}
  /\ executed \in BOOLEAN /\ rows \in BOOLEAN
  /\ audits \in 0..1
  /\ last \in {"none", "start", "progress", "llm_call", "tool_call", "result",
               "error"}
  /\ terminals \in Nat
  /\ reply \in {"none", "success", "blocked", "failed"}

Working == {"gate", "prepare", "loop", "validate", "explain", "execute"}

Announced ==
  /\ step # "end" => terminals = 0 /\ audits = 0
  /\ step = "end" /\ stream => terminals = 1 /\ last \in {"result", "error"}
  /\ ~stream => terminals = 0

ExecutesOnlyInEarnest ==
  /\ step \in {"validate", "explain", "execute"} => ~dry
  /\ dry => ~executed
  /\ dry /\ ~shared => offered \cap ExecuteTools = {}

ChecksInOrder ==
  /\ step \in Working => ~rows
  /\ estimate = "over" => step = "end" /\ ~rows
  /\ meta.masking = "n/a" \/ rows
  /\ step = "execute" => meta.validation = "passed" /\ meta.masking = "n/a"
  /\ step = "explain" => meta.validation = "passed"

PipelineInv ==
  LoopInv /\ Types /\ Announced /\ ExecutesOnlyInEarnest /\ ChecksInOrder
    /\ RowsAreChecked

\* The types of the handler and of the loop, put together.
LEMMA PipelineInvTypeOK == PipelineInv => TypeOK
  BY DEF PipelineInv, LoopInv, Types, TypeOK

\* The rest of the run keeps its tools.
LEMMA RunKeepsTools == RunSilently => offered' = offered
<1> SUFFICES ASSUME RunSilently PROVE offered' = offered
  OBVIOUS
<1>1. CASE AskFails \/ FinalFails \/ GoRound
  BY <1>1 DEF AskFails, FinalFails, GoRound
<1>2. ASSUME NEW s \in SQL, Answer(s) \/ FinalAnswer(s)
      PROVE  offered' = offered
  BY <1>2 DEF Answer, FinalAnswer
<1>3. ASSUME NEW cs \in Batches, CallTools(cs)
      PROVE  offered' = offered
  BY <1>3 DEF CallTools
<1>4. ASSUME NEW cs \in Batches, NEW s \in SQL, ForceAnswer(cs, s)
      PROVE  offered' = offered
  BY <1>4 DEF ForceAnswer
<1>5. QED
  BY <1>1, <1>2, <1>3, <1>4 DEF RunSilently

\* The invariant holds when a request comes in.
LEMMA PipelineInit == Init => PipelineInv
<1> SUFFICES ASSUME Init PROVE PipelineInv
  OBVIOUS
<1> USE AgentPipelineAssumption DEF AgentPipelineAssumption
<1>1. LoopInv
  BY LoopInitInv DEF Init
<1>2. Types
  <2>1. stream \in BOOLEAN
    BY DEF Init
  <2>2. excluded \in SUBSET ToolNames /\ shared \in BOOLEAN
    BY DEF Init
  <2>3. meta \in Meta
    BY DEF Init, Meta
  <2>4. dry \in BOOLEAN /\ dataset \in BOOLEAN
    BY DEF Init
  <2>5. executed \in BOOLEAN /\ rows \in BOOLEAN
    BY DEF Init
  <2>6. audits \in 0..1 /\ terminals \in Nat
    BY DEF Init
  <2>7. /\ source \in Sources /\ sql \in SQL
        /\ step \in {"gate", "prepare", "loop", "validate", "explain", "execute",
                     "finish", "end"}
        /\ estimate \in {"none", "within", "over", "unknown"}
        /\ last \in {"none", "start", "progress", "llm_call", "tool_call",
                     "result", "error"}
        /\ reply \in {"none", "success", "blocked", "failed"}
    BY DEF Init, SQL
  <2>8. QED
    BY <2>1, <2>2, <2>3, <2>4, <2>5, <2>6, <2>7 DEF Types
<1>3. Announced /\ ExecutesOnlyInEarnest /\ ChecksInOrder /\ RowsAreChecked
  BY DEF Init, LoopInit, Announced, ExecutesOnlyInEarnest, ChecksInOrder,
         RowsAreChecked
<1>4. QED
  BY <1>1, <1>2, <1>3 DEF PipelineInv

\* Every step keeps the types.
LEMMA TypesStep == PipelineInv /\ [Next]_vars => Types'
<1> SUFFICES ASSUME PipelineInv, [Next]_vars PROVE Types'
  OBVIOUS
<1> USE DEF PipelineInv, Types, Sources, Meta, LoopInv, LoopTypeOK, SQL, Generated,
        Announced, requestVars, handlerVars, eventVars, loopVars
<1>1. CASE Block
  BY <1>1 DEF Block, End, Emit
<1>2. CASE Pass
  BY <1>2 DEF Pass, Emit
<1>3. CASE Prepare
  BY <1>3 DEF Prepare, Emit, BeginRun, Overwritten, Tools, ExecuteTool,
     DryRunExclusions
<1>4. CASE RunFailed
  BY <1>4 DEF RunFailed, End, Emit
<1>5. CASE Extract
  BY <1>5 DEF Extract, ToExecute
<1>6. CASE Invalid
  BY <1>6 DEF Invalid, End, Emit
<1>7. CASE Valid
  BY <1>7 DEF Valid
<1>8. CASE TooDear
  BY <1>8 DEF TooDear, End, Emit
<1>9. ASSUME NEW known \in {"within", "unknown"}, NotTooDear(known)
      PROVE  Types'
  BY <1>9 DEF NotTooDear
<1>10. CASE ExecuteFails
  BY <1>10 DEF ExecuteFails, Emit
<1>11. CASE ExecuteSucceeds
  <2>1. CASE ShowRows
    <3>1. meta' \in Meta /\ rows' \in BOOLEAN
      BY <2>1 DEF ShowRows
    <3>2. QED
      BY ONLY <1>11, <2>1, <3>1, PipelineInv DEF ExecuteSucceeds, Emit, PipelineInv,
         Types, Sources, SQL, LoopInv, LoopTypeOK, requestVars, loopVars
  <2>2. CASE source = "bigquery" /\ HideRows
    BY <1>11, <2>2 DEF ExecuteSucceeds, Emit, HideRows
  <2>3. QED
    BY <1>11, <2>1, <2>2 DEF ExecuteSucceeds
<1>12. CASE Finish
  BY <1>12 DEF Finish, End, Emit
<1>13. CASE RunAsks
  BY <1>13 DEF RunAsks, Running, Emit, Ask, Return
<1>14. CASE RunCallsTool
  BY <1>14 DEF RunCallsTool, Running, Emit, RunTool
<1>15. CASE RunSilently
  BY <1>15, RunKeepsTools DEF RunSilently, Running
<1>16. CASE UNCHANGED vars
  BY <1>16 DEF vars, requestVars, handlerVars, eventVars, loopVars
<1>17. QED
  BY <1>1, <1>2, <1>3, <1>4, <1>5, <1>6, <1>7,
     <1>8, <1>9, <1>10, <1>11, <1>12, <1>13, <1>14, <1>15, <1>16 DEF Next, HandlerStep, RunStep

\* Only the step that ends the request emits a terminal event.
LEMMA AnnouncedStep == PipelineInv /\ [Next]_vars => Announced'
<1> SUFFICES ASSUME PipelineInv, [Next]_vars PROVE Announced'
  OBVIOUS
<1> USE DEF PipelineInv, Types, Announced,
        requestVars, handlerVars, eventVars, loopVars
<1>1. CASE Block
  BY <1>1 DEF Block, End, Emit
<1>2. CASE Pass
  BY <1>2 DEF Pass, Emit
<1>3. CASE Prepare
  BY <1>3 DEF Prepare, Emit, BeginRun, Overwritten, Tools, ExecuteTool,
     DryRunExclusions
<1>4. CASE RunFailed
  BY <1>4 DEF RunFailed, End, Emit
<1>5. CASE Extract
  BY <1>5 DEF Extract, ToExecute
<1>6. CASE Invalid
  BY <1>6 DEF Invalid, End, Emit
<1>7. CASE Valid
  BY <1>7 DEF Valid
<1>8. CASE TooDear
  BY <1>8 DEF TooDear, End, Emit
<1>9. ASSUME NEW known \in {"within", "unknown"}, NotTooDear(known)
      PROVE  Announced'
  BY <1>9 DEF NotTooDear
<1>10. CASE ExecuteFails
  BY <1>10 DEF ExecuteFails, Emit
<1>11. CASE ExecuteSucceeds
  <2>1. CASE ShowRows
    BY <1>11, <2>1 DEF ExecuteSucceeds, Emit, ShowRows
  <2>2. CASE source = "bigquery" /\ HideRows
    BY <1>11, <2>2 DEF ExecuteSucceeds, Emit, HideRows
  <2>3. QED
    BY <1>11, <2>1, <2>2 DEF ExecuteSucceeds
<1>12. CASE Finish
  BY <1>12 DEF Finish, End, Emit
<1>13. CASE RunAsks
  BY <1>13 DEF RunAsks, Running, Emit, Ask, Return
<1>14. CASE RunCallsTool
  BY <1>14 DEF RunCallsTool, Running, Emit, RunTool
<1>15. CASE RunSilently
  BY <1>15, RunKeepsTools DEF RunSilently, Running
<1>16. CASE UNCHANGED vars
  BY <1>16 DEF vars, requestVars, handlerVars, eventVars, loopVars
<1>17. QED
  BY <1>1, <1>2, <1>3, <1>4, <1>5, <1>6, <1>7,
     <1>8, <1>9, <1>10, <1>11, <1>12, <1>13, <1>14, <1>15, <1>16 DEF Next, HandlerStep, RunStep

\* A dry run goes on to the reply after the run, and is not offered an execute
\* tool unless the names that hide it are overwritten.
LEMMA EarnestStep == PipelineInv /\ [Next]_vars => ExecutesOnlyInEarnest'
<1> SUFFICES ASSUME PipelineInv, [Next]_vars PROVE ExecutesOnlyInEarnest'
  OBVIOUS
<1> USE DEF PipelineInv, Types, ExecutesOnlyInEarnest, ExecuteTools,
        requestVars, handlerVars, eventVars, loopVars
<1>1. CASE Block
  BY <1>1 DEF Block, End, Emit
<1>2. CASE Pass
  BY <1>2 DEF Pass, Emit
<1>3. CASE Prepare
  BY <1>3 DEF Prepare, Emit, BeginRun, Overwritten, Tools, ExecuteTool,
     DryRunExclusions
<1>4. CASE RunFailed
  BY <1>4 DEF RunFailed, End, Emit
<1>5. CASE Extract
  BY <1>5 DEF Extract, ToExecute
<1>6. CASE Invalid
  BY <1>6 DEF Invalid, End, Emit
<1>7. CASE Valid
  BY <1>7 DEF Valid
<1>8. CASE TooDear
  BY <1>8 DEF TooDear, End, Emit
<1>9. ASSUME NEW known \in {"within", "unknown"}, NotTooDear(known)
      PROVE  ExecutesOnlyInEarnest'
  BY <1>9 DEF NotTooDear
<1>10. CASE ExecuteFails
  BY <1>10 DEF ExecuteFails, Emit
<1>11. CASE ExecuteSucceeds
  <2>1. CASE ShowRows
    BY <1>11, <2>1 DEF ExecuteSucceeds, Emit, ShowRows
  <2>2. CASE source = "bigquery" /\ HideRows
    BY <1>11, <2>2 DEF ExecuteSucceeds, Emit, HideRows
  <2>3. QED
    BY <1>11, <2>1, <2>2 DEF ExecuteSucceeds
<1>12. CASE Finish
  BY <1>12 DEF Finish, End, Emit
<1>13. CASE RunAsks
  BY <1>13 DEF RunAsks, Running, Emit, Ask, Return
<1>14. CASE RunCallsTool
  BY <1>14 DEF RunCallsTool, Running, Emit, RunTool
<1>15. CASE RunSilently
  BY <1>15, RunKeepsTools DEF RunSilently, Running
<1>16. CASE UNCHANGED vars
  BY <1>16 DEF vars, requestVars, handlerVars, eventVars, loopVars
<1>17. QED
  BY <1>1, <1>2, <1>3, <1>4, <1>5, <1>6, <1>7,
     <1>8, <1>9, <1>10, <1>11, <1>12, <1>13, <1>14, <1>15, <1>16 DEF Next, HandlerStep, RunStep

\* Rows appear at the last of the checks, and nothing changes them afterwards.
LEMMA ChecksStep == PipelineInv /\ [Next]_vars => (ChecksInOrder /\ RowsAreChecked)'
<1> SUFFICES ASSUME PipelineInv, [Next]_vars PROVE (ChecksInOrder /\ RowsAreChecked)'
  OBVIOUS
<1> USE DEF PipelineInv, Types, Meta, Working, ExecutesOnlyInEarnest, ChecksInOrder, RowsAreChecked,
        requestVars, handlerVars, eventVars, loopVars
<1>1. CASE Block
  BY <1>1 DEF Block, End, Emit
<1>2. CASE Pass
  BY <1>2 DEF Pass, Emit
<1>3. CASE Prepare
  BY <1>3 DEF Prepare, Emit, BeginRun, Overwritten, Tools, ExecuteTool,
     DryRunExclusions
<1>4. CASE RunFailed
  BY <1>4 DEF RunFailed, End, Emit
<1>5. CASE Extract
  BY <1>5 DEF Extract, ToExecute
<1>6. CASE Invalid
  BY <1>6 DEF Invalid, End, Emit
<1>7. CASE Valid
  BY <1>7 DEF Valid
<1>8. CASE TooDear
  BY <1>8 DEF TooDear, End, Emit
<1>9. ASSUME NEW known \in {"within", "unknown"}, NotTooDear(known)
      PROVE  (ChecksInOrder /\ RowsAreChecked)'
  BY <1>9 DEF NotTooDear
<1>10. CASE ExecuteFails
  BY <1>10 DEF ExecuteFails, Emit
<1>11. CASE ExecuteSucceeds
  <2>1. CASE ShowRows
    BY <1>11, <2>1 DEF ExecuteSucceeds, Emit, ShowRows
  <2>2. CASE source = "bigquery" /\ HideRows
    BY <1>11, <2>2 DEF ExecuteSucceeds, Emit, HideRows
  <2>3. QED
    BY <1>11, <2>1, <2>2 DEF ExecuteSucceeds
<1>12. CASE Finish
  BY <1>12 DEF Finish, End, Emit
<1>13. CASE RunAsks
  BY <1>13 DEF RunAsks, Running, Emit, Ask, Return
<1>14. CASE RunCallsTool
  BY <1>14 DEF RunCallsTool, Running, Emit, RunTool
<1>15. CASE RunSilently
  BY <1>15, RunKeepsTools DEF RunSilently, Running
<1>16. CASE UNCHANGED vars
  BY <1>16 DEF vars, requestVars, handlerVars, eventVars, loopVars
<1>17. QED
  BY <1>1, <1>2, <1>3, <1>4, <1>5, <1>6, <1>7,
     <1>8, <1>9, <1>10, <1>11, <1>12, <1>13, <1>14, <1>15, <1>16 DEF Next, HandlerStep, RunStep

\* No step breaks the invariant.
LEMMA PipelineStep == PipelineInv /\ [Next]_vars => PipelineInv'
<1> SUFFICES ASSUME PipelineInv, [Next]_vars PROVE PipelineInv'
  OBVIOUS
<1>1. LoopInv'
  BY HandlerRunsLoop, LoopStepInv DEF PipelineInv
<1>2. QED
  BY <1>1, TypesStep, AnnouncedStep, EarnestStep, ChecksStep DEF PipelineInv

\* What every request keeps.
LEMMA PipelineInvariant == Spec => []PipelineInv
  BY PipelineInit, PipelineStep, PTL DEF Spec

(***************************************************************************)
(* The end of a request.  Each step of a request takes at least one from   *)
(* what it has left, whatever the LLM replies: this is what RequestEnds    *)
(* rests on, next to fairness.                                             *)
(***************************************************************************)
\* The steps of n whole rounds: each asks, gets its calls, executes at most
\* MaxCalls of them and goes round.
RoundsCost(n) == n * (MaxCalls + 3)

\* An upper bound on the steps the loop has left: the rounds until the answer is
\* forced, and then asking, forcing and the final reply.
LoopLeft ==
  CASE at = "off"     -> RoundsCost(ForceAt) + 4
    [] at = "start"   -> RoundsCost(ForceAt - iter) + 3
    [] at = "waiting" -> RoundsCost(ForceAt - iter) + 2
    [] at = "tools"   -> RoundsCost(ForceAt - iter - 1) + 4 + (Len(calls) - done)
    [] at = "final"   -> 1
    [] at = "ended"   -> 0

\* The same for the handler around it.
HandlerLeft ==
  CASE step = "gate"                -> 6
    [] step \in {"prepare", "loop"} -> 5
    [] step = "validate"            -> 4
    [] step = "explain"             -> 3
    [] step = "execute"             -> 2
    [] step = "finish"              -> 1
    [] step = "end"                 -> 0

StepsLeft == HandlerLeft + LoopLeft

\* A round more costs as much as a round.
LEMMA RoundsCostMore ==
  \A n \in Nat : /\ RoundsCost(n) \in Nat
                 /\ RoundsCost(n + 1) = RoundsCost(n) + MaxCalls + 3
<1> SUFFICES ASSUME NEW n \in Nat
             PROVE  /\ RoundsCost(n) \in Nat
                    /\ RoundsCost(n + 1) = RoundsCost(n) + MaxCalls + 3
  OBVIOUS
<1>1. PICK c \in Nat : c = MaxCalls + 3
  OBVIOUS
<1>2. n * c \in Nat /\ (n + 1) * c = n * c + c
  OBVIOUS
<1>3. RoundsCost(n) = n * c /\ RoundsCost(n + 1) = (n + 1) * c
  BY <1>1 DEF RoundsCost
<1>4. QED
  BY <1>1, <1>2, <1>3

\* What the loop has left is a number.
LEMMA LoopLeftNat == LoopInv => LoopLeft \in Nat
<1> SUFFICES ASSUME LoopInv PROVE LoopLeft \in Nat
  OBVIOUS
<1>1. CASE at = "off"
  <2>1. LoopLeft = RoundsCost(ForceAt) + 4
    BY <1>1 DEF LoopLeft
  <2>2. RoundsCost(ForceAt) \in Nat
    BY RoundsCostMore
  <2>3. QED
    BY <2>1, <2>2
<1>2. CASE at \in {"start", "waiting"}
  <2>1. ForceAt - iter \in Nat
    BY <1>2 DEF LoopInv, LoopTypeOK, Rounds
  <2>2. RoundsCost(ForceAt - iter) \in Nat
    BY <2>1, RoundsCostMore
  <2>3. \/ LoopLeft = RoundsCost(ForceAt - iter) + 3
        \/ LoopLeft = RoundsCost(ForceAt - iter) + 2
    BY <1>2 DEF LoopLeft
  <2>4. QED
    BY <2>2, <2>3
<1>3. CASE at = "tools"
  <2>1. ForceAt - iter - 1 \in Nat
    BY <1>3 DEF LoopInv, LoopTypeOK, Rounds
  <2>2. RoundsCost(ForceAt - iter - 1) \in Nat
    BY <2>1, RoundsCostMore
  <2>3. Len(calls) \in Nat
    BY <1>3, BatchIsSequence DEF LoopInv, Rounds
  <2>4. Len(calls) - done \in Nat
    BY <2>3 DEF LoopInv, LoopTypeOK
  <2>5. LoopLeft = RoundsCost(ForceAt - iter - 1) + 4 + (Len(calls) - done)
    BY <1>3 DEF LoopLeft
  <2>6. QED
    BY <2>2, <2>4, <2>5
<1>4. CASE at \in {"final", "ended"}
  BY <1>4 DEF LoopLeft
<1>5. QED
  BY <1>1, <1>2, <1>3, <1>4 DEF LoopInv, LoopTypeOK

\* Each step of the loop has less left after it.  A round of tool calls is paid
\* for by the round that is over; a reply that calls tools costs no more than
\* the largest one does.
LEMMA LoopStepSpends ==
  LoopInv /\ LoopNext => LoopLeft' \in Nat /\ LoopLeft' < LoopLeft
<1> SUFFICES ASSUME LoopInv, LoopNext
             PROVE  LoopLeft' \in Nat /\ LoopLeft' < LoopLeft
  OBVIOUS
<1> DEFINE Here == RoundsCost(ForceAt - iter)
           Next1 == RoundsCost(ForceAt - iter - 1)
<1>1. at # "off" /\ at # "final" /\ at # "ended" => Here \in Nat
  <2>1. at # "off" /\ at # "final" /\ at # "ended" => ForceAt - iter \in Nat
    BY DEF LoopInv, LoopTypeOK, Rounds
  <2>2. QED
    BY <2>1, RoundsCostMore
<1>2. at # "off" /\ at # "final" /\ at # "ended" /\ iter < ForceAt
        => Next1 \in Nat /\ Here = Next1 + MaxCalls + 3
  <2> SUFFICES ASSUME at # "off", at # "final", at # "ended", iter < ForceAt
               PROVE  Next1 \in Nat /\ Here = Next1 + MaxCalls + 3
    OBVIOUS
  <2>1. /\ ForceAt - iter - 1 \in Nat
        /\ (ForceAt - iter - 1) + 1 = ForceAt - iter
    BY DEF LoopInv, LoopTypeOK
  <2>2. QED
    BY <2>1, RoundsCostMore
<1> HIDE DEF Here, Next1
<1> USE DEF LoopInv, LoopTypeOK, Rounds
<1>3. ASSUME NEW T \in SUBSET ToolNames, BeginRun(T)
      PROVE  LoopLeft' \in Nat /\ LoopLeft' < LoopLeft
  <2>1. LoopLeft = RoundsCost(ForceAt) + 4 /\ LoopLeft' = RoundsCost(ForceAt) + 3
    BY <1>3 DEF BeginRun, LoopLeft
  <2>2. RoundsCost(ForceAt) \in Nat
    BY RoundsCostMore
  <2>3. QED
    BY <2>1, <2>2
<1>4. CASE Ask
  <2>1. LoopLeft = Here + 3 /\ LoopLeft' = Here + 2
    BY <1>4 DEF Ask, LoopLeft, Here
  <2>2. QED
    BY <1>1, <1>4, <2>1 DEF Ask
<1>5. CASE AskFails \/ \E found \in SQL : Answer(found)
  <2>1. at = "waiting" /\ LoopLeft = Here + 2 /\ LoopLeft' = 0
    BY <1>5 DEF AskFails, Answer, Return, LoopLeft, Here
  <2>2. QED
    BY <1>1, <2>1
<1>6. ASSUME NEW cs \in Batches, CallTools(cs)
      PROVE  LoopLeft' \in Nat /\ LoopLeft' < LoopLeft
  <2>1. at = "waiting" /\ iter < ForceAt
    BY <1>6 DEF CallTools, Forcing
  <2>2. LoopLeft = Here + 2 /\ LoopLeft' = Next1 + 4 + (Len(cs) - done)
    BY <1>6 DEF CallTools, LoopLeft, Here, Next1
  <2>3. Len(cs) <= MaxCalls /\ Len(cs) \in Nat
    BY BatchIsSequence
  <2>4. QED
    BY <1>1, <1>2, <2>1, <2>2, <2>3
<1>7. ASSUME NEW cs \in Batches, NEW found \in SQL, ForceAnswer(cs, found)
      PROVE  LoopLeft' \in Nat /\ LoopLeft' < LoopLeft
  <2>1. at = "waiting" /\ LoopLeft = Here + 2 /\ LoopLeft' = 1
    BY <1>7 DEF ForceAnswer, LoopLeft, Here
  <2>2. QED
    BY <1>1, <2>1
<1>8. CASE FinalFails \/ \E found \in SQL : FinalAnswer(found)
  BY <1>8 DEF FinalFails, FinalAnswer, Return, LoopLeft
<1>9. CASE RunTool
  <2>1. /\ at = "tools" /\ iter < ForceAt
        /\ LoopLeft = Next1 + 4 + (Len(calls) - done)
        /\ LoopLeft' = Next1 + 4 + (Len(calls) - (done + 1))
    BY <1>9 DEF RunTool, LoopLeft, Next1
  <2>2. Len(calls) \in Nat
    BY <2>1, BatchIsSequence
  <2>3. QED
    BY <1>2, <2>1, <2>2
<1>10. CASE GoRound
  <2>1. at = "tools" /\ iter < ForceAt /\ done = Len(calls)
    BY <1>10 DEF GoRound
  <2>2. ForceAt - iter' = ForceAt - iter - 1
    BY <1>10 DEF GoRound
  <2>3. LoopLeft = Next1 + 4 + (Len(calls) - done) /\ LoopLeft' = Next1 + 3
    BY <1>10, <2>2 DEF GoRound, LoopLeft, Next1
  <2>4. Len(calls) \in Nat
    BY <2>1, BatchIsSequence
  <2>5. QED
    BY <1>2, <2>1, <2>3, <2>4
<1>11. QED
  BY <1>3, <1>4, <1>5, <1>6, <1>7, <1>8, <1>9, <1>10 DEF LoopNext, LoopStep

\* What a request has left is a number.
LEMMA StepsLeftNat == PipelineInv => StepsLeft \in Nat
  BY LoopLeftNat DEF PipelineInv, Types, StepsLeft, HandlerLeft

\* Each step of a request has less left after it: the handler's own steps bring
\* it nearer to its end, but for Prepare, which begins the run.
LEMMA StepSpends ==
  PipelineInv /\ Next => StepsLeft' \in Nat /\ StepsLeft' < StepsLeft
<1> SUFFICES ASSUME PipelineInv, Next
             PROVE  StepsLeft' \in Nat /\ StepsLeft' < StepsLeft
  OBVIOUS
<1>1. LoopInv
  BY DEF PipelineInv
<1>2. LoopLeft \in Nat
  BY <1>1, LoopLeftNat
<1>3. HandlerLeft \in Nat
  BY DEF PipelineInv, Types, HandlerLeft
<1>4. CASE RunStep
  <2>1. LoopNext /\ HandlerLeft' = HandlerLeft
    BY <1>4 DEF RunStep, RunAsks, RunCallsTool, RunSilently, Running, LoopNext,
       LoopStep, HandlerLeft, handlerVars
  <2>2. QED
    BY <1>1, <1>2, <1>3, <2>1, LoopStepSpends DEF StepsLeft
<1>5. CASE Prepare
  <2>1. \A lost \in Overwritten : Tools(lost) \in SUBSET ToolNames
    BY DEF Tools, ToolNames, ExecuteTools, ExecuteTool
  <2>2. LoopNext /\ HandlerLeft' = HandlerLeft
    BY <1>5, <2>1 DEF Prepare, LoopNext, HandlerLeft
  <2>3. QED
    BY <1>1, <1>2, <1>3, <2>2, LoopStepSpends DEF StepsLeft
<1>6. CASE HandlerStep /\ ~Prepare
  <2>1. UNCHANGED loopVars
    BY <1>6 DEF HandlerStep, Block, Pass, RunFailed, Extract, Invalid, Valid,
       TooDear, NotTooDear, ExecuteFails, ExecuteSucceeds, Finish
  <2>2. LoopLeft' = LoopLeft
    BY <2>1 DEF loopVars, LoopLeft
  <2>3. HandlerLeft' \in Nat /\ HandlerLeft' < HandlerLeft
    BY <1>6 DEF HandlerStep, Block, Pass, RunFailed, Extract, Invalid, Valid,
       TooDear, NotTooDear, ExecuteFails, ExecuteSucceeds, Finish, End, HandlerLeft
  <2>4. StepsLeft = HandlerLeft + LoopLeft /\ StepsLeft' = HandlerLeft' + LoopLeft
    BY <2>2 DEF StepsLeft
  <2>5. ASSUME NEW h \in Nat, NEW g \in Nat, NEW l \in Nat, h < g
        PROVE  h + l \in Nat /\ h + l < g + l
    BY <2>5
  <2>6. QED
    BY <1>2, <1>3, <2>3, <2>4, <2>5
<1>7. QED
  BY <1>4, <1>5, <1>6 DEF Next, HandlerStep

\* A request runs the loop as AgentLoop has it, so that all that holds of the
\* loop holds inside both handlers and both modes.
THEOREM AgentPipelineRunsLoop == Spec => LoopSpec
<1>1. Init => LoopInit
  BY DEF Init
<1>2. QED
  BY <1>1, HandlerRunsLoop, PTL DEF Spec, LoopSpec

\* So the bound on the LLM calls, the results of the tool calls and the statement
\* to fall back on are those of the loop.
THEOREM AgentPipelineLoop ==
  Spec => [](CallsBounded /\ EveryCallAnswered /\ FallbackIsLastRun)
  BY AgentPipelineRunsLoop, AgentLoopCallsBounded, AgentLoopCallsAnswered,
     AgentLoopFallback, PTL

\* Types.
THEOREM AgentPipelineTypeOK == Spec => []TypeOK
  BY PipelineInvariant, PipelineInvTypeOK, PTL

\* The one terminal event of a stream is its last event.
THEOREM AgentPipelineTerminalEvent == Spec => []TerminalEventLast
<1>1. PipelineInv => TerminalEventLast
  BY DEF PipelineInv, Types, Announced, TerminalEventLast
<1>2. QED
  BY <1>1, PipelineInvariant, PTL

\* The handler hands nothing of a dry run to a database, and neither does the
\* loop unless the persona's dry runs are of both databases.
THEOREM AgentPipelineDryRun == Spec => []DryRunExecutesNothing
<1>1. PipelineInv => DryRunExecutesNothing
  BY DEF PipelineInv, LoopInv, NoToolNoRun, ExecutesOnlyInEarnest,
         DryRunExecutesNothing
<1>2. QED
  BY <1>1, PipelineInvariant, PTL

\* Rows are returned for checked statements only.
THEOREM AgentPipelineRows == Spec => []RowsAreChecked
<1>1. PipelineInv => RowsAreChecked
  BY DEF PipelineInv
<1>2. QED
  BY <1>1, PipelineInvariant, PTL

\* No request takes more than StepsMost steps, whatever the LLM calls and however
\* long it goes on: it comes with at most so many, never has less than none, and
\* every step takes at least one away.
StepsMost == ForceAt * (MaxCalls + 3) + 10

THEOREM AgentPipelineStepsBounded ==
  Spec => /\ [](StepsLeft \in 0..StepsMost)
          /\ [][StepsLeft' < StepsLeft]_vars
<1> DEFINE Bounded == StepsLeft \in 0..StepsMost
<1>1. Init => Bounded
  <2> SUFFICES ASSUME Init PROVE Bounded
    OBVIOUS
  <2>1. LoopLeft = RoundsCost(ForceAt) + 4 /\ HandlerLeft = 6
    BY DEF Init, LoopInit, LoopLeft, HandlerLeft
  <2>2. StepsLeft = StepsMost
    BY <2>1, RoundsCostMore DEF StepsLeft, StepsMost, RoundsCost
  <2>3. QED
    BY <2>2, PipelineInit, StepsLeftNat
<1>2. PipelineInv /\ Bounded /\ [Next]_vars => Bounded'
  <2> SUFFICES ASSUME PipelineInv, Bounded, [Next]_vars PROVE Bounded'
    OBVIOUS
  <2>1. StepsMost \in Nat /\ StepsLeft \in Nat
    <3>1. RoundsCost(ForceAt) \in Nat
      BY RoundsCostMore
    <3>2. StepsMost = RoundsCost(ForceAt) + 10
      BY DEF StepsMost, RoundsCost
    <3>3. QED
      BY <3>1, <3>2, StepsLeftNat
  <2>2. CASE Next
    BY <2>1, <2>2, StepSpends
  <2>3. CASE UNCHANGED vars
    BY <2>3 DEF vars, loopVars, handlerVars, StepsLeft, LoopLeft, HandlerLeft
  <2>4. QED
    BY <2>2, <2>3
<1>3. PipelineInv /\ [Next]_vars => [StepsLeft' < StepsLeft]_vars
  BY StepSpends
<1> HIDE DEF Bounded
<1>4. Spec => []Bounded
  BY <1>1, <1>2, PipelineInvariant, PTL DEF Spec
<1>5. Spec => [][StepsLeft' < StepsLeft]_vars
  BY <1>3, PipelineInvariant, PTL DEF Spec
<1>6. QED
  BY <1>4, <1>5 DEF Bounded

=============================================================================
