------------------------------ MODULE AgentLoop ------------------------------
(***************************************************************************)
(* One run of the agent loop: run of CortexAgent (Anthropic; internal/     *)
(* agent/cortex_agent.go) and of DeepSeekAgent (deepseek_agent.go), which  *)
(* differ in their wire format only.  The loop asks the LLM, executes the  *)
(* tools it calls, one by one, and asks again, until the LLM answers or    *)
(* the answer is forced.  Runs share nothing, so one is enough.            *)
(*                                                                         *)
(* The LLM and the tools are the environment: each call of theirs returns  *)
(* something or fails, at the latest when the request's context expires.   *)
(* A text is represented by the statement extractSQL finds in it, or       *)
(* NoSQL; the conversation by how many tool calls it contains and how many *)
(* tool results.                                                           *)
(***************************************************************************)
EXTENDS Integers, Sequences

CONSTANTS
  Callable,     \* tools the LLM calls, whether it was offered them or not
  Statements,   \* SQL statements
  NoSQL,        \* none
  MaxIter,      \* maxIter: 10
  ForceAt,      \* from which iteration the answer is forced: 7
  MaxCalls      \* bound on the tool calls in one reply

\* The tools that hand a statement to a database, the one of them the loop
\* watches, and all others by what they do.
ExecuteTools == {"execute_bigquery_sql", "execute_postgres_sql"}
Watched == "execute_bigquery_sql"
ToolNames == ExecuteTools \cup {"list", "inspect", "search"}

ASSUME AgentLoopAssumption ==
  /\ Callable \subseteq ToolNames
  /\ NoSQL \notin Statements
  /\ MaxIter \in Nat /\ ForceAt \in Nat /\ ForceAt < MaxIter
  /\ MaxCalls \in Nat

VARIABLES
  at,        \* where the loop is
  offered,   \* the tools of the run
  iter,      \* iter
  calls,     \* pendingToolCalls
  done,      \* how many of them have been executed
  opened,    \* tool calls in messages
  answered,  \* tool results in messages
  asked,     \* LLM calls made
  text,      \* textContent: the statement in the text to return
  lastSQL,   \* lastExecutedSQL
  lastRun,   \* history: the last statement a tool handed to a database
  ended      \* how the run ended

loopVars == <<at, offered, iter, calls, done, opened, answered, asked, text,
              lastSQL, lastRun, ended>>

SQL == Statements \cup {NoSQL}

\* A call without arguments that parse has no statement.
ToolCalls == [tool : Callable, sql : SQL]

Batches == UNION {[1..n -> ToolCalls] : n \in 1..MaxCalls}

LoopTypeOK ==
  /\ at \in {"off", "start", "waiting", "tools", "final", "ended"}
  /\ offered \in SUBSET ToolNames
  /\ iter \in 0..MaxIter
  /\ calls \in Batches \cup {<<>>}
  /\ done \in 0..MaxCalls /\ done <= Len(calls)
  /\ opened \in Nat /\ answered \in Nat
  /\ asked \in Nat
  /\ text \in SQL /\ lastSQL \in SQL /\ lastRun \in SQL
  /\ ended \in {"running", "answer", "error"}

LoopInit ==
  /\ at = "off"
  /\ offered = {}
  /\ iter = 0
  /\ calls = <<>>
  /\ done = 0
  /\ opened = 0
  /\ answered = 0
  /\ asked = 0
  /\ text = NoSQL
  /\ lastSQL = NoSQL
  /\ lastRun = NoSQL
  /\ ended = "running"

\* Run is called with tools T.
BeginRun(T) ==
  /\ at = "off"
  /\ at' = "start"
  /\ offered' = T
  /\ UNCHANGED <<iter, calls, done, opened, answered, asked, text, lastSQL,
                 lastRun, ended>>

Return(how) == at' = "ended" /\ ended' = how

\* The head of the loop: the LLM is asked.  (The loop does not get to where
\* iter = maxIter and the return after it, see CallsBounded.)
Ask ==
  /\ at = "start"
  /\ iter < MaxIter
  /\ at' = "waiting"
  /\ asked' = asked + 1
  /\ UNCHANGED <<offered, iter, calls, done, opened, answered, text, lastSQL,
                 lastRun, ended>>

\* The call fails, or there is no choice in the reply.
AskFails ==
  /\ at = "waiting"
  /\ Return("error")
  /\ UNCHANGED <<offered, iter, calls, done, opened, answered, asked, text,
                 lastSQL, lastRun>>

\* The reply has no tool call, or was cut off and its calls are not looked at.
Answer(found) ==
  /\ at = "waiting"
  /\ text' = found
  /\ Return("answer")
  /\ UNCHANGED <<offered, iter, calls, done, opened, answered, asked, lastSQL,
                 lastRun>>

ForcingLate == iter > ForceAt

\* From this iteration on tool calls are not executed any more.
Forcing == iter >= ForceAt

\* The reply calls tools: it becomes part of the conversation.
CallTools(cs) ==
  /\ at = "waiting"
  /\ ~Forcing
  /\ calls' = cs
  /\ opened' = opened + Len(cs)
  /\ at' = "tools"
  /\ UNCHANGED <<offered, iter, done, answered, asked, text, lastSQL, lastRun,
                 ended>>

\* The reply calls tools when it should answer: it becomes part of the
\* conversation, the request for an answer follows, and the LLM is asked again,
\* without tools.
ForceAnswer(cs, found) ==
  /\ at = "waiting"
  /\ Forcing
  /\ opened' = opened + Len(cs)
  /\ text' = found
  /\ asked' = asked + 1
  /\ at' = "final"
  /\ UNCHANGED <<offered, iter, calls, done, answered, lastSQL, lastRun, ended>>

FinalFails ==
  /\ at = "final"
  /\ Return("error")
  /\ UNCHANGED <<offered, iter, calls, done, opened, answered, asked, text,
                 lastSQL, lastRun>>

\* The final text is appended to that of the last reply; the statement
\* extractSQL finds in the two is that of either.
FinalAnswer(found) ==
  /\ at = "final"
  /\ text' \in IF {text, found} = {NoSQL} THEN {NoSQL}
             ELSE {text, found} \ {NoSQL}
  /\ Return("answer")
  /\ UNCHANGED <<offered, iter, calls, done, opened, answered, asked, lastSQL,
                 lastRun>>

WatchFirst(c) ==
  IF c.tool = Watched /\ c.sql # NoSQL /\ lastSQL = NoSQL THEN c.sql ELSE lastSQL

\* lastExecutedSQL after call c.
Watch(c) == IF c.tool = Watched /\ c.sql # NoSQL THEN c.sql ELSE lastSQL

\* executeTool finds the tool among those offered, and the tool has a statement
\* to hand to its database.
HandsOver(c) == c.tool \in offered \cap ExecuteTools /\ c.sql # NoSQL

\* The next pending call; an error of the tool is a result like any other.
RunTool ==
  /\ at = "tools"
  /\ done < Len(calls)
  /\ LET c == calls[done + 1]
     IN  /\ lastSQL' = Watch(c)
         /\ lastRun' = IF HandsOver(c) THEN c.sql ELSE lastRun
  /\ done' = done + 1
  /\ UNCHANGED <<at, offered, iter, calls, opened, answered, asked, text, ended>>

ResultsOfSome == IF done > 1 THEN done - 1 ELSE done

\* The results become part of the conversation, and the loop goes round.
Results == done

GoRoundKeepingIndex ==
  /\ at = "tools"
  /\ done = Len(calls)
  /\ answered' = answered + Results
  /\ iter' = iter + 1
  /\ calls' = <<>>
  /\ at' = "start"
  /\ UNCHANGED <<offered, done, opened, asked, text, lastSQL, lastRun, ended>>

GoRound ==
  /\ at = "tools"
  /\ done = Len(calls)
  /\ answered' = answered + Results
  /\ iter' = iter + 1
  /\ calls' = <<>>
  /\ done' = 0
  /\ at' = "start"
  /\ UNCHANGED <<offered, opened, asked, text, lastSQL, lastRun, ended>>

LoopStep ==
  \/ Ask
  \/ AskFails
  \/ \E found \in SQL : Answer(found)
  \/ \E cs \in Batches : CallTools(cs)
  \/ \E cs \in Batches, found \in SQL : ForceAnswer(cs, found)
  \/ FinalFails
  \/ \E found \in SQL : FinalAnswer(found)
  \/ RunTool
  \/ GoRound

LoopNext == LoopStep \/ \E T \in SUBSET ToolNames : BeginRun(T)

LoopSpec == LoopInit /\ [][LoopNext]_loopVars

(***************************************************************************)
(* Properties.                                                             *)
(***************************************************************************)
\* The loop makes ForceAt + 1 rounds at most and one forced call, so that the
\* error for too many iterations, after the loop, is never reached.
CallsBounded ==
  /\ asked <= ForceAt + 2
  /\ at = "start" => iter < MaxIter

\* Whenever the LLM is asked from the head of the loop, each tool call of the
\* conversation has its result in it, failed tools included (the providers
\* require it).  The forced call is made without.
EveryCallAnswered == at = "waiting" => opened = answered

\* When execute_bigquery_sql is the one way to a database, the statement the
\* handler falls back on is the last one that was executed, whatever order the
\* calls came in ("SQL is recovered from the last execute_bigquery_sql call").
FallbackIsLastRun == offered \cap ExecuteTools = {Watched} => lastSQL = lastRun

=============================================================================
