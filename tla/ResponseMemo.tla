---------------------------- MODULE ResponseMemo ----------------------------
(***************************************************************************)
(* What the response cache promises the clients of query-agent, without a  *)
(* cache: a request is refused, or answered by a run of its own pipeline,  *)
(* or answered by what the pipeline made of an earlier request under the   *)
(* same key, when neither of the two asked for a dry run.                  *)
(***************************************************************************)
CONSTANTS
  Requests,     \* query-agent requests
  Queries,      \* what a request can ask
  NoQuery,      \* of a request that has not come yet
  NoAnswer,     \* of a request still at work
  Refused,      \* of a request that got an error, or no reply at all
  Key(_),       \* queries of one key may share an answer
  Reusable(_)   \* whether a query may share answers at all

VARIABLES
  asked,    \* the query of each request
  ran,      \* the requests whose pipeline produced an answer
  answer    \* the request whose pipeline produced what a client received

Init ==
  /\ asked = [r \in Requests |-> NoQuery]
  /\ ran = {}
  /\ answer = [r \in Requests |-> NoAnswer]

Waiting(r) == asked[r] # NoQuery /\ answer[r] = NoAnswer

Ask(r, q) ==
  /\ asked[r] = NoQuery
  /\ asked' = [asked EXCEPT ![r] = q]
  /\ UNCHANGED <<ran, answer>>

Run(r) ==
  /\ Waiting(r)
  /\ ran' = ran \cup {r}
  /\ UNCHANGED <<asked, answer>>

\* r may be answered with what the pipeline made for o.
Answers(o, r) ==
  /\ o \in ran
  /\ o # r =>
       /\ Key(asked[o]) = Key(asked[r])
       /\ Reusable(asked[o]) /\ Reusable(asked[r])

Answer(r, o) ==
  /\ Waiting(r)
  /\ Answers(o, r)
  /\ answer' = [answer EXCEPT ![r] = o]
  /\ UNCHANGED <<asked, ran>>

\* Several at once when the process dies under them.
Refuse(S) ==
  /\ \A r \in S : Waiting(r)
  /\ answer' = [r \in Requests |-> IF r \in S THEN Refused ELSE answer[r]]
  /\ UNCHANGED <<asked, ran>>

Next ==
  \/ \E r \in Requests, q \in Queries : Ask(r, q)
  \/ \E r \in Requests : Run(r)
  \/ \E r, o \in Requests : Answer(r, o)
  \/ \E S \in SUBSET Requests : Refuse(S)

Spec == Init /\ [][Next]_<<asked, ran, answer>>

=============================================================================
