---------------------------- MODULE SlidingWindow ----------------------------
(***************************************************************************)
(* What the rate limiter promises its clients, without slices, sweeps or   *)
(* locks: the requests of a key are counted by the key's counter, which    *)
(* remembers every charge for ever; a request is admitted if and only if   *)
(* its counter has fewer than Limit charges younger than a minute; and a   *)
(* key gets a new counter only when nothing on its old one still counts.   *)
(* A request keeps the counter it was given: between Count and Admit the   *)
(* key may have got another one.                                           *)
(***************************************************************************)
EXTENDS Integers, FiniteSets

CONSTANTS
  Requests,   \* the requests that may come
  Keys,       \* what requests are counted by
  Counters,   \* counters there may be
  NoKey,      \* of a request that has not come yet
  NoCounter,  \* of a request that is not counted yet, of a key without one
  Limit,      \* charges a minute may have
  Minute      \* how long a charge counts

VARIABLES
  clock,      \* the time
  key,        \* the key of each request
  counter,    \* the counter each request was given
  current,    \* the counter of each key
  verdict,    \* of each request: "none", "allowed" or "denied"
  stamp       \* when a request was admitted

Init ==
  /\ clock = 0
  /\ key = [r \in Requests |-> NoKey]
  /\ counter = [r \in Requests |-> NoCounter]
  /\ current = [k \in Keys |-> NoCounter]
  /\ verdict = [r \in Requests |-> "none"]
  /\ stamp = [r \in Requests |-> 0]

Pass ==
  /\ clock' = clock + 1
  /\ UNCHANGED <<key, counter, current, verdict, stamp>>

Ask(r, k) ==
  /\ key[r] = NoKey
  /\ key' = [key EXCEPT ![r] = k]
  /\ UNCHANGED <<clock, counter, current, verdict, stamp>>

\* A counter nobody is counted by and no key has.
Fresh(c) ==
  /\ \A q \in Requests : counter[q] # c
  /\ \A k \in Keys : current[k] # c

\* The request is given its key's counter, or a new one where there is none.
Count(r, c) ==
  /\ key[r] \in Keys
  /\ counter[r] = NoCounter
  /\ \/ c = current[key[r]]
     \/ current[key[r]] = NoCounter /\ Fresh(c)
  /\ counter' = [counter EXCEPT ![r] = c]
  /\ current' = [current EXCEPT ![key[r]] = c]
  /\ UNCHANGED <<clock, key, verdict, stamp>>

\* The charges on a counter that still count.
Counting(c) ==
  {q \in Requests : /\ verdict[q] = "allowed"
                    /\ counter[q] = c
                    /\ stamp[q] > clock - Minute}

\* The request has a counter and waits for its verdict.
Pending(r) == counter[r] # NoCounter /\ verdict[r] = "none"

Admit(r) ==
  /\ Pending(r)
  /\ Cardinality(Counting(counter[r])) < Limit
  /\ verdict' = [verdict EXCEPT ![r] = "allowed"]
  /\ stamp' = [stamp EXCEPT ![r] = clock]
  /\ UNCHANGED <<clock, key, counter, current>>

Deny(r) ==
  /\ Pending(r)
  /\ Cardinality(Counting(counter[r])) >= Limit
  /\ verdict' = [verdict EXCEPT ![r] = "denied"]
  /\ UNCHANGED <<clock, key, counter, current, stamp>>

Retire(k) ==
  /\ current[k] # NoCounter
  /\ Counting(current[k]) = {}
  /\ current' = [current EXCEPT ![k] = NoCounter]
  /\ UNCHANGED <<clock, key, counter, verdict, stamp>>

Next ==
  \/ Pass
  \/ \E r \in Requests :
       \/ \E k \in Keys : Ask(r, k)
       \/ \E c \in Counters : Count(r, c)
       \/ Admit(r)
       \/ Deny(r)
  \/ \E k \in Keys : Retire(k)

Spec == Init /\ [][Next]_<<clock, key, counter, current, verdict, stamp>>

=============================================================================
