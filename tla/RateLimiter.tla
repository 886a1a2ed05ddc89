---------------------------- MODULE RateLimiter ----------------------------
(***************************************************************************)
(* The per-client sliding-window rate limiter (internal/middleware/        *)
(* ratelimit.go): the handler of every request first looks its window up   *)
(* under the limiter's lock, and then, with that lock released, charges    *)
(* the window under the window's own lock.  A cleanup goroutine drops idle *)
(* windows from the map, holding the limiter's lock for the whole sweep.   *)
(*                                                                         *)
(* A window object is named by the request that created it, so an object   *)
(* stays distinguishable after the map has forgotten it.  The slice of     *)
(* time stamps of a window is the set of the requests it was charged for,  *)
(* together with the stamp of each: the slice is in stamp order because    *)
(* time.Now() is read under the window's lock, so its last entry is the    *)
(* youngest.  Definitions followed by a variant whose name tells a slip    *)
(* (RoomForOneMore, IdleByOldest, ...) are what the mutation runs swap in. *)
(***************************************************************************)
EXTENDS Integers, FiniteSets

CONSTANTS
  Requests,      \* the requests that may arrive
  HeaderKeys,    \* values of the X-API-Key header
  RemoteAddrs,   \* values of r.RemoteAddr, one for each connection
  NoHeader,      \* the header is absent
  NoWindow,      \* no window object
  Limit,         \* RATE_LIMIT_PER_MINUTE
  Minute,        \* length of the window, and the age cleanup looks for
  CleanupEvery,  \* period of the cleanup ticker
  MaxTime        \* bound on the clock

ASSUME RateLimiterAssumption ==
  /\ Limit \in Nat
  /\ Minute \in Nat \ {0}
  /\ CleanupEvery \in Nat \ {0}
  /\ MaxTime \in Nat
  /\ NoWindow \notin Requests
  /\ NoHeader \notin HeaderKeys

VARIABLES
  now,       \* the clock
  tickDue,   \* a tick waits in the ticker's channel (capacity 1)
  pc,        \* where each request's handler is
  key,       \* the limiter key of each request
  held,      \* the window object the handler has a pointer to
  stamp,     \* when the request was charged
  windows,   \* RateLimiter.windows: key -> window object
  requests,  \* slidingWindow.requests of every window object
  todo,      \* keys the running sweep has still to visit
  cutoff,    \* the running sweep's cutoff
  sweeping,  \* cleanup is running, and holds RateLimiter.mu
  strays     \* history: requests charged to a window the map had dropped

vars == <<now, tickDue, pc, key, held, stamp, windows, requests, todo,
          cutoff, sweeping, strays>>

Keys == HeaderKeys \cup RemoteAddrs

\* The key of a request: the header when there is one, else RemoteAddr.
RateKey(header, remote) == IF header = NoHeader THEN remote ELSE header

TypeOK ==
  /\ now \in Nat
  /\ tickDue \in BOOLEAN
  /\ pc \in [Requests -> {"new", "arrived", "holding", "allowed", "denied"}]
  /\ key \in [Requests -> Keys \cup {NoHeader}]
  /\ \A r \in Requests : pc[r] # "new" => key[r] \in Keys
  /\ held \in [Requests -> Requests \cup {NoWindow}]
  /\ stamp \in [Requests -> Nat]
  /\ windows \in [Keys -> Requests \cup {NoWindow}]
  /\ requests \in [Requests -> SUBSET Requests]
  /\ todo \in SUBSET Keys
  /\ cutoff \in Int
  /\ sweeping \in BOOLEAN
  /\ strays \in SUBSET Requests

Init ==
  /\ now = 0
  /\ tickDue = FALSE
  /\ pc = [r \in Requests |-> "new"]
  /\ key = [r \in Requests |-> NoHeader]
  /\ held = [r \in Requests |-> NoWindow]
  /\ stamp = [r \in Requests |-> 0]
  /\ windows = [k \in Keys |-> NoWindow]
  /\ requests = [r \in Requests |-> {}]
  /\ todo = {}
  /\ cutoff = 0
  /\ sweeping = FALSE
  /\ strays = {}

(***************************************************************************)
(* Time.  The ticker's channel holds one tick; a tick that finds it full   *)
(* is dropped.                                                             *)
(***************************************************************************)
Tick ==
  /\ now < MaxTime
  /\ now' = now + 1
  /\ tickDue' = (tickDue \/ (now + 1) % CleanupEvery = 0)
  /\ UNCHANGED <<pc, key, held, stamp, windows, requests, todo, cutoff,
                 sweeping, strays>>

(***************************************************************************)
(* The handler of a request.                                               *)
(***************************************************************************)
Arrive(r) ==
  /\ pc[r] = "new"
  /\ \E header \in HeaderKeys \cup {NoHeader}, remote \in RemoteAddrs :
       key' = [key EXCEPT ![r] = RateKey(header, remote)]
  /\ pc' = [pc EXCEPT ![r] = "arrived"]
  /\ UNCHANGED <<now, tickDue, held, stamp, windows, requests, todo, cutoff,
                 sweeping, strays>>

WindowAlwaysNew(k, r) == r

\* The window registered for the key, or the one this request creates.
Window(k, r) == IF windows[k] = NoWindow THEN r ELSE windows[k]

\* window(key), under RateLimiter.mu.
Lookup(r) ==
  LET w == Window(key[r], r)
  IN  /\ pc[r] = "arrived"
      /\ ~sweeping
      /\ held' = [held EXCEPT ![r] = w]
      /\ windows' = [windows EXCEPT ![key[r]] = w]
      /\ pc' = [pc EXCEPT ![r] = "holding"]
      /\ UNCHANGED <<now, tickDue, key, stamp, requests, todo, cutoff,
                     sweeping, strays>>

\* A stamp on the cutoff itself is kept.
ValidToTheDot(w) == {q \in requests[w] : stamp[q] >= now - Minute}

\* What allow() keeps of a window: the charges younger than a minute.
Valid(w) == {q \in requests[w] : stamp[q] > now - Minute}

RoomForOneMore(w) == Cardinality(Valid(w)) <= Limit

Room(w) == Cardinality(Valid(w)) < Limit

\* allow(), under the window's lock, when there is room.
Admit(r) ==
  LET w == held[r]
  IN  /\ pc[r] = "holding"
      /\ Room(w)
      /\ requests' = [requests EXCEPT ![w] = Valid(w) \cup {r}]
      /\ stamp' = [stamp EXCEPT ![r] = now]
      /\ pc' = [pc EXCEPT ![r] = "allowed"]
      /\ strays' = IF windows[key[r]] = w THEN strays ELSE strays \cup {r}
      /\ UNCHANGED <<now, tickDue, key, held, windows, todo, cutoff, sweeping>>

\* allow(), when the window is full: 429 with Retry-After.
Deny(r) ==
  LET w == held[r]
  IN  /\ pc[r] = "holding"
      /\ ~Room(w)
      /\ requests' = [requests EXCEPT ![w] = Valid(w)]
      /\ pc' = [pc EXCEPT ![r] = "denied"]
      /\ UNCHANGED <<now, tickDue, key, held, stamp, windows, todo, cutoff,
                     sweeping, strays>>

(***************************************************************************)
(* The cleanup goroutine.  RateLimiter.mu is held from CleanupStart to     *)
(* CleanupEnd; the lock of a window only while that window is looked at,   *)
(* so handlers that hold a pointer go on charging, and the clock goes on.  *)
(***************************************************************************)
CleanupStart ==
  /\ tickDue
  /\ ~sweeping
  /\ tickDue' = FALSE
  /\ sweeping' = TRUE
  /\ cutoff' = now - Minute
  /\ todo' = {k \in Keys : windows[k] # NoWindow}
  /\ UNCHANGED <<now, pc, key, held, stamp, windows, requests, strays>>

IdleByOldest(w) == requests[w] = {} \/ \E q \in requests[w] : stamp[q] < cutoff

\* The last charge of the window is before the cutoff, or there is none.
Idle(w) == \A q \in requests[w] : stamp[q] < cutoff

CleanupVisit(k) ==
  /\ sweeping
  /\ k \in todo
  /\ todo' = todo \ {k}
  /\ windows' = IF Idle(windows[k])
                THEN [windows EXCEPT ![k] = NoWindow]
                ELSE windows
  /\ UNCHANGED <<now, tickDue, pc, key, held, stamp, requests, cutoff,
                 sweeping, strays>>

CleanupKeepsLock ==
  /\ sweeping
  /\ todo = {}
  /\ UNCHANGED vars

CleanupEnd ==
  /\ sweeping
  /\ todo = {}
  /\ sweeping' = FALSE
  /\ UNCHANGED <<now, tickDue, pc, key, held, stamp, windows, requests, todo,
                 cutoff, strays>>

Next ==
  \/ Tick
  \/ \E r \in Requests : Arrive(r) \/ Lookup(r) \/ Admit(r) \/ Deny(r)
  \/ CleanupStart
  \/ \E k \in Keys : CleanupVisit(k)
  \/ CleanupEnd

Spec == Init /\ [][Next]_vars

\* Goroutines that can run do run; a Go mutex goes into starvation mode, so
\* a handler waiting for RateLimiter.mu is not passed over for ever.
Fairness ==
  /\ \A r \in Requests : SF_vars(Lookup(r)) /\ WF_vars(Admit(r) \/ Deny(r))
  /\ \A k \in Keys : WF_vars(CleanupVisit(k))
  /\ WF_vars(CleanupEnd)

FairSpec == Spec /\ Fairness

(***************************************************************************)
(* Properties.                                                             *)
(***************************************************************************)

\* No minute that ends with a charge among S holds more than Limit of them.
AtMostLimitPerMinute(S) ==
  \A q \in S :
    Cardinality({p \in S : /\ stamp[q] - Minute < stamp[p]
                           /\ stamp[p] <= stamp[q]}) <= Limit

ChargedTo(w) == {q \in Requests : pc[q] = "allowed" /\ held[q] = w}

\* However handlers and sweeps interleave, one window object never admits
\* more than Limit requests in a minute: the drop-then-count in allow()
\* forgets no charge that still counts.
WindowLimit == \A w \in Requests : AtMostLimitPerMinute(ChargedTo(w))

\* A key exceeds its limit only through charges to a window that cleanup had
\* taken out of the map between window() and allow(): the other requests
\* admitted for a key respect the limit across all its successive windows.
KeyLimitBarringStrays ==
  \A k \in Keys :
    AtMostLimitPerMinute({q \in Requests \ strays :
                            pc[q] = "allowed" /\ key[q] = k})

\* Cleanup takes a window out of the map only when every charge on it has
\* expired, although the clock moves and handlers charge during the sweep.
CleanupForgetsNothing ==
  [][\A k \in Keys :
       (windows[k] # NoWindow /\ windows'[k] = NoWindow)
         => \A q \in requests[windows[k]] : stamp[q] <= now - Minute]_vars

\* Every request that reaches the limiter is answered, whatever the sweeps
\* in between: neither lock is kept for ever and the two are never crossed.
EveryRequestAnswered ==
  \A r \in Requests : pc[r] = "arrived" ~> pc[r] \in {"allowed", "denied"}

\* What clients see of the limiter is what SlidingWindow allows: verdicts by a
\* count that never forgets, whatever allow() drops from its slice and cleanup
\* from the map, and whenever they do so.
Verdict == [r \in Requests |-> IF pc[r] \in {"allowed", "denied"} THEN pc[r]
                               ELSE "none"]

Promise == INSTANCE SlidingWindow
  WITH clock <- now, counter <- held, current <- windows, verdict <- Verdict,
       Counters <- Requests, NoKey <- NoHeader, NoCounter <- NoWindow

ImplementsSlidingWindow == Promise!Spec

=============================================================================
