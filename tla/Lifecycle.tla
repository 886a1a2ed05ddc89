----------------------------- MODULE Lifecycle -----------------------------
(***************************************************************************)
(* Serving and stopping (internal/server/server.go) together with what is  *)
(* opened while serving and closed while stopping: the BigQuery client and *)
(* the PostgreSQL pools, one PostgresService for each squad, with a pool   *)
(* for each database that the first request for it opens                   *)
(* (internal/service/postgres.go, postgres_pool.go).                       *)
(*                                                                         *)
(* A handler makes any number of calls.  Shutdown waits for handlers, but  *)
(* not for ever, and does not stop them: they may be between any two steps *)
(* when clients and pools are closed.  A pool is named by its database,    *)
(* the request that opened it, and whether the squad's service had been    *)
(* closed by then.  Definitions named for a slip (OpenAnyway, ...) are     *)
(* what the mutation runs swap in.                                         *)
(***************************************************************************)
EXTENDS Integers, FiniteSets

CONSTANTS
  Requests,
  Squads,
  Databases,
  SquadOf,      \* the squad whose server a database is on
  BigQuery,     \* of a request that asks BigQuery instead
  NoPool,       \* no pool
  Grace,        \* how long Shutdown waits: 10 seconds
  MaxTime       \* bound on the clock

ASSUME LifecycleAssumption ==
  /\ SquadOf \in [Databases -> Squads]
  /\ BigQuery \notin Databases
  /\ Grace \in Nat /\ MaxTime \in Nat

\* Squads are entries of the configuration.
ASSUME FiniteSquads == IsFiniteSet(Squads)

VARIABLES
  now,         \* the clock
  phase,       \* where Server.Run is
  graceEnd,    \* when Shutdown's context expires
  late,        \* Shutdown has returned because of that
  bqOpen,      \* the BigQuery client is open
  registered,  \* PGPoolRegistry.pools: squads that have a service in it
  closed,      \* squads whose service has been closed
  pools,       \* PostgresService.pools, of all services
  open,        \* pools that are open
  pc,          \* where each handler is
  target,      \* the database a request asks
  held         \* the pool its handler has got from GetPool

vars == <<now, phase, graceEnd, late, bqOpen, registered, closed, pools, open,
          pc, target, held>>

serverVars == <<now, phase, graceEnd, late, bqOpen, registered, closed>>

Pools == [db : Databases, by : Requests, after : BOOLEAN]

ASSUME NoPoolAssumption == NoPool \notin Pools

AtWork == {"arrived", "resolved", "opening", "querying"}

\* Who asks PostgreSQL has a pool of its database while it does.
HeldOK ==
  /\ \A d \in Databases : pools[d] # NoPool => pools[d].db = d
  /\ \A r \in Requests : pc[r] \in {"arrived", "resolved", "opening"} =>
       target[r] \in Databases
  /\ \A r \in Requests : pc[r] = "querying" /\ target[r] # BigQuery =>
       held[r] # NoPool /\ held[r].db = target[r]

TypeOK ==
  /\ now \in Nat
  /\ phase \in {"serving", "draining", "closing", "closingPools", "exited"}
  /\ graceEnd \in Nat
  /\ late \in BOOLEAN
  /\ bqOpen \in BOOLEAN
  /\ registered \in SUBSET Squads
  /\ closed \in SUBSET Squads
  /\ pools \in [Databases -> Pools \cup {NoPool}]
  /\ open \in SUBSET Pools
  /\ pc \in [Requests -> {"idle", "done"} \cup AtWork]
  /\ target \in [Requests -> Databases \cup {BigQuery}]
  /\ held \in [Requests -> Pools \cup {NoPool}]
  /\ HeldOK

Init ==
  /\ now = 0
  /\ phase = "serving"
  /\ graceEnd = 0
  /\ late = FALSE
  /\ bqOpen = TRUE
  /\ registered \in SUBSET Squads
  /\ closed = {}
  /\ pools = [d \in Databases |-> NoPool]
  /\ open = {}
  /\ pc = [r \in Requests |-> "idle"]
  /\ target = [r \in Requests |-> BigQuery]
  /\ held = [r \in Requests |-> NoPool]

Tick ==
  /\ now < MaxTime
  /\ phase # "exited"
  /\ now' = now + 1
  /\ UNCHANGED <<phase, graceEnd, late, bqOpen, registered, closed, pools,
                 open, pc, target, held>>

(***************************************************************************)
(* A handler.  It runs until the process exits.                            *)
(***************************************************************************)
Go(r, place) == pc' = [pc EXCEPT ![r] = place]

\* Shutdown has the listener closed.
Arrive(r, t) ==
  /\ pc[r] = "idle"
  /\ phase = "serving"
  /\ target' = [target EXCEPT ![r] = t]
  /\ Go(r, IF t = BigQuery THEN "querying" ELSE "arrived")
  /\ UNCHANGED <<serverVars, pools, open, held>>

\* pgRegistry.Get, with the registry's lock: without a service for the squad
\* the request is answered at once.
Resolve(r) ==
  /\ pc[r] = "arrived"
  /\ phase \notin {"closingPools", "exited"}
  /\ Go(r, IF SquadOf[target[r]] \in registered THEN "resolved" ELSE "done")
  /\ UNCHANGED <<serverVars, pools, open, target, held>>

PooledByNow(r) == TRUE

Pooled(r) == pools[target[r]] # NoPool

\* GetPool, under the read lock.
PoolHit(r) ==
  /\ pc[r] = "resolved"
  /\ phase # "exited"
  /\ Pooled(r)
  /\ held' = [held EXCEPT ![r] = pools[target[r]]]
  /\ Go(r, "querying")
  /\ UNCHANGED <<serverVars, pools, open, target>>

PoolMiss(r) ==
  /\ pc[r] = "resolved"
  /\ phase # "exited"
  /\ ~Pooled(r)
  /\ Go(r, "opening")
  /\ UNCHANGED <<serverVars, pools, open, target, held>>

\* The pool a request would open now.
Opened(r) == [db |-> target[r], by |-> r, after |-> SquadOf[target[r]] \in closed]

OpenAnyway(r) == Opened(r)

\* The pool GetPool returns after its double check.
Agreed(r) == IF Pooled(r) THEN pools[target[r]] ELSE Opened(r)

\* GetPool, under the write lock.
GetPool(r) ==
  /\ pc[r] = "opening"
  /\ phase # "exited"
  /\ held' = [held EXCEPT ![r] = Agreed(r)]
  /\ pools' = [pools EXCEPT ![target[r]] = Agreed(r)]
  /\ open' = open \cup {Agreed(r)}
  /\ Go(r, "querying")
  /\ UNCHANGED <<serverVars, target>>

\* The query is over, and there is another for the handler to make: it has its
\* service still, and asks it for the pool again.
NextCall(r) ==
  /\ pc[r] = "querying"
  /\ phase # "exited"
  /\ target[r] # BigQuery
  /\ held' = [held EXCEPT ![r] = NoPool]
  /\ Go(r, "resolved")
  /\ UNCHANGED <<serverVars, pools, open, target>>

Finish(r) ==
  /\ pc[r] = "querying"
  /\ phase # "exited"
  /\ held' = [held EXCEPT ![r] = NoPool]
  /\ Go(r, "done")
  /\ UNCHANGED <<serverVars, pools, open, target>>

Handler(r) ==
  \/ \E t \in Databases \cup {BigQuery} : Arrive(r, t)
  \/ Resolve(r) \/ PoolHit(r) \/ PoolMiss(r) \/ GetPool(r)
  \/ NextCall(r) \/ Finish(r)

(***************************************************************************)
(* Server.Run.                                                             *)
(***************************************************************************)
handlerVars == <<pools, open, pc, target, held>>

\* ListenAndServe fails, and Run returns at once.
ServeFails ==
  /\ phase = "serving"
  /\ phase' = "exited"
  /\ UNCHANGED <<now, graceEnd, late, bqOpen, registered, closed, handlerVars>>

\* The context is cancelled (near the end of the clock it is not).
Signal ==
  /\ phase = "serving"
  /\ now + Grace <= MaxTime
  /\ phase' = "draining"
  /\ graceEnd' = now + Grace
  /\ UNCHANGED <<now, late, bqOpen, registered, closed, handlerVars>>

NoWait == TRUE

\* No connection is at work.
AllIdle == \A r \in Requests : pc[r] \notin AtWork

Drained ==
  /\ phase = "draining"
  /\ AllIdle
  /\ phase' = "closing"
  /\ UNCHANGED <<now, graceEnd, late, bqOpen, registered, closed, handlerVars>>

GraceForEver ==
  /\ FALSE
  /\ UNCHANGED vars

GraceOver ==
  /\ phase = "draining"
  /\ now >= graceEnd
  /\ phase' = "closing"
  /\ late' = TRUE
  /\ UNCHANGED <<now, graceEnd, bqOpen, registered, closed, handlerVars>>

\* The client is closed; then CloseAll takes the registry's lock.
CloseBigQuery ==
  /\ phase = "closing"
  /\ bqOpen' = FALSE
  /\ phase' = "closingPools"
  /\ UNCHANGED <<now, graceEnd, late, registered, closed, handlerVars>>

\* PostgresService.Close of one squad, under the service's lock.
CloseService(s) ==
  /\ phase = "closingPools"
  /\ s \in registered \ closed
  /\ closed' = closed \cup {s}
  /\ open' = open \ {pools[d] : d \in {e \in Databases : SquadOf[e] = s}}
  /\ pools' = [d \in Databases |-> IF SquadOf[d] = s THEN NoPool ELSE pools[d]]
  /\ UNCHANGED <<now, phase, graceEnd, late, bqOpen, registered, pc, target,
                 held>>

FirstClosed == registered = {} \/ closed # {}

AllClosed == registered \subseteq closed

\* CloseAll has been through the squads and forgets them; Run returns.
CloseAllEnds ==
  /\ phase = "closingPools"
  /\ AllClosed
  /\ registered' = {}
  /\ phase' = "exited"
  /\ UNCHANGED <<now, graceEnd, late, bqOpen, closed, handlerVars>>

Stopping ==
  \/ Drained \/ GraceOver
  \/ CloseBigQuery
  \/ \E s \in Squads : CloseService(s)
  \/ CloseAllEnds

Next ==
  \/ Tick
  \/ \E r \in Requests : Handler(r)
  \/ ServeFails
  \/ Signal
  \/ Stopping

Spec == Init /\ [][Next]_vars

\* Time passes, and Run goes on when it can.  Nothing is assumed of handlers:
\* they may be at work for ever.
FairSpec == Spec /\ WF_vars(Tick) /\ WF_vars(Stopping)

(***************************************************************************)
(* Properties.                                                             *)
(***************************************************************************)
\* A database never has two pools open, although requests race for the first
\* call and Close may come between one call and the next: each open pool is the
\* one GetPool hands out, so a later Close would find it.
OnePoolPerDatabase == \A p \in open : pools[p.db] = p

\* Client and pools are closed under a handler only if it has been given the
\* whole of the grace period ("held for graceful close").
ClosedUnderWork(r) ==
  /\ pc[r] = "querying"
  /\ IF target[r] = BigQuery THEN ~bqOpen ELSE held[r] \notin open

GracefulClose ==
  \A r \in Requests : ClosedUnderWork(r) => late /\ now >= graceEnd

\* When Run returns after a shutdown that was in time, it leaves nothing open,
\* and no request without its answer.
CleanExit ==
  phase = "exited" /\ graceEnd > 0 /\ ~late =>
    open = {} /\ ~bqOpen /\ AllIdle

\* A server that was told to stop does, whatever its handlers are doing, and
\* though they contend for the locks of registry and services.
ServerStops == phase = "draining" ~> phase = "exited"

=============================================================================
