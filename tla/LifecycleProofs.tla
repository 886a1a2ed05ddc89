-------------------------- MODULE LifecycleProofs --------------------------
(***************************************************************************)
(* Proofs about Lifecycle for every set of requests, squads and databases, *)
(* and every grace period.                                                 *)
(***************************************************************************)
EXTENDS Lifecycle, FiniteSetTheorems, TLAPS

\* What has been closed when, and that a shutdown in time finds no one at work.
Stages ==
  /\ phase \in {"serving", "draining", "closing"} => bqOpen /\ closed = {}
  /\ phase = "closingPools" => ~bqOpen
  /\ phase = "serving" => graceEnd = 0 /\ ~late
  /\ late => now >= graceEnd
  /\ ~late /\ (phase \in {"closing", "closingPools"} \/ ~bqOpen \/ closed # {})
       => AllIdle

\* The pools that are open are those that are registered; a handler's pool is
\* open until its squad's service is closed.
Tracked ==
  /\ OnePoolPerDatabase
  /\ \A d \in Databases : pools[d] # NoPool => pools[d] \in open
  /\ \A r \in Requests : pc[r] = "querying" /\ target[r] # BigQuery =>
       held[r] \in open \/ SquadOf[target[r]] \in closed

\* Requests that have found their squad's service, and those that ask its
\* database.
Resolved(r) ==
  pc[r] \in {"resolved", "opening"} \/ (pc[r] = "querying" /\ target[r] # BigQuery)

\* Pools are of squads that CloseAll will come to, and only handlers that have
\* outlived the grace period open one after it has.
Closable ==
  /\ ~late => \A p \in open : SquadOf[p.db] \notin closed
  /\ phase # "exited" => \A p \in open : SquadOf[p.db] \in registered
  /\ phase # "exited" =>
       \A r \in Requests : Resolved(r) => SquadOf[target[r]] \in registered

LifeInv == TypeOK /\ Stages /\ Tracked /\ Closable /\ CleanExit

\* The initial state satisfies the invariant.
LEMMA LifecycleInit == Init => LifeInv
<1> SUFFICES ASSUME Init PROVE LifeInv
  OBVIOUS
<1> USE LifecycleAssumption, NoPoolAssumption DEF Init
<1>1. TypeOK
  BY DEF TypeOK, HeldOK, AtWork
<1>2. Stages /\ CleanExit
  BY DEF Stages, CleanExit, AllIdle, AtWork
<1>3. Tracked /\ Closable
  BY DEF Tracked, OnePoolPerDatabase, Closable, Resolved
<1>4. QED
  BY <1>1, <1>2, <1>3 DEF LifeInv

\* Every step keeps the types.
LEMMA TypeStep == TypeOK /\ [Next]_vars => TypeOK'
<1> SUFFICES ASSUME TypeOK, [Next]_vars PROVE TypeOK'
  OBVIOUS
<1> USE LifecycleAssumption, NoPoolAssumption DEF TypeOK, HeldOK, AtWork
<1>1. CASE Tick
  BY <1>1 DEF Tick
<1>2. ASSUME NEW r \in Requests, NEW t \in Databases \cup {BigQuery}, Arrive(r, t)
  PROVE TypeOK'
  BY <1>2 DEF Arrive, Go, serverVars
<1>3. ASSUME NEW r \in Requests, Resolve(r)
  PROVE TypeOK'
  BY <1>3 DEF Resolve, Go, serverVars
<1>4. ASSUME NEW r \in Requests, PoolHit(r)
  PROVE TypeOK'
  BY <1>4 DEF PoolHit, Pooled, Go, serverVars
<1>5. ASSUME NEW r \in Requests, PoolMiss(r)
  PROVE TypeOK'
  BY <1>5 DEF PoolMiss, Pooled, Go, serverVars
<1>6. ASSUME NEW r \in Requests, GetPool(r)
  PROVE TypeOK'
  <2>1. target[r] \in Databases /\ Opened(r) \in Pools
    BY <1>6 DEF GetPool, Opened, Pools
  <2>2. Agreed(r) \in Pools /\ Agreed(r).db = target[r]
    BY <2>1 DEF Agreed, Pooled, Opened
  <2>3. QED
    BY <1>6, <2>1, <2>2 DEF GetPool, Go, serverVars
<1>7. ASSUME NEW r \in Requests, NextCall(r)
  PROVE TypeOK'
  BY <1>7 DEF NextCall, Go, serverVars
<1>8. ASSUME NEW r \in Requests, Finish(r)
  PROVE TypeOK'
  BY <1>8 DEF Finish, Go, serverVars
<1>9. CASE ServeFails
  BY <1>9 DEF ServeFails, handlerVars
<1>10. CASE Signal
  BY <1>10 DEF Signal, handlerVars
<1>11. CASE Drained
  BY <1>11 DEF Drained, handlerVars
<1>12. CASE GraceOver
  BY <1>12 DEF GraceOver, handlerVars
<1>13. CASE CloseBigQuery
  BY <1>13 DEF CloseBigQuery, handlerVars
<1>14. ASSUME NEW s \in Squads, CloseService(s)
  PROVE TypeOK'
  BY <1>14 DEF CloseService
<1>15. CASE CloseAllEnds
  BY <1>15 DEF CloseAllEnds, AllClosed, handlerVars
<1>16. CASE UNCHANGED vars
  BY <1>16 DEF vars
<1>17. QED
  BY <1>1, <1>2, <1>3, <1>4, <1>5, <1>6, <1>7, <1>8, <1>9, <1>10, <1>11, <1>12, <1>13, <1>14, <1>15, <1>16 DEF Next, Handler, Stopping

\* The invariant of types.
THEOREM LifecycleTypeOK == Spec => []TypeOK
<1>1. Init => TypeOK
  BY LifecycleInit DEF LifeInv
<1>2. QED
  BY <1>1, TypeStep, PTL DEF Spec

-----------------------------------------------------------------------------
\* Every step keeps the order of the shutdown.
LEMMA StagesStep == TypeOK /\ Stages /\ [Next]_vars => Stages'
<1> SUFFICES ASSUME TypeOK, Stages, [Next]_vars PROVE Stages'
  OBVIOUS
<1> USE LifecycleAssumption DEF TypeOK, Stages, AllIdle, AtWork
<1>1. CASE Tick
  BY <1>1 DEF Tick
<1>2. ASSUME NEW r \in Requests, NEW t \in Databases \cup {BigQuery}, Arrive(r, t)
  PROVE Stages'
  BY <1>2 DEF Arrive, Go, serverVars
<1>3. ASSUME NEW r \in Requests, Resolve(r)
  PROVE Stages'
  BY <1>3 DEF Resolve, Go, serverVars
<1>4. ASSUME NEW r \in Requests, PoolHit(r)
  PROVE Stages'
  BY <1>4 DEF PoolHit, Pooled, Go, serverVars
<1>5. ASSUME NEW r \in Requests, PoolMiss(r)
  PROVE Stages'
  BY <1>5 DEF PoolMiss, Pooled, Go, serverVars
<1>6. ASSUME NEW r \in Requests, GetPool(r)
  PROVE Stages'
  BY <1>6 DEF GetPool, Agreed, Opened, Pooled, Go, serverVars
<1>7. ASSUME NEW r \in Requests, NextCall(r)
  PROVE Stages'
  BY <1>7 DEF NextCall, Go, serverVars
<1>8. ASSUME NEW r \in Requests, Finish(r)
  PROVE Stages'
  BY <1>8 DEF Finish, Go, serverVars
<1>9. CASE ServeFails
  BY <1>9 DEF ServeFails, handlerVars
<1>10. CASE Signal
  BY <1>10 DEF Signal, handlerVars
<1>11. CASE Drained
  BY <1>11 DEF Drained, handlerVars
<1>12. CASE GraceOver
  BY <1>12 DEF GraceOver, handlerVars
<1>13. CASE CloseBigQuery
  BY <1>13 DEF CloseBigQuery, handlerVars
<1>14. ASSUME NEW s \in Squads, CloseService(s)
  PROVE Stages'
  BY <1>14 DEF CloseService
<1>15. CASE CloseAllEnds
  BY <1>15 DEF CloseAllEnds, AllClosed, handlerVars
<1>16. CASE UNCHANGED vars
  BY <1>16 DEF vars
<1>17. QED
  BY <1>1, <1>2, <1>3, <1>4, <1>5, <1>6, <1>7, <1>8, <1>9, <1>10, <1>11, <1>12, <1>13, <1>14, <1>15, <1>16 DEF Next, Handler, Stopping

\* Every step keeps open pools registered.
LEMMA TrackedStep == TypeOK /\ Tracked /\ [Next]_vars => Tracked'
<1> SUFFICES ASSUME TypeOK, Tracked, [Next]_vars PROVE Tracked'
  OBVIOUS
<1> USE LifecycleAssumption, NoPoolAssumption DEF TypeOK, HeldOK, Tracked, OnePoolPerDatabase
<1>1. CASE Tick
  BY <1>1 DEF Tick
<1>2. ASSUME NEW r \in Requests, NEW t \in Databases \cup {BigQuery}, Arrive(r, t)
  PROVE Tracked'
  BY <1>2 DEF Arrive, Go, serverVars
<1>3. ASSUME NEW r \in Requests, Resolve(r)
  PROVE Tracked'
  BY <1>3 DEF Resolve, Go, serverVars
<1>4. ASSUME NEW r \in Requests, PoolHit(r)
  PROVE Tracked'
  BY <1>4 DEF PoolHit, Pooled, Go, serverVars
<1>5. ASSUME NEW r \in Requests, PoolMiss(r)
  PROVE Tracked'
  BY <1>5 DEF PoolMiss, Pooled, Go, serverVars
<1>6. ASSUME NEW r \in Requests, GetPool(r)
  PROVE Tracked'
  BY <1>6 DEF GetPool, Agreed, Opened, Pooled, Go, serverVars
<1>7. ASSUME NEW r \in Requests, NextCall(r)
  PROVE Tracked'
  BY <1>7 DEF NextCall, Go, serverVars
<1>8. ASSUME NEW r \in Requests, Finish(r)
  PROVE Tracked'
  BY <1>8 DEF Finish, Go, serverVars
<1>9. CASE ServeFails
  BY <1>9 DEF ServeFails, handlerVars
<1>10. CASE Signal
  BY <1>10 DEF Signal, handlerVars
<1>11. CASE Drained
  BY <1>11 DEF Drained, handlerVars
<1>12. CASE GraceOver
  BY <1>12 DEF GraceOver, handlerVars
<1>13. CASE CloseBigQuery
  BY <1>13 DEF CloseBigQuery, handlerVars
<1>14. ASSUME NEW s \in Squads, CloseService(s)
  PROVE Tracked'
  <2>1. \A d \in Databases :
           pools'[d] = IF SquadOf[d] = s THEN NoPool ELSE pools[d]
    BY <1>14 DEF CloseService
  <2>2. \A p : p \in open' <=>
           p \in open /\ \A d \in Databases : SquadOf[d] = s => p # pools[d]
    BY <1>14 DEF CloseService
  <2>3. \A p \in open' : pools'[p.db] = p
    <3> SUFFICES ASSUME NEW p \in open' PROVE pools'[p.db] = p
      OBVIOUS
    <3>1. p \in open /\ p.db \in Databases /\ pools[p.db] = p
      BY <2>2 DEF Pools
    <3>2. SquadOf[p.db] # s
      BY <2>2, <3>1
    <3>3. QED
      BY <2>1, <3>1, <3>2
  <2>4. \A d \in Databases : pools'[d] # NoPool => pools'[d] \in open'
    <3> SUFFICES ASSUME NEW d \in Databases, pools'[d] # NoPool
                 PROVE pools'[d] \in open'
      OBVIOUS
    <3>1. SquadOf[d] # s /\ pools'[d] = pools[d]
      BY <2>1
    <3>2. \A e \in Databases : SquadOf[e] = s => pools[d] # pools[e]
      BY <3>1
    <3>3. QED
      BY <2>2, <3>1, <3>2
  <2>5. \A r \in Requests : pc[r] = "querying" /\ target[r] # BigQuery =>
          held[r] \in open' \/ SquadOf[target[r]] \in closed'
    <3> SUFFICES ASSUME NEW r \in Requests, pc[r] = "querying",
                        target[r] # BigQuery, held[r] \notin open',
                        held[r] \in open
                 PROVE SquadOf[target[r]] \in closed'
      BY <1>14 DEF CloseService
    <3>1. PICK d \in Databases : SquadOf[d] = s /\ held[r] = pools[d]
      BY <2>2
    <3>2. d = target[r]
      BY <3>1
    <3>3. QED
      BY <1>14, <3>1, <3>2 DEF CloseService
  <2>6. UNCHANGED <<pc, target, held>>
    BY <1>14 DEF CloseService
  <2>7. QED
    BY <2>3, <2>4, <2>5, <2>6
<1>15. CASE CloseAllEnds
  BY <1>15 DEF CloseAllEnds, AllClosed, handlerVars
<1>16. CASE UNCHANGED vars
  BY <1>16 DEF vars
<1>17. QED
  BY <1>1, <1>2, <1>3, <1>4, <1>5, <1>6, <1>7, <1>8, <1>9, <1>10, <1>11, <1>12, <1>13, <1>14, <1>15, <1>16 DEF Next, Handler, Stopping

\* Every step leaves the open pools where CloseAll finds them.
LEMMA ClosableStep == TypeOK /\ Stages /\ Tracked /\ Closable /\ [Next]_vars => Closable'
<1> SUFFICES ASSUME TypeOK, Stages, Tracked, Closable, [Next]_vars PROVE Closable'
  OBVIOUS
<1> USE LifecycleAssumption, NoPoolAssumption DEF TypeOK, HeldOK, Stages, AllIdle, AtWork, Tracked, OnePoolPerDatabase, Closable, Resolved
<1>1. CASE Tick
  BY <1>1 DEF Tick
<1>2. ASSUME NEW r \in Requests, NEW t \in Databases \cup {BigQuery}, Arrive(r, t)
  PROVE Closable'
  BY <1>2 DEF Arrive, Go, serverVars
<1>3. ASSUME NEW r \in Requests, Resolve(r)
  PROVE Closable'
  BY <1>3 DEF Resolve, Go, serverVars
<1>4. ASSUME NEW r \in Requests, PoolHit(r)
  PROVE Closable'
  BY <1>4 DEF PoolHit, Pooled, Go, serverVars
<1>5. ASSUME NEW r \in Requests, PoolMiss(r)
  PROVE Closable'
  BY <1>5 DEF PoolMiss, Pooled, Go, serverVars
<1>6. ASSUME NEW r \in Requests, GetPool(r)
  PROVE Closable'
  BY <1>6 DEF GetPool, Agreed, Opened, Pooled, Go, serverVars
<1>7. ASSUME NEW r \in Requests, NextCall(r)
  PROVE Closable'
  BY <1>7 DEF NextCall, Go, serverVars
<1>8. ASSUME NEW r \in Requests, Finish(r)
  PROVE Closable'
  BY <1>8 DEF Finish, Go, serverVars
<1>9. CASE ServeFails
  BY <1>9 DEF ServeFails, handlerVars
<1>10. CASE Signal
  BY <1>10 DEF Signal, handlerVars
<1>11. CASE Drained
  BY <1>11 DEF Drained, handlerVars
<1>12. CASE GraceOver
  BY <1>12 DEF GraceOver, handlerVars
<1>13. CASE CloseBigQuery
  BY <1>13 DEF CloseBigQuery, handlerVars
<1>14. ASSUME NEW s \in Squads, CloseService(s)
  PROVE Closable'
  <2>1. \A p \in open' : p \in open /\ SquadOf[p.db] # s
    BY <1>14 DEF CloseService, Pools
  <2>2. UNCHANGED <<phase, late, registered, pc, target>> /\ closed' = closed \cup {s}
    BY <1>14 DEF CloseService
  <2>3. ~late => \A p \in open' : SquadOf[p.db] \notin closed'
    BY <2>1, <2>2
  <2>4. phase # "exited" => \A p \in open' : SquadOf[p.db] \in registered
    BY <2>1
  <2>5. QED
    BY <2>2, <2>3, <2>4
<1>15. CASE CloseAllEnds
  BY <1>15 DEF CloseAllEnds, AllClosed, handlerVars
<1>16. CASE UNCHANGED vars
  BY <1>16 DEF vars
<1>17. QED
  BY <1>1, <1>2, <1>3, <1>4, <1>5, <1>6, <1>7, <1>8, <1>9, <1>10, <1>11, <1>12, <1>13, <1>14, <1>15, <1>16 DEF Next, Handler, Stopping

\* Every step that ends the server leaves it clean, and none comes after.
LEMMA ExitStep == TypeOK /\ Stages /\ Closable /\ CleanExit /\ [Next]_vars => CleanExit'
<1> SUFFICES ASSUME TypeOK, Stages, Closable, CleanExit, [Next]_vars PROVE CleanExit'
  OBVIOUS
<1> USE LifecycleAssumption DEF TypeOK, Stages, Closable, CleanExit, AllIdle, AtWork
<1>1. CASE Tick
  BY <1>1 DEF Tick
<1>2. ASSUME NEW r \in Requests, NEW t \in Databases \cup {BigQuery}, Arrive(r, t)
  PROVE CleanExit'
  BY <1>2 DEF Arrive, Go, serverVars
<1>3. ASSUME NEW r \in Requests, Resolve(r)
  PROVE CleanExit'
  BY <1>3 DEF Resolve, Go, serverVars
<1>4. ASSUME NEW r \in Requests, PoolHit(r)
  PROVE CleanExit'
  BY <1>4 DEF PoolHit, Pooled, Go, serverVars
<1>5. ASSUME NEW r \in Requests, PoolMiss(r)
  PROVE CleanExit'
  BY <1>5 DEF PoolMiss, Pooled, Go, serverVars
<1>6. ASSUME NEW r \in Requests, GetPool(r)
  PROVE CleanExit'
  BY <1>6 DEF GetPool, Agreed, Opened, Pooled, Go, serverVars
<1>7. ASSUME NEW r \in Requests, NextCall(r)
  PROVE CleanExit'
  BY <1>7 DEF NextCall, Go, serverVars
<1>8. ASSUME NEW r \in Requests, Finish(r)
  PROVE CleanExit'
  BY <1>8 DEF Finish, Go, serverVars
<1>9. CASE ServeFails
  BY <1>9 DEF ServeFails, handlerVars
<1>10. CASE Signal
  BY <1>10 DEF Signal, handlerVars
<1>11. CASE Drained
  BY <1>11 DEF Drained, handlerVars
<1>12. CASE GraceOver
  BY <1>12 DEF GraceOver, handlerVars
<1>13. CASE CloseBigQuery
  BY <1>13 DEF CloseBigQuery, handlerVars
<1>14. ASSUME NEW s \in Squads, CloseService(s)
  PROVE CleanExit'
  BY <1>14 DEF CloseService
<1>15. CASE CloseAllEnds
  BY <1>15 DEF CloseAllEnds, AllClosed, handlerVars
<1>16. CASE UNCHANGED vars
  BY <1>16 DEF vars
<1>17. QED
  BY <1>1, <1>2, <1>3, <1>4, <1>5, <1>6, <1>7, <1>8, <1>9, <1>10, <1>11, <1>12, <1>13, <1>14, <1>15, <1>16 DEF Next, Handler, Stopping

\* LifeInv is an invariant.
LEMMA LifecycleInvariant == Spec => []LifeInv
<1>1. LifeInv /\ [Next]_vars => LifeInv'
  BY TypeStep, StagesStep, TrackedStep, ClosableStep, ExitStep DEF LifeInv
<1>2. QED
  BY LifecycleInit, <1>1, PTL DEF Spec

-----------------------------------------------------------------------------
\* No database has two pools open, for any number of requests at any step of
\* a shutdown.
THEOREM LifecycleOnePool == Spec => []OnePoolPerDatabase
<1>1. LifeInv => OnePoolPerDatabase
  BY DEF LifeInv, Tracked
<1>2. QED
  BY <1>1, LifecycleInvariant, PTL

\* Nothing is closed under a handler that has not had the whole grace period.
THEOREM LifecycleGraceful == Spec => []GracefulClose
<1>1. LifeInv => GracefulClose
  <2> SUFFICES ASSUME LifeInv, NEW r \in Requests, ClosedUnderWork(r)
               PROVE late /\ now >= graceEnd
    BY DEF GracefulClose
  <2>1. ~bqOpen \/ closed # {}
    BY DEF LifeInv, Tracked, ClosedUnderWork
  <2>2. ~AllIdle
    BY DEF ClosedUnderWork, AllIdle, AtWork
  <2>3. QED
    BY <2>1, <2>2 DEF LifeInv, Stages, TypeOK
<1>2. QED
  BY <1>1, LifecycleInvariant, PTL

\* A shutdown in time leaves nothing open and nobody unanswered.
THEOREM LifecycleCleanExit == Spec => []CleanExit
<1>1. LifeInv => CleanExit
  BY DEF LifeInv
<1>2. QED
  BY <1>1, LifecycleInvariant, PTL

-----------------------------------------------------------------------------
\* How many steps Run has left: the end of serving, the wait, the client, and
\* each service there is still to close.
StopLeft ==
  (CASE phase = "serving" -> 4
     [] phase = "draining" -> 3
     [] phase = "closing" -> 2
     [] phase = "closingPools" -> 1
     [] OTHER -> 0)
  + (IF phase = "exited" THEN 0 ELSE Cardinality(registered \ closed))

\* Only Run's own steps count, each of them does, and the clock can come to the
\* end of the grace period.
RunGoesOn ==
  IF ServeFails \/ Signal \/ Stopping THEN StopLeft' < StopLeft
                                      ELSE StopLeft' = StopLeft

GraceInReach == graceEnd <= MaxTime

LEMMA ServicesLeft ==
  ASSUME TypeOK
  PROVE  /\ IsFiniteSet(registered \ closed)
         /\ Cardinality(registered \ closed) \in 0..Cardinality(Squads)
<1>1. registered \ closed \in SUBSET Squads
  BY DEF TypeOK
<1>2. /\ IsFiniteSet(registered \ closed)
      /\ Cardinality(registered \ closed) <= Cardinality(Squads)
  BY <1>1, FiniteSquads, FS_Subset
<1>3. Cardinality(registered \ closed) \in Nat /\ Cardinality(Squads) \in Nat
  BY <1>2, FiniteSquads, FS_CardinalityType
<1>4. QED
  BY <1>2, <1>3

LEMMA StopLeftType ==
  ASSUME TypeOK
  PROVE  /\ StopLeft \in 0..(Cardinality(Squads) + 4)
         /\ StopLeft = 0 <=> phase = "exited"
<1>1. Cardinality(registered \ closed) \in 0..Cardinality(Squads) /\ Cardinality(Squads) \in Nat
  BY ServicesLeft, FiniteSquads, FS_CardinalityType
<1>2. phase \in {"serving", "draining", "closing", "closingPools", "exited"}
  BY DEF TypeOK
<1>3. QED
  BY <1>1, <1>2 DEF StopLeft

LEMMA StopStep ==
  ASSUME TypeOK, GraceInReach, [Next]_vars
  PROVE  RunGoesOn /\ GraceInReach'
<1> DEFINE n == Cardinality(registered \ closed)
<1>1. n \in Nat
  BY ServicesLeft
<1>2. CASE ServeFails
  <2>1. phase = "serving" /\ phase' = "exited" /\ graceEnd' = graceEnd
    BY <1>2 DEF ServeFails
  <2>2. StopLeft = 4 + n /\ StopLeft' = 0
    BY <2>1 DEF StopLeft
  <2>3. QED
    BY <1>1, <1>2, <2>1, <2>2 DEF RunGoesOn, GraceInReach
<1>3. CASE Signal
  <2>1. phase = "serving" /\ phase' = "draining" /\ graceEnd' <= MaxTime
        /\ UNCHANGED <<registered, closed>>
    BY <1>3 DEF Signal
  <2>2. StopLeft = 4 + n /\ StopLeft' = 3 + n
    BY <2>1 DEF StopLeft
  <2>3. QED
    BY <1>1, <1>3, <2>1, <2>2 DEF RunGoesOn, GraceInReach
<1>4. CASE Stopping
  <2>1. StopLeft' < StopLeft
    <3>1. CASE Drained \/ GraceOver
      <4>1. phase = "draining" /\ phase' = "closing" /\ UNCHANGED <<registered, closed>>
        BY <3>1 DEF Drained, GraceOver
      <4>2. StopLeft = 3 + n /\ StopLeft' = 2 + n
        BY <4>1 DEF StopLeft
      <4>3. QED
        BY <1>1, <4>2
    <3>2. CASE CloseBigQuery
      <4>1. phase = "closing" /\ phase' = "closingPools" /\ UNCHANGED <<registered, closed>>
        BY <3>2 DEF CloseBigQuery
      <4>2. StopLeft = 2 + n /\ StopLeft' = 1 + n
        BY <4>1 DEF StopLeft
      <4>3. QED
        BY <1>1, <4>2
    <3>3. ASSUME NEW s \in Squads, CloseService(s) PROVE StopLeft' < StopLeft
      <4>1. /\ phase = "closingPools" /\ phase' = phase
            /\ s \in registered \ closed
            /\ registered' \ closed' = (registered \ closed) \ {s}
        BY <3>3 DEF CloseService
      <4>2. Cardinality((registered \ closed) \ {s}) = n - 1
        BY <4>1, ServicesLeft, FS_RemoveElement
      <4>3. StopLeft = 1 + n /\ StopLeft' = 1 + (n - 1)
        BY <4>1, <4>2 DEF StopLeft
      <4>4. QED
        BY <1>1, <4>3
    <3>4. CASE CloseAllEnds
      <4>1. phase = "closingPools" /\ phase' = "exited"
        BY <3>4 DEF CloseAllEnds
      <4>2. StopLeft = 1 + n /\ StopLeft' = 0
        BY <4>1 DEF StopLeft
      <4>3. QED
        BY <1>1, <4>2
    <3>5. QED
      BY <1>4, <3>1, <3>2, <3>3, <3>4 DEF Stopping
  <2>2. graceEnd' = graceEnd
    BY <1>4 DEF Stopping, Drained, GraceOver, CloseBigQuery, CloseService, CloseAllEnds
  <2>3. QED
    BY <1>4, <2>1, <2>2 DEF RunGoesOn, GraceInReach
<1>5. ASSUME UNCHANGED <<phase, graceEnd, registered, closed>> PROVE RunGoesOn /\ GraceInReach'
  <2>1. StopLeft' = StopLeft
    BY <1>5 DEF StopLeft
  <2>2. ~(ServeFails \/ Signal \/ Stopping)
    <3>1. ~ServeFails /\ ~Signal /\ ~Drained /\ ~GraceOver /\ ~CloseBigQuery /\ ~CloseAllEnds
      BY <1>5 DEF ServeFails, Signal, Drained, GraceOver, CloseBigQuery, CloseAllEnds
    <3>2. \A s \in Squads : ~CloseService(s)
      BY <1>5 DEF CloseService
    <3>3. QED
      BY <3>1, <3>2 DEF Stopping
  <2>3. QED
    BY <1>5, <2>1, <2>2 DEF RunGoesOn, GraceInReach
<1>6. CASE Tick \/ UNCHANGED vars
  BY <1>5, <1>6 DEF Tick, vars
<1>7. ASSUME NEW r \in Requests, Handler(r) PROVE RunGoesOn /\ GraceInReach'
  <2>1. UNCHANGED serverVars
    BY <1>7 DEF Handler, Arrive, Resolve, PoolHit, PoolMiss, GetPool, NextCall, Finish
  <2>2. QED
    BY <1>5, <2>1 DEF serverVars
<1>8. QED
  BY <1>2, <1>3, <1>4, <1>6, <1>7 DEF Next

\* Run ends after at most four steps and one for each squad: each step of its own
\* brings it nearer, and neither the clock nor any number of handlers, whatever
\* they open meanwhile, gives it more to do.
THEOREM LifecycleStopAdvances ==
  Spec => /\ [](/\ StopLeft \in 0..(Cardinality(Squads) + 4)
                /\ StopLeft = 0 <=> phase = "exited"
                /\ GraceInReach)
          /\ [][RunGoesOn]_vars
<1> DEFINE Few == /\ StopLeft \in 0..(Cardinality(Squads) + 4)
                  /\ StopLeft = 0 <=> phase = "exited"
                  /\ GraceInReach
<1>1. Init => TypeOK /\ GraceInReach
  BY LifecycleInit, LifecycleAssumption DEF LifeInv, Init, GraceInReach
<1>2. (TypeOK /\ GraceInReach) /\ [Next]_vars => (TypeOK /\ GraceInReach)'
  BY TypeStep, StopStep
<1>3. TypeOK /\ GraceInReach => Few
  BY StopLeftType
<1>4. (TypeOK /\ GraceInReach) /\ [Next]_vars => [RunGoesOn]_vars
  BY StopStep
<1>5. QED
  <2> HIDE DEF Few
  <2>1. Spec => []Few /\ [][RunGoesOn]_vars
    BY <1>1, <1>2, <1>3, <1>4, PTL DEF Spec
  <2>2. QED
    BY <2>1 DEF Few

=============================================================================
