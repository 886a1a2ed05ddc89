---------------------------- MODULE StartupProofs ----------------------------
(***************************************************************************)
(* Proofs about Startup for every set of configurations and environments:  *)
(* any personas in any order, any list of squads and users.                *)
(***************************************************************************)
EXTENDS Startup, TLAPS

USE StartupAssumption DEF StartupAssumption

\* A file is what File says, part by part.
LEMMA FileParts ==
  ASSUME NEW f \in Files
  PROVE  /\ f.settings \in [Settings -> Values \cup {"absent"}]
         /\ \A n \in DOMAIN f.personas : f.personas[n] \in PersonaConfig
         /\ f.squads \in Seq(SquadConfig)
         /\ Len(f.squads) \in Nat
         /\ \A j \in 1..Len(f.squads) : f.squads[j] \in SquadConfig
         /\ f.users \in Seq(UserConfig)
         /\ \A j \in 1..Len(f.users) : f.users[j] \in UserConfig
<1>1. f \in File
  OBVIOUS
<1>2. PICK names \in SUBSET Personas : f.personas \in [names -> PersonaConfig]
  BY <1>1 DEF File
<1>3. \A n \in DOMAIN f.personas : f.personas[n] \in PersonaConfig
  BY <1>2
<1>4. f.squads \in Seq(SquadConfig) /\ f.users \in Seq(UserConfig)
  BY <1>1 DEF File
<1>5. f.settings \in [Settings -> Values \cup {"absent"}]
  BY <1>1 DEF File
<1>6. QED
  BY <1>3, <1>4, <1>5

\* A persona's key is one of the pool's, and its runner is a runner.
LEMMA PersonaParts ==
  ASSUME TypeOK, NEW n \in DOMAIN file.personas
  PROVE  PoolKey(n) \in PoolKeys /\ Runner(n) \in Runners /\ Runner(n) # NoRunner
<1>1. Persona(n) \in PersonaConfig
  BY FileParts DEF TypeOK, Persona
<1>2. PoolKey(n) \in PoolKeys
  BY <1>1 DEF PoolKey, PoolKeys, PersonaConfig
<1>3. Runner(n) \in Runners
  BY <1>1 DEF Runner, Runners, PersonaConfig, Agent
<1>4. Runner(n).agent # NoRunner.agent
  BY DEF Runner, NoRunner, Agent
<1>5. QED
  BY <1>2, <1>3, <1>4

(***************************************************************************)
(* Types.                                                                  *)
(***************************************************************************)
LEMMA InitTypeOK == Init => TypeOK
<1> SUFFICES ASSUME Init PROVE TypeOK
  OBVIOUS
<1>1. file.settings \in [Settings -> Values \cup {"absent"}] /\ Len(file.squads) \in Nat
  BY FileParts DEF Init
<1>2. NoUser \in Users /\ NoUser.squad = 0
  BY DEF NoUser, Users
<1>3. NoRunner \in Runners
  BY DEF NoRunner, Runners
<1>4. byKey \in [Keys -> Users] /\ \A k \in Keys : byKey[k].squad \in Index
  BY <1>1, <1>2 DEF Init, Index
<1>5. fallback \in Runners /\ runners \in [PoolKeys -> Runners]
  BY <1>3 DEF Init
<1>6. registry \in [SquadIds -> Index] /\ squadMap \in [SquadIds -> Index]
  BY <1>1 DEF Init, Index
<1>7. env \in Environments /\ file \in Files /\ phase = "load" /\ next = 1
  BY DEF Init
<1>8. settings \in [Settings -> Values \cup {"absent"}]
  BY <1>1 DEF Init
<1>9. ~bigquery /\ ~elasticsearch /\ todo = {} /\ routes = {}
  BY DEF Init
<1>10. bigquery \in BOOLEAN /\ elasticsearch \in BOOLEAN
  BY DEF Init
<1>11. QED
  BY <1>4, <1>5, <1>6, <1>7, <1>8, <1>9, <1>10 DEF TypeOK

LEMMA StepTypeOK == TypeOK /\ [Next]_vars => TypeOK'
<1> SUFFICES ASSUME TypeOK, [Next]_vars PROVE TypeOK'
  OBVIOUS
<1>a. file \in Files
  BY DEF TypeOK
<1>b. /\ Len(file.squads) \in Nat
      /\ \A j \in 1..Len(file.squads) : file.squads[j] \in SquadConfig
  BY <1>a, FileParts
<1>c. /\ Len(file.users) \in Nat
      /\ \A j \in 1..Len(file.users) : file.users[j] \in UserConfig
  <2>1. file.users \in Seq(UserConfig)
    BY <1>a, FileParts
  <2>2. QED
    BY <2>1
<1>d. \A s \in Settings : file.settings[s] \in Values \cup {"absent"}
  BY <1>a, FileParts
<1>1. CASE Load
  <2>1. \A s \in Settings : env[s] \in Values
    BY DEF TypeOK
  <2>2. \A s \in Settings : EnvOverride(s) \in Values
    BY <2>1 DEF EnvOverride, Values
  <2>3. \A s \in Settings : Default(s) \in Values
    <3>1. TAKE s \in Settings
    <3>2. CASE s = "ENABLE_AUTH"
      BY <3>2 DEF Default, Values
    <3>3. CASE s \in Switches \ {"ENABLE_AUTH"}
      BY <3>3 DEF Default, Values
    <3>4. CASE s \notin Switches /\ s # "ENABLE_AUTH"
      BY <3>4 DEF Default, Values, Providers
    <3>5. QED
      BY <3>2, <3>3, <3>4
  <2>4. settings' \in [Settings -> Values \cup {"absent"}]
    BY <1>1, <1>d, <2>2, <2>3 DEF Load
  <2>5. QED
    BY <1>1, <2>4 DEF Load, inputs, tables, pool, TypeOK, Index
<1>2. CASE LoadFails
  BY <1>2 DEF LoadFails, inputs, tables, pool, TypeOK, Index
<1>3. CASE StartServices
  <2>1. bigquery' \in BOOLEAN /\ elasticsearch' \in BOOLEAN
    BY <1>3 DEF StartServices
  <2>2. next' = 1 /\ phase' = "registry" /\ UNCHANGED <<inputs, settings, tables, pool, routes>>
    BY <1>3 DEF StartServices
  <2>3. QED
    BY <2>1, <2>2 DEF inputs, tables, pool, TypeOK, Index
<1>4. CASE RegisterSquad
  <2>1. CASE Visit(file.squads)
    <3>1. next \in Index /\ file.squads[next].id \in SquadIds /\ next' \in Nat \ {0}
      BY <1>b, <2>1 DEF Visit, SquadConfig, Index, TypeOK
    <3>2. registry' \in [SquadIds -> Index]
      BY <1>4, <1>b, <2>1, <3>1 DEF RegisterSquad, LoopEnds, Visit, TypeOK
    <3>3. QED
      BY <1>4, <2>1, <3>1, <3>2 DEF RegisterSquad, Visit, inputs, pool, TypeOK, Index
  <2>2. CASE LoopEnds(file.squads, "squads") /\ UNCHANGED registry
    BY <1>4, <2>2 DEF RegisterSquad, LoopEnds, inputs, pool, TypeOK, Index
  <2>3. QED
    BY <1>4, <2>1, <2>2 DEF RegisterSquad
<1>5. CASE AddSquad
  <2>1. CASE Visit(file.squads)
    <3>1. next \in Index /\ file.squads[next].id \in SquadIds /\ next' \in Nat \ {0}
      BY <1>b, <2>1 DEF Visit, SquadConfig, Index, TypeOK
    <3>2. squadMap' \in [SquadIds -> Index]
      BY <1>5, <1>b, <2>1, <3>1 DEF AddSquad, LoopEnds, Visit, TypeOK
    <3>3. QED
      BY <1>5, <2>1, <3>1, <3>2 DEF AddSquad, Visit, inputs, pool, TypeOK, Index
  <2>2. CASE LoopEnds(file.squads, "users") /\ UNCHANGED squadMap
    BY <1>5, <2>2 DEF AddSquad, LoopEnds, inputs, pool, TypeOK, Index
  <2>3. QED
    BY <1>5, <2>1, <2>2 DEF AddSquad
<1>6. CASE AddUser
  <2>1. \A i : SquadOf(i) \in Index
    BY <1>b DEF SquadOf, TypeOK, Index
  <2>2. \A i : SquadOf(i) \in Nat
    BY <1>b, <2>1 DEF Index
  <2>3. CASE Visit(file.users)
    <3> DEFINE u == file.users[next]
               new == [role |-> "configured", squad_id |-> u.squad_id,
                       squad |-> SquadOf(u.squad_id), persona |-> u.persona]
    <3>1. u \in UserConfig /\ next' \in Nat \ {0}
      BY <1>c, <2>3 DEF Visit, TypeOK
    <3>2. new \in Users /\ new.squad \in Index
      BY <2>1, <2>2, <3>1 DEF Users, UserConfig
    <3>3. byKey' = IF u.api_key = NoKey THEN byKey ELSE [byKey EXCEPT ![u.api_key] = new]
      BY <1>6, <1>c, <2>3 DEF AddUser, Visit, LoopEnds, TypeOK
    <3>4. u.api_key \in Keys \cup {NoKey}
      BY <3>1 DEF UserConfig
    <3> HIDE DEF u, new
    <3>5. byKey' \in [Keys -> Users] /\ \A k \in Keys : byKey'[k].squad \in Index
      BY <3>2, <3>3, <3>4 DEF TypeOK
    <3>6. QED
      BY <1>6, <2>3, <3>1, <3>5 DEF AddUser, Visit, inputs, pool, TypeOK, Index
  <2>4. CASE LoopEnds(file.users, "fallback")
    <3>1. LegacyUser \in Users /\ LegacyUser.squad \in Index
      BY <1>b DEF LegacyUser, Users, Index
    <3>2. byKey' = [k \in Keys |-> IF k \in file.api_keys /\ byKey[k] = NoUser
                                   THEN LegacyUser ELSE byKey[k]]
      BY <1>6, <1>c, <2>4 DEF AddUser, Visit, LoopEnds, TypeOK
    <3>3. byKey' \in [Keys -> Users] /\ \A k \in Keys : byKey'[k].squad \in Index
      BY <3>1, <3>2 DEF TypeOK
    <3>4. QED
      BY <1>6, <2>4, <3>3 DEF AddUser, LoopEnds, inputs, pool, TypeOK, Index
  <2>5. QED
    BY <1>6, <2>3, <2>4 DEF AddUser
<1>7. CASE SetFallback
  <2>1. fallback' \in Runners
    BY <1>7 DEF SetFallback, Runners, Agent, NoRunner
  <2>2. QED
    BY <1>7, <2>1 DEF SetFallback, inputs, tables, TypeOK, Index
<1>8. ASSUME NEW n \in todo, Register(n) PROVE TypeOK'
  <2>1. n \in DOMAIN file.personas
    BY DEF TypeOK
  <2>2. PoolKey(n) \in PoolKeys /\ Runner(n) \in Runners
    BY <2>1, PersonaParts
  <2>3. runners' \in [PoolKeys -> Runners]
    BY <1>8, <2>2 DEF Register, TypeOK
  <2>4. QED
    BY <1>8, <2>3 DEF Register, inputs, tables, TypeOK, Index
<1>9. CASE PersonasDone
  BY <1>9 DEF PersonasDone, inputs, tables, pool, TypeOK, Index
<1>10. CASE ServeRoutes
  BY <1>10 DEF ServeRoutes, inputs, tables, pool, TypeOK, Index
<1>11. CASE UNCHANGED vars
  BY <1>11 DEF vars, TypeOK, Index
<1>12. QED
  BY <1>1, <1>2, <1>3, <1>4, <1>5, <1>6, <1>7, <1>8, <1>9, <1>10, <1>11 DEF Next

\* Whatever configuration and environment the server starts with.
THEOREM TypeCorrect == Spec => []TypeOK
<1>1. Init => TypeOK
  BY InitTypeOK
<1>2. TypeOK /\ [Next]_vars => TypeOK'
  BY StepTypeOK
<1>3. QED
  BY <1>1, <1>2, PTL DEF Spec

(***************************************************************************)
(* The two tables of squads.  Each holds the last of the entries that its  *)
(* loop has visited under an id; the registry counts those with a server.  *)
(***************************************************************************)
Early == {"load", "failed", "services"}

\* What the loops have visited: the entries before these.
RegistrySeen == IF phase \in Early \cup {"registry"} THEN next ELSE Len(file.squads) + 1
SquadsSeen == IF phase \in Early \cup {"registry"} THEN 1
              ELSE IF phase = "squads" THEN next ELSE Len(file.squads) + 1

Entries(i, n) == {j \in 1..(n - 1) : file.squads[j].id = i}
Serving(i, n) == {j \in Entries(i, n) : PostgresOn /\ file.squads[j].postgres}

IsLast(x, S) == \/ x = 0 /\ S = {}
                \/ x \in S /\ \A j \in S : j <= x

LoopsInRange ==
  /\ phase \in Early => next = 1
  /\ phase \in {"registry", "squads"} => next <= Len(file.squads) + 1

TablesLast ==
  \A i \in SquadIds : /\ IsLast(registry[i], Serving(i, RegistrySeen))
                      /\ IsLast(squadMap[i], Entries(i, SquadsSeen))

\* Users are added when the table of squads is complete.
UsersSquads ==
  \A k \in Keys : byKey[k].squad # 0 =>
    /\ phase \notin Early \cup {"registry", "squads"}
    /\ byKey[k].squad_id \in SquadIds
    /\ byKey[k].squad = squadMap[byKey[k].squad_id]

SquadInv == LoopsInRange /\ TablesLast /\ UsersSquads

\* Visiting entry n, a table that takes it keeps the last entry of each id.
LEMMA EntriesExtend ==
  ASSUME NEW n \in Nat \ {0}, NEW i, NEW x, IsLast(x, Entries(i, n))
  PROVE  IsLast(IF file.squads[n].id = i THEN n ELSE x, Entries(i, n + 1))
<1>1. Entries(i, n + 1) = IF file.squads[n].id = i THEN Entries(i, n) \cup {n}
                          ELSE Entries(i, n)
  BY DEF Entries
<1>2. \A j \in Entries(i, n) : j \in Int /\ j <= n
  BY DEF Entries
<1>3. CASE file.squads[n].id = i
  BY <1>1, <1>2, <1>3 DEF IsLast
<1>4. CASE file.squads[n].id # i
  BY <1>1, <1>4
<1>5. QED
  BY <1>3, <1>4

LEMMA ServingExtend ==
  ASSUME NEW n \in Nat \ {0}, NEW i, NEW x, IsLast(x, Serving(i, n))
  PROVE  IsLast(IF file.squads[n].id = i /\ PostgresOn /\ file.squads[n].postgres
                THEN n ELSE x, Serving(i, n + 1))
<1> DEFINE serves == file.squads[n].id = i /\ PostgresOn /\ file.squads[n].postgres
<1>1. Serving(i, n + 1) = IF serves THEN Serving(i, n) \cup {n} ELSE Serving(i, n)
  BY DEF Serving, Entries
<1>2. \A j \in Serving(i, n) : j \in Int /\ j <= n
  BY DEF Serving, Entries
<1>3. CASE serves
  BY <1>1, <1>2, <1>3 DEF IsLast
<1>4. CASE ~serves
  BY <1>1, <1>4
<1>5. QED
  BY <1>3, <1>4

LEMMA InitSquadInv == Init => SquadInv
<1> SUFFICES ASSUME Init PROVE SquadInv
  OBVIOUS
<1>1. LoopsInRange
  BY DEF Init, LoopsInRange, Early
<1>2. RegistrySeen = 1 /\ SquadsSeen = 1
  BY DEF Init, RegistrySeen, SquadsSeen, Early
<1>3. \A i : Entries(i, 1) = {} /\ Serving(i, 1) = {}
  BY DEF Entries, Serving
<1>4. TablesLast
  BY <1>2, <1>3 DEF Init, TablesLast, IsLast
<1>5. UsersSquads
  BY DEF Init, UsersSquads, NoUser
<1>6. QED
  BY <1>1, <1>4, <1>5 DEF SquadInv

\* A step that leaves the loops and the tables alone keeps all of it.
LEMMA TablesKept ==
  ASSUME SquadInv,
         UNCHANGED <<file, registry, squadMap, byKey, PostgresOn, RegistrySeen, SquadsSeen>>,
         phase \notin Early \cup {"registry", "squads"}
           => phase' \notin Early \cup {"registry", "squads"}
  PROVE  TablesLast' /\ UsersSquads'
<1>1. \A i, n : Entries(i, n)' = Entries(i, n) /\ Serving(i, n)' = Serving(i, n)
  BY DEF Entries, Serving
<1>2. TablesLast'
  BY <1>1 DEF SquadInv, TablesLast, IsLast
<1>3. UsersSquads'
  BY DEF SquadInv, UsersSquads
<1>4. QED
  BY <1>2, <1>3

LEMMA StepSquadInv == TypeOK /\ SquadInv /\ [Next]_vars => SquadInv'
<1> SUFFICES ASSUME TypeOK, SquadInv, [Next]_vars PROVE SquadInv'
  OBVIOUS
<1>a. file \in Files /\ Len(file.squads) \in Nat /\ next \in Nat \ {0}
  BY FileParts DEF TypeOK
<1>b. \A j \in 1..Len(file.squads) : file.squads[j] \in SquadConfig
  BY <1>a, FileParts
<1>1. CASE Load
  <2>1. LoopsInRange'
    BY <1>1 DEF Load, SquadInv, LoopsInRange, Early, inputs
  <2>2. RegistrySeen = 1 /\ SquadsSeen = 1 /\ RegistrySeen' = 1 /\ SquadsSeen' = 1
    BY <1>1 DEF Load, SquadInv, LoopsInRange, Early, RegistrySeen, SquadsSeen, inputs
  <2>3. \A i : Entries(i, 1) = {} /\ Serving(i, 1) = {} /\ Entries(i, 1)' = {} /\ Serving(i, 1)' = {}
    BY DEF Entries, Serving
  <2>4. TablesLast'
    BY <1>1, <2>2, <2>3 DEF Load, tables, SquadInv, TablesLast, IsLast
  <2>5. UsersSquads'
    BY <1>1 DEF Load, tables, SquadInv, UsersSquads, Early
  <2>6. QED
    BY <2>1, <2>4, <2>5 DEF SquadInv
<1>2. ASSUME UNCHANGED <<file, registry, squadMap, byKey, PostgresOn>>,
             LoopsInRange', UNCHANGED <<RegistrySeen, SquadsSeen>>,
             phase \notin Early \cup {"registry", "squads"}
               => phase' \notin Early \cup {"registry", "squads"}
      PROVE  SquadInv'
  BY <1>2, TablesKept DEF SquadInv
<1>3. CASE LoadFails
  <2>1. UNCHANGED <<file, registry, squadMap, byKey, PostgresOn>>
    BY <1>3 DEF LoadFails, inputs, tables, PostgresOn
  <2>2. LoopsInRange' /\ UNCHANGED <<RegistrySeen, SquadsSeen>>
    BY <1>3 DEF LoadFails, SquadInv, LoopsInRange, Early, RegistrySeen, SquadsSeen, inputs
  <2>3. QED
    BY <1>2, <1>3, <2>1, <2>2 DEF LoadFails, Early
<1>4. CASE StartServices
  <2>1. UNCHANGED <<file, registry, squadMap, byKey, PostgresOn>>
    BY <1>4 DEF StartServices, inputs, tables, PostgresOn
  <2>2. phase = "services" /\ phase' = "registry" /\ next = 1 /\ next' = 1
    BY <1>4 DEF StartServices, SquadInv, LoopsInRange, Early
  <2>3. LoopsInRange'
    BY <1>a, <2>1, <2>2 DEF LoopsInRange, Early
  <2>4. UNCHANGED <<RegistrySeen, SquadsSeen>>
    BY <2>1, <2>2 DEF RegistrySeen, SquadsSeen, Early
  <2>5. QED
    BY <1>2, <2>1, <2>2, <2>3, <2>4 DEF Early
<1>5. CASE RegisterSquad
  <2>1. CASE Visit(file.squads)
    <3> DEFINE e == file.squads[next]
    <3>1. e \in SquadConfig /\ phase = "registry" /\ phase' = phase /\ next' = next + 1
          /\ next <= Len(file.squads) /\ UNCHANGED <<file, squadMap, byKey, settings>>
      BY <1>5, <1>a, <1>b, <2>1 DEF RegisterSquad, Visit, inputs
    <3>2. registry' = IF PostgresOn /\ e.postgres THEN [registry EXCEPT ![e.id] = next]
                      ELSE registry
      BY <1>5, <1>a, <2>1 DEF RegisterSquad, Visit, LoopEnds
    <3>3. RegistrySeen = next /\ RegistrySeen' = next + 1 /\ SquadsSeen = 1 /\ SquadsSeen' = 1
      BY <3>1 DEF RegistrySeen, SquadsSeen, Early
    <3>4. ASSUME NEW i \in SquadIds PROVE IsLast(registry'[i], Serving(i, next + 1))
      <4>1. IsLast(registry[i], Serving(i, next))
        BY <3>3 DEF SquadInv, TablesLast
      <4>2. registry'[i] = IF e.id = i /\ PostgresOn /\ e.postgres THEN next ELSE registry[i]
        BY <3>2 DEF TypeOK
      <4>3. QED
        BY <4>1, <4>2, <1>a, ServingExtend
    <3>5. \A i \in SquadIds : IsLast(squadMap[i], Entries(i, 1))
      BY <3>3 DEF SquadInv, TablesLast
    <3>6. \A i, n : Entries(i, n)' = Entries(i, n) /\ Serving(i, n)' = Serving(i, n)
      BY <3>1 DEF Entries, Serving, PostgresOn
    <3>7. TablesLast'
      BY <3>1, <3>3, <3>4, <3>5, <3>6 DEF TablesLast, IsLast
    <3>8. LoopsInRange' /\ UsersSquads'
      BY <1>a, <3>1 DEF SquadInv, LoopsInRange, UsersSquads, Early
    <3>9. QED
      BY <3>7, <3>8 DEF SquadInv
  <2>2. CASE LoopEnds(file.squads, "squads") /\ UNCHANGED registry
    <3>1. UNCHANGED <<file, registry, squadMap, byKey, PostgresOn>>
      BY <1>5, <2>2 DEF RegisterSquad, inputs, PostgresOn
    <3>2. phase = "registry" /\ next = Len(file.squads) + 1 /\ phase' = "squads" /\ next' = 1
      BY <1>5, <1>a, <2>2 DEF RegisterSquad, LoopEnds, SquadInv, LoopsInRange
    <3>3. LoopsInRange' /\ UNCHANGED <<RegistrySeen, SquadsSeen>>
      BY <1>a, <3>1, <3>2 DEF LoopsInRange, Early, RegistrySeen, SquadsSeen
    <3>4. QED
      BY <1>2, <3>1, <3>2, <3>3 DEF Early
  <2>3. QED
    BY <1>5, <2>1, <2>2 DEF RegisterSquad
<1>6. CASE AddSquad
  <2>1. CASE Visit(file.squads)
    <3> DEFINE e == file.squads[next]
    <3>1. e \in SquadConfig /\ phase = "squads" /\ phase' = phase /\ next' = next + 1
          /\ next <= Len(file.squads) /\ UNCHANGED <<file, registry, byKey, settings>>
      BY <1>6, <1>a, <1>b, <2>1 DEF AddSquad, Visit, inputs
    <3>2. squadMap' = [squadMap EXCEPT ![e.id] = next]
      BY <1>6, <1>a, <2>1 DEF AddSquad, Visit, LoopEnds
    <3>3. RegistrySeen' = RegistrySeen /\ SquadsSeen = next /\ SquadsSeen' = next + 1
      BY <3>1 DEF RegistrySeen, SquadsSeen, Early
    <3>4. ASSUME NEW i \in SquadIds PROVE IsLast(squadMap'[i], Entries(i, next + 1))
      <4>1. IsLast(squadMap[i], Entries(i, next))
        BY <3>3 DEF SquadInv, TablesLast
      <4>2. squadMap'[i] = IF e.id = i THEN next ELSE squadMap[i]
        BY <3>2 DEF TypeOK
      <4>3. QED
        BY <4>1, <4>2, <1>a, EntriesExtend
    <3>5. \A i, n : Entries(i, n)' = Entries(i, n) /\ Serving(i, n)' = Serving(i, n)
      BY <3>1 DEF Entries, Serving, PostgresOn
    <3>6. TablesLast'
      BY <3>1, <3>3, <3>4, <3>5 DEF SquadInv, TablesLast, IsLast
    <3>7. LoopsInRange' /\ UsersSquads'
      BY <1>a, <3>1 DEF SquadInv, LoopsInRange, UsersSquads, Early
    <3>8. QED
      BY <3>6, <3>7 DEF SquadInv
  <2>2. CASE LoopEnds(file.squads, "users") /\ UNCHANGED squadMap
    <3>1. UNCHANGED <<file, registry, squadMap, byKey, PostgresOn>>
      BY <1>6, <2>2 DEF AddSquad, inputs, PostgresOn
    <3>2. phase = "squads" /\ next = Len(file.squads) + 1 /\ phase' = "users" /\ next' = 1
      BY <1>6, <1>a, <2>2 DEF AddSquad, LoopEnds, SquadInv, LoopsInRange
    <3>3. LoopsInRange' /\ UNCHANGED <<RegistrySeen, SquadsSeen>>
      BY <1>a, <3>1, <3>2 DEF LoopsInRange, Early, RegistrySeen, SquadsSeen
    <3>4. QED
      BY <1>2, <3>1, <3>2, <3>3 DEF Early
  <2>3. QED
    BY <1>6, <2>1, <2>2 DEF AddSquad
<1>7. CASE AddUser
  <2>1. phase = "users" /\ phase' \in {"users", "fallback"}
        /\ UNCHANGED <<file, registry, squadMap, settings>>
    BY <1>7 DEF AddUser, Visit, LoopEnds, inputs
  <2>2. LoopsInRange' /\ UNCHANGED <<RegistrySeen, SquadsSeen>>
    BY <2>1 DEF LoopsInRange, Early, RegistrySeen, SquadsSeen
  <2>3. \A i, n : Entries(i, n)' = Entries(i, n) /\ Serving(i, n)' = Serving(i, n)
    BY <2>1 DEF Entries, Serving, PostgresOn
  <2>4. TablesLast'
    BY <2>1, <2>2, <2>3 DEF SquadInv, TablesLast, IsLast
  <2>5. \A k \in Keys :
          \/ byKey'[k] = byKey[k]
          \/ byKey'[k] = LegacyUser
          \/ byKey'[k].squad = SquadOf(byKey'[k].squad_id)
    <3>1. TAKE k \in Keys
    <3>2. CASE Visit(file.users)
      <4> DEFINE u == file.users[next]
                 new == [role |-> "configured", squad_id |-> u.squad_id,
                         squad |-> SquadOf(u.squad_id), persona |-> u.persona]
      <4>1. ~LoopEnds(file.users, "fallback")
        BY <2>1, <3>2 DEF Visit, LoopEnds
      <4>2. byKey' = IF u.api_key = NoKey THEN byKey ELSE [byKey EXCEPT ![u.api_key] = new]
        BY <1>7, <4>1 DEF AddUser
      <4>3. new.squad = SquadOf(new.squad_id)
        OBVIOUS
      <4> HIDE DEF u, new
      <4>4. byKey'[k] \in {byKey[k], new}
        BY <4>2 DEF TypeOK
      <4>5. QED
        BY <4>3, <4>4
    <3>3. CASE LoopEnds(file.users, "fallback")
      <4>1. ~Visit(file.users)
        BY <2>1, <3>3 DEF Visit, LoopEnds
      <4>2. QED
        BY <1>7, <4>1 DEF AddUser
    <3>4. QED
      BY <1>7, <3>2, <3>3 DEF AddUser
  <2>6. UsersSquads'
    <3>1. SUFFICES ASSUME NEW k \in Keys, byKey'[k].squad # 0
                   PROVE  /\ byKey'[k].squad_id \in SquadIds
                          /\ byKey'[k].squad = squadMap[byKey'[k].squad_id]
      BY <2>1 DEF UsersSquads, Early
    <3>2. byKey'[k] # LegacyUser
      <4>1. LegacyUser.squad = 0
        BY DEF LegacyUser
      <4>2. QED
        BY <3>1, <4>1
    <3>3. CASE byKey'[k] = byKey[k]
      BY <3>1, <3>3 DEF SquadInv, UsersSquads
    <3>4. CASE byKey'[k].squad = SquadOf(byKey'[k].squad_id)
      BY <3>1, <3>4 DEF SquadOf
    <3>5. QED
      BY <2>5, <3>2, <3>3, <3>4
  <2>7. QED
    BY <2>2, <2>4, <2>6 DEF SquadInv
<1>8. ASSUME phase \in {"fallback", "personas", "routes"},
             phase' \in {"personas", "routes", "up"},
             UNCHANGED <<file, settings, tables>>
      PROVE  SquadInv'
  <2>1. UNCHANGED <<file, registry, squadMap, byKey, PostgresOn>>
    BY <1>8 DEF tables, PostgresOn
  <2>2. LoopsInRange' /\ UNCHANGED <<RegistrySeen, SquadsSeen>>
    BY <1>8 DEF LoopsInRange, Early, RegistrySeen, SquadsSeen
  <2>3. QED
    BY <1>2, <1>8, <2>1, <2>2 DEF Early
<1>9. CASE SetFallback \/ PersonasDone \/ ServeRoutes \/ \E n \in todo : Register(n)
  BY <1>8, <1>9 DEF SetFallback, PersonasDone, ServeRoutes, Register, inputs
<1>10. CASE UNCHANGED vars
  BY <1>10 DEF vars, SquadInv, LoopsInRange, TablesLast, UsersSquads, IsLast, RegistrySeen,
               SquadsSeen, Entries, Serving, PostgresOn
<1>11. QED
  BY <1>1, <1>3, <1>4, <1>5, <1>6, <1>7, <1>9, <1>10 DEF Next

\* The database list of a user and the server it is asked on are of one entry, or
\* there is no server, for every list of squads; but for an entry without a server
\* that takes the place of one that has.
THEOREM SquadsAlwaysAgree == Spec => []SquadsAgreeUnlessOverwritten
<1>1. Init => TypeOK /\ SquadInv
  BY InitTypeOK, InitSquadInv
<1>2. (TypeOK /\ SquadInv) /\ [Next]_vars => (TypeOK /\ SquadInv)'
  BY StepTypeOK, StepSquadInv
<1>3. TypeOK /\ SquadInv => SquadsAgreeUnlessOverwritten
  <2> DEFINE serves(e) == PostgresOn /\ file.squads[e].postgres
  <2> SUFFICES ASSUME TypeOK, SquadInv, NEW k \in Keys,
                      byKey[k].squad # 0, ~Overwrites(byKey[k].squad)
               PROVE  registry[byKey[k].squad_id] =
                        IF serves(byKey[k].squad) THEN byKey[k].squad ELSE 0
    BY DEF SquadsAgreeUnlessOverwritten
  <2> DEFINE i == byKey[k].squad_id
             n == Len(file.squads) + 1
  <2>1. i \in SquadIds /\ byKey[k].squad = squadMap[i] /\ RegistrySeen = n /\ SquadsSeen = n
    BY DEF SquadInv, UsersSquads, RegistrySeen, SquadsSeen
  <2>2. IsLast(registry[i], Serving(i, n)) /\ IsLast(squadMap[i], Entries(i, n))
    BY <2>1 DEF SquadInv, TablesLast
  <2>3. squadMap[i] \in Entries(i, n) /\ \A j \in Entries(i, n) : j <= squadMap[i]
    BY <2>1, <2>2 DEF IsLast
  <2>4. CASE serves(byKey[k].squad)
    <3>1. squadMap[i] \in Serving(i, n)
      BY <2>1, <2>3, <2>4 DEF Serving
    <3>2. /\ registry[i] \in Serving(i, n)
          /\ squadMap[i] <= registry[i] /\ registry[i] <= squadMap[i]
      BY <2>2, <2>3, <3>1 DEF IsLast, Serving
    <3>3. QED
      BY <2>1, <2>4, <3>2 DEF TypeOK, Index, Serving, Entries
  \* Any other entry that serves would be an earlier one.
  <2>5. CASE ~serves(byKey[k].squad)
    <3>1. ASSUME NEW j \in Serving(i, n) PROVE FALSE
      <4>1. /\ j \in 1..(n - 1) /\ squadMap[i] \in 1..(n - 1)
            /\ file.squads[j].id = i /\ file.squads[squadMap[i]].id = i
            /\ PostgresOn /\ file.squads[j].postgres /\ j <= squadMap[i]
        BY <2>3, <3>1 DEF Serving, Entries
      <4>2. ~file.squads[squadMap[i]].postgres /\ j # squadMap[i]
        BY <2>1, <2>5, <4>1
      <4>3. n \in Nat
        BY DEF TypeOK, Index
      <4>4. j \in 1..(squadMap[i] - 1)
        BY <4>1, <4>2, <4>3
      <4>5. Overwrites(squadMap[i])
        BY <4>1, <4>2, <4>4 DEF Overwrites
      <4>6. QED
        BY <2>1, <4>5
    <3>2. registry[i] = 0
      BY <2>2, <3>1 DEF IsLast
    <3>3. QED
      BY <2>5, <3>2
  <2>6. QED
    BY <2>4, <2>5
<1>4. QED
  BY <1>1, <1>2, <1>3, PTL DEF Spec

(***************************************************************************)
(* The pool.                                                               *)
(***************************************************************************)
\* A registered runner is that of a persona with its key; a visited persona
\* with a key for its provider has one registered.
PoolInv ==
  /\ phase \notin {"personas", "routes", "up"} => \A k \in PoolKeys : runners[k] = NoRunner
  /\ phase \in {"routes", "up"} => todo = {}
  /\ \A k \in PoolKeys : runners[k] # NoRunner =>
       \E m \in DOMAIN file.personas :
         PoolKey(m) = k /\ HasKey(Persona(m).provider) /\ runners[k] = Runner(m)
  /\ \A n \in DOMAIN file.personas :
       phase \in {"personas", "routes", "up"} /\ n \notin todo /\ HasKey(Persona(n).provider)
         => runners[PoolKey(n)] # NoRunner

LEMMA InitPoolInv == Init => PoolInv
<1> SUFFICES ASSUME Init PROVE PoolInv
  OBVIOUS
<1>1. \A k \in PoolKeys : runners[k] = NoRunner
  BY DEF Init
<1>2. phase = "load"
  BY DEF Init
<1>3. QED
  BY <1>1, <1>2 DEF PoolInv

LEMMA StepPoolInv == TypeOK /\ PoolInv /\ [Next]_vars => PoolInv'
<1> SUFFICES ASSUME TypeOK, PoolInv, [Next]_vars PROVE PoolInv'
  OBVIOUS
<1>1. ASSUME phase \notin {"personas", "routes", "up"},
             phase' \notin {"personas", "routes", "up"}, UNCHANGED runners
      PROVE  PoolInv'
  BY <1>1 DEF PoolInv
<1>2. CASE Load \/ LoadFails \/ StartServices \/ RegisterSquad \/ AddSquad \/ AddUser
  BY <1>1, <1>2 DEF Load, LoadFails, StartServices, RegisterSquad, AddSquad, AddUser,
                    Visit, LoopEnds, pool
<1>3. CASE SetFallback
  <2>1. phase = "fallback" /\ phase' = "personas" /\ todo' = DOMAIN file'.personas
        /\ runners' = runners
    BY <1>3 DEF SetFallback, inputs
  <2>2. QED
    BY <2>1 DEF PoolInv
<1>4. ASSUME NEW n \in todo, Register(n) PROVE PoolInv'
  <2>1. n \in DOMAIN file.personas /\ PoolKey(n) \in PoolKeys /\ Runner(n) # NoRunner
    BY PersonaParts DEF TypeOK
  <2>2. phase = "personas" /\ phase' = "personas" /\ todo' = todo \ {n}
        /\ UNCHANGED <<file, settings>>
    BY <1>4 DEF Register, inputs
  <2>3. \A m : UNCHANGED <<PoolKey(m), Runner(m), HasKey(Persona(m).provider)>>
    BY <2>2 DEF PoolKey, Runner, HasKey, Persona
  <2>4. runners' = IF HasKey(Persona(n).provider)
                   THEN [runners EXCEPT ![PoolKey(n)] = Runner(n)] ELSE runners
    BY <1>4 DEF Register
  <2>5. \A k \in PoolKeys : runners'[k] # NoRunner =>
          \E m \in DOMAIN file.personas :
            PoolKey(m) = k /\ HasKey(Persona(m).provider) /\ runners'[k] = Runner(m)
    BY <2>1, <2>4 DEF PoolInv, TypeOK
  <2>6. \A m \in DOMAIN file.personas :
          m \notin todo' /\ HasKey(Persona(m).provider) => runners'[PoolKey(m)] # NoRunner
    <3>1. TAKE m \in DOMAIN file.personas
    <3>2. HAVE m \notin todo' /\ HasKey(Persona(m).provider)
    <3>3. PoolKey(m) \in PoolKeys
      BY PersonaParts
    <3>4. CASE m = n
      BY <2>1, <2>4, <3>2, <3>4 DEF TypeOK
    <3>5. CASE m # n
      <4>1. runners[PoolKey(m)] # NoRunner
        BY <2>2, <3>2, <3>5 DEF PoolInv
      <4>2. QED
        BY <2>1, <2>4, <3>3, <4>1 DEF TypeOK
    <3>6. QED
      BY <3>4, <3>5
  <2>7. QED
    BY <2>2, <2>3, <2>5, <2>6 DEF PoolInv
<1>5. CASE PersonasDone \/ ServeRoutes \/ UNCHANGED vars
  <2>1. UNCHANGED <<file, settings, runners, todo>>
    BY <1>5 DEF PersonasDone, ServeRoutes, vars, pool, inputs
  <2>2. \A m : UNCHANGED <<PoolKey(m), Runner(m), HasKey(Persona(m).provider)>>
    BY <2>1 DEF PoolKey, Runner, HasKey, Persona
  <2>3. \/ phase = "personas" /\ phase' = "routes" /\ todo = {}
        \/ phase = "routes" /\ phase' = "up"
        \/ phase' = phase
    BY <1>5 DEF PersonasDone, ServeRoutes, vars
  <2>4. QED
    BY <2>1, <2>2, <2>3 DEF PoolInv
<1>6. QED
  BY <1>2, <1>3, <1>4, <1>5 DEF Next

\* In every order of the personas.
THEOREM PersonasAlwaysServed == Spec => []PersonaServedUnlessShared
<1>1. Init => TypeOK /\ PoolInv
  BY InitTypeOK, InitPoolInv
<1>2. (TypeOK /\ PoolInv) /\ [Next]_vars => (TypeOK /\ PoolInv)'
  BY StepTypeOK, StepPoolInv
<1>3. TypeOK /\ PoolInv => PersonaServedUnlessShared
  <2> SUFFICES ASSUME TypeOK, PoolInv, phase \in {"routes", "up"},
                      NEW n \in DOMAIN file.personas
               PROVE  IF HasKey(Persona(n).provider)
                      THEN /\ Get(PoolKey(n)).agent = Agent(Persona(n).provider)
                           /\ Get(PoolKey(n)).model = Persona(n).model
                           /\ Sharing(n) = {} =>
                                Get(PoolKey(n)).url = Persona(n).base_url
                      ELSE Get(PoolKey(n)) = fallback
    BY DEF PersonaServedUnlessShared
  <2>1. PoolKey(n) \in PoolKeys
    BY PersonaParts
  \* Who has n's key of the pool has its provider and model, and shares with n or
  \* has its URL.
  <2>2. \A m \in DOMAIN file.personas : PoolKey(m) = PoolKey(n) =>
          /\ Persona(m).provider = Persona(n).provider
          /\ Persona(m).model = Persona(n).model
          /\ m \in Sharing(n) \/ Persona(m).base_url = Persona(n).base_url
    BY DEF PoolKey, Sharing
  <2>3. CASE HasKey(Persona(n).provider)
    <3>1. runners[PoolKey(n)] # NoRunner
      BY <2>3 DEF PoolInv
    <3>2. PICK m \in DOMAIN file.personas :
            PoolKey(m) = PoolKey(n) /\ runners[PoolKey(n)] = Runner(m)
      BY <2>1, <3>1 DEF PoolInv
    <3>3. Get(PoolKey(n)) = Runner(m)
      BY <3>1, <3>2 DEF Get
    <3>4. QED
      BY <2>2, <2>3, <3>2, <3>3 DEF Runner
  <2>4. CASE ~HasKey(Persona(n).provider)
    <3>1. runners[PoolKey(n)] = NoRunner
      BY <2>1, <2>2, <2>4 DEF PoolInv
    <3>2. QED
      BY <2>4, <3>1 DEF Get
  <2>5. QED
    BY <2>3, <2>4
<1>4. QED
  BY <1>1, <1>2, <1>3, PTL DEF Spec

=============================================================================
