-------------------------- MODULE RequestGateProofs --------------------------
(***************************************************************************)
(* Proofs about RequestGate for any number of requests, users and          *)
(* personas, and every capacity of their slices.                           *)
(***************************************************************************)
EXTENDS RequestGate, TLAPS

Gated == {"arrived", "known", "permitted", "routed"}
Ended == {"unauthorized", "forbidden", "badRequest", "unavailable", "panicked",
          "returned"}
Appending == {"appended", "writing"}
Served == {"handling", "offered", "filtering"} \cup Appending

\* A request's slice: untouched before its handler is called, then as long as
\* what has been appended to it.
SliceOf(r) ==
  /\ len[r] <= Capacity[Persona(r)]
  /\ pc[r] \in Gated => len[r] = 0
  /\ pc[r] \in Gated \cup {"handling", "writing"} => ~moved[r]
  /\ pc[r] \in Gated \cup {"handling"} \cup Appending => read[r] = 0
  /\ pc[r] \in Gated \cup {"handling"} \cup Appending /\ ~moved[r] =>
       own[r] = {}
  /\ pc[r] = "handling" => len[r] = Size[Persona(r)]
  /\ pc[r] \in Appending => dry[r] /\ dataset[r]
  /\ pc[r] \in Appending \cup {"filtering"} => Handler(r) \in SQLSources
  /\ pc[r] = "appended" /\ ~moved[r] => len[r] = Size[Persona(r)] + 1
  /\ pc[r] = "writing" =>
       /\ len[r] \in (Size[Persona(r)] + 1) .. (Size[Persona(r)] + 3)
       /\ Size[Persona(r)] + 4 <= Capacity[Persona(r)]
  /\ pc[r] = "filtering" => read[r] <= len[r]
  /\ pc[r] = "filtering" /\ ~dry[r] => ~moved[r] /\ len[r] = Size[Persona(r)]
  /\ pc[r] = "filtering" /\ dry[r] /\ ~moved[r] =>
       len[r] = Size[Persona(r)] + IF dataset[r] THEN 4 ELSE 1

\* Who may be where, and which sources.
AllowedOf(r) ==
  /\ pc[r] \in {"permitted", "routed"} \cup Served => Permitted(r)
  /\ pc[r] \in {"routed"} \cup Served => Allows(Persona(r), source[r])

\* The configured names stay where they are.
ConfiguredKept == \A p \in Personas : \A i \in 1..Size[p] : cells[p][i] = Excluded[p][i]

\* The cells of a slice hold names.
NamedOf(r) == ~moved[r] => \A i \in 1..len[r] : cells[Persona(r)][i] \in Tools

\* With one database, or no room, a slice keeps what was appended to it.
KeptOf(r) ==
  pc[r] \in Appending \cup {"filtering"} /\ ~moved[r] /\ ~Mixed(Persona(r)) =>
    \A i \in 1..4 : Size[Persona(r)] + i <= len[r] =>
      cells[Persona(r)][Size[Persona(r)] + i] = DryName(r, i)

\* What a request knows of its slice.
KnownOf(r) ==
  /\ pc[r] \in {"appended", "filtering"} /\ moved[r] =>
       ExcludedOf(Persona(r)) \subseteq own[r]
  /\ pc[r] = "appended" /\ moved[r] => DryName(r, 1) \in own[r]
  /\ pc[r] = "filtering" /\ moved[r] /\ ~Mixed(Persona(r)) =>
       Hidden(r) \subseteq own[r]
  /\ pc[r] = "filtering" /\ ~moved[r] =>
       \A i \in 1..read[r] : i <= Size[Persona(r)] =>
         Excluded[Persona(r)][i] \in own[r]
  /\ pc[r] = "filtering" /\ ~moved[r] /\ ~Mixed(Persona(r)) =>
       \A i \in 1..4 : Size[Persona(r)] + i <= read[r] => DryName(r, i) \in own[r]
  /\ pc[r] = "filtering" /\ ~dry[r] => own[r] \subseteq ExcludedOf(Persona(r))

\* What it has been offered.
OfferedOf(r) ==
  pc[r] = "offered" /\ Handler(r) \in SQLSources =>
    /\ offered[r] \subseteq ToolsOf(Handler(r)) \ ExcludedOf(Persona(r))
    /\ ~dry[r] => offered[r] = ToolsOf(Handler(r)) \ ExcludedOf(Persona(r))
    /\ dry[r] /\ ~Mixed(Persona(r)) => offered[r] \cap Hidden(r) = {}

SliceOK == \A r \in Requests : SliceOf(r)
AllowedOK == \A r \in Requests : AllowedOf(r)
CellsOK == ConfiguredKept /\ \A r \in Requests : NamedOf(r) /\ KeptOf(r)
KnownOK == \A r \in Requests : KnownOf(r) /\ OfferedOf(r)

GateInv == TypeOK /\ SliceOK /\ AllowedOK /\ CellsOK /\ KnownOK

-----------------------------------------------------------------------------
\* The router chooses among the sources.
LEMMA RouteAsked ==
  \A bq, pg, es \in 0..1 : Route(bq, pg, es) \in Asked
BY DEF Route, Asked, Sources

\* Names that dry runs append are names of tools.
LEMMA DryNames ==
  ASSUME NEW r \in Requests, source[r] \in Asked
  PROVE  /\ Handler(r) \in Sources
         /\ \A i \in 1..4 : DryName(r, i) \in Tools
<1>1. Handler(r) \in Sources
  BY DEF Handler, HandlerOf, Sources
<1>2. \A i \in 1..4 : DryKinds[i] \in Kinds
  BY DEF DryKinds, Kinds
<1>3. QED
  BY <1>1, <1>2 DEF DryName, Tools

\* They are what is hidden from a dry run.
LEMMA HiddenNames ==
  ASSUME NEW r \in Requests
  PROVE  Hidden(r) = {DryName(r, 1)} \cup
           IF dataset[r] THEN {DryName(r, 2), DryName(r, 3), DryName(r, 4)} ELSE {}
BY DEF Hidden, HiddenKinds, DryName, DryKinds

LEMMA InspectionNames ==
  ASSUME NEW r \in Requests
  PROVE  Inspection(r) = {DryName(r, 2), DryName(r, 3), DryName(r, 4)}
<1>1. 2..4 = {2, 3, 4}
  OBVIOUS
<1>2. QED
  BY <1>1 DEF Inspection

\* A persona is one of those configured, before and after a step.
LEMMA PersonaTyped ==
  ASSUME TypeOK, NEW r \in Requests
  PROVE  Persona(r) \in Personas
BY GateAssumption DEF TypeOK, Persona

\* Requests of a persona that is not mixed, and has room, are of one database.
LEMMA OneDatabase ==
  ASSUME TypeOK, AllowedOK, NEW q \in Requests, NEW r \in Requests,
         pc[q] \in Served, pc[r] \in Served,
         Handler(q) \in SQLSources, Handler(r) \in SQLSources,
         Persona(q) = Persona(r), ~Mixed(Persona(r)),
         Capacity[Persona(r)] > Size[Persona(r)]
  PROVE  Handler(q) = Handler(r)
<1>1. Serves(Persona(r), Handler(q)) /\ Serves(Persona(r), Handler(r))
  BY DEF TypeOK, AllowedOK, AllowedOf, Serves, Handler
<1>2. QED
  BY <1>1 DEF Mixed, SQLSources

-----------------------------------------------------------------------------
\* The steps that leave a request's slice alone, and end it or let it come as
\* far as its handler.
Quiet(q) ==
  \/ \E k \in Keys \cup {NoKey} : Authenticate(q, k)
  \/ \E s \in Asked : Choose(q, s)
  \/ RequireRole(q) \/ Malformed(q) \/ Unavailable(q)
  \/ PanicWithoutRunner(q) \/ ReturnEarly(q)

Slicing(q) ==
  \/ Dispatch(q) \/ OfferElasticsearch(q) \/ KeepTools(q) \/ AppendExecute(q)
  \/ MoveInspection(q) \/ AppendInspection(q) \/ WriteNext(q) \/ ReadName(q)
  \/ Offer(q)

LEMMA StepCases ==
  ASSUME NEW q \in Requests, Step(q)
  PROVE  Quiet(q) \/ Slicing(q)
BY RouteAsked DEF Step, Quiet, Slicing

LEMMA QuietStep ==
  ASSUME TypeOK, NEW q \in Requests, Quiet(q)
  PROVE  /\ pc[q] \in Gated \cup {"handling"}
         /\ pc'[q] \in Gated \cup Ended
         /\ pc'[q] \in Gated => pc[q] \in Gated
         /\ pc[q] = "handling" => key' = key /\ source' = source
         /\ UNCHANGED <<cells, len, moved, own, read, offered, dry, dataset>>
BY DEF TypeOK, Quiet, Gated, Ended, Authenticate, Choose, RequireRole, Malformed,
   Unavailable, PanicWithoutRunner, ReturnEarly, Go, slices, asked

\* From its handler on, a request keeps its user and its handler.
LEMMA SlicingStep ==
  ASSUME TypeOK, NEW q \in Requests, Slicing(q)
  PROVE  /\ UNCHANGED <<key, source>>
         /\ pc[q] \in {"routed"} \cup Served
         /\ pc'[q] \in Served
BY DEF TypeOK, Slicing, Served, Appending, Dispatch, OfferElasticsearch,
   KeepTools, AppendExecute, MoveInspection, AppendInspection, WriteNext,
   ReadName, Offer, Goes, Go, asked

\* Steps of others change nothing of a request but the cells.
LEMMA Others ==
  ASSUME TypeOK, NEW q \in Requests, Step(q), NEW r \in Requests, r # q
  PROVE  UNCHANGED <<pc[r], key[r], source[r], dry[r], dataset[r], len[r],
                     moved[r], own[r], read[r], offered[r]>>
<1> USE DEF TypeOK
<1>1. CASE Quiet(q)
  BY <1>1 DEF Quiet, Authenticate, Choose, RequireRole, Malformed, Unavailable,
     PanicWithoutRunner, ReturnEarly, Go, slices, asked
<1>2. CASE Slicing(q)
  BY <1>2 DEF Slicing, Dispatch, OfferElasticsearch, KeepTools, AppendExecute,
     MoveInspection, AppendInspection, WriteNext, ReadName, Offer, Write, Move,
     Go, slices, asked
<1>3. QED
  BY <1>1, <1>2, StepCases

\* Only a dry run writes, right behind its own slice.
Writes(q) ==
  /\ pc[q] \in {"handling", "writing"} /\ Handler(q) \in SQLSources
  /\ ~moved[q] /\ len[q] + 1 <= Capacity[Persona(q)]
  /\ len[q] + 1 - Size[Persona(q)] \in 1..4
  /\ cells' = [cells EXCEPT ![Persona(q)][len[q] + 1] = NextName(q)]
  /\ len' = [len EXCEPT ![q] = @ + 1]
  /\ moved' = moved

LEMMA WriteStep ==
  ASSUME TypeOK, SliceOK, NEW q \in Requests, Step(q)
  PROVE  /\ Writes(q) \/ (cells' = cells /\ (len' = len \/ Dispatch(q)))
         /\ ~moved'[q] => ~moved[q]
<1>0. SliceOf(q) /\ Persona(q) \in Personas
  BY PersonaTyped DEF SliceOK
<1>t. /\ len[q] \in Nat /\ len \in [Requests -> Nat] /\ moved \in [Requests -> BOOLEAN]
      /\ Size[Persona(q)] \in Nat /\ Capacity[Persona(q)] \in Nat
  BY <1>0, GateAssumption DEF TypeOK
<1>h. Handler(q) \in SQLSources \cup {"elasticsearch"}
  BY DEF Handler, HandlerOf, SQLSources
<1>1. CASE Quiet(q)
  BY <1>1, QuietStep
<1>2. CASE AppendExecute(q)
  <2>1. /\ pc[q] = "handling" /\ Handler(q) \in SQLSources
        /\ ~moved[q] /\ len[q] = Size[Persona(q)]
    BY <1>0, <1>h, <1>2 DEF AppendExecute, Goes, SliceOf
  <2>2. CASE Fits(q, 1)
    BY <1>2, <1>t, <2>1, <2>2 DEF AppendExecute, Write, NextCell, Fits, Writes
  <2>3. CASE ~Fits(q, 1)
    BY <1>2, <2>1, <2>3 DEF AppendExecute, Move
  <2>4. QED
    BY <2>2, <2>3
<1>3. CASE WriteNext(q)
  <2>1. pc[q] = "writing" /\ Write(q)
    BY <1>3 DEF WriteNext
  <2>2. /\ Handler(q) \in SQLSources /\ ~moved[q]
        /\ len[q] \in (Size[Persona(q)] + 1) .. (Size[Persona(q)] + 3)
        /\ Size[Persona(q)] + 4 <= Capacity[Persona(q)]
    BY <1>0, <2>1 DEF SliceOf, Appending
  <2>3. len[q] + 1 <= Capacity[Persona(q)] /\ len[q] + 1 - Size[Persona(q)] \in 1..4
    BY <1>t, <2>2
  <2>4. QED
    BY <2>1, <2>2, <2>3 DEF Write, NextCell, Writes
<1>4. CASE Slicing(q) /\ ~AppendExecute(q) /\ ~WriteNext(q)
  BY <1>t, <1>4 DEF Slicing, Dispatch, OfferElasticsearch, KeepTools, MoveInspection,
     AppendInspection, ReadName, Offer, Move, slices
<1>5. QED
  BY <1>1, <1>2, <1>3, <1>4, StepCases

-----------------------------------------------------------------------------
\* The initial state satisfies the invariant.
LEMMA GateInit == Init => GateInv
<1> SUFFICES ASSUME Init PROVE GateInv
  OBVIOUS
<1> USE GateAssumption DEF Init
<1>1. TypeOK
  BY DEF TypeOK, Asked, Sources, Tools, Kinds
<1>2. SliceOK
  BY <1>1, PersonaTyped DEF SliceOK, SliceOf, Gated, Appending
<1>3. AllowedOK /\ KnownOK
  BY DEF AllowedOK, AllowedOf, Served, KnownOK, KnownOf, OfferedOf, Appending
<1>4. CellsOK
  BY DEF CellsOK, ConfiguredKept, NamedOf, KeptOf, Appending
<1>5. QED
  BY <1>1, <1>2, <1>3, <1>4 DEF GateInv

\* What an append does to the types, in place or not.
LEMMA NextNameTool ==
  ASSUME NEW q \in Requests, source[q] \in Asked,
         len[q] + 1 - Size[Persona(q)] \in 1..4
  PROVE  NextName(q) \in Tools
BY DryNames DEF NextName

LEMMA WriteTypes ==
  ASSUME TypeOK, NEW q \in Requests, Write(q), NextName(q) \in Tools
  PROVE  /\ DOMAIN cells' = Personas
         /\ \A p \in Personas : cells'[p] \in [1..Capacity[p] -> Tools \cup {Blank}]
         /\ len' \in [Requests -> Nat]
         /\ UNCHANGED <<moved, own, read>>
<1>1. DOMAIN cells = Personas /\ len \in [Requests -> Nat]
      /\ \A p \in Personas : cells[p] \in [1..Capacity[p] -> Tools \cup {Blank}]
  BY DEF TypeOK
<1>2. /\ cells' = [cells EXCEPT ![Persona(q)][NextCell(q)] = NextName(q)]
      /\ len' = [len EXCEPT ![q] = @ + 1]
      /\ UNCHANGED <<moved, own, read>>
  BY DEF Write
<1>3. len[q] + 1 \in Nat
  BY <1>1
<1>4. len' \in [Requests -> Nat]
  BY <1>1, <1>2, <1>3
<1>5. QED
  BY <1>1, <1>2, <1>4

LEMMA NamesTools ==
  ASSUME TypeOK, CellsOK, NEW q \in Requests
  PROVE  Names(q) \subseteq Tools
<1>1. own[q] \subseteq Tools
  BY DEF TypeOK
<1>2. QED
  BY <1>1 DEF Names, CellsOK, NamedOf

LEMMA MoveTypes ==
  ASSUME TypeOK, CellsOK, NEW q \in Requests, NEW names \in SUBSET Tools,
         Move(q, names)
  PROVE  /\ own' \in [Requests -> SUBSET Tools] /\ moved' \in [Requests -> BOOLEAN]
         /\ UNCHANGED <<cells, len, read>>
BY NamesTools DEF Move, TypeOK

\* Every step keeps the types.
LEMMA GateTypeStep ==
  TypeOK /\ SliceOK /\ CellsOK /\ [Next]_vars => TypeOK'
<1> SUFFICES ASSUME TypeOK, SliceOK, CellsOK, [Next]_vars PROVE TypeOK'
  OBVIOUS
<1> USE GateAssumption, PersonaTyped DEF TypeOK
<1>1. ASSUME NEW q \in Requests, NEW k \in Keys \cup {NoKey}, Authenticate(q, k)
  PROVE TypeOK'
  BY <1>1 DEF Authenticate, Go, config, asked, slices
<1>2. ASSUME NEW q \in Requests, RequireRole(q)
  PROVE TypeOK'
  BY <1>2 DEF RequireRole, Go, config, asked, slices
<1>3. ASSUME NEW q \in Requests, Malformed(q)
  PROVE TypeOK'
  BY <1>3 DEF Malformed, Go, config, asked, slices
<1>4. ASSUME NEW q \in Requests, NEW s \in Asked, Choose(q, s)
  PROVE TypeOK'
  BY <1>4 DEF Choose, Go, config, asked, slices
<1>5. ASSUME NEW q \in Requests, Unavailable(q)
  PROVE TypeOK'
  BY <1>5 DEF Unavailable, Go, config, asked, slices
<1>6. ASSUME NEW q \in Requests, PanicWithoutRunner(q)
  PROVE TypeOK'
  BY <1>6 DEF PanicWithoutRunner, Go, config, asked, slices
<1>7. ASSUME NEW q \in Requests, Dispatch(q)
  PROVE TypeOK'
  BY <1>7 DEF Dispatch, SliceLen, Go, config, asked, slices
<1>8. ASSUME NEW q \in Requests, ReturnEarly(q)
  PROVE TypeOK'
  BY <1>8 DEF ReturnEarly, Go, config, asked, slices
<1>9. ASSUME NEW q \in Requests, OfferElasticsearch(q)
  PROVE TypeOK'
  <2>1. ToolsOf(Handler(q)) \subseteq Tools
    BY DryNames DEF ToolsOf, Tools, Kinds
  <2>2. QED
    BY <1>9, <2>1 DEF OfferElasticsearch, Goes, Go, config, asked, slices
<1>10. ASSUME NEW q \in Requests, KeepTools(q)
  PROVE TypeOK'
  BY <1>10 DEF KeepTools, Goes, Go, config, asked, slices
<1>11. ASSUME NEW q \in Requests, AppendExecute(q)
  PROVE TypeOK'
  <2>1. source[q] \in Asked /\ UNCHANGED <<config, asked, offered>>
    BY <1>11 DEF AppendExecute
  <2>2. pc' \in [Requests -> {"arrived",
            "known", "permitted", "routed", "handling", "appended", "writing",
            "filtering", "offered", "unauthorized", "forbidden", "badRequest",
            "unavailable", "panicked", "returned"}]
    BY <1>11 DEF AppendExecute, Go
  <2>3. CASE Fits(q, 1)
    <3>1. pc[q] = "handling" /\ Write(q)
      BY <1>11, <2>3 DEF AppendExecute, Goes
    <3>2. len[q] + 1 - Size[Persona(q)] \in 1..4
      <4> HIDE DEF TypeOK
      <4>1. Size[Persona(q)] \in Nat /\ len[q] = Size[Persona(q)]
        BY <3>1 DEF SliceOK, SliceOf
      <4>2. QED
        BY <4>1
    <3>3. QED
      BY <2>1, <2>2, <3>1, <3>2, NextNameTool, WriteTypes DEF config, asked
  <2>4. CASE ~Fits(q, 1)
    <3>1. DryName(q, 1) \in Tools /\ Move(q, {DryName(q, 1)})
      BY <1>11, <2>1, <2>4, DryNames DEF AppendExecute
    <3>2. QED
      BY <2>1, <2>2, <3>1, MoveTypes DEF config, asked
  <2>5. QED
    BY <2>3, <2>4
<1>12. ASSUME NEW q \in Requests, MoveInspection(q)
  PROVE TypeOK'
  <2>1. Inspection(q) \in SUBSET Tools
    BY DryNames DEF Inspection
  <2>2. UNCHANGED <<config, asked, offered>> /\ Move(q, Inspection(q))
    BY <1>12 DEF MoveInspection
  <2>3. pc' \in [Requests -> {"arrived",
            "known", "permitted", "routed", "handling", "appended", "writing",
            "filtering", "offered", "unauthorized", "forbidden", "badRequest",
            "unavailable", "panicked", "returned"}]
    BY <1>12 DEF MoveInspection, Go
  <2>4. QED
    BY <2>1, <2>2, <2>3, MoveTypes DEF config, asked
<1>13. ASSUME NEW q \in Requests, AppendInspection(q)
  PROVE TypeOK'
  BY <1>13 DEF AppendInspection, Fits, Go, config, asked, slices
<1>14. ASSUME NEW q \in Requests, WriteNext(q)
  PROVE TypeOK'
  <2>1. source[q] \in Asked /\ UNCHANGED <<config, asked, offered>>
    BY <1>14 DEF WriteNext
  <2>2. pc' \in [Requests -> {"arrived",
            "known", "permitted", "routed", "handling", "appended", "writing",
            "filtering", "offered", "unauthorized", "forbidden", "badRequest",
            "unavailable", "panicked", "returned"}]
    BY <1>14 DEF WriteNext, Go
  <2>3. pc[q] = "writing" /\ Write(q)
    BY <1>14 DEF WriteNext
  <2>4. len[q] + 1 - Size[Persona(q)] \in 1..4
    <3> HIDE DEF TypeOK
    <3>1. /\ Size[Persona(q)] \in Nat
          /\ len[q] \in (Size[Persona(q)] + 1) .. (Size[Persona(q)] + 3)
      BY <2>3 DEF SliceOK, SliceOf
    <3>2. QED
      BY <3>1
  <2>5. QED
    BY <2>1, <2>2, <2>3, <2>4, NextNameTool, WriteTypes DEF config, asked
<1>15. ASSUME NEW q \in Requests, ReadName(q)
  PROVE TypeOK'
  <2>1. /\ ~moved[q] /\ read[q] \in Nat /\ len[q] \in Nat /\ read[q] < len[q]
        /\ own' = [own EXCEPT ![q] = @ \cup {cells[Persona(q)][read[q] + 1]}]
        /\ read' = [read EXCEPT ![q] = @ + 1]
        /\ UNCHANGED <<config, pc, asked, cells, len, moved, offered>>
    BY <1>15 DEF ReadName
  <2>2. cells[Persona(q)][read[q] + 1] \in Tools
    <3> HIDE DEF TypeOK
    <3>1. read[q] + 1 \in 1..len[q]
      BY <2>1
    <3>2. QED
      BY <2>1, <3>1 DEF CellsOK, NamedOf
  <2>3. own' \in [Requests -> SUBSET Tools] /\ read' \in [Requests -> Nat]
    BY <2>1, <2>2
  <2>4. QED
    BY <2>1, <2>3 DEF config, asked
<1>16. ASSUME NEW q \in Requests, Offer(q)
  PROVE TypeOK'
  <2>1. ToolsOf(Handler(q)) \subseteq Tools
    BY DryNames DEF ToolsOf, Tools, Kinds
  <2>2. QED
    BY <1>16, <2>1 DEF Offer, Go, config, asked, slices
<1>17. CASE UNCHANGED vars
  BY <1>17 DEF vars, config, asked, slices
<1>18. QED
  BY <1>1, <1>2, <1>3, <1>4, <1>5, <1>6, <1>7, <1>8, <1>9, <1>10, <1>11, <1>12, <1>13, <1>14, <1>15, <1>16, <1>17, RouteAsked DEF Next, Step

\* Every step leaves the slices as long as they should be.
LEMMA SliceStep ==
  ASSUME TypeOK, TypeOK', SliceOK, NEW q \in Requests, Step(q)
  PROVE  SliceOK'
<1> SUFFICES ASSUME NEW r \in Requests PROVE SliceOf(r)'
  BY DEF SliceOK
<1> USE GateAssumption
<1>0. SliceOf(r) /\ SliceOf(q) /\ Persona(r) \in Personas /\ Persona(q) \in Personas
  BY PersonaTyped DEF SliceOK
<1>1. CASE r # q
  BY <1>0, <1>1, Others DEF SliceOf, Persona, Handler
<1>2. CASE r = q /\ Quiet(q)
  <2>1. Persona(q)' \in Personas
    BY DEF TypeOK, Persona
  <2>2. QED
    <3>1. /\ pc'[q] \notin {"handling", "filtering"} \cup Appending
          /\ pc'[q] \in Gated => pc[q] \in Gated
          /\ UNCHANGED <<len, moved, own, read, dry, dataset>>
      BY <1>2, QuietStep DEF Gated, Ended, Appending
    <3>2. pc[q] \in Gated \/ Persona(q)' = Persona(q)
      BY <1>2, QuietStep DEF Persona
    <3>3. len[q] <= Capacity[Persona(q)']
      BY <1>0, <2>1, <3>2 DEF SliceOf
    <3>4. QED
      BY <1>0, <1>2, <3>1, <3>3 DEF SliceOf, Appending
<1>3. CASE r = q /\ Slicing(q)
  <2>1. Persona(q)' = Persona(q) /\ Handler(q)' = Handler(q)
    BY <1>3, SlicingStep DEF Persona, Handler
  <2>2. Handler(q) \in SQLSources \cup {"elasticsearch"}
    BY DEF Handler, HandlerOf, SQLSources
  <2> USE <1>0, <1>3, <2>1, <2>2 DEF TypeOK, SliceOf, Gated, Appending, Go, slices, asked
  <2>3. CASE Dispatch(q)
    BY <2>3 DEF Dispatch, SliceLen
  <2>4. CASE OfferElasticsearch(q)
    BY <2>4 DEF OfferElasticsearch, Goes
  <2>5. CASE KeepTools(q)
    BY <2>5 DEF KeepTools, Goes
  <2>6. CASE AppendExecute(q)
    BY <2>6 DEF AppendExecute, Goes, Fits, Write, Move
  <2>7. CASE MoveInspection(q)
    BY <2>7 DEF MoveInspection, Move
  <2>8. CASE AppendInspection(q)
    BY <2>8 DEF AppendInspection, Fits
  <2>9. CASE WriteNext(q)
    BY <2>9 DEF WriteNext, Write
  <2>10. CASE ReadName(q)
    BY <2>10 DEF ReadName
  <2>11. CASE Offer(q)
    BY <2>11 DEF Offer
  <2>12. QED
    BY <2>3, <2>4, <2>5, <2>6, <2>7, <2>8, <2>9, <2>10, <2>11 DEF Slicing
<1>4. QED
  BY <1>1, <1>2, <1>3, StepCases

\* Every step keeps out who may not come in.
LEMMA AllowedStep ==
  ASSUME TypeOK, AllowedOK, NEW q \in Requests, Step(q)
  PROVE  AllowedOK'
<1> SUFFICES ASSUME NEW r \in Requests PROVE AllowedOf(r)'
  BY DEF AllowedOK
<1>0. AllowedOf(r) /\ AllowedOf(q)
  BY DEF AllowedOK
<1>1. CASE r # q
  BY <1>0, <1>1, Others DEF AllowedOf, Persona, Permitted, Allows
<1>2. CASE r = q /\ Quiet(q)
  <2> USE <1>0, <1>2 DEF TypeOK, Served, Appending, Go, asked
  <2>1. CASE \E k \in Keys \cup {NoKey} : Authenticate(q, k)
    BY <2>1 DEF AllowedOf, Authenticate
  <2>2. CASE RequireRole(q)
    BY <2>2 DEF AllowedOf, RequireRole, Permitted
  <2>3. CASE \E s \in Asked : Choose(q, s)
    <3>1. PICK s \in Asked : Choose(q, s)
      BY <2>3
    <3>2. /\ pc[q] = "permitted" /\ key' = key /\ source'[q] = s
          /\ pc'[q] = "forbidden" \/ (pc'[q] = "routed" /\ Allows(Persona(q), s))
      BY <3>1 DEF Choose
    <3>3. Permitted(q)' /\ Persona(q)' = Persona(q)
      BY <3>2 DEF AllowedOf, Permitted, Persona
    <3>4. QED
      BY <3>2, <3>3 DEF AllowedOf, Allows
  <2>4. CASE Malformed(q) \/ Unavailable(q) \/ PanicWithoutRunner(q) \/ ReturnEarly(q)
    BY <2>4 DEF AllowedOf, Malformed, Unavailable, PanicWithoutRunner, ReturnEarly
  <2>5. QED
    BY <2>1, <2>2, <2>3, <2>4 DEF Quiet
<1>3. CASE r = q /\ Slicing(q)
  BY <1>0, <1>3, SlicingStep DEF AllowedOf, Persona, Permitted, Allows
<1>4. QED
  BY <1>1, <1>2, <1>3, StepCases

\* Every step leaves names where they are, but for those appended by requests
\* of mixed personas.
LEMMA CellsStep ==
  ASSUME TypeOK, TypeOK', SliceOK, SliceOK', AllowedOK, CellsOK,
         NEW q \in Requests, Step(q)
  PROVE  CellsOK'
<1> USE GateAssumption
<1>0. SliceOf(q) /\ Persona(q) \in Personas
  BY PersonaTyped DEF SliceOK
<1>n. Writes(q) => NextName(q) \in Tools
  BY DryNames DEF TypeOK, Writes, NextName
<1>c. \A p \in Personas : \A i \in 1..Capacity[p] :
        \/ cells'[p][i] = cells[p][i]
        \/ /\ Writes(q) /\ p = Persona(q) /\ i = len[q] + 1
           /\ cells'[p][i] = NextName(q)
  <2>1. CASE Writes(q)
    BY <1>0, <2>1 DEF TypeOK, Writes
  <2>2. CASE cells' = cells
    BY <2>2
  <2>3. QED
    BY <2>1, <2>2, WriteStep
<1>1. ConfiguredKept'
  <2> SUFFICES ASSUME NEW p \in Personas, NEW i \in 1..Size[p]
               PROVE  cells'[p][i] = Excluded[p][i]
    BY DEF ConfiguredKept
  <2>1. Size[p] \in Nat /\ Capacity[p] \in Nat /\ Size[p] <= Capacity[p] /\ len[q] \in Nat
    BY DEF TypeOK
  <2>2. i \in 1..Capacity[p] /\ ~(Writes(q) /\ p = Persona(q) /\ i = len[q] + 1)
    BY <1>0, <2>1 DEF Writes
  <2>3. QED
    BY <2>2, <1>c DEF CellsOK, ConfiguredKept
<1>2. ASSUME NEW r \in Requests, r # q
  PROVE  NamedOf(r)' /\ KeptOf(r)'
  <2>0. SliceOf(r) /\ Persona(r) \in Personas /\ NamedOf(r) /\ KeptOf(r)
    BY PersonaTyped DEF SliceOK, CellsOK
  <2>1. Persona(r)' = Persona(r) /\ Handler(r)' = Handler(r) /\ len'[r] = len[r]
        /\ moved'[r] = moved[r] /\ pc'[r] = pc[r]
    BY <1>2, Others DEF Persona, Handler
  <2>2. NamedOf(r)'
    <3> SUFFICES ASSUME ~moved[r], NEW i \in 1..len[r]
                 PROVE  cells'[Persona(r)][i] \in Tools
      BY <2>1 DEF NamedOf
    <3>1. i \in 1..Capacity[Persona(r)]
      BY <2>0 DEF SliceOf, TypeOK
    <3>2. QED
      BY <1>c, <1>n, <2>0, <3>1 DEF NamedOf
  <2>3. KeptOf(r)'
    <3> SUFFICES ASSUME pc[r] \in Appending \cup {"filtering"}, ~moved[r],
                        ~Mixed(Persona(r)), NEW i \in 1..4,
                        Size[Persona(r)] + i <= len[r]
                 PROVE  cells'[Persona(r)][Size[Persona(r)] + i] = DryName(r, i)
      BY <2>1 DEF KeptOf, DryName, Mixed, Serves, Allows
    <3> DEFINE n == Size[Persona(r)] + i
    <3>a. /\ len[r] <= Capacity[Persona(r)] /\ len[r] \in Nat
          /\ Capacity[Persona(r)] \in Nat /\ Size[Persona(r)] \in Nat
      BY <2>0 DEF SliceOf, TypeOK
    <3>1. n \in 1..Capacity[Persona(r)] /\ Capacity[Persona(r)] > Size[Persona(r)]
      BY <3>a
    <3>2. cells[Persona(r)][n] = DryName(r, i)
      BY <2>0 DEF KeptOf
    <3>3. CASE Writes(q) /\ Persona(q) = Persona(r) /\ n = len[q] + 1
      <4>1. Handler(q) = Handler(r)
        <5>1. Handler(q) \in SQLSources /\ pc[q] \in Served
          BY <3>3 DEF Writes, Served, Appending
        <5>2. Handler(r) \in SQLSources /\ pc[r] \in Served
          BY <2>0 DEF Served, Appending, SliceOf
        <5>3. QED
          BY <3>1, <3>3, <5>1, <5>2, OneDatabase
      <4>2. len[q] + 1 - Size[Persona(q)] = i
        <5>1. len[q] \in Nat
          BY DEF TypeOK
        <5>2. QED
          BY <3>a, <3>3, <5>1
      <4>3. NextName(q) = DryName(r, i)
        BY <4>1, <4>2 DEF NextName, DryName
      <4>4. QED
        BY <1>c, <2>0, <3>1, <3>2, <3>3, <4>3
    <3>4. CASE ~(Writes(q) /\ Persona(q) = Persona(r) /\ n = len[q] + 1)
      BY <1>c, <2>0, <3>1, <3>2, <3>4
    <3>5. QED
      BY <3>3, <3>4
  <2>4. QED
    BY <2>2, <2>3
<1>3. NamedOf(q)' /\ KeptOf(q)'
  <2>0. NamedOf(q) /\ KeptOf(q)
    BY DEF CellsOK
  <2>1. CASE Quiet(q)
    BY <1>0, <2>0, <2>1, QuietStep DEF NamedOf, KeptOf, Persona, Gated, Ended,
       Appending, SliceOf
  <2>2. CASE Slicing(q)
    <3>1. Persona(q)' = Persona(q) /\ Handler(q)' = Handler(q)
      BY <2>2, SlicingStep DEF Persona, Handler
    <3>2. CASE Writes(q)
      <4>1. /\ len'[q] = len[q] + 1 /\ ~moved'[q] /\ len[q] \in Nat
            /\ len[q] + 1 \in 1..Capacity[Persona(q)]
            /\ cells'[Persona(q)][len[q] + 1] = NextName(q)
            /\ \A i \in 1..len[q] : cells'[Persona(q)][i] = cells[Persona(q)][i]
        BY <1>0, <3>2 DEF Writes, TypeOK
      <4>2. NamedOf(q)'
        BY <1>n, <2>0, <3>1, <3>2, <4>1 DEF NamedOf, Writes
      <4>3. KeptOf(q)'
        <5> SUFFICES ASSUME ~Mixed(Persona(q)), NEW i \in 1..4,
                            Size[Persona(q)] + i <= len[q] + 1
                     PROVE  cells'[Persona(q)][Size[Persona(q)] + i] = DryName(q, i)
          BY <3>1, <4>1 DEF KeptOf, DryName, Mixed, Serves, Allows
        <5>1. CASE Size[Persona(q)] + i = len[q] + 1
          BY <1>0, <4>1, <5>1 DEF NextName
        <5>2. CASE Size[Persona(q)] + i <= len[q]
          <6>1. pc[q] = "writing" /\ ~moved[q]
            BY <1>0, <3>2, <5>2 DEF Writes, SliceOf
          <6>2. cells[Persona(q)][Size[Persona(q)] + i] = DryName(q, i)
            BY <2>0, <5>2, <6>1 DEF KeptOf, Appending
          <6>3. QED
            BY <1>0, <4>1, <5>2, <6>2
        <5>3. QED
          BY <1>0, <4>1, <5>1, <5>2
      <4>4. QED
        BY <4>2, <4>3
    <3>3. CASE ~Writes(q)
      <4>1. cells' = cells /\ (len' = len \/ Dispatch(q)) /\ (~moved'[q] => ~moved[q])
        BY <3>3, WriteStep
      <4>2. CASE Dispatch(q)
        <5>1. len'[q] = Size[Persona(q)] /\ pc'[q] = "handling"
          BY <4>2 DEF Dispatch, SliceLen, Go, TypeOK
        <5>2. NamedOf(q)'
          BY <1>0, <3>1, <4>1, <5>1 DEF NamedOf, CellsOK, ConfiguredKept
        <5>3. QED
          BY <5>1, <5>2 DEF KeptOf, Appending
      <4>3. CASE len' = len
        <5>1. NamedOf(q)'
          BY <2>0, <3>1, <4>1, <4>3 DEF NamedOf
        <5>2. CASE pc[q] \in Appending \cup {"filtering"}
          BY <2>0, <3>1, <4>1, <4>3, <5>1, <5>2 DEF KeptOf, DryName, Mixed, Serves, Allows
        <5>3. CASE pc[q] = "handling"
          <6>1. len'[q] = Size[Persona(q)] /\ Size[Persona(q)] \in Nat
            BY <1>0, <4>3, <5>3 DEF SliceOf
          <6>2. QED
            BY <3>1, <5>1, <6>1 DEF KeptOf
        <5>4. CASE pc[q] \in {"routed", "offered"} /\ ~Dispatch(q)
          BY <2>2, <5>4 DEF Slicing, OfferElasticsearch, KeepTools, AppendExecute,
             MoveInspection, AppendInspection, WriteNext, ReadName, Offer, Goes
        <5>5. QED
          BY <2>2, <4>2, <5>1, <5>2, <5>3, <5>4, SlicingStep DEF Served
      <4>4. QED
        BY <4>1, <4>2, <4>3
    <3>4. QED
      BY <3>2, <3>3
  <2>3. QED
    BY <2>1, <2>2, StepCases
<1>4. QED
  BY <1>1, <1>2, <1>3 DEF CellsOK

\* Every step keeps what a request knows of its slice, and offers it what it should.
LEMMA KnownStep ==
  ASSUME TypeOK, SliceOK, CellsOK, KnownOK, NEW q \in Requests, Step(q)
  PROVE  KnownOK'
<1> SUFFICES ASSUME NEW r \in Requests PROVE KnownOf(r)' /\ OfferedOf(r)'
  BY DEF KnownOK
<1>1. CASE r # q
  <2>1. /\ KnownOf(r) /\ OfferedOf(r)
        /\ Persona(r)' = Persona(r) /\ Handler(r)' = Handler(r)
        /\ UNCHANGED <<pc[r], dry[r], dataset[r], moved[r], own[r], read[r], offered[r]>>
    BY <1>1, Others DEF KnownOK, Persona, Handler
  <2>2. QED
    BY <2>1 DEF KnownOf, OfferedOf, Hidden, HiddenKinds, DryName, Mixed, Serves, Allows,
       ExcludedOf, ToolsOf
<1>2. CASE r = q /\ Quiet(q)
  BY <1>2, QuietStep DEF KnownOf, OfferedOf, Gated, Ended
<1>3. CASE r = q /\ Slicing(q)
  <2> SUFFICES KnownOf(q)' /\ OfferedOf(q)'
    BY <1>3
  <2> DEFINE p == Persona(q)
             h == Handler(q)
  <2>1. /\ Persona(q)' = p /\ Handler(q)' = h /\ p \in Personas
        /\ \A i : DryName(q, i)' = DryName(q, i)
    BY <1>3, SlicingStep, PersonaTyped DEF Persona, Handler, DryName
  <2>2. SliceOf(q) /\ KnownOf(q) /\ KeptOf(q) /\ ConfiguredKept
    BY DEF SliceOK, KnownOK, CellsOK
  <2>3. /\ Size[p] \in Nat /\ len[q] \in Nat /\ read[q] \in Nat
        /\ ExcludedOf(p) = {cells[p][i] : i \in 1..Size[p]}
    <3>1. Size[p] \in Nat /\ len[q] \in Nat /\ read[q] \in Nat
      BY GateAssumption, <2>1 DEF TypeOK
    <3>2. ExcludedOf(p) = {cells[p][i] : i \in 1..Size[p]}
      BY <2>1, <2>2 DEF ConfiguredKept, ExcludedOf
    <3>3. QED
      BY <3>1, <3>2
  <2> HIDE DEF p, h
  <2>4. CASE Dispatch(q) \/ AppendInspection(q)
    <3>1. pc'[q] \in {"handling", "writing"}
      BY <2>4 DEF Dispatch, AppendInspection, Go, TypeOK
    <3>2. QED
      BY <3>1 DEF KnownOf, OfferedOf
  <2>5. CASE OfferElasticsearch(q)
    <3>1. pc'[q] = "offered" /\ Handler(q) \notin SQLSources
      BY <2>5 DEF OfferElasticsearch, Go, TypeOK, SQLSources
    <3>2. QED
      BY <2>1, <3>1 DEF KnownOf, OfferedOf, h
  <2>6. CASE KeepTools(q)
    <3>1. /\ pc[q] = "handling" /\ pc'[q] = "filtering" /\ ~dry'[q]
          /\ UNCHANGED <<moved[q], own[q], read[q]>>
      BY <2>6 DEF KeepTools, Goes, Go, TypeOK, slices, asked
    <3>2. ~moved'[q] /\ own'[q] = {} /\ read'[q] = 0
      BY <2>2, <3>1 DEF SliceOf
    <3>3. QED
      BY <2>1, <2>3, <3>1, <3>2 DEF KnownOf, OfferedOf
  <2>7. CASE AppendExecute(q)
    <3>1. /\ pc[q] = "handling" /\ UNCHANGED <<dry[q], dataset[q]>> /\ dry[q]
          /\ IF dataset[q] THEN pc'[q] = "appended" ELSE pc'[q] = "filtering"
      BY <2>7 DEF AppendExecute, Goes, Go, TypeOK, asked
    <3>2. ~moved[q] /\ own[q] = {} /\ read[q] = 0 /\ len[q] = Size[p]
      BY <2>2, <3>1 DEF SliceOf, p
    <3>3. CASE Fits(q, 1)
      <4>1. ~moved'[q] /\ own'[q] = {} /\ read'[q] = 0
        BY <2>7, <3>2, <3>3 DEF AppendExecute, Write
      <4>2. QED
        BY <2>1, <2>3, <3>1, <4>1 DEF KnownOf, OfferedOf
    <3>4. CASE ~Fits(q, 1)
      <4>1. Names(q) = ExcludedOf(p)
        BY <2>3, <3>2 DEF Names, p
      <4>2. moved'[q] /\ own'[q] = ExcludedOf(p) \cup {DryName(q, 1)}
        BY <2>7, <3>4, <4>1 DEF AppendExecute, Move, TypeOK
      <4>3. ~dataset[q] => Hidden(q)' = {DryName(q, 1)}
        BY <2>1, <3>1 DEF Hidden, HiddenKinds, DryName, DryKinds, h
      <4>4. QED
        BY <2>1, <3>1, <4>2, <4>3 DEF KnownOf, OfferedOf
    <3>5. QED
      BY <3>3, <3>4
  <2>8. CASE MoveInspection(q)
    <3>1. /\ pc[q] = "appended" /\ pc'[q] = "filtering" /\ dry[q] /\ dataset[q]
          /\ UNCHANGED <<dry[q], dataset[q]>>
      BY <2>2, <2>8 DEF MoveInspection, Go, TypeOK, asked, SliceOf, Appending
    <3>2. moved'[q] /\ own'[q] = Names(q) \cup Inspection(q)
      BY <2>8 DEF MoveInspection, Move, TypeOK
    <3>3. ExcludedOf(p) \subseteq Names(q)
      <4>1. CASE moved[q]
        BY <2>2, <3>1, <4>1 DEF Names, KnownOf, p
      <4>2. CASE ~moved[q]
        <5>1. len[q] = Size[p] + 1
          BY <2>2, <3>1, <4>2 DEF SliceOf, p
        <5>2. QED
          BY <2>3, <4>2, <5>1 DEF Names, p
      <4>3. QED
        BY <4>1, <4>2
    <3>4. ~Mixed(p) => DryName(q, 1) \in Names(q)
      <4>1. CASE moved[q]
        BY <2>2, <3>1, <4>1 DEF Names, KnownOf
      <4>2. CASE ~moved[q] /\ ~Mixed(p)
        <5>1. len[q] = Size[p] + 1
          BY <2>2, <3>1, <4>2 DEF SliceOf, p
        <5>2. cells[p][Size[p] + 1] = DryName(q, 1)
          BY <2>2, <2>3, <3>1, <4>2, <5>1 DEF KeptOf, Appending, p
        <5>3. QED
          BY <2>3, <4>2, <5>1, <5>2 DEF Names, p
      <4>3. QED
        BY <4>1, <4>2
    <3>5. Hidden(q)' = {DryName(q, 1)} \cup Inspection(q)
      <4>1. Hidden(q)' = Hidden(q)
        BY <2>1, <3>1 DEF Hidden, HiddenKinds, h
      <4>2. QED
        BY <3>1, <4>1, HiddenNames, InspectionNames
    <3>6. QED
      BY <2>1, <3>1, <3>2, <3>3, <3>4, <3>5 DEF KnownOf, OfferedOf
  <2>9. CASE WriteNext(q)
    <3>1. /\ pc[q] = "writing" /\ pc'[q] \in {"writing", "filtering"}
          /\ UNCHANGED <<dry[q], moved[q], own[q], read[q]>>
      BY <2>9 DEF WriteNext, Write, Go, TypeOK, asked
    <3>2. ~moved'[q] /\ own'[q] = {} /\ read'[q] = 0
      BY <2>2, <3>1 DEF SliceOf, Appending
    <3>3. QED
      BY <2>1, <2>3, <3>1, <3>2 DEF KnownOf, OfferedOf
  <2>10. CASE ReadName(q)
    <3>1. /\ pc[q] = "filtering" /\ ~moved[q] /\ read[q] < len[q]
          /\ UNCHANGED <<pc, moved, dry>> /\ read'[q] = read[q] + 1
          /\ own'[q] = own[q] \cup {cells[p][read[q] + 1]}
      BY <2>10 DEF ReadName, TypeOK, asked, p
    <3>2. \A i \in 1..read[q] + 1 : i <= Size[p] => Excluded[p][i] \in own'[q]
      BY <2>1, <2>2, <2>3, <3>1 DEF KnownOf, ConfiguredKept, p
    <3>3. ~Mixed(p) =>
            \A i \in 1..4 : Size[p] + i <= read[q] + 1 => DryName(q, i) \in own'[q]
      <4> SUFFICES ASSUME ~Mixed(p), NEW i \in 1..4, Size[p] + i <= read[q] + 1
                   PROVE  DryName(q, i) \in own'[q]
        OBVIOUS
      <4>1. CASE Size[p] + i <= read[q]
        BY <2>2, <3>1, <4>1 DEF KnownOf, p
      <4>2. CASE Size[p] + i = read[q] + 1
        <5>1. cells[p][Size[p] + i] = DryName(q, i)
          BY <2>2, <2>3, <3>1, <4>2 DEF KeptOf, p
        <5>2. QED
          BY <3>1, <4>2, <5>1
      <4>3. QED
        BY <2>3, <4>1, <4>2
    <3>4. ~dry[q] => own'[q] \subseteq ExcludedOf(p)
      <4> SUFFICES ASSUME ~dry[q] PROVE own'[q] \subseteq ExcludedOf(p)
        OBVIOUS
      <4>1. len[q] = Size[p] /\ own[q] \subseteq ExcludedOf(p)
        BY <2>2, <3>1 DEF SliceOf, KnownOf, p
      <4>2. cells[p][read[q] + 1] \in ExcludedOf(p)
        BY <2>3, <3>1, <4>1
      <4>3. QED
        BY <3>1, <4>1, <4>2
    <3>5. QED
      BY <2>1, <3>1, <3>2, <3>3, <3>4 DEF KnownOf, OfferedOf
  <2>11. CASE Offer(q)
    <3>1. /\ pc[q] = "filtering" /\ pc'[q] = "offered"
          /\ moved[q] \/ read[q] = len[q]
          /\ UNCHANGED <<dry[q], dataset[q]>>
          /\ offered'[q] = ToolsOf(h) \ own[q]
      BY <2>11 DEF Offer, Go, TypeOK, asked, h
    <3>2. ExcludedOf(p) \subseteq own[q]
      <4>1. CASE moved[q]
        BY <2>2, <3>1, <4>1 DEF KnownOf, p
      <4>2. CASE ~moved[q]
        <5>1. read[q] >= Size[p]
          BY <2>2, <2>3, <3>1, <4>2 DEF SliceOf, p
        <5>2. \A i \in 1..Size[p] : Excluded[p][i] \in own[q]
          BY <2>2, <2>3, <3>1, <4>2, <5>1 DEF KnownOf, p
        <5>3. QED
          BY <5>2 DEF ExcludedOf
      <4>3. QED
        BY <4>1, <4>2
    <3>3. ~dry[q] => own[q] \subseteq ExcludedOf(p)
      BY <2>2, <3>1 DEF KnownOf, p
    <3>4. dry[q] /\ ~Mixed(p) => Hidden(q) \subseteq own[q]
      <4>1. CASE moved[q]
        BY <2>2, <3>1, <4>1 DEF KnownOf, p
      <4>2. CASE ~moved[q] /\ dry[q] /\ ~Mixed(p)
        <5>1. read[q] = Size[p] + IF dataset[q] THEN 4 ELSE 1
          BY <2>2, <3>1, <4>2 DEF SliceOf, p
        <5>2. \A i \in 1..IF dataset[q] THEN 4 ELSE 1 : DryName(q, i) \in own[q]
          BY <2>2, <2>3, <3>1, <4>2, <5>1 DEF KnownOf, p
        <5>3. QED
          BY <5>2, HiddenNames
      <4>3. QED
        BY <4>1, <4>2
    <3>5. Hidden(q)' = Hidden(q)
      BY <2>1, <3>1 DEF Hidden, HiddenKinds, h
    <3>6. OfferedOf(q)'
      BY <2>1, <3>1, <3>2, <3>3, <3>4, <3>5 DEF OfferedOf
    <3>7. QED
      BY <3>1, <3>6 DEF KnownOf
  <2>12. QED
    BY <1>3, <2>4, <2>5, <2>6, <2>7, <2>8, <2>9, <2>10, <2>11 DEF Slicing
<1>4. QED
  BY <1>1, <1>2, <1>3, StepCases

\* GateInv is an invariant.
LEMMA GateInvariant == Spec => []GateInv
<1>1. ASSUME GateInv, NEW q \in Requests, Step(q)
      PROVE  GateInv'
  <2>1. TypeOK'
    BY <1>1, GateTypeStep DEF GateInv, Next
  <2>2. SliceOK'
    BY <1>1, <2>1, SliceStep DEF GateInv
  <2>3. AllowedOK' /\ CellsOK' /\ KnownOK'
    BY <1>1, <2>1, <2>2, AllowedStep, CellsStep, KnownStep DEF GateInv
  <2>4. QED
    BY <2>1, <2>2, <2>3 DEF GateInv
<1>2. ASSUME GateInv, UNCHANGED vars
      PROVE  GateInv'
  <2> USE <1>2 DEF GateInv, vars, config, asked, slices
  <2>1. TypeOK'
    BY DEF TypeOK
  <2>2. \A r \in Requests : /\ Persona(r)' = Persona(r) /\ Handler(r)' = Handler(r)
                            /\ Permitted(r)' = Permitted(r) /\ Hidden(r)' = Hidden(r)
                            /\ \A i : DryName(r, i)' = DryName(r, i)
    BY DEF Persona, Handler, Permitted, Hidden, HiddenKinds, DryName
  <2>3. SliceOK' /\ AllowedOK'
    BY <2>2 DEF SliceOK, SliceOf, AllowedOK, AllowedOf, Allows
  <2>4. CellsOK'
    BY <2>2 DEF CellsOK, ConfiguredKept, NamedOf, KeptOf, Mixed, Serves, Allows
  <2>5. KnownOK'
    BY <2>2 DEF KnownOK, KnownOf, OfferedOf, Mixed, Serves, Allows, ToolsOf, ExcludedOf
  <2>6. QED
    BY <2>1, <2>3, <2>4, <2>5
<1>3. GateInv /\ [Next]_vars => GateInv'
  BY <1>1, <1>2 DEF Next
<1>4. QED
  BY GateInit, <1>3, PTL DEF Spec

-----------------------------------------------------------------------------
\* Behind the configured names there is nothing, or a name a dry run of either
\* database has written, each kind in its own place.
BehindOK ==
  \A p \in Personas : \A i \in 1..4 : Size[p] + i <= Capacity[p] =>
    cells[p][Size[p] + i] \in {Blank} \cup (SQLSources \X {DryKinds[i]})

\* What a request may find in its slice besides the configured names.
Surplus(r) == IF dry[r] THEN SQLSources \X HiddenKinds(r) ELSE {}

\* It finds no more, and is offered all the rest.
SurplusOf(r) ==
  /\ pc[r] \in {"appended", "filtering"} =>
       own[r] \subseteq ExcludedOf(Persona(r)) \cup Surplus(r)
  /\ pc[r] = "offered" /\ Handler(r) \in SQLSources =>
       ToolsOf(Handler(r)) \ (ExcludedOf(Persona(r)) \cup Surplus(r)) \subseteq offered[r]

SurplusOK == BehindOK /\ \A r \in Requests : SurplusOf(r)

\* A cell that holds a name holds a tool.
LEMMA BlankIsNoTool == Blank \notin Tools
BY DEF Blank, Tools, Sources, Kinds

\* The kinds a dry run hides are those it appends, as far as it appends.
LEMMA HiddenKindsAppended ==
  ASSUME NEW r \in Requests, NEW i \in 1..4, dataset[r] \/ i = 1
  PROVE  DryKinds[i] \in HiddenKinds(r)
BY DEF DryKinds, HiddenKinds

\* An append puts the name of a kind into the place of that kind.
LEMMA BehindStep ==
  ASSUME TypeOK, SliceOK, BehindOK, NEW q \in Requests, Step(q)
  PROVE  BehindOK'
<1> SUFFICES ASSUME NEW p \in Personas, NEW i \in 1..4, Size[p] + i <= Capacity[p]
             PROVE  cells'[p][Size[p] + i] \in {Blank} \cup (SQLSources \X {DryKinds[i]})
  BY DEF BehindOK
<1>1. /\ cells[p][Size[p] + i] \in {Blank} \cup (SQLSources \X {DryKinds[i]})
      /\ Size[p] \in Nat /\ Size[p] + i \in 1..Capacity[p]
  BY GateAssumption DEF BehindOK
<1>2. CASE Writes(q) /\ p = Persona(q) /\ Size[p] + i = len[q] + 1
  <2>1. len[q] \in Nat /\ DOMAIN cells = Personas
        /\ cells[p] \in [1..Capacity[p] -> Tools \cup {Blank}]
    BY DEF TypeOK
  <2>2. cells'[p][Size[p] + i] = NextName(q) /\ Handler(q) \in SQLSources
    BY <1>1, <1>2, <2>1 DEF Writes
  <2>3. len[q] + 1 - Size[Persona(q)] = i
    BY <1>1, <1>2, <2>1
  <2>4. NextName(q) = <<Handler(q), DryKinds[i]>>
    BY <2>3 DEF NextName, DryName
  <2>5. QED
    BY <2>2, <2>4
<1>3. CASE ~(Writes(q) /\ p = Persona(q) /\ Size[p] + i = len[q] + 1)
  <2>1. cells'[p][Size[p] + i] = cells[p][Size[p] + i]
    <3>1. cells' = cells \/ Writes(q)
      BY WriteStep
    <3>2. CASE Writes(q)
      <4>1. cells' = [cells EXCEPT ![Persona(q)][len[q] + 1] = NextName(q)]
        BY <3>2 DEF Writes
      <4>2. cells[p] \in [1..Capacity[p] -> Tools \cup {Blank}] /\ DOMAIN cells = Personas
        BY DEF TypeOK
      <4>3. p # Persona(q) \/ Size[p] + i # len[q] + 1
        BY <1>3, <3>2
      <4>4. QED
        BY <1>1, <4>1, <4>2, <4>3
    <3>3. QED
      BY <3>1, <3>2
  <2>2. QED
    BY <1>1, <2>1
<1>4. QED
  BY <1>2, <1>3

\* What a request finds in its slice is configured, or hidden by dry runs.
LEMMA FoundNames ==
  ASSUME GateInv, BehindOK, NEW q \in Requests, ~moved[q], dry[q],
         NEW n \in 1..len[q],
         n <= Size[Persona(q)] + IF dataset[q] THEN 4 ELSE 1
  PROVE  cells[Persona(q)][n] \in ExcludedOf(Persona(q)) \cup Surplus(q)
<1> DEFINE p == Persona(q)
<1>1. p \in Personas /\ len[q] \in Nat /\ Size[p] \in Nat /\ Capacity[p] \in Nat
      /\ len[q] <= Capacity[p]
  BY PersonaTyped, GateAssumption DEF GateInv, TypeOK, SliceOK, SliceOf
<1>2. cells[p][n] \in Tools
  BY DEF GateInv, CellsOK, NamedOf
<1>3. CASE n <= Size[p]
  BY <1>1, <1>3 DEF GateInv, CellsOK, ConfiguredKept, ExcludedOf
<1>4. CASE n > Size[p]
  <2>1. PICK i \in 1..4 : n = Size[p] + i /\ (dataset[q] \/ i = 1)
    <3>1. n - Size[p] \in 1..4 /\ (dataset[q] \/ n - Size[p] = 1)
      BY <1>1, <1>4
    <3>2. n = Size[p] + (n - Size[p])
      BY <1>1
    <3>3. QED
      BY <3>1, <3>2
  <2>2. cells[p][n] \in SQLSources \X {DryKinds[i]}
    BY <1>1, <1>2, <2>1, BlankIsNoTool DEF BehindOK
  <2>3. DryKinds[i] \in HiddenKinds(q)
    BY <2>1, HiddenKindsAppended
  <2>4. QED
    BY <2>2, <2>3 DEF Surplus
<1>5. QED
  BY <1>1, <1>3, <1>4

\* Every step keeps it so.
LEMMA SurplusStep ==
  ASSUME GateInv, SurplusOK, NEW q \in Requests, Step(q)
  PROVE  SurplusOK'
<1>0. TypeOK /\ SliceOK /\ BehindOK
  BY DEF GateInv, SurplusOK
<1>1. BehindOK'
  BY <1>0, BehindStep
<1> SUFFICES ASSUME NEW r \in Requests PROVE SurplusOf(r)'
  BY <1>1 DEF SurplusOK
<1>2. SurplusOf(r)
  BY DEF SurplusOK
<1>3. CASE r # q
  <2>1. /\ Persona(r)' = Persona(r) /\ Handler(r)' = Handler(r)
        /\ UNCHANGED <<pc[r], dry[r], dataset[r], own[r], offered[r]>>
    BY <1>0, <1>3, Others DEF Persona, Handler
  <2>2. QED
    BY <1>2, <2>1 DEF SurplusOf, Surplus, HiddenKinds, ExcludedOf, ToolsOf
<1>4. CASE r = q /\ Quiet(q)
  BY <1>0, <1>4, QuietStep DEF SurplusOf, Gated, Ended
<1>5. CASE r = q /\ Slicing(q)
  <2> SUFFICES SurplusOf(q)'
    BY <1>5
  <2>1. /\ Persona(q)' = Persona(q) /\ Handler(q)' = Handler(q)
        /\ Persona(q) \in Personas
        /\ ExcludedOf(Persona(q)) = {cells[Persona(q)][i] : i \in 1..Size[Persona(q)]}
    <3>1. Persona(q)' = Persona(q) /\ Handler(q)' = Handler(q)
      BY <1>0, <1>5, SlicingStep DEF Persona, Handler
    <3>2. Persona(q) \in Personas
      BY <1>0, PersonaTyped
    <3>3. ExcludedOf(Persona(q)) = {cells[Persona(q)][i] : i \in 1..Size[Persona(q)]}
      BY <3>2 DEF GateInv, CellsOK, ConfiguredKept, ExcludedOf
    <3>4. QED
      BY <3>1, <3>2, <3>3
  <2>2. SliceOf(q) /\ SurplusOf(q)
    BY <1>0, <1>2, <1>5 DEF SliceOK
  <2>3. len[q] \in Nat /\ read[q] \in Nat /\ Size[Persona(q)] \in Nat
    BY <1>0, <2>1, GateAssumption DEF TypeOK
  <2>4. CASE Dispatch(q) \/ AppendInspection(q)
    <3>1. pc'[q] \in {"handling", "writing"}
      BY <1>0, <2>4 DEF Dispatch, AppendInspection, Go, TypeOK
    <3>2. QED
      BY <3>1 DEF SurplusOf
  <2>5. CASE OfferElasticsearch(q)
    <3>1. pc'[q] = "offered" /\ Handler(q) \notin SQLSources
      BY <1>0, <2>5 DEF OfferElasticsearch, Go, TypeOK, SQLSources
    <3>2. QED
      BY <2>1, <3>1 DEF SurplusOf
  <2>6. CASE KeepTools(q) \/ WriteNext(q)
    <3>1. pc'[q] \in {"writing", "filtering"} /\ own'[q] = own[q] /\ own[q] = {}
      BY <1>0, <2>2, <2>6 DEF KeepTools, WriteNext, Write, Goes, Go, TypeOK, slices,
         SliceOf, Appending
    <3>2. QED
      BY <3>1 DEF SurplusOf
  <2>7. CASE AppendExecute(q)
    <3>1. /\ pc[q] = "handling" /\ dry[q] /\ Handler(q) \in SQLSources
          /\ UNCHANGED <<dry, dataset>> /\ pc'[q] \in {"appended", "filtering"}
      BY <1>0, <2>7 DEF AppendExecute, Goes, Go, TypeOK, asked, Handler, HandlerOf,
         SQLSources
    <3>2. own[q] = {} /\ ~moved[q] /\ len[q] = Size[Persona(q)]
      BY <2>2, <3>1 DEF SliceOf
    <3>3. Surplus(q)' = Surplus(q) /\ DryName(q, 1) \in Surplus(q)
      BY <3>1, HiddenKindsAppended DEF Surplus, HiddenKinds, DryName
    <3>4. own'[q] \subseteq ExcludedOf(Persona(q)) \cup {DryName(q, 1)}
      BY <1>0, <2>1, <2>7, <3>2 DEF AppendExecute, Write, Move, Names, TypeOK
    <3>5. QED
      BY <2>1, <3>1, <3>3, <3>4 DEF SurplusOf, ExcludedOf
  <2>8. CASE MoveInspection(q)
    <3>1. /\ pc[q] = "appended" /\ pc'[q] = "filtering" /\ UNCHANGED <<dry, dataset>>
          /\ own'[q] = Names(q) \cup Inspection(q)
      BY <1>0, <2>8 DEF MoveInspection, Move, Go, TypeOK, asked
    <3>2. dry[q] /\ dataset[q] /\ Handler(q) \in SQLSources
          /\ (~moved[q] => len[q] = Size[Persona(q)] + 1)
      BY <2>2, <3>1 DEF SliceOf, Appending
    <3>3. Surplus(q)' = Surplus(q)
      BY <3>1 DEF Surplus, HiddenKinds
    <3>4. Names(q) \subseteq ExcludedOf(Persona(q)) \cup Surplus(q)
      <4>1. CASE moved[q]
        BY <2>2, <3>1, <4>1 DEF Names, SurplusOf
      <4>2. CASE ~moved[q]
        <5>1. \A n \in 1..len[q] : n <= Size[Persona(q)] + 4
          BY <2>3, <3>2, <4>2
        <5>2. \A n \in 1..len[q] :
                cells[Persona(q)][n] \in ExcludedOf(Persona(q)) \cup Surplus(q)
          BY <1>0, <3>2, <4>2, <5>1, FoundNames
        <5>3. QED
          BY <4>2, <5>2 DEF Names
      <4>3. QED
        BY <4>1, <4>2
    <3>5. Inspection(q) \subseteq Surplus(q)
      BY <3>2, HiddenKindsAppended, InspectionNames DEF Surplus, DryName
    <3>6. QED
      BY <2>1, <3>1, <3>3, <3>4, <3>5 DEF SurplusOf, ExcludedOf
  <2>9. CASE ReadName(q)
    <3>1. /\ pc[q] = "filtering" /\ ~moved[q] /\ read[q] < len[q]
          /\ UNCHANGED <<pc, dry, dataset>>
          /\ own'[q] = own[q] \cup {cells[Persona(q)][read[q] + 1]}
      BY <1>0, <2>9 DEF ReadName, TypeOK, asked
    <3>2. read[q] + 1 \in 1..len[q]
      BY <2>3, <3>1
    <3>3. cells[Persona(q)][read[q] + 1] \in ExcludedOf(Persona(q)) \cup Surplus(q)
      <4>1. CASE dry[q]
        <5>1. len[q] = Size[Persona(q)] + IF dataset[q] THEN 4 ELSE 1
          BY <2>2, <3>1, <4>1 DEF SliceOf
        <5>2. read[q] + 1 <= Size[Persona(q)] + IF dataset[q] THEN 4 ELSE 1
          BY <2>3, <3>1, <5>1
        <5>3. QED
          BY <1>0, <3>1, <3>2, <4>1, <5>2, FoundNames
      <4>2. CASE ~dry[q]
        <5>1. len[q] = Size[Persona(q)]
          BY <2>2, <3>1, <4>2 DEF SliceOf
        <5>2. QED
          BY <2>1, <3>2, <5>1
      <4>3. QED
        BY <4>1, <4>2
    <3>4. Surplus(q)' = Surplus(q)
      BY <3>1 DEF Surplus, HiddenKinds
    <3>5. QED
      BY <2>1, <2>2, <3>1, <3>3, <3>4 DEF SurplusOf, ExcludedOf
  <2>10. CASE Offer(q)
    <3>1. /\ pc[q] = "filtering" /\ pc'[q] = "offered" /\ UNCHANGED <<dry, dataset>>
          /\ offered'[q] = ToolsOf(Handler(q)) \ own[q]
      BY <1>0, <2>10 DEF Offer, Go, TypeOK, asked
    <3>2. Surplus(q)' = Surplus(q)
      BY <3>1 DEF Surplus, HiddenKinds
    <3>3. own[q] \subseteq ExcludedOf(Persona(q)) \cup Surplus(q)
      BY <2>2, <3>1 DEF SurplusOf
    <3>4. QED
      BY <2>1, <3>1, <3>2, <3>3 DEF SurplusOf, ExcludedOf, ToolsOf
  <2>11. QED
    BY <1>5, <2>4, <2>5, <2>6, <2>7, <2>8, <2>9, <2>10 DEF Slicing
<1>6. QED
  BY <1>3, <1>4, <1>5, StepCases

LEMMA SurplusInvariant == Spec => []SurplusOK
<1>1. Init => SurplusOK
  <2> SUFFICES ASSUME Init PROVE SurplusOK
    OBVIOUS
  <2>1. BehindOK
    <3> SUFFICES ASSUME NEW p \in Personas, NEW i \in 1..4, Size[p] + i <= Capacity[p]
                 PROVE  cells[p][Size[p] + i] = Blank
      BY DEF BehindOK
    <3>1. Size[p] \in Nat /\ Size[p] + i \in 1..Capacity[p] /\ ~(Size[p] + i <= Size[p])
      BY GateAssumption
    <3>2. QED
      BY <3>1 DEF Init
  <2>2. QED
    BY <2>1 DEF Init, SurplusOK, SurplusOf
<1>2. GateInv /\ SurplusOK /\ [Next]_vars => SurplusOK'
  <2> SUFFICES ASSUME GateInv, SurplusOK, [Next]_vars PROVE SurplusOK'
    OBVIOUS
  <2>1. CASE Next
    BY <2>1, SurplusStep DEF Next
  <2>2. CASE UNCHANGED vars
    <3>1. UNCHANGED <<pc, key, source, dry, dataset, cells, own, offered>>
      BY <2>2 DEF vars, asked, slices
    <3>2. \A r \in Requests : /\ Persona(r)' = Persona(r) /\ Handler(r)' = Handler(r)
                              /\ Surplus(r)' = Surplus(r)
      BY <3>1 DEF Persona, Handler, Surplus, HiddenKinds
    <3>3. QED
      BY <3>1, <3>2 DEF SurplusOK, BehindOK, SurplusOf, ExcludedOf, ToolsOf
  <2>3. QED
    BY <2>1, <2>2
<1>3. QED
  BY <1>1, <1>2, GateInvariant, PTL DEF Spec

-----------------------------------------------------------------------------
\* The invariant of types; that names are read and never blank cells is part of it.
THEOREM RequestGateTypeOK == Spec => []TypeOK
<1>1. GateInv => TypeOK
  BY DEF GateInv
<1>2. QED
  BY <1>1, GateInvariant, PTL

\* Dry runs neither undo the persona's own exclusions nor take more from one
\* another, or from anyone, than a dry run must go without.
THEOREM RequestGatePersonaTools == Spec => []PersonaTools
<1>1. ASSUME GateInv, SurplusOK PROVE PersonaTools
  <2> SUFFICES ASSUME NEW r \in Requests, pc[r] = "offered", Handler(r) \in SQLSources
               PROVE  LET rest == ToolsOf(Handler(r)) \ ExcludedOf(Persona(r))
                      IN  /\ offered[r] \subseteq rest
                          /\ rest \ (IF dry[r] THEN Hidden(r) ELSE {}) \subseteq offered[r]
    BY DEF PersonaTools
  <2>1. offered[r] \subseteq ToolsOf(Handler(r)) \ ExcludedOf(Persona(r))
    BY <1>1 DEF GateInv, KnownOK, OfferedOf
  <2>2. ToolsOf(Handler(r)) \ (ExcludedOf(Persona(r)) \cup Surplus(r)) \subseteq offered[r]
    BY <1>1 DEF SurplusOK, SurplusOf
  <2>3. ToolsOf(Handler(r)) \cap Surplus(r) \subseteq (IF dry[r] THEN Hidden(r) ELSE {})
    BY DEF ToolsOf, Surplus, Hidden
  <2>4. QED
    BY <2>1, <2>2, <2>3
<1>2. QED
  BY <1>1, GateInvariant, SurplusInvariant, PTL

\* Dry runs of personas with one database, or with slices that are full, are
\* offered nothing they must not have, however many run at once.
THEOREM RequestGateDryRun == Spec => []DryRunToolsHiddenUnlessMixed
<1>1. GateInv => DryRunToolsHiddenUnlessMixed
  BY DEF GateInv, KnownOK, OfferedOf, DryRunToolsHiddenUnlessMixed
<1>2. QED
  BY <1>1, GateInvariant, PTL

\* Nobody is served who may not be, nor by a source that is barred, whatever the
\* personas allow: but that a name there is no source of is served from BigQuery,
\* to those whose persona names it.
THEOREM RequestGateAllowed == Spec => []OnlyAllowedServed
<1>1. GateInv => OnlyAllowedServed
  <2> SUFFICES ASSUME GateInv, NEW r \in Requests, pc[r] \in {"handling", "offered"}
               PROVE  /\ key[r] \in UserKeys /\ RoleOf[key[r]] # "viewer"
                      /\ \/ Allowed[Persona(r)] = {}
                         \/ Handler(r) \in Allowed[Persona(r)]
                         \/ AllowedByName(r) /\ Handler(r) = "bigquery"
    BY DEF OnlyAllowedServed
  <2>1. Permitted(r) /\ Allows(Persona(r), source[r]) /\ source[r] \in Asked
        /\ Persona(r) \in Personas
    BY PersonaTyped DEF GateInv, TypeOK, AllowedOK, AllowedOf, Served
  <2>2. key[r] \in UserKeys /\ RoleOf[key[r]] # "viewer"
    BY <2>1 DEF Permitted, Role
  <2>3. \/ Allowed[Persona(r)] = {}
        \/ Handler(r) \in Allowed[Persona(r)]
        \/ AllowedByName(r) /\ Handler(r) = "bigquery"
    BY <2>1 DEF Allows, AllowedByName, Handler, HandlerOf, Asked, Sources
  <2>4. QED
    BY <2>2, <2>3
<1>2. QED
  BY <1>1, GateInvariant, PTL

=============================================================================
