---------------------------- MODULE RequestGate ----------------------------
(***************************************************************************)
(* Requests to query-agent from the API key to the choice of tools: the    *)
(* middleware (internal/middleware/auth.go, rbac.go), the agent HTTP       *)
(* handler (internal/handler/agent.go) with the user's persona and the     *)
(* LLM pool, and the handlers' tool filter (internal/agent), to whose      *)
(* slice of excluded tools a dry run appends.                              *)
(*                                                                         *)
(* That slice is the persona's, from the configuration; requests share its *)
(* array.  An append that fits its capacity writes behind the configured   *)
(* names, where another request may have written; one that does not fit    *)
(* moves to an array of its own.  Two requests may write one cell at once: *)
(* the names a dry run appends in one place are equally long for both      *)
(* databases, so the cell has one of the two in any case.  The rest of the *)
(* configuration is fixed when the server starts.                          *)
(*                                                                         *)
(* Definitions named for a slip (LastCell, ...) are what the mutation runs *)
(* swap in.                                                                *)
(***************************************************************************)
EXTENDS Integers, FiniteSets

CONSTANTS
  Requests,
  Keys,              \* what may come as API key
  NoKey,
  UserKeys,          \* the keys of configured users
  LegacyKeys,        \* api_keys, without a user
  RoleOf,            \* of configured users
  PersonaOf,
  Personas,
  NoPersona,         \* none, or one that is not configured
  Provider,          \* of each persona's LLM
  FallbackProvider,  \* LLM_PROVIDER
  Providers,
  Allowed,           \* allowed_data_sources of each persona
  Size,              \* how many excluded_tools it has,
  Excluded,          \* which they are,
  Capacity           \* and for how many their array has room

Sources == {"bigquery", "postgres", "elasticsearch"}

\* What data_source may say.
Asked == Sources \cup {"other"}

\* The tools, named alike: indices are the datasets of Elasticsearch, a search
\* is its execution.
Kinds == {"datasets", "tables", "schema", "sample", "execute"}
Tools == Sources \X Kinds

Roles == {"admin", "analyst", "viewer"}

ASSUME GateAssumption ==
  /\ UserKeys \subseteq Keys /\ LegacyKeys \subseteq Keys /\ NoKey \notin Keys
  /\ NoPersona \in Personas
  /\ RoleOf \in [UserKeys -> Roles]
  /\ PersonaOf \in [UserKeys -> Personas]
  /\ Provider \in [Personas -> Providers] /\ FallbackProvider \in Providers
  /\ Allowed \in [Personas -> SUBSET Asked]
  /\ Size \in [Personas -> Nat]
  /\ \A p \in Personas : Excluded[p] \in [1..Size[p] -> Tools]
  /\ Capacity \in [Personas -> Nat]
  /\ \A p \in Personas : Size[p] <= Capacity[p]
  /\ Allowed[NoPersona] = {} /\ Size[NoPersona] = 0 /\ Capacity[NoPersona] = 0

VARIABLES
  authOn,   \* Auth is among the middleware
  keyed,    \* providers whose API key is configured
  wired,    \* data sources with an agent handler
  pc,       \* where a request is
  key,      \* the key it came with
  source,   \* the data source it asks
  dry,      \* dry_run
  dataset,  \* whether dataset_id is given
  cells,    \* the array of each persona's excluded tools
  len,      \* the length of the request's slice of it
  moved,    \* the slice has an array of its own
  own,      \* the names the request knows: those there, or read so far
  read,     \* how many cells of the persona's array it has read
  offered   \* the tools its LLM is offered

config == <<authOn, keyed, wired>>
asked == <<key, source, dry, dataset>>
slices == <<cells, len, moved, own, read>>
vars == <<config, pc, asked, slices, offered>>

Blank == <<"none", "none">>

TypeOK ==
  /\ authOn \in BOOLEAN
  /\ keyed \in SUBSET Providers
  /\ wired \in SUBSET Sources
  /\ pc \in [Requests -> {"arrived", "known", "permitted", "routed",
       "handling", "appended", "writing", "filtering", "offered",
       "unauthorized", "forbidden", "badRequest", "unavailable", "panicked",
       "returned"}]
  /\ key \in [Requests -> Keys \cup {NoKey}]
  /\ source \in [Requests -> Asked]
  /\ dry \in [Requests -> BOOLEAN] /\ dataset \in [Requests -> BOOLEAN]
  /\ DOMAIN cells = Personas
  /\ \A p \in Personas : cells[p] \in [1..Capacity[p] -> Tools \cup {Blank}]
  /\ len \in [Requests -> Nat]
  /\ moved \in [Requests -> BOOLEAN]
  /\ own \in [Requests -> SUBSET Tools]
  /\ read \in [Requests -> Nat]
  /\ offered \in [Requests -> SUBSET Tools]

(***************************************************************************)
(* What was configured.                                                    *)
(***************************************************************************)
\* GetByKey.
Known(k) == k \in UserKeys \cup LegacyKeys

Role(k) == IF k \in UserKeys THEN RoleOf[k] ELSE "viewer"

Persona(r) == IF key[r] \in UserKeys THEN PersonaOf[key[r]] ELSE NoPersona

\* A persona's LLM is registered if its provider has an API key; else its users
\* get the fallback, as those without a persona do, if that has one.
HasRunner(p) ==
  \/ p # NoPersona /\ Provider[p] \in keyed
  \/ FallbackProvider \in keyed

Init ==
  /\ authOn \in BOOLEAN
  /\ keyed \in SUBSET Providers
  /\ \E p \in Personas : HasRunner(p)
  /\ wired \in SUBSET Sources
  /\ pc = [r \in Requests |-> "arrived"]
  /\ key = [r \in Requests |-> NoKey]
  /\ source = [r \in Requests |-> "bigquery"]
  /\ dry = [r \in Requests |-> FALSE]
  /\ dataset = [r \in Requests |-> FALSE]
  /\ cells = [p \in Personas |->
       [i \in 1..Capacity[p] |-> IF i <= Size[p] THEN Excluded[p][i] ELSE Blank]]
  /\ len = [r \in Requests |-> 0]
  /\ moved = [r \in Requests |-> FALSE]
  /\ own = [r \in Requests |-> {}]
  /\ read = [r \in Requests |-> 0]
  /\ offered = [r \in Requests |-> {}]

Go(r, place) == pc' = [pc EXCEPT ![r] = place]

(***************************************************************************)
(* The middleware.                                                         *)
(***************************************************************************)
\* Without Auth a request has no user, whatever key it brings.
Authenticate(r, k) ==
  /\ pc[r] = "arrived"
  /\ key' = [key EXCEPT ![r] = IF authOn THEN k ELSE NoKey]
  /\ Go(r, IF ~authOn THEN "known"
           ELSE IF k = NoKey THEN "unauthorized"
           ELSE IF Known(k) THEN "known" ELSE "forbidden")
  /\ UNCHANGED <<config, source, dry, dataset, slices, offered>>

\* Analysts and administrators may ask the agent.
Permitted(r) == key[r] # NoKey /\ Role(key[r]) \in {"analyst", "admin"}

RequireRole(r) ==
  /\ pc[r] = "known"
  /\ Go(r, IF Permitted(r) THEN "permitted" ELSE "forbidden")
  /\ UNCHANGED <<config, asked, slices, offered>>

(***************************************************************************)
(* QueryAgent and QueryAgentStream.                                        *)
(***************************************************************************)
\* No JSON, or no prompt.
Malformed(r) ==
  /\ pc[r] = "permitted"
  /\ Go(r, "badRequest")
  /\ UNCHANGED <<config, asked, slices, offered>>

\* The router's choice from how many keywords of each source the prompt has.
Route(bq, pg, es) ==
  IF es > bq /\ es > pg THEN "elasticsearch"
  ELSE IF pg > bq THEN "postgres" ELSE "bigquery"

\* The agent handler that serves what is asked.
HandlerOf(s) == IF s \in {"elasticsearch", "postgres"} THEN s ELSE "bigquery"

AllowsUnknown(p, s) == Allowed[p] = {} \/ s \in Allowed[p] \/ s \notin Sources

\* checkDataSourceAllowed.
Allows(p, s) == Allowed[p] = {} \/ s \in Allowed[p]

\* The source asked for, or else the router's, must be allowed.
Choose(r, s) ==
  /\ pc[r] = "permitted"
  /\ source' = [source EXCEPT ![r] = s]
  /\ Go(r, IF Allows(Persona(r), s) THEN "routed" ELSE "forbidden")
  /\ UNCHANGED <<config, key, dry, dataset, slices, offered>>

\* The source has no handler, or one that cannot stream.
Unavailable(r) ==
  /\ pc[r] = "routed"
  /\ \/ HandlerOf(source[r]) \notin wired
     \/ source[r] = "elasticsearch"
  /\ Go(r, "unavailable")
  /\ UNCHANGED <<config, asked, slices, offered>>

\* Handle begins with a method of the LLM it is given, which may be none.
PanicWithoutRunner(r) ==
  /\ pc[r] = "routed"
  /\ HandlerOf(source[r]) \in wired
  /\ ~HasRunner(Persona(r))
  /\ Go(r, "panicked")
  /\ UNCHANGED <<config, asked, slices, offered>>

WholeArray(p) == Capacity[p]

\* The length of the persona's slice.
SliceLen(p) == Size[p]

\* The handler is called with the persona's slice.
Dispatch(r) ==
  /\ pc[r] = "routed"
  /\ HandlerOf(source[r]) \in wired
  /\ HasRunner(Persona(r))
  /\ \E d, t \in BOOLEAN : /\ dry' = [dry EXCEPT ![r] = d]
                           /\ dataset' = [dataset EXCEPT ![r] = t]
  /\ len' = [len EXCEPT ![r] = SliceLen(Persona(r))]
  /\ Go(r, "handling")
  /\ UNCHANGED <<config, key, source, cells, moved, own, read, offered>>

(***************************************************************************)
(* The handlers, as far as the choice of tools.                            *)
(***************************************************************************)
Handler(r) == HandlerOf(source[r])

\* A check fails, or the answer is cached; PostgreSQL needs a database.
ReturnEarly(r) ==
  /\ pc[r] = "handling"
  /\ Go(r, "returned")
  /\ UNCHANGED <<config, asked, slices, offered>>

Goes(r) == pc[r] = "handling" /\ (Handler(r) = "postgres" => dataset[r])

ToolsOf(h) ==
  {h} \X (IF h = "elasticsearch" THEN {"datasets", "execute"} ELSE Kinds)

\* Elasticsearch excludes nothing and knows no dry run.
OfferElasticsearch(r) ==
  /\ Goes(r)
  /\ Handler(r) = "elasticsearch"
  /\ offered' = [offered EXCEPT ![r] = ToolsOf(Handler(r))]
  /\ Go(r, "offered")
  /\ UNCHANGED <<config, asked, slices>>

\* Not a dry run: the slice is as configured.
KeepTools(r) ==
  /\ Goes(r)
  /\ ~dry[r] /\ Handler(r) # "elasticsearch"
  /\ Go(r, "filtering")
  /\ UNCHANGED <<config, asked, slices, offered>>

\* What a dry run appends, in this order.
DryKinds == <<"execute", "tables", "schema", "sample">>
DryName(r, i) == <<Handler(r), DryKinds[i]>>

LastCell(r) == IF len[r] > 0 THEN len[r] ELSE 1

\* Where an append writes.
NextCell(r) == len[r] + 1

\* The name that comes there.
NextName(r) == DryName(r, len[r] + 1 - Size[Persona(r)])

\* append finds room for n names.
Fits(r, n) == ~moved[r] /\ len[r] + n <= Capacity[Persona(r)]

Write(r) ==
  /\ cells' = [cells EXCEPT ![Persona(r)][NextCell(r)] = NextName(r)]
  /\ len' = [len EXCEPT ![r] = @ + 1]
  /\ UNCHANGED <<moved, own, read>>

\* The persona's slice again, without what has been appended.
NamesConfigured(r) == {cells[Persona(r)][i] : i \in 1..Size[Persona(r)]}

\* The names in the slice.
Names(r) ==
  IF moved[r] THEN own[r] ELSE {cells[Persona(r)][i] : i \in 1..len[r]}

\* append copies the slice to a new array.
Move(r, names) ==
  /\ own' = [own EXCEPT ![r] = Names(r) \cup names]
  /\ moved' = [moved EXCEPT ![r] = TRUE]
  /\ UNCHANGED <<cells, len, read>>

AppendExecute(r) ==
  /\ Goes(r)
  /\ dry[r] /\ Handler(r) # "elasticsearch"
  /\ IF Fits(r, 1) THEN Write(r) ELSE Move(r, {DryName(r, 1)})
  /\ Go(r, IF dataset[r] THEN "appended" ELSE "filtering")
  /\ UNCHANGED <<config, asked, offered>>

Inspection(r) == {DryName(r, i) : i \in 2..4}

MoveInspection(r) ==
  /\ pc[r] = "appended"
  /\ ~Fits(r, 3)
  /\ Move(r, Inspection(r))
  /\ Go(r, "filtering")
  /\ UNCHANGED <<config, asked, offered>>

\* Three names in place, one after the other.
AppendInspection(r) ==
  /\ pc[r] = "appended"
  /\ Fits(r, 3)
  /\ Go(r, "writing")
  /\ UNCHANGED <<config, asked, slices, offered>>

WriteNext(r) ==
  /\ pc[r] = "writing"
  /\ Write(r)
  /\ Go(r, IF len[r] + 1 = Size[Persona(r)] + 4 THEN "filtering" ELSE "writing")
  /\ UNCHANGED <<config, asked, offered>>

\* filterTools reads the slice.
ReadName(r) ==
  /\ pc[r] = "filtering"
  /\ ~moved[r] /\ read[r] < len[r]
  /\ own' = [own EXCEPT ![r] = @ \cup {cells[Persona(r)][read[r] + 1]}]
  /\ read' = [read EXCEPT ![r] = @ + 1]
  /\ UNCHANGED <<config, pc, asked, cells, len, moved, offered>>

\* The tools that are left.
Offer(r) ==
  /\ pc[r] = "filtering"
  /\ moved[r] \/ read[r] = len[r]
  /\ offered' = [offered EXCEPT ![r] = ToolsOf(Handler(r)) \ own[r]]
  /\ Go(r, "offered")
  /\ UNCHANGED <<config, asked, slices>>

Step(r) ==
  \/ \E k \in Keys \cup {NoKey} : Authenticate(r, k)
  \/ RequireRole(r)
  \/ Malformed(r)
  \/ \E s \in Asked : Choose(r, s)
  \/ \E bq, pg, es \in 0..1 : Choose(r, Route(bq, pg, es))
  \/ Unavailable(r) \/ PanicWithoutRunner(r) \/ Dispatch(r)
  \/ ReturnEarly(r) \/ OfferElasticsearch(r) \/ KeepTools(r)
  \/ AppendExecute(r) \/ MoveInspection(r) \/ AppendInspection(r) \/ WriteNext(r)
  \/ ReadName(r) \/ Offer(r)

Next == \E r \in Requests : Step(r)

Spec == Init /\ [][Next]_vars

(***************************************************************************)
(* Properties.                                                             *)
(***************************************************************************)
SQLSources == {"bigquery", "postgres"}

ExcludedOf(p) == {Excluded[p][i] : i \in 1..Size[p]}

\* The tools a dry run must not have.
HiddenKinds(r) ==
  {"execute"} \cup IF dataset[r] THEN {"tables", "schema", "sample"} ELSE {}

Hidden(r) == {Handler(r)} \X HiddenKinds(r)

\* Whatever dry runs write into the persona's array, nobody is offered a tool
\* of the persona's excluded_tools, and nobody goes without any other tool, but
\* for those a dry run must not have.
PersonaTools ==
  \A r \in Requests : pc[r] = "offered" /\ Handler(r) \in SQLSources =>
    LET rest == ToolsOf(Handler(r)) \ ExcludedOf(Persona(r))
    IN  /\ offered[r] \subseteq rest
        /\ rest \ (IF dry[r] THEN Hidden(r) ELSE {}) \subseteq offered[r]

\* Dry runs of both databases may write into the persona's array.
Serves(p, h) == \E s \in Asked : Allows(p, s) /\ HandlerOf(s) = h

Mixed(p) ==
  Capacity[p] > Size[p] /\ Serves(p, "bigquery") /\ Serves(p, "postgres")

\* README, "dry_run tool exclusion": a dry run is not offered the tools it must
\* not have, if its persona has one database, or a slice that has no room.
DryRunToolsHiddenUnlessMixed ==
  \A r \in Requests :
    pc[r] = "offered" /\ dry[r] /\ Handler(r) \in SQLSources /\ ~Mixed(Persona(r))
      => offered[r] \cap Hidden(r) = {}

\* The same for every persona, as the README has it.
DryRunToolsHidden ==
  \A r \in Requests :
    pc[r] = "offered" /\ dry[r] /\ Handler(r) \in SQLSources
      => offered[r] \cap Hidden(r) = {}

\* A name there is no source of, but that the persona's configuration, which is not
\* validated, allows: the switch serves it from BigQuery by default.
AllowedByName(r) ==
  source[r] \notin Sources /\ source[r] \in Allowed[Persona(r)]

\* Who gets as far as a handler is an analyst or an administrator with a key of
\* a user (legacy keys are viewers'), and the handler is of a source the persona
\* may query, or that of the default branch under a name the persona may use.  No
\* other way leads from a restricted persona to a source it may not query.
OnlyAllowedServed ==
  \A r \in Requests : pc[r] \in {"handling", "offered"} =>
    /\ key[r] \in UserKeys /\ RoleOf[key[r]] # "viewer"
    /\ \/ Allowed[Persona(r)] = {}
       \/ Handler(r) \in Allowed[Persona(r)]
       \/ AllowedByName(r) /\ Handler(r) = "bigquery"

=============================================================================
