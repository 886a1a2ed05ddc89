------------------------------- MODULE Startup -------------------------------
(***************************************************************************)
(* From the configuration to the routes: Load (internal/config/config.go), *)
(* the services, the registry of PostgreSQL services, the user store, the  *)
(* LLM pool and the routes, as setupRoutes builds them one after another   *)
(* (internal/server/routes.go, with internal/service/user_store.go and     *)
(* internal/agent/llm_pool.go).  The personas are a map, whose order is    *)
(* Go's choice.                                                            *)
(* Definitions named for a slip are what the mutation runs swap in.        *)
(***************************************************************************)
EXTENDS Integers, Sequences

CONSTANTS
  Personas,     \* names of personas
  Models,       \* of LLMs
  URLs,         \* of LLM providers
  NoURL,        \* no base_url
  SquadIds,
  NoSquad,      \* no squad_id
  Keys,         \* API keys
  NoKey,        \* an empty one
  Files,        \* the configurations CORTEXAI_CONFIG may name, and NoFile
  Environments  \* the environments the server may start in

Texts == {"GCP_PROJECT_ID", "LLM_PROVIDER", "ANTHROPIC_API_KEY", "DEEPSEEK_API_KEY"}
Switches == {"POSTGRES_ENABLED", "ELASTICSEARCH_ENABLED", "ENABLE_AUTH"}
Settings == Texts \cup Switches

Providers == {"", "anthropic", "deepseek"}
Values == {"on", "off", "true", "1", "yes", "key", "project"} \cup Providers

PersonaConfig == [provider : Providers, model : Models, base_url : URLs \cup {NoURL}]
SquadConfig == [id : SquadIds, postgres : BOOLEAN]
UserConfig == [api_key : Keys \cup {NoKey}, squad_id : SquadIds \cup {NoSquad},
               persona : Personas \cup {""}]

\* A setting of a file may be absent.
File == [settings : [Settings -> Values \cup {"absent"}],
         personas : UNION {[names -> PersonaConfig] : names \in SUBSET Personas},
         squads : Seq(SquadConfig),
         users : Seq(UserConfig),
         api_keys : SUBSET Keys]

\* The default settings, those of no file.
NoFile == [settings |-> [s \in Settings |-> "absent"], personas |-> <<>>,
           squads |-> <<>>, users |-> <<>>, api_keys |-> {}]

ASSUME StartupAssumption ==
  /\ Files \subseteq File
  /\ Environments \subseteq [Settings -> Values]
  /\ NoURL \notin URLs /\ NoSquad \notin SquadIds /\ NoKey \notin Keys

VARIABLES
  env,      \* the environment, "" for what it does not have
  file,     \* the file
  phase,    \* how far the start is
  next,     \* index of the loop over squads or users
  settings, \* the settings of cfg that count here
  bigquery, elasticsearch, \* whether the service is there
  registry, \* pools of PGPoolRegistry: the index of the squad's entry, or 0
  squadMap, \* likewise for the user store
  byKey,    \* the users of the store
  fallback, \* of the LLM pool
  runners,  \* of the LLM pool
  todo,     \* the personas the loop has yet to visit
  routes    \* what is served, and by what

vars == <<env, file, phase, next, settings, bigquery, elasticsearch, registry,
          squadMap, byKey, fallback, runners, todo, routes>>

inputs == <<env, file>>
tables == <<registry, squadMap, byKey>>
pool == <<fallback, runners, todo>>

PoolKeys == Providers \X Models
Runners == [agent : {"none", "anthropic", "deepseek"},
            model : Models \cup {"none", "default"}, url : URLs \cup {NoURL}]
NoRunner == [agent |-> "none", model |-> "none", url |-> NoURL]
NoUser == [role |-> "none", squad_id |-> NoSquad, squad |-> 0, persona |-> ""]

Users == [role : {"none", "configured", "viewer"}, squad_id : SquadIds \cup {NoSquad},
          squad : Nat, persona : Personas \cup {""}]

\* What the tables of squads have: the index of an entry, or 0.
Index == 0..Len(file.squads)

TypeOK ==
  /\ env \in Environments /\ file \in Files
  /\ phase \in {"load", "failed", "services", "registry", "squads", "users",
                "fallback", "personas", "routes", "up"}
  /\ next \in Nat \ {0}
  /\ settings \in [Settings -> Values \cup {"absent"}]
  /\ bigquery \in BOOLEAN /\ elasticsearch \in BOOLEAN
  /\ registry \in [SquadIds -> Index]
  /\ squadMap \in [SquadIds -> Index]
  /\ byKey \in [Keys -> Users]
  /\ \A k \in Keys : byKey[k].squad \in Index
  /\ fallback \in Runners /\ runners \in [PoolKeys -> Runners]
  /\ todo \subseteq DOMAIN file.personas
  /\ routes \subseteq {"/health", "/me", "/datasets", "/query", "/query-agent",
                      "/cache", "Auth"}

Init ==
  /\ env \in Environments /\ file \in Files
  /\ phase = "load"
  /\ next = 1
  /\ settings = file.settings
  /\ bigquery = FALSE /\ elasticsearch = FALSE
  /\ registry = [i \in SquadIds |-> 0]
  /\ squadMap = [i \in SquadIds |-> 0]
  /\ byKey = [k \in Keys |-> NoUser]
  /\ fallback = NoRunner
  /\ runners = [k \in PoolKeys |-> NoRunner]
  /\ todo = {}
  /\ routes = {}

(***************************************************************************)
(* Load: the defaults, over them the file, over it the environment.        *)
(***************************************************************************)
Default(s) == CASE s = "ENABLE_AUTH" -> "on"
                [] s \in Switches \ {"ENABLE_AUTH"} -> "off"
                [] OTHER -> ""

\* What the environment says for s: a switch is on for true and 1, else off.
EnvOverride(s) ==
  IF s \in Switches THEN IF env[s] \in {"true", "1"} THEN "on" ELSE "off"
  ELSE env[s]

Load ==
  /\ phase = "load"
  /\ settings' = [s \in Settings |-> IF env[s] # "" THEN EnvOverride(s)
                                     ELSE IF file.settings[s] # "absent" THEN file.settings[s]
                                     ELSE Default(s)]
  /\ phase' = "services"
  /\ UNCHANGED <<inputs, next, bigquery, elasticsearch, tables, pool, routes>>

\* The file cannot be read or is no configuration.
LoadFails ==
  /\ phase = "load"
  /\ file # NoFile
  /\ phase' = "failed"
  /\ UNCHANGED <<inputs, next, settings, bigquery, elasticsearch, tables, pool,
                 routes>>

(***************************************************************************)
(* Services and the tables of squads and users.                            *)
(***************************************************************************)
\* A service that cannot be made is left out.
StartServices ==
  /\ phase = "services"
  /\ bigquery' \in {FALSE, settings["GCP_PROJECT_ID"] # ""}
  /\ elasticsearch' \in {FALSE, settings["ELASTICSEARCH_ENABLED"] = "on"}
  /\ phase' = "registry"
  /\ next' = 1
  /\ UNCHANGED <<inputs, settings, tables, pool, routes>>

PostgresOn == settings["POSTGRES_ENABLED"] = "on"

\* A loop over es has an element to visit, or is over and phase p begins.
Visit(es) == next <= Len(es) /\ next' = next + 1 /\ UNCHANGED phase
LoopEnds(es, p) == next > Len(es) /\ next' = 1 /\ phase' = p

\* One round over the squads for the registry.
RegisterSquad ==
  /\ phase = "registry"
  /\ \/ /\ Visit(file.squads)
        /\ registry' = IF PostgresOn /\ file.squads[next].postgres
                       THEN [registry EXCEPT ![file.squads[next].id] = next]
                       ELSE registry
     \/ LoopEnds(file.squads, "squads") /\ UNCHANGED registry
  /\ UNCHANGED <<inputs, settings, bigquery, elasticsearch, squadMap, byKey, pool,
                 routes>>

\* The first entry of an id stays.
AddSquadOnce ==
  /\ phase = "squads"
  /\ \/ /\ Visit(file.squads)
        /\ squadMap' = IF squadMap[file.squads[next].id] = 0
                       THEN [squadMap EXCEPT ![file.squads[next].id] = next]
                       ELSE squadMap
     \/ LoopEnds(file.squads, "users") /\ UNCHANGED squadMap
  /\ UNCHANGED <<inputs, settings, bigquery, elasticsearch, registry, byKey, pool,
                 routes>>

\* One round over them for the user store.
AddSquad ==
  /\ phase = "squads"
  /\ \/ /\ Visit(file.squads)
        /\ squadMap' = [squadMap EXCEPT ![file.squads[next].id] = next]
     \/ LoopEnds(file.squads, "users") /\ UNCHANGED squadMap
  /\ UNCHANGED <<inputs, settings, bigquery, elasticsearch, registry, byKey, pool,
                 routes>>

\* A user's squad, none for an id that is not configured.
SquadOf(id) == IF id \in SquadIds THEN squadMap[id] ELSE 0

LegacyUser == [role |-> "viewer", squad_id |-> NoSquad, squad |-> 0, persona |-> ""]

\* One round over the users, and then the legacy keys that no user has.
AddUser ==
  /\ phase = "users"
  /\ \/ /\ Visit(file.users)
        /\ LET u == file.users[next] IN
           byKey' = IF u.api_key = NoKey THEN byKey
                    ELSE [byKey EXCEPT ![u.api_key] =
                            [role |-> "configured", squad_id |-> u.squad_id,
                             squad |-> SquadOf(u.squad_id), persona |-> u.persona]]
     \/ /\ LoopEnds(file.users, "fallback")
        /\ byKey' = [k \in Keys |-> IF k \in file.api_keys /\ byKey[k] = NoUser
                                    THEN LegacyUser ELSE byKey[k]]
  /\ UNCHANGED <<inputs, settings, bigquery, elasticsearch, registry, squadMap,
                 pool, routes>>

(***************************************************************************)
(* The LLM pool.                                                           *)
(***************************************************************************)
\* Providers but "deepseek" are taken for "anthropic".
Agent(provider) == IF provider = "deepseek" THEN "deepseek" ELSE "anthropic"

HasKey(provider) ==
  settings[IF provider = "deepseek" THEN "DEEPSEEK_API_KEY" ELSE "ANTHROPIC_API_KEY"] # ""

\* The runner of the legacy LLM_PROVIDER, with the provider's model and URL.
SetFallback ==
  /\ phase = "fallback"
  /\ fallback' = IF HasKey(settings["LLM_PROVIDER"])
                 THEN [agent |-> Agent(settings["LLM_PROVIDER"]), model |-> "default",
                       url |-> NoURL]
                 ELSE NoRunner
  /\ todo' = DOMAIN file.personas
  /\ phase' = "personas"
  /\ UNCHANGED <<inputs, next, settings, bigquery, elasticsearch, tables, runners,
                 routes>>

Persona(n) == file.personas[n]

PoolKeyOfModel(n) == <<"", Persona(n).model>>

\* "%s:%s", which keeps the two apart: no provider has a colon in its name.
PoolKey(n) == <<Persona(n).provider, Persona(n).model>>

\* The persona's own runner; NoURL is the provider's URL.
Runner(n) == [agent |-> Agent(Persona(n).provider), model |-> Persona(n).model,
              url |-> Persona(n).base_url]

\* The loop visits persona n, which Go's order of the map leaves open.
Register(n) ==
  /\ phase = "personas"
  /\ n \in todo
  /\ runners' = IF HasKey(Persona(n).provider)
                THEN [runners EXCEPT ![PoolKey(n)] = Runner(n)]
                ELSE runners
  /\ todo' = todo \ {n}
  /\ UNCHANGED <<inputs, phase, next, settings, bigquery, elasticsearch, tables,
                 fallback, routes>>

PersonasDone ==
  /\ phase = "personas"
  /\ todo = {}
  /\ phase' = "routes"
  /\ UNCHANGED <<inputs, next, settings, bigquery, elasticsearch, tables, pool,
                 routes>>

\* LLMPool.Get
Get(key) == IF runners[key] # NoRunner THEN runners[key] ELSE fallback

HasRunners == fallback # NoRunner \/ \E k \in PoolKeys : runners[k] # NoRunner

(***************************************************************************)
(* The routes.                                                             *)
(***************************************************************************)
\* The agent handler answers 503 for a source it has no handler of.
ServeRoutes ==
  /\ phase = "routes"
  /\ routes' = {"/health", "/me"}
       \cup (IF bigquery THEN {"/datasets", "/query"} ELSE {})
       \cup (IF HasRunners THEN {"/query-agent", "/cache"} ELSE {})
       \cup (IF settings["ENABLE_AUTH"] = "on" /\ \E k \in Keys : byKey[k] # NoUser
             THEN {"Auth"} ELSE {})
  /\ phase' = "up"
  /\ UNCHANGED <<inputs, next, settings, bigquery, elasticsearch, tables, pool>>

Next ==
  \/ Load \/ LoadFails
  \/ StartServices \/ RegisterSquad \/ AddSquad \/ AddUser
  \/ SetFallback \/ (\E n \in todo : Register(n)) \/ PersonasDone
  \/ ServeRoutes

Spec == Init /\ [][Next]_vars

(***************************************************************************)
(* Properties.                                                             *)
(***************************************************************************)
\* The personas with n's provider and model but another base_url.
Sharing(n) ==
  {m \in DOMAIN file.personas :
     /\ Persona(m).provider = Persona(n).provider
     /\ Persona(m).model = Persona(n).model
     /\ Persona(m).base_url # Persona(n).base_url}

\* In whatever order the map was visited, a persona whose provider has a key gets
\* that provider's agent with the persona's own model, and no other gets in its
\* way; the others get the fallback.  base_url is to "override base URL for this
\* persona" (config.go:20): it does if the persona shares provider and model with
\* none that has another.  Of those that do share, the last that is visited
\* decides for all, and the property says nothing of their URL.
PersonaServedUnlessShared ==
  phase \in {"routes", "up"} =>
    \A n \in DOMAIN file.personas :
      LET served == Get(PoolKey(n)) IN
      IF HasKey(Persona(n).provider)
      THEN /\ served.agent = Agent(Persona(n).provider)
           /\ served.model = Persona(n).model
           /\ Sharing(n) = {} => served.url = Persona(n).base_url
      ELSE served = fallback

\* Entry n of the squads has no server and takes the place of one that has.
Overwrites(n) ==
  /\ ~file.squads[n].postgres
  /\ \E m \in 1..(n - 1) : /\ file.squads[m].id = file.squads[n].id
                           /\ file.squads[m].postgres

\* The two loops over the squads agree: the databases a user may ask for are
\* those of the server the registry has for the user's squad, and a squad without
\* a server has none there, also when entries of the configuration have one id.
\* Excepted is an entry without a server after one with a server: the user store
\* has the later one, whose empty list of databases lets all through, and the
\* registry goes on with the server of the earlier.
SquadsAgreeUnlessOverwritten ==
  \A k \in Keys :
    LET u == byKey[k] IN
    u.squad # 0 /\ ~Overwrites(u.squad)
      => registry[u.squad_id] =
           IF PostgresOn /\ file.squads[u.squad].postgres THEN u.squad ELSE 0

=============================================================================
