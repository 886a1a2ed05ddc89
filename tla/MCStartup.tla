------------------------------ MODULE MCStartup ------------------------------
(***************************************************************************)
(* Three personas with every choice out of five configurations, among them *)
(* two that differ in their base_url only; up to three squads under two    *)
(* ids, with and without a PostgreSQL server; users with one key, and one  *)
(* key that is a legacy key as well; four environments.                    *)
(***************************************************************************)
EXTENDS Startup

CONSTANTS ceo, dev, ops, m1, m2, u1, s1, s2, k1, k2, k3

MCPersonas == {ceo, dev, ops}
MCKeys == {k1, k2, k3}

PersonaChoices ==
  {[provider |-> "deepseek", model |-> m1, base_url |-> NoURL],
   [provider |-> "deepseek", model |-> m1, base_url |-> u1],
   [provider |-> "deepseek", model |-> m2, base_url |-> u1],
   [provider |-> "anthropic", model |-> m1, base_url |-> NoURL],
   [provider |-> "", model |-> m1, base_url |-> u1]}

WithSettings(given) ==
  [s \in Settings |-> IF s \in DOMAIN given THEN given[s] ELSE "absent"]

User(k, s, p) == [api_key |-> k, squad_id |-> s, persona |-> p]

FilesOfPersonas ==
  {[settings |-> WithSettings([ANTHROPIC_API_KEY |-> "key", GCP_PROJECT_ID |-> "project"]),
    personas |-> ps,
    squads |-> <<>>,
    users |-> <<User(k1, NoSquad, ceo)>>,
    api_keys |-> {}] : ps \in [MCPersonas -> PersonaChoices]}

SquadLists == UNION {[1..n -> [id : {s1, s2}, postgres : BOOLEAN]] : n \in 0..3}

FilesOfSquads ==
  {[settings |-> WithSettings([POSTGRES_ENABLED |-> "on"]),
    personas |-> <<>>,
    squads |-> ss,
    users |-> <<User(k1, s1, ""), User(NoKey, s1, ""), User(k1, s2, ""), User(k2, s1, "")>>,
    api_keys |-> {k2, k3}] : ss \in SquadLists}

MCFiles == {NoFile} \cup FilesOfPersonas \cup FilesOfSquads

WithEnv(given) == [s \in Settings |-> IF s \in DOMAIN given THEN given[s] ELSE ""]

MCEnvironments ==
  {WithEnv(<<>>),
   WithEnv([DEEPSEEK_API_KEY |-> "key", LLM_PROVIDER |-> "deepseek"]),
   WithEnv([POSTGRES_ENABLED |-> "1", ELASTICSEARCH_ENABLED |-> "true"]),
   WithEnv([POSTGRES_ENABLED |-> "yes", ENABLE_AUTH |-> "true"])}

=============================================================================
