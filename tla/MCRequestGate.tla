--------------------------- MODULE MCRequestGate ---------------------------
(***************************************************************************)
(* Instance of RequestGate for TLC: two requests, with keys of analysts    *)
(* with and without persona, an administrator, a viewer, or nobody.  One   *)
(* persona excludes three tools and may query everything; another excludes *)
(* nine and may query PostgreSQL only; the third excludes nothing and may  *)
(* query a source there is none of.                                        *)
(***************************************************************************)
EXTENDS RequestGate, TLC

CONSTANTS analyst, plain, admin, guest, intern, legacy, stranger,
          broad, narrow, misspelt

MCRoleOf == (analyst :> "analyst") @@ (plain :> "analyst") @@
            (admin :> "admin") @@ (guest :> "viewer") @@ (intern :> "analyst")
MCPersonaOf ==
  (analyst :> broad) @@ (plain :> NoPersona) @@
  (admin :> narrow) @@ (guest :> broad) @@ (intern :> misspelt)

MCProvider == (broad :> "deepseek") @@ (narrow :> "anthropic") @@
              (misspelt :> "anthropic") @@ (NoPersona :> "anthropic")
MCAllowed == (broad :> {}) @@ (narrow :> {"postgres"}) @@
             (misspelt :> {"other"}) @@ (NoPersona :> {})

MCExcluded ==
  (broad :> <<<<"bigquery", "sample">>, <<"postgres", "sample">>,
              <<"bigquery", "datasets">>>>) @@
  (narrow :> <<<<"bigquery", "sample">>, <<"bigquery", "datasets">>,
               <<"elasticsearch", "datasets">>, <<"elasticsearch", "execute">>,
               <<"bigquery", "tables">>, <<"bigquery", "schema">>,
               <<"bigquery", "execute">>, <<"postgres", "datasets">>,
               <<"postgres", "sample">>>>) @@
  (misspelt :> << >>) @@ (NoPersona :> << >>)

MCSize == (broad :> 3) @@ (narrow :> 9) @@ (misspelt :> 0) @@ (NoPersona :> 0)

\* encoding/json grows a slice to 1, 2, 4, 8, 16.
MCCapacity ==
  (broad :> 4) @@ (narrow :> 16) @@ (misspelt :> 0) @@ (NoPersona :> 0)

Alike == Permutations(Requests)

=============================================================================
