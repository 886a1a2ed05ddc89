--------------------------- MODULE MCSchemaCache ---------------------------
(***************************************************************************)
(* Instance of SchemaCache for TLC.                                        *)
(***************************************************************************)
EXTENDS SchemaCache

MCMaxVersion == 1

=============================================================================
