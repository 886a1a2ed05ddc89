---------------------------- MODULE MCLifecycle ----------------------------
(***************************************************************************)
(* Instance of Lifecycle for TLC: three requests for the databases of two  *)
(* squads or for BigQuery, either squad with or without a server of its    *)
(* own, and a grace period of one clock unit.                              *)
(***************************************************************************)
EXTENDS Lifecycle, TLC

CONSTANTS d1, d2, q1, q2

MCSquadOf == (d1 :> q1) @@ (d2 :> q2)
MCGrace == 1
MCMaxTime == 2

=============================================================================
