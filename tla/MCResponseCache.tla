-------------------------- MODULE MCResponseCache --------------------------
(***************************************************************************)
(* Instance of ResponseCache for TLC: two users share a prompt style but   *)
(* neither persona nor squad, a third has a style of its own.  One prompt  *)
(* and one dataset are enough: keys differ by style.                       *)
(***************************************************************************)
EXTENDS ResponseCache, TLC

CONSTANTS u1, u2, u3, plain, formal, analyst, lead, pg1, pg2

MCStyleOf == (u1 :> plain) @@ (u2 :> plain) @@ (u3 :> formal)
MCPersonaOf == (u1 :> NoPersona) @@ (u2 :> analyst) @@ (u3 :> lead)
MCServerOf == (u1 :> pg1) @@ (u2 :> pg2) @@ (u3 :> pg2)

=============================================================================
