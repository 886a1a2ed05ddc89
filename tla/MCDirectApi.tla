----------------------------- MODULE MCDirectApi -----------------------------
(***************************************************************************)
(* Two calls on a pool of one connection, answers of at most one item, a   *)
(* byte limit of 1, and two index patterns, each matching one of two       *)
(* indices: the configuration allows the first, a squad has the second or  *)
(* none.  The first pattern also matches an expression, like               *)
(* "logs-a,secret" for "logs-*", that reaches both indices.                *)
(***************************************************************************)
EXTENDS DirectApi

CONSTANTS c1, c2, p1, p2, i1, i2, both, shared

MCCalls == {c1, c2}
MCPatterns == {p1, p2}
MCIndices == {i1, i2}
MCExpressions == {i1, i2, both}
MCReaches == [e \in MCExpressions |-> IF e = both THEN MCIndices ELSE {e}]
MCMatches == {<<p1, i1>>, <<p1, both>>, <<p2, i2>>}
MCServicePatterns == {p1}
MCScopes == {{}, {p2}}

=============================================================================
