--------------------------- MODULE MCRateLimiter ---------------------------
(***************************************************************************)
(* Instance of RateLimiter for TLC: three requests of an API key or of a   *)
(* connection without one, a limit of two a minute, a minute of three      *)
(* clock units and a sweep every two: more often than in the code, where   *)
(* five minutes pass between two.                                          *)
(***************************************************************************)
EXTENDS RateLimiter

MCLimit == 2
MCMinute == 3
MCCleanupEvery == 2
MCMaxTime == 4

=============================================================================
