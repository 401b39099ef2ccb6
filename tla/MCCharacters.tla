---------------------------- MODULE MCCharacters ----------------------------
(* Users of two channels that want the same nicknames, for TLC. *)
EXTENDS Characters

CONSTANTS c1, c2, u1, u2, n1, n2
=============================================================================
