---------------------------- MODULE MCConnections ----------------------------
(* A user that comes and goes on the connections of a channel, for TLC. *)
EXTENDS Connections

CONSTANTS k1, k2, u1
=============================================================================
