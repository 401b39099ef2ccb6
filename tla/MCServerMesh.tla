---------------------------- MODULE MCServerMesh ----------------------------
(* Two channels on two servers for TLC. *)
EXTENDS ServerMesh, TLC

CONSTANTS c1, c2, s1, s2

MCServerOf == (c1 :> s1) @@ (c2 :> s2)
=============================================================================
