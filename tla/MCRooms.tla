------------------------------ MODULE MCRooms ------------------------------
(***************************************************************************)
(* Module Rooms on a small channel, with its users interchangeable.        *)
(***************************************************************************)
EXTENDS Rooms, TLC

Symmetry == Permutations(User)
=============================================================================
