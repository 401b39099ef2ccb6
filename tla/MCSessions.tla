----------------------------- MODULE MCSessions -----------------------------
(***************************************************************************)
(* Module Sessions with a few channels, which are interchangeable, as the  *)
(* users are.                                                              *)
(***************************************************************************)
EXTENDS Sessions, TLC

Symmetry == Permutations(Channel) \cup Permutations(User)
=============================================================================
