---------------------------- MODULE MCLobbyViews ----------------------------
(***************************************************************************)
(* Module LobbyViews on a small channel.                                   *)
(***************************************************************************)
EXTENDS LobbyViews, TLC

Symmetry == Permutations(User)
=============================================================================
