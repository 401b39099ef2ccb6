------------------------------ MODULE Presence ------------------------------
(***************************************************************************)
(* What the sessions in the database promise: a user enters a channel only *)
(* when it is on none, so that it never is on two and never moves from one *)
(* to another without having left.                                         *)
(***************************************************************************)
CONSTANTS Channel, User

VARIABLE where   \* the channels each user is on

PresenceInit == where = [u \in User |-> {}]

Enter(u, c) ==
  /\ where[u] = {}
  /\ where' = [where EXCEPT ![u] = {c}]

Leave(u, c) == where' = [where EXCEPT ![u] = @ \ {c}]

\* The process of channel c ends.
Close(c) == where' = [u \in User |-> where[u] \ {c}]

PresenceNext ==
  \E c \in Channel :
    \/ Close(c)
    \/ \E u \in User : Enter(u, c) \/ Leave(u, c)

PresenceSpec == PresenceInit /\ [][PresenceNext]_where
=============================================================================
