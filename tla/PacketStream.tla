---------------------------- MODULE PacketStream ----------------------------
(***************************************************************************)
(* What the outgoing side of a TCPConnection promises to the handlers that *)
(* call WritePacket: the packets it accepts reach the client in the order  *)
(* in which they were accepted, each once, and all of them as long as the  *)
(* connection stays open.                                                  *)
(***************************************************************************)
EXTENDS Sequences, Naturals

CONSTANT Buffer   \* packets with their header

VARIABLES
  accepted,   \* packets WritePacket has accepted
  delivered,  \* packets the client has received
  open        \* the socket is open

streamVars == <<accepted, delivered, open>>

StreamInit ==
  /\ accepted = <<>>
  /\ delivered = <<>>
  /\ open = TRUE

Accept ==
  /\ open
  /\ \E b \in Buffer : accepted' = Append(accepted, b)
  /\ UNCHANGED <<delivered, open>>

\* A write that had begun may still complete after the socket was closed.
Deliver ==
  /\ Len(delivered) < Len(accepted)
  /\ delivered' = Append(delivered, accepted[Len(delivered) + 1])
  /\ UNCHANGED <<accepted, open>>

Close ==
  /\ open
  /\ open' = FALSE
  /\ UNCHANGED <<accepted, delivered>>

StreamNext == Accept \/ Deliver \/ Close

\* In order and once, and the promise of delivery.
StreamSafe == StreamInit /\ [][StreamNext]_streamVars
StreamLive == WF_streamVars(open /\ Deliver)
StreamSpec == StreamSafe /\ StreamLive
=============================================================================
