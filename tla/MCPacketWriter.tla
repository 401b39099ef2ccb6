--------------------------- MODULE MCPacketWriter ---------------------------
(***************************************************************************)
(* Module PacketWriter with small packets, one that only just fits and two *)
(* that do not: 65533 bytes exceed the buffer, 65537 the length field too. *)
(***************************************************************************)
EXTENDS PacketWriter

CONSTANTS small, full, over, huge, key1, key2

MCPacket == {small, full, over, huge, key1, key2}
MCSize == [p \in MCPacket |->
             CASE p = small -> 5
               [] p = full -> 65532
               [] p = over -> 65533
               [] p = huge -> 65537
               [] OTHER -> 66]
=============================================================================
