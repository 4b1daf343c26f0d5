------------------------- MODULE MCPacketScheduler -------------------------
(* The highest and the lowest priority, and the source whose type depends  *)
(* on a mode; records of one beat, and with a first and a last beat.       *)
EXTENDS PacketScheduler

MCSources == {"status", "spec", "wave"}
MCLengths == {1, 2}
=============================================================================
