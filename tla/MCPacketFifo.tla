---------------------------- MODULE MCPacketFifo ----------------------------
(* Three resident records and the capture slot; WAVE and STATUS records of   *)
(* one or two beats, one too long for its slot, one whose metadata does    *)
(* not match.                                                              *)
EXTENDS PacketFifo

Shape(prio, beats, fault) == [prio |-> prio, beats |-> beats, fault |-> fault]
MCShapes == { Shape(0, 1, "none"), Shape(2, 2, "none"), Shape(3, 1, "none"),
              Shape(3, 3, "none"), Shape(0, 1, "meta"), Shape(2, 2, "keep") }
=============================================================================
