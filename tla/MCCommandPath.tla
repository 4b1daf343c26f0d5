--------------------------- MODULE MCCommandPath ---------------------------
(* A command whose argument is at the limit, one whose argument is below   *)
(* it, one of version 2 only, and the PING.  Sequence numbers of four bits *)
(* that wrap in the first session.                                         *)
EXTENDS CommandPath

Request(type, a0) == [type |-> type, a0 |-> a0, a1 |-> 0, a2 |-> 0]
MCRequests == { Request("SET_WAVE_DECIM", 1), Request("SET_WAVE_DECIM", 0),
                Request("START_BRAM_REPLAY", 0), Request("PING", 0) }
============================================================================
