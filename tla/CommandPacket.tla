--------------------------- MODULE CommandPacket ---------------------------
(***************************************************************************)
(* The 28-byte command request as the two ends judge it: the dashboard's   *)
(* command_client.py before it sends, the HPS command server after it      *)
(* receives.  A packet is its type, version and three 32-bit arguments;    *)
(* the magic, the length and the disabled CRC are the same in every packet *)
(* either end builds.                                                      *)
(***************************************************************************)
EXTENDS Integers

CONSTANTS
    Word,      \* 2^32, the modulus of an argument
    HiLimit    \* 2^24, the limit of the high half of a 56-bit threshold

ASSUME WordAssumption ==
    Word \in Nat /\ HiLimit \in Nat /\ 0 < HiLimit /\ HiLimit < Word

U32 == 0 .. Word - 1

\* generated/trecap_packet.py COMMAND_TYPE_MIN_VERSION: the seven types of
\* version 1 and the seven that version 2 adds.
V1Types == { "SET_THR2", "CLEAR_METRICS", "SET_SOURCE_MODE",
             "SET_PACKET_ENABLE", "SET_WAVE_DECIM", "SET_SPEC_SHIFT", "PING" }
V2Only == { "SET_SPEC_MODE", "SET_TELEMETRY_ENABLE", "CONFIGURE_DDR_RING",
            "RESET_TRANSPORT", "CLEAR_COUNTERS", "START_BRAM_REPLAY",
            "READ_STATUS_VERSION" }
Types(version) == IF version = 1 THEN V1Types ELSE V1Types \cup V2Only

Packets == [type : V1Types \cup V2Only, version : {1, 2},
            a0 : U32, a1 : U32, a2 : U32]

\* WAVE_DECIM is 16 bits wide.
DecimMax == 65535

\* join_thr2: (hi << 32) | lo must be an unsigned 56-bit number.
ThresholdFits(lo, hi) == hi * Word + lo <= HiLimit * Word - 1

(***************************************************************************)
(* validate_command_packet of the client: the value checks first, then the *)
(* arguments that must be zero.  PACKET_ENABLE_ALLOWED_MASK is the four    *)
(* low bits.                                                               *)
(***************************************************************************)
\* The commands with one argument, and those with none.
Valued == { "SET_SOURCE_MODE", "SET_PACKET_ENABLE", "SET_WAVE_DECIM",
            "SET_SPEC_SHIFT", "SET_SPEC_MODE", "SET_TELEMETRY_ENABLE" }
Bare == { "CLEAR_METRICS", "CONFIGURE_DDR_RING", "RESET_TRANSPORT",
          "CLEAR_COUNTERS", "START_BRAM_REPLAY", "READ_STATUS_VERSION" }

ClientArgs(p) ==
    /\ p.type = "SET_THR2" => ThresholdFits(p.a0, p.a1) /\ p.a2 = 0
    /\ p.type = "SET_SOURCE_MODE" => p.a0 \in 0 .. 3
    /\ p.type = "SET_PACKET_ENABLE" => p.a0 \in 0 .. 15
    /\ p.type = "SET_WAVE_DECIM" => p.a0 \in 1 .. DecimMax
    /\ p.type = "SET_SPEC_SHIFT" => p.a0 \in 0 .. 55
    /\ p.type = "SET_SPEC_MODE" => p.a0 \in 0 .. 2
    /\ p.type = "SET_TELEMETRY_ENABLE" => p.a0 \in {0, 1}
    /\ p.type \in Valued => p.a1 = 0 /\ p.a2 = 0
    /\ p.type \in Bare => p.a0 = 0 /\ p.a1 = 0 /\ p.a2 = 0

ClientValid(p) == p.type \in Types(p.version) /\ ClientArgs(p)

(***************************************************************************)
(* validate_envelope and validate_args of the server: the reason of the    *)
(* reject, the arguments that must be zero first.                          *)
(***************************************************************************)
Reserved(p) ==
    \/ p.type \in Bare /\ p.a0 /= 0
    \/ p.type \in Bare \cup Valued /\ p.a1 /= 0
    \/ p.type \in Bare \cup Valued \cup {"SET_THR2"} /\ p.a2 /= 0

InRange(p) ==
    /\ p.type = "SET_THR2" => p.a1 \div HiLimit = 0
    /\ p.type = "SET_SOURCE_MODE" => p.a0 <= 3
    /\ p.type = "SET_PACKET_ENABLE" => p.a0 \div 16 = 0
    /\ p.type = "SET_WAVE_DECIM" => p.a0 /= 0 /\ p.a0 <= DecimMax
    /\ p.type = "SET_SPEC_SHIFT" => p.a0 <= 55
    /\ p.type = "SET_SPEC_MODE" => p.a0 <= 2
    /\ p.type = "SET_TELEMETRY_ENABLE" => p.a0 <= 1

ServerReason(p) ==
    IF p.type \notin Types(p.version) THEN "UNSUPPORTED_TYPE"
    ELSE IF Reserved(p) THEN "RESERVED_ARGUMENT"
    ELSE IF ~InRange(p) THEN "RANGE" ELSE "NONE"
============================================================================
