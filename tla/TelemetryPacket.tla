-------------------------- MODULE TelemetryPacket --------------------------
(***************************************************************************)
(* One telemetry datagram as its four readers judge it: the HPS before it  *)
(* forwards a ring record (ring_reader.c, ring_reader.h), the dashboard's  *)
(* parser (packet_parser.py), the smoke receiver (smoke_udp_recv.py) and   *)
(* the capture triage tool (parse_telemetry_capture.py).  What a record's  *)
(* place in the ring adds to the checks of the HPS is in RingTransport.    *)
(*                                                                         *)
(* A packet keeps of its bytes what some reader looks at:                  *)
(*   envelope  magic, version and header_bytes are right, header_crc is 0  *)
(*   type      the packet type, UNKNOWN for a number that names none       *)
(*   flags     the flag bits that are set                                  *)
(*   seq       the sequence number                                         *)
(*   stamped   the timestamp is the payload's own base, index or count     *)
(*   payload   payload_bytes;   len  the bytes that arrived                *)
(*   count     nsamp or nbin;   shift  spec_shift                          *)
(*   clean     channels is 3, stride is not 0, the reserved field and the  *)
(*             unused bits of the mask are 0                               *)
(***************************************************************************)
EXTENDS Integers

HeaderBytes == 32
UdpMax == 1200
ShiftMax == 55

Forwardable == {"WAVE", "SPEC64", "SPEC129", "METRICS", "STATUS"}
Types == Forwardable \cup {"PEAKS", "DEBUG", "WRAP", "UNKNOWN"}
Flags == {"truncated", "scaled", "aggregate", "per_frame", "crc",
          "diagnostic", "reserved"}

Packets == [envelope : BOOLEAN, type : Types, flags : SUBSET Flags,
            seq : Nat, stamped : BOOLEAN, payload : Nat, len : Nat,
            count : Nat, shift : Nat, clean : BOOLEAN]

\* PAYLOAD_RULES of generated/trecap_packet.py.
Exact(t) == CASE t = "SPEC129" -> 287
              [] t = "SPEC64" -> 268
              [] t = "METRICS" -> 56
              [] t = "STATUS" -> 72
              [] OTHER -> 0
RuleFits(p) ==
    \/ p.type = "WAVE" /\ p.payload \in 22 .. 1168
    \/ p.type \in {"SPEC129", "SPEC64", "METRICS", "STATUS", "WRAP"}
       /\ p.payload = Exact(p.type)

Diagnostic(p) == p.type = "STATUS" /\ "diagnostic" \in p.flags

\* The one metrics class, and no scaling.
MetricsFlags(p) ==
    /\ ("aggregate" \in p.flags) /= ("per_frame" \in p.flags)
    /\ "scaled" \notin p.flags

----------------------------------------------------------------------------
(* The HPS ring reader.                                                    *)

ReaderFlags(p) ==
    /\ p.flags \cap {"reserved", "crc", "diagnostic"} = {}
    /\ IF p.type = "METRICS" THEN MetricsFlags(p)
       ELSE /\ p.flags \cap {"aggregate", "per_frame"} = {}
            /\ p.type \in {"STATUS", "WRAP"} => p.flags = {}

ReaderSize(p) ==
    \/ /\ p.type = "WAVE" /\ p.payload \in 22 .. 1168
       /\ (p.payload - 16) % 6 = 0
       /\ (p.payload - 16) \div 6 \in 1 .. 192
    \/ p.type \in Forwardable \ {"WAVE"} /\ p.payload = Exact(p.type)

ReaderPayload(p) ==
    /\ p.stamped
    /\ CASE p.type = "WAVE" -> /\ p.count \in 1 .. 192 /\ p.clean
                               /\ p.payload = 16 + 6 * p.count
         [] p.type = "SPEC129" -> p.count = 129 /\ p.shift <= ShiftMax /\ p.clean
         [] p.type = "SPEC64" -> p.count = 64 /\ p.shift <= ShiftMax
         [] p.type = "METRICS" -> TRUE
         [] p.type = "STATUS" -> p.clean
         [] OTHER -> FALSE

ReaderForwards(p) ==
    /\ p.envelope
    /\ p.type \in Forwardable
    /\ ReaderFlags(p)
    /\ HeaderBytes + p.payload <= UdpMax
    /\ ReaderSize(p)
    /\ ReaderPayload(p)

\* The datagram the HPS sends for a record is the record without its padding.
Forwarded(p) == ReaderForwards(p) /\ p.len = HeaderBytes + p.payload

\* The answer to a PING, as trecap_status_build_diagnostic writes it.
DiagnosticReply(p) ==
    /\ p.envelope /\ p.type = "STATUS" /\ p.flags = {"diagnostic"}
    /\ p.seq = 0 /\ p.payload = Exact("STATUS") /\ p.stamped /\ p.clean
    /\ p.len = HeaderBytes + p.payload

----------------------------------------------------------------------------
(* TelemetryPacketParser of the dashboard.  A verdict is "ok", "error" for *)
(* the PacketParserError that receive_event reports, or "raise" for any    *)
(* other exception.                                                        *)

ParserHeader(p) ==
    /\ p.len >= HeaderBytes
    /\ p.envelope
    /\ p.type /= "UNKNOWN"
    /\ p.flags \cap {"crc", "reserved"} = {}
    /\ "diagnostic" \in p.flags => p.type = "STATUS"
    /\ p.type \notin {"PEAKS", "DEBUG", "WRAP"}
    /\ p.len = HeaderBytes + p.payload
    /\ HeaderBytes + p.payload <= UdpMax

ParserPayload(p) ==
    CASE p.type = "WAVE" -> /\ p.payload = 16 + 6 * p.count
                            /\ p.stamped /\ p.clean
      [] p.type = "SPEC129" -> /\ p.stamped /\ p.count = 129
                               /\ p.shift \in 0 .. ShiftMax /\ p.clean
      [] p.type = "SPEC64" -> /\ p.stamped /\ p.count = 64
                              /\ p.shift \in 0 .. ShiftMax
      [] p.type = "METRICS" -> MetricsFlags(p)
      [] p.type = "STATUS" -> /\ p.clean
                              /\ IF Diagnostic(p) THEN p.seq = 0
                                 ELSE p.stamped

\* expected_payload_bytes raises a ValueError that is no PacketParserError
\* when nsamp is outside its range.
ParserVerdict(p) ==
    IF ~ParserHeader(p) \/ ~RuleFits(p) THEN "error"
    ELSE IF p.type = "WAVE" /\ p.count \notin 1 .. 192 THEN "raise"
    ELSE IF ParserPayload(p) THEN "ok" ELSE "error"

\* participates_in_sequence.
Participates(p) == p.type /= "WRAP" /\ ~Diagnostic(p)

----------------------------------------------------------------------------
(* The two validators of the bring-up tools share the checks of the header *)
(* and of the payload; a payload that is not all there is not looked into. *)

ToolHeader(p) ==
    /\ p.len >= HeaderBytes
    /\ p.envelope
    /\ p.type /= "UNKNOWN"
    /\ p.flags \cap {"crc", "reserved"} = {}
    /\ "diagnostic" \in p.flags => p.type = "STATUS"
    /\ HeaderBytes + p.payload <= UdpMax
    /\ p.len >= HeaderBytes + p.payload
    /\ p.type /= "WRAP"

ToolPayload(p) ==
    /\ RuleFits(p)
    /\ CASE p.type = "WAVE" -> /\ p.stamped /\ p.clean
                               /\ p.count \in 1 .. 192
                               /\ p.payload = 16 + 6 * p.count
         [] p.type = "SPEC129" -> p.stamped /\ p.count = 129 /\ p.clean
         [] p.type = "SPEC64" -> p.stamped /\ p.count = 64
         [] p.type = "METRICS" -> MetricsFlags(p)
         [] p.type = "STATUS" -> p.clean /\ (Diagnostic(p) \/ p.stamped)
         [] OTHER -> TRUE

\* validate_datagram of the smoke receiver reads the last byte of a SPEC129
\* mask that a short payload does not have; only struct.error is caught.
SmokeVerdict(p) ==
    IF /\ p.type = "SPEC129" /\ p.payload \in 12 .. 286
       /\ p.len >= HeaderBytes + p.payload
    THEN "raise"
    ELSE IF ToolHeader(p) /\ p.len = HeaderBytes + p.payload /\ ToolPayload(p)
    THEN "ok" ELSE "error"

\* validate_record of the triage tool takes a record that is longer than
\* its header says, and catches the missing byte.
CaptureVerdict(p) == IF ToolHeader(p) /\ ToolPayload(p) THEN "ok" ELSE "error"

----------------------------------------------------------------------------
\* _validate_diagnostic_status: what the command client takes for the answer
\* to its PING.
ClientTakes(p) ==
    /\ p.len = HeaderBytes + Exact("STATUS")
    /\ p.envelope
    /\ p.type = "STATUS"
    /\ p.flags = {"diagnostic"}
    /\ p.seq = 0
    /\ p.payload = Exact("STATUS")
    /\ p.clean
============================================================================
