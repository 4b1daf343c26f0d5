----------------------------- MODULE PacketFifo -----------------------------
(***************************************************************************)
(* The telemetry packet FIFO (trecap_packet_fifo.sv) with its admission    *)
(* policy (trecap_priority_dropper.sv): Depth resident records and one     *)
(* capture slot in a flat payload RAM.  Only slot numbers move; payload is *)
(* written once and read in place, so a wrong slot is a torn record.       *)
(* Downstream, the ring writer as far as the FIFO sees it, and the flag by *)
(* which the top level admits a flush (trecap_de1soc_full_top.sv).         *)
(*                                                                         *)
(* One step is one clock edge.  A payload is a number of beats; a word of  *)
(* the RAM remembers which record and which beat it was written for.       *)
(***************************************************************************)
EXTENDS Integers, Sequences, FiniteSets

CONSTANTS
    Depth,      \* RECORD_DEPTH
    Words,      \* WORDS_PER_SLOT
    Shapes,     \* records the scheduler may present: [prio, beats, fault]
    MaxRecords  \* records presented in one behaviour

ASSUME FifoConstants ==
    /\ Depth \in Nat \ {0}
    /\ Words \in Nat \ {0}
    /\ MaxRecords \in Nat
    /\ Shapes \subseteq [prio : 0 .. 3, beats : Nat \ {0},
                         fault : {"none", "keep", "meta"}]

VARIABLES
    state,      \* fifo_state_q
    used,       \* slot_used_q, as a set of slots
    q,          \* q_meta, q_payload_len, q_slot and q_count_q
    tmp,        \* the record being captured: tmp_*_q
    ram,        \* payload_mem
    offset,     \* out_offset_q
    read,       \* the RAM read in flight: read_*_q and payload_read_q
    out,        \* the output register: output_*_q
    src,        \* the record the scheduler presents, with the beats sent
    writer,     \* the ring writer: "idle", also after a "wrap" it wrote for the
                \* next record ("wrapped"), "inside" a record of which it has
                \* taken a beat and waits for the next, "busy" otherwise
    taken,      \* not in the code: the record the writer is inside of
    idle,       \* transport_epoch_idle_q
    tally       \* records presented, captured, delivered and reported as
                \* dropped; not in the code: records a flush discarded

vars == <<state, used, q, tmp, ram, offset, read, out, src, writer, taken,
          idle, tally>>

Slots == 0 .. Depth
NoWord == [id |-> 0, beat |-> 0]
NoRead == [valid |-> FALSE, id |-> 0, word |-> NoWord, last |-> FALSE]
NoTmp == [id |-> 0, prio |-> 0, len |-> 0, slot |-> 0, bad |-> FALSE,
          lie |-> FALSE]
NoSource == [id |-> 0, prio |-> 0, beats |-> 0, fault |-> "none", sent |-> 0]

Address(slot, beat) == slot * Words + beat

\* The source presents fault = "keep" as an illegal byte enable on its last
\* beat and fault = "meta" as metadata that the captured payload contradicts.
LastBeat == src.sent + 1 = src.beats
KeepLegal == ~(src.fault = "keep" /\ LastBeat)

FreeSlots == Slots \ used
FreeSlot == CHOOSE s \in FreeSlots : \A t \in FreeSlots : s <= t

InReady ==
    state = "CAPTURE" \/ (state = "IDLE" /\ FreeSlots # {})
InputAccept(in) == in.valid /\ src # NoSource /\ InReady

CaptureOffset == IF state = "IDLE" THEN 0 ELSE tmp.len
CaptureSlot == IF state = "IDLE" THEN FreeSlot ELSE tmp.slot

\* Mutant: the payload is stored although it no longer fits its slot.
StoreEnableUnbounded(in) ==
    InputAccept(in) /\ (state = "IDLE" \/ ~tmp.bad) /\ KeepLegal

StoreEnable(in) ==
    /\ InputAccept(in)
    /\ state = "IDLE" \/ ~tmp.bad
    /\ KeepLegal
    /\ CaptureOffset + 1 <= Words

OutputAccept(in) == out.valid /\ in.ready
LastAccept(in) == OutputAccept(in) /\ out.last

\* Mutant: the RAM is read only while nothing is being captured.
ReadRequestShared(in) ==
    /\ q # <<>>
    /\ ~read.valid
    /\ ~out.valid \/ (OutputAccept(in) /\ ~out.last)
    /\ state # "CAPTURE"

ReadRequest(in) ==
    /\ q # <<>>
    /\ ~read.valid
    /\ ~out.valid \/ (OutputAccept(in) /\ ~out.last)
ReadOffset == IF out.valid THEN offset + 1 ELSE offset

----------------------------------------------------------------------------
(* Admission.  Index 1 of q is the record being read out.                  *)

Malformed == tmp.bad \/ tmp.lie

EvictableEquals(i) == i # 1 /\ q[i].prio <= tmp.prio
Evictable(i) == i # 1 /\ q[i].prio < tmp.prio

\* The least important evictable record, the oldest one among equals.
Victims == { i \in 1 .. Len(q) : Evictable(i) }
Victim == CHOOSE i \in Victims : \A j \in Victims :
             q[i].prio < q[j].prio \/ (q[i].prio = q[j].prio /\ i <= j)

Decision ==
    CASE ~Malformed /\ Len(q) < Depth -> "admit"
      [] ~Malformed /\ Len(q) = Depth /\ Victims # {} -> "evict"
      [] OTHER -> "drop"

\* The decision waits for a pop on the same edge, which may make room.
AdmitNow(in) == state = "ADMIT" /\ ~LastAccept(in)

Entry == [id |-> tmp.id, prio |-> tmp.prio, len |-> tmp.len, slot |-> tmp.slot]

\* The entries behind the i-th one move up by one place.
Without(i) == [j \in 1 .. Len(q) - 1 |-> IF j < i THEN q[j] ELSE q[j + 1]]

QueueNext(in) ==
    CASE LastAccept(in) -> Without(1)
      [] ~LastAccept(in) /\ AdmitNow(in) /\ Decision = "admit" ->
           Append(q, Entry)
      [] ~LastAccept(in) /\ AdmitNow(in) /\ Decision = "evict" ->
           Append(Without(Victim), Entry)
      [] OTHER -> q

Freed(in) ==
    CASE LastAccept(in) -> {q[1].slot}
      [] AdmitNow(in) /\ Decision = "evict" -> {q[Victim].slot}
      [] AdmitNow(in) /\ Decision = "drop" -> {tmp.slot}
      [] OTHER -> {}

Claimed(in) == IF state = "IDLE" /\ InputAccept(in) THEN {FreeSlot} ELSE {}

TmpNext(in) ==
    LET bad == ~KeepLegal \/ CaptureOffset + 1 > Words IN
    CASE state = "IDLE" /\ InputAccept(in) ->
           [id |-> src.id, prio |-> src.prio, len |-> 1, slot |-> FreeSlot,
            bad |-> bad, lie |-> src.fault = "meta"]
      [] state = "CAPTURE" /\ InputAccept(in) ->
           [tmp EXCEPT !.len = @ + 1, !.bad = @ \/ bad]
      [] AdmitNow(in) -> [NoTmp EXCEPT !.slot = tmp.slot]
      [] OTHER -> tmp

StateNext(in) ==
    CASE InputAccept(in) -> IF LastBeat THEN "ADMIT" ELSE "CAPTURE"
      [] AdmitNow(in) -> "IDLE"
      [] OTHER -> state

OutNext(in) ==
    CASE read.valid -> read
      [] ~read.valid /\ OutputAccept(in) -> [out EXCEPT !.valid = FALSE]
      [] OTHER -> out

ReadNext(in) ==
    IF ReadRequest(in)
      THEN [valid |-> TRUE, id |-> q[1].id,
            word |-> ram[Address(q[1].slot, ReadOffset)],
            last |-> ReadOffset + 1 >= q[1].len]
      ELSE [read EXCEPT !.valid = FALSE]

\* The scheduler holds a record until its last beat is taken.
SourceNext(in) ==
    CASE src = NoSource /\ in.shape \in Shapes ->
           [id |-> tally.offered + 1, prio |-> in.shape.prio, sent |-> 0,
            beats |-> in.shape.beats, fault |-> in.shape.fault]
      [] src # NoSource /\ InputAccept(in) ->
           IF LastBeat THEN NoSource ELSE [src EXCEPT !.sent = @ + 1]
      [] OTHER -> src

\* Mutant: an eviction is not reported as a drop.
TallyNextNoEviction(in) ==
    LET one(b) == IF b THEN 1 ELSE 0 IN
    [offered   |-> tally.offered + one(src = NoSource /\ in.shape \in Shapes),
     captured  |-> tally.captured + one(state = "IDLE" /\ InputAccept(in)),
     delivered |-> tally.delivered + one(LastAccept(in)),
     dropped   |-> tally.dropped + one(AdmitNow(in) /\ Decision = "drop"),
     flushed   |-> tally.flushed]

TallyNext(in) ==
    LET one(b) == IF b THEN 1 ELSE 0 IN
    [offered   |-> tally.offered + one(src = NoSource /\ in.shape \in Shapes),
     captured  |-> tally.captured + one(state = "IDLE" /\ InputAccept(in)),
     delivered |-> tally.delivered + one(LastAccept(in)),
     dropped   |-> tally.dropped + one(AdmitNow(in) /\ Decision # "admit"),
     flushed   |-> tally.flushed]

----------------------------------------------------------------------------
WriterIdle == writer \in {"idle", "wrapped"}

\* Mutant: a record that waits at the output does not count.
EpochIdleWriterOnly(flush) == WriterIdle

\* transport_epoch_idle_o; flush_i hides the output.
EpochIdle(flush) == WriterIdle /\ (flush \/ ~out.valid)

\* Records resident or in capture.
Held == Len(q) + (IF state = "IDLE" THEN 0 ELSE 1)

\* flush_i: the queue, the capture and the output are forgotten, and so is
\* the record the scheduler was sending.  No beat is transferred, the RAM is
\* left alone and nothing is reported as dropped: only tally.flushed, which the
\* code does not have, knows of the records that were resident or in capture.
Flush ==
    /\ state' = "IDLE"
    /\ used' = {}
    /\ q' = <<>>
    /\ tmp' = NoTmp
    /\ offset' = 0
    /\ read' = [read EXCEPT !.valid = FALSE]
    /\ out' = NoRead
    /\ src' = NoSource
    /\ idle' = EpochIdle(TRUE)
    /\ tally' = [tally EXCEPT !.flushed = @ + Held]
    /\ taken' = IF writer' = "inside" THEN taken ELSE 0
    /\ UNCHANGED ram

\* The writer on an edge on which it takes no beat: it writes a WRAP before
\* the record it is offered, faults in a WRAP or inside a record, or has
\* finished or been disabled and enabled again.
WriterTurns ==
    CASE writer = "idle" -> IF out.valid THEN {"idle", "wrap"} ELSE {"idle"}
      [] writer = "wrap" -> {"wrap", "wrapped", "busy"}
      [] writer = "inside" -> {"inside", "busy"}
      [] writer = "busy" -> {"busy", "idle"}
      [] OTHER -> {writer}

\* A start of the replay, or a change of the source.
FormatterFlush == idle /\ writer' \in WriterTurns \ {"wrap"} /\ Flush

\* A soft reset, or the clear from outside, takes the writer along.
SoftClear == writer' = "idle" /\ Flush

Clock(in) ==
    /\ state' = StateNext(in)
    /\ used' = (used \ Freed(in)) \cup Claimed(in)
    /\ q' = QueueNext(in)
    /\ tmp' = TmpNext(in)
    /\ ram' = IF StoreEnable(in)
                THEN [ram EXCEPT ![Address(CaptureSlot, CaptureOffset)] =
                                    [id |-> src.id, beat |-> CaptureOffset]]
                ELSE ram
    /\ offset' = CASE LastAccept(in) -> 0
                   [] OutputAccept(in) /\ ~out.last -> offset + 1
                   [] OTHER -> offset
    /\ read' = ReadNext(in)
    /\ out' = OutNext(in)
    /\ src' = SourceNext(in)
    /\ writer' = in.writer
    /\ taken' = CASE writer' # "inside" -> 0
                  [] OutputAccept(in) -> out.id
                  [] OTHER -> taken
    /\ idle' = EpochIdle(FALSE)
    /\ tally' = TallyNext(in)

NoShape == [prio |-> 0, beats |-> 0, fault |-> "none"]

Init ==
    /\ state = "IDLE"
    /\ used = {}
    /\ q = <<>>
    /\ tmp = NoTmp
    /\ ram = [a \in 0 .. (Depth + 1) * Words - 1 |-> NoWord]
    /\ offset = 0
    /\ read = NoRead
    /\ out = NoRead
    /\ src = NoSource
    /\ writer = "idle" /\ taken = 0 /\ idle = FALSE
    /\ tally = [offered |-> 0, captured |-> 0, delivered |-> 0, dropped |-> 0,
                flushed |-> 0]

\* A record the writer drops leaves it idle, one it has taken makes it busy.
AfterBeat == IF out.last THEN {"idle", "busy"} ELSE {"inside"}

Offered == out.valid /\ (WriterIdle \/ writer = "inside")

\* Inputs that cannot matter in this state are not enumerated.
Inputs ==
    UNION {
      [valid  : IF src = NoSource THEN {FALSE} ELSE BOOLEAN,
       ready  : {ready},
       writer : IF ready THEN AfterBeat ELSE WriterTurns,
       shape  : IF src = NoSource /\ tally.offered < MaxRecords
                  THEN Shapes \cup {NoShape} ELSE {NoShape}] :
      ready \in IF Offered THEN BOOLEAN ELSE {FALSE} }

Next == FormatterFlush \/ SoftClear \/ \E in \in Inputs : Clock(in)

Spec == Init /\ [][Next]_vars

\* Edges on which the writer takes what it is offered and finishes what it is
\* busy with, and the scheduler, as for a cycle after every record, sends no
\* beat.
PromptInputs ==
    [valid : {FALSE}, ready : {Offered},
     writer : CASE Offered -> AfterBeat
                [] writer = "wrap" -> {"wrapped"}
                [] writer = "busy" -> {"idle"}
                [] OTHER -> {writer},
     shape : {NoShape}]

\* The clock runs and the writer goes on; at last a WRAP is written without a
\* fault.
ConsumerGoesOn ==
    /\ WF_vars(\E in \in PromptInputs : Clock(in))
    /\ <>[][~(writer = "wrap" /\ writer' = "busy")]_vars

----------------------------------------------------------------------------
\* The payload of a resident record stays in the RAM as it was captured until
\* the record leaves, whatever is captured, evicted, flushed or over-long
\* meanwhile.
ResidentPayloadKept ==
    \A i \in 1 .. Len(q) : \A b \in 0 .. q[i].len - 1 :
        ram[Address(q[i].slot, b)] = [id |-> q[i].id, beat |-> b]

\* Every record captured is resident, in capture, delivered once, reported once
\* as dropped, or was discarded by a flush.  The last is a loss the code counts
\* nowhere: drop_pulse_o stays low, and the flush conditions of
\* trecap_de1soc_full_top.sv see the output register only, not the records
\* behind it.  Without a flush, captured = delivered + dropped + held.
EveryRecordAccounted ==
    tally.captured = tally.delivered + tally.dropped + tally.flushed + Held

\* A resident record disappears without being delivered only in favour of a
\* more important one, and one of the top priority (STATUS) never does.
EvictedForBetter ==
    [][ \A i \in 1 .. Len(q) :
          \/ \E j \in 1 .. Len(q') : q'[j].id = q[i].id
          \/ i = 1 /\ out.valid /\ out.last
          \/ q' = <<>>
          \/ q'[Len(q')].prio > q[i].prio /\ q'[Len(q')].id = tmp.id ]_vars

\* The record at the head leaves while the consumer takes beats, even when
\* the scheduler stops in the middle of the next record.
HeadLeaves ==
    ConsumerGoesOn =>
        \A n \in 1 .. MaxRecords :
            (q # <<>> /\ q[1].id = n) ~> ~(q # <<>> /\ q[1].id = n)

\* A record of which the writer has taken a beat stays at the head until the
\* writer has its last beat: neither an eviction nor a flush that the idle
\* flag, a cycle old, admits cuts it, so the writer never waits for beats
\* that are gone nor takes those of another record for them.
WriterInsideHead ==
    writer = "inside" => q # <<>> /\ q[1].id = taken
============================================================================
