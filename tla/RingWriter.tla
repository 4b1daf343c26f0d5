----------------------------- MODULE RingWriter -----------------------------
(***************************************************************************)
(* The FPGA DDR ring writer: the writer state machine                      *)
(* (trecap_ddr_ring_writer.sv), its record builder                         *)
(* (trecap_ddr_record_builder.sv), its Avalon-MM write master              *)
(* (trecap_avmm_write_master.sv) and the pointer controller, with the DDR  *)
(* memory behind a bus that stalls, answers late and answers with errors.  *)
(*                                                                         *)
(* One step is one clock edge; every register is computed from the values  *)
(* before the edge.  Lengths are in units of 32 bytes; one modelled output *)
(* beat, and one word of the memory, is a 64-byte block.  A register whose *)
(* value is not read before it is loaded again is cleared, and the status  *)
(* flags that only the CSR bank reads are left out.                        *)
(***************************************************************************)
EXTENDS Integers, Sequences, FiniteSets

CONSTANTS
    Configs, MinSize, Guard, Lengths, PtrLimit, SeqLimit,
    RingSize,   \* size of the configured ring, one of Configs
    Records,    \* what the packet FIFO may present
    WBound      \* no record is presented once W has reached this value

\* A record at the FIFO output: its padded length, its payload beats and how
\* many are left, whether its metadata is legal, and whether the payload
\* contradicts the metadata.
NoRecord == [len |-> 0, total |-> 0, left |-> 0, class |-> "none",
             torn |-> FALSE]

ASSUME WriterConstants ==
    /\ RingSize \in Nat \ {0}
    /\ [size |-> RingSize, base64 |-> TRUE] \in Configs
    /\ WBound \in Nat
    /\ Records \subseteq [len : Nat, total : Nat \ {0}, left : Nat,
                          class : {"legal", "malformed", "oversized"},
                          torn : BOOLEAN]
    /\ \A r \in Records : r.left = r.total

VARIABLES
    size, legal, W, Rd, epoch, seq, snap, snapValid, error, pulse,
    enable,     \* telemetry_enable && ring_writer_enable, from the CSR bank
    head,       \* the record at the packet FIFO output, with the beats left
    wr,         \* registers of the writer state machine
    bld,        \* registers of the record builder
    avm,        \* registers of the write master
    bus,        \* the accepted write that has not been answered
    mem,        \* DDR contents, one word per 64-byte block
    owed        \* a record was taken and is in no counter yet

ptrVars == <<size, legal, W, Rd, epoch, seq, snap, snapValid, error, pulse>>
vars == <<ptrVars, enable, head, wr, bld, avm, bus, mem, owed>>

P == INSTANCE RingPointerCtrl

WriterIdleRegs == [state |-> "IDLE", kind |-> "none", len |-> 0, addr |-> 0,
                   open |-> FALSE, issued |-> FALSE,
                   sent |-> FALSE]
BuilderIdle == [state |-> "IDLE", kind |-> "none", len |-> 0, seq |-> 0,
                got |-> 0, want |-> 0, bad |-> FALSE, off |-> 0,
                pulse |-> "none"]
Beat == 2
NoWord == [kind |-> "none", len |-> 0, seq |-> 0, i |-> 0]
MasterIdle == [state |-> "IDLE", addr |-> 0, left |-> 0, hold |-> NoWord,
               last |-> FALSE, completes |-> FALSE, sticky |-> FALSE,
               accept |-> FALSE, done |-> FALSE, err |-> FALSE]
NoWrite == [addr |-> 0, word |-> NoWord]

Held == avm.hold # NoWord
WriterIdle == wr.state = "IDLE" /\ bld.state = "IDLE"
              /\ avm.state = "IDLE" /\ ~Held

----------------------------------------------------------------------------
(* Combinational nets.  "in" holds what the outside does on this edge: the *)
(* host's CSR access, the FIFO's valid and next record, the bus.           *)

Clear(in) == in.host = "reset"
\* Mutant: the sub-blocks stop as soon as the host disables the writer.
KeepWhileEnabled(in) == ~Clear(in) /\ enable

Keep(in) == ~Clear(in) /\ (enable \/ ~WriterIdle)
SubClear(in) == Clear(in) \/ wr.state = "FAULT"
Valid(in) == head # NoRecord /\ in.valid

IdleHasRecord(in) ==
    wr.state = "IDLE" /\ Valid(in) /\ enable /\ P!PointersValid

IdleFits(in) ==
    IdleHasRecord(in) /\ head.class = "legal" /\ P!ScheduleFits(head.len)
IdleNeedWrap(in) == IdleFits(in) /\ P!CrossesTail(head.len)
IdleCanPass(in) == IdleFits(in) /\ ~P!CrossesTail(head.len)
\* Mutant: a record without space waits at the head of the FIFO.
IdleCanDropIllegal(in) == IdleHasRecord(in) /\ head.class # "legal"

IdleCanDrop(in) == IdleHasRecord(in) /\ ~IdleFits(in)

BuilderInReady(in) ==
    ~SubClear(in) /\ Keep(in) /\ wr.state # "ISSUE_WRAP"
    /\ bld.state \in {"IDLE", "CAPTURE"}

PassBeat(in) ==
    /\ BuilderInReady(in)
    /\ \/ IdleCanPass(in)
       \/ wr.state = "PASS_NORMAL" /\ wr.open /\ Valid(in)

DropBeat(in) == IdleCanDrop(in) \/ (wr.state = "DROP" /\ Valid(in))

BuilderOutValid(in) ==
    ~SubClear(in) /\ Keep(in) /\ bld.state = "EMIT"

CmdAccept(in) ==
    /\ wr.state = "ACTIVE_WRITE" /\ BuilderOutValid(in) /\ ~wr.issued
    /\ Keep(in) /\ avm.state = "IDLE" /\ ~Held

StreamAccept(in) ==
    /\ wr.state = "ACTIVE_WRITE" /\ BuilderOutValid(in) /\ wr.issued
    /\ Keep(in) /\ avm.state = "WRITE" /\ ~Held

AvmWrite(in) == Keep(in) /\ avm.state = "WRITE" /\ Held
WriteAccept(in) == AvmWrite(in) /\ ~in.wait

\* Mutant: the advance is asked for when the last write is accepted.
AdvanceOnAccept(in) ==
    \/ wr.state = "COMMIT_REQ" /\ ~wr.sent
    \/ wr.state = "ACTIVE_WRITE" /\ avm.completes

\* producer_advance_valid: never while an error response is visible.
AdvanceValid(in) ==
    /\ wr.state = "COMMIT_REQ" /\ ~wr.sent
    /\ in.resp # "error" /\ ~avm.sticky

----------------------------------------------------------------------------
(* The next value of each block's registers.                               *)

LastBeat == head.left = 1

BuilderNext(in) ==
    LET quiet == [bld EXCEPT !.pulse = "none"]
        dropped == [BuilderIdle EXCEPT !.pulse = "drop"]
        started(s) == [quiet EXCEPT !.state = "ASSEMBLE", !.seq = s,
                                    !.off = 0, !.pulse = "start"]
    IN
    CASE SubClear(in) \/ ~Keep(in) -> BuilderIdle
      [] OTHER ->
    CASE bld.state = "IDLE" /\ wr.state = "ISSUE_WRAP" ->
           [BuilderIdle EXCEPT !.state = "BUILD", !.kind = "wrap",
                               !.len = wr.len]
      [] bld.state = "IDLE" /\ PassBeat(in) ->
           [BuilderIdle EXCEPT !.state = IF LastBeat THEN "BUILD" ELSE "CAPTURE",
                               !.kind = "normal", !.len = head.len, !.got = 1,
                               !.want = head.total, !.bad = head.torn]
      [] bld.state = "CAPTURE" /\ PassBeat(in) ->
           [quiet EXCEPT !.state = IF LastBeat THEN "BUILD" ELSE "CAPTURE",
                         !.got = @ + 1]
      [] bld.state = "BUILD" /\ bld.kind = "wrap" ->
           IF bld.len >= 2 /\ P!Aligned(bld.len) THEN started(0) ELSE dropped
      [] bld.state = "BUILD" /\ bld.kind = "normal" ->
           IF ~bld.bad /\ bld.got = bld.want THEN started(seq) ELSE dropped
      [] bld.state = "ASSEMBLE" /\ in.lane -> [quiet EXCEPT !.state = "EMIT"]
      [] bld.state = "EMIT" /\ StreamAccept(in) ->
           IF bld.off + Beat >= bld.len
             THEN BuilderIdle
             ELSE [quiet EXCEPT !.state = "ASSEMBLE", !.off = @ + Beat]
      [] OTHER -> quiet

BuilderWord == [kind |-> bld.kind, len |-> bld.len, seq |-> bld.seq,
                i |-> bld.off]

MasterNext(in) ==
    LET quiet == [avm EXCEPT !.accept = FALSE, !.done = FALSE, !.err = FALSE]
        failed == [quiet EXCEPT !.state = "ERROR", !.err = TRUE,
                                !.hold = NoWord, !.completes = FALSE]
    IN
    CASE SubClear(in) \/ ~Keep(in) ->
           [MasterIdle EXCEPT !.sticky = avm.sticky /\ ~SubClear(in)]
      [] OTHER ->
    CASE \/ in.resp = "error"
         \/ in.resp = "okay" /\ avm.state # "WAIT_RESPONSE" ->
           [failed EXCEPT !.sticky = TRUE]
      [] in.resp = "okay" /\ avm.state = "WAIT_RESPONSE" ->
           IF avm.completes
             THEN [MasterIdle EXCEPT !.done = TRUE, !.sticky = avm.sticky]
             ELSE [quiet EXCEPT !.state = "WRITE"]
      [] in.resp = "none" /\ CmdAccept(in) ->
           IF bld.len = 0 THEN failed
           ELSE [quiet EXCEPT !.state = "WRITE", !.addr = wr.addr,
                              !.left = bld.len, !.accept = TRUE]
      [] in.resp = "none" /\ WriteAccept(in) ->
           IF avm.last # (avm.left = Beat) THEN failed
           ELSE [quiet EXCEPT !.state = "WAIT_RESPONSE", !.addr = @ + Beat,
                              !.left = @ - Beat, !.hold = NoWord,
                              !.completes = avm.last]
      [] in.resp = "none" /\ StreamAccept(in) ->
           [quiet EXCEPT !.hold = BuilderWord,
                         !.last = bld.off + Beat >= bld.len]
      [] OTHER -> quiet

\* The pulses of the builder and of the master are applied first; the state
\* case follows and may overwrite what they set.
WriterPulses(in) ==
    LET w1 == [wr EXCEPT !.issued = @ \/ avm.accept]
        w2 == IF bld.pulse = "drop"
                THEN [w1 EXCEPT !.state = "IDLE", !.issued = FALSE,
                                !.open = FALSE]
                ELSE w1
    IN  IF avm.err
          THEN [w2 EXCEPT !.state = "FAULT", !.issued = FALSE]
          ELSE w2

WriterNext(in) ==
    LET w == WriterPulses(in)
        idle == [w EXCEPT !.kind = "none", !.addr = 0, !.len = 0,
                          !.open = FALSE, !.issued = FALSE,
                          !.sent = FALSE]
        settled == [w EXCEPT !.kind = "none", !.len = 0, !.addr = 0,
                             !.sent = FALSE]
    IN
    CASE Clear(in) -> WriterIdleRegs
      [] OTHER ->
    CASE wr.state = "IDLE" ->
           CASE IdleNeedWrap(in) ->
                  [idle EXCEPT !.state = "ISSUE_WRAP", !.kind = "wrap",
                               !.len = P!Tail, !.addr = P!Offset]
             [] PassBeat(in) ->
                  [idle EXCEPT !.state = "PASS_NORMAL", !.kind = "normal",
                               !.len = head.len, !.addr = P!Offset,
                               !.open = ~LastBeat]
             [] IdleCanDrop(in) ->
                  [idle EXCEPT !.state = IF LastBeat THEN "IDLE" ELSE "DROP"]
             [] OTHER -> idle
      [] wr.state = "DROP" /\ DropBeat(in) /\ LastBeat ->
           [w EXCEPT !.state = "IDLE"]
      [] wr.state = "PASS_NORMAL" ->
           LET o == [w EXCEPT !.open = @ /\ ~(PassBeat(in) /\ LastBeat)]
           IN  IF bld.pulse = "start"
                 THEN [o EXCEPT !.len = bld.len, !.state = "ACTIVE_WRITE"]
                 ELSE o
      [] wr.state = "ISSUE_WRAP" /\ bld.state = "IDLE" ->
           [w EXCEPT !.state = "ACTIVE_WRITE"]
      [] wr.state = "ACTIVE_WRITE" ->
           LET l == IF bld.pulse = "start" THEN [w EXCEPT !.len = bld.len] ELSE w
           IN  IF avm.done /\ in.resp # "error"
                 THEN [l EXCEPT !.issued = FALSE, !.state = "COMMIT_REQ"]
                 ELSE l
      [] wr.state = "COMMIT_REQ" ->
           CASE pulse.advance = "accept" -> [settled EXCEPT !.state = "IDLE"]
             [] pulse.advance = "reject" ->
                  [settled EXCEPT !.state = "FAULT"]
             [] OTHER -> [w EXCEPT !.sent = @ \/ P!PointersValid]
      [] wr.state = "FAULT" /\ ~enable -> [w EXCEPT !.state = "IDLE"]
      [] OTHER -> w

----------------------------------------------------------------------------
(* One clock edge.                                                         *)

\* What each CSR access the host makes needs; the CSR bank rejects it
\* otherwise and nothing reaches the writer.
HostLegal(in) ==
    CASE in.host = "reset"   -> ~enable /\ WriterIdle
      [] in.host = "config"  -> ~enable /\ WriterIdle
      [] in.host = "enable"  -> /\ ~enable /\ WriterIdle /\ ~Valid(in)
                                /\ P!PointersValid
      [] in.host = "disable" -> enable
      [] in.host = "rd"      -> IF epoch THEN Rd < W ELSE legal
      [] in.host = "none"    -> TRUE

\* The consumer releases one record at a time, by the length in the header
\* it reads at Rd; the first commit of an epoch is zero.
RdValue(in) ==
    CASE in.host # "rd" -> P!NoRd
      [] in.host = "rd" /\ epoch -> Rd + mem[(Rd % size) \div Beat].len
      [] OTHER -> 0

Advance(in) ==
    IF AdvanceValid(in) THEN [kind |-> wr.kind, len |-> wr.len]
                        ELSE P!NoAdvance

PointerNext(in) ==
    CASE in.host = "reset"  -> P!SoftReset
      [] in.host = "config" ->
           P!ConfigCommit([size |-> RingSize, base64 |-> TRUE])
      [] OTHER -> P!Run(Advance(in), RdValue(in), FALSE, enable)

HeadNext(in) ==
    CASE Clear(in) -> NoRecord
      [] head = NoRecord -> in.next
      [] PassBeat(in) \/ DropBeat(in) ->
           IF LastBeat THEN NoRecord ELSE [head EXCEPT !.left = @ - 1]
      [] OTHER -> head

\* The DDR controller: an accepted write is in memory when its okay response
\* arrives; with an error response it may or may not have been done.
MemoryNext(in) ==
    \/ /\ in.resp # "okay"
       /\ mem' = mem
    \/ /\ in.resp # "none"
       /\ mem' = [mem EXCEPT ![bus.addr \div Beat] = bus.word]

BusNext(in) ==
    CASE WriteAccept(in) -> [addr |-> avm.addr, word |-> avm.hold]
      [] in.resp # "none" -> NoWrite
      [] OTHER -> bus

\* Mutant: a record the builder rejects is not counted.
CountedWithoutBuilder(in) ==
    \/ avm.err
    \/ wr.state = "COMMIT_REQ" /\ pulse.advance # "none"

\* dma_packet_count_q or dma_drop_count_q is incremented on this edge.
Counted(in) ==
    \/ bld.pulse = "drop"
    \/ avm.err
    \/ wr.state = "COMMIT_REQ" /\ pulse.advance = "reject"
    \/ wr.state = "COMMIT_REQ" /\ pulse.advance = "accept"
       /\ wr.kind = "normal"

Step(in) ==
    /\ HostLegal(in)
    /\ PointerNext(in)
    /\ MemoryNext(in)
    /\ enable' = CASE in.host = "enable" -> TRUE
                   [] in.host = "disable" -> FALSE
                   [] OTHER -> enable
    /\ head' = HeadNext(in)
    /\ wr' = WriterNext(in)
    /\ bld' = BuilderNext(in)
    /\ avm' = MasterNext(in)
    /\ bus' = BusNext(in)
    /\ owed' = CASE Clear(in) -> FALSE
                 [] wr.state = "IDLE" /\ PassBeat(in) -> TRUE
                 [] OTHER -> owed /\ ~Counted(in)

\* Choices that cannot matter in this state are not enumerated.
Inputs(hosts) ==
    [host  : hosts,
     valid : IF head = NoRecord THEN {FALSE} ELSE BOOLEAN,
     next  : IF head = NoRecord /\ W < WBound
               THEN Records \cup {NoRecord} ELSE {NoRecord},
     wait  : IF avm.state = "WRITE" /\ Held THEN BOOLEAN ELSE {FALSE},
     resp  : IF bus = NoWrite THEN {"none"} ELSE {"none", "okay", "error"},
     lane  : IF bld.state = "ASSEMBLE" THEN BOOLEAN ELSE {FALSE}]

Init ==
    /\ P!Init
    /\ enable = FALSE
    /\ head = NoRecord
    /\ wr = WriterIdleRegs
    /\ bld = BuilderIdle
    /\ avm = MasterIdle
    /\ bus = NoWrite
    /\ mem = [a \in 0 .. (RingSize \div Beat) - 1 |-> NoWord]
    /\ owed = FALSE

Accesses == {"none", "reset", "config", "enable", "disable", "rd"}

Next == \E in \in Inputs(Accesses) : Step(in)

Spec == Init /\ [][Next]_vars

\* Edges on which nobody outside delays the writer: the fabric accepts a
\* write and answers it, the byte lanes of a beat are assembled, the FIFO,
\* which only holds complete records, presents the next beat.
PromptInputs ==
    [host  : {"none"},
     valid : {head # NoRecord},
     next  : IF head = NoRecord /\ W < WBound
               THEN Records \cup {NoRecord} ELSE {NoRecord},
     wait  : {FALSE},
     resp  : IF bus = NoWrite THEN {"none"} ELSE {"okay", "error"},
     lane  : {bld.state = "ASSEMBLE"}]

\* The clock runs, and such edges never stop coming.  Nothing is assumed of
\* the host: it may leave the ring full for ever.
Fairness == WF_vars(\E in \in PromptInputs : Step(in))

LiveSpec == Spec /\ Fairness

----------------------------------------------------------------------------
(* Properties.                                                             *)

WordAt(p) == mem[(p % size) \div Beat]

\* The word that starts at p heads a record whose every word is in memory.
CompleteAt(p) ==
    LET h == WordAt(p) IN
    /\ h.i = 0 /\ h.len >= 1 /\ p + h.len <= W
    /\ \A i \in 0 .. h.len - 1 :
          P!Aligned(i) => WordAt(p + i) = [h EXCEPT !.i = i]
    /\ h.kind = "wrap" => (p + h.len) % size = 0

\* The sequence number a reader that walks the headers from p expects, or -1
\* where the walk fails.
WalkFrom ==
    LET walk[p \in Rd .. W] ==
          IF p = W THEN seq
          ELSE IF ~CompleteAt(p) THEN -1
          ELSE LET h == WordAt(p)
                   after == walk[p + h.len]
               IN  CASE h.kind = "wrap" -> after
                     [] after = (h.seq + 1) % SeqLimit -> h.seq
                     [] OTHER -> -1
    IN  walk

\* What the HPS finds between Rd and W is always a chain of complete records
\* with consecutive sequence numbers: no torn, stale, overwritten or
\* unanswered bytes are ever published, whatever the bus does.
CommittedChain == epoch => WalkFrom[Rd] # -1

\* A record taken from the FIFO is in one of the two counters by the time
\* the writer lets go of it.
NothingLostSilently ==
    owed => wr.state \in {"PASS_NORMAL", "ACTIVE_WRITE", "COMMIT_REQ"}
            /\ wr.kind = "normal"

\* A disabled writer drains: the CSR bank can admit a soft reset, whatever
\* the writer was doing when the host disabled it.
DisableDrains == ~enable ~> (WriterIdle \/ enable)

\* A full ring costs records, never throughput: the FIFO head is always
\* taken, unless the writer faults or is disabled.
HeadNeverBlocks ==
    (head # NoRecord /\ enable)
        ~> (head = NoRecord \/ ~enable \/ wr.state = "FAULT")
=============================================================================
