---------------------------- MODULE RingTransport ----------------------------
(***************************************************************************)
(* Records from the FPGA to the network, across the DDR ring: the ring     *)
(* writer (trecap_ddr_ring_writer.sv) in units of records and blocks, the  *)
(* pointers of trecap_ring_pointer_ctrl.sv, the DDR itself, and the HPS    *)
(* streamer (trecap_udp_streamer.c) with its ring reader (ring_reader.c),  *)
(* which may be stopped, killed and started again at any point.            *)
(*                                                                         *)
(* Pointers count units of 32 bytes as in RingPointerCtrl; the DDR is a    *)
(* function from 64-byte blocks to what was last written there.            *)
(***************************************************************************)
EXTENDS Integers, Sequences, FiniteSets

CONSTANTS
    Size,        \* the ring, in units
    Guard,       \* GUARD_BYTES
    Lens,        \* padded lengths of the records the formatters make
    MaxRecords,  \* records made in one behaviour
    MaxResets,   \* transport resets in one behaviour
    MaxDamage    \* headers overwritten in the DDR by something else

ASSUME TransportConstants ==
    /\ Size \in Nat \ {0} /\ Size % 2 = 0
    /\ Guard \in Nat \ {0} /\ Guard % 2 = 0
    /\ \A n \in Lens : n \in 1 .. Size /\ n % 2 = 0
    /\ {MaxRecords, MaxResets, MaxDamage} \subseteq Nat

VARIABLES
    W, Rd,       \* producer_ptr_q and consumer_ptr_q
    epoch,       \* ring configured and Rd committed: rd_epoch_valid_q
    run,         \* telemetry_enable and ring_writer_enable
    mem,         \* the DDR ring, by blocks
    offer,       \* the record at the FIFO's output
    job,         \* what the writer is doing
    reader,      \* trecap_ring_reader_t and the streamer's place in its loop
    last,        \* the record in the last UDP datagram, 0 if it was torn
    count        \* records made, records published, resets, damages

vars == <<W, Rd, epoch, run, mem, offer, job, reader, last, count>>

Blocks == 0 .. Size \div 2 - 1
Block(p) == (p % Size) \div 2
Span(p, len) == { Block(p + 2 * k) : k \in 0 .. len \div 2 - 1 }

\* A block that something else overwrote is not "good"; what the writer had
\* put there is kept for the comparison with the abstract channel only.
Old == [kind |-> "old", id |-> 0, part |-> 0, len |-> 0, good |-> TRUE]
NoOffer == [id |-> 0, len |-> 0]
NoJob == [state |-> "IDLE", kind |-> "none", id |-> 0, len |-> 0, left |-> {}]
NoView == [kind |-> "none", id |-> 0, next |-> 0]
Fresh == [state |-> "DOWN", pc |-> "POLL", disabled |-> TRUE, rd |-> 0,
          wr |-> 0, view |-> NoView]

\* The controller's view of the pointers.
P == INSTANCE RingPointerCtrl
       WITH Configs <- {}, MinSize <- 2, Lengths <- Lens,
            PtrLimit <- Size * 2 * (MaxRecords + 1), SeqLimit <- 2,
            size <- Size, legal <- epoch, seq <- 0, snap <- 0,
            snapValid <- FALSE, error <- FALSE, pulse <- 0

Init ==
    /\ W = 0 /\ Rd = 0 /\ epoch = FALSE /\ run = FALSE
    /\ mem = [b \in Blocks |-> Old]
    /\ offer = NoOffer
    /\ job = NoJob
    /\ reader = Fresh
    /\ last = 0
    /\ count = [made |-> 0, published |-> 0, resets |-> 0, damaged |-> 0]

----------------------------------------------------------------------------
(* The FPGA.                                                               *)

\* The formatters and the FIFO present a record.
Make(len) ==
    /\ offer = NoOffer
    /\ run
    /\ count.made < MaxRecords
    /\ offer' = [id |-> count.made + 1, len |-> len]
    /\ count' = [count EXCEPT !.made = @ + 1]
    /\ UNCHANGED <<W, Rd, epoch, run, mem, job, reader, last>>

HasRecord == job.state = "IDLE" /\ offer # NoOffer /\ run /\ P!PointersValid

\* WSTATE_IDLE: a WRAP over the tail, the record itself, or a drop.
Begin ==
    /\ HasRecord
    /\ P!ScheduleFits(offer.len)
    /\ job' = IF P!CrossesTail(offer.len)
                THEN [state |-> "ACTIVE_WRITE", kind |-> "wrap", id |-> 0,
                      len |-> P!Tail, left |-> Span(W, P!Tail)]
                ELSE [state |-> "ACTIVE_WRITE", kind |-> "record",
                      id |-> offer.id, len |-> offer.len,
                      left |-> Span(W, offer.len)]
    /\ UNCHANGED <<W, Rd, epoch, run, mem, offer, reader, last, count>>

DropRecord ==
    /\ HasRecord
    /\ ~P!ScheduleFits(offer.len)
    /\ offer' = NoOffer
    /\ UNCHANGED <<W, Rd, epoch, run, mem, job, reader, last, count>>

\* What the builder puts in block b of the job that starts at W.
Contents(b) ==
    LET part == (2 * b - (W % Size)) \div 2 IN
    IF job.kind = "record"
      THEN [kind |-> "record", id |-> job.id, part |-> part, len |-> job.len,
            good |-> TRUE]
      ELSE [kind |-> "wrap", id |-> 0, part |-> IF part = 0 THEN 0 ELSE 1,
            len |-> 0, good |-> TRUE]

\* The memory takes a block; the order is the interconnect's.
WriteBlock ==
    /\ job.state = "ACTIVE_WRITE"
    /\ \E b \in job.left :
         /\ mem' = [mem EXCEPT ![b] = Contents(b)]
         /\ job' = [job EXCEPT !.left = @ \ {b}]
    /\ UNCHANGED <<W, Rd, epoch, run, offer, reader, last, count>>

\* Mutant: the commit does not wait for the write responses.
PublishJobEarly ==
    /\ job.state = "ACTIVE_WRITE"
    /\ P!AdvanceLegal([kind |-> IF job.kind = "wrap" THEN "wrap" ELSE "normal",
                       len |-> job.len])
    /\ W' = W + job.len
    /\ job' = NoJob
    /\ offer' = IF job.kind = "record" THEN NoOffer ELSE offer
    /\ count' = IF job.kind = "record"
                  THEN [count EXCEPT !.published = job.id] ELSE count
    /\ UNCHANGED <<Rd, epoch, run, mem, reader, last>>

\* WSTATE_COMMIT_REQ: every write has been answered; W moves over the WRAP
\* or the record.
PublishJob ==
    /\ job.state = "ACTIVE_WRITE"
    /\ job.left = {}
    /\ P!AdvanceLegal([kind |-> IF job.kind = "wrap" THEN "wrap" ELSE "normal",
                       len |-> job.len])
    /\ W' = W + job.len
    /\ job' = NoJob
    /\ offer' = IF job.kind = "record" THEN NoOffer ELSE offer
    /\ count' = IF job.kind = "record"
                  THEN [count EXCEPT !.published = job.id] ELSE count
    /\ UNCHANGED <<Rd, epoch, run, mem, reader, last>>

\* An error response: the job is abandoned with W where it was.  A record
\* that failed is gone; one that waits behind a WRAP is still offered.
WriteError ==
    /\ job.state = "ACTIVE_WRITE"
    /\ job' = [NoJob EXCEPT !.state = "FAULT"]
    /\ offer' = IF job.kind = "record" THEN NoOffer ELSE offer
    /\ UNCHANGED <<W, Rd, epoch, run, mem, reader, last, count>>

LeaveFault ==
    /\ job.state = "FAULT"
    /\ ~run
    /\ job' = NoJob
    /\ UNCHANGED <<W, Rd, epoch, run, mem, offer, reader, last, count>>

----------------------------------------------------------------------------
(* The streamer.  Between two passes over the ring (POLL) it serves        *)
(* commands; the records of one pass are bounded by one snapshot of W.     *)

Hardware == <<W, epoch, mem, offer, job>>

Serving == reader.state = "ACTIVE" /\ ~reader.disabled

\* A write of RING_RD and its commit; the bank ignores an illegal value and
\* the store does not say so.
CommitRd(p) == Rd' = IF P!RdCommitLegal(p) THEN p ELSE Rd

\* handle_malformed: the software latch first, then the levels, then the
\* current Rd once more.
Latch ==
    /\ reader' = [reader EXCEPT !.state = "MALFORMED_LATCHED", !.pc = "POLL",
                                !.disabled = TRUE]
    /\ run' = FALSE
    /\ CommitRd(reader.rd)
    /\ UNCHANGED <<Hardware, last, count>>

SnapshotW ==
    /\ Serving
    /\ reader.pc = "POLL"
    /\ IF W >= reader.rd /\ W - reader.rd <= Size
         THEN /\ reader' = [reader EXCEPT
                              !.wr = W,
                              !.pc = IF W = reader.rd THEN "POLL" ELSE "PEEK"]
              /\ UNCHANGED <<Hardware, Rd, run, last, count>>
         ELSE Latch

\* validate_record_header at reader.rd, against the snapshot.
Header == mem[Block(reader.rd)]
TailAt(p) == Size - (p % Size)

IsRecord ==
    /\ Header.good /\ Header.kind = "record" /\ Header.part = 0
    /\ Header.len <= Size - Guard
    /\ Header.len <= TailAt(reader.rd)
    /\ reader.rd + Header.len <= reader.wr

\* Mutant: a tail of one block is thought too short for a WRAP.
IsWrapLongTail ==
    /\ Header.good /\ Header.kind = "wrap" /\ Header.part = 0
    /\ reader.rd % Size # 0
    /\ TailAt(reader.rd) > 2
    /\ reader.rd + TailAt(reader.rd) <= reader.wr

IsWrap ==
    /\ Header.good /\ Header.kind = "wrap" /\ Header.part = 0
    /\ reader.rd % Size # 0
    /\ reader.rd + TailAt(reader.rd) <= reader.wr
    /\ \A b \in Span(reader.rd, TailAt(reader.rd)) \ {Block(reader.rd)} :
          mem[b].kind = "wrap" /\ mem[b].part # 0

\* Mutant: a WRAP ends the pass and is not released.
PeekStopsAtWrap ==
    /\ Serving
    /\ reader.pc = "PEEK"
    /\ \/ /\ IsRecord
          /\ reader' = [reader EXCEPT
               !.pc = "SEND",
               !.view = [kind |-> "record", id |-> Header.id,
                         next |-> reader.rd + Header.len]]
          /\ UNCHANGED <<Hardware, Rd, run, last, count>>
       \/ /\ IsWrap
          /\ reader' = [reader EXCEPT !.pc = "POLL"]
          /\ UNCHANGED <<Hardware, Rd, run, last, count>>
       \/ ~IsRecord /\ ~IsWrap /\ Latch

Peek ==
    /\ Serving
    /\ reader.pc = "PEEK"
    /\ \/ /\ IsRecord
          /\ reader' = [reader EXCEPT
               !.pc = "SEND",
               !.view = [kind |-> "record", id |-> Header.id,
                         next |-> reader.rd + Header.len]]
          /\ UNCHANGED <<Hardware, Rd, run, last, count>>
       \/ /\ IsWrap
          /\ reader' = [reader EXCEPT
               !.pc = "ADVANCE",
               !.view = [kind |-> "wrap", id |-> 0,
                         next |-> reader.rd + TailAt(reader.rd)]]
          /\ UNCHANGED <<Hardware, Rd, run, last, count>>
       \/ ~IsRecord /\ ~IsWrap /\ Latch

\* The bytes are taken from the ring itself when the datagram is sent.
Intact ==
    \A k \in 0 .. (reader.view.next - reader.rd) \div 2 - 1 :
        LET c == mem[Block(reader.rd + 2 * k)] IN
        c.good /\ c.kind = "record" /\ c.id = reader.view.id /\ c.part = k

\* The socket may drop the datagram; the record is consumed all the same.
Send ==
    /\ Serving
    /\ reader.pc = "SEND"
    /\ \/ last' = IF Intact THEN reader.view.id ELSE 0
       \/ UNCHANGED last
    /\ reader' = [reader EXCEPT !.pc = "ADVANCE"]
    /\ UNCHANGED <<Hardware, Rd, run, count>>

Advance ==
    /\ Serving
    /\ reader.pc = "ADVANCE"
    /\ CommitRd(reader.view.next)
    /\ \E pc \in {"PEEK", "POLL"} :
         /\ reader.view.next = reader.wr => pc = "POLL"
         /\ reader' = [reader EXCEPT !.rd = reader.view.next, !.pc = pc,
                                     !.view = NoView]
    /\ UNCHANGED <<Hardware, run, last, count>>

----------------------------------------------------------------------------
(* Commands, and the life of the streamer process.                         *)

InCommands == reader.state # "DOWN" /\ reader.pc = "POLL"

\* Levels on, by a CONTROL write the register bank accepts.
Enable ==
    /\ InCommands
    /\ reader.state = "ACTIVE"
    /\ ~run /\ epoch /\ job = NoJob /\ offer = NoOffer
    /\ run' = TRUE
    /\ reader' = [reader EXCEPT !.disabled = FALSE]
    /\ UNCHANGED <<Hardware, Rd, last, count>>

Disable ==
    /\ InCommands
    /\ reader.state = "ACTIVE"
    /\ run' = FALSE
    /\ reader' = [reader EXCEPT !.disabled = TRUE]
    /\ UNCHANGED <<Hardware, Rd, last, count>>

\* reset_transport, by a command or by a new process: levels off ...
BeginReset ==
    /\ InCommands \/ reader.state = "DOWN"
    /\ count.resets < MaxResets
    /\ run' = FALSE
    /\ reader' = [Fresh EXCEPT !.state = "RESET_REQUIRED", !.rd = reader.rd,
                               !.wr = reader.wr]
    /\ count' = [count EXCEPT !.resets = @ + 1]
    /\ UNCHANGED <<Hardware, Rd, last>>

\* ... then, when the writer is idle, the soft reset, which also flushes the
\* formatters and leaves Rd alone.
SoftReset ==
    /\ reader.state = "RESET_REQUIRED"
    /\ ~run
    /\ job = NoJob
    /\ W' = 0 /\ epoch' = FALSE
    /\ offer' = NoOffer
    /\ reader' = [Fresh EXCEPT !.state = "RECONFIG_REQUIRED"]
    /\ UNCHANGED <<Rd, run, mem, job, last, count>>

\* configure_fpga_ring and the commit of Rd = 0 that opens the epoch.
Configure ==
    /\ reader.state = "RECONFIG_REQUIRED"
    /\ W' = 0 /\ Rd' = 0 /\ epoch' = TRUE
    /\ reader' = [Fresh EXCEPT !.state = "ACTIVE"]
    /\ UNCHANGED <<run, mem, offer, job, last, count>>

\* An orderly exit turns the levels off; a killed process does nothing.
Stop ==
    /\ reader.state # "DOWN"
    /\ reader.pc = "POLL"
    /\ run' = FALSE
    /\ reader' = Fresh
    /\ UNCHANGED <<Hardware, Rd, last, count>>

Kill ==
    /\ reader.state # "DOWN"
    /\ reader' = Fresh
    /\ UNCHANGED <<Hardware, Rd, run, last, count>>

\* Something outside the transport overwrites the published header that is
\* read next.  Once the reader has validated a record nothing re-reads its
\* header, so that a write in between is beyond what the reader detects.
DamageHeader ==
    /\ count.damaged < MaxDamage
    /\ epoch /\ Rd < W
    /\ reader.pc # "SEND"
    /\ mem' = [mem EXCEPT ![Block(Rd)].good = FALSE]
    /\ count' = [count EXCEPT !.damaged = @ + 1]
    /\ UNCHANGED <<W, Rd, epoch, run, offer, job, reader, last>>

ReaderStep == SnapshotW \/ Peek \/ Send \/ Advance

Next ==
    \/ \E len \in Lens : Make(len)
    \/ Begin \/ DropRecord \/ WriteBlock \/ PublishJob \/ WriteError
    \/ LeaveFault
    \/ ReaderStep
    \/ Enable \/ Disable \/ BeginReset \/ SoftReset \/ Configure
    \/ Stop \/ Kill \/ DamageHeader

Spec == Init /\ [][Next]_vars

\* The streamer's loop goes on while the process lives.
LiveSpec == Spec /\ WF_vars(ReaderStep)

----------------------------------------------------------------------------
\* The records found in the DDR from Rd up to W; anything that is not the
\* start of a record reads as 0.
Records ==
    LET from[p \in 0 .. 2 * Size + W] ==
          IF p >= W THEN <<>>
          ELSE LET c == mem[Block(p)] IN
               CASE c.kind = "record" /\ c.part = 0 -> <<c.id>> \o from[p + c.len]
                 [] c.kind = "wrap" /\ c.part = 0 -> from[p + TailAt(p)]
                 [] OTHER -> <<0>>
    IN  IF epoch THEN from[Rd] ELSE <<>>

\* The ring, read the way the reader reads it, is the queue of
\* TelemetryChannel: records are published in order, forwarded whole, at most
\* once and from the head, through wrap-around, drops, write errors, restarts
\* of the streamer and stale records left in the DDR by an earlier epoch.
Channel ==
    INSTANCE TelemetryChannel WITH chan <- Records, published <- count.published
ImplementsChannel == Channel!ChannelSpec

\* The reader latches "malformed" only on a ring that something else wrote
\* to: no interleaving with the writer, no reset and no restart makes it take
\* a healthy ring for a damaged one.
NoFalseAlarm ==
    reader.state = "MALFORMED_LATCHED" => count.damaged > 0

\* The record at the head of the ring is consumed as long as the reader
\* serves the ring: neither a wrap nor a drop nor the bound of a pass leaves
\* it behind.
HeadConsumed ==
    \A id \in 1 .. MaxRecords :
        (Records # <<>> /\ Head(Records) = id)
            ~> (~Serving \/ Records = <<>> \/ Head(Records) # id)

============================================================================
