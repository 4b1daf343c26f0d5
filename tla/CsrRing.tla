------------------------------- MODULE CsrRing -------------------------------
(***************************************************************************)
(* The HPS-visible side of the DDR ring: the Avalon adapter                *)
(* (trecap_avmm_csr_adapter.sv), the transport registers of the CSR bank   *)
(* (trecap_csr_bank.sv) and the pointer controller they drive.  The host   *)
(* may issue any register access at any time; the DDR writer is reduced to *)
(* the advance it is working towards.                                      *)
(*                                                                         *)
(* One step is one clock edge.  An accepted write acts on the bank at once *)
(* and on the pointer controller one edge later, through registered        *)
(* pulses; W moves meanwhile.  The 64-bit consumer pointer is written in   *)
(* two halves: its value is hi * HalfBase + lo.                            *)
(*                                                                         *)
(* The threshold, the source mode and the registers of the formatters do   *)
(* not bear on the ring: of them there is the question whether a store is  *)
(* taken, and what they contribute to the others is an input.              *)
(***************************************************************************)
EXTENDS Integers

CONSTANTS
    MinSize, Guard, Lengths, PtrLimit, SeqLimit,
    Sizes,          \* values the host writes to RING_SIZE_BYTES
    HalfBase,       \* 2^32: the weight of the high half of a pointer
    Halves,         \* values the host writes to either half
    HostRegs,       \* registers the host writes
    ExternalClear,  \* values of external_transport_clear_i: {FALSE} if tied
    WBound          \* the writer starts no record that would pass this W

ASSUME CsrConstants ==
    /\ MinSize \in Nat \ {0}
    /\ Lengths \subseteq Nat
    /\ Sizes \subseteq Nat
    /\ HalfBase \in Nat \ {0}
    /\ Halves \subseteq 0 .. HalfBase - 1
    /\ PtrLimit = HalfBase * HalfBase
    /\ ExternalClear \in (SUBSET BOOLEAN) \ {{}}
    /\ WBound \in 0 .. PtrLimit - 1

Configs == [size : Sizes, base64 : BOOLEAN]

VARIABLES
    size, legal, W, Rd, epoch, seq, snap, snapValid, error, pulse,
    bus,        \* the adapter: its state, the latched access, the response
    csr,        \* the transport registers of the bank
    job,        \* the advance the DDR writer is working towards
    queue       \* what the packet FIFO holds: "empty", "inside" or "valid"

ptrVars == <<size, legal, W, Rd, epoch, seq, snap, snapValid, error, pulse>>
vars == <<ptrVars, bus, csr, job, queue>>

P == INSTANCE RingPointerCtrl

NoOp == [reg |-> "NONE", val |-> 0]

\* CONTROL holds the two enable levels, telemetry as bit 0 and ring writer
\* as bit 1; its soft-reset pulse is an access of its own, since the bank
\* rejects a write that mixes both.  RING_BASE is 1 when not 64-byte aligned.
Registers ==
    UNION { [reg : {"CONTROL"}, val : 0 .. 3],
            [reg : {"RING_SIZE"}, val : Sizes],
            [reg : {"RING_BASE"}, val : {0, 1}],
            [reg : {"RD_LO", "RD_HI"}, val : Halves],
            [reg : {"SOFT_RESET", "CONFIG_COMMIT", "RD_COMMIT", "SNAPSHOT",
                    "THR2", "SOURCE", "FORMATTER"}, val : {0}] }
Writes == {w \in Registers : w.reg \in HostRegs}
Reads == [reg : {"READ_STATUS", "READ_DMA", "READ_WR"}, val : {0}]

Quiet == [reset |-> FALSE, config |-> FALSE, rd |-> FALSE, snap |-> FALSE]
BusIdle == [state |-> "IDLE", op |-> NoOp, error |-> FALSE, data |-> 0]

----------------------------------------------------------------------------
(* What the bank sees when an access reaches it.                           *)

WriterIdle == job = P!NoAdvance
TransportIdle == WriterIdle /\ queue # "valid"
Running == csr.tele /\ csr.writer
RingLocked == csr.tele \/ csr.writer \/ ~WriterIdle

\* The rest of the chip on an edge.  busy: a replay, or a change of the
\* source, is in progress; pending: a threshold or a source mode that was
\* committed still waits for its safe point.
RestOfChip == [busy : BOOLEAN, pending : BOOLEAN]

\* config_mutation_allowed.
MutationAllowed(other) ==
    ~csr.tele /\ ~csr.writer /\ TransportIdle /\ ~other.busy

RdShadow == csr.rdHi * HalfBase + csr.rdLo

RdValueLegal(p) ==
    /\ P!Aligned(p)
    /\ p <= W
    /\ W - p <= csr.size
    /\ IF csr.epoch THEN P!PointersValid /\ p >= csr.rdActive
                    ELSE p = 0

ShadowConfig == [size |-> csr.sizeShadow, base64 |-> csr.base64]

\* Mutant: a soft reset does not wait for the writer to drain.
RejectResetsEarly(op, ext, other) ==
    \/ ext
    \/ op.reg = "CONTROL" /\ op.val # 0
       /\ ~(/\ MutationAllowed(other)
            /\ csr.configured
            /\ csr.epoch
            /\ P!PointersValid)
    \/ op.reg \in {"SOURCE", "FORMATTER"} /\ ~MutationAllowed(other)
    \/ op.reg = "THR2" /\ other.pending
    \/ op.reg \in {"RING_SIZE", "RING_BASE"} /\ RingLocked
    \/ op.reg = "CONFIG_COMMIT"
       /\ (RingLocked \/ ~P!RingConfigLegal(ShadowConfig))
    \/ op.reg = "RD_COMMIT"
       /\ ~(csr.configured /\ legal /\ RdValueLegal(RdShadow))

Reject(op, ext, other) ==
    \/ ext
    \/ op.reg = "SOFT_RESET" /\ RingLocked
    \/ op.reg = "CONTROL" /\ op.val # 0
       /\ ~(/\ MutationAllowed(other)
            /\ csr.configured
            /\ csr.epoch
            /\ P!PointersValid)
    \/ op.reg \in {"SOURCE", "FORMATTER"} /\ ~MutationAllowed(other)
    \/ op.reg = "THR2" /\ other.pending
    \/ op.reg \in {"RING_SIZE", "RING_BASE"} /\ RingLocked
    \/ op.reg = "CONFIG_COMMIT"
       /\ (RingLocked \/ ~P!RingConfigLegal(ShadowConfig))
    \/ op.reg = "RD_COMMIT"
       /\ ~(csr.configured /\ legal /\ RdValueLegal(RdShadow))

IsRead(op) == op \in Reads

\* STATUS: telemetry, ring writer, configured without a malformed flag, a
\* commit that waits.
ReadData(op, other) ==
    LET bit(b, w) == IF b THEN w ELSE 0 IN
    CASE op.reg = "READ_STATUS" ->
           bit(csr.tele, 1) + bit(csr.writer, 2)
           + bit(csr.configured /\ ~csr.malformed /\ (legal \/ size = 0), 4)
           + bit(other.pending, 8)
      [] op.reg = "READ_DMA" -> bit(WriterIdle, 1)
      [] op.reg = "READ_WR" -> csr.snap
      [] OTHER -> 0

----------------------------------------------------------------------------
(* The registers after an edge.                                            *)

\* The adapter serves one access at a time and answers it before the next.
BusNext(op, ext, other) ==
    CASE bus.state = "IDLE" ->
           IF op = NoOp THEN bus ELSE [bus EXCEPT !.state = "ISSUE", !.op = op]
      [] bus.state = "ISSUE" ->
           [bus EXCEPT !.state = "WAIT",
                       !.error = ~IsRead(bus.op) /\ Reject(bus.op, ext, other),
                       !.data = ReadData(bus.op, other)]
      [] bus.state = "WAIT" -> [bus EXCEPT !.state = "RESPOND"]
      [] bus.state = "RESPOND" -> BusIdle

\* The write the bank takes on this edge, and the register it is for.
Taken(ext, other) ==
    IF bus.state = "ISSUE" /\ ~IsRead(bus.op) /\ ~Reject(bus.op, ext, other)
      THEN bus.op ELSE NoOp

BadCommit(ext, other) ==
    /\ bus.state = "ISSUE" /\ bus.op.reg = "CONFIG_COMMIT"
    /\ Reject(bus.op, ext, other)

\* Mutant: the bank's epoch bit survives a new configuration.
EpochNextSticky(op, ext) ==
    IF ext \/ op.reg = "SOFT_RESET" THEN FALSE ELSE csr.epoch \/ csr.pulse.rd

\* ring_rd_epoch_valid_q: raised by the registered Rd pulse.
EpochNext(op, ext) ==
    IF ext \/ op.reg \in {"SOFT_RESET", "CONFIG_COMMIT"}
      THEN FALSE ELSE csr.epoch \/ csr.pulse.rd

\* ring_wr_snap_q: the bank's own copy of W, the one the host reads.
SnapNext(op, ext) ==
    CASE ext \/ op.reg \in {"SOFT_RESET", "CONFIG_COMMIT"} -> 0
      [] op.reg = "SNAPSHOT" -> W
      [] OTHER -> csr.snap

CsrNext(op, ext, bad) ==
    LET reset  == ext \/ op.reg = "SOFT_RESET"
        config == op.reg = "CONFIG_COMMIT"
        Write(reg, old) == IF op.reg = reg THEN op.val ELSE old
        Cleared(v) == IF reset \/ config THEN 0 ELSE v
    IN
    [ tele       |-> /\ ~ext
                     /\ IF op.reg = "CONTROL" THEN op.val % 2 = 1
                                              ELSE csr.tele,
      writer     |-> /\ ~ext
                     /\ IF op.reg = "CONTROL" THEN op.val \div 2 = 1
                                              ELSE csr.writer,
      sizeShadow |-> Write("RING_SIZE", csr.sizeShadow),
      base64     |-> IF op.reg = "RING_BASE" THEN op.val = 0 ELSE csr.base64,
      size       |-> IF config THEN csr.sizeShadow ELSE csr.size,
      base       |-> IF config THEN csr.base64 ELSE csr.base,
      configured |-> /\ ~reset /\ op.reg \notin {"RING_SIZE", "RING_BASE"}
                     /\ config \/ csr.configured,
      malformed  |-> bad \/ (csr.malformed /\ ~reset /\ ~config),
      epoch      |-> EpochNext(op, ext),
      rdLo       |-> Cleared(Write("RD_LO", csr.rdLo)),
      rdHi       |-> Cleared(Write("RD_HI", csr.rdHi)),
      rdActive   |-> Cleared(IF op.reg = "RD_COMMIT" THEN RdShadow
                                                     ELSE csr.rdActive),
      snap       |-> SnapNext(op, ext),
      pulse      |-> [reset  |-> op.reg = "SOFT_RESET",
                      config |-> config,
                      rd     |-> op.reg = "RD_COMMIT",
                      snap   |-> op.reg = "SNAPSHOT"] ]

\* writer_transport_clear: the registered soft reset or the external clear.
Clearing(ext) == csr.pulse.reset \/ ext

PointerNext(ext, adv) ==
    CASE Clearing(ext) -> P!SoftReset
      [] ~Clearing(ext) /\ csr.pulse.config ->
           P!ConfigCommit([size |-> csr.size, base64 |-> csr.base])
      [] OTHER ->
           P!Run(adv, IF csr.pulse.rd THEN csr.rdActive ELSE P!NoRd,
                 csr.pulse.snap, csr.tele \/ csr.writer)

\* The DDR writer, reduced to: what it asks of the pointer controller, what
\* it works on next, and whether it takes the record at the FIFO output.
WriterMoves ==
    LET move(adv, next, took) == [adv |-> adv, job |-> next, took |-> took]
        none == P!NoAdvance
    IN
    CASE pulse.advance # "none" -> {move(none, none, FALSE)}
      [] pulse.advance = "none" /\ ~WriterIdle ->
           {move(none, job, FALSE), move(job, job, FALSE),
            move(none, none, FALSE)}
      [] pulse.advance = "none" /\ WriterIdle ->
           {move(none, none, FALSE)} \cup
           IF ~(Running /\ queue = "valid" /\ P!PointersValid) THEN {}
           ELSE {move(none, none, TRUE)} \cup
                { IF P!CrossesTail(n)
                    THEN move(none, [kind |-> "wrap", len |-> P!Tail], FALSE)
                    ELSE move(none, [kind |-> "normal", len |-> n], TRUE) :
                  n \in { m \in Lengths : /\ P!ScheduleFits(m)
                                          /\ W + m <= WBound } }

\* The packet FIFO: records enter it only while telemetry is enabled, one
\* already inside comes to its output, a reset empties it.
QueueNext(took, ext) ==
    CASE Clearing(ext) -> {"empty"}
      [] ~Clearing(ext) /\ took -> {"empty", "inside"}
      [] OTHER ->
           {queue} \cup (IF queue = "empty" /\ csr.tele THEN {"inside"} ELSE {})
                   \cup (IF queue = "inside" THEN {"valid"} ELSE {})

Edge(op, ext, other, move) ==
    /\ bus' = BusNext(op, ext, other)
    /\ csr' = CsrNext(Taken(ext, other), ext, BadCommit(ext, other))
    /\ PointerNext(ext, move.adv)
    /\ job' = IF Clearing(ext) THEN P!NoAdvance ELSE move.job
    /\ queue' \in QueueNext(move.took, ext)

Init ==
    /\ P!Init
    /\ bus = BusIdle
    /\ csr = [tele |-> FALSE, writer |-> FALSE, sizeShadow |-> 0,
              base64 |-> TRUE, size |-> 0, base |-> TRUE,
              configured |-> FALSE, malformed |-> FALSE, epoch |-> FALSE,
              rdLo |-> 0, rdHi |-> 0, rdActive |-> 0, snap |-> 0,
              pulse |-> Quiet]
    /\ job = P!NoAdvance
    /\ queue = "empty"

\* Inputs that cannot matter in this state are not enumerated.  Reads change
\* nothing but the adapter; they are left to a host that acts on what it
\* reads.
HostOps == IF bus.state = "IDLE" THEN Writes \cup {NoOp} ELSE {NoOp}
Others ==
    LET matters(regs) ==
          IF bus.state = "ISSUE" /\ bus.op.reg \in regs THEN BOOLEAN ELSE {FALSE}
    IN  [busy    : matters({"CONTROL", "SOURCE", "FORMATTER"}),
         pending : matters({"THR2", "READ_STATUS"})]

----------------------------------------------------------------------------
\* Whenever no registered pulse is on its way, the bank and the controller
\* agree on the epoch, on the consumer pointer and on the ring that is
\* configured, whatever mix of accesses and clears led there: a Rd that the
\* bank has acknowledged to the host is one the controller took, although W
\* may have moved and a reset may have arrived in between.
BankMirrorsController ==
    ~csr.pulse.reset /\ ~csr.pulse.config /\ ~csr.pulse.rd =>
        /\ csr.epoch = epoch
        /\ epoch => csr.rdActive = Rd
        /\ csr.configured => legal /\ size = csr.size

\* While the writer works towards an advance, the ring it was scheduled in
\* stays: no soft reset and no reconfiguration accepted earlier lands then.
RingStableUnderWriter ==
    ~WriterIdle => /\ ~csr.pulse.reset /\ ~csr.pulse.config
                   /\ P!PointersValid
============================================================================
