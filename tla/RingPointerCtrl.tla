-------------------------- MODULE RingPointerCtrl --------------------------
(***************************************************************************)
(* The FPGA ring pointer controller (trecap_ring_pointer_ctrl.sv): owner   *)
(* of the producer pointer W and of the consumer pointer Rd the HPS        *)
(* commits.  Both are absolute byte counts that never wrap; an offset in   *)
(* the DDR ring is a pointer modulo the ring size.                         *)
(*                                                                         *)
(* One step is one clock edge.  Lengths and pointers are counted in units  *)
(* of 32 bytes (the record header), so the 64-byte alignment of the ring   *)
(* is "even".  PtrLimit stands for 2^64 bytes, SeqLimit for 2^32.          *)
(***************************************************************************)
EXTENDS Integers

CONSTANTS
    Configs,    \* what RING_CONFIG_COMMIT may present: [size, base64] records
    MinSize,    \* RING_SIZE_MIN_BYTES
    Guard,      \* GUARD_BYTES, the space that is never handed to the writer
    Lengths,    \* the lengths the writer may present for an advance
    PtrLimit,   \* first value a 64-bit pointer cannot hold
    SeqLimit    \* first value the 32-bit sequence number cannot hold

ASSUME RingConstants ==
    /\ Configs \subseteq [size : Nat, base64 : BOOLEAN]
    /\ MinSize \in Nat \ {0}
    /\ Guard \in Nat \ {0}
    /\ Guard % 2 = 0
    /\ PtrLimit \in Nat \ {0}
    /\ Lengths \subseteq 0 .. PtrLimit - 1
    /\ SeqLimit \in Nat \ {0, 1}

VARIABLES
    size,       \* config_q.size_bytes
    legal,      \* config_legal_q
    W,          \* producer_ptr_q
    Rd,         \* consumer_ptr_q
    epoch,      \* rd_epoch_valid_q
    seq,        \* sequence_q
    snap,       \* snapshot_q
    snapValid,  \* snapshot_valid_q
    error,      \* pointer_error_q
    pulse       \* the registered one-cycle outputs of the last edge

vars == <<size, legal, W, Rd, epoch, seq, snap, snapValid, error, pulse>>

Pointers == 0 .. PtrLimit - 1
NoAdvance == [kind |-> "none", len |-> 0]
NoRd == -1
Quiet == [advance |-> "none", rd |-> "none"]

Aligned(n) == n % 2 = 0

PowerOfTwo(n) == \E k \in 0 .. 26 : n = 2 ^ k

RingConfigLegal(c) ==
    /\ c.base64
    /\ c.size >= MinSize
    /\ Aligned(c.size)
    /\ PowerOfTwo(c.size)

----------------------------------------------------------------------------
(* What the controller derives from its registers.                         *)

PointersValid ==
    /\ legal
    /\ epoch
    /\ W >= Rd
    /\ W - Rd <= size

Free ==
    IF PointersValid /\ size - (W - Rd) >= Guard
      THEN size - (W - Rd) - Guard
      ELSE 0

Offset == IF legal THEN W % size ELSE 0

Tail == IF legal THEN size - Offset ELSE 0

\* A record the writer asks about: "len" is its effective, padded length.
LengthLegal(len) ==
    /\ legal
    /\ len > 0
    /\ len <= size
    /\ Aligned(len)

CrossesTail(len) == LengthLegal(len) /\ Offset + len > size

\* Mutant: the bytes of the WRAP are forgotten.
RequiredWithoutWrap(len) == len

Required(len) == IF CrossesTail(len) THEN Tail + len ELSE len

\* Mutant: a tail of exactly one 64-byte block is thought too short.
ScheduleFitsLongTail(len) ==
    /\ LengthLegal(len)
    /\ PointersValid
    /\ Free >= Required(len)
    /\ CrossesTail(len) => Offset # 0 /\ Tail > 2

ScheduleFits(len) ==
    /\ LengthLegal(len)
    /\ PointersValid
    /\ Free >= Required(len)
    /\ CrossesTail(len) => Offset # 0 /\ Tail >= 2

\* The 64-bit sum W + len as the adder computes it.
ProducerNext(len) == (W + len) % PtrLimit

\* Mutant: the end of the ring is not compared.
AdvanceLegalIgnoresTail(a) ==
    /\ \/ a.kind = "normal" /\ a.len >= 1 /\ Aligned(a.len)
       \/ a.kind = "wrap" /\ Offset # 0 /\ Tail >= 2 /\ a.len = Tail
    /\ PointersValid
    /\ ProducerNext(a.len) >= W
    /\ ProducerNext(a.len) - Rd <= size

AdvanceLegal(a) ==
    /\ \/ a.kind = "normal" /\ a.len >= 1 /\ Aligned(a.len) /\ a.len <= Tail
       \/ a.kind = "wrap" /\ Offset # 0 /\ Tail >= 2 /\ a.len = Tail
    /\ PointersValid
    /\ ProducerNext(a.len) >= W
    /\ ProducerNext(a.len) >= Rd
    /\ ProducerNext(a.len) - Rd <= size

\* Mutant: a consumer pointer ahead of W.
RdCommitLegalNoCeiling(p) ==
    legal /\ Aligned(p) /\ (IF epoch THEN p >= Rd ELSE p = 0) /\ W - p <= size

RdCommitLegal(p) ==
    /\ legal
    /\ Aligned(p)
    /\ \/ ~epoch /\ p = 0
       \/ epoch /\ p >= Rd
    /\ p <= W
    /\ W - p <= size

----------------------------------------------------------------------------
Init ==
    /\ size = 0
    /\ legal = FALSE
    /\ W = 0
    /\ Rd = 0
    /\ epoch = FALSE
    /\ seq = 0
    /\ snap = 0
    /\ snapValid = FALSE
    /\ error = FALSE
    /\ pulse = Quiet

\* soft_reset_i: every register but consumer_ptr_q is cleared.
SoftReset ==
    /\ size' = 0
    /\ legal' = FALSE
    /\ W' = 0
    /\ epoch' = FALSE
    /\ seq' = 0
    /\ snap' = 0
    /\ snapValid' = FALSE
    /\ error' = FALSE
    /\ pulse' = Quiet
    /\ UNCHANGED Rd

\* ring_config_commit_pulse_i, which yields to soft_reset_i.
ConfigCommit(c) ==
    /\ size' = c.size
    /\ legal' = RingConfigLegal(c)
    /\ W' = 0
    /\ epoch' = FALSE
    /\ seq' = 0
    /\ snap' = 0
    /\ snapValid' = FALSE
    /\ error' = ~RingConfigLegal(c)
    /\ pulse' = Quiet
    /\ UNCHANGED Rd

\* Any other edge.  A producer advance, a consumer commit and a snapshot
\* request may arrive together; each is judged against the registers as
\* they were before the edge.
Run(advance, rd, snapReq, enabled) ==
    LET advOK == AdvanceLegal(advance)
        rdOK  == RdCommitLegal(rd)
        Verdict(asked, ok) == IF ~asked THEN "none"
                              ELSE IF ok THEN "accept" ELSE "reject"
        asked == advance # NoAdvance
    IN
    /\ W' = IF asked /\ advOK THEN ProducerNext(advance.len) ELSE W
    /\ seq' = IF asked /\ advOK /\ advance.kind = "normal"
                THEN (seq + 1) % SeqLimit ELSE seq
    /\ Rd' = IF rd # NoRd /\ rdOK THEN rd ELSE Rd
    /\ epoch' = (epoch \/ (rd # NoRd /\ rdOK))
    /\ snap' = IF snapReq THEN W ELSE snap
    /\ snapValid' = (snapValid \/ snapReq)
    /\ error' = \/ error
                \/ asked /\ ~advOK
                \/ rd # NoRd /\ ~rdOK
                \/ legal /\ enabled /\ ~PointersValid
    /\ pulse' = [advance |-> Verdict(asked, advOK),
                 rd      |-> Verdict(rd # NoRd, rdOK)]
    /\ UNCHANGED <<size, legal>>

Advances == {NoAdvance} \cup [kind : {"normal", "wrap"}, len : Lengths]

Next ==
    \/ SoftReset
    \/ \E c \in Configs : ConfigCommit(c)
    \/ \E a \in Advances, p \in Pointers \cup {NoRd}, s, e \in BOOLEAN :
          Run(a, p, s, e)

Spec == Init /\ [][Next]_vars

----------------------------------------------------------------------------
\* Every register stays within its width; in particular W and Rd stay
\* 64-bit values although the adder of producer_next can carry out.
TypeOK ==
    /\ size \in Nat
    /\ legal \in BOOLEAN
    /\ W \in Pointers
    /\ Rd \in Pointers
    /\ epoch \in BOOLEAN
    /\ seq \in 0 .. SeqLimit - 1
    /\ snap \in Pointers
    /\ snapValid \in BOOLEAN
    /\ error \in BOOLEAN
    /\ pulse \in [advance : {"none", "accept", "reject"},
                  rd      : {"none", "accept", "reject"}]

\* Once the HPS has opened an epoch by committing Rd = 0, no sequence of
\* advances and commits, legal or not, makes the pointers inconsistent: Rd
\* never passes W, W never laps Rd, and both stay 64-byte aligned.  The
\* comparator of pointers_valid_comb can then only be false before the
\* epoch is opened.
EpochConsistent ==
    epoch => PointersValid /\ Aligned(W) /\ Aligned(Rd)

\* Outside an epoch nothing has been published: a Rd value retained across
\* a soft reset or a reconfiguration cannot let the writer move W.
NothingPublishedOutsideEpoch ==
    ~epoch => W = 0 /\ seq = 0

\* A latched producer snapshot never shows bytes that are not committed and
\* never survives a reset of the ring, even when the request and the reset
\* arrive on the same edge.
SnapshotNotAhead ==
    snap <= W /\ (~snapValid => snap = 0)

\* With every committed byte consumed, any record that with its guard takes
\* at most half of the ring is schedulable at every ring offset: the WRAP
\* detour alone never starves a record of that length.
DrainedRingAdmits ==
    PointersValid /\ W = Rd =>
        \A len \in 1 .. size :
            Aligned(len) /\ 2 * len + Guard <= size => ScheduleFits(len)

\* Inside an epoch the pointers only grow, and a new epoch starts with
\* both at zero whatever consumer_ptr_q held before.
EpochMonotone ==
    [][ /\ epoch /\ epoch' => W' >= W /\ Rd' >= Rd
        /\ ~epoch /\ epoch' => W' = 0 /\ Rd' = 0 ]_vars

\* An accepted advance never publishes bytes that straddle the end of the
\* ring, and a WRAP leaves the next record at offset zero.
NoStraddle ==
    [][ W' > W => /\ W \div size = (W' - 1) \div size
                  /\ seq' = seq => W' % size = 0 ]_vars

\* The space promised to a record that needs a WRAP survives the WRAP: after
\* the WRAP is committed the record fits without crossing, whatever the HPS
\* commits on the same edge.
WrapKeepsPromise ==
    [][ \A len \in 1 .. size :
          ScheduleFits(len) /\ CrossesTail(len) /\ W' = W + Tail
            => (ScheduleFits(len) /\ ~CrossesTail(len))' ]_vars
============================================================================
