----------------------- MODULE RingPointerCtrlProofs -----------------------
(***************************************************************************)
(* The safety of the ring pointers for every ring size, guard, pointer     *)
(* width and set of presented lengths.                                     *)
(***************************************************************************)
EXTENDS RingPointerCtrl, TLAPS

----------------------------------------------------------------------------
(* Arithmetic of the offset mask and of the pointer adder.                 *)

\* Quotient and remainder recompose the dividend.
LEMMA DivMod ==
    ASSUME NEW n \in Nat, n > 0, NEW x \in Nat
    PROVE  /\ x = n * (x \div n) + (x % n)
           /\ x % n \in 0 .. n - 1
           /\ x \div n \in Nat
  OBVIOUS

\* They are the only such pair.
LEMMA DivUnique ==
    ASSUME NEW n \in Nat, n > 0, NEW q \in Nat, NEW r \in 0 .. n - 1,
           NEW x \in Nat, x = n * q + r
    PROVE  x \div n = q /\ x % n = r
  OBVIOUS

\* A sum that overflows the pointer once loses exactly the modulus.
LEMMA ModOnce ==
    ASSUME NEW n \in Nat, n > 0, NEW x \in Nat, x < 2 * n
    PROVE  x % n = IF x < n THEN x ELSE x - n
  OBVIOUS

\* A multiple of an even number is even.
LEMMA EvenTimes ==
    ASSUME NEW n \in Nat, NEW q \in Nat, n % 2 = 0
    PROVE  (n * q) % 2 = 0
<1> DEFINE h == n \div 2
<1>1. n = 2 * h /\ h \in Nat
  OBVIOUS
<1>2. n * q = 2 * (h * q) /\ h * q \in Int
  BY <1>1
<1> HIDE DEF h
<1> QED
  BY <1>2

\* An aligned pointer has an aligned offset in an aligned ring.
LEMMA ModEven ==
    ASSUME NEW n \in Nat, n > 0, n % 2 = 0, NEW x \in Nat, x % 2 = 0
    PROVE  (x % n) % 2 = 0
<1> DEFINE m == n * (x \div n)
           r == x % n
<1>1. m % 2 = 0
  BY DivMod, EvenTimes
<1>2. x = m + r /\ m \in Int /\ r \in Int
  BY DivMod
<1> HIDE DEF m, r
<1>3. r % 2 = 0
  BY <1>1, <1>2
<1> QED
  BY <1>3 DEF r

----------------------------------------------------------------------------
(* The inductive invariant.                                                *)

\* A committed legal configuration has a positive, 64-byte aligned size.
LegalSize == legal => size > 0 /\ Aligned(size)

\* The one-bit registers, and the others.
BoolsOK ==
    /\ legal \in BOOLEAN
    /\ epoch \in BOOLEAN
    /\ snapValid \in BOOLEAN
    /\ error \in BOOLEAN

DataOK ==
    /\ size \in Nat
    /\ W \in Pointers
    /\ Rd \in Pointers
    /\ seq \in 0 .. SeqLimit - 1
    /\ snap \in Pointers
    /\ pulse \in [advance : {"none", "accept", "reject"},
                  rd      : {"none", "accept", "reject"}]

\* The pointer facts need each other: epoch consistency is preserved by the
\* commit that opens an epoch only because W is 0 before it, and a snapshot
\* stays behind W only because W never decreases without a reset.
Order ==
    /\ LegalSize
    /\ EpochConsistent
    /\ NothingPublishedOutsideEpoch
    /\ SnapshotNotAhead

IInv == BoolsOK /\ DataOK /\ Order

\* The type invariant is the two halves together.
LEMMA TypeSplit == TypeOK <=> BoolsOK /\ DataOK
  BY Zenon DEF TypeOK, BoolsOK, DataOK

\* A presented length is a pointer-sized number.
LEMMA AdvanceLength ==
    ASSUME NEW a \in Advances
    PROVE  a.len \in Pointers
<1>1. CASE a = NoAdvance
  BY <1>1, RingConstants DEF NoAdvance, Pointers
<1>2. CASE a \in [kind : {"normal", "wrap"}, len : Lengths]
  <2>1. a.len \in Lengths
    BY <1>2
  <2> QED
    BY <2>1, RingConstants, Zenon DEF Pointers
<1> QED
  BY <1>1, <1>2 DEF Advances

\* An accepted advance did not overflow the 64-bit adder, is aligned and
\* stays before the end of the ring.
LEMMA AcceptedAdvance ==
    ASSUME IInv, NEW a \in Advances, AdvanceLegal(a)
    PROVE  /\ ProducerNext(a.len) = W + a.len
           /\ a.len \in Nat
           /\ a.len >= 1
           /\ Aligned(a.len)
           /\ a.len <= Tail
           /\ a.kind = "wrap" => a.len = Tail
           /\ legal /\ epoch
<1>1. legal /\ epoch /\ size \in Nat /\ size > 0 /\ size % 2 = 0
      /\ W \in Nat /\ W < PtrLimit /\ W % 2 = 0 /\ PtrLimit \in Nat
  BY RingConstants DEF AdvanceLegal, PointersValid, IInv, Order, DataOK,
     LegalSize, EpochConsistent, Aligned, Pointers
<1>2. a.len \in Nat /\ a.len < PtrLimit
  BY AdvanceLength, RingConstants DEF Pointers
<1>3. ProducerNext(a.len) = W + a.len
  <2>1. (W + a.len) % PtrLimit = IF W + a.len < PtrLimit
                                   THEN W + a.len ELSE W + a.len - PtrLimit
    BY <1>1, <1>2, ModOnce
  <2>2. (W + a.len) % PtrLimit >= W
    BY DEF AdvanceLegal, ProducerNext
  <2> QED
    BY <1>1, <1>2, <2>1, <2>2 DEF ProducerNext
<1>4. Tail = size - (W % size) /\ W % size \in 0 .. size - 1
      /\ (W % size) % 2 = 0
  BY <1>1, ModEven, DivMod DEF Tail, Offset
<1>5. Aligned(Tail) /\ Tail \in Nat /\ Tail >= 1
  <2> DEFINE r == W % size
  <2>1. Tail = size - r /\ r \in 0 .. size - 1 /\ r % 2 = 0
    BY <1>4
  <2> HIDE DEF r
  <2> QED
    BY <1>1, <2>1 DEF Aligned
<1>6. \/ a.kind = "normal" /\ a.len >= 1 /\ Aligned(a.len) /\ a.len <= Tail
      \/ a.kind = "wrap" /\ a.len = Tail
  BY DEF AdvanceLegal
<1> QED
  BY <1>1, <1>2, <1>3, <1>5, <1>6

\* The reset state satisfies the invariant.
LEMMA InitIInv == Init => IInv
<1> SUFFICES ASSUME Init PROVE IInv
  OBVIOUS
<1>1. BoolsOK
  BY Zenon DEF Init, BoolsOK
<1>2. DataOK
  BY RingConstants DEF Init, DataOK, Pointers, Quiet
<1>3. Order
  BY RingConstants DEF Init, Order, LegalSize, EpochConsistent,
     NothingPublishedOutsideEpoch, SnapshotNotAhead
<1> QED
  BY <1>1, <1>2, <1>3 DEF IInv

\* A soft reset preserves it although Rd keeps its old value.
LEMMA SoftResetIInv ==
    ASSUME IInv, SoftReset
    PROVE  IInv'
<1>1. BoolsOK'
  BY DEF SoftReset, BoolsOK
<1>2. DataOK'
  BY RingConstants DEF IInv, SoftReset, DataOK, Quiet, Pointers
<1>3. Order'
  BY RingConstants DEF IInv, DataOK, SoftReset, Order, LegalSize,
     EpochConsistent, NothingPublishedOutsideEpoch, SnapshotNotAhead
<1> QED
  BY <1>1, <1>2, <1>3 DEF IInv

\* So does a configuration commit, legal or not.
LEMMA ConfigCommitIInv ==
    ASSUME IInv, NEW c \in Configs, ConfigCommit(c)
    PROVE  IInv'
<1>1. BoolsOK'
  BY DEF ConfigCommit, BoolsOK, RingConfigLegal
<1>2. DataOK'
  BY RingConstants DEF IInv, ConfigCommit, DataOK, Quiet, Pointers
<1>3. Order'
  BY RingConstants DEF IInv, DataOK, ConfigCommit, RingConfigLegal, Order,
     LegalSize, EpochConsistent, NothingPublishedOutsideEpoch,
     SnapshotNotAhead
<1> QED
  BY <1>1, <1>2, <1>3 DEF IInv

\* An ordinary edge preserves the types.
LEMMA RunTypes ==
    ASSUME IInv, NEW a \in Advances, NEW p \in Pointers \cup {NoRd},
           NEW s \in BOOLEAN, NEW e \in BOOLEAN, Run(a, p, s, e)
    PROVE  BoolsOK' /\ DataOK'
<1>1. BoolsOK'
  BY Zenon DEF IInv, Run, BoolsOK
<1>2. a.len \in Nat
  BY AdvanceLength, RingConstants DEF Pointers
<1>3. W' \in Pointers
  BY <1>2, RingConstants DEF IInv, Run, DataOK, Pointers, ProducerNext
<1>4. seq' \in 0 .. SeqLimit - 1
  BY RingConstants DEF IInv, Run, DataOK
<1>5. Rd' \in Pointers /\ snap' \in Pointers /\ size' \in Nat
  BY DEF IInv, Run, DataOK
<1>6. pulse' \in [advance : {"none", "accept", "reject"},
                  rd      : {"none", "accept", "reject"}]
  BY DEF Run
<1>7. DataOK'
  BY <1>3, <1>4, <1>5, <1>6 DEF DataOK
<1> QED
  BY <1>1, <1>7

\* What an ordinary edge does to the two pointers, by which requests it
\* accepts.
LEMMA RunPointers ==
    ASSUME IInv, NEW a \in Advances, NEW p \in Pointers \cup {NoRd},
           NEW s \in BOOLEAN, NEW e \in BOOLEAN, Run(a, p, s, e)
    PROVE  /\ W' = W \/ (AdvanceLegal(a) /\ a # NoAdvance /\ W' = W + a.len)
           /\ Rd' = Rd \/ (RdCommitLegal(p) /\ p \in Pointers /\ Rd' = p)
           /\ epoch' => epoch \/ (RdCommitLegal(p) /\ Rd' = p)
           /\ W' >= W
           /\ size' = size /\ legal' = legal
<1>1. W' = W \/ (AdvanceLegal(a) /\ a # NoAdvance /\ W' = W + a.len)
  BY AcceptedAdvance DEF Run
<1>2. Rd' = Rd \/ (RdCommitLegal(p) /\ p \in Pointers /\ Rd' = p)
  BY DEF Run
<1>3. epoch' => epoch \/ (RdCommitLegal(p) /\ Rd' = p)
  BY DEF Run
<1>4. W' >= W
  <2>1. W \in Nat
    BY RingConstants DEF IInv, DataOK, Pointers
  <2> QED
    BY <1>1, <2>1, AcceptedAdvance
<1> QED
  BY <1>1, <1>2, <1>3, <1>4 DEF Run

\* Simultaneous advance and consumer commit, judged against the same old
\* registers, still leave the pointers consistent.
LEMMA RunOrder ==
    ASSUME IInv, NEW a \in Advances, NEW p \in Pointers \cup {NoRd},
           NEW s \in BOOLEAN, NEW e \in BOOLEAN, Run(a, p, s, e)
    PROVE  Order'
<1>1. /\ size \in Nat /\ W \in Nat /\ Rd \in Nat /\ snap \in Nat
      /\ \A q \in Pointers : q \in Nat
  BY RingConstants DEF IInv, DataOK, Pointers
<1>2. LegalSize'
  BY RunPointers DEF IInv, Order, LegalSize, Aligned
<1>3. EpochConsistent'
  <2> SUFFICES ASSUME epoch'
               PROVE  PointersValid' /\ Aligned(W') /\ Aligned(Rd')
    BY DEF EpochConsistent
  <2>1. CASE epoch
    <3>1. legal /\ W >= Rd /\ W - Rd <= size /\ Aligned(W) /\ Aligned(Rd)
      BY <2>1 DEF IInv, Order, EpochConsistent, PointersValid
    <3>2. Aligned(W')
      <4>1. CASE W' = W
        BY <3>1, <4>1 DEF Aligned
      <4>2. CASE AdvanceLegal(a) /\ W' = W + a.len
        BY <1>1, <3>1, <4>2, AcceptedAdvance DEF Aligned
      <4> QED
        BY <4>1, <4>2, RunPointers
    <3>3. W' - Rd <= size /\ W' \in Nat
      <4>1. CASE W' = W
        BY <1>1, <3>1, <4>1
      <4>2. CASE AdvanceLegal(a) /\ W' = W + a.len
        BY <1>1, <4>2, AcceptedAdvance DEF AdvanceLegal
      <4> QED
        BY <4>1, <4>2, RunPointers
    <3>4. Rd' \in Nat /\ Rd' >= Rd /\ Rd' <= W /\ Aligned(Rd')
      <4>1. CASE Rd' = Rd
        BY <1>1, <3>1, <4>1 DEF Aligned
      <4>2. CASE RdCommitLegal(p) /\ p \in Pointers /\ Rd' = p
        BY <1>1, <2>1, <4>2 DEF RdCommitLegal
      <4> QED
        BY <4>1, <4>2, RunPointers
    <3>5. size' = size /\ W' >= W
      BY RunPointers
    <3>6. W' >= Rd' /\ W' - Rd' <= size'
      <4>1. PICK w \in Nat, r \in Nat : w = W' /\ r = Rd'
        BY <3>3, <3>4
      <4>2. w >= W /\ w - Rd <= size /\ r >= Rd /\ r <= W
        BY <3>3, <3>4, <3>5, <4>1
      <4>3. w >= r /\ w - r <= size
        BY <1>1, <4>2
      <4> QED
        BY <3>5, <4>1, <4>3
    <3>7. legal'
      BY <3>1 DEF Run
    <3> QED
      BY <3>2, <3>4, <3>6, <3>7 DEF PointersValid
  <2>2. CASE ~epoch
    <3>1. RdCommitLegal(p) /\ Rd' = p /\ W = 0 /\ p = 0 /\ legal
      BY <2>2, RunPointers DEF IInv, Order, NothingPublishedOutsideEpoch,
         RdCommitLegal
    <3>2. W' = 0
      BY <2>2, <3>1, RunPointers, AcceptedAdvance
    <3>3. legal'
      BY <3>1 DEF Run
    <3>4. size' \in Nat
      BY <1>1, RunPointers
    <3>5. W' >= Rd' /\ W' - Rd' <= size' /\ Aligned(W') /\ Aligned(Rd')
      BY <3>1, <3>2, <3>4 DEF Aligned
    <3> QED
      BY <3>3, <3>5 DEF PointersValid
  <2> QED
    BY <2>1, <2>2
<1>4. NothingPublishedOutsideEpoch'
  <2> SUFFICES ASSUME ~epoch'
               PROVE  W' = 0 /\ seq' = 0
    BY DEF NothingPublishedOutsideEpoch
  <2>1. ~epoch
    BY DEF Run
  <2>2. ~AdvanceLegal(a) /\ W = 0 /\ seq = 0
    BY <2>1 DEF AdvanceLegal, PointersValid, IInv, Order,
       NothingPublishedOutsideEpoch
  <2> QED
    BY <2>2 DEF Run
<1>5. SnapshotNotAhead'
  <2>1. W' \in Nat
    BY <1>1, RunPointers, AcceptedAdvance
  <2>2. snap <= W
    BY DEF IInv, Order, SnapshotNotAhead
  <2>3. snap' = snap \/ snap' = W
    BY DEF Run
  <2>4. snap' <= W'
    BY <1>1, <2>1, <2>2, <2>3, RunPointers
  <2>5. ~snapValid' => snap' = 0
    BY DEF Run, IInv, Order, SnapshotNotAhead
  <2> QED
    BY <2>4, <2>5 DEF SnapshotNotAhead
<1> QED
  BY <1>2, <1>3, <1>4, <1>5 DEF Order

\* Every edge preserves the invariant.
LEMMA NextIInv == IInv /\ [Next]_vars => IInv'
<1> SUFFICES ASSUME IInv, [Next]_vars
             PROVE  IInv'
  OBVIOUS
<1>1. CASE SoftReset
  BY <1>1, SoftResetIInv
<1>2. CASE \E c \in Configs : ConfigCommit(c)
  BY <1>2, ConfigCommitIInv
<1>3. CASE \E a \in Advances, p \in Pointers \cup {NoRd}, s, e \in BOOLEAN :
              Run(a, p, s, e)
  BY <1>3, RunTypes, RunOrder, Zenon DEF IInv
<1>4. CASE UNCHANGED vars
  BY <1>4 DEF vars, IInv, BoolsOK, DataOK, Order, LegalSize,
     EpochConsistent, NothingPublishedOutsideEpoch, SnapshotNotAhead,
     PointersValid, Aligned
<1> QED
  BY <1>1, <1>2, <1>3, <1>4 DEF Next

\* The inductive invariant holds in every reachable state of the pointer
\* controller, whatever resets, configurations, advances and commits arrive.
LEMMA AlwaysIInv == Spec => []IInv
<1> QED
  BY InitIInv, NextIInv, PTL DEF Spec

----------------------------------------------------------------------------
(* The theorems.                                                           *)

\* The registers of the pointer controller keep their widths.
THEOREM TypeCorrect == Spec => []TypeOK
<1>1. IInv => TypeOK
  BY TypeSplit DEF IInv
<1> QED
  BY <1>1, AlwaysIInv, PTL

\* In an epoch Rd never passes W, W never laps Rd and both stay aligned:
\* pointer_error_o is never raised by the controller's own registers.
THEOREM PointersConsistent == Spec => []EpochConsistent
<1>1. IInv => EpochConsistent
  BY DEF IInv, Order
<1> QED
  BY <1>1, AlwaysIInv, PTL

\* A Rd retained across a reset never lets the writer publish.
THEOREM NothingPublished == Spec => []NothingPublishedOutsideEpoch
<1>1. IInv => NothingPublishedOutsideEpoch
  BY DEF IInv, Order
<1> QED
  BY <1>1, AlwaysIInv, PTL

\* A producer snapshot shows committed bytes only.
THEOREM SnapshotSafe == Spec => []SnapshotNotAhead
<1>1. IInv => SnapshotNotAhead
  BY DEF IInv, Order
<1> QED
  BY <1>1, AlwaysIInv, PTL

\* Inside an epoch W and Rd only grow; a new epoch opens with both at zero.
THEOREM PointersMonotone == Spec => EpochMonotone
<1> DEFINE Grow == /\ epoch /\ epoch' => W' >= W /\ Rd' >= Rd
                   /\ ~epoch /\ epoch' => W' = 0 /\ Rd' = 0
<1>1. IInv /\ [Next]_vars => [Grow]_vars
  <2> SUFFICES ASSUME IInv, Next
               PROVE  Grow
    OBVIOUS
  <2>1. W \in Nat /\ Rd \in Nat
    BY RingConstants DEF IInv, DataOK, Pointers
  <2>2. CASE SoftReset \/ \E c \in Configs : ConfigCommit(c)
    <3>1. ~epoch'
      BY <2>2 DEF SoftReset, ConfigCommit
    <3> QED
      BY <3>1
  <2>3. ASSUME NEW a \in Advances, NEW p \in Pointers \cup {NoRd},
               NEW s \in BOOLEAN, NEW e \in BOOLEAN, Run(a, p, s, e)
        PROVE  Grow
    <3>1. ASSUME epoch
          PROVE  W' >= W /\ Rd' >= Rd
      <4>1. Rd' = Rd \/ (RdCommitLegal(p) /\ Rd' = p)
        BY <2>3, RunPointers
      <4>2. RdCommitLegal(p) => p >= Rd
        BY <3>1 DEF RdCommitLegal
      <4> QED
        BY <2>1, <2>3, <4>1, <4>2, RunPointers
    <3>2. ASSUME ~epoch, epoch'
          PROVE  W' = 0 /\ Rd' = 0
      <4>1. ~AdvanceLegal(a) /\ W = 0
        BY <3>2 DEF IInv, Order, NothingPublishedOutsideEpoch,
           AdvanceLegal, PointersValid
      <4>2. W' = 0
        BY <2>3, <4>1, RunPointers
      <4>3. RdCommitLegal(p) /\ Rd' = p
        BY <2>3, <3>2, RunPointers
      <4> QED
        BY <3>2, <4>2, <4>3 DEF RdCommitLegal
    <3> QED
      BY <3>1, <3>2
  <2> QED
    BY <2>2, <2>3 DEF Next
<1> QED
  BY <1>1, AlwaysIInv, PTL DEF Spec, EpochMonotone

\* Where an accepted advance puts the producer pointer, in ring offsets.
LEMMA AdvanceStaysInLap ==
    ASSUME IInv, NEW a \in Advances, AdvanceLegal(a)
    PROVE  /\ W \div size = ((W + a.len) - 1) \div size
           /\ a.len = Tail => (W + a.len) % size = 0
<1> DEFINE q == W \div size
           r == W % size
<1>1. size \in Nat /\ size > 0 /\ W \in Nat
  BY AcceptedAdvance, RingConstants DEF IInv, Order, DataOK, LegalSize,
     Pointers
<1>2. W = size * q + r /\ r \in 0 .. size - 1 /\ q \in Nat
  BY <1>1, DivMod
<1>3. a.len \in Nat /\ a.len >= 1 /\ a.len <= size - r /\ Tail = size - r
  BY AcceptedAdvance DEF Tail, Offset
<1> HIDE DEF q, r
<1>4. ((W + a.len) - 1) \div size = q
  <2>1. PICK x \in Nat, y \in 0 .. size - 1 :
           x = (W + a.len) - 1 /\ y = (r + a.len) - 1
    BY <1>1, <1>2, <1>3
  <2>2. x = size * q + y
    BY <1>1, <1>2, <1>3, <2>1
  <2>3. x \div size = q
    BY <1>1, <1>2, <2>2, DivUnique
  <2> QED
    BY <2>1, <2>3
<1>5. ASSUME a.len = Tail
      PROVE  (W + a.len) % size = 0
  <2>1. W + a.len = size * (q + 1) + 0 /\ q + 1 \in Nat
    BY <1>1, <1>2, <1>3, <1>5
  <2>2. 0 \in 0 .. size - 1 /\ W + a.len \in Nat
    BY <1>1, <1>3
  <2> QED
    BY <1>1, <2>1, <2>2, DivUnique
<1> QED
  BY <1>4, <1>5 DEF q

\* No accepted advance publishes bytes across the end of the ring, and a
\* WRAP leaves the producer at offset zero.
THEOREM RecordsNeverStraddle == Spec => NoStraddle
<1> DEFINE Inside == W' > W => /\ W \div size = (W' - 1) \div size
                               /\ seq' = seq => W' % size = 0
<1>1. IInv /\ [Next]_vars => [Inside]_vars
  <2> SUFFICES ASSUME IInv, Next, W' > W
               PROVE  /\ W \div size = (W' - 1) \div size
                      /\ seq' = seq => W' % size = 0
    OBVIOUS
  <2>1. W \in Nat /\ seq \in 0 .. SeqLimit - 1
    BY RingConstants DEF IInv, DataOK, Pointers
  <2>2. PICK a \in Advances, p \in Pointers \cup {NoRd},
             s \in BOOLEAN, e \in BOOLEAN : Run(a, p, s, e)
    <3>1. ~(W' = 0)
      BY <2>1
    <3> QED
      BY <3>1 DEF Next, SoftReset, ConfigCommit
  <2>3. AdvanceLegal(a) /\ a # NoAdvance /\ W' = W + a.len
    <3>1. W' # W
      BY <2>1
    <3> QED
      BY <2>2, <3>1, RunPointers
  <2>4. seq' = seq => a.kind # "normal"
    <3>1. (seq + 1) % SeqLimit # seq
      <4>1. SeqLimit \in Nat /\ SeqLimit > 1
        BY RingConstants
      <4>2. (seq + 1) % SeqLimit = IF seq + 1 < SeqLimit
                                     THEN seq + 1 ELSE seq + 1 - SeqLimit
        BY <2>1, <4>1, ModOnce
      <4> QED
        BY <2>1, <4>1, <4>2
    <3> QED
      BY <2>2, <2>3, <3>1 DEF Run
  <2>5. a.kind # "normal" => a.len = Tail
    BY <2>3 DEF AdvanceLegal
  <2>6. W \div size = ((W + a.len) - 1) \div size
        /\ (a.len = Tail => (W + a.len) % size = 0)
    BY <2>3, AdvanceStaysInLap
  <2>7. W \div size = (W' - 1) \div size
    <3>1. PICK w : w = W + a.len
      OBVIOUS
    <3>2. W \div size = (w - 1) \div size
      BY <2>6, <3>1
    <3>3. W' = w
      BY <2>3, <3>1
    <3> QED
      BY <3>2, <3>3
  <2>8. seq' = seq => W' % size = 0
    BY <2>3, <2>4, <2>5, <2>6, Zenon
  <2> QED
    BY <2>7, <2>8
<1> QED
  BY <1>1, AlwaysIInv, PTL DEF Spec, NoStraddle

\* A drained ring schedules every record that with the guard takes at most
\* half of it, wherever the producer stands.
THEOREM DrainedAdmits == Spec => []DrainedRingAdmits
<1>1. IInv => DrainedRingAdmits
  <2> SUFFICES ASSUME IInv, PointersValid, W = Rd,
                      NEW len \in 1 .. size, Aligned(len),
                      2 * len + Guard <= size
               PROVE  ScheduleFits(len)
    BY DEF DrainedRingAdmits
  <2>1. size \in Nat /\ size > 0 /\ size % 2 = 0 /\ W \in Nat /\ legal
        /\ W % 2 = 0 /\ Guard \in Nat
    BY RingConstants DEF PointersValid, IInv, Order, DataOK, LegalSize,
       EpochConsistent, Aligned, Pointers
  <2> DEFINE r == W % size
  <2>2. Offset = r /\ Tail = size - r /\ r \in 0 .. size - 1 /\ r % 2 = 0
    BY <2>1, ModEven, DivMod DEF Offset, Tail
  <2> HIDE DEF r
  <2>3. Free = size - Guard
    BY <2>1 DEF Free
  <2>4. LengthLegal(len)
    BY <2>1 DEF LengthLegal
  <2>5. CASE CrossesTail(len)
    <3>1. Offset + len > size
      BY <2>5 DEF CrossesTail
    <3>2. Tail < len /\ Offset # 0 /\ Tail >= 2
      BY <2>1, <2>2, <3>1
    <3>3. Free >= Tail + len
      BY <2>1, <2>2, <2>3, <3>2
    <3>4. Required(len) = Tail + len
      BY <2>5 DEF Required
    <3> QED
      BY <2>4, <3>2, <3>3, <3>4 DEF ScheduleFits
  <2>6. CASE ~CrossesTail(len)
    <3>1. Required(len) = len
      BY <2>6 DEF Required
    <3>2. Free >= len
      BY <2>1, <2>3
    <3> QED
      BY <2>4, <2>6, <3>1, <3>2 DEF ScheduleFits
  <2> QED
    BY <2>5, <2>6
<1> QED
  BY <1>1, AlwaysIInv, PTL

\* The space a crossing record was promised is still there once its WRAP is
\* committed, whatever the HPS commits on the same edge.
THEOREM WrapSafe == Spec => WrapKeepsPromise
<1> DEFINE Kept == \A len \in 1 .. size :
                     ScheduleFits(len) /\ CrossesTail(len) /\ W' = W + Tail
                       => (ScheduleFits(len) /\ ~CrossesTail(len))'
<1>1. IInv /\ [Next]_vars => [Kept]_vars
  <2> SUFFICES ASSUME IInv, Next, NEW len \in 1 .. size, ScheduleFits(len),
                      CrossesTail(len), W' = W + Tail
               PROVE  (ScheduleFits(len) /\ ~CrossesTail(len))'
    OBVIOUS
  <2>1. /\ legal /\ epoch /\ PointersValid /\ LengthLegal(len)
        /\ Tail >= 2 /\ Free >= Tail + len
    BY DEF ScheduleFits, CrossesTail, Required, PointersValid
  <2>2. size \in Nat /\ size > 0 /\ W \in Nat /\ Rd \in Nat /\ Guard \in Nat
    BY <2>1, RingConstants DEF IInv, Order, DataOK, LegalSize, Pointers
  <2>3. Tail \in Nat /\ Tail <= size
    BY <2>1, <2>2, DivMod DEF Tail, Offset
  <2>4. W' # 0 /\ W' > W
    BY <2>1, <2>2, <2>3
  <2>5. PICK a \in Advances, p \in Pointers \cup {NoRd},
             s \in BOOLEAN, e \in BOOLEAN : Run(a, p, s, e)
    BY <2>4 DEF Next, SoftReset, ConfigCommit
  <2>6. AdvanceLegal(a) /\ W + Tail = W + a.len /\ a.len \in Nat
    <3>1. W' # W
      BY <2>2, <2>4
    <3> QED
      BY <2>5, <3>1, RunPointers, AcceptedAdvance
  <2>7. (W + Tail) % size = 0
    <3>1. PICK t \in Nat, n \in Nat : t = Tail /\ n = a.len
      BY <2>3, <2>6
    <3>2. n = t
      BY <2>2, <2>6, <3>1
    <3>3. a.len = Tail
      BY <3>1, <3>2
    <3> QED
      BY <2>6, <3>3, AdvanceStaysInLap
  <2>8. size' = size /\ legal' = legal
    BY <2>5, RunPointers
  <2>9. Offset' = 0 /\ LengthLegal(len)'
    BY <2>1, <2>7, <2>8 DEF Offset, LengthLegal
  <2>10. ~CrossesTail(len)'
    <3>1. len <= size
      OBVIOUS
    <3> QED
      BY <2>2, <2>8, <2>9, <3>1 DEF CrossesTail
  <2>11. PointersValid'
    BY <2>1, <2>5, NextIInv, Zenon
         DEF IInv, Order, EpochConsistent, Run
  <2>12. Free' >= len
    <3>1. Free = size - (W - Rd) - Guard /\ size - (W - Rd) - Guard >= Tail + len
      BY <2>1, <2>2, <2>3 DEF Free
    <3>2. PICK rd \in Nat : rd = Rd' /\ rd >= Rd
      <4>1. Rd' = Rd \/ (RdCommitLegal(p) /\ Rd' = p /\ p \in Pointers)
        BY <2>5, RunPointers
      <4>2. RdCommitLegal(p) => p >= Rd
        BY <2>1 DEF RdCommitLegal
      <4> QED
        BY <2>2, <4>1, <4>2, RingConstants DEF Pointers
    <3>3. PICK t \in Nat : t = Tail
      BY <2>3
    <3>4. rd >= Rd /\ size - (W - Rd) - Guard >= t + len /\ len \in Nat
      BY <3>1, <3>2, <3>3
    <3>5. /\ size - ((W + t) - rd) - Guard >= len
          /\ size - ((W + t) - rd) >= Guard
      BY <2>2, <3>4
    <3>6. W' = W + t /\ Rd' = rd /\ size' = size
      BY <2>8, <3>2, <3>3
    <3>7. Free' = size - ((W + t) - rd) - Guard
      BY <2>11, <3>5, <3>6 DEF Free
    <3> QED
      BY <3>5, <3>7
  <2> QED
    BY <2>9, <2>10, <2>11, <2>12 DEF ScheduleFits, Required
<1> QED
  BY <1>1, AlwaysIInv, PTL DEF Spec, WrapKeepsPromise

============================================================================
