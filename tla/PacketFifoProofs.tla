------------------------- MODULE PacketFifoProofs --------------------------
(***************************************************************************)
(* The packet FIFO for every depth, every size of a slot and any records,  *)
(* writers, flushes and resets: no payload is lost or mixed, every record  *)
(* is accounted for, and the writer gets the beats of the head in order.   *)
(***************************************************************************)
EXTENDS PacketFifo, SequenceTheorems, WellFoundedInduction, TLAPS

\* A set of numbers has a least one.
LEMMA LeastNumber ==
    ASSUME NEW S \in SUBSET Nat, S # {}
    PROVE  \E x \in S : \A y \in S : x <= y
<1> DEFINE R == OpToRel(<, Nat)
<1>1. IsWellFoundedOn(R, Nat)
  BY NatLessThanWellFounded, ZenonT(60)
<1>2. \A x, y \in Nat : y < x => <<y, x>> \in R
  BY DEF OpToRel
<1> HIDE DEF R
<1>3. PICK x \in S : \A y \in S : ~(<<y, x>> \in R)
  BY <1>1, WFMin, ZenonT(60)
<1>4. \A y \in S : y \in Nat /\ ~(y < x)
  BY <1>2, <1>3, ZenonT(60)
<1>5. \A y \in S : x <= y
  BY <1>4
<1> QED
  BY <1>5

EntrySet == [id : Nat, prio : 0 .. 3, len : Nat \ {0}, slot : Slots]
WordSet == [id : Nat, beat : Nat]
BeatSet == [valid : BOOLEAN, id : Nat, word : WordSet, last : BOOLEAN]
TmpSet == [id : Nat, prio : 0 .. 3, len : Nat, slot : Slots, bad : BOOLEAN, lie : BOOLEAN]
SrcSet == [id : Nat, prio : 0 .. 3, beats : Nat, fault : {"none", "keep", "meta"}, sent : Nat]
TallySet == [offered : Nat, captured : Nat, delivered : Nat, dropped : Nat,
             flushed : Nat]
Writers == {"idle", "wrap", "wrapped", "inside", "busy"}
States == {"IDLE", "CAPTURE", "ADMIT"}
Cells == 0 .. (Depth + 1) * Words - 1

FifoTypes ==
    /\ state \in States /\ used \subseteq Slots
    /\ q \in Seq(EntrySet) /\ Len(q) <= Depth
    /\ tmp \in TmpSet /\ ram \in [Cells -> WordSet] /\ offset \in Nat
    /\ read \in BeatSet /\ out \in BeatSet /\ src \in SrcSet
    /\ writer \in Writers /\ taken \in Nat /\ idle \in BOOLEAN /\ tally \in TallySet

\* Every record has a slot of its own, which is in use.
SlotsApart ==
    /\ \A i \in 1 .. Len(q) : q[i].slot \in used
    /\ \A i, j \in 1 .. Len(q) : i # j => q[i].slot # q[j].slot
    /\ state # "IDLE" => /\ tmp.slot \in used /\ tmp.len \in Nat \ {0}
                         /\ \A i \in 1 .. Len(q) : q[i].slot # tmp.slot

\* A payload fits its slot and is in the RAM; of the record in capture, what
\* has come of it, unless it is malformed.
PayloadStored ==
    /\ \A i \in 1 .. Len(q) : q[i].len <= Words
    /\ ResidentPayloadKept
    /\ state # "IDLE" /\ ~tmp.bad =>
         /\ tmp.len <= Words
         /\ \A b \in 0 .. tmp.len - 1 :
               ram[Address(tmp.slot, b)] = [id |-> tmp.id, beat |-> b]

\* The record in capture is the one the scheduler is sending.
CapturesSource == state = "CAPTURE" => src # NoSource /\ src.id = tmp.id

\* What is read and what is offered is the next beat of the head.
BeatOfHead(b) ==
    b.valid => /\ q # <<>> /\ b.id = q[1].id
               /\ b.word = [id |-> q[1].id, beat |-> offset]
               /\ b.last <=> offset + 1 = q[1].len

HeadAtOutput ==
    /\ q = <<>> => offset = 0
    /\ q # <<>> => offset < q[1].len
    /\ ~(read.valid /\ out.valid)
    /\ BeatOfHead(read) /\ BeatOfHead(out)

WriterKnown == (idle => WriterIdle) /\ WriterInsideHead

FifoInv ==
    /\ FifoTypes /\ SlotsApart /\ PayloadStored /\ CapturesSource
    /\ HeadAtOutput /\ WriterKnown /\ EveryRecordAccounted

----------------------------------------------------------------------------
(* Operators.                                                              *)

\* Two slots share no word of the RAM.
LEMMA SlotsDisjoint ==
    ASSUME NEW s \in Slots, NEW t \in Slots, s # t,
           NEW b \in 0 .. Words - 1, NEW c \in 0 .. Words - 1
    PROVE  Address(s, b) # Address(t, c)
<1>1. ASSUME NEW x \in Nat, NEW y \in Nat, x < y,
             NEW d \in 0 .. Words - 1, NEW e \in 0 .. Words - 1
      PROVE  x * Words + d # y * Words + e
  <2>1. Words \in Nat /\ y - x - 1 \in Nat
    BY <1>1, FifoConstants
  <2>2. y * Words = x * Words + Words + (y - x - 1) * Words
    BY <1>1, <2>1
  <2>3. (y - x - 1) * Words >= 0 /\ x * Words \in Nat
    BY <2>1
  <2> QED
    BY <2>1, <2>2, <2>3
<1>2. s \in Nat /\ t \in Nat
  BY FifoConstants DEF Slots
<1>3. CASE s < t
  BY <1>1, <1>2, <1>3 DEF Address
<1>4. CASE t < s
  BY <1>1, <1>2, <1>4 DEF Address
<1> QED
  BY <1>2, <1>3, <1>4

\* Different words of a slot are different cells, all of them in the RAM.
LEMMA SlotCells ==
    ASSUME NEW s \in Slots, NEW b \in 0 .. Words - 1
    PROVE  /\ Address(s, b) \in Cells
           /\ \A c \in 0 .. Words - 1 : b # c => Address(s, b) # Address(s, c)
<1>1. Words \in Nat /\ Depth \in Nat /\ s \in Nat /\ Depth - s \in Nat
  BY FifoConstants DEF Slots
<1>2. (Depth + 1) * Words = s * Words + Words + (Depth - s) * Words
  BY <1>1
<1>3. (Depth - s) * Words >= 0 /\ s * Words \in Nat
  BY <1>1
<1>4. (Depth + 1) * Words \in Nat
  BY <1>1
<1> QED
  BY <1>1, <1>2, <1>3, <1>4 DEF Address, Cells

\* The elements of the queue.
LEMMA Entries ==
    ASSUME FifoTypes
    PROVE  /\ Len(q) \in Nat /\ \A i \in 1 .. Len(q) : q[i] \in EntrySet
           /\ q # <<>> <=> Len(q) > 0
           /\ q # <<>> => 1 \in 1 .. Len(q)
<1>1. Len(q) \in Nat /\ q \in Seq(EntrySet)
  BY LenProperties DEF FifoTypes
<1>2. q # <<>> <=> Len(q) > 0
  BY <1>1, EmptySeq
<1>3. \A i \in 1 .. Len(q) : q[i] \in EntrySet
  BY <1>1, ElementOfSeq
<1> QED
  BY <1>1, <1>2, <1>3

\* The place an entry had before the i-th one left.
Before(i, j) == IF j < i THEN j ELSE j + 1

\* Removing an entry keeps the others in their order.
LEMMA WithoutEntry ==
    ASSUME FifoTypes, NEW i \in 1 .. Len(q)
    PROVE  /\ Without(i) \in Seq(EntrySet) /\ Len(Without(i)) = Len(q) - 1
           /\ \A j \in 1 .. Len(q) - 1 : /\ Without(i)[j] = q[Before(i, j)]
                                         /\ Before(i, j) \in 1 .. Len(q) /\ Before(i, j) # i
           /\ \A j, k \in 1 .. Len(q) - 1 : j # k => Before(i, j) # Before(i, k)
           /\ \A k \in 1 .. Len(q) : k # i => \E j \in 1 .. Len(q) - 1 : Before(i, j) = k
<1>1. Len(q) \in Nat /\ \A k \in 1 .. Len(q) : q[k] \in EntrySet
  BY Entries
<1>2. \A j \in 1 .. Len(q) - 1 : Before(i, j) \in 1 .. Len(q) /\ Before(i, j) # i
  BY <1>1 DEF Before
<1>3. Without(i) = [j \in 1 .. Len(q) - 1 |-> q[Before(i, j)]]
  BY DEF Without, Before
<1>4. Len(q) - 1 \in Nat
  BY <1>1
<1>5. Without(i) \in [1 .. Len(q) - 1 -> EntrySet]
  BY <1>1, <1>2, <1>3
<1>6. Without(i) \in Seq(EntrySet) /\ Len(Without(i)) = Len(q) - 1
  <2>1. Without(i) \in Seq(EntrySet)
    BY <1>4, <1>5, SeqDef
  <2>2. DOMAIN Without(i) = 1 .. Len(q) - 1
    BY <1>5
  <2> QED
    BY <1>4, <2>1, <2>2, LenProperties
<1>7. \A j, k \in 1 .. Len(q) - 1 : j # k => Before(i, j) # Before(i, k)
  BY <1>1 DEF Before
<1>8. ASSUME NEW k \in 1 .. Len(q), k # i PROVE \E j \in 1 .. Len(q) - 1 : Before(i, j) = k
  <2>1. CASE k < i
    <3>1. k \in 1 .. Len(q) - 1 /\ Before(i, k) = k
      BY <1>1, <2>1 DEF Before
    <3> QED
      BY <3>1
  <2>2. CASE k > i
    <3>1. k - 1 \in 1 .. Len(q) - 1 /\ Before(i, k - 1) = k
      BY <1>1, <2>2 DEF Before
    <3> QED
      BY <3>1
  <2> QED
    BY <1>1, <1>8, <2>1, <2>2
<1> QED
  BY <1>2, <1>3, <1>6, <1>7, <1>8

\* The record evicted is less important than the one captured, and it is not
\* the one at the output.
LEMMA VictimChosen ==
    ASSUME FifoTypes, Victims # {}
    PROVE  Victim \in 1 .. Len(q) /\ Victim # 1 /\ q[Victim].prio < tmp.prio
<1>1. \A i \in Victims : i \in Nat /\ q[i].prio \in Nat
  BY Entries DEF Victims, EntrySet
<1>2. PICK p \in {q[i].prio : i \in Victims} : \A r \in {q[i].prio : i \in Victims} : p <= r
  BY <1>1, LeastNumber, ZenonT(60)
<1>3. PICK v \in {i \in Victims : q[i].prio = p} : \A w \in {i \in Victims : q[i].prio = p} : v <= w
  BY <1>1, <1>2, LeastNumber, ZenonT(60)
<1>4. \A j \in Victims : q[v].prio < q[j].prio \/ (q[v].prio = q[j].prio /\ v <= j)
  BY <1>1, <1>2, <1>3
<1>5. Victim \in Victims
  BY <1>3, <1>4 DEF Victim
<1> QED
  BY <1>5 DEF Victims, Evictable

----------------------------------------------------------------------------
(* One clock edge.                                                         *)

\* What the inputs of an edge can be.
LEMMA InputKinds ==
    ASSUME FifoTypes, NEW in \in Inputs
    PROVE  /\ in.valid \in BOOLEAN /\ in.ready \in BOOLEAN /\ in.writer \in Writers
           /\ in.ready => Offered /\ in.writer \in AfterBeat
           /\ ~in.ready => in.writer \in WriterTurns
           /\ in.shape \in Shapes \cup {NoShape}
<1>1. PICK ready \in (IF Offered THEN BOOLEAN ELSE {FALSE}) :
         in \in [valid  : IF src = NoSource THEN {FALSE} ELSE BOOLEAN,
                 ready  : {ready},
                 writer : IF ready THEN AfterBeat ELSE WriterTurns,
                 shape  : IF src = NoSource /\ tally.offered < MaxRecords
                            THEN Shapes \cup {NoShape} ELSE {NoShape}]
  BY ZenonT(60) DEF Inputs
<1>2. AfterBeat \subseteq Writers
  BY DEF AfterBeat, Writers
<1>3. WriterTurns \subseteq Writers
  BY DEF WriterTurns, Writers, FifoTypes
<1>4. in.ready = ready /\ in.writer \in (IF ready THEN AfterBeat ELSE WriterTurns)
  BY <1>1
<1>5. in.valid \in BOOLEAN /\ in.shape \in Shapes \cup {NoShape}
  BY <1>1, ZenonT(60)
<1>6. ready \in BOOLEAN /\ (ready => Offered)
  BY <1>1, ZenonT(60)
<1> QED
  BY <1>2, <1>3, <1>4, <1>5, <1>6

\* A slot is free while a record may begin.
LEMMA FreeSlotFree ==
    ASSUME FifoTypes, FreeSlots # {}
    PROVE  FreeSlot \in Slots /\ FreeSlot \notin used
<1>1. FreeSlots \subseteq Nat
  BY FifoConstants DEF FreeSlots, Slots
<1>2. \E s \in FreeSlots : \A t \in FreeSlots : s <= t
  BY <1>1, LeastNumber
<1>3. FreeSlot \in FreeSlots
  BY <1>2 DEF FreeSlot
<1> QED
  BY <1>3 DEF FreeSlots

\* The four things that can become of the queue.
Popped(in) == LastAccept(in) /\ q # <<>> /\ q' = Without(1)
Admitted(in) ==
    /\ ~LastAccept(in) /\ state = "ADMIT" /\ ~Malformed
    /\ Len(q) < Depth /\ q' = Append(q, Entry)
Replaced(in) ==
    /\ ~LastAccept(in) /\ state = "ADMIT" /\ ~Malformed
    /\ Len(q) = Depth /\ Victims # {} /\ q' = Append(Without(Victim), Entry)
Kept(in) == ~LastAccept(in) /\ q' = q

LEMMA QueueCases ==
    ASSUME FifoInv, NEW in \in Inputs, Clock(in)
    PROVE  \/ Popped(in)
           \/ Admitted(in) /\ AdmitNow(in) /\ Decision = "admit"
           \/ Replaced(in) /\ AdmitNow(in) /\ Decision = "evict"
           \/ Kept(in) /\ (AdmitNow(in) => Decision = "drop")
<1>1. q' = QueueNext(in)
  BY DEF Clock
<1>2. CASE LastAccept(in)
  <2>1. q # <<>>
    BY <1>2 DEF LastAccept, OutputAccept, FifoInv, HeadAtOutput, BeatOfHead
  <2>2. q' = Without(1)
    BY <1>1, <1>2 DEF QueueNext
  <2> QED
    BY <1>2, <2>1, <2>2 DEF Popped
<1>3. CASE ~LastAccept(in) /\ AdmitNow(in)
  <2>1. Decision \in {"admit", "evict", "drop"}
    BY DEF Decision
  <2>2. Decision = "admit" => ~Malformed /\ Len(q) < Depth
    BY DEF Decision
  <2>3. Decision = "evict" => ~Malformed /\ Len(q) = Depth /\ Victims # {}
    BY DEF Decision
  <2>4. Decision = "admit" => q' = Append(q, Entry)
    BY <1>1, <1>3 DEF QueueNext
  <2>5. Decision = "evict" => q' = Append(Without(Victim), Entry)
    BY <1>1, <1>3 DEF QueueNext
  <2>6. Decision = "drop" => q' = q
    BY <1>1, <1>3 DEF QueueNext
  <2> QED
    BY <1>3, <2>1, <2>2, <2>3, <2>4, <2>5, <2>6 DEF Admitted, Replaced, Kept, AdmitNow
<1>4. CASE ~LastAccept(in) /\ ~AdmitNow(in)
  BY <1>1, <1>4 DEF QueueNext, Kept
<1> QED
  BY <1>2, <1>3, <1>4

\* The entry made of the record in capture.
LEMMA EntryMade ==
    ASSUME FifoInv, state = "ADMIT"
    PROVE  /\ Entry \in EntrySet /\ Entry.slot = tmp.slot /\ Entry.len = tmp.len
           /\ Entry.id = tmp.id /\ Entry.prio = tmp.prio
  BY DEF FifoInv, FifoTypes, SlotsApart, Entry, EntrySet, TmpSet

\* The queue after an edge: every entry is one from before, each of those
\* once, or the new one at the end.
LEMMA QueueAfter ==
    ASSUME FifoInv, NEW in \in Inputs, Clock(in)
    PROVE  /\ q' \in Seq(EntrySet) /\ Len(q') \in Nat /\ Len(q') <= Depth
           /\ Popped(in) => /\ Len(q') = Len(q) - 1
                            /\ \A j \in 1 .. Len(q') : q'[j] = q[j + 1]
           /\ Admitted(in) => /\ Len(q') = Len(q) + 1 /\ q'[Len(q')] = Entry
                              /\ \A j \in 1 .. Len(q) : q'[j] = q[j]
           /\ Replaced(in) => /\ Len(q') = Len(q) /\ q'[Len(q')] = Entry
                              /\ Victim \in 1 .. Len(q) /\ Victim # 1
                              /\ \A j \in 1 .. Len(q) - 1 : q'[j] = q[Before(Victim, j)]
<1>0. FifoTypes /\ Len(q) \in Nat /\ q \in Seq(EntrySet) /\ Len(q) <= Depth /\ Depth \in Nat
  BY Entries, FifoConstants DEF FifoInv, FifoTypes
<1>a. ASSUME q' \in Seq(EntrySet), Len(q') <= Depth
      PROVE  q' \in Seq(EntrySet) /\ Len(q') \in Nat /\ Len(q') <= Depth
  BY <1>a, LenProperties
<1>1. ASSUME Popped(in)
      PROVE  /\ q' \in Seq(EntrySet) /\ Len(q') = Len(q) - 1
             /\ \A j \in 1 .. Len(q') : q'[j] = q[j + 1]
  <2>1. 1 \in 1 .. Len(q)
    BY <1>0, <1>1, Entries DEF Popped
  <2>2. \A j \in 1 .. Len(q) - 1 : Before(1, j) = j + 1
    BY <1>0 DEF Before
  <2>3. /\ Without(1) \in Seq(EntrySet) /\ Len(Without(1)) = Len(q) - 1
        /\ \A j \in 1 .. Len(q) - 1 : Without(1)[j] = q[Before(1, j)]
    BY <1>0, <2>1, WithoutEntry
  <2>4. q' = Without(1)
    BY <1>1 DEF Popped
  <2> QED
    BY <2>2, <2>3, <2>4
<1>2. ASSUME Admitted(in)
      PROVE  /\ q' \in Seq(EntrySet) /\ Len(q') = Len(q) + 1 /\ q'[Len(q')] = Entry
             /\ \A j \in 1 .. Len(q) : q'[j] = q[j]
  <2>1. Entry \in EntrySet
    BY <1>2, EntryMade DEF Admitted
  <2>2. q' = Append(q, Entry)
    BY <1>2 DEF Admitted
  <2> QED
    BY <1>0, <2>1, <2>2, AppendProperties
<1>3. ASSUME Replaced(in)
      PROVE  /\ q' \in Seq(EntrySet) /\ Len(q') = Len(q) /\ q'[Len(q')] = Entry
             /\ Victim \in 1 .. Len(q) /\ Victim # 1
             /\ \A j \in 1 .. Len(q) - 1 : q'[j] = q[Before(Victim, j)]
  <2>1. Entry \in EntrySet /\ Victim \in 1 .. Len(q) /\ Victim # 1
    BY <1>0, <1>3, EntryMade, VictimChosen DEF Replaced
  <2>2. q' = Append(Without(Victim), Entry)
    BY <1>3 DEF Replaced
  <2>3. /\ Without(Victim) \in Seq(EntrySet) /\ Len(Without(Victim)) = Len(q) - 1
        /\ \A j \in 1 .. Len(q) - 1 : Without(Victim)[j] = q[Before(Victim, j)]
    BY <1>0, <2>1, WithoutEntry, ZenonT(60)
  <2>4. q' \in Seq(EntrySet) /\ Len(q') = Len(q) /\ q'[Len(q')] = Entry
        /\ \A j \in 1 .. Len(q) - 1 : q'[j] = q[Before(Victim, j)]
    BY <1>0, <2>1, <2>2, <2>3, AppendProperties
  <2> QED
    BY <2>1, <2>4
<1>4. q' \in Seq(EntrySet) /\ Len(q') <= Depth
  <2>1. CASE Popped(in)
    BY <1>0, <1>1, <2>1
  <2>2. CASE Admitted(in)
    BY <1>0, <1>2, <2>2 DEF Admitted
  <2>3. CASE Replaced(in)
    BY <1>0, <1>3, <2>3
  <2>4. CASE Kept(in)
    BY <1>0, <2>4 DEF Kept
  <2> QED
    BY <2>1, <2>2, <2>3, <2>4, QueueCases
<1> QED
  BY <1>a, <1>1, <1>2, <1>3, <1>4

\* A read in flight is for the next beat of the head.
LEMMA ReadBeat ==
    ASSUME FifoInv, NEW in \in Inputs, Clock(in), ReadRequest(in)
    PROVE  /\ q # <<>> /\ ~LastAccept(in) /\ ~out'.valid
           /\ offset' \in Nat /\ offset' < q[1].len
           /\ read' = [valid |-> TRUE, id |-> q[1].id,
                       word |-> [id |-> q[1].id, beat |-> offset'],
                       last |-> offset' + 1 = q[1].len]
<1>0. FifoTypes /\ out \in BeatSet /\ read \in BeatSet /\ offset \in Nat
  BY DEF FifoInv, FifoTypes
<1>1. q # <<>> /\ ~read.valid /\ (~out.valid \/ (OutputAccept(in) /\ ~out.last))
  BY DEF ReadRequest
<1>2. 1 \in 1 .. Len(q) /\ q[1] \in EntrySet
  BY <1>0, <1>1, Entries
<1>3. q[1].len \in Nat \ {0} /\ q[1].slot \in Slots /\ q[1].len <= Words
  BY <1>2 DEF EntrySet, FifoInv, PayloadStored
<1>4. ~LastAccept(in)
  BY <1>1 DEF LastAccept, OutputAccept
<1>5. offset' = ReadOffset
  BY <1>1, <1>4 DEF Clock, ReadOffset, OutputAccept
<1>6. ReadOffset \in Nat /\ ReadOffset < q[1].len
  BY <1>0, <1>1, <1>3 DEF ReadOffset, FifoInv, HeadAtOutput, BeatOfHead
<1>7. ram[Address(q[1].slot, ReadOffset)] = [id |-> q[1].id, beat |-> ReadOffset]
  <2>1. ReadOffset \in 0 .. q[1].len - 1
    BY <1>3, <1>6
  <2> QED
    BY <1>2, <2>1 DEF FifoInv, PayloadStored, ResidentPayloadKept
<1>8. (ReadOffset + 1 >= q[1].len) = (ReadOffset + 1 = q[1].len)
  BY <1>3, <1>6
<1>9. read' = [valid |-> TRUE, id |-> q[1].id, word |-> ram[Address(q[1].slot, ReadOffset)],
               last |-> ReadOffset + 1 >= q[1].len]
  BY DEF Clock, ReadNext
<1>10. ~out'.valid
  <2>1. out' = OutNext(in)
    BY DEF Clock
  <2>2. CASE OutputAccept(in)
    BY <1>0, <1>1, <2>1, <2>2 DEF OutNext, BeatSet
  <2>3. CASE ~OutputAccept(in)
    BY <1>0, <1>1, <2>1, <2>3 DEF OutNext
  <2> QED
    BY <2>2, <2>3
<1> QED
  BY <1>1, <1>4, <1>5, <1>6, <1>7, <1>8, <1>9, <1>10, ZenonT(60)

\* The record in capture after an edge.
LEMMA CaptureAfter ==
    ASSUME FifoInv, NEW in \in Inputs, Clock(in)
    PROVE  /\ ~InputAccept(in) \/ ~AdmitNow(in)
           /\ InputAccept(in) => src # NoSource /\ state \in {"IDLE", "CAPTURE"}
           /\ InputAccept(in) => state' = (IF LastBeat THEN "ADMIT" ELSE "CAPTURE")
           /\ AdmitNow(in) => state' = "IDLE"
           /\ ~InputAccept(in) /\ ~AdmitNow(in) => state' = state /\ tmp' = tmp
           /\ InputAccept(in) /\ state = "IDLE" =>
                /\ FreeSlot \in Slots /\ FreeSlot \notin used
                /\ tmp' = [id |-> src.id, prio |-> src.prio, len |-> 1, slot |-> FreeSlot,
                           bad |-> ~KeepLegal \/ 1 > Words, lie |-> src.fault = "meta"]
           /\ InputAccept(in) /\ state = "CAPTURE" =>
                tmp' = [tmp EXCEPT !.len = tmp.len + 1,
                                   !.bad = tmp.bad \/ ~KeepLegal \/ tmp.len + 1 > Words]
           /\ tmp' \in TmpSet /\ state' \in States
<1>0. FifoTypes /\ state \in States /\ tmp \in TmpSet /\ src \in SrcSet
  BY DEF FifoInv, FifoTypes
<1>1. InputAccept(in) => src # NoSource /\ state \in {"IDLE", "CAPTURE"}
  BY DEF InputAccept, InReady
<1>2. ~InputAccept(in) \/ ~AdmitNow(in)
  BY <1>1 DEF AdmitNow
<1>3. InputAccept(in) => state' = (IF LastBeat THEN "ADMIT" ELSE "CAPTURE")
  BY <1>2 DEF Clock, StateNext
<1>4. AdmitNow(in) => state' = "IDLE"
  BY <1>2 DEF Clock, StateNext
<1>5. ~InputAccept(in) /\ ~AdmitNow(in) => state' = state /\ tmp' = tmp
  BY DEF Clock, StateNext, TmpNext
<1>6. ASSUME InputAccept(in), state = "IDLE"
      PROVE  /\ FreeSlot \in Slots /\ FreeSlot \notin used
             /\ tmp' = [id |-> src.id, prio |-> src.prio, len |-> 1, slot |-> FreeSlot,
                        bad |-> ~KeepLegal \/ 1 > Words, lie |-> src.fault = "meta"]
             /\ tmp' \in TmpSet
  <2>1. FreeSlot \in Slots /\ FreeSlot \notin used
    BY <1>0, <1>6, FreeSlotFree DEF InputAccept, InReady
  <2>2. tmp' = TmpNext(in)
    BY DEF Clock
  <2>3. CaptureOffset = 0
    BY <1>6 DEF CaptureOffset
  <2>4. tmp' = [id |-> src.id, prio |-> src.prio, len |-> 1, slot |-> FreeSlot,
                bad |-> ~KeepLegal \/ 0 + 1 > Words, lie |-> src.fault = "meta"]
    BY <1>2, <1>6, <2>2, <2>3 DEF TmpNext
  <2>5. (~KeepLegal \/ 0 + 1 > Words) = (~KeepLegal \/ 1 > Words)
    OBVIOUS
  <2>6. tmp' \in TmpSet
    BY <1>0, <2>1, <2>4 DEF TmpSet, SrcSet
  <2> QED
    BY <2>1, <2>4, <2>5, <2>6
<1>7. ASSUME InputAccept(in), state = "CAPTURE"
      PROVE  /\ tmp' = [tmp EXCEPT !.len = tmp.len + 1,
                                   !.bad = tmp.bad \/ ~KeepLegal \/ tmp.len + 1 > Words]
             /\ tmp' \in TmpSet
  <2>1. tmp' = TmpNext(in)
    BY DEF Clock
  <2>2. CaptureOffset = tmp.len
    BY <1>7 DEF CaptureOffset
  <2>3. tmp' = [tmp EXCEPT !.len = @ + 1, !.bad = @ \/ (~KeepLegal \/ tmp.len + 1 > Words)]
    BY <1>2, <1>7, <2>1, <2>2 DEF TmpNext
  <2>4. tmp' = [tmp EXCEPT !.len = tmp.len + 1,
                           !.bad = tmp.bad \/ ~KeepLegal \/ tmp.len + 1 > Words]
    BY <2>3
  <2>5. (tmp.bad \/ ~KeepLegal \/ tmp.len + 1 > Words) \in BOOLEAN /\ tmp.len + 1 \in Nat
    BY <1>0 DEF TmpSet
  <2> QED
    BY <1>0, <2>4, <2>5, ZenonT(60) DEF TmpSet
<1>8. AdmitNow(in) => tmp' \in TmpSet
  <2> SUFFICES ASSUME AdmitNow(in) PROVE tmp' \in TmpSet
    OBVIOUS
  <2>1. tmp' = [NoTmp EXCEPT !.slot = tmp.slot]
    BY <1>2 DEF Clock, TmpNext, AdmitNow
  <2>2. tmp' = [id |-> 0, prio |-> 0, len |-> 0, slot |-> tmp.slot, bad |-> FALSE, lie |-> FALSE]
    BY <2>1, ZenonT(60) DEF NoTmp
  <2> QED
    BY <1>0, <2>2 DEF TmpSet
<1>9. tmp' \in TmpSet
  BY <1>0, <1>1, <1>5, <1>6, <1>7, <1>8
<1>10. state' \in States
  BY <1>0, <1>3, <1>4, <1>5 DEF States
<1> QED
  BY <1>1, <1>2, <1>3, <1>4, <1>5, <1>6, <1>7, <1>9, <1>10

\* The record the scheduler sends, after an edge.
LEMMA SourceAfter ==
    ASSUME FifoInv, NEW in \in Inputs, Clock(in)
    PROVE  /\ src' \in SrcSet
           /\ InputAccept(in) /\ ~LastBeat => src' # NoSource /\ src'.id = src.id
           /\ ~InputAccept(in) /\ src # NoSource => src' = src
<1>0. src \in SrcSet /\ tally \in TallySet /\ src' = SourceNext(in)
  BY DEF FifoInv, FifoTypes, Clock
<1>1. CASE src = NoSource /\ in.shape \in Shapes
  <2>1. in.shape \in [prio : 0 .. 3, beats : Nat \ {0}, fault : {"none", "keep", "meta"}]
    BY <1>1, FifoConstants
  <2>2. src' = [id |-> tally.offered + 1, prio |-> in.shape.prio, sent |-> 0,
                beats |-> in.shape.beats, fault |-> in.shape.fault]
    BY <1>0, <1>1 DEF SourceNext
  <2>3. src' \in SrcSet
    BY <1>0, <2>1, <2>2 DEF SrcSet, TallySet
  <2> QED
    BY <1>1, <2>3 DEF InputAccept
<1>2. CASE src # NoSource /\ InputAccept(in)
  <2>1. CASE LastBeat
    BY <1>0, <1>2, <2>1 DEF SourceNext, NoSource, SrcSet
  <2>2. CASE ~LastBeat
    <3>1. src' = [src EXCEPT !.sent = src.sent + 1]
      BY <1>0, <1>2, <2>2 DEF SourceNext
    <3>2. src' \in SrcSet /\ src'.id = src.id /\ src'.sent # 0
      BY <1>0, <3>1 DEF SrcSet
    <3> QED
      BY <1>2, <2>2, <3>2 DEF NoSource
  <2> QED
    BY <2>1, <2>2
<1>3. CASE ~(src = NoSource /\ in.shape \in Shapes) /\ ~(src # NoSource /\ InputAccept(in))
  <2>1. src' = src
    BY <1>0, <1>3 DEF SourceNext
  <2> QED
    BY <1>0, <1>3, <2>1 DEF InputAccept
<1> QED
  BY <1>1, <1>2, <1>3

\* The RAM after an edge: at most the next word of the record in capture.
LEMMA RamAfter ==
    ASSUME FifoInv, NEW in \in Inputs, Clock(in)
    PROVE  /\ ram' \in [Cells -> WordSet]
           /\ StoreEnable(in) =>
                /\ CaptureOffset \in 0 .. Words - 1 /\ CaptureSlot \in Slots
                /\ ram' = [ram EXCEPT ![Address(CaptureSlot, CaptureOffset)] =
                                         [id |-> src.id, beat |-> CaptureOffset]]
           /\ ~StoreEnable(in) => ram' = ram
<1>0. FifoTypes /\ ram \in [Cells -> WordSet] /\ src \in SrcSet /\ tmp \in TmpSet
  BY DEF FifoInv, FifoTypes
<1>1. ASSUME StoreEnable(in) PROVE CaptureOffset \in 0 .. Words - 1 /\ CaptureSlot \in Slots
  <2>1. CaptureOffset \in Nat /\ CaptureOffset + 1 <= Words /\ Words \in Nat
    BY <1>0, <1>1, FifoConstants DEF StoreEnable, CaptureOffset, TmpSet
  <2>2. CaptureSlot \in Slots
    BY <1>0, <1>1, CaptureAfter DEF StoreEnable, CaptureSlot, TmpSet
  <2> QED
    BY <2>1, <2>2
<1>2. StoreEnable(in) => ram' = [ram EXCEPT ![Address(CaptureSlot, CaptureOffset)] =
                                         [id |-> src.id, beat |-> CaptureOffset]]
  BY DEF Clock
<1>3. ~StoreEnable(in) => ram' = ram
  BY DEF Clock
<1>4. StoreEnable(in) => [id |-> src.id, beat |-> CaptureOffset] \in WordSet
  BY <1>0, <1>1 DEF WordSet, SrcSet
<1> QED
  BY <1>0, <1>1, <1>2, <1>3, <1>4

\* The output after an edge.
LEMMA OutputAfter ==
    ASSUME FifoInv, NEW in \in Inputs, Clock(in)
    PROVE  /\ read.valid => out' = read
           /\ ~read.valid /\ OutputAccept(in) => ~out'.valid
           /\ ~read.valid /\ ~OutputAccept(in) => out' = out
           /\ ~ReadRequest(in) => ~read'.valid
           /\ LastAccept(in) => offset' = 0 /\ ~read.valid /\ ~ReadRequest(in)
           /\ OutputAccept(in) /\ ~out.last => offset' = offset + 1 /\ ~read.valid
           /\ ~OutputAccept(in) => offset' = offset
           /\ out' \in BeatSet /\ read' \in BeatSet /\ offset' \in Nat
<1>0. FifoTypes /\ out \in BeatSet /\ read \in BeatSet /\ offset \in Nat /\ ~(read.valid /\ out.valid)
  BY DEF FifoInv, FifoTypes, HeadAtOutput
<1>1. out' = OutNext(in) /\ read' = ReadNext(in)
  BY DEF Clock
<1>2. read.valid => out' = read
  BY <1>1 DEF OutNext
<1>3. ~read.valid /\ OutputAccept(in) => out' = [out EXCEPT !.valid = FALSE]
  BY <1>1 DEF OutNext
<1>4. ~read.valid /\ ~OutputAccept(in) => out' = out
  BY <1>1 DEF OutNext
<1>5. [out EXCEPT !.valid = FALSE] \in BeatSet /\ ~[out EXCEPT !.valid = FALSE].valid
  BY <1>0, ZenonT(60) DEF BeatSet
<1>6. [read EXCEPT !.valid = FALSE] \in BeatSet /\ ~[read EXCEPT !.valid = FALSE].valid
  BY <1>0, ZenonT(60) DEF BeatSet
<1>7. ~ReadRequest(in) => read' = [read EXCEPT !.valid = FALSE]
  BY <1>1 DEF ReadNext
<1>8. ReadRequest(in) => read' \in BeatSet
  <2> SUFFICES ASSUME ReadRequest(in) PROVE read' \in BeatSet
    OBVIOUS
  <2>1. q # <<>> /\ offset' \in Nat
        /\ read' = [valid |-> TRUE, id |-> q[1].id,
                       word |-> [id |-> q[1].id, beat |-> offset'],
                       last |-> offset' + 1 = q[1].len]
    BY ReadBeat
  <2>2. q[1].id \in Nat
    BY <1>0, <2>1, Entries DEF EntrySet
  <2> QED
    BY <2>1, <2>2 DEF BeatSet, WordSet
<1>9. LastAccept(in) => offset' = 0 /\ ~read.valid /\ ~ReadRequest(in)
  BY <1>0 DEF Clock, LastAccept, OutputAccept, ReadRequest
<1>10. OutputAccept(in) /\ ~out.last => offset' = offset + 1 /\ ~read.valid
  BY <1>0 DEF Clock, LastAccept, OutputAccept
<1>11. ~OutputAccept(in) => offset' = offset
  BY DEF Clock, LastAccept
<1>12. offset' \in Nat
  BY <1>0, <1>9, <1>10, <1>11 DEF LastAccept
<1> QED
  BY <1>0, <1>2, <1>3, <1>4, <1>5, <1>6, <1>7, <1>8, <1>9, <1>10, <1>11, <1>12, ZenonT(60)

\* Types.
LEMMA ClockTypes ==
    ASSUME FifoInv, NEW in \in Inputs, Clock(in)
    PROVE  FifoTypes'
<1>0. FifoTypes
  BY DEF FifoInv
<1>1. used' \subseteq Slots
  <2>1. Claimed(in) \subseteq Slots
    BY CaptureAfter DEF Claimed
  <2> QED
    BY <1>0, <2>1 DEF Clock, FifoTypes
<1>2. writer' \in Writers
  BY <1>0, InputKinds DEF Clock
<1>3. taken' \in Nat
  <2>1. out.id \in Nat /\ taken \in Nat
    BY <1>0 DEF FifoTypes, BeatSet
  <2>2. taken' \in {0, out.id, taken}
    BY DEF Clock
  <2> QED
    BY <2>1, <2>2
<1>4. idle' \in BOOLEAN
  BY DEF Clock, EpochIdle
<1>5. tally' \in TallySet
  <2>1. tally \in TallySet
    BY <1>0 DEF FifoTypes
  <2> QED
    BY <2>1 DEF Clock, TallyNext, TallySet
<1> QED
  BY <1>1, <1>2, <1>3, <1>4, <1>5, QueueAfter, CaptureAfter, SourceAfter, RamAfter,
     OutputAfter DEF FifoTypes

\* The slots given back on an edge.
LEMMA FreedSlots ==
    ASSUME FifoInv, NEW in \in Inputs, Clock(in)
    PROVE  /\ LastAccept(in) => Freed(in) = {q[1].slot}
           /\ AdmitNow(in) /\ Decision = "admit" => Freed(in) = {}
           /\ AdmitNow(in) /\ Decision = "evict" => Freed(in) = {q[Victim].slot}
           /\ AdmitNow(in) /\ Decision = "drop" => Freed(in) = {tmp.slot}
           /\ ~LastAccept(in) /\ ~AdmitNow(in) => Freed(in) = {}
           /\ LastAccept(in) => ~AdmitNow(in)
<1>1. LastAccept(in) => ~AdmitNow(in)
  BY DEF AdmitNow
<1> QED
  BY <1>1 DEF Freed

\* The entries after an edge: old ones, none of whose slots is given back, and
\* the new one.
LEMMA QueueSlots ==
    ASSUME FifoInv, NEW in \in Inputs, Clock(in)
    PROVE  /\ \A j \in 1 .. Len(q') :
                 \/ \E k \in 1 .. Len(q) : q'[j] = q[k] /\ q[k].slot \notin Freed(in)
                 \/ /\ q'[j] = Entry /\ AdmitNow(in) /\ ~Malformed
                    /\ tmp.slot \notin Freed(in)
           /\ \A i, j \in 1 .. Len(q') : i # j => q'[i].slot # q'[j].slot
<1>0. FifoTypes /\ Len(q) \in Nat
  BY Entries DEF FifoInv
<1>1. /\ \A i, j \in 1 .. Len(q) : i # j => q[i].slot # q[j].slot
      /\ state # "IDLE" => \A i \in 1 .. Len(q) : q[i].slot # tmp.slot
  BY DEF FifoInv, SlotsApart
<1>2. CASE Popped(in)
  <2>1. Freed(in) = {q[1].slot}
    BY <1>2, FreedSlots DEF Popped
  <2>2. Len(q') = Len(q) - 1 /\ \A j \in 1 .. Len(q') : q'[j] = q[j + 1]
    BY <1>2, QueueAfter
  <2>3. \A j \in 1 .. Len(q') : j + 1 \in 1 .. Len(q) /\ j + 1 # 1
    BY <1>0, <2>2
  <2>4. \A i, j \in 1 .. Len(q') : i # j => i + 1 # j + 1
    BY <1>0, <2>2
  <2>5. 1 \in 1 .. Len(q)
    BY <1>0, <1>2, Entries DEF Popped
  <2>6. \A j \in 1 .. Len(q') : q[j + 1].slot \notin Freed(in)
    BY <1>1, <2>1, <2>3, <2>5
  <2>7. \A i, j \in 1 .. Len(q') : i # j => q'[i].slot # q'[j].slot
    BY <1>1, <2>2, <2>3, <2>4
  <2> QED
    BY <2>2, <2>3, <2>6, <2>7
<1>3. CASE Admitted(in) /\ AdmitNow(in) /\ Decision = "admit"
  <2>1. Freed(in) = {} /\ state # "IDLE" /\ ~Malformed
    BY <1>3, FreedSlots DEF Admitted
  <2>2. /\ Len(q') = Len(q) + 1 /\ q'[Len(q')] = Entry
        /\ \A j \in 1 .. Len(q) : q'[j] = q[j]
    BY <1>3, QueueAfter
  <2>3. Entry.slot = tmp.slot
    BY <1>3, EntryMade DEF Admitted
  <2>4. \A j \in 1 .. Len(q') : j \in 1 .. Len(q) \/ j = Len(q')
    BY <1>0, <2>2
  <2>5. \A i, j \in 1 .. Len(q') : i # j => q'[i].slot # q'[j].slot
    BY <1>1, <2>1, <2>2, <2>3, <2>4
  <2> QED
    BY <1>3, <2>1, <2>2, <2>4, <2>5
<1>4. CASE Replaced(in) /\ AdmitNow(in) /\ Decision = "evict"
  <2>1. Freed(in) = {q[Victim].slot} /\ state # "IDLE" /\ ~Malformed
    BY <1>4, FreedSlots DEF Replaced
  <2>2. /\ Len(q') = Len(q) /\ q'[Len(q')] = Entry
        /\ Victim \in 1 .. Len(q) /\ Victim # 1
        /\ \A j \in 1 .. Len(q) - 1 : q'[j] = q[Before(Victim, j)]
    BY <1>4, QueueAfter
  <2>3. Entry.slot = tmp.slot
    BY <1>4, EntryMade DEF Replaced
  <2>4. \A j \in 1 .. Len(q') : j \in 1 .. Len(q) - 1 \/ j = Len(q')
    BY <1>0, <2>2
  <2>5. /\ \A j \in 1 .. Len(q) - 1 : Before(Victim, j) \in 1 .. Len(q) /\ Before(Victim, j) # Victim
        /\ \A j, k \in 1 .. Len(q) - 1 : j # k => Before(Victim, j) # Before(Victim, k)
    BY <1>0, <2>2, WithoutEntry
  <2>6. \A j \in 1 .. Len(q) - 1 : q[Before(Victim, j)].slot \notin Freed(in)
    BY <1>1, <2>1, <2>2, <2>5, SMTT(30)
  <2>7. tmp.slot \notin Freed(in)
    BY <1>1, <2>1, <2>2
  <2>8. \A i, j \in 1 .. Len(q') : i # j => q'[i].slot # q'[j].slot
    BY <1>1, <2>1, <2>2, <2>3, <2>4, <2>5, SMTT(30)
  <2>9. \A j \in 1 .. Len(q) - 1 :
           \E k \in 1 .. Len(q) : q'[j] = q[k] /\ q[k].slot \notin Freed(in)
    BY <2>2, <2>5, <2>6
  <2> QED
    BY <1>4, <2>1, <2>2, <2>4, <2>7, <2>8, <2>9, SMTT(30)
<1>5. CASE Kept(in) /\ (AdmitNow(in) => Decision = "drop")
  <2>1. Freed(in) = {} \/ (Freed(in) = {tmp.slot} /\ state # "IDLE")
    BY <1>5, FreedSlots DEF Kept, AdmitNow
  <2> QED
    BY <1>1, <1>5, <2>1 DEF Kept
<1> QED
  BY <1>2, <1>3, <1>4, <1>5, QueueCases

\* Every record keeps a slot of its own.
LEMMA ClockSlots ==
    ASSUME FifoInv, NEW in \in Inputs, Clock(in)
    PROVE  SlotsApart'
<1>0. /\ used' = (used \ Freed(in)) \cup Claimed(in)
      /\ \A i \in 1 .. Len(q) : q[i].slot \in used
      /\ state # "IDLE" => /\ tmp.slot \in used /\ tmp.len \in Nat \ {0}
                           /\ \A i \in 1 .. Len(q) : q[i].slot # tmp.slot
      /\ tmp \in TmpSet /\ state \in States
  BY DEF Clock, FifoInv, SlotsApart, FifoTypes
<1>1. \A j \in 1 .. Len(q') : q'[j].slot \in used'
  <2> SUFFICES ASSUME NEW j \in 1 .. Len(q') PROVE q'[j].slot \in used'
    OBVIOUS
  <2>1. CASE \E k \in 1 .. Len(q) : q'[j] = q[k] /\ q[k].slot \notin Freed(in)
    BY <1>0, <2>1
  <2>2. CASE q'[j] = Entry /\ AdmitNow(in) /\ tmp.slot \notin Freed(in)
    BY <1>0, <2>2, EntryMade DEF AdmitNow
  <2> QED
    BY <2>1, <2>2, QueueSlots
<1>2. ASSUME state' # "IDLE"
      PROVE  /\ tmp'.slot \in used' /\ tmp'.len \in Nat \ {0}
             /\ \A i \in 1 .. Len(q') : q'[i].slot # tmp'.slot
  <2>0. ~AdmitNow(in)
    BY <1>2, CaptureAfter
  <2>a. \A j \in 1 .. Len(q') : \E k \in 1 .. Len(q) : q'[j] = q[k]
    BY <2>0, QueueSlots
  <2>1. CASE InputAccept(in) /\ state = "IDLE"
    <3>1. /\ FreeSlot \notin used
          /\ tmp' = [id |-> src.id, prio |-> src.prio, len |-> 1, slot |-> FreeSlot,
                     bad |-> ~KeepLegal \/ 1 > Words, lie |-> src.fault = "meta"]
      BY <2>1, CaptureAfter
    <3>2. tmp'.slot = FreeSlot /\ tmp'.len = 1
      BY <3>1
    <3>3. FreeSlot \in used'
      BY <1>0, <2>1 DEF Claimed
    <3> QED
      BY <1>0, <2>a, <3>1, <3>2, <3>3
  <2>2. CASE ~(InputAccept(in) /\ state = "IDLE")
    <3>1. state # "IDLE" /\ tmp'.slot = tmp.slot /\ tmp'.len \in Nat \ {0}
      <4>1. CASE InputAccept(in)
        <5>1. state = "CAPTURE"
          BY <2>2, <4>1, CaptureAfter, SMTT(30)
        <5>2. tmp' = [tmp EXCEPT !.len = tmp.len + 1,
                                 !.bad = tmp.bad \/ ~KeepLegal \/ tmp.len + 1 > Words]
          BY <4>1, <5>1, CaptureAfter
        <5> QED
          BY <1>0, <5>1, <5>2 DEF TmpSet
      <4>2. CASE ~InputAccept(in)
        BY <1>0, <1>2, <2>0, <4>2, CaptureAfter, SMTT(30)
      <4> QED
        BY <4>1, <4>2
    <3>2. tmp.slot \notin Freed(in)
      <4>1. LastAccept(in) => 1 \in 1 .. Len(q)
        BY Entries DEF LastAccept, OutputAccept, FifoInv, HeadAtOutput, BeatOfHead
      <4> QED
        BY <1>0, <2>0, <3>1, <4>1, FreedSlots, SMTT(30)
    <3> QED
      BY <1>0, <2>a, <3>1, <3>2
  <2> QED
    BY <2>1, <2>2
<1> QED
  BY <1>1, <1>2, QueueSlots DEF SlotsApart

\* Nothing that is kept is overwritten.
LEMMA ClockPayload ==
    ASSUME FifoInv, NEW in \in Inputs, Clock(in)
    PROVE  PayloadStored'
<1>0. /\ FifoTypes /\ Len(q) \in Nat /\ tmp \in TmpSet /\ ram \in [Cells -> WordSet]
      /\ Words \in Nat \ {0} /\ state \in States
      /\ \A i \in 1 .. Len(q) : q[i] \in EntrySet /\ q[i].slot \in Slots /\ q[i].len \in Nat \ {0}
  BY Entries, FifoConstants DEF FifoInv, FifoTypes, EntrySet
<1>1. /\ \A i \in 1 .. Len(q) : q[i].slot \in used /\ q[i].len <= Words
      /\ state # "IDLE" => \A i \in 1 .. Len(q) : q[i].slot # tmp.slot
      /\ \A i \in 1 .. Len(q) : \A b \in 0 .. q[i].len - 1 :
           ram[Address(q[i].slot, b)] = [id |-> q[i].id, beat |-> b]
  BY DEF FifoInv, SlotsApart, PayloadStored, ResidentPayloadKept
<1>2. ASSUME NEW k \in 1 .. Len(q), NEW b \in 0 .. q[k].len - 1
      PROVE  ram'[Address(q[k].slot, b)] = [id |-> q[k].id, beat |-> b]
  <2>1. CASE ~StoreEnable(in)
    BY <1>1, <2>1, RamAfter
  <2>2. CASE StoreEnable(in)
    <3>1. CaptureSlot # q[k].slot
      <4>1. CASE state = "IDLE"
        BY <1>1, <2>2, <4>1, CaptureAfter, SMTT(30) DEF StoreEnable, CaptureSlot
      <4>2. CASE state # "IDLE"
        BY <1>1, <4>2 DEF CaptureSlot
      <4> QED
        BY <4>1, <4>2
    <3>2. CaptureOffset \in 0 .. Words - 1 /\ CaptureSlot \in Slots /\ b \in 0 .. Words - 1
      BY <1>0, <1>1, <2>2, RamAfter
    <3>3. Address(CaptureSlot, CaptureOffset) # Address(q[k].slot, b)
      BY <1>0, <3>1, <3>2, SlotsDisjoint, SMTT(30)
    <3>4. Address(q[k].slot, b) \in Cells
      BY <1>0, <3>2, SlotCells
    <3>5. ram' = [ram EXCEPT ![Address(CaptureSlot, CaptureOffset)] =
                                [id |-> src.id, beat |-> CaptureOffset]]
      BY <2>2, RamAfter
    <3> QED
      BY <1>0, <1>1, <3>3, <3>4, <3>5
  <2> QED
    BY <2>1, <2>2
<1>3. ASSUME NEW j \in 1 .. Len(q')
      PROVE  /\ q'[j].len <= Words
             /\ \A b \in 0 .. q'[j].len - 1 :
                   ram'[Address(q'[j].slot, b)] = [id |-> q'[j].id, beat |-> b]
  <2>1. CASE \E k \in 1 .. Len(q) : q'[j] = q[k]
    BY <1>1, <1>2, <2>1, SMTT(30)
  <2>2. CASE q'[j] = Entry /\ AdmitNow(in) /\ ~Malformed
    <3>1. state = "ADMIT" /\ ~tmp.bad /\ ~StoreEnable(in)
      BY <2>2, CaptureAfter DEF AdmitNow, Malformed, StoreEnable
    <3>2. /\ tmp.len <= Words
          /\ \A b \in 0 .. tmp.len - 1 : ram[Address(tmp.slot, b)] = [id |-> tmp.id, beat |-> b]
      BY <3>1 DEF FifoInv, PayloadStored
    <3>3. ram' = ram
      BY <3>1, RamAfter
    <3>4. q'[j].slot = tmp.slot /\ q'[j].len = tmp.len /\ q'[j].id = tmp.id
      BY <2>2, <3>1, EntryMade
    <3> QED
      BY <3>2, <3>3, <3>4
  <2> QED
    BY <2>1, <2>2, QueueSlots
<1>4. ASSUME state' # "IDLE", ~tmp'.bad
      PROVE  /\ tmp'.len <= Words
             /\ \A b \in 0 .. tmp'.len - 1 :
                   ram'[Address(tmp'.slot, b)] = [id |-> tmp'.id, beat |-> b]
  <2>1. CASE InputAccept(in) /\ state = "IDLE"
    <3>1. /\ FreeSlot \in Slots
          /\ tmp' = [id |-> src.id, prio |-> src.prio, len |-> 1, slot |-> FreeSlot,
                     bad |-> ~KeepLegal \/ 1 > Words, lie |-> src.fault = "meta"]
      BY <2>1, CaptureAfter
    <3>a. tmp'.bad = (~KeepLegal \/ 1 > Words)
      BY <3>1, Zenon
    <3>b. KeepLegal /\ ~(1 > Words)
      BY <1>4, <3>a, Zenon
    <3>2. KeepLegal /\ 1 <= Words /\ tmp'.len = 1 /\ tmp'.slot = FreeSlot /\ tmp'.id = src.id
      BY <1>0, <3>1, <3>b
    <3>3. StoreEnable(in) /\ CaptureOffset = 0 /\ CaptureSlot = FreeSlot
      BY <2>1, <3>2 DEF StoreEnable, CaptureOffset, CaptureSlot
    <3>4. ram' = [ram EXCEPT ![Address(FreeSlot, 0)] = [id |-> src.id, beat |-> 0]]
      BY <3>3, RamAfter, SMTT(30)
    <3>5. Address(FreeSlot, 0) \in Cells
      BY <1>0, <3>1, SlotCells
    <3>6. ram'[Address(FreeSlot, 0)] = [id |-> src.id, beat |-> 0]
      BY <1>0, <3>4, <3>5
    <3> QED
      BY <3>2, <3>6
  <2>2. CASE InputAccept(in) /\ state = "CAPTURE"
    <3>1. tmp' = [tmp EXCEPT !.len = tmp.len + 1,
                             !.bad = tmp.bad \/ ~KeepLegal \/ tmp.len + 1 > Words]
      BY <2>2, CaptureAfter
    <3>a. tmp'.bad = (tmp.bad \/ ~KeepLegal \/ tmp.len + 1 > Words)
      BY <1>0, <3>1, Zenon DEF TmpSet
    <3>b. ~tmp.bad /\ KeepLegal /\ ~(tmp.len + 1 > Words)
      BY <1>4, <3>a, Zenon
    <3>2. /\ ~tmp.bad /\ KeepLegal /\ tmp.len + 1 <= Words /\ tmp.len \in Nat
          /\ tmp'.len = tmp.len + 1 /\ tmp'.slot = tmp.slot /\ tmp'.id = tmp.id
          /\ tmp.slot \in Slots
      BY <1>0, <3>1, <3>b DEF TmpSet
    <3>3. StoreEnable(in) /\ CaptureOffset = tmp.len /\ CaptureSlot = tmp.slot
      BY <2>2, <3>2 DEF StoreEnable, CaptureOffset, CaptureSlot
    <3>4. ram' = [ram EXCEPT ![Address(tmp.slot, tmp.len)] = [id |-> tmp.id, beat |-> tmp.len]]
      BY <2>2, <3>3, RamAfter DEF FifoInv, CapturesSource
    <3>5. \A b \in 0 .. tmp.len - 1 : ram[Address(tmp.slot, b)] = [id |-> tmp.id, beat |-> b]
      BY <2>2, <3>2 DEF FifoInv, PayloadStored
    <3>6. ASSUME NEW b \in 0 .. tmp'.len - 1
          PROVE  ram'[Address(tmp.slot, b)] = [id |-> tmp.id, beat |-> b]
      <4>1. b \in 0 .. Words - 1 /\ tmp.len \in 0 .. Words - 1 /\ (b = tmp.len \/ b \in 0 .. tmp.len - 1)
        BY <1>0, <3>2
      <4>2. Address(tmp.slot, b) \in Cells /\ Address(tmp.slot, tmp.len) \in Cells
        BY <3>2, <4>1, SlotCells
      <4>3. b # tmp.len => Address(tmp.slot, b) # Address(tmp.slot, tmp.len)
        BY <3>2, <4>1, SlotCells
      <4> QED
        BY <1>0, <3>4, <3>5, <4>1, <4>2, <4>3, SMTT(30)
    <3> QED
      BY <3>2, <3>6
  <2>3. CASE ~InputAccept(in)
    <3>1. state # "IDLE" /\ tmp' = tmp
      BY <1>4, <2>3, CaptureAfter
    <3>2. ram' = ram
      BY <2>3, RamAfter DEF StoreEnable
    <3> QED
      BY <1>4, <3>1, <3>2 DEF FifoInv, PayloadStored
  <2> QED
    BY <2>1, <2>2, <2>3, CaptureAfter
<1> QED
  BY <1>3, <1>4 DEF PayloadStored, ResidentPayloadKept, Address

\* The record in capture stays the one the scheduler sends.
LEMMA ClockCapture ==
    ASSUME FifoInv, NEW in \in Inputs, Clock(in)
    PROVE  CapturesSource'
<1> SUFFICES ASSUME state' = "CAPTURE" PROVE src' # NoSource /\ src'.id = tmp'.id
  BY DEF CapturesSource, NoSource
<1>0. tmp \in TmpSet
  BY DEF FifoInv, FifoTypes
<1>1. CASE InputAccept(in) /\ state = "IDLE"
  <2>1. ~LastBeat /\ tmp'.id = src.id
    BY <1>1, CaptureAfter
  <2> QED
    BY <1>1, <2>1, SourceAfter
<1>2. CASE InputAccept(in) /\ state = "CAPTURE"
  <2>1. ~LastBeat /\ tmp'.id = tmp.id
    BY <1>0, <1>2, CaptureAfter, ZenonT(60) DEF TmpSet
  <2> QED
    BY <1>2, <2>1, SourceAfter DEF FifoInv, CapturesSource
<1>3. CASE ~InputAccept(in)
  <2>1. state = "CAPTURE" /\ tmp' = tmp
    BY <1>3, CaptureAfter
  <2> QED
    BY <1>3, <2>1, SourceAfter DEF FifoInv, CapturesSource
<1> QED
  BY <1>1, <1>2, <1>3, CaptureAfter

\* The head changes only when its last beat leaves.
LEMMA HeadStays ==
    ASSUME FifoInv, NEW in \in Inputs, Clock(in), ~LastAccept(in), q # <<>>
    PROVE  q' # <<>> /\ q'[1] = q[1]
<1>0. FifoTypes /\ Len(q) \in Nat /\ 1 \in 1 .. Len(q) /\ q' \in Seq(EntrySet)
  BY Entries, QueueAfter DEF FifoInv
<1>1. CASE Admitted(in)
  <2>1. Len(q') = Len(q) + 1 /\ q'[1] = q[1]
    BY <1>0, <1>1, QueueAfter
  <2> QED
    BY <1>0, <2>1, EmptySeq
<1>2. CASE Replaced(in)
  <2>1. /\ Len(q') = Len(q) /\ Victim \in 1 .. Len(q) /\ Victim # 1
        /\ \A j \in 1 .. Len(q) - 1 : q'[j] = q[Before(Victim, j)]
    BY <1>2, QueueAfter
  <2>2. 1 \in 1 .. Len(q) - 1 /\ Before(Victim, 1) = 1
    BY <1>0, <2>1 DEF Before
  <2> QED
    BY <1>0, <2>1, <2>2, EmptySeq
<1>3. CASE Kept(in)
  BY <1>3 DEF Kept
<1> QED
  BY <1>1, <1>2, <1>3, QueueCases DEF Popped

\* The output stays with the head.
LEMMA ClockHead ==
    ASSUME FifoInv, NEW in \in Inputs, Clock(in)
    PROVE  HeadAtOutput'
<1>0. /\ FifoTypes /\ FifoTypes' /\ offset \in Nat
      /\ q # <<>> => q[1] \in EntrySet /\ q[1].len \in Nat \ {0}
  BY Entries, ClockTypes, ZenonT(60) DEF FifoInv, FifoTypes, EntrySet
<1>1. q' # <<>> => q'[1].len \in Nat \ {0}
  <2>1. q' \in Seq(EntrySet) /\ Len(q') \in Nat
    BY QueueAfter
  <2>2. q' # <<>> => q'[1] \in EntrySet
    BY <2>1, EmptySeq, ElementOfSeq
  <2> QED
    BY <2>2 DEF EntrySet
<1>2. /\ q = <<>> => offset = 0
      /\ q # <<>> => offset < q[1].len
      /\ ~(read.valid /\ out.valid)
      /\ BeatOfHead(read) /\ BeatOfHead(out)
  BY DEF FifoInv, HeadAtOutput
<1>3. CASE LastAccept(in)
  <2>1. offset' = 0 /\ ~read'.valid /\ ~out'.valid
    BY <1>3, OutputAfter DEF LastAccept
  <2> QED
    BY <1>1, <2>1 DEF HeadAtOutput, BeatOfHead
<1>4. CASE ~LastAccept(in) /\ ReadRequest(in)
  <2>1. /\ q # <<>> /\ ~out'.valid /\ offset' < q[1].len
        /\ read' = [valid |-> TRUE, id |-> q[1].id,
                    word |-> [id |-> q[1].id, beat |-> offset'],
                    last |-> offset' + 1 = q[1].len]
    BY <1>4, ReadBeat
  <2>2. /\ read'.id = q[1].id /\ read'.word = [id |-> q[1].id, beat |-> offset']
        /\ read'.last = (offset' + 1 = q[1].len)
    BY <2>1, Zenon
  <2>3. q' # <<>> /\ q'[1] = q[1]
    BY <1>4, <2>1, HeadStays, SMTT(30)
  <2> QED
    BY <2>1, <2>2, <2>3, ZenonT(60) DEF HeadAtOutput, BeatOfHead
<1>5. CASE ~LastAccept(in) /\ ~ReadRequest(in)
  <2>1. ~read'.valid
    BY <1>5, OutputAfter
  <2>2. CASE read.valid
    <3>1. out' = read /\ ~OutputAccept(in) /\ offset' = offset
      BY <1>2, <2>2, OutputAfter DEF OutputAccept
    <3>2. q # <<>> /\ q' # <<>> /\ q'[1] = q[1]
      BY <1>2, <1>5, <2>2, HeadStays, SMTT(30) DEF BeatOfHead
    <3> QED
      BY <1>2, <2>1, <2>2, <3>1, <3>2, SMTT(30) DEF HeadAtOutput, BeatOfHead
  <2>3. CASE ~read.valid /\ OutputAccept(in)
    <3>1. ~out'.valid /\ offset' = offset + 1 /\ q # <<>> /\ offset + 1 # q[1].len
      BY <1>2, <1>5, <2>3, OutputAfter DEF LastAccept, OutputAccept, BeatOfHead
    <3>2. q' # <<>> /\ q'[1] = q[1]
      BY <1>5, <3>1, HeadStays
    <3> QED
      BY <1>0, <1>2, <2>1, <3>1, <3>2 DEF HeadAtOutput, BeatOfHead
  <2>4. CASE ~read.valid /\ ~OutputAccept(in)
    <3>1. out' = out /\ offset' = offset
      BY <2>4, OutputAfter, SMTT(30)
    <3>2. CASE q # <<>>
      <4>1. q' # <<>> /\ q'[1] = q[1]
        BY <1>5, <3>2, HeadStays, SMTT(30)
      <4> QED
        BY <1>2, <2>1, <3>1, <3>2, <4>1 DEF HeadAtOutput, BeatOfHead
    <3>3. CASE q = <<>>
      <4>1. offset' = 0 /\ ~out'.valid
        BY <1>2, <3>1, <3>3 DEF BeatOfHead
      <4> QED
        BY <1>1, <2>1, <4>1 DEF HeadAtOutput, BeatOfHead
    <3> QED
      BY <3>2, <3>3
  <2> QED
    BY <2>2, <2>3, <2>4
<1> QED
  BY <1>3, <1>4, <1>5, SMTT(30)

\* The writer stays with the record it has begun.
LEMMA ClockWriter ==
    ASSUME FifoInv, NEW in \in Inputs, Clock(in)
    PROVE  WriterKnown'
<1>0. FifoTypes /\ writer \in Writers /\ writer' = in.writer
      /\ (writer = "inside" => q # <<>> /\ q[1].id = taken)
  BY DEF FifoInv, FifoTypes, WriterKnown, WriterInsideHead, Clock
<1>1. idle' => WriterIdle'
  <2> SUFFICES ASSUME WriterIdle, ~out.valid PROVE WriterIdle'
    BY ZenonT(60) DEF Clock, EpochIdle
  <2>1. ~in.ready
    BY <1>0, InputKinds DEF Offered
  <2>2. in.writer \in WriterTurns
    BY <1>0, <2>1, InputKinds
  <2> QED
    BY <1>0, <2>2 DEF WriterIdle, WriterTurns
<1>2. ASSUME writer' = "inside" PROVE q' # <<>> /\ q'[1].id = taken'
  <2>1. CASE in.ready
    <3>1. Offered /\ ~out.last /\ out.valid /\ OutputAccept(in) /\ ~LastAccept(in)
      BY <1>0, <1>2, <2>1, InputKinds, ZenonT(60) DEF AfterBeat, Offered, OutputAccept, LastAccept
    <3>2. q # <<>> /\ out.id = q[1].id
      BY <3>1 DEF FifoInv, HeadAtOutput, BeatOfHead
    <3>3. taken' = out.id
      BY <1>2, <3>1 DEF Clock
    <3> QED
      BY <3>1, <3>2, <3>3, HeadStays
  <2>2. CASE ~in.ready
    <3>1. writer = "inside"
      BY <1>0, <1>2, <2>2, InputKinds, ZenonT(60) DEF WriterTurns, Writers
    <3>2. ~OutputAccept(in) /\ ~LastAccept(in) /\ taken' = taken
      BY <1>2, <2>2 DEF OutputAccept, LastAccept, Clock
    <3> QED
      BY <1>0, <3>1, <3>2, HeadStays, SMTT(30)
  <2> QED
    BY <1>0, <2>1, <2>2, InputKinds
<1> QED
  BY <1>1, <1>2 DEF WriterKnown, WriterInsideHead

\* Every record stays accounted for.
LEMMA ClockCount ==
    ASSUME FifoInv, NEW in \in Inputs, Clock(in)
    PROVE  EveryRecordAccounted'
<1>0. tally \in TallySet /\ Len(q) \in Nat /\ state \in States
  BY Entries DEF FifoInv, FifoTypes
<1>a. tally.captured = tally.delivered + tally.dropped + tally.flushed + Held
  BY DEF FifoInv, EveryRecordAccounted
<1>1. /\ tally'.captured = tally.captured + (IF state = "IDLE" /\ InputAccept(in) THEN 1 ELSE 0)
      /\ tally'.delivered = tally.delivered + (IF LastAccept(in) THEN 1 ELSE 0)
      /\ tally'.dropped = tally.dropped + (IF AdmitNow(in) /\ Decision # "admit" THEN 1 ELSE 0)
      /\ tally'.flushed = tally.flushed
  BY DEF Clock, TallyNext
<1>2. AdmitNow(in) => state = "ADMIT" /\ ~LastAccept(in) /\ state' = "IDLE" /\ ~InputAccept(in)
  BY CaptureAfter DEF AdmitNow
<1>3. ~AdmitNow(in) => (state' = "IDLE" <=> state = "IDLE" /\ ~InputAccept(in))
  BY <1>0, CaptureAfter
<1>4. /\ Popped(in) => Len(q') = Len(q) - 1
      /\ Admitted(in) => Len(q') = Len(q) + 1
      /\ Replaced(in) => Len(q') = Len(q)
      /\ Kept(in) => Len(q') = Len(q)
  BY QueueAfter DEF Kept
<1>5. /\ tally.captured \in Nat /\ tally.delivered \in Nat /\ tally.dropped \in Nat
      /\ tally.flushed \in Nat /\ Held \in Nat
  BY <1>0 DEF TallySet, Held
\* An edge outside the admission: the capture may have started.
<1>b. ASSUME ~AdmitNow(in), NEW n \in {0, 1}, Len(q') = Len(q) - n
      PROVE  Held' = Held - n + (IF state = "IDLE" /\ InputAccept(in) THEN 1 ELSE 0)
  <2>1. CASE state = "IDLE" /\ InputAccept(in)
    BY <1>0, <1>3, <1>b, <2>1 DEF Held
  <2>2. CASE ~(state = "IDLE" /\ InputAccept(in))
    <3>1. state' = "IDLE" <=> state = "IDLE"
      BY <1>3, <1>b, <2>2
    <3>2. Held' = Held - n
      BY <1>0, <1>b, <3>1 DEF Held
    <3> QED
      BY <1>5, <1>b, <2>2, <3>2
  <2> QED
    BY <2>1, <2>2
\* An admission ends the capture.
<1>c. ASSUME AdmitNow(in), NEW n \in {0, 1}, Len(q') = Len(q) + n
      PROVE  Held' = Held + n - 1
  <2>1. state # "IDLE" /\ state' = "IDLE"
    BY <1>2, <1>c
  <2> QED
    BY <1>0, <1>c, <2>1 DEF Held
<1> HIDE DEF Held
<1>6. CASE Popped(in)
  <2>1. LastAccept(in) /\ ~AdmitNow(in)
    BY <1>2, <1>6 DEF Popped
  <2>2. Held' = Held - 1 + (IF state = "IDLE" /\ InputAccept(in) THEN 1 ELSE 0)
    BY <1>4, <1>6, <1>b, <2>1
  <2> QED
    BY <1>1, <1>5, <1>a, <2>1, <2>2 DEF EveryRecordAccounted
<1>7. CASE Admitted(in) /\ AdmitNow(in) /\ Decision = "admit"
  <2>1. Held' = Held + 1 - 1
    BY <1>4, <1>7, <1>c
  <2> QED
    BY <1>1, <1>2, <1>5, <1>7, <1>a, <2>1 DEF EveryRecordAccounted
<1>8. CASE Replaced(in) /\ AdmitNow(in) /\ Decision = "evict"
  <2>1. Held' = Held + 0 - 1
    BY <1>0, <1>4, <1>8, <1>c
  <2> QED
    BY <1>1, <1>2, <1>5, <1>8, <1>a, <2>1 DEF EveryRecordAccounted
<1>9. CASE Kept(in) /\ (AdmitNow(in) => Decision = "drop")
  <2>1. CASE AdmitNow(in)
    <3>1. Held' = Held + 0 - 1
      BY <1>0, <1>4, <1>9, <1>c, <2>1
    <3> QED
      BY <1>1, <1>2, <1>5, <1>9, <1>a, <2>1, <3>1, SMTT(30) DEF EveryRecordAccounted
  <2>2. CASE ~AdmitNow(in)
    <3>1. ~LastAccept(in)
      BY <1>9 DEF Kept
    <3>2. Held' = Held - 0 + (IF state = "IDLE" /\ InputAccept(in) THEN 1 ELSE 0)
      BY <1>0, <1>4, <1>9, <1>b, <2>2
    <3>3. /\ tally'.delivered = tally.delivered /\ tally'.dropped = tally.dropped
          /\ tally'.captured - tally.captured = Held' - Held
          /\ tally'.captured \in Int /\ Held' \in Int
      BY <1>1, <1>5, <2>2, <3>1, <3>2
    <3>4. tally'.flushed = tally.flushed
      BY <1>1, SMTT(30)
    <3> QED
      BY <1>5, <1>a, <3>3, <3>4 DEF EveryRecordAccounted
  <2> QED
    BY <2>1, <2>2
<1> QED
  BY <1>6, <1>7, <1>8, <1>9, QueueCases

----------------------------------------------------------------------------
(* The other steps.                                                        *)

\* Every behaviour starts with an empty FIFO.
LEMMA FifoStart == Init => FifoInv
<1> SUFFICES ASSUME Init PROVE FifoInv
  OBVIOUS
<1>1. q = <<>> /\ Len(q) = 0 /\ q \in Seq(EntrySet)
  BY EmptySeq DEF Init
<1>2. FifoTypes
  <2>1. ram \in [Cells -> WordSet]
    BY DEF Init, Cells, WordSet, NoWord
  <2>2. tmp \in TmpSet /\ read \in BeatSet /\ out \in BeatSet /\ src \in SrcSet /\ tally \in TallySet
    BY FifoConstants DEF Init, TmpSet, BeatSet, SrcSet, TallySet, WordSet, NoTmp, NoRead, NoWord,
       NoSource, Slots
  <2>3. /\ state \in States /\ used \subseteq Slots /\ offset \in Nat /\ writer \in Writers
        /\ taken \in Nat /\ idle \in BOOLEAN
    BY ZenonT(60) DEF Init, States, Writers
  <2> QED
    BY <1>1, <2>1, <2>2, <2>3, FifoConstants, SMTT(30) DEF FifoTypes
<1> QED
  BY <1>1, <1>2 DEF Init, FifoInv, SlotsApart, PayloadStored, ResidentPayloadKept, CapturesSource,
     HeadAtOutput, BeatOfHead, WriterKnown, WriterInsideHead, WriterIdle, EveryRecordAccounted,
     Held, NoRead

\* A flush empties it, unless the writer is inside a record.
LEMMA FlushKeeps ==
    ASSUME FifoInv, Flush, writer' \in Writers, writer' # "inside",
           WriterIdle => writer' \in {"idle", "wrapped"}
    PROVE  FifoInv'
<1>0. FifoTypes
  BY DEF FifoInv
<1>1. q' = <<>> /\ Len(q') = 0 /\ q' \in Seq(EntrySet)
  BY EmptySeq DEF Flush
<1>2. tmp' \in TmpSet /\ read' \in BeatSet /\ out' \in BeatSet /\ src' \in SrcSet
      /\ ~read'.valid /\ ~out'.valid
  <2>1. tmp' \in TmpSet /\ src' \in SrcSet
    BY FifoConstants DEF Flush, TmpSet, SrcSet, NoTmp, NoSource, Slots
  <2>2. out' \in BeatSet /\ ~out'.valid
    BY DEF Flush, BeatSet, WordSet, NoRead, NoWord
  <2>3. read \in BeatSet /\ read' = [read EXCEPT !.valid = FALSE]
    BY <1>0 DEF FifoTypes, Flush
  <2>4. read' \in BeatSet /\ ~read'.valid
    BY <2>3, ZenonT(60) DEF BeatSet
  <2> QED
    BY <2>1, <2>2, <2>4
<1>3. tally' \in TallySet /\ tally'.captured = tally'.delivered + tally'.dropped + tally'.flushed
  <2>1. tally \in TallySet /\ Held \in Nat
    BY <1>0, Entries DEF FifoTypes, Held, FifoInv
  <2>2. tally.captured = tally.delivered + tally.dropped + tally.flushed + Held
    BY DEF FifoInv, EveryRecordAccounted
  <2>3. tally' = [tally EXCEPT !.flushed = @ + Held]
    BY DEF Flush
  <2> HIDE DEF Held
  <2> QED
    BY <2>1, <2>2, <2>3 DEF TallySet
<1>4. FifoTypes'
  BY <1>0, <1>1, <1>2, <1>3, FifoConstants DEF FifoTypes, Flush, EpochIdle, States
<1>5. EveryRecordAccounted'
  <2>1. Held' = 0
    BY <1>1 DEF Held, Flush
  <2> QED
    BY <1>3, <2>1 DEF EveryRecordAccounted, TallySet
<1>6. WriterKnown'
  BY ZenonT(60) DEF WriterKnown, WriterInsideHead, Flush, EpochIdle, WriterIdle
<1>7. HeadAtOutput'
  BY <1>1, <1>2 DEF HeadAtOutput, BeatOfHead, Flush
<1>8. (SlotsApart /\ PayloadStored /\ CapturesSource)'
  BY <1>1 DEF SlotsApart, PayloadStored, ResidentPayloadKept, CapturesSource, Flush
<1> QED
  BY <1>4, <1>5, <1>6, <1>7, <1>8 DEF FifoInv

\* Every step keeps the invariant.
LEMMA FifoStep == FifoInv /\ [Next]_vars => FifoInv'
<1> SUFFICES ASSUME FifoInv, [Next]_vars PROVE FifoInv'
  OBVIOUS
<1>1. CASE FormatterFlush
  <2>1. WriterIdle /\ writer' \in WriterTurns \ {"wrap"} /\ Flush
    BY <1>1 DEF FormatterFlush, FifoInv, WriterKnown
  <2>2. writer' \in {"idle", "wrapped"}
    BY <2>1 DEF WriterTurns, WriterIdle
  <2> QED
    BY <2>1, <2>2, FlushKeeps DEF Writers
<1>2. CASE SoftClear
  BY <1>2, FlushKeeps DEF SoftClear, Writers
<1>3. ASSUME NEW in \in Inputs, Clock(in) PROVE FifoInv'
  BY <1>3, ClockTypes, ClockSlots, ClockPayload, ClockCapture, ClockHead, ClockWriter, ClockCount, SMTT(30)
     DEF FifoInv
<1>4. CASE UNCHANGED vars
  BY <1>4, ZenonT(60) DEF vars, FifoInv, FifoTypes, SlotsApart, PayloadStored, ResidentPayloadKept,
     CapturesSource, HeadAtOutput, BeatOfHead, WriterKnown, WriterInsideHead, WriterIdle,
     EveryRecordAccounted, Held
<1> QED
  BY <1>1, <1>2, <1>3, <1>4 DEF Next

\* The FIFO is always in order.
LEMMA AlwaysFifo == Spec => []FifoInv
  BY FifoStart, FifoStep, PTL DEF Spec

\* trecap_packet_fifo.sv never writes a word of a slot that holds a resident
\* record, for any order of captures, evictions, pops, flushes and over-long
\* or malformed records.
THEOREM PayloadKept == Spec => []ResidentPayloadKept
<1>1. FifoInv => ResidentPayloadKept
  BY DEF FifoInv, PayloadStored
<1> QED
  BY <1>1, AlwaysFifo, PTL

\* Every record captured is resident, in capture, delivered, reported as dropped
\* or discarded by a flush, and is counted once: outside the flushes no order of
\* captures, evictions and pops loses a record that is not reported.
THEOREM RecordsAccounted == Spec => []EveryRecordAccounted
<1>1. FifoInv => EveryRecordAccounted
  BY DEF FifoInv
<1> QED
  BY <1>1, AlwaysFifo, PTL

\* No eviction and no flush admitted by transport_epoch_idle_q takes away the
\* record of which the ring writer has a part.
THEOREM WriterStaysInside == Spec => []WriterInsideHead
<1>1. FifoInv => WriterInsideHead
  BY SMTT(30) DEF FifoInv, WriterKnown
<1> QED
  BY <1>1, AlwaysFifo, PTL

\* The word at the output is the next beat of the record at the head, marked
\* as last exactly when it is: records leave whole, in order, beat by beat.
THEOREM BeatsInOrder == Spec => []HeadAtOutput
<1>1. FifoInv => HeadAtOutput
  BY SMTT(30) DEF FifoInv
<1> QED
  BY <1>1, AlwaysFifo, PTL

\* trecap_priority_dropper.sv gives up a resident record only for a more
\* important one, and never the one at the output.
THEOREM OnlyWorseEvicted == Spec => EvictedForBetter
<1> DEFINE Fate(i) ==
          \/ \E j \in 1 .. Len(q') : q'[j].id = q[i].id
          \/ i = 1 /\ out.valid /\ out.last
          \/ q' = <<>>
          \/ q'[Len(q')].prio > q[i].prio /\ q'[Len(q')].id = tmp.id
<1>1. ASSUME FifoInv, NEW in \in Inputs, Clock(in), NEW i \in 1 .. Len(q) PROVE Fate(i)
  <2>0. FifoTypes /\ Len(q) \in Nat
    BY <1>1, Entries, SMTT(30) DEF FifoInv
  <2>1. CASE Popped(in)
    <3>1. CASE i = 1
      BY <2>1, <3>1 DEF Popped, LastAccept, OutputAccept
    <3>2. CASE i # 1
      <4>1. i - 1 \in 1 .. Len(q') /\ q'[i - 1] = q[i]
        BY <1>1, <2>0, <2>1, <3>2, QueueAfter, SMTT(30)
      <4> QED
        BY <4>1, SMTT(30)
    <3> QED
      BY <3>1, <3>2, SMTT(30)
  <2>2. CASE Admitted(in)
    <3>1. i \in 1 .. Len(q') /\ q'[i] = q[i]
      BY <1>1, <2>0, <2>2, QueueAfter
    <3> QED
      BY <3>1, SMTT(30)
  <2>3. CASE Replaced(in)
    <3>1. /\ Len(q') = Len(q) /\ q'[Len(q')] = Entry /\ Victim \in 1 .. Len(q)
          /\ \A j \in 1 .. Len(q) - 1 : q'[j] = q[Before(Victim, j)]
      BY <1>1, <2>3, QueueAfter
    <3>2. CASE i = Victim
      <4>1. q[i].prio < tmp.prio
        BY <2>0, <2>3, <3>2, VictimChosen DEF Replaced
      <4>2. Entry.prio = tmp.prio /\ Entry.id = tmp.id
        BY <1>1, <2>3, EntryMade, SMTT(30) DEF Replaced
      <4>3. q[i].prio \in Nat /\ tmp.prio \in Nat
        <5>1. q[i] \in EntrySet /\ tmp \in TmpSet
          BY <1>1, <2>0, Entries DEF FifoTypes
        <5> QED
          BY <5>1 DEF EntrySet, TmpSet
      <4> QED
        BY <3>1, <4>1, <4>2, <4>3, SMTT(30)
    <3>3. CASE i # Victim
      <4>1. PICK j \in 1 .. Len(q) - 1 : Before(Victim, j) = i
        BY <2>0, <3>1, <3>3, WithoutEntry
      <4>2. j \in 1 .. Len(q') /\ q'[j] = q[i]
        BY <2>0, <3>1, <4>1
      <4> QED
        BY <4>2, SMTT(30)
    <3> QED
      BY <3>2, <3>3, SMTT(30)
  <2>4. CASE Kept(in)
    BY <2>4 DEF Kept
  <2> QED
    BY <1>1, <2>1, <2>2, <2>3, <2>4, QueueCases, SMTT(30)
<1>2. FifoInv /\ [Next]_vars => [\A i \in 1 .. Len(q) : Fate(i)]_vars
  <2>1. FormatterFlush \/ SoftClear => q' = <<>>
    BY ZenonT(60) DEF FormatterFlush, SoftClear, Flush
  <2> QED
    BY <1>1, <2>1 DEF Next
<1> QED
  BY <1>2, AlwaysFifo, PTL DEF Spec, EvictedForBetter
============================================================================
