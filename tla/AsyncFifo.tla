----------------------------- MODULE AsyncFifo -----------------------------
(***************************************************************************)
(* The dual-clock FIFO of the audio path (async_fifo.sv): one side writes  *)
(* at its clock, the other reads at its own, and each sees the pointer of  *)
(* the other only through a chain of synchronizer registers, some edges    *)
(* old.  A pointer counts two turns of the memory.  It crosses in Gray     *)
(* code: one bit changes at a time, so that an edge that samples it while  *)
(* it moves takes the old or the new value, never a mixture.  A pointer    *)
(* half a circle away is the one whose Gray code differs in the two top    *)
(* bits.                                                                   *)
(*                                                                         *)
(* The reset reaches both sides at once and leaves each at an edge of its  *)
(* own clock (reset_sync.sv).                                              *)
(***************************************************************************)
EXTENDS Integers, Sequences

CONSTANTS
    Depth,      \* DEPTH
    Stages,     \* SYNC_STAGES_SAFE
    Data        \* the words

Pointers == 0 .. 2 * Depth - 1

VARIABLES
    mem,
    wr, rd,             \* wr_bin_q, rd_bin_q
    rdSync, wrSync,     \* rd_gray_sync_wr_q, wr_gray_sync_rd_q
    overflow, underflow,\* the sticky flags
    up,                 \* the sides out of reset
    queue               \* not in the code: the words accepted and not yet taken

fifoVars == <<mem, wr, rd, rdSync, wrSync, overflow, underflow, up, queue>>

Inc(p) == IF p = 2 * Depth - 1 THEN 0 ELSE p + 1
Addr(p) == IF p >= Depth THEN p - Depth ELSE p
Opposite(p) == IF p >= Depth THEN p - Depth ELSE p + Depth
\* wr_used_calc, rd_used_calc: the way from a to b.
Used(a, b) == IF b >= a THEN b - a ELSE b - a + 2 * Depth

Full == wr = Opposite(rdSync[Stages])
Empty == rd = wrSync[Stages]

\* A synchronizer chain after an edge: one stage on, the first takes p.
Shifted(chain, p) == [s \in 1 .. Stages |-> IF s = 1 THEN p ELSE chain[s - 1]]

\* An edge of the write clock, with a word offered or not.
WriteEdge(valid, d) ==
    /\ "write" \in up
    /\ rdSync' = Shifted(rdSync, rd)
    /\ overflow' = (overflow \/ (valid /\ Full))
    /\ IF valid /\ ~Full
         THEN /\ mem' = [mem EXCEPT ![Addr(wr)] = d]
              /\ wr' = Inc(wr)
              /\ queue' = Append(queue, d)
         ELSE UNCHANGED <<mem, wr, queue>>
    /\ UNCHANGED <<rd, wrSync, underflow, up>>

\* An edge of the read clock, with a reader ready or not.
ReadEdge(ready) ==
    /\ "read" \in up
    /\ wrSync' = Shifted(wrSync, wr)
    /\ underflow' = (underflow \/ (ready /\ Empty))
    /\ IF ready /\ ~Empty
         THEN rd' = Inc(rd) /\ queue' = Tail(queue)
         ELSE UNCHANGED <<rd, queue>>
    /\ UNCHANGED <<mem, wr, rdSync, overflow, up>>

Zeros == [s \in 1 .. Stages |-> 0]

\* The memory keeps its words (CLEAR_ON_RESET is 0).
Reset ==
    /\ wr' = 0 /\ rd' = 0 /\ rdSync' = Zeros /\ wrSync' = Zeros
    /\ overflow' = FALSE /\ underflow' = FALSE
    /\ up' = {} /\ queue' = <<>>
    /\ UNCHANGED mem

Release(side) ==
    /\ up' = up \cup {side}
    /\ UNCHANGED <<mem, wr, rd, rdSync, wrSync, overflow, underflow, queue>>

FifoInit ==
    /\ mem \in [0 .. Depth - 1 -> Data]
    /\ wr = 0 /\ rd = 0 /\ rdSync = Zeros /\ wrSync = Zeros
    /\ overflow = FALSE /\ underflow = FALSE
    /\ up = {} /\ queue = <<>>

FifoNext ==
    \/ \E valid \in BOOLEAN, d \in Data : WriteEdge(valid, d)
    \/ \E ready \in BOOLEAN : ReadEdge(ready)
    \/ Reset \/ \E side \in {"write", "read"} : Release(side)

FifoSpec == FifoInit /\ [][FifoNext]_fifoVars

----------------------------------------------------------------------------
\* out_valid_o is never early: there is a word, and out_data_o is the oldest.
WordIsOldest == ~Empty => queue # <<>> /\ mem[Addr(rd)] = Head(queue)

\* No word accepted is overwritten, and the two levels, each old in its own
\* way, bound what the FIFO holds.
LevelsBound ==
    /\ Len(queue) <= Used(rdSync[Stages], wr) /\ Used(rdSync[Stages], wr) <= Depth
    /\ Used(rd, wrSync[Stages]) <= Len(queue)

\* Once the chains have settled the flags are exact: neither side is kept
\* waiting by a FIFO that is not full, or not empty.
FlagsExact ==
    (\A s \in 1 .. Stages : rdSync[s] = rd /\ wrSync[s] = wr) =>
        /\ Full <=> Len(queue) = Depth
        /\ Empty <=> queue = <<>>
============================================================================
