--------------------------- MODULE ThresholdCommit ---------------------------
(***************************************************************************)
(* The 56-bit threshold THR2: the shadow, pending and active registers of  *)
(* the CSR bank (trecap_csr_shadow_commit.sv, u_thr2_commit), and the      *)
(* three host procedures that write them: start-up of the streamer, the    *)
(* SET_THR2 command and the RESET_TRANSPORT command (command_bridge.c).    *)
(*                                                                         *)
(* A threshold is a pair <<lo, hi>> of register halves.  One step is one   *)
(* register access, or a frame boundary between two accesses.  Only the    *)
(* single-threaded streamer writes these registers.                        *)
(***************************************************************************)
EXTENDS Integers, Sequences

CONSTANTS Halves,      \* contents of a 32-bit register half
          Requests     \* the thresholds that operators ask for

Thresholds == Halves \X Halves
ResetValue == <<0, 0>>

ASSUME ThresholdConstants == 0 \in Halves /\ Requests \subseteq Thresholds

VARIABLES
    bank,   \* the registers of u_thr2_commit
    hps     \* the streamer: the procedure it runs, the threshold it writes
            \* (want), the one it believes active (mirror), reset_required

vars == <<bank, hps>>

Procedures == {"none", "start", "set", "reset"}
Steps == {"off", "idle", "reset", "rearm", "check", "read",
          "lo", "hi", "commit", "poll", "verify", "rest"}

----------------------------------------------------------------------------
(* The register bank.  Every refusal is silent: a store has no answer that *)
(* the software looks at.                                                  *)

WriteLo(v) == IF bank.pending THEN bank ELSE [bank EXCEPT !.shadow[1] = v]
WriteHi(v) == IF bank.pending THEN bank ELSE [bank EXCEPT !.shadow[2] = v]

\* THR2_COMMIT.  A commit that coincides with a safe boundary is applied at
\* once; another one waits for the boundary.
Commit(boundary) ==
    CASE bank.pending -> bank
      [] ~bank.pending /\ boundary ->
           [bank EXCEPT !.value = bank.shadow, !.active = bank.shadow,
                        !.cancelled = FALSE]
      [] OTHER -> [bank EXCEPT !.value = bank.shadow, !.pending = TRUE]

\* Mutant: a soft reset leaves the pending commit waiting.
SoftResetKeepsPending == [bank EXCEPT !.value = ResetValue]

\* clear_i: a soft reset cancels the pending commit.  Shadow and active keep
\* their values.  "cancelled" is no register: it remembers that a commit was
\* dropped here and that none has been applied since.
SoftReset ==
    [bank EXCEPT !.pending = FALSE, !.value = ResetValue,
                 !.cancelled = @ \/ bank.pending]

\* apply_pending: the core reaches a frame boundary.
Boundary ==
    /\ bank.pending
    /\ bank' = [bank EXCEPT !.active = bank.value, !.pending = FALSE,
                            !.cancelled = FALSE]
    /\ UNCHANGED hps

----------------------------------------------------------------------------
(* The streamer.                                                           *)

At(step) == hps.step = step
Goto(step) == hps' = [hps EXCEPT !.step = step]

Idle(mirror, locked) ==
    hps' = [hps EXCEPT !.proc = "none", !.step = "idle", !.mirror = mirror,
                       !.locked = locked]

\* Mutant: a failed command leaves the bridge open for the next one.
FailOpen == Idle(hps.mirror, FALSE)

\* trecap_bridge_latch_fail_closed: only a RESET_TRANSPORT is served next.
FailClosed == Idle(hps.mirror, TRUE)

\* The process starts with a threshold from its command line, resets the
\* transport and writes the threshold unconditionally.
Start(v) ==
    /\ At("off")
    /\ hps' = [hps EXCEPT !.proc = "start", !.step = "reset", !.want = v,
                          !.locked = FALSE]
    /\ UNCHANGED bank

SetThr2(v) ==
    /\ At("idle") /\ ~hps.locked
    /\ hps' = [hps EXCEPT !.proc = "set", !.step = "check", !.want = v]
    /\ UNCHANGED bank

\* RESET_TRANSPORT wants the threshold it believes active back.
ResetTransport ==
    /\ At("idle")
    /\ hps' = [hps EXCEPT !.proc = "reset", !.step = "reset",
                          !.want = hps.mirror, !.locked = TRUE]
    /\ UNCHANGED bank

\* trecap_ring_reader_reset_transport, up to and including the soft reset.
PulseReset ==
    /\ At("reset")
    /\ bank' = SoftReset
    /\ Goto(IF hps.proc = "start" THEN "lo" ELSE "rearm")

\* The writer does not drain, a replay is still busy, the transport does not
\* become quiescent, or another register is not reconciled.
ResetFails ==
    /\ hps.proc = "reset" /\ hps.step \in {"reset", "rearm", "rest"}
    /\ FailClosed
    /\ UNCHANGED bank

\* trecap_bridge_reset_rearm_replay waits for, among others, no pending THR2.
RearmReplay ==
    /\ At("rearm") /\ ~bank.pending
    /\ Goto("read")
    /\ UNCHANGED bank

\* SET_THR2 reads STATUS first and refuses to work on a pending commit.
CheckPending ==
    /\ At("check")
    /\ IF bank.pending THEN Idle(hps.mirror, hps.locked) ELSE Goto("read")
    /\ UNCHANGED bank

\* The threshold is done: SET_THR2 and start-up record it, RESET_TRANSPORT
\* goes on to the other registers.
ThresholdDone ==
    IF hps.proc = "reset" THEN Goto("rest") ELSE Idle(hps.want, FALSE)

\* Both commands read THR2_LO and THR2_HI, which return the SHADOW register,
\* and write nothing when it holds what they want.
ReadShadow ==
    /\ At("read")
    /\ IF bank.shadow = hps.want THEN ThresholdDone ELSE Goto("lo")
    /\ UNCHANGED bank

StoreLo == At("lo") /\ bank' = WriteLo(hps.want[1]) /\ Goto("hi")
StoreHi == At("hi") /\ bank' = WriteHi(hps.want[2]) /\ Goto("commit")
StoreCommit ==
    /\ At("commit")
    /\ \E boundary \in BOOLEAN : bank' = Commit(boundary)
    /\ Goto("poll")

\* STATUS no longer shows a pending commit.
PollDone ==
    /\ At("poll") /\ ~bank.pending
    /\ IF hps.proc = "start" THEN ThresholdDone ELSE Goto("verify")
    /\ UNCHANGED bank

\* The poll limit runs out first.  The boundary may still come later.
PollTimeout ==
    /\ At("poll") /\ bank.pending
    /\ IF hps.proc = "start"
         THEN hps' = [hps EXCEPT !.proc = "none", !.step = "off"]
         ELSE FailClosed
    /\ UNCHANGED bank

Verify ==
    /\ At("verify")
    /\ IF bank.shadow = hps.want THEN ThresholdDone ELSE FailClosed
    /\ UNCHANGED bank

\* RESET_TRANSPORT has reconciled every register and gives up the lock.
ResetDone ==
    /\ At("rest") /\ ~bank.pending
    /\ Idle(hps.mirror, FALSE)
    /\ UNCHANGED bank

\* A malformed ring record, or another command that fails, closes the bridge.
OtherFailure ==
    /\ At("idle") /\ ~hps.locked
    /\ FailClosed
    /\ UNCHANGED bank

\* The process is killed, or start-up fails elsewhere and it exits.
Kill ==
    /\ ~At("off")
    /\ hps' = [hps EXCEPT !.proc = "none", !.step = "off"]
    /\ UNCHANGED bank

Init ==
    /\ bank = [shadow |-> ResetValue, active |-> ResetValue,
               value |-> ResetValue, pending |-> FALSE, cancelled |-> FALSE]
    /\ hps = [proc |-> "none", step |-> "off", want |-> ResetValue,
              mirror |-> ResetValue, locked |-> FALSE]

Next ==
    \/ Boundary
    \/ \E v \in Requests : Start(v) \/ SetThr2(v)
    \/ ResetTransport \/ PulseReset \/ ResetFails \/ RearmReplay
    \/ CheckPending \/ ReadShadow
    \/ StoreLo \/ StoreHi \/ StoreCommit
    \/ PollDone \/ PollTimeout \/ Verify \/ ResetDone \/ OtherFailure
    \/ Kill

Spec == Init /\ [][Next]_vars

----------------------------------------------------------------------------
\* The core never computes with a threshold nobody asked for: a mixture of
\* the halves of two thresholds becomes active in no order of stores, frame
\* boundaries, resets, timeouts and restarts, although each half is stored
\* and silently refused on its own.
NoTornThreshold == {bank.active, bank.value} \subseteq Requests \cup {ResetValue}

Serving == At("idle") /\ ~hps.locked

\* While the bridge accepts commands, the threshold it reports as active is
\* the one the core uses, unless a soft reset has dropped a pending commit
\* and none has been applied since.
MirrorIsActiveUnlessCancelled ==
    Serving => hps.mirror = bank.active \/ bank.cancelled

\* "The software lock is cleared only after reset and persistent-config
\* reconciliation have both completed with readback proof": whenever the
\* lock is open, the recorded threshold is the active one.
MirrorIsActive == Serving => hps.mirror = bank.active
=============================================================================
