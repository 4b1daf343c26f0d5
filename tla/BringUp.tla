------------------------------- MODULE BringUp -------------------------------
(***************************************************************************)
(* The HPS streamer's start-up (trecap_streamer_configure_initial_csr, on  *)
(* top of the ring reader and the CSR map) against the register interface. *)
(* A register store never reports a refusal to the software, which learns  *)
(* of it only from what it reads back.  The process may be killed at any   *)
(* access and started again on whatever the hardware was left with.        *)
(***************************************************************************)
EXTENDS CsrRing, Sequences

CONSTANT ConfigSize     \* cfg.ring_size_bytes, one of Sizes

\* The configuration loader refuses any other ring size.  Start-up writes a
\* zero consumer pointer.
ASSUME BringUpConstants ==
    /\ 0 \in Halves
    /\ ConfigSize \in Sizes
    /\ P!RingConfigLegal([size |-> ConfigSize, base64 |-> TRUE])

VARIABLE host           \* the process: its next step, where it gave up and,
                        \* not in the code, whether the store that arms the
                        \* writer met a replay or a change of the source

Idle == 0               \* no streamer runs; other software may use the CSRs
NoProcess == [pc |-> Idle, gaveUp |-> "nothing", met |-> FALSE]

\* A step is an access and, for a read, what the software requires of it.
Store(reg, val) == [op |-> [reg |-> reg, val |-> val], require |-> "nothing"]
Load(reg, what) == [op |-> [reg |-> reg, val |-> 0], require |-> what]

ResetTransport ==
    << Store("CONTROL", 0), Load("READ_STATUS", "both_levels_off"),
       Load("READ_DMA", "writer_idle"), Store("SOFT_RESET", 0) >>

ConfigureRing ==
    << Store("RING_BASE", 0), Store("RING_SIZE", ConfigSize),
       Store("CONFIG_COMMIT", 0), Load("READ_STATUS", "ring_configured") >>

\* Mutant: the consumer pointer is written but not committed.
CommitRdZeroShadowOnly == << Store("RD_LO", 0), Store("RD_HI", 0) >>

CommitRdZero ==
    << Store("RD_LO", 0), Store("RD_HI", 0), Store("RD_COMMIT", 0) >>

VerifyWZero == << Store("SNAPSHOT", 0), Load("READ_WR", "zero") >>

\* One store for each register group: the three accesses to the threshold,
\* the two to the source mode and the four to the formatters differ in their
\* data only.
SetCoreAndFormatters ==
    << Store("THR2", 0), Store("SOURCE", 0), Store("FORMATTER", 0),
       Load("READ_STATUS", "no_commit_pending") >>

EnableLevels ==
    << Store("CONTROL", 2), Load("READ_STATUS", "ring_writer_on"),
       Store("CONTROL", 3), Load("READ_STATUS", "both_levels_on") >>

\* Mutant: a restart relies on the configuration commit alone.
ScriptWithoutReset ==
    ConfigureRing \o CommitRdZero \o VerifyWZero \o SetCoreAndFormatters
    \o EnableLevels

Script == ResetTransport \o ConfigureRing \o CommitRdZero \o VerifyWZero
          \o SetCoreAndFormatters \o EnableLevels

Enabled == Len(Script) + 1
Closing == Len(Script) + 2
ArmStep == Len(Script) - 3

Meets(what, data) ==
    CASE what = "both_levels_off" -> data % 4 = 0
      [] what = "ring_writer_on"  -> data % 4 = 2
      [] what = "both_levels_on"  -> data % 4 = 3
      [] what = "ring_configured" -> (data \div 4) % 2 = 1
      [] what = "no_commit_pending" -> data \div 8 = 0
      [] what = "writer_idle"     -> data = 1
      [] what = "zero"            -> data = 0
      [] what = "nothing"         -> TRUE

Stepping == host.pc \in 1 .. Len(Script) \cup {Closing}
Current == IF host.pc = Closing THEN Store("CONTROL", 0) ELSE Script[host.pc]

\* What is read again until the poll budget runs out.
Polled == {"writer_idle", "no_commit_pending"}

\* The process gives up: it drops both levels and ends.
GiveUp == [host EXCEPT !.pc = Closing, !.gaveUp = Current.require]

\* The process on an edge: it takes the answer to its access.
HostNext(busy) ==
    CASE Stepping /\ bus.state = "RESPOND" /\ host.pc = Closing -> {NoProcess}
      [] Stepping /\ bus.state = "RESPOND" /\ host.pc # Closing ->
           IF Meets(Current.require, bus.data) THEN {[host EXCEPT !.pc = @ + 1]}
           ELSE {GiveUp} \cup IF Current.require \in Polled THEN {host} ELSE {}
      [] host.pc = ArmStep /\ bus.state = "ISSUE" -> {[host EXCEPT !.met = busy]}
      [] OTHER -> {host}

StreamerOps ==
    IF ~Stepping THEN HostOps
    ELSE IF bus.state = "IDLE" THEN {NoOp, Current.op} ELSE {NoOp}

\* An edge of the clock with the streamer, or other software, as the host.
\* The clear from outside is tied off on the board that has a streamer: it
\* makes the states that start-up finds more general, and then is silent.
Tick ==
    \E op \in StreamerOps,
       ext \in IF Stepping THEN {FALSE} ELSE ExternalClear,
       other \in Others, move \in WriterMoves :
        /\ Edge(op, ext, other, move)
        /\ host' \in HostNext(other.busy)

\* The process is killed between two accesses, or has ended.
Kill ==
    /\ host.pc # Idle
    /\ bus.state = "IDLE"
    /\ host' = NoProcess
    /\ UNCHANGED vars

Start ==
    /\ host.pc = Idle
    /\ bus.state = "IDLE"
    /\ host' = [NoProcess EXCEPT !.pc = 1]
    /\ UNCHANGED vars

BringUpInit == Init /\ host = NoProcess

BringUpNext == Tick \/ Kill \/ Start

bringUpVars == <<vars, host>>

BringUpSpec == BringUpInit /\ [][BringUpNext]_bringUpVars

----------------------------------------------------------------------------
\* When the streamer goes on to raise the enable levels, the ring it believes
\* in is the ring the hardware has: its size, both pointers at zero, an open
\* epoch.  It never reads back whether Rd was accepted, and the earlier
\* process may have left the transport in any state.
VerifiedRingIsReal ==
    host.pc \in ArmStep .. Len(Script) =>
        /\ size = ConfigSize /\ W = 0 /\ Rd = 0
        /\ P!PointersValid
        /\ csr.epoch

\* Whatever state an earlier process or another tool left the transport in,
\* no refused access stops a started streamer at a step up to the one that
\* arms the ring writer, with one exception: a replay or a change of the
\* source, also the one start-up has asked for, that is in progress when the
\* writer is armed.  Otherwise start-up ends early only when it has polled in
\* vain, for an idle writer or for its commits to be applied.
RestartReachesArmedWriter ==
    \/ host.gaveUp \in {"nothing", "both_levels_on"} \cup Polled
    \/ host.gaveUp = "ring_writer_on" /\ host.met

\* The bring-up order in the code and in the documents ends with both enable
\* levels on: the write that adds telemetry to an armed ring writer is not
\* refused.
TelemetryFollowsWriter == host.gaveUp # "both_levels_on"
============================================================================
