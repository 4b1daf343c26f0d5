------------------------ MODULE MeasurementCampaign ------------------------
(***************************************************************************)
(* A board power campaign: the runner on the host (run_campaign.py) starts *)
(* the meter capture (capture_sync.ps1), waits until the meter answers,    *)
(* starts the JTAG program that runs the trials (jtag_control.tcl), stops  *)
(* the capture through a file, and admits or rejects what both left        *)
(* behind; the analyzer (analyze_board_measurement.py) later takes the     *)
(* energy of every trial from the rows around it.  At the other end of the *)
(* serial line the firmware (device_code_sync.py) logs in sessions, each   *)
(* with its own sequence, time base and energy baseline; it loses its      *)
(* session on an I/O error and its session number when it restarts.        *)
(*                                                                         *)
(* The serial line delivers whole lines, in order.  Lines that carry only  *)
(* metadata (io_error, sensor_wait) are left out.                          *)
(***************************************************************************)
EXTENDS Integers, Sequences, FiniteSets

CONSTANT Trials         \* four times --blocks

VARIABLES
    dev,        \* the firmware: its state and session_index; "inc", not in the
                \* code, numbers its sessions without ever starting again
    asked,      \* SYNC lines on their way to the firmware
    wire,       \* lines on their way to the host; the "inc" of a line is the
                \* session whose rows may follow it
    seen,       \* not in the code: the session of the last line off the wire
    cap,        \* the capture process
    jtag,       \* the JTAG process and the trials it has logged
    host,       \* the runner
    now         \* the time, for the events whose order matters

vars == <<dev, asked, wire, seen, cap, jtag, host, now>>
deviceVars == <<dev, asked, wire, seen>>

----------------------------------------------------------------------------
(* The firmware.                                                           *)

Line(kind, inc, idx, token) ==
    [kind |-> kind, inc |-> inc, idx |-> idx, at |-> now, token |-> token]

\* main reaches run_session: the announcement of a new session, and the header
\* after which its rows follow.
DeviceSession ==
    /\ dev.state # "session"
    /\ dev' = [state |-> "session", inc |-> dev.inc + 1, idx |-> dev.idx + 1]
    /\ wire' = wire \o <<Line("start", dev.inc, dev.idx + 1, 0),
                         Line("header", dev.inc + 1, dev.idx + 1, 0)>>
    /\ UNCHANGED <<asked, seen, cap, jtag, host, now>>

\* An OSError in a session, or before one is announced, which may have cost a
\* session number: main retries.
DeviceError ==
    /\ \/ dev.state = "session" /\ dev' = [dev EXCEPT !.state = "wait"]
       \/ /\ dev.state # "session"
          /\ \E n \in {0, 1} : dev' = [dev EXCEPT !.state = "wait", !.idx = @ + n]
    /\ UNCHANGED <<asked, wire, seen, cap, jtag, host, now>>

DeviceRow ==
    /\ dev.state = "session"
    /\ wire' = Append(wire, Line("row", dev.inc, dev.idx, 0))
    /\ now' = now + 1
    /\ UNCHANGED <<dev, asked, seen, cap, jtag, host>>

\* poll_sync answers a SYNC line, with the number of the running session.
DeviceReply ==
    /\ dev.state = "session" /\ asked # <<>>
    /\ asked' = Tail(asked)
    /\ wire' = Append(wire, Line("sync", dev.inc, dev.idx, Head(asked)))
    /\ UNCHANGED <<dev, seen, cap, jtag, host, now>>

\* code.py starts again: session numbers begin at one again.
DeviceRestart ==
    /\ dev' = [dev EXCEPT !.state = "boot", !.idx = 0]
    /\ asked' = <<>>
    /\ UNCHANGED <<wire, seen, cap, jtag, host, now>>

----------------------------------------------------------------------------
(* The capture process.                                                    *)

Running(p) == p.state \notin {"none", "exited"}

NoCapture == [state |-> "none", rows |-> {}, replies |-> {}, pending |-> {}, tokens |-> 0,
              sessions |-> 0, session |-> 0, sample |-> 0, ok |-> FALSE, byFile |-> FALSE,
              opened |-> 0, closed |-> 0]

\* The first k lines on the wire are lost.
Lose(k) ==
    /\ wire' = SubSeq(wire, k + 1, Len(wire))
    /\ seen' = IF k = 0 THEN seen ELSE wire[k].inc

\* Nobody has the port open.
PortDrops ==
    /\ cap.state \notin {"open", "last"}
    /\ \E k \in 1 .. Len(wire) : Lose(k)
    /\ UNCHANGED <<dev, asked, cap, jtag, host, now>>

\* -Restart: interrupt, throw away what arrives for a while, restart the
\* firmware.  What the drain has not seen is parsed later.
CaptureOpen ==
    /\ cap.state = "starting" /\ ~host.stopFile
    /\ \E k \in 0 .. Len(wire) : Lose(k)
    /\ dev' = [dev EXCEPT !.state = "boot", !.idx = 0]
    /\ asked' = <<>>
    /\ cap' = [cap EXCEPT !.state = "open", !.opened = now]
    /\ now' = now + 1
    /\ UNCHANGED <<jtag, host>>

\* Send-ClockSync, once there are rows.
CaptureAsk ==
    /\ cap.state = "open" /\ cap.rows # {}
    /\ asked' = Append(asked, cap.tokens + 1)
    /\ cap' = [cap EXCEPT !.tokens = @ + 1, !.pending = @ \cup {cap.tokens + 1}]
    /\ UNCHANGED <<dev, wire, seen, jtag, host, now>>

\* Receive-Line.  A row without a header opens a CSV session of its own.
Parsed(m) ==
    CASE m.kind = "start" -> [cap EXCEPT !.session = m.idx]
      [] m.kind = "header" -> [cap EXCEPT !.sessions = @ + 1]
      [] m.kind = "row" ->
           [cap EXCEPT !.sessions = IF @ = 0 THEN 1 ELSE @,
                       !.rows = @ \cup {[inc |-> m.inc, at |-> m.at]},
                       !.sample = cap.session]
      [] OTHER -> [cap EXCEPT !.replies = @ \cup {[inc |-> m.inc, idx |-> m.idx, token |-> m.token]},
                              !.pending = @ \ {m.token}]

CaptureLine ==
    /\ cap.state \in {"open", "last"} /\ wire # <<>>
    /\ Head(wire).kind = "sync" => Head(wire).token \in cap.pending
    /\ cap' = Parsed(Head(wire))
    /\ seen' = Head(wire).inc
    /\ wire' = Tail(wire)
    /\ UNCHANGED <<dev, asked, jtag, host, now>>

\* The loop ends at the StopFile or at the time limit; what is buffered is
\* still read once.
CaptureStops(byFile) ==
    /\ cap.state = "open"
    /\ byFile => host.stopFile
    /\ cap' = [cap EXCEPT !.state = "last", !.byFile = byFile, !.closed = now]
    /\ now' = now + 1
    /\ UNCHANGED <<deviceVars, jtag, host>>

Exited(ok) == cap' = [cap EXCEPT !.state = "exited", !.ok = ok]

CaptureExits ==
    /\ cap.state = "last" /\ cap.rows # {}
    /\ Exited(TRUE)
    /\ UNCHANGED <<deviceVars, jtag, host, now>>

\* A lost port, an illegal line, no rows, an unknown reply, a kill.
CaptureFails ==
    /\ Running(cap)
    /\ Exited(FALSE)
    /\ UNCHANGED <<deviceVars, jtag, host, now>>

Capture ==
    \/ PortDrops \/ CaptureOpen \/ CaptureAsk \/ CaptureLine
    \/ \E byFile \in BOOLEAN : CaptureStops(byFile)
    \/ CaptureExits \/ CaptureFails

----------------------------------------------------------------------------
(* The JTAG program: one trial after the other, each logged when the       *)
(* engine reports it done.                                                 *)

NoJtag == [state |-> "none", code |-> 0, begun |-> 0, busy |-> FALSE, trials |-> <<>>]

JtagLaunch ==
    /\ jtag.state = "running" /\ ~jtag.busy /\ Len(jtag.trials) < Trials
    /\ jtag' = [jtag EXCEPT !.busy = TRUE, !.begun = now]
    /\ now' = now + 1
    /\ UNCHANGED <<deviceVars, cap, host>>

JtagCompletes ==
    /\ jtag.state = "running" /\ jtag.busy
    /\ jtag' = [jtag EXCEPT !.busy = FALSE, !.trials = Append(@, [begun |-> jtag.begun, done |-> now])]
    /\ now' = now + 1
    /\ UNCHANGED <<deviceVars, cap, host>>

JtagExits(code) ==
    /\ jtag.state = "running"
    /\ code = 0 => ~jtag.busy /\ Len(jtag.trials) = Trials
    /\ jtag' = [jtag EXCEPT !.state = "exited", !.code = code]
    /\ UNCHANGED <<deviceVars, cap, host, now>>

Jtag == JtagLaunch \/ JtagCompletes \/ \E code \in {0, 1} : JtagExits(code)

----------------------------------------------------------------------------
(* The runner.  "handles" are the processes main has in a variable.        *)

NoHost == [pc |-> "start", status |-> "starting", handles |-> {}, stopFile |-> FALSE,
           errors |-> FALSE]

Goto(pc) == host' = [host EXCEPT !.pc = pc]

\* An exception after Popen and before the assignment loses the handle.
Fail(handles) == host' = [host EXCEPT !.pc = "clean_jtag", !.status = "failed", !.handles = handles]

HostStartsCapture ==
    /\ host.pc = "start"
    /\ cap' = [cap EXCEPT !.state = "starting"]
    /\ \/ host' = [host EXCEPT !.pc = "ready", !.handles = {"capture"}]
       \/ Fail({})
    /\ UNCHANGED <<deviceVars, jtag, now>>

\* The capture is alive, has a row and two replies, all of one session number.
Ready ==
    /\ Running(cap) /\ cap.rows # {} /\ Cardinality(cap.replies) >= 2
    /\ \A r \in cap.replies : r.idx = cap.sample

HostStartsJtag ==
    /\ host.pc = "ready" /\ Ready
    /\ jtag' = [jtag EXCEPT !.state = "running"]
    /\ \/ host' = [host EXCEPT !.pc = "run", !.handles = @ \cup {"jtag"}]
       \/ Fail(host.handles)
    /\ UNCHANGED <<deviceVars, cap, now>>

HostSeesJtagEnd ==
    /\ host.pc = "run" /\ jtag.state = "exited" /\ jtag.code = 0
    /\ Goto("padding")
    /\ UNCHANGED <<deviceVars, cap, jtag, now>>

\* Five seconds of padding; the capture is still alive at a look in them.
HostPads ==
    /\ host.pc = "padding" /\ Running(cap)
    /\ Goto("request")
    /\ UNCHANGED <<deviceVars, cap, jtag, now>>

HostRequestsStop ==
    /\ host.pc = "request"
    /\ host' = [host EXCEPT !.pc = "stop", !.stopFile = TRUE]
    /\ UNCHANGED <<deviceVars, cap, jtag, now>>

\* validate_capture and the admission of the trials.
Admissible ==
    /\ cap.state = "exited" /\ cap.ok /\ cap.byFile
    /\ Cardinality(cap.rows) >= 3 /\ Cardinality(cap.replies) >= 2
    /\ cap.sessions = 1
    /\ \A r, s \in cap.replies : r.idx = s.idx
    /\ Len(jtag.trials) = Trials

HostAdmits ==
    /\ host.pc = "stop" /\ Admissible
    /\ host' = [host EXCEPT !.pc = "clean_jtag", !.status = "pass"]
    /\ UNCHANGED <<deviceVars, cap, jtag, now>>

\* Any check that fails, a timeout, an interrupt.
HostFails ==
    /\ host.pc \in {"start", "ready", "run", "padding", "request", "stop"}
    /\ Fail(host.handles)
    /\ UNCHANGED <<deviceVars, cap, jtag, now>>

CleanupError(pc) == host' = [host EXCEPT !.pc = pc, !.status = "failed", !.errors = TRUE]

\* The finally block: a JTAG program still running is terminated, ...
HostCleansJtag ==
    /\ host.pc = "clean_jtag"
    /\ \/ "jtag" \in host.handles /\ Running(jtag)
          /\ \/ jtag' = [jtag EXCEPT !.state = "exited", !.code = 1] /\ Goto("clean_capture")
             \/ UNCHANGED jtag /\ CleanupError("clean_capture")
       \/ ~("jtag" \in host.handles /\ Running(jtag)) /\ UNCHANGED jtag /\ Goto("clean_capture")
    /\ UNCHANGED <<deviceVars, cap, now>>

\* ... a capture is asked to stop, waited for, and terminated if it does not.
HostCleansCapture ==
    /\ host.pc = "clean_capture"
    /\ \/ /\ "capture" \in host.handles /\ Running(cap)
          /\ \/ host' = [host EXCEPT !.pc = "clean_wait", !.stopFile = TRUE]
             \/ CleanupError("done")
       \/ ~("capture" \in host.handles /\ Running(cap)) /\ Goto("done")
    /\ UNCHANGED <<deviceVars, cap, jtag, now>>

HostWaits ==
    /\ host.pc = "clean_wait"
    /\ \/ ~Running(cap) /\ UNCHANGED cap /\ Goto("done")
       \/ Running(cap) /\ Exited(FALSE) /\ Goto("done")
       \/ Running(cap) /\ UNCHANGED cap /\ CleanupError("done")
    /\ UNCHANGED <<deviceVars, jtag, now>>

\* The runner is killed; a pass is already in the manifest on disk.
HostDies ==
    /\ host.pc \notin {"done", "dead", "analysed"}
    /\ Goto("dead")
    /\ UNCHANGED <<deviceVars, cap, jtag, now>>

\* EnergyTrace.endpoint for both ends of every admitted trial, or no result.
Analyze ==
    /\ host.pc \in {"done", "dead"} /\ host.status = "pass"
    /\ \A i \in 1 .. Len(jtag.trials) :
          /\ \E r \in cap.rows : r.at < jtag.trials[i].begun
          /\ \E r \in cap.rows : r.at > jtag.trials[i].done
    /\ Goto("analysed")
    /\ UNCHANGED <<deviceVars, cap, jtag, now>>

Host ==
    \/ HostStartsCapture \/ HostStartsJtag \/ HostSeesJtagEnd \/ HostPads \/ HostRequestsStop
    \/ HostAdmits \/ HostFails \/ HostCleansJtag \/ HostCleansCapture \/ HostWaits \/ HostDies
    \/ Analyze

Device == DeviceSession \/ DeviceError \/ DeviceRow \/ DeviceReply \/ DeviceRestart

Init ==
    /\ dev = [state |-> "boot", inc |-> 0, idx |-> 0]
    /\ asked = <<>> /\ wire = <<>> /\ seen = 0
    /\ cap = NoCapture /\ jtag = NoJtag /\ host = NoHost /\ now = 1

Next == Device \/ Capture \/ Jtag \/ Host

Spec == Init /\ [][Next]_vars

----------------------------------------------------------------------------
\* The rows and the clock replies of an admitted capture are all of one
\* session of the firmware, although two sessions can carry the same number.
OneMeterSession ==
    host.status = "pass" =>
        \A r, s \in cap.rows \cup cap.replies : r.inc = s.inc

\* Every analysed trial lies between two rows of one session.
TrialsAreMetered ==
    host.pc = "analysed" =>
        \A i \in 1 .. Len(jtag.trials) :
            \E r, s \in cap.rows : /\ r.inc = s.inc
                                   /\ r.at < jtag.trials[i].begun
                                   /\ jtag.trials[i].done < s.at

\* An admitted capture ran from before the first trial to after the last.
CaptureSpansTrials ==
    host.status = "pass" =>
        \A i \in 1 .. Len(jtag.trials) :
            cap.opened < jtag.trials[i].begun /\ jtag.trials[i].done < cap.closed

\* A runner that ends leaves no process it knows behind without recording a
\* failure, and after a pass none at all.
NoChildLeft ==
    /\ host.pc = "done" /\ ~host.errors =>
         /\ "jtag" \in host.handles => ~Running(jtag)
         /\ "capture" \in host.handles => ~Running(cap)
    /\ host.errors => host.status = "failed"
    /\ host.status = "pass" => ~Running(jtag) /\ ~Running(cap)
============================================================================
