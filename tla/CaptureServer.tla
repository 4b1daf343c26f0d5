---------------------------- MODULE CaptureServer ----------------------------
(***************************************************************************)
(* The TSH2 visualizer (profiles/tsh2/work/trecap_visualizer_v01): HTTP    *)
(* handlers accept capture jobs into a queue of one, a single worker runs  *)
(* them on the board through a service that serves one request and exits,  *)
(* and the store keeps every verified capture on disk and the newest of    *)
(* each threshold in memory.  The board is shared: another tool may start  *)
(* the same service on the same port, the service may die at any point, the*)
(* board may reboot, and the server itself may be killed and restarted.    *)
(* One recording is modelled; a threshold stands for a pair (recording,    *)
(* threshold), and 0 for the baseline capture every result is compared to. *)
(***************************************************************************)
EXTENDS Integers, Sequences, FiniteSetsExt

CONSTANTS
    Thresholds,     \* thresholds a request may name; 0 is the baseline
    MaxJobs,        \* bound: jobs accepted, over all server processes
    MaxRuns,        \* bound: services the server starts
    MaxStarts,      \* bound: server processes started
    MaxForeign,     \* bound: steps other tools take on the board
    MaxReboots      \* bound: board reboots

ASSUME CaptureAssumption ==
    /\ Thresholds \subseteq Nat /\ 0 \in Thresholds
    /\ {MaxJobs, MaxRuns, MaxStarts, MaxForeign, MaxReboots} \subseteq Nat

VARIABLES
    server,     \* the process: up, closed, pending, active, available
    jobs,       \* JobQueue.jobs, by the order of acceptance
    worker,     \* the worker thread and the capture it is running
    latest,     \* CaptureStore.latest: threshold -> newest capture
    disk,       \* captures/*/capture.json
    services,   \* service.arm processes ever started on the board
    txns,       \* FPGA transactions of the deployed boot, in order
    boot,       \* the board's boot id
    faulted,    \* a capture failed since the last explicit admission
    budget      \* jobs, services, server starts and foreign steps so far

vars == <<server, jobs, worker, latest, disk, services, txns, boot, faulted, budget>>
boardVars == <<services, txns, boot>>
storeVars == <<latest, disk>>

-----------------------------------------------------------------------------
(* The board.                                                              *)

Deployed == 1

\* The FPGA's transaction counter, read while the deployed boot runs.
Epoch == Len(txns)

\* idle(): no listener and no capture process.
BoardIdle == \A i \in DOMAIN services : services[i].state = "exited"

\* _verify: first the boot id and the process list, then the hashes of the
\* tools in the board's RAM disk and the read-only FPGA probe.
Preflight == boot = Deployed /\ BoardIdle
Probe == boot = Deployed

NewService(owner, requests) ==
    [owner |-> owner, state |-> "starting", left |-> requests, rc |-> 2,
     by |-> "none", thr |-> 0, log |-> <<>>]

Move(i, state) == services' = [services EXCEPT ![i].state = state]

\* A service that ended without success leaves a non-zero exit code.
Broken(s) == [NewService(s.owner, 0) EXCEPT !.state = "exited"]

\* main() of service.c: one process holds /dev/mem and the port.
ServiceListens(i) ==
    /\ services[i].state = "starting"
    /\ boot = Deployed
    /\ \A j \in DOMAIN services : services[j].state \notin {"listening", "busy", "served"}
    /\ Move(i, "listening")
    /\ UNCHANGED <<server, jobs, worker, storeVars, txns, boot, faulted, budget>>

\* A refused lock or port, a deadline, the 60 s alarm or the 65 s kill.
ServiceEnds(i) ==
    /\ services[i].state # "exited"
    /\ services' = [services EXCEPT ![i] = Broken(@)]
    /\ UNCHANGED <<server, jobs, worker, storeVars, txns, boot, faulted, budget>>

\* A transaction that failed or left inexact data.
Wrong == [by |-> "none", run |-> 0, thr |-> 0]

\* serve_one: the FPGA runs the request in a new epoch; the reply reaches the
\* client if it still waits on this connection.  The FPGA's data may be bad.
ServiceServes(i, good) ==
    LET s == services[i]
        reply == [ok |-> TRUE, epoch |-> Epoch + 1, good |-> good]
    IN  /\ s.state = "busy"
        /\ txns' = Append(txns, IF good THEN [by |-> s.by, run |-> i, thr |-> s.thr] ELSE Wrong)
        /\ services' = [services EXCEPT ![i].state = "served",
                                        ![i].log = Append(@, [thr |-> s.thr, epoch |-> Epoch + 1])]
        /\ worker' = IF s.by = "server" /\ worker.conn = i
                     THEN [worker EXCEPT !.reply = reply] ELSE worker
        /\ UNCHANGED <<server, jobs, storeVars, boot, faulted, budget>>

\* timed_run fails after the epoch began: status 1, and the service ends.
ServiceRunFails(i) ==
    /\ services[i].state = "busy"
    /\ txns' = Append(txns, Wrong)
    /\ services' = [services EXCEPT ![i] = Broken(@)]
    /\ UNCHANGED <<server, jobs, worker, storeVars, boot, faulted, budget>>

\* After a served request the service listens again or, after its last, exits 0.
ServiceCompletes(i) ==
    /\ services[i].state = "served"
    /\ services' = [services EXCEPT ![i].left = @ - 1,
                                    ![i].state = IF services[i].left = 1 THEN "exited" ELSE "listening",
                                    ![i].rc = IF services[i].left = 1 THEN 0 ELSE @]
    /\ UNCHANGED <<server, jobs, worker, storeVars, txns, boot, faulted, budget>>

\* Another tool of the project starts the service for two requests, and
\* another client sends a request to whatever service listens.
ForeignStarts ==
    /\ budget.foreign < MaxForeign
    /\ services' = Append(services, NewService("foreign", 2))
    /\ budget' = [budget EXCEPT !.foreign = @ + 1]
    /\ UNCHANGED <<server, jobs, worker, storeVars, txns, boot, faulted>>

ForeignRequests(i) ==
    /\ budget.foreign < MaxForeign
    /\ services[i].state = "listening"
    /\ services' = [services EXCEPT ![i].state = "busy", ![i].by = "foreign", ![i].thr = 0]
    /\ budget' = [budget EXCEPT !.foreign = @ + 1]
    /\ UNCHANGED <<server, jobs, worker, storeVars, txns, boot, faulted>>

Reboot ==
    /\ boot <= MaxReboots
    /\ boot' = boot + 1
    /\ services' = [i \in DOMAIN services |-> Broken(services[i])]
    /\ UNCHANGED <<server, jobs, worker, storeVars, txns, faulted, budget>>

-----------------------------------------------------------------------------
(* The queue: HTTP handlers and the remote gateway.                        *)

NoReply == [ok |-> FALSE, epoch |-> 0, good |-> FALSE]
NewWorker == [pc |-> "wait", thr |-> 0, run |-> 0, epoch |-> 0, conn |-> 0, reply |-> NoReply]

QueueIdle == server.active = 0 /\ server.pending = 0

\* Of a job that ended only its status is read again.
Past(job, status) == [thr |-> 0, force |-> FALSE, remote |-> job.remote, status |-> status]

\* "superseded" carries one of three messages: a newer selection, the owner's
\* pause, the stopping server.
Supersede(why) ==
    IF server.pending = 0 THEN jobs ELSE [jobs EXCEPT ![server.pending] = Past(@, why)]

Job(thr, force, remote) ==
    [thr |-> thr, force |-> force, remote |-> remote, status |-> "queued"]

PendingMayBeReplaced == FALSE
PendingIsRemote == server.pending # 0 /\ jobs[server.pending].remote

Accept(job) ==
    /\ server.up /\ ~server.closed
    /\ ~PendingIsRemote
    /\ budget.jobs < MaxJobs
    /\ jobs' = Append(Supersede("replaced"), job)
    /\ server' = [server EXCEPT !.pending = Len(jobs) + 1]
    /\ budget' = [budget EXCEPT !.jobs = @ + 1]
    /\ UNCHANGED <<worker, storeVars, boardVars, faulted>>

Submit(thr, force) == Accept(Job(thr, force, FALSE))

SubmitRemote(thr) == QueueIdle /\ Accept(Job(thr, TRUE, TRUE))

CancelRemotePending ==
    /\ server.up
    /\ PendingIsRemote
    /\ jobs' = Supersede("paused")
    /\ server' = [server EXCEPT !.pending = 0]
    /\ UNCHANGED <<worker, storeVars, boardVars, faulted, budget>>

\* /api/connect: the explicit admission after a failure; it may fail itself.
Reconnect(ok) ==
    /\ server.up /\ QueueIdle
    /\ ok => Preflight /\ Probe
    /\ server' = [server EXCEPT !.available = ok]
    /\ faulted' = ~ok
    /\ UNCHANGED <<jobs, worker, storeVars, boardVars, budget>>

\* /api/shutdown, and close() on any way out of serve_forever.
Shutdown ==
    /\ server.up /\ QueueIdle
    /\ server' = [server EXCEPT !.closed = TRUE]
    /\ UNCHANGED <<jobs, worker, storeVars, boardVars, faulted, budget>>

Close ==
    /\ server.up
    /\ server' = [server EXCEPT !.closed = TRUE, !.pending = 0]
    /\ jobs' = Supersede("stopped")
    /\ UNCHANGED <<worker, storeVars, boardVars, faulted, budget>>

\* The process ends: after close() joined the worker, after its 80 s, or
\* killed at any moment.  What is in memory is gone.
ProcessEnds ==
    /\ server.up
    /\ server' = [up |-> FALSE, closed |-> FALSE, pending |-> 0, active |-> 0, available |-> FALSE]
    /\ jobs' = <<>>
    /\ worker' = [NewWorker EXCEPT !.pc = "gone"]
    /\ latest' = <<>>
    /\ UNCHANGED <<disk, boardVars, faulted, budget>>

\* App.__init__: captures are restored by time, then by epoch.
RestoredNewestFirst(a, b) == b.epoch < a.epoch
RestoredBefore(a, b) == a.at < b.at \/ (a.at = b.at /\ a.epoch < b.epoch)

\* Of each threshold the last one stays.
Restore ==
    [t \in {c.thr : c \in disk} |->
        CHOOSE c \in disk :
            c.thr = t /\ \A d \in disk : d.thr = t => ~RestoredBefore(c, d)]

\* main(): admit the board, restore the captures, start the worker.
ServerStarts(ok) ==
    /\ ~server.up
    /\ budget.starts < MaxStarts
    /\ ok => Preflight /\ Probe
    /\ server' = [up |-> TRUE, closed |-> FALSE, pending |-> 0, active |-> 0, available |-> ok]
    /\ faulted' = ~ok
    /\ latest' = Restore
    /\ worker' = NewWorker
    /\ budget' = [budget EXCEPT !.starts = @ + 1]
    /\ UNCHANGED <<jobs, disk, boardVars>>

-----------------------------------------------------------------------------
(* The worker.                                                             *)

Current == jobs[server.active]
At(pc) == worker.pc = pc
Goto(pc) == worker' = [worker EXCEPT !.pc = pc]
Finished(status) == jobs' = [jobs EXCEPT ![server.active] = Past(@, status)]

WorkerTakes ==
    /\ At("wait") /\ server.pending # 0
    /\ server' = [server EXCEPT !.active = server.pending, !.pending = 0]
    /\ jobs' = [jobs EXCEPT ![server.pending].status = "running"]
    /\ Goto("work")
    /\ UNCHANGED <<storeVars, boardVars, faulted, budget>>

WorkerLeaves ==
    /\ At("wait") /\ server.closed /\ server.pending = 0
    /\ Goto("gone")
    /\ UNCHANGED <<server, jobs, storeVars, boardVars, faulted, budget>>

Have(thr) == thr \in DOMAIN latest

\* A result is built from the capture and the baseline.
Reusable == ~Current.force /\ Have(Current.thr) /\ Have(0)

WorkReuses ==
    /\ At("work") /\ Reusable
    /\ Goto("bundle")
    /\ UNCHANGED <<server, jobs, storeVars, boardVars, faulted, budget>>

WorkRefused ==
    /\ At("work") /\ ~Reusable /\ ~server.available
    /\ Finished("failed")
    /\ Goto("save")
    /\ UNCHANGED <<server, storeVars, boardVars, faulted, budget>>

Pass(thr) == worker' = [NewWorker EXCEPT !.pc = "preflight", !.thr = thr]

WorkCaptures ==
    /\ At("work") /\ ~Reusable /\ server.available
    /\ Pass(IF Have(0) THEN Current.thr ELSE 0)
    /\ UNCHANGED <<server, jobs, storeVars, boardVars, faulted, budget>>

\* Hardware.capture.  A step that does not get what it needs fails the capture
\* (CaptureFails), so each step below only says when it goes on.
CapturePreflight ==
    /\ At("preflight") /\ Preflight
    /\ Goto("probe")
    /\ UNCHANGED <<server, jobs, storeVars, boardVars, faulted, budget>>

CaptureProbe ==
    /\ At("probe") /\ Probe
    /\ worker' = [worker EXCEPT !.pc = "start", !.epoch = Epoch]
    /\ server' = [server EXCEPT !.available = TRUE]
    /\ UNCHANGED <<jobs, storeVars, boardVars, faulted, budget>>

CaptureStart ==
    /\ At("start") /\ budget.runs < MaxRuns
    /\ services' = Append(services, NewService("server", 1))
    /\ worker' = [worker EXCEPT !.pc = "connect", !.run = Len(services) + 1]
    /\ budget' = [budget EXCEPT !.runs = @ + 1]
    /\ UNCHANGED <<server, jobs, storeVars, txns, boot, faulted>>

\* The port does not say whose service accepts the connection.
CaptureConnect(i) ==
    /\ At("connect") /\ services[i].state = "listening"
    /\ services' = [services EXCEPT ![i].state = "busy", ![i].by = "server", ![i].thr = worker.thr]
    /\ worker' = [worker EXCEPT !.pc = "reply", !.conn = i]
    /\ UNCHANGED <<server, jobs, storeVars, txns, boot, faulted, budget>>

ReplyAccepted == worker.reply.ok /\ worker.reply.epoch = worker.epoch + 1

CaptureReply ==
    /\ At("reply") /\ ReplyAccepted
    /\ worker' = [worker EXCEPT !.pc = "finish", !.conn = 0]
    /\ UNCHANGED <<server, jobs, storeVars, boardVars, faulted, budget>>

\* The run's own exit code and log must agree with the reply.
ServiceNotAsked == boot = Deployed
ServiceAgrees ==
    LET s == services[worker.run]
    IN  /\ boot = Deployed /\ s.state = "exited" /\ s.rc = 0
        /\ s.log = <<[thr |-> worker.thr, epoch |-> worker.reply.epoch]>>

CaptureFinish ==
    /\ At("finish") /\ ServiceAgrees
    /\ Goto("final_preflight")
    /\ UNCHANGED <<server, jobs, storeVars, boardVars, faulted, budget>>

CaptureFinalPreflight ==
    /\ At("final_preflight") /\ Preflight
    /\ Goto("final_probe")
    /\ UNCHANGED <<server, jobs, storeVars, boardVars, faulted, budget>>

SameEpoch == Epoch = worker.reply.epoch

CaptureFinalProbe ==
    /\ At("final_probe") /\ Probe /\ SameEpoch
    /\ Goto("register")
    /\ UNCHANGED <<server, jobs, storeVars, boardVars, faulted, budget>>

\* The board is latched unavailable and the job fails.
Latch(status) ==
    /\ server' = [server EXCEPT !.available = FALSE]
    /\ faulted' = TRUE
    /\ Finished(status)
    /\ worker' = [NewWorker EXCEPT !.pc = "save"]
    /\ UNCHANGED <<storeVars, boardVars, budget>>

CaptureFails ==
    /\ worker.pc \in {"preflight", "probe", "start", "connect", "reply", "finish",
                      "final_preflight", "final_probe"}
    /\ Latch("failed")

\* register_capture: exact against the reference, then written, manifest last.
Clock == Max({0} \cup {c.at : c \in disk})

Register(tick) ==
    LET capture == [run |-> worker.run, thr |-> worker.thr, admitted |-> worker.epoch,
                    epoch |-> worker.reply.epoch, at |-> Clock + tick]
    IN  /\ At("register") /\ worker.reply.good
        /\ disk = {} => tick = 1
        /\ disk' = disk \cup {capture}
        /\ latest' = [t \in DOMAIN latest \cup {worker.thr} |-> IF t = worker.thr THEN capture ELSE latest[t]]
        /\ IF worker.thr = Current.thr THEN Goto("bundle") ELSE Pass(Current.thr)
        /\ UNCHANGED <<server, jobs, boardVars, faulted, budget>>

RegisterFailsQuietly ==
    /\ At("register")
    /\ faulted' = TRUE
    /\ Finished("failed")
    /\ worker' = [NewWorker EXCEPT !.pc = "save"]
    /\ UNCHANGED <<server, storeVars, boardVars, budget>>
RegisterFails == At("register") /\ Latch("failed")

Bundle(status) ==
    /\ At("bundle")
    /\ Finished(status)
    /\ Goto("save")
    /\ UNCHANGED <<server, storeVars, boardVars, faulted, budget>>

\* The finally block: an exception of save() ends the thread.
Save ==
    /\ At("save")
    /\ server' = [server EXCEPT !.active = 0]
    /\ worker' = NewWorker
    /\ UNCHANGED <<jobs, storeVars, boardVars, faulted, budget>>

SaveFails ==
    /\ At("save")
    /\ Goto("dead")
    /\ UNCHANGED <<server, jobs, storeVars, boardVars, faulted, budget>>

-----------------------------------------------------------------------------
Init ==
    /\ server = [up |-> FALSE, closed |-> FALSE, pending |-> 0, active |-> 0, available |-> FALSE]
    /\ jobs = <<>>
    /\ worker = [NewWorker EXCEPT !.pc = "gone"]
    /\ latest = <<>>
    /\ disk = {}
    /\ services = <<>> /\ txns = <<>> /\ boot = Deployed
    /\ faulted = FALSE
    /\ budget = [jobs |-> 0, runs |-> 0, starts |-> 0, foreign |-> 0]

Capture ==
    \/ CapturePreflight \/ CaptureProbe \/ CaptureStart \/ CaptureReply
    \/ \E i \in DOMAIN services : CaptureConnect(i)
    \/ CaptureFinish \/ CaptureFinalPreflight \/ CaptureFinalProbe \/ CaptureFails

WorkerStep ==
    \/ WorkerTakes \/ WorkerLeaves
    \/ WorkReuses \/ WorkRefused \/ WorkCaptures
    \/ Capture
    \/ \E tick \in {0, 1} : Register(tick)
    \/ RegisterFails
    \/ \E status \in {"complete", "failed"} : Bundle(status)
    \/ Save \/ SaveFails

Handlers ==
    \/ \E thr \in Thresholds, force \in BOOLEAN : Submit(thr, force)
    \/ \E thr \in Thresholds : SubmitRemote(thr)
    \/ CancelRemotePending
    \/ \E ok \in BOOLEAN : Reconnect(ok)
    \/ Shutdown

Process ==
    \/ Close \/ ProcessEnds
    \/ \E ok \in BOOLEAN : ServerStarts(ok)

Board ==
    \/ \E i \in DOMAIN services :
         \/ ServiceListens(i) \/ ServiceEnds(i) \/ ServiceRunFails(i) \/ ServiceCompletes(i)
         \/ \E good \in BOOLEAN : ServiceServes(i, good)
         \/ ForeignRequests(i)
    \/ ForeignStarts \/ Reboot

Next == WorkerStep \/ Handlers \/ Process \/ Board

\* The worker is a thread whose every board access has a deadline.
Spec == Init /\ [][Next]_vars /\ WF_vars(WorkerStep)

-----------------------------------------------------------------------------
\* A capture the store keeps is the one transaction the board ran between the
\* two admissions of hardware.py's capture(), by the service that capture
\* started, for its own request and with exact data: whatever other tools, a
\* service that outlives a failed capture, or a killed server did meanwhile.
CaptureIsOwn ==
    \A c \in disk :
        /\ c.epoch = c.admitted + 1
        /\ txns[c.epoch] = [by |-> "server", run |-> c.run, thr |-> c.thr]

\* "No ... automatic fault recovery" (hardware.py): after a failed capture or a
\* failed reference check the server starts no service on the board before an
\* explicit reconnect or restart has admitted the board again.
NoAutomaticRecovery ==
    [][(worker.run # worker'.run /\ worker'.run # 0) => ~faulted]_vars

\* The result the server offers for a threshold is that of the newest capture,
\* also after a restart that restored the captures from disk (App.__init__).
LatestIsNewest ==
    server.up => \A c \in disk : Have(c.thr) /\ c.epoch <= latest[c.thr].epoch

\* Every accepted job ends, and a remote one is never replaced by a newer local
\* selection: it runs unless its owner pauses or the server stops.  A worker
\* that died saving a job, and a process that ended, are excepted.
Ended(job) ==
    \/ job.status \in {"complete", "failed", "paused", "stopped"}
    \/ job.status = "replaced" /\ ~job.remote

JobsEnd ==
    \A i \in 1..MaxJobs :
        (i \in DOMAIN jobs) ~> (~server.up \/ At("dead") \/ (i \in DOMAIN jobs /\ Ended(jobs[i])))
=============================================================================
