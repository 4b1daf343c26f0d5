------------------------ MODULE CaptureServerProofs ------------------------
(***************************************************************************)
(* What the capture server keeps, and that it never recovers on its own,   *)
(* for every set of thresholds and any number of jobs, services, restarts, *)
(* reboots and steps of other tools.                                       *)
(***************************************************************************)
EXTENDS CaptureServer, SequenceTheorems, TLAPS

----------------------------------------------------------------------------
(* Types.                                                                  *)

Capturing == {"preflight", "probe", "start", "connect", "reply", "finish",
              "final_preflight", "final_probe", "register"}
Working == Capturing \cup {"work", "bundle", "save", "dead"}
Statuses == {"queued", "running", "complete", "failed", "replaced", "paused", "stopped"}
Callers == {"none", "server", "foreign"}

JobSet == [thr : Thresholds, force : BOOLEAN, remote : BOOLEAN, status : Statuses]
ReplySet == [ok : BOOLEAN, epoch : Nat, good : BOOLEAN]
WorkerSet == [pc : Working \cup {"wait", "gone"}, thr : Thresholds, run : Nat,
              epoch : Nat, conn : Nat, reply : ReplySet]
LogSet == [thr : Thresholds, epoch : Nat]
TxnSet == [by : Callers, run : Nat, thr : Thresholds]
ServiceSet == [owner : {"server", "foreign"},
               state : {"starting", "listening", "busy", "served", "exited"},
               left : Int, rc : Int, by : Callers, thr : Thresholds, log : Seq(LogSet)]

ServerSet == [up : BOOLEAN, closed : BOOLEAN, pending : Nat, active : Nat,
              available : BOOLEAN]

TypeQueue ==
    /\ server \in ServerSet
    /\ jobs \in Seq(JobSet)
    /\ server.pending <= Len(jobs) /\ server.active <= Len(jobs)
TypeWorker == worker \in WorkerSet
TypeBoard ==
    /\ services \in Seq(ServiceSet)
    /\ txns \in Seq(TxnSet)

----------------------------------------------------------------------------
(* The latch.                                                              *)

\* A job the worker has taken stays active, which keeps reconnects away; a
\* board that failed is unavailable, and no capture runs on it.
Latched ==
    /\ faulted \in BOOLEAN
    /\ worker.pc \in Working => server.active # 0
    /\ worker.pc \in Capturing => ~faulted
    /\ faulted => ~server.available

----------------------------------------------------------------------------
(* Whose transaction it was.                                               *)

\* What a service has logged is a transaction of its own, or one that failed.
LogsOwn ==
    \A i \in 1 .. Len(services) : \A k \in 1 .. Len(services[i].log) :
        LET e == services[i].log[k]
        IN  /\ e.epoch \in 1 .. Len(txns)
            /\ txns[e.epoch] = Wrong \/ (txns[e.epoch].run = i /\ txns[e.epoch].thr = e.thr)

\* The service at the other end of the connection works for this capture.
ConnOwn ==
    /\ worker.run <= Len(services) /\ worker.conn <= Len(services)
    /\ worker.pc \in {"connect", "reply", "finish", "final_preflight", "final_probe",
                      "register"} => worker.run # 0
    /\ worker.conn # 0 =>
         /\ worker.pc = "reply"
         /\ services[worker.conn].state = "busy" /\ services[worker.conn].by = "server" =>
              services[worker.conn].thr = worker.thr

\* A reply tells of a transaction for the request of this capture.
ReplyOwn ==
    /\ worker.reply.ok =>
         /\ worker.reply.epoch \in 1 .. Len(txns)
         /\ worker.reply.good => /\ txns[worker.reply.epoch].by = "server"
                                 /\ txns[worker.reply.epoch].thr = worker.thr
    /\ worker.pc \in {"finish", "final_preflight", "final_probe", "register"} =>
         worker.reply.ok /\ worker.reply.epoch = worker.epoch + 1

\* After the service's log was read, the run is known as well.
RunOwn ==
    worker.pc \in {"final_preflight", "final_probe", "register"} /\ worker.reply.good =>
        txns[worker.reply.epoch] = [by |-> "server", run |-> worker.run, thr |-> worker.thr]

DiskOwn ==
    \A c \in disk :
        /\ c.epoch \in 1 .. Len(txns)
        /\ c.epoch = c.admitted + 1
        /\ txns[c.epoch] = [by |-> "server", run |-> c.run, thr |-> c.thr]

Types == TypeQueue /\ TypeWorker /\ TypeBoard
Owned == LogsOwn /\ ConnOwn /\ ReplyOwn /\ RunOwn /\ DiskOwn

----------------------------------------------------------------------------
(* Steps of the board, entry by entry.                                     *)

\* Every entry but the i-th keeps its value.
OthersKept(i) ==
    /\ services' \in Seq(ServiceSet)
    /\ Len(services') = Len(services)
    /\ \A j \in 1 .. Len(services) : j # i => services'[j] = services[j]

\* Services and transactions are sequences.
LEMMA Indices ==
    ASSUME TypeBoard
    PROVE  /\ DOMAIN services = 1 .. Len(services) /\ Len(services) \in Nat
           /\ \A i \in 1 .. Len(services) : services[i] \in ServiceSet
           /\ Len(txns) \in Nat
  BY LenProperties, ElementOfSeq DEF TypeBoard

\* Replacing one service leaves the others alone.
LEMMA Replaced ==
    ASSUME TypeBoard, NEW i \in 1 .. Len(services), NEW r \in ServiceSet,
           services' = [services EXCEPT ![i] = r]
    PROVE  OthersKept(i) /\ services'[i] = r
  BY ExceptSeq DEF TypeBoard, OthersKept

\* A service that was just started.
LEMMA NewServiceTyped ==
    ASSUME NEW owner \in {"server", "foreign"}, NEW n \in Int
    PROVE  NewService(owner, n) \in ServiceSet
<1>1. <<>> \in Seq(LogSet) /\ 0 \in Thresholds
  BY CaptureAssumption, EmptySeq
<1> QED
  BY <1>1 DEF ServiceSet, NewService, Callers

\* A service that ended has lost its log.
LEMMA BrokenTyped ==
    ASSUME NEW s \in ServiceSet
    PROVE  Broken(s) \in ServiceSet /\ Broken(s).log = <<>> /\ Broken(s).state = "exited"
<1>0. s.owner \in {"server", "foreign"}
  BY DEF ServiceSet
<1>1. NewService(s.owner, 0) \in ServiceSet
  BY <1>0, NewServiceTyped
<1>2. Broken(s) = [NewService(s.owner, 0) EXCEPT !.state = "exited"]
  BY DEF Broken
<1>3. NewService(s.owner, 0).log = <<>>
  BY DEF NewService
<1> QED
  BY <1>1, <1>2, <1>3, SMTT(30) DEF ServiceSet

\* The i-th entry becomes r: the shape of every step of one service.
Becomes(i, r) == OthersKept(i) /\ services'[i] = r /\ r \in ServiceSet

\* A started service begins to listen.
LEMMA Listened ==
    ASSUME TypeBoard, NEW i \in 1 .. Len(services), ServiceListens(i)
    PROVE  Becomes(i, [services[i] EXCEPT !.state = "listening"])
<1> DEFINE r == [services[i] EXCEPT !.state = "listening"]
<1>1. r \in ServiceSet
  BY Indices DEF ServiceSet
<1>2. services' = [services EXCEPT ![i] = r]
  BY Indices DEF ServiceListens, Move
<1> QED
  BY <1>1, <1>2, Replaced, ZenonT(60) DEF Becomes

\* A service that ends, or whose run fails, is gone.
LEMMA ServiceOver ==
    ASSUME TypeBoard, NEW i \in 1 .. Len(services),
           ServiceEnds(i) \/ ServiceRunFails(i)
    PROVE  Becomes(i, Broken(services[i]))
<1>1. Broken(services[i]) \in ServiceSet
  BY Indices, BrokenTyped
<1>2. services' = [services EXCEPT ![i] = Broken(services[i])]
  BY Indices DEF ServiceEnds, ServiceRunFails
<1> QED
  BY <1>1, <1>2, Replaced, ZenonT(60) DEF Becomes

\* A service that has answered keeps its log and is free again.
LEMMA Completed ==
    ASSUME TypeBoard, NEW i \in 1 .. Len(services), ServiceCompletes(i)
    PROVE  \E r \in ServiceSet : Becomes(i, r) /\ r.log = services[i].log /\ r.state # "busy"
<1>1. services[i] \in ServiceSet
  BY Indices
<1>2. services[i].left \in Int /\ services[i].rc \in Int
  BY <1>1 DEF ServiceSet
<1>3. PICK st \in {"exited", "listening"}, k \in Int, c \in Int :
        /\ k = services[i].left - 1
        /\ st = IF services[i].left = 1 THEN "exited" ELSE "listening"
        /\ c = IF services[i].left = 1 THEN 0 ELSE services[i].rc
  BY <1>2
<1> DEFINE r == [services[i] EXCEPT !.left = k, !.state = st, !.rc = c]
<1>4. services' = [services EXCEPT ![i] = r]
  BY <1>3, Indices, ZenonT(60) DEF ServiceCompletes
<1>5. r \in ServiceSet /\ r.log = services[i].log /\ r.state = st
  BY <1>1, ZenonT(60) DEF ServiceSet
<1> HIDE DEF r
<1>6. Becomes(i, r)
  BY <1>4, <1>5, Replaced, ZenonT(60) DEF Becomes
<1> QED
  BY <1>5, <1>6

\* Another tool asks a service for a run.
LEMMA Asked ==
    ASSUME TypeBoard, NEW i \in 1 .. Len(services), ForeignRequests(i)
    PROVE  Becomes(i, [services[i] EXCEPT !.state = "busy", !.by = "foreign", !.thr = 0])
<1> DEFINE r == [services[i] EXCEPT !.state = "busy", !.by = "foreign", !.thr = 0]
<1>1. r \in ServiceSet
  BY Indices, CaptureAssumption, ZenonT(60) DEF ServiceSet, Callers
<1>2. services' = [services EXCEPT ![i] = r]
  BY Indices, ZenonT(60) DEF ForeignRequests
<1> QED
  BY <1>1, <1>2, Replaced, ZenonT(60) DEF Becomes

\* The worker asks a service for its capture.
LEMMA Connected ==
    ASSUME TypeBoard, TypeWorker, NEW i \in 1 .. Len(services), CaptureConnect(i)
    PROVE  Becomes(i, [services[i] EXCEPT !.state = "busy", !.by = "server",
                                          !.thr = worker.thr])
<1> DEFINE r == [services[i] EXCEPT !.state = "busy", !.by = "server", !.thr = worker.thr]
<1>1. r \in ServiceSet
  BY Indices, ZenonT(60) DEF ServiceSet, TypeWorker, WorkerSet, Callers
<1>2. services' = [services EXCEPT ![i] = r]
  BY Indices, ZenonT(60) DEF CaptureConnect
<1> QED
  BY <1>1, <1>2, Replaced, ZenonT(60) DEF Becomes

\* serve_one logs the request and the epoch of its transaction.
LEMMA Served ==
    ASSUME TypeBoard, NEW i \in 1 .. Len(services), NEW good \in BOOLEAN,
           ServiceServes(i, good)
    PROVE  Becomes(i, [services[i] EXCEPT !.state = "served",
                         !.log = Append(services[i].log,
                                        [thr |-> services[i].thr, epoch |-> Epoch + 1])])
<1> DEFINE e == [thr |-> services[i].thr, epoch |-> Epoch + 1]
           r == [services[i] EXCEPT !.state = "served", !.log = Append(services[i].log, e)]
<1>0. services[i] \in ServiceSet /\ Epoch + 1 \in Nat
  BY Indices DEF Epoch
<1>1. services[i] \in ServiceSet /\ e \in LogSet
  BY <1>0 DEF ServiceSet, LogSet
<1>2. Append(services[i].log, e) \in Seq(LogSet)
  BY <1>1, AppendProperties DEF ServiceSet
<1>3. r \in ServiceSet
  BY <1>1, <1>2, ZenonT(60) DEF ServiceSet
<1>4. services' = [services EXCEPT ![i] = r]
  BY Indices, ZenonT(60) DEF ServiceServes
<1> QED
  BY <1>3, <1>4, Replaced, ZenonT(60) DEF Becomes

\* Starting a service appends one, with an empty log.
LEMMA Started ==
    ASSUME TypeBoard, NEW owner \in {"server", "foreign"}, NEW n \in Int,
           services' = Append(services, NewService(owner, n))
    PROVE  /\ services' \in Seq(ServiceSet)
           /\ Len(services') = Len(services) + 1
           /\ \A j \in 1 .. Len(services) : services'[j] = services[j]
           /\ services'[Len(services) + 1].log = <<>>
<1>1. NewService(owner, n) \in ServiceSet
  BY NewServiceTyped
<1>2. NewService(owner, n).log = <<>>
  BY DEF NewService
<1> QED
  BY <1>1, <1>2, AppendProperties DEF TypeBoard

\* After a reboot of the board no service is left.
LEMMA Rebooted ==
    ASSUME TypeBoard, Reboot
    PROVE  /\ services' \in Seq(ServiceSet)
           /\ Len(services') = Len(services)
           /\ \A j \in 1 .. Len(services) :
                services'[j].log = <<>> /\ services'[j].state = "exited"
<1>1. services' = [i \in 1 .. Len(services) |-> Broken(services[i])]
  BY Indices DEF Reboot
<1>2. \A i \in 1 .. Len(services) : Broken(services[i]) \in ServiceSet
  BY Indices, BrokenTyped
<1>3. services' \in [1 .. Len(services) -> ServiceSet]
  BY <1>1, <1>2
<1>4. services' \in Seq(ServiceSet) /\ Len(services') = Len(services)
  BY <1>3, Indices
<1> QED
  BY <1>1, <1>4, Indices, BrokenTyped

----------------------------------------------------------------------------
(* The queue.                                                              *)

\* A job that has ended.
LEMMA PastTyped ==
    ASSUME NEW job \in JobSet, NEW status \in Statuses
    PROVE  Past(job, status) \in JobSet
  BY CaptureAssumption DEF Past, JobSet

\* A pending job that is replaced ends, and no other job changes.
LEMMA Superseded ==
    ASSUME TypeQueue, NEW why \in Statuses
    PROVE  Supersede(why) \in Seq(JobSet) /\ Len(Supersede(why)) = Len(jobs)
<1>1. CASE server.pending = 0
  BY <1>1 DEF Supersede, TypeQueue, ServerSet
<1>2. CASE server.pending # 0
  <2>1. server.pending \in 1 .. Len(jobs)
    BY <1>2, LenProperties DEF TypeQueue, ServerSet
  <2>2. jobs[server.pending] \in JobSet /\ DOMAIN jobs = 1 .. Len(jobs)
    BY <2>1, ElementOfSeq, LenProperties DEF TypeQueue, ServerSet
  <2>3. Past(jobs[server.pending], why) \in JobSet
    BY <2>2, PastTyped
  <2>4. Supersede(why) = [jobs EXCEPT ![server.pending] = Past(jobs[server.pending], why)]
    BY <1>2, <2>1, <2>2 DEF Supersede
  <2> QED
    BY <2>1, <2>3, <2>4, ExceptSeq DEF TypeQueue, ServerSet
<1> QED
  BY <1>1, <1>2

\* The active job ends.
LEMMA FinishedTyped ==
    ASSUME TypeQueue, server.active # 0, NEW status \in Statuses, Finished(status)
    PROVE  jobs' \in Seq(JobSet) /\ Len(jobs') = Len(jobs)
<1>1. server.active \in 1 .. Len(jobs)
  BY LenProperties DEF TypeQueue, ServerSet
<1>2. jobs[server.active] \in JobSet /\ DOMAIN jobs = 1 .. Len(jobs)
  BY <1>1, ElementOfSeq, LenProperties DEF TypeQueue, ServerSet
<1>3. Past(jobs[server.active], status) \in JobSet
  BY <1>2, PastTyped
<1>4. jobs' = [jobs EXCEPT ![server.active] = Past(jobs[server.active], status)]
  BY <1>1, <1>2 DEF Finished
<1> QED
  BY <1>1, <1>3, <1>4, ExceptSeq DEF TypeQueue, ServerSet

\* The worker takes the pending job.
LEMMA TakenTyped ==
    ASSUME TypeQueue, WorkerTakes
    PROVE  jobs' \in Seq(JobSet) /\ Len(jobs') = Len(jobs)
<1>1. server.pending \in 1 .. Len(jobs)
  BY LenProperties DEF TypeQueue, ServerSet, WorkerTakes
<1>2. jobs[server.pending] \in JobSet /\ DOMAIN jobs = 1 .. Len(jobs)
  BY <1>1, ElementOfSeq, LenProperties DEF TypeQueue, ServerSet
<1> DEFINE r == [jobs[server.pending] EXCEPT !.status = "running"]
<1>3. r \in JobSet
  BY <1>2 DEF JobSet, Statuses
<1>4. jobs' = [jobs EXCEPT ![server.pending] = r]
  BY <1>1, <1>2 DEF WorkerTakes
<1> HIDE DEF r
<1> QED
  BY <1>1, <1>3, <1>4, ExceptSeq DEF TypeQueue, ServerSet

\* The server accepts a job.
LEMMA AcceptTyped ==
    ASSUME TypeQueue, NEW job \in JobSet, Accept(job)
    PROVE  TypeQueue'
<1>1. Supersede("replaced") \in Seq(JobSet) /\ Len(Supersede("replaced")) = Len(jobs)
  BY Superseded DEF Statuses
<1>2. jobs' \in Seq(JobSet) /\ Len(jobs') = Len(jobs) + 1
  BY <1>1, AppendProperties DEF Accept
<1>3. Len(jobs) \in Nat
  BY LenProperties DEF TypeQueue, ServerSet
<1> QED
  BY <1>2, <1>3, SMTT(30) DEF Accept, TypeQueue, ServerSet

\* The active job is a job.
LEMMA CurrentTyped ==
    ASSUME TypeQueue, server.active # 0
    PROVE  Current \in JobSet
<1>1. server.active \in 1 .. Len(jobs)
  BY LenProperties, SMTT(30) DEF TypeQueue, ServerSet
<1> QED
  BY <1>1, ElementOfSeq DEF TypeQueue, ServerSet, Current

----------------------------------------------------------------------------
(* Types and the latch are preserved.                                      *)

TLInv == Types /\ Latched

\* The fresh worker of a new process, a new capture and a finished job.
LEMMA NewWorkerTyped ==
    /\ NewWorker \in WorkerSet
    /\ \A pc \in Working \cup {"wait", "gone"} : [NewWorker EXCEPT !.pc = pc] \in WorkerSet
    /\ \A pc \in Working \cup {"wait", "gone"}, thr \in Thresholds :
         [NewWorker EXCEPT !.pc = pc, !.thr = thr] \in WorkerSet
<1>1. NoReply \in ReplySet
  BY DEF NoReply, ReplySet
<1> QED
  BY <1>1, CaptureAssumption, ZenonT(60) DEF NewWorker, WorkerSet

\* The types and the latch hold at first.
LEMMA InitTL == Init => TLInv
<1> SUFFICES ASSUME Init PROVE TLInv
  OBVIOUS
<1>1. \A S : <<>> \in Seq(S) /\ Len(<<>>) = 0
  BY EmptySeq
<1>2. TypeQueue /\ TypeBoard
  BY <1>1, SMTT(30) DEF Init, TypeQueue, ServerSet, TypeBoard
<1>3. TypeWorker
  BY NewWorkerTyped, ZenonT(60) DEF Init, TypeWorker
<1>4. Latched
  BY ZenonT(60) DEF Init, Latched, NewWorker, Working, Capturing
<1> QED
  BY <1>2, <1>3, <1>4 DEF TLInv, Types

\* The requests of clients keep the types and the latch.
LEMMA HandlersTL == TLInv /\ Handlers => TLInv'
<1> SUFFICES ASSUME TLInv, Handlers PROVE TLInv'
  OBVIOUS
<1> USE DEF TLInv, Types
<1>1. ASSUME NEW job \in JobSet, Accept(job) PROVE TLInv'
  <2>1. TypeQueue'
    BY <1>1, AcceptTyped
  <2>2. TypeWorker' /\ TypeBoard'
    BY <1>1 DEF Accept, TypeWorker, TypeBoard, boardVars
  <2>3. Latched'
    BY <1>1 DEF Accept, Latched, TypeQueue, ServerSet
  <2> QED
    BY <2>1, <2>2, <2>3
<1>2. ASSUME NEW thr \in Thresholds, NEW force \in BOOLEAN, Submit(thr, force) PROVE TLInv'
  <2>1. Job(thr, force, FALSE) \in JobSet
    BY DEF Job, JobSet, Statuses
  <2> QED
    BY <1>1, <1>2, <2>1, ZenonT(60) DEF Submit
<1>3. ASSUME NEW thr \in Thresholds, SubmitRemote(thr) PROVE TLInv'
  <2>1. Job(thr, TRUE, TRUE) \in JobSet
    BY DEF Job, JobSet, Statuses
  <2> QED
    BY <1>1, <1>3, <2>1, ZenonT(60) DEF SubmitRemote
<1>4. ASSUME CancelRemotePending PROVE TLInv'
  <2>1. jobs' \in Seq(JobSet) /\ Len(jobs') = Len(jobs)
    BY <1>4, Superseded DEF CancelRemotePending, Statuses
  <2>2. TypeQueue'
    BY <1>4, <2>1 DEF CancelRemotePending, TypeQueue, ServerSet
  <2> QED
    BY <1>4, <2>2 DEF CancelRemotePending, TypeQueue, ServerSet, TypeWorker, TypeBoard, boardVars,
                      Latched
<1>5. ASSUME NEW ok \in BOOLEAN, Reconnect(ok) PROVE TLInv'
  <2>1. TypeQueue' /\ TypeWorker' /\ TypeBoard'
    BY <1>5, SMTT(30) DEF Reconnect, TypeQueue, ServerSet, TypeWorker, TypeBoard, boardVars
  <2>2. worker.pc \notin Working
    BY <1>5 DEF Reconnect, QueueIdle, Latched
  <2>3. Latched'
    BY <1>5, <2>2 DEF Reconnect, Latched, TypeQueue, ServerSet, Working
  <2> QED
    BY <2>1, <2>3
<1>6. ASSUME Shutdown PROVE TLInv'
  BY <1>6, ZenonT(60) DEF Shutdown, TypeQueue, ServerSet, TypeWorker, TypeBoard, boardVars, Latched
<1> QED
  BY <1>2, <1>3, <1>4, <1>5, <1>6, SMTT(30) DEF Handlers

\* A close, a kill and a restart keep the types and the latch.
LEMMA ProcessTL == TLInv /\ Process => TLInv'
<1> SUFFICES ASSUME TLInv, Process PROVE TLInv'
  OBVIOUS
<1> USE DEF TLInv, Types
<1>0. \A S : <<>> \in Seq(S) /\ Len(<<>>) = 0
  BY EmptySeq
<1>1. ASSUME Close PROVE TLInv'
  <2>1. jobs' \in Seq(JobSet) /\ Len(jobs') = Len(jobs)
    BY <1>1, Superseded DEF Close, Statuses
  <2>a. Len(jobs) \in Nat
    BY LenProperties DEF TypeQueue, ServerSet
  <2>2. TypeQueue'
    <3>1. server' \in ServerSet /\ server'.pending = 0 /\ server'.active = server.active
      BY <1>1, ZenonT(60) DEF Close, TypeQueue, ServerSet
    <3> QED
      BY <2>1, <2>a, <3>1 DEF TypeQueue
  <2> QED
    BY <1>1, <2>2 DEF Close, TypeQueue, ServerSet, TypeWorker, TypeBoard, boardVars, Latched
<1>2. ASSUME ProcessEnds PROVE TLInv'
  <2>1. TypeQueue' /\ TypeBoard'
    BY <1>0, <1>2 DEF ProcessEnds, TypeQueue, ServerSet, TypeBoard, boardVars
  <2>a. worker' = [NewWorker EXCEPT !.pc = "gone"]
    BY <1>2 DEF ProcessEnds
  <2>b. worker' \in WorkerSet
    BY <2>a, NewWorkerTyped, ZenonT(60)
  <2>2. TypeWorker' /\ worker'.pc = "gone"
    BY <2>a, <2>b, NewWorkerTyped, ZenonT(60) DEF TypeWorker, WorkerSet
  <2>3. Latched'
    BY <1>2, <2>2 DEF ProcessEnds, Latched, Working, Capturing
  <2> QED
    BY <2>1, <2>2, <2>3
<1>3. ASSUME NEW ok \in BOOLEAN, ServerStarts(ok) PROVE TLInv'
  <2>1. TypeQueue' /\ TypeBoard'
    BY <1>3, LenProperties, SMTT(30) DEF ServerStarts, TypeQueue, ServerSet, TypeBoard, boardVars
  <2>2. TypeWorker' /\ worker'.pc = "wait"
    BY <1>3, NewWorkerTyped, ZenonT(60) DEF ServerStarts, TypeWorker, NewWorker
  <2>3. Latched'
    BY <1>3, <2>2, ZenonT(60) DEF ServerStarts, Latched, Working, Capturing
  <2> QED
    BY <2>1, <2>2, <2>3
<1> QED
  BY <1>1, <1>2, <1>3 DEF Process

\* The board and other tools keep the types and the latch.
LEMMA BoardTL == TLInv /\ Board => TLInv'
<1> SUFFICES ASSUME TLInv, Board PROVE TLInv'
  OBVIOUS
<1> USE DEF TLInv, Types
<1>0. DOMAIN services = 1 .. Len(services) /\ Wrong \in TxnSet
  BY Indices, CaptureAssumption DEF Wrong, TxnSet, Callers
<1>1. ASSUME NEW i \in 1 .. Len(services), ServiceListens(i) PROVE TLInv'
  <2>1. services' \in Seq(ServiceSet)
    BY <1>1, Listened, ZenonT(60) DEF Becomes, OthersKept
  <2> QED
    BY <1>1, <2>1 DEF ServiceListens, TypeQueue, ServerSet, TypeWorker, TypeBoard, Latched
<1>2. ASSUME NEW i \in 1 .. Len(services), ServiceEnds(i) PROVE TLInv'
  <2>1. services' \in Seq(ServiceSet)
    BY <1>2, ServiceOver DEF Becomes, OthersKept
  <2> QED
    BY <1>2, <2>1 DEF ServiceEnds, TypeQueue, ServerSet, TypeWorker, TypeBoard, Latched
<1>3. ASSUME NEW i \in 1 .. Len(services), ServiceRunFails(i) PROVE TLInv'
  <2>1. services' \in Seq(ServiceSet) /\ txns' \in Seq(TxnSet)
    BY <1>0, <1>3, ServiceOver, AppendProperties, ZenonT(60) DEF Becomes, OthersKept, ServiceRunFails, TypeBoard
  <2> QED
    BY <1>3, <2>1 DEF ServiceRunFails, TypeQueue, ServerSet, TypeWorker, TypeBoard, Latched
<1>4. ASSUME NEW i \in 1 .. Len(services), ServiceCompletes(i) PROVE TLInv'
  <2>1. services' \in Seq(ServiceSet)
    BY <1>4, Completed DEF Becomes, OthersKept
  <2> QED
    BY <1>4, <2>1 DEF ServiceCompletes, TypeQueue, ServerSet, TypeWorker, TypeBoard, Latched
<1>5. ASSUME NEW i \in 1 .. Len(services), NEW good \in BOOLEAN, ServiceServes(i, good)
      PROVE  TLInv'
  <2>1. services' \in Seq(ServiceSet)
    BY <1>5, Served, ZenonT(60) DEF Becomes, OthersKept
  <2>2. txns' \in Seq(TxnSet)
    <3>1. services[i] \in ServiceSet
      BY Indices
    <3>2. [by |-> services[i].by, run |-> i, thr |-> services[i].thr] \in TxnSet
      BY <3>1 DEF ServiceSet, TxnSet
    <3>3. \E t \in TxnSet : txns' = Append(txns, t)
      BY <1>0, <1>5, <3>2 DEF ServiceServes
    <3> QED
      BY <3>3, AppendProperties DEF TypeBoard
  <2>3. TypeWorker' /\ worker'.pc = worker.pc
    <3>1. Epoch + 1 \in Nat
      BY Indices DEF Epoch
    <3>2. CASE worker' = worker
      BY <3>2 DEF TypeWorker
    <3>3. CASE worker' = [worker EXCEPT !.reply = [ok |-> TRUE, epoch |-> Epoch + 1, good |-> good]]
      BY <3>1, <3>3, ZenonT(60) DEF TypeWorker, WorkerSet, ReplySet
    <3> QED
      BY <1>5, <3>2, <3>3 DEF ServiceServes
  <2> QED
    BY <1>5, <2>1, <2>2, <2>3 DEF ServiceServes, TypeQueue, ServerSet, TypeBoard, Latched
<1>6. ASSUME NEW i \in 1 .. Len(services), ForeignRequests(i) PROVE TLInv'
  <2>1. services' \in Seq(ServiceSet)
    BY <1>6, Asked, ZenonT(60) DEF Becomes, OthersKept
  <2> QED
    BY <1>6, <2>1 DEF ForeignRequests, TypeQueue, ServerSet, TypeWorker, TypeBoard, Latched
<1>7. ASSUME ForeignStarts PROVE TLInv'
  <2>1. services' \in Seq(ServiceSet)
    BY <1>7, Started DEF ForeignStarts
  <2> QED
    BY <1>7, <2>1 DEF ForeignStarts, TypeQueue, ServerSet, TypeWorker, TypeBoard, Latched
<1>8. ASSUME Reboot PROVE TLInv'
  <2>1. services' \in Seq(ServiceSet)
    BY <1>8, Rebooted
  <2> QED
    BY <1>8, <2>1 DEF Reboot, TypeQueue, ServerSet, TypeWorker, TypeBoard, Latched
<1> QED
  BY <1>0, <1>1, <1>2, <1>3, <1>4, <1>5, <1>6, <1>7, <1>8, SMTT(30) DEF Board

\* The worker keeps the types and the latch.
LEMMA WorkerTL == TLInv /\ WorkerStep => TLInv'
<1> SUFFICES ASSUME TLInv, WorkerStep PROVE TLInv'
  OBVIOUS
<1> USE DEF TLInv, Types
<1>0. Len(jobs) \in Nat /\ Len(services) \in Nat /\ Len(txns) \in Nat
  BY Indices, LenProperties DEF TypeQueue, ServerSet
<1>1. ASSUME WorkerTakes PROVE TLInv'
  <2>1. jobs' \in Seq(JobSet) /\ Len(jobs') = Len(jobs)
    BY <1>1, TakenTyped
  <2>2. TypeQueue'
    <3>1. /\ server' \in ServerSet
          /\ server'.pending = 0 /\ server'.active = server.pending
      BY <1>1, ZenonT(60) DEF WorkerTakes, TypeQueue, ServerSet
    <3> QED
      BY <1>0, <2>1, <3>1 DEF TypeQueue
  <2>3. TypeWorker' /\ worker'.pc = "work"
    BY <1>1 DEF WorkerTakes, Goto, TypeWorker, WorkerSet, Working
  <2>4. server'.active # 0 /\ server'.available = server.available
    BY <1>1 DEF WorkerTakes, TypeQueue, ServerSet
  <2> QED
    BY <1>1, <2>2, <2>3, <2>4 DEF WorkerTakes, TypeBoard, boardVars, Latched, Capturing
\* Only the program counter moves.
<1>2. ASSUME NEW pc \in Working \cup {"wait", "gone"}, Goto(pc), UNCHANGED <<server, jobs>>,
             UNCHANGED boardVars, UNCHANGED faulted, pc \in Working => worker.pc \in Working,
             pc \in Capturing => worker.pc \in Capturing
      PROVE  TLInv'
  <2>1. TypeWorker' /\ worker'.pc = pc
    BY <1>2 DEF Goto, TypeWorker, WorkerSet
  <2> QED
    BY <1>2, <2>1 DEF TypeQueue, ServerSet, TypeBoard, boardVars, Latched
<1>3. ASSUME WorkerLeaves \/ WorkReuses \/ CapturePreflight \/ CaptureFinish
             \/ CaptureFinalPreflight \/ CaptureFinalProbe \/ SaveFails
      PROVE  TLInv'
  BY <1>2, <1>3 DEF WorkerLeaves, WorkReuses, CapturePreflight, CaptureFinish,
                    CaptureFinalPreflight, CaptureFinalProbe, SaveFails, At, Working, Capturing
\* The job ends and its file is saved.
<1>4. ASSUME NEW status \in Statuses, Finished(status), worker.pc \in Working,
             worker' \in WorkerSet, worker'.pc = "save", UNCHANGED boardVars,
             \/ UNCHANGED <<server, faulted>>
             \/ server' = [server EXCEPT !.available = FALSE] /\ faulted' = TRUE
      PROVE  TLInv'
  <2>1. server.active # 0
    BY <1>4 DEF Latched
  <2>2. jobs' \in Seq(JobSet) /\ Len(jobs') = Len(jobs)
    BY <1>4, <2>1, FinishedTyped
  <2>3. TypeQueue'
    BY <1>4, <2>2, ZenonT(60) DEF TypeQueue, ServerSet
  <2>4. Latched'
    <3>1. server'.active = server.active
      BY <1>4 DEF TypeQueue, ServerSet
    <3>2. CASE UNCHANGED <<server, faulted>>
      BY <1>4, <2>1, <3>2 DEF Latched, Capturing
    <3>3. CASE server' = [server EXCEPT !.available = FALSE] /\ faulted' = TRUE
      <4>1. server'.available = FALSE
        BY <3>3 DEF TypeQueue, ServerSet
      <4> QED
        BY <1>4, <2>1, <3>1, <3>3, <4>1, SMTT(30) DEF Latched, Capturing
    <3> QED
      BY <1>4, <3>2, <3>3, ZenonT(60)
  <2> QED
    BY <1>4, <2>3, <2>4 DEF TypeWorker, TypeBoard, boardVars
<1>5. ASSUME WorkRefused PROVE TLInv'
  <2>1. worker' \in WorkerSet /\ worker'.pc = "save" /\ worker.pc \in Working
    BY <1>5 DEF WorkRefused, At, Goto, TypeWorker, WorkerSet, Working
  <2> QED
    BY <1>4, <1>5, <2>1 DEF WorkRefused, Statuses
<1>6. ASSUME NEW status \in {"complete", "failed"}, Bundle(status) PROVE TLInv'
  <2>1. worker' \in WorkerSet /\ worker'.pc = "save" /\ worker.pc \in Working
    BY <1>6 DEF Bundle, At, Goto, TypeWorker, WorkerSet, Working
  <2> QED
    BY <1>4, <1>6, <2>1 DEF Bundle, Statuses
<1>7. ASSUME CaptureFails \/ RegisterFails PROVE TLInv'
  <2>1. worker' = [NewWorker EXCEPT !.pc = "save"] /\ worker.pc \in Working
    BY <1>7 DEF CaptureFails, RegisterFails, Latch, At, Working, Capturing
  <2>2. worker' \in WorkerSet
    BY <2>1, NewWorkerTyped, ZenonT(60) DEF Working
  <2>3. worker'.pc = "save"
    BY <2>1 DEF NewWorker
  <2> QED
    BY <1>4, <1>7, <2>1, <2>2, <2>3, ZenonT(60) DEF CaptureFails, RegisterFails, Latch, Statuses
\* A capture begins.
<1>8. ASSUME NEW thr \in Thresholds, Pass(thr), worker.pc \in Working, ~faulted,
             UNCHANGED <<server, jobs>>, UNCHANGED boardVars, UNCHANGED faulted
      PROVE  TLInv'
  <2>1. worker' = [NewWorker EXCEPT !.pc = "preflight", !.thr = thr]
    BY <1>8, SMTT(30) DEF Pass
  <2>2. worker' \in WorkerSet
    BY <1>8, <2>1, NewWorkerTyped, ZenonT(60) DEF Working, Capturing
  <2>3. worker'.pc = "preflight"
    BY <2>1 DEF NewWorker
  <2> QED
    BY <1>8, <2>2, <2>3 DEF TypeQueue, ServerSet, TypeWorker, TypeBoard, boardVars, Latched
<1>9. ASSUME WorkCaptures PROVE TLInv'
  <2>1. worker.pc \in Working
    BY <1>9 DEF WorkCaptures, At, Working
  <2>2. ~faulted /\ server.active # 0
    BY <1>9, <2>1 DEF WorkCaptures, Latched
  <2>3. Current.thr \in Thresholds
    BY <2>2, CurrentTyped DEF JobSet
  <2>4. (IF Have(0) THEN Current.thr ELSE 0) \in Thresholds
    BY <2>3, CaptureAssumption
  <2> QED
    BY <1>8, <1>9, <2>1, <2>2, <2>4 DEF WorkCaptures
<1>10. ASSUME NEW tick \in {0, 1}, Register(tick) PROVE TLInv'
  <2>1. worker.pc \in Capturing /\ worker.pc \in Working
    BY <1>10 DEF Register, At, Working, Capturing
  <2>2. ~faulted /\ server.active # 0
    BY <2>1 DEF Latched
  <2>3. Current.thr \in Thresholds
    BY <2>2, CurrentTyped DEF JobSet
  <2>4. CASE Goto("bundle")
    <3>1. "bundle" \in Working /\ "bundle" \notin Capturing
      BY DEF Working, Capturing
    <3> QED
      BY <1>2, <1>10, <2>1, <2>4, <3>1, SMTT(30) DEF Register
  <2>5. CASE Pass(Current.thr)
    BY <1>8, <1>10, <2>1, <2>2, <2>3, <2>5, SMTT(30) DEF Register
  <2> QED
    BY <1>10, <2>4, <2>5 DEF Register
<1>11. ASSUME CaptureProbe PROVE TLInv'
  <2>1. TypeWorker' /\ worker'.pc = "start"
    BY <1>0, <1>11, ZenonT(60) DEF CaptureProbe, Epoch, TypeWorker, WorkerSet, Working, Capturing
  <2>2. server.active # 0 /\ ~faulted
    BY <1>11 DEF CaptureProbe, At, Latched, Working, Capturing
  <2> QED
    BY <1>11, <2>1, <2>2, ZenonT(60) DEF CaptureProbe, TypeQueue, ServerSet, TypeBoard, boardVars, Latched
<1>12. ASSUME CaptureStart PROVE TLInv'
  <2>1. services' \in Seq(ServiceSet)
    BY <1>12, Started DEF CaptureStart
  <2>2. TypeWorker' /\ worker'.pc = "connect"
    <3>1. Len(services) + 1 \in Nat
      BY <1>0
    <3>2. "connect" \in Working
      BY DEF Working, Capturing
    <3> QED
      BY <1>12, <3>1, <3>2, ZenonT(60) DEF CaptureStart, TypeWorker, WorkerSet
  <2>3. server.active # 0 /\ ~faulted
    BY <1>12 DEF CaptureStart, At, Latched, Working, Capturing
  <2> QED
    BY <1>12, <2>1, <2>2, <2>3 DEF CaptureStart, TypeQueue, ServerSet, TypeBoard, Latched
<1>13. ASSUME NEW i \in 1 .. Len(services), CaptureConnect(i) PROVE TLInv'
  <2>1. services' \in Seq(ServiceSet)
    BY <1>13, Connected, ZenonT(60) DEF Becomes, OthersKept
  <2>2. TypeWorker' /\ worker'.pc = "reply"
    <3>1. i \in Nat /\ "reply" \in Working
      BY <1>0 DEF Working, Capturing
    <3> QED
      BY <1>13, <3>1, ZenonT(60) DEF CaptureConnect, TypeWorker, WorkerSet
  <2>3. server.active # 0 /\ ~faulted
    BY <1>13 DEF CaptureConnect, At, Latched, Working, Capturing
  <2> QED
    BY <1>13, <2>1, <2>2, <2>3 DEF CaptureConnect, TypeQueue, ServerSet, TypeBoard, Latched
<1>14. ASSUME CaptureReply PROVE TLInv'
  <2>1. TypeWorker' /\ worker'.pc = "finish"
    BY <1>14, ZenonT(60) DEF CaptureReply, TypeWorker, WorkerSet, Working, Capturing
  <2>2. server.active # 0 /\ ~faulted
    BY <1>14 DEF CaptureReply, At, Latched, Working, Capturing
  <2> QED
    BY <1>14, <2>1, <2>2 DEF CaptureReply, TypeQueue, ServerSet, TypeBoard, boardVars, Latched
<1>15. ASSUME Save PROVE TLInv'
  <2>1. TypeWorker' /\ worker'.pc = "wait"
    BY <1>15, NewWorkerTyped, ZenonT(60) DEF Save, TypeWorker, NewWorker
  <2>2. TypeQueue'
    BY <1>0, <1>15 DEF Save, TypeQueue, ServerSet
  <2>3. server'.available = server.available
    BY <1>15 DEF Save, TypeQueue, ServerSet
  <2> QED
    BY <1>15, <2>1, <2>2, <2>3, SMTT(30) DEF Save, TypeBoard, boardVars, Latched, Working, Capturing
<1>16. DOMAIN services = 1 .. Len(services)
  BY Indices
<1> QED
  BY <1>1, <1>3, <1>5, <1>6, <1>7, <1>9, <1>10, <1>11, <1>12, <1>13, <1>14, <1>15, <1>16, SMTT(30)
  DEF WorkerStep, Capture

\* Every step keeps the types and the latch.
LEMMA NextTL == TLInv /\ [Next]_vars => TLInv'
<1>1. TLInv /\ UNCHANGED vars => TLInv'
  BY DEF TLInv, Types, TypeQueue, TypeWorker, TypeBoard, Latched, vars
<1> QED
  BY <1>1, WorkerTL, HandlersTL, ProcessTL, BoardTL, SMTT(30) DEF Next

\* The types and the latch always hold.
LEMMA AlwaysTL == Spec => []TLInv
<1>1. Init => TLInv
  BY InitTL
<1>2. TLInv /\ [Next]_vars => TLInv'
  BY NextTL
<1> QED
  BY <1>1, <1>2, PTL DEF Spec

----------------------------------------------------------------------------
(* No automatic recovery.                                                  *)

\* Only CaptureStart gives the worker a new run.
LEMMA RunChanges ==
    ASSUME TLInv, [Next]_vars
    PROVE  worker'.run = worker.run \/ worker'.run = 0 \/ CaptureStart
<1>0. worker \in WorkerSet
  BY DEF TLInv, Types, TypeWorker
<1>1. \A pc : Goto(pc) => worker'.run = worker.run
  BY <1>0 DEF Goto, WorkerSet
<1>2. \A thr : Pass(thr) => worker'.run = 0
  BY DEF Pass, NewWorker
<1>3. NewWorker.run = 0 /\ \A pc : [NewWorker EXCEPT !.pc = pc].run = 0
  BY DEF NewWorker
<1>4. CASE UNCHANGED worker
  BY <1>4
<1>5. CASE WorkerStep
  <2>1. CASE WorkerTakes \/ WorkerLeaves \/ WorkReuses \/ WorkRefused \/ SaveFails
             \/ \E status \in {"complete", "failed"} : Bundle(status)
    BY <1>1, <2>1 DEF WorkerTakes, WorkerLeaves, WorkReuses, WorkRefused, SaveFails, Bundle
  <2>2. CASE WorkCaptures \/ \E tick \in {0, 1} : Register(tick)
    BY <1>1, <1>2, <2>2 DEF WorkCaptures, Register
  <2>3. CASE RegisterFails \/ CaptureFails \/ Save
    BY <1>3, <2>3, ZenonT(60) DEF RegisterFails, CaptureFails, Latch, Save
  <2>4. CASE CapturePreflight \/ CaptureFinish \/ CaptureFinalPreflight \/ CaptureFinalProbe
    BY <1>1, <2>4 DEF CapturePreflight, CaptureFinish, CaptureFinalPreflight, CaptureFinalProbe
  <2>5. CASE CaptureProbe \/ CaptureReply \/ \E i \in DOMAIN services : CaptureConnect(i)
    BY <1>0, <2>5, ZenonT(60) DEF CaptureProbe, CaptureReply, CaptureConnect, WorkerSet
  <2> QED
    BY <1>5, <2>1, <2>2, <2>3, <2>4, <2>5, SMTT(30) DEF WorkerStep, Capture
<1>6. CASE Handlers
  BY <1>6, ZenonT(60) DEF Handlers, Submit, SubmitRemote, Accept, CancelRemotePending, Reconnect, Shutdown
<1>7. CASE Process
  BY <1>3, <1>7, ZenonT(60) DEF Process, Close, ProcessEnds, ServerStarts
<1>8. CASE Board
  <2>1. ASSUME NEW i \in DOMAIN services, NEW good \in BOOLEAN, ServiceServes(i, good)
        PROVE  worker'.run = worker.run
    BY <1>0, <2>1 DEF ServiceServes, WorkerSet
  <2> QED
    BY <1>8, <2>1, ZenonT(60) DEF Board, ServiceListens, ServiceEnds, ServiceRunFails, ServiceCompletes,
                      ForeignRequests, ForeignStarts, Reboot
<1> QED
  BY <1>4, <1>5, <1>6, <1>7, <1>8, SMTT(30) DEF Next, vars

\* hardware.py and server.py start no service on a board that failed before an
\* explicit reconnect or restart admits it again: whatever jobs arrive, the
\* latch stays and no capture passes it.
THEOREM LatchIsKept == Spec => NoAutomaticRecovery
<1>1. TLInv /\ [Next]_vars => [(worker.run # worker'.run /\ worker'.run # 0) => ~faulted]_vars
  <2> SUFFICES ASSUME TLInv, [Next]_vars, worker.run # worker'.run, worker'.run # 0
               PROVE  ~faulted
    OBVIOUS
  <2>1. CaptureStart
    BY RunChanges
  <2>2. worker.pc \in Capturing
    BY <2>1 DEF CaptureStart, At, Capturing
  <2> QED
    BY <2>2 DEF TLInv, Latched
<1> QED
  BY <1>1, AlwaysTL, PTL DEF Spec, NoAutomaticRecovery

----------------------------------------------------------------------------
(* Ownership.                                                              *)

\* Transactions are only added.
Grow ==
    /\ Len(txns) \in Nat /\ Len(txns') \in Nat /\ Len(txns) <= Len(txns')
    /\ \A e \in 1 .. Len(txns) : txns'[e] = txns[e]

\* The board only adds transactions.
LEMMA Grows ==
    ASSUME TypeBoard, txns' = txns \/ \E t \in TxnSet : txns' = Append(txns, t)
    PROVE  Grow
  BY Indices, AppendProperties, SMTT(30) DEF TypeBoard, Grow

\* Logs that stay, or are lost, tell only of transactions of their own service.
LEMMA LogsKept ==
    ASSUME LogsOwn, Grow, Len(services) \in Nat, Len(services') \in Nat,
           \A j \in 1 .. Len(services') :
              \/ services'[j].log = <<>>
              \/ j <= Len(services) /\ services'[j].log = services[j].log
    PROVE  LogsOwn'
<1> SUFFICES ASSUME NEW j \in 1 .. Len(services'), NEW k \in 1 .. Len(services'[j].log)
             PROVE  LET e == services'[j].log[k]
                    IN  /\ e.epoch \in 1 .. Len(txns')
                        /\ \/ txns'[e.epoch] = Wrong
                           \/ txns'[e.epoch].run = j /\ txns'[e.epoch].thr = e.thr
  BY DEF LogsOwn, Wrong
<1>1. services'[j].log # <<>>
  BY EmptySeq
<1>2. j \in 1 .. Len(services) /\ services'[j].log = services[j].log
  BY <1>1
<1> QED
  BY <1>2, SMTT(30) DEF LogsOwn, Grow

\* A kept capture stays what it was.
LEMMA DiskKept ==
    ASSUME DiskOwn, Grow, UNCHANGED disk
    PROVE  DiskOwn'
<1> SUFFICES ASSUME NEW c \in disk
             PROVE  /\ c.epoch \in 1 .. Len(txns')
                    /\ c.epoch = c.admitted + 1
                    /\ txns'[c.epoch] = [by |-> "server", run |-> c.run, thr |-> c.thr]
  BY ZenonT(60) DEF DiskOwn
<1>1. /\ c.epoch \in 1 .. Len(txns)
      /\ c.epoch = c.admitted + 1
      /\ txns[c.epoch] = [by |-> "server", run |-> c.run, thr |-> c.thr]
  BY DEF DiskOwn
<1>2. txns'[c.epoch] = txns[c.epoch]
  BY <1>1 DEF Grow
<1>3. c.epoch \in 1 .. Len(txns')
  BY <1>1 DEF Grow
<1> QED
  BY <1>1, <1>2, <1>3

\* A reply stays what it was.
LEMMA ReplyKept ==
    ASSUME ReplyOwn, RunOwn, Grow, UNCHANGED worker
    PROVE  ReplyOwn' /\ RunOwn'
  BY DEF ReplyOwn, RunOwn, Grow

\* A step of the board, or of another tool, that the worker does not notice.
LEMMA BoardQuiet ==
    ASSUME TLInv, Owned, UNCHANGED <<worker, disk>>, Grow,
           Len(services') \in Nat, Len(services) <= Len(services'),
           \A j \in 1 .. Len(services') :
              \/ services'[j].log = <<>>
              \/ j <= Len(services) /\ services'[j].log = services[j].log,
           \A j \in 1 .. Len(services) :
              services'[j].state = "busy" /\ services'[j].by = "server" =>
                services'[j] = services[j]
    PROVE  Owned'
<1>0. Len(services) \in Nat /\ worker.conn \in Nat /\ worker.run \in Nat
  BY Indices DEF TLInv, Types, TypeWorker, WorkerSet
<1>1. LogsOwn'
  BY <1>0, LogsKept DEF Owned
<1>2. ConnOwn'
  BY <1>0 DEF Owned, ConnOwn
<1> QED
  BY <1>1, <1>2, DiskKept, ReplyKept, SMTT(30) DEF Owned

\* serve_one: a new transaction, logged by its service and, when the server
\* asked for it and still waits, reported to the worker.
LEMMA ServedOwned ==
    ASSUME TLInv, Owned, NEW i \in 1 .. Len(services), NEW good \in BOOLEAN,
           ServiceServes(i, good)
    PROVE  Owned'
<1> DEFINE s == services[i]
           n == Len(txns) + 1
           e == [thr |-> s.thr, epoch |-> n]
           t == IF good THEN [by |-> s.by, run |-> i, thr |-> s.thr] ELSE Wrong
           r == [s EXCEPT !.state = "served", !.log = Append(s.log, e)]
<1>0. /\ TypeBoard /\ TypeWorker /\ worker \in WorkerSet
      /\ Len(services) \in Nat /\ Len(txns) \in Nat /\ s \in ServiceSet
  BY Indices DEF TLInv, Types, TypeWorker
<1>1. t \in TxnSet
  <2>1. [by |-> s.by, run |-> i, thr |-> s.thr] \in TxnSet
    BY <1>0 DEF ServiceSet, TxnSet
  <2>2. Wrong \in TxnSet
    BY CaptureAssumption DEF Wrong, TxnSet, Callers
  <2> QED
    BY <2>1, <2>2
<1>2. txns' = Append(txns, t)
  BY DEF ServiceServes, Epoch
<1>3. /\ Grow /\ Len(txns') = n /\ txns'[n] = t
  BY <1>0, <1>1, <1>2, Grows, AppendProperties, SMTT(30) DEF TypeBoard
<1>4. e \in LogSet /\ s.log \in Seq(LogSet)
  BY <1>0, SMTT(30) DEF LogSet, ServiceSet
<1>5. /\ OthersKept(i) /\ services'[i] = r
  BY <1>0, Served, ZenonT(60) DEF Becomes, Epoch
<1>6. r.log = Append(s.log, e) /\ r.state = "served"
  BY <1>0 DEF ServiceSet
<1>a. /\ Len(s.log) \in Nat
      /\ Len(services'[i].log) = Len(s.log) + 1
      /\ \A k \in 1 .. Len(s.log) : services'[i].log[k] = s.log[k]
      /\ services'[i].log[Len(s.log) + 1] = e
  <2> HIDE DEF e, s, r
  <2>1. Len(s.log) \in Nat
    BY <1>4, LenProperties
  <2>2. services'[i].log = Append(s.log, e)
    BY <1>5, <1>6, SMTT(30)
  <2> QED
    BY <1>4, <2>1, <2>2, AppendProperties
<1>7. LogsOwn'
  <2> SUFFICES ASSUME NEW j \in 1 .. Len(services'), NEW k \in 1 .. Len(services'[j].log)
               PROVE  LET x == services'[j].log[k]
                      IN  /\ x.epoch \in 1 .. Len(txns')
                          /\ \/ txns'[x.epoch] = Wrong
                             \/ txns'[x.epoch].run = j /\ txns'[x.epoch].thr = x.thr
    BY DEF LogsOwn, Wrong
  <2>1. j \in 1 .. Len(services)
    BY <1>5, SMTT(30) DEF OthersKept
  <2>2. CASE j # i \/ k <= Len(s.log)
    <3>1. k \in 1 .. Len(services[j].log) /\ services'[j].log[k] = services[j].log[k]
      <4>1. CASE j # i
        BY <1>5, <2>1, <4>1, SMTT(30) DEF OthersKept
      <4>2. CASE j = i
        BY <1>a, <2>2, <4>2
      <4> QED
        BY <4>1, <4>2
    <3>2. PICK x : x = services[j].log[k]
      BY SMTT(30)
    <3>3. /\ x.epoch \in 1 .. Len(txns)
          /\ txns[x.epoch] = Wrong \/ (txns[x.epoch].run = j /\ txns[x.epoch].thr = x.thr)
      BY <2>1, <3>1, <3>2, ZenonT(60) DEF Owned, LogsOwn
    <3>4. x.epoch \in 1 .. Len(txns') /\ txns'[x.epoch] = txns[x.epoch]
      BY <1>3, <3>3 DEF Grow
    <3> QED
      BY <3>1, <3>2, <3>3, <3>4, SMTT(30)
  <2>3. CASE j = i /\ k > Len(s.log)
    <3>1. services'[j].log[k] = e
      <4>1. k = Len(s.log) + 1
        BY <1>a, <2>3
      <4> QED
        BY <1>a, <2>3, <4>1, SMTT(30)
    <3>2. e.epoch = n /\ e.thr = s.thr
      OBVIOUS
    <3>3. t = Wrong \/ (t.run = i /\ t.thr = s.thr)
      OBVIOUS
    <3>4. n \in 1 .. Len(txns')
      BY <1>0, <1>3
    <3> HIDE DEF e, t, n, s
    <3> QED
      BY <1>3, <2>3, <3>1, <3>2, <3>3, <3>4, SMTT(30)
  <2> QED
    BY <2>2, <2>3, SMTT(30)
<1>8. DiskOwn'
  BY <1>3, DiskKept DEF Owned, ServiceServes, storeVars
<1>9. CASE UNCHANGED worker
  <2>1. ReplyOwn' /\ RunOwn'
    BY <1>3, <1>9, ReplyKept, SMTT(30) DEF Owned
  <2>2. ConnOwn'
    <3>1. /\ worker.conn \in Nat /\ worker.run \in Nat
          /\ Len(services') = Len(services)
          /\ services'[i].state = "served"
      BY <1>0, <1>5, <1>6 DEF OthersKept, WorkerSet
    <3>2. \A j \in 1 .. Len(services) : j # i => services'[j] = services[j]
      BY <1>5 DEF OthersKept
    <3> HIDE DEF s, r
    <3> QED
      BY <1>0, <1>9, <3>1, <3>2, SMTT(30) DEF Owned, ConnOwn
  <2> QED
    BY <1>7, <1>8, <2>1, <2>2, SMTT(30) DEF Owned
<1>10. CASE worker' # worker
  <2>1. /\ s.by = "server" /\ worker.conn = i
        /\ worker' = [worker EXCEPT !.reply = [ok |-> TRUE, epoch |-> n, good |-> good]]
    BY <1>10 DEF ServiceServes, Epoch
  <2>2. /\ worker'.pc = worker.pc /\ worker'.run = worker.run /\ worker'.conn = worker.conn
        /\ worker'.thr = worker.thr /\ worker'.epoch = worker.epoch
        /\ worker'.reply = [ok |-> TRUE, epoch |-> n, good |-> good]
    BY <1>0, <2>1 DEF WorkerSet
  <2>3. worker.pc = "reply" /\ s.thr = worker.thr
    BY <1>0, <2>1 DEF Owned, ConnOwn, ServiceServes
  <2>4. ConnOwn'
    BY <1>0, <1>5, <1>6, <2>1, <2>2, <2>3, ZenonT(60) DEF Owned, ConnOwn, OthersKept
  <2>5. good => t = [by |-> "server", run |-> i, thr |-> worker.thr]
    BY <2>1, <2>3
  <2>6. ReplyOwn' /\ RunOwn'
    BY <1>0, <1>3, <2>2, <2>3, <2>5, SMTT(30) DEF ReplyOwn, RunOwn
  <2> QED
    BY <1>7, <1>8, <2>4, <2>6, SMTT(30) DEF Owned
<1> QED
  BY <1>9, <1>10

\* The board and other tools do not change whose a capture is.
LEMMA BoardOwned == TLInv /\ Owned /\ Board => Owned'
<1> SUFFICES ASSUME TLInv, Owned, Board PROVE Owned'
  OBVIOUS
<1>0. /\ TypeBoard /\ TypeWorker
      /\ DOMAIN services = 1 .. Len(services) /\ Len(services) \in Nat
      /\ \A j \in 1 .. Len(services) : services[j] \in ServiceSet
  BY Indices DEF TLInv, Types
<1>w. Wrong \in TxnSet
  BY CaptureAssumption DEF Wrong, TxnSet, Callers
\* One service moves: its log is kept or emptied, and it is not made busy for
\* the server.
<1>1. ASSUME NEW i \in 1 .. Len(services), NEW r \in ServiceSet, Becomes(i, r),
             r.log = <<>> \/ r.log = services[i].log, r.state # "busy" \/ r.by # "server",
             UNCHANGED <<worker, disk>>, Grow
      PROVE  Owned'
  <2>1. Len(services') = Len(services)
    BY <1>1 DEF Becomes, OthersKept
  <2>2. \A j \in 1 .. Len(services) :
          services'[j].log = <<>> \/ services'[j].log = services[j].log
    BY <1>1 DEF Becomes, OthersKept
  <2>3. \A j \in 1 .. Len(services) :
          services'[j].state = "busy" /\ services'[j].by = "server" => services'[j] = services[j]
    BY <1>1 DEF Becomes, OthersKept
  <2> QED
    BY <1>0, <1>1, <2>1, <2>2, <2>3, BoardQuiet, SMTT(30)
<1>2. ASSUME NEW i \in 1 .. Len(services), ServiceListens(i) PROVE Owned'
  <2> DEFINE r == [services[i] EXCEPT !.state = "listening"]
  <2>1. Becomes(i, r)
    BY <1>0, <1>2, Listened
  <2>2. r \in ServiceSet /\ r.log = services[i].log /\ r.state # "busy"
    BY <1>0 DEF ServiceSet
  <2>3. Grow /\ UNCHANGED <<worker, disk>>
    BY <1>0, <1>2, Grows DEF ServiceListens, storeVars
  <2> HIDE DEF r
  <2> QED
    BY <1>1, <2>1, <2>2, <2>3
<1>3. ASSUME NEW i \in 1 .. Len(services), ServiceEnds(i) \/ ServiceRunFails(i) PROVE Owned'
  <2>1. Becomes(i, Broken(services[i]))
    BY <1>0, <1>3, ServiceOver
  <2>2. /\ Broken(services[i]) \in ServiceSet /\ Broken(services[i]).log = <<>>
        /\ Broken(services[i]).state # "busy"
    BY <1>0, BrokenTyped
  <2>3. Grow /\ UNCHANGED <<worker, disk>>
    BY <1>0, <1>3, <1>w, Grows, SMTT(30) DEF ServiceEnds, ServiceRunFails, storeVars
  <2> QED
    BY <1>1, <2>1, <2>2, <2>3
<1>4. ASSUME NEW i \in 1 .. Len(services), ServiceCompletes(i) PROVE Owned'
  <2>1. PICK r \in ServiceSet : Becomes(i, r) /\ r.log = services[i].log /\ r.state # "busy"
    BY <1>0, <1>4, Completed
  <2>2. Grow /\ UNCHANGED <<worker, disk>>
    BY <1>0, <1>4, Grows DEF ServiceCompletes, storeVars
  <2> QED
    BY <1>1, <2>1, <2>2
<1>5. ASSUME NEW i \in 1 .. Len(services), ForeignRequests(i) PROVE Owned'
  <2> DEFINE r == [services[i] EXCEPT !.state = "busy", !.by = "foreign", !.thr = 0]
  <2>1. Becomes(i, r)
    BY <1>0, <1>5, Asked, ZenonT(60)
  <2>2. r \in ServiceSet /\ r.log = services[i].log /\ r.by # "server"
    BY <1>0, CaptureAssumption, ZenonT(60) DEF ServiceSet, Callers
  <2>3. Grow /\ UNCHANGED <<worker, disk>>
    BY <1>0, <1>5, Grows, SMTT(30) DEF ForeignRequests, storeVars
  <2> HIDE DEF r
  <2> QED
    BY <1>1, <2>1, <2>2, <2>3, SMTT(30)
<1>6. ASSUME ForeignStarts PROVE Owned'
  <2>1. /\ Len(services') = Len(services) + 1
        /\ \A j \in 1 .. Len(services) : services'[j] = services[j]
        /\ services'[Len(services) + 1].log = <<>>
    BY <1>0, <1>6, Started DEF ForeignStarts
  <2>2. Grow /\ UNCHANGED <<worker, disk>>
    BY <1>0, <1>6, Grows DEF ForeignStarts, storeVars
  <2> QED
    BY <1>0, <2>1, <2>2, BoardQuiet, SMTT(30)
<1>7. ASSUME Reboot PROVE Owned'
  <2>1. Grow /\ UNCHANGED <<worker, disk>>
    BY <1>0, <1>7, Grows DEF Reboot, storeVars
  <2>2. /\ Len(services') = Len(services)
        /\ \A j \in 1 .. Len(services) :
             services'[j].log = <<>> /\ services'[j].state # "busy"
    BY <1>0, <1>7, Rebooted
  <2> QED
    BY <1>0, <2>1, <2>2, BoardQuiet
<1>8. ASSUME NEW i \in 1 .. Len(services), NEW good \in BOOLEAN, ServiceServes(i, good)
      PROVE  Owned'
  BY <1>8, ServedOwned
<1> QED
  BY <1>0, <1>2, <1>3, <1>4, <1>5, <1>6, <1>7, <1>8, SMTT(30) DEF Board

\* What the logs of the services say is about the board alone.
LEMMA LogsStay ==
    ASSUME LogsOwn, UNCHANGED <<services, txns>>
    PROVE  LogsOwn'
<1> SUFFICES ASSUME NEW j \in 1 .. Len(services'), NEW k \in 1 .. Len(services'[j].log)
             PROVE  LET e == services'[j].log[k]
                    IN  /\ e.epoch \in 1 .. Len(txns')
                        /\ \/ txns'[e.epoch] = Wrong
                           \/ txns'[e.epoch].run = j /\ txns'[e.epoch].thr = e.thr
  BY ZenonT(60) DEF LogsOwn, Wrong
<1>1. j \in 1 .. Len(services) /\ k \in 1 .. Len(services[j].log)
  OBVIOUS
<1>2. LET e == services[j].log[k]
      IN  /\ e.epoch \in 1 .. Len(txns)
          /\ \/ txns[e.epoch] = Wrong
             \/ txns[e.epoch].run = j /\ txns[e.epoch].thr = e.thr
  BY <1>1, ZenonT(60) DEF LogsOwn
<1> QED
  BY <1>2, ZenonT(60)

\* What the store says is about the transactions and the store alone.
LEMMA DiskStays ==
    ASSUME DiskOwn, UNCHANGED <<txns, disk>>
    PROVE  DiskOwn'
  BY ZenonT(60) DEF DiskOwn

\* The worker moves on with the same capture, the board and the store as they
\* were.  Past the log of its service it must know the run.
LEMMA WorkerMoves ==
    ASSUME TLInv, Owned, UNCHANGED <<services, txns, disk>>,
           worker'.run = worker.run, worker'.thr = worker.thr, worker'.reply = worker.reply,
           worker'.conn = worker.conn \/ worker'.conn = 0,
           worker'.conn # 0 => worker'.pc = "reply",
           worker'.pc \in {"connect", "reply", "finish", "final_preflight", "final_probe", "register"} =>
              worker'.run # 0,
           worker'.pc \in {"finish", "final_preflight", "final_probe", "register"} =>
              worker'.reply.ok /\ worker'.reply.epoch = worker'.epoch + 1,
           worker'.pc \in {"final_preflight", "final_probe", "register"} /\ worker.reply.good =>
              txns[worker.reply.epoch] =
                [by |-> "server", run |-> worker.run, thr |-> worker.thr]
    PROVE  Owned'
<1>0. Len(services) \in Nat
  BY Indices, SMTT(30) DEF TLInv, Types
<1>1. LogsOwn' /\ DiskOwn'
  BY LogsStay, DiskStays DEF Owned
<1>2. ConnOwn'
  BY <1>0 DEF Owned, ConnOwn
<1>3. ReplyOwn' /\ RunOwn'
  BY DEF Owned, ReplyOwn, RunOwn
<1> QED
  BY <1>1, <1>2, <1>3 DEF Owned

\* The worker forgets its capture.
LEMMA WorkerForgets ==
    ASSUME TLInv, Owned, UNCHANGED <<services, txns>>, DiskOwn',
           worker'.run = 0, worker'.conn = 0, ~worker'.reply.ok, ~worker'.reply.good,
           worker'.pc \notin {"connect", "reply", "finish", "final_preflight", "final_probe", "register"}
    PROVE  Owned'
<1>0. Len(services) \in Nat
  BY Indices, SMTT(30) DEF TLInv, Types
<1>1. LogsOwn'
  BY LogsStay DEF Owned
<1>2. ConnOwn' /\ ReplyOwn' /\ RunOwn'
  BY <1>0 DEF ConnOwn, ReplyOwn, RunOwn
<1> QED
  BY <1>1, <1>2 DEF Owned

\* A worker between two jobs has no service, connection or reply.
LEMMA Fresh ==
    /\ NewWorker.pc = "wait" /\ NewWorker.run = 0 /\ NewWorker.conn = 0
    /\ ~NewWorker.reply.ok /\ ~NewWorker.reply.good
    /\ \A pc : LET w == [NewWorker EXCEPT !.pc = pc]
               IN  w.pc = pc /\ w.run = 0 /\ w.conn = 0 /\ ~w.reply.ok /\ ~w.reply.good
    /\ \A thr : LET w == [NewWorker EXCEPT !.pc = "preflight", !.thr = thr]
                IN  w.pc = "preflight" /\ w.run = 0 /\ w.conn = 0 /\ ~w.reply.ok /\ ~w.reply.good
  BY DEF NewWorker, NoReply

\* Hardware.capture reads the exit code and the log of the service it started:
\* the reply is that of the transaction this very service ran.
LEMMA FinishKnowsRun ==
    ASSUME TLInv, Owned, CaptureFinish, worker.reply.good
    PROVE  txns[worker.reply.epoch] =
             [by |-> "server", run |-> worker.run, thr |-> worker.thr]
<1> DEFINE n == worker.reply.epoch
           e == [thr |-> worker.thr, epoch |-> n]
<1>0. /\ TypeBoard /\ Len(services) \in Nat /\ Len(txns) \in Nat
      /\ worker.run \in Nat /\ worker.thr \in Thresholds
  BY Indices DEF TLInv, Types, TypeWorker, WorkerSet
<1>1. worker.pc = "finish" /\ services[worker.run].log = <<e>>
  BY DEF CaptureFinish, At, ServiceAgrees
<1>2. worker.run \in 1 .. Len(services)
  BY <1>0, <1>1, SMTT(30) DEF Owned, ConnOwn
<1>3. n \in 1 .. Len(txns) /\ txns[n].by = "server" /\ txns[n].thr = worker.thr
  BY <1>1 DEF Owned, ReplyOwn
<1>4. Len(services[worker.run].log) = 1 /\ services[worker.run].log[1] = e
  BY <1>1, SMTT(30)
<1>5. txns[e.epoch] = Wrong \/ (txns[e.epoch].run = worker.run /\ txns[e.epoch].thr = e.thr)
  BY <1>2, <1>4 DEF Owned, LogsOwn
<1>6. txns[n] # Wrong
  BY <1>3 DEF Wrong
<1>7. txns[n].run = worker.run
  BY <1>5, <1>6, SMTT(30)
<1>8. txns[n] \in TxnSet
  BY <1>0, <1>3, ElementOfSeq DEF TypeBoard
<1>9. PICK t \in TxnSet : t = txns[n]
  BY <1>8
<1>10. t.by = "server" /\ t.run = worker.run /\ t.thr = worker.thr
  BY <1>3, <1>7, <1>9, SMTT(30)
<1>11. t = [by |-> "server", run |-> worker.run, thr |-> worker.thr]
  BY <1>10 DEF TxnSet
<1> QED
  BY <1>9, <1>11

\* The worker keeps a capture only when it is its own.
LEMMA WorkerOwned == TLInv /\ Owned /\ WorkerStep => Owned'
<1> SUFFICES ASSUME TLInv, Owned, WorkerStep PROVE Owned'
  OBVIOUS
<1>0. /\ TypeBoard /\ TypeWorker /\ worker \in WorkerSet
      /\ DOMAIN services = 1 .. Len(services) /\ Len(services) \in Nat /\ Len(txns) \in Nat
      /\ worker.conn # 0 => worker.pc = "reply"
  BY Indices DEF TLInv, Types, TypeWorker, Owned, ConnOwn
<1>g. ASSUME NEW pc, Goto(pc)
      PROVE  /\ worker'.pc = pc /\ worker'.run = worker.run /\ worker'.thr = worker.thr
             /\ worker'.reply = worker.reply /\ worker'.conn = worker.conn
             /\ worker'.epoch = worker.epoch
  BY <1>0, <1>g DEF Goto, WorkerSet
<1>d. UNCHANGED <<txns, disk>> => DiskOwn'
  BY ZenonT(60) DEF Owned, DiskOwn
\* Steps without a reply to look after.
<1>1. ASSUME NEW pc \in {"work", "gone", "bundle", "save", "dead", "probe"}, Goto(pc),
             worker.pc # "reply", UNCHANGED storeVars, UNCHANGED boardVars
      PROVE  Owned'
  BY <1>0, <1>1, <1>g, WorkerMoves, SMTT(30) DEF storeVars, boardVars
<1>2. ASSUME \/ WorkerTakes \/ WorkerLeaves \/ WorkReuses \/ WorkRefused \/ SaveFails
             \/ CapturePreflight \/ \E status \in {"complete", "failed"} : Bundle(status)
      PROVE  Owned'
  BY <1>1, <1>2 DEF WorkerTakes, WorkerLeaves, WorkReuses, WorkRefused, SaveFails,
                    CapturePreflight, Bundle, At
<1>3. ASSUME CaptureFails \/ RegisterFails PROVE Owned'
  <2>1. /\ worker' = [NewWorker EXCEPT !.pc = "save"]
        /\ UNCHANGED <<services, txns, disk>>
    BY <1>3 DEF CaptureFails, RegisterFails, Latch, storeVars, boardVars
  <2> QED
    BY <2>1, <1>d, WorkerForgets, Fresh
<1>4. ASSUME Save PROVE Owned'
  BY <1>4, <1>d, WorkerForgets, Fresh, SMTT(30) DEF Save, storeVars, boardVars
<1>5. ASSUME WorkCaptures PROVE Owned'
  BY <1>5, <1>d, WorkerForgets, Fresh, SMTT(30) DEF WorkCaptures, Pass, storeVars, boardVars
<1>6. ASSUME CaptureProbe PROVE Owned'
  <2>1. /\ worker'.pc = "start" /\ worker'.run = worker.run /\ worker'.thr = worker.thr
        /\ worker'.reply = worker.reply /\ worker'.conn = worker.conn
    BY <1>0, <1>6 DEF CaptureProbe, WorkerSet
  <2> QED
    BY <1>0, <1>6, <2>1, WorkerMoves DEF CaptureProbe, At, storeVars, boardVars
<1>7. ASSUME CaptureStart PROVE Owned'
  <2>1. /\ Len(services') = Len(services) + 1
        /\ \A j \in 1 .. Len(services) : services'[j] = services[j]
        /\ services'[Len(services) + 1].log = <<>>
    BY <1>0, <1>7, Started, SMTT(30) DEF CaptureStart
  <2>2. Grow
    BY <1>0, <1>7, Grows DEF CaptureStart
  <2>3. LogsOwn' /\ DiskOwn'
    BY <1>0, <1>7, <2>1, <2>2, LogsKept, DiskKept, SMTT(30) DEF Owned, CaptureStart, storeVars
  <2>4. /\ worker'.pc = "connect" /\ worker'.run = Len(services) + 1 /\ worker'.conn = worker.conn
        /\ worker'.thr = worker.thr /\ worker'.reply = worker.reply /\ worker.conn = 0
        /\ worker'.conn = 0
    BY <1>0, <1>7 DEF CaptureStart, At, WorkerSet
  <2>5. ConnOwn'
    BY <1>0, <2>1, <2>4, SMTT(30) DEF ConnOwn
  <2>6. ReplyOwn' /\ RunOwn'
    BY <1>7, <2>4 DEF Owned, ReplyOwn, RunOwn, CaptureStart
  <2> QED
    BY <2>3, <2>5, <2>6 DEF Owned
<1>8. ASSUME NEW i \in 1 .. Len(services), CaptureConnect(i) PROVE Owned'
  <2> DEFINE r == [services[i] EXCEPT !.state = "busy", !.by = "server", !.thr = worker.thr]
  <2>1. OthersKept(i) /\ services'[i] = r
    BY <1>0, <1>8, Connected, ZenonT(60) DEF Becomes
  <2>2. services[i] \in ServiceSet
    BY <1>0, Indices
  <2>3. r.log = services[i].log /\ r.thr = worker.thr
    BY <2>2 DEF ServiceSet
  <2> HIDE DEF r
  <2>4. Grow
    BY <1>0, <1>8, Grows, SMTT(30) DEF CaptureConnect
  <2>5. LogsOwn' /\ DiskOwn'
    BY <1>0, <1>8, <2>1, <2>3, <2>4, LogsKept, DiskKept, SMTT(30)
    DEF Owned, CaptureConnect, storeVars, OthersKept
  <2>6. /\ worker'.pc = "reply" /\ worker'.run = worker.run /\ worker'.conn = i
        /\ worker'.thr = worker.thr /\ worker'.reply = worker.reply
    BY <1>0, <1>8 DEF CaptureConnect, WorkerSet
  <2>7. worker.pc = "connect"
    BY <1>8 DEF CaptureConnect, At
  <2>8. ConnOwn'
    BY <1>0, <2>1, <2>3, <2>6, <2>7, SMTT(30) DEF Owned, ConnOwn, OthersKept
  <2>9. ReplyOwn' /\ RunOwn'
    BY <1>8, <2>6 DEF Owned, ReplyOwn, RunOwn, CaptureConnect
  <2> QED
    BY <2>5, <2>8, <2>9, SMTT(30) DEF Owned
<1>9. ASSUME CaptureReply PROVE Owned'
  <2>1. /\ worker'.pc = "finish" /\ worker'.run = worker.run /\ worker'.conn = 0
        /\ worker'.thr = worker.thr /\ worker'.reply = worker.reply /\ worker'.epoch = worker.epoch
    BY <1>0, <1>9 DEF CaptureReply, WorkerSet
  <2>2. worker.run # 0
    BY <1>9, SMTT(30) DEF CaptureReply, At, Owned, ConnOwn
  <2> QED
    BY <1>9, <2>1, <2>2, WorkerMoves DEF CaptureReply, ReplyAccepted, storeVars, boardVars
<1>10. ASSUME CaptureFinish PROVE Owned'
  <2>1. worker.pc = "finish" /\ Goto("final_preflight") /\ UNCHANGED <<services, txns, disk>>
    BY <1>10 DEF CaptureFinish, At, storeVars, boardVars
  <2>2. worker.run # 0 /\ worker.reply.ok /\ worker.reply.epoch = worker.epoch + 1
    BY <2>1 DEF Owned, ConnOwn, ReplyOwn
  <2>3. worker.reply.good =>
          txns[worker.reply.epoch] = [by |-> "server", run |-> worker.run, thr |-> worker.thr]
    BY <1>10, FinishKnowsRun, SMTT(30)
  <2> QED
    BY <1>0, <1>g, <2>1, <2>2, <2>3, WorkerMoves, SMTT(30)
<1>11. ASSUME CaptureFinalPreflight \/ CaptureFinalProbe PROVE Owned'
  <2>1. /\ worker.pc \in {"final_preflight", "final_probe"}
        /\ UNCHANGED <<services, txns, disk>>
        /\ Goto("final_probe") \/ Goto("register")
    BY <1>11, SMTT(30) DEF CaptureFinalPreflight, CaptureFinalProbe, At, storeVars, boardVars
  <2>2. /\ worker.run # 0 /\ worker.reply.ok /\ worker.reply.epoch = worker.epoch + 1
        /\ worker.conn = 0
        /\ worker.reply.good =>
             txns[worker.reply.epoch] = [by |-> "server", run |-> worker.run, thr |-> worker.thr]
    BY <1>0, <2>1 DEF Owned, ConnOwn, ReplyOwn, RunOwn
  <2> QED
    BY <1>0, <1>g, <2>1, <2>2, WorkerMoves, SMTT(30)
<1>12. ASSUME NEW tick \in {0, 1}, Register(tick) PROVE Owned'
  <2>1. /\ worker.pc = "register" /\ worker.reply.good /\ UNCHANGED <<services, txns>>
        /\ Goto("bundle") \/ Pass(Current.thr)
    BY <1>12 DEF Register, At, boardVars
  <2>2. /\ worker.reply.epoch \in 1 .. Len(txns)
        /\ worker.reply.epoch = worker.epoch + 1
        /\ txns[worker.reply.epoch] = [by |-> "server", run |-> worker.run, thr |-> worker.thr]
        /\ worker.conn = 0
    BY <1>0, <2>1, SMTT(30) DEF Owned, ReplyOwn, RunOwn
  <2>3. PICK c : /\ disk' = disk \cup {c}
                 /\ c = [run |-> worker.run, thr |-> worker.thr, admitted |-> worker.epoch,
                         epoch |-> worker.reply.epoch, at |-> Clock + tick]
    BY <1>12 DEF Register
  <2>4. c.run = worker.run /\ c.thr = worker.thr /\ c.admitted = worker.epoch
        /\ c.epoch = worker.reply.epoch
    BY <2>3
  <2>5. DiskOwn'
    <3>1. ASSUME NEW d \in disk'
          PROVE  /\ d.epoch \in 1 .. Len(txns) /\ d.epoch = d.admitted + 1
                 /\ txns[d.epoch] = [by |-> "server", run |-> d.run, thr |-> d.thr]
      <4>1. CASE d = c
        BY <2>2, <2>4, <4>1, SMTT(30)
      <4>2. CASE d \in disk
        BY <4>2 DEF Owned, DiskOwn
      <4> QED
        BY <2>3, <3>1, <4>1, <4>2, SMTT(30)
    <3> QED
      BY <2>1, <3>1, ZenonT(60) DEF DiskOwn
  <2>6. CASE Pass(Current.thr)
    BY <2>1, <2>5, <2>6, WorkerForgets, Fresh, SMTT(30) DEF Pass
  <2>7. CASE Goto("bundle")
    <3>1. /\ worker'.pc = "bundle" /\ worker'.run = worker.run /\ worker'.thr = worker.thr
          /\ worker'.reply = worker.reply /\ worker'.conn = 0
      BY <1>g, <2>2, <2>7, SMTT(30)
    <3>2. services' = services /\ txns' = txns
      BY <2>1
    <3>3. LogsOwn'
      BY <3>2, LogsStay DEF Owned
    <3>4. ConnOwn'
      <4>1. worker.run <= Len(services) /\ 0 <= Len(services)
        BY <1>0 DEF Owned, ConnOwn
      <4> QED
        BY <3>1, <3>2, <4>1, SMTT(30) DEF ConnOwn
    <3>5. ReplyOwn' /\ RunOwn'
      <4>1. ReplyOwn
        BY DEF Owned
      <4> QED
        BY <3>1, <3>2, <4>1, SMTT(30) DEF ReplyOwn, RunOwn
    <3> QED
      BY <2>5, <3>3, <3>4, <3>5, SMTT(30) DEF Owned
  <2> QED
    BY <2>1, <2>6, <2>7, SMTT(30)
<1> QED
  BY <1>0, <1>2, <1>3, <1>4, <1>5, <1>6, <1>7, <1>8, <1>9, <1>10, <1>11, <1>12, SMTT(30)
  DEF WorkerStep, Capture

\* Requests of clients, kills and restarts do not change whose a capture is.
LEMMA OthersOwned == TLInv /\ Owned /\ (Handlers \/ Process) => Owned'
<1> SUFFICES ASSUME TLInv, Owned, Handlers \/ Process PROVE Owned'
  OBVIOUS
<1>d. UNCHANGED <<txns, disk>> => DiskOwn'
  BY ZenonT(60) DEF Owned, DiskOwn
<1>1. ASSUME UNCHANGED <<worker, services, txns, disk>> PROVE Owned'
  BY <1>1, ZenonT(60) DEF Owned, LogsOwn, ConnOwn, ReplyOwn, RunOwn, DiskOwn, Wrong
<1>2. CASE Handlers \/ Close
  BY <1>1, <1>2, ZenonT(60) DEF Handlers, Submit, SubmitRemote, Accept, CancelRemotePending, Reconnect,
                    Shutdown, Close, storeVars, boardVars
<1>3. CASE ProcessEnds
  BY <1>3, <1>d, WorkerForgets, Fresh, SMTT(30) DEF ProcessEnds, boardVars
<1>4. CASE \E ok \in BOOLEAN : ServerStarts(ok)
  BY <1>4, <1>d, WorkerForgets, Fresh, SMTT(30) DEF ServerStarts, boardVars
<1> QED
  BY <1>2, <1>3, <1>4 DEF Process

\* Whose transaction it was is known in every state.
LEMMA AlwaysOwned == Spec => []Owned
<1>1. Init => Owned
  BY EmptySeq DEF Init, Owned, LogsOwn, ConnOwn, ReplyOwn, RunOwn, DiskOwn, NewWorker, NoReply
<1>2. TLInv /\ Owned /\ [Next]_vars => Owned'
  <2>1. ASSUME Owned, UNCHANGED vars PROVE Owned'
    <3> USE <2>1 DEF Owned, vars
    <3>1. LogsOwn' /\ ConnOwn'
      BY ZenonT(60) DEF LogsOwn, ConnOwn
    <3>2. ReplyOwn' /\ RunOwn' /\ DiskOwn'
      BY ZenonT(60) DEF ReplyOwn, RunOwn, DiskOwn
    <3> QED
      BY <3>1, <3>2
  <2> QED
    BY <2>1, WorkerOwned, OthersOwned, BoardOwned, SMTT(30) DEF Next
<1> QED
  BY <1>1, <1>2, AlwaysTL, PTL DEF Spec

\* server.py, hardware.py and data.py keep a capture only when it is the one
\* transaction between the two admissions, run by the service this capture
\* started, for its own threshold: whatever other tools, surviving services,
\* reboots, kills and restarts do in between.
THEOREM CapturesAreOwn == Spec => []CaptureIsOwn
<1>1. Owned => CaptureIsOwn
  BY ZenonT(60) DEF Owned, DiskOwn, CaptureIsOwn
<1> QED
  BY <1>1, AlwaysOwned, PTL

----------------------------------------------------------------------------
(* The newest capture.                                                     *)

\* A capture in progress began after every capture on disk.
Ahead ==
    worker.pc \in {"start", "connect", "reply", "finish", "final_preflight",
                   "final_probe", "register"} =>
        \A c \in disk : c.epoch <= worker.epoch

\* Epochs tell captures apart, the clock follows them, and the latest time and
\* the newest capture of each threshold exist.
Stored ==
    /\ \A c \in disk : c.at \in Nat /\ c.epoch \in Nat
    /\ \A c, d \in disk : c.epoch < d.epoch => c.at <= d.at
    /\ \A c, d \in disk : c.epoch = d.epoch => c = d
    /\ disk # {} => \E d \in disk : \A c \in disk : c.at <= d.at
    /\ \A c \in disk : \E d \in disk :
          d.thr = c.thr /\ \A e \in disk : e.thr = c.thr => e.epoch <= d.epoch

Newest == Ahead /\ Stored /\ LatestIsNewest

\* The clock is not behind any capture.
LEMMA ClockAhead ==
    ASSUME Stored
    PROVE  Clock \in Nat /\ \A c \in disk : c.at <= Clock
<1> DEFINE S == {0} \cup {c.at : c \in disk}
<1>1. \E x \in S : \A y \in S : x >= y
  <2>1. CASE disk = {}
    BY <2>1
  <2>2. CASE disk # {}
    <3>1. PICK d \in disk : \A c \in disk : c.at <= d.at
      BY <2>2 DEF Stored
    <3>2. d.at \in Nat /\ d.at \in S
      BY DEF Stored
    <3>3. \A y \in S : d.at >= y
      BY <3>1, <3>2 DEF Stored
    <3> QED
      BY <3>2, <3>3
  <2> QED
    BY <2>1, <2>2
<1>2. Clock = CHOOSE x \in S : \A y \in S : x >= y
  BY DEF Clock, Max
<1>3. Clock \in S /\ \A y \in S : Clock >= y
  BY <1>1, <1>2
<1>4. S \subseteq Nat
  BY DEF Stored
<1>5. \A c \in disk : c.at \in S
  OBVIOUS
<1> HIDE DEF S
<1> QED
  BY <1>3, <1>4, <1>5, ZenonT(60)

\* Restoring finds the newest capture of each threshold.
LEMMA RestoredNewest ==
    ASSUME Stored, latest' = Restore, disk' = disk
    PROVE  \A c \in disk : Have(c.thr)' /\ c.epoch <= latest'[c.thr].epoch
<1> SUFFICES ASSUME NEW c \in disk
             PROVE  Have(c.thr)' /\ c.epoch <= latest'[c.thr].epoch
  OBVIOUS
<1> DEFINE Last(d) == d.thr = c.thr /\ \A e \in disk : e.thr = c.thr => ~RestoredBefore(d, e)
<1>1. DOMAIN latest' = {d.thr : d \in disk}
  BY DEF Restore
<1>2. Have(c.thr)'
  BY <1>1 DEF Have
<1>3. latest'[c.thr] = CHOOSE d \in disk : Last(d)
  BY DEF Restore
<1>4. \E d \in disk : Last(d)
  <2>1. PICK d \in disk :
          d.thr = c.thr /\ \A e \in disk : e.thr = c.thr => e.epoch <= d.epoch
    BY DEF Stored
  <2>2. ASSUME NEW e \in disk, e.thr = c.thr PROVE ~RestoredBefore(d, e)
    <3>1. e.epoch <= d.epoch /\ e.epoch \in Nat /\ d.epoch \in Nat
          /\ e.at \in Nat /\ d.at \in Nat
      BY <2>1, <2>2 DEF Stored
    <3>2. e.epoch < d.epoch => e.at <= d.at
      BY DEF Stored
    <3>3. e.epoch = d.epoch => e = d
      BY DEF Stored
    <3>4. CASE e.epoch = d.epoch
      <4>1. e = d
        BY <3>3, <3>4
      <4> QED
        BY <3>1, <4>1 DEF RestoredBefore
    <3>5. CASE e.epoch < d.epoch
      BY <3>1, <3>2, <3>5 DEF RestoredBefore
    <3> QED
      BY <3>1, <3>4, <3>5
  <2> QED
    BY <2>1, <2>2
<1>5. PICK d \in disk : d = latest'[c.thr] /\ Last(d)
  <2> HIDE DEF Last
  <2> QED
    BY <1>3, <1>4
<1>6. ~RestoredBefore(d, c)
  BY <1>5
<1>7. /\ c.epoch \in Nat /\ d.epoch \in Nat /\ c.at \in Nat /\ d.at \in Nat
      /\ d.epoch < c.epoch => d.at <= c.at
  BY DEF Stored
<1>8. c.epoch <= d.epoch
  BY <1>6, <1>7 DEF RestoredBefore
<1> QED
  BY <1>2, <1>5, <1>8

\* A registered capture is the newest of all.
LEMMA RegisterNewest ==
    ASSUME TLInv, Owned, Newest, NEW tick \in {0, 1}, Register(tick)
    PROVE  Newest'
<1> DEFINE new == [run |-> worker.run, thr |-> worker.thr, admitted |-> worker.epoch,
                   epoch |-> worker.reply.epoch, at |-> Clock + tick]
<1>1. /\ worker.pc = "register" /\ disk' = disk \cup {new} /\ server' = server
      /\ latest' = [t \in DOMAIN latest \cup {worker.thr} |->
                      IF t = worker.thr THEN new ELSE latest[t]]
      /\ \/ worker'.pc = "bundle"
         \/ worker'.pc = "preflight"
  <2>1. worker \in WorkerSet
    BY DEF TLInv, Types, TypeWorker
  <2>2. worker' = [worker EXCEPT !.pc = "bundle"] => worker'.pc = "bundle"
    BY <2>1 DEF WorkerSet
  <2>3. [NewWorker EXCEPT !.pc = "preflight", !.thr = Current.thr].pc = "preflight"
    BY DEF NewWorker
  <2> QED
    BY <2>2, <2>3, Zenon DEF Register, At, Goto, Pass
<1>2. worker.reply.epoch = worker.epoch + 1 /\ worker.epoch \in Nat
  BY <1>1 DEF Owned, ReplyOwn, TLInv, Types, TypeWorker, WorkerSet
<1>3. Clock \in Nat /\ \A c \in disk : c.at <= Clock
  BY ClockAhead DEF Newest
<1>4. new.epoch \in Nat /\ new.at \in Nat /\ new.thr = worker.thr
  BY <1>2, <1>3
<1>5. \A c \in disk : c.epoch < new.epoch /\ c.at <= new.at
  <2>1. \A c \in disk : c.epoch <= worker.epoch /\ c.epoch \in Nat /\ c.at \in Nat
    BY <1>1 DEF Newest, Ahead, Stored
  <2>2. new.epoch = worker.epoch + 1 /\ new.at = Clock + tick
    BY <1>2
  <2> HIDE DEF new
  <2> QED
    BY <1>2, <1>3, <2>1, <2>2
<1> HIDE DEF new
<1>6. Ahead'
  BY <1>1 DEF Ahead
<1>7. Stored'
  <2>1. \A c \in disk' : c.at \in Nat /\ c.epoch \in Nat
    BY <1>1, <1>4 DEF Newest, Stored
  <2>2. ASSUME NEW c \in disk', NEW d \in disk'
        PROVE  /\ c.epoch < d.epoch => c.at <= d.at
               /\ c.epoch = d.epoch => c = d
    <3>1. CASE c \in disk /\ d \in disk
      BY <3>1 DEF Newest, Stored
    <3>2. CASE c \in disk /\ d = new
      BY <1>4, <1>5, <2>1, <3>2
    <3>3. CASE c = new /\ d \in disk
      BY <1>4, <1>5, <2>1, <3>3
    <3>4. CASE c = new /\ d = new
      BY <1>4, <3>4
    <3> QED
      BY <1>1, <3>1, <3>2, <3>3, <3>4
  <2>3. new \in disk' /\ \A c \in disk' : c.at <= new.at
    BY <1>1, <1>4, <1>5
  <2>4. ASSUME NEW c \in disk'
        PROVE  \E d \in disk' :
                 d.thr = c.thr /\ \A e \in disk' : e.thr = c.thr => e.epoch <= d.epoch
    <3>1. CASE c.thr = worker.thr
      <4>1. \A e \in disk' : e.epoch <= new.epoch
        BY <1>1, <1>4, <1>5, <2>1
      <4> QED
        BY <1>4, <2>3, <3>1, <4>1
    <3>2. CASE c.thr # worker.thr
      <4>1. c \in disk
        BY <1>1, <1>4, <3>2
      <4>2. PICK d \in disk :
              d.thr = c.thr /\ \A e \in disk : e.thr = c.thr => e.epoch <= d.epoch
        BY <4>1 DEF Newest, Stored
      <4>3. \A e \in disk' : e.thr = c.thr => e \in disk
        BY <1>1, <1>4, <3>2
      <4> QED
        BY <1>1, <4>2, <4>3
    <3> QED
      BY <3>1, <3>2
  <2> QED
    BY <2>1, <2>2, <2>3, <2>4 DEF Stored
<1>8. LatestIsNewest'
  <2> SUFFICES ASSUME server.up, NEW c \in disk'
               PROVE  c.thr \in DOMAIN latest' /\ c.epoch <= latest'[c.thr].epoch
    BY <1>1 DEF LatestIsNewest, Have
  <2>1. CASE c.thr = worker.thr
    <3>1. latest'[c.thr] = new /\ c.thr \in DOMAIN latest'
      BY <1>1, <2>1
    <3>2. c.epoch <= new.epoch
      BY <1>1, <1>4, <1>5 DEF Newest, Stored
    <3> QED
      BY <3>1, <3>2
  <2>2. CASE c.thr # worker.thr
    <3>1. c \in disk
      BY <1>1, <1>4, <2>2
    <3>2. c.thr \in DOMAIN latest /\ c.epoch <= latest[c.thr].epoch
      BY <3>1 DEF Newest, LatestIsNewest, Have
    <3>3. latest'[c.thr] = latest[c.thr] /\ c.thr \in DOMAIN latest'
      BY <1>1, <2>2, <3>2
    <3> QED
      BY <3>2, <3>3
  <2> QED
    BY <2>1, <2>2
<1> QED
  BY <1>6, <1>7, <1>8 DEF Newest

\* A step that registers nothing: the worker does not fall behind the disk.
LEMMA NewestFrame ==
    ASSUME Newest, UNCHANGED disk,
           \/ UNCHANGED latest /\ (server'.up => server.up)
           \/ latest' = Restore
           \/ ~server'.up,
           Ahead'
    PROVE  Newest'
<1>1. Stored'
  BY DEF Newest, Stored
<1>2. LatestIsNewest'
  BY RestoredNewest DEF Newest, LatestIsNewest, Have
<1> QED
  BY <1>1, <1>2 DEF Newest

\* Every step keeps the newest captures in memory.
LEMMA NewestKeeps ==
    ASSUME TLInv, Owned, Newest, [Next]_vars
    PROVE  Newest'
<1>0. worker \in WorkerSet /\ server \in ServerSet
  BY DEF TLInv, Types, TypeWorker, TypeQueue
<1>1. CASE \E tick \in {0, 1} : Register(tick)
  BY <1>1, RegisterNewest
<1>2. CASE Process
  <2>1. CASE Close
    <3>1. UNCHANGED <<disk, latest, worker>> /\ server'.up = server.up
      BY <1>0, <2>1, ZenonT(60) DEF Close, storeVars, ServerSet
    <3>2. Ahead'
      BY <3>1 DEF Newest, Ahead
    <3> QED
      BY <3>1, <3>2, NewestFrame
  <2>2. CASE ProcessEnds
    <3>1. UNCHANGED disk /\ ~server'.up /\ worker'.pc = "gone"
      BY <2>2 DEF ProcessEnds, NewWorker
    <3>2. Ahead'
      BY <3>1 DEF Ahead
    <3> QED
      BY <3>1, <3>2, NewestFrame
  <2>3. CASE \E ok \in BOOLEAN : ServerStarts(ok)
    <3>1. UNCHANGED disk /\ latest' = Restore /\ worker'.pc = "wait"
      BY <2>3 DEF ServerStarts, NewWorker
    <3>2. Ahead'
      BY <3>1 DEF Ahead
    <3> QED
      BY <3>1, <3>2, NewestFrame
  <2> QED
    BY <1>2, <2>1, <2>2, <2>3 DEF Process
<1>3. CASE Handlers \/ Board \/ UNCHANGED vars
  <2>1. UNCHANGED <<disk, latest>> /\ server'.up = server.up
    <3>1. CASE Handlers
      BY <1>0, <3>1, ZenonT(60) DEF Handlers, Submit, SubmitRemote, Accept, CancelRemotePending,
                        Reconnect, Shutdown, storeVars, ServerSet
    <3>2. CASE Board \/ UNCHANGED vars
      BY <3>2, ZenonT(60) DEF Board, ServiceListens, ServiceEnds, ServiceRunFails, ServiceCompletes,
                  ServiceServes, ForeignRequests, ForeignStarts, Reboot, storeVars, vars
    <3> QED
      BY <1>3, <3>1, <3>2
  <2>2. worker'.pc = worker.pc /\ worker'.epoch = worker.epoch
    <3>1. worker' = worker \/ \E r : worker' = [worker EXCEPT !.reply = r]
      BY <1>3, ZenonT(60)
         DEF Handlers, Submit, SubmitRemote, Accept, CancelRemotePending, Reconnect,
             Shutdown, Board, ServiceListens, ServiceEnds, ServiceRunFails,
             ServiceCompletes, ServiceServes, ForeignRequests, ForeignStarts, Reboot, vars
    <3> QED
      BY <1>0, <3>1 DEF WorkerSet
  <2>3. Ahead'
    BY <2>1, <2>2 DEF Newest, Ahead
  <2> QED
    BY <2>1, <2>3, NewestFrame
<1>4. ASSUME WorkerStep, ~(\E tick \in {0, 1} : Register(tick)) PROVE Newest'
  <2>1. UNCHANGED <<disk, latest>>
    BY <1>4, ZenonT(60) DEF WorkerStep, WorkerTakes, WorkerLeaves, WorkReuses, WorkRefused,
       WorkCaptures, Capture, CapturePreflight, CaptureProbe, CaptureStart, CaptureReply,
       CaptureConnect, CaptureFinish, CaptureFinalPreflight, CaptureFinalProbe,
       CaptureFails, RegisterFails, Latch, Bundle, Save, SaveFails, storeVars
  <2>2. server'.up = server.up
    BY <1>0, <1>4, ZenonT(60) DEF WorkerStep, WorkerTakes, WorkerLeaves, WorkReuses, WorkRefused,
       WorkCaptures, Capture, CapturePreflight, CaptureProbe, CaptureStart, CaptureReply,
       CaptureConnect, CaptureFinish, CaptureFinalPreflight, CaptureFinalProbe,
       CaptureFails, RegisterFails, Latch, Bundle, Save, SaveFails, ServerSet
  <2>3. CASE CaptureProbe
    <3>1. worker'.epoch = Len(txns)
      BY <1>0, <2>3 DEF CaptureProbe, WorkerSet, Epoch
    <3>2. \A c \in disk : c.epoch <= Len(txns)
      <4>1. Len(txns) \in Nat
        BY Indices DEF TLInv, Types
      <4>2. \A c \in disk : c.epoch \in 1 .. Len(txns)
        BY ZenonT(60) DEF Owned, DiskOwn
      <4> QED
        BY <4>1, <4>2
    <3> QED
      BY <2>1, <2>2, <3>1, <3>2, NewestFrame DEF Ahead
  <2>4. ASSUME ~CaptureProbe PROVE Ahead'
    <3>1. \/ worker'.pc \in {"wait", "gone", "work", "preflight", "probe", "bundle",
                             "save", "dead"}
          \/ /\ worker.pc \in {"start", "connect", "reply", "finish", "final_preflight",
                               "final_probe"}
             /\ worker'.epoch = worker.epoch
      <4>1. CASE WorkerTakes \/ WorkerLeaves \/ WorkReuses \/ WorkRefused
        BY <1>0, <4>1 DEF WorkerTakes, WorkerLeaves, WorkReuses, WorkRefused, WorkerSet,
                          Goto
      <4>2. CASE WorkCaptures \/ CapturePreflight
        BY <1>0, <4>2, ZenonT(60) DEF WorkCaptures, CapturePreflight, WorkerSet, Goto, Pass, NewWorker
      <4>3. CASE CaptureStart \/ CaptureReply
                 \/ \E i \in DOMAIN services : CaptureConnect(i)
        <5>1. worker.pc \in {"start", "connect", "reply"}
          BY <4>3, ZenonT(60) DEF CaptureStart, CaptureReply, CaptureConnect, At
        <5>2. ASSUME NEW i, CaptureConnect(i) PROVE worker'.epoch = worker.epoch
          BY <1>0, <5>2 DEF CaptureConnect, WorkerSet
        <5>3. CASE CaptureStart \/ CaptureReply
          BY <1>0, <5>1, <5>3, ZenonT(60) DEF CaptureStart, CaptureReply, WorkerSet
        <5> QED
          BY <4>3, <5>1, <5>2, <5>3
      <4>4. CASE CaptureFinish \/ CaptureFinalPreflight \/ CaptureFinalProbe
        BY <1>0, <4>4 DEF CaptureFinish, CaptureFinalPreflight, CaptureFinalProbe,
                          WorkerSet, Goto, At
      <4>5. CASE CaptureFails \/ RegisterFails \/ Save
        BY <4>5 DEF CaptureFails, RegisterFails, Save, Latch, NewWorker
      <4>6. CASE SaveFails \/ \E status \in {"complete", "failed"} : Bundle(status)
        BY <1>0, <4>6 DEF SaveFails, Bundle, WorkerSet, Goto
      <4> QED
        BY <1>4, <2>4, <4>1, <4>2, <4>3, <4>4, <4>5, <4>6 DEF WorkerStep, Capture
    <3> QED
      BY <2>1, <3>1 DEF Newest, Ahead
  <2> QED
    BY <2>1, <2>2, <2>3, <2>4, NewestFrame, SMTT(30)
<1> QED
  BY <1>1, <1>2, <1>3, <1>4 DEF Next

\* data.py and server.py: after register_capture, or after App.__init__ has
\* restored the captures on disk, what a job is answered from is the newest
\* capture of its threshold, although the files carry a clock of whole seconds
\* and the server may be killed and restarted at any moment.
THEOREM LatestStaysNewest == Spec => []LatestIsNewest
<1>1. Init => Newest
  BY DEF Init, Newest, Ahead, Stored, LatestIsNewest, NewWorker
<1>2. TLInv /\ Owned /\ Newest /\ [Next]_vars => Newest'
  BY NewestKeeps
<1>3. Newest => LatestIsNewest
  BY DEF Newest
<1> QED
  BY <1>1, <1>2, <1>3, AlwaysTL, AlwaysOwned, PTL DEF Spec
============================================================================
