---------------------------- MODULE CommandPath ----------------------------
(***************************************************************************)
(* Commands from the dashboard to the FPGA: the LiveCommandController and  *)
(* its worker thread (dashboard.py), the CommandClient the worker owns     *)
(* (command_client.py), the UDP link, and the HPS command server with the  *)
(* sequence ledger of its bridge (command_server.c, command_bridge.c).     *)
(*                                                                         *)
(* The link loses, duplicates, delays and reorders datagrams.  The HPS     *)
(* process and the dashboard process may restart: a restarted HPS has an   *)
(* empty ledger, a restarted dashboard starts again at sequence_start.     *)
(***************************************************************************)
EXTENDS CommandPacket, Sequences, FiniteSets

CONSTANTS
    Requests,      \* what the user may ask for: [type, a0, a1, a2]
    MaxRequests,   \* requests submitted in all
    QueueSize,     \* queue_size of the controller
    Retries,       \* CommandClientConfig.retries
    SeqMod,        \* 2^32, the modulus of the sequence number
    SeqStart,      \* CommandClientConfig.sequence_start
    MaxStarts,     \* starts of the controller in one dashboard process
    MaxRestarts,   \* restarts of the dashboard and of the HPS process, in all
    MaxExecs       \* executed commands: version 1 repeats duplicates

ASSUME PathAssumption ==
    /\ Requests \subseteq [type : V1Types \cup V2Only,
                           a0 : U32, a1 : U32, a2 : U32]
    /\ QueueSize \in Nat \ {0}
    /\ Retries \in Nat /\ MaxRequests \in Nat
    /\ SeqMod \in Nat /\ SeqStart \in 0 .. SeqMod - 1
    \* Every call takes at most two numbers; half of the number space must
    \* not be used up by one session.
    /\ 4 * MaxRequests < SeqMod

VARIABLES
    version,   \* protocol_version of the client: 1 or 2
    req,       \* every request submitted so far: its packet and its session
    ended,     \* for each request the terminal outcomes published for it
    ctl,       \* the controller: worker thread, accepting, stop event, stop()
    queue,     \* the bounded request queue, of request numbers
    cl,        \* the client: socket, probe, next number, place in send()
    toHps,     \* datagrams under way to the HPS
    toPc,      \* datagrams under way to, or waiting at, the PC's socket
    hps,       \* peer, ledger and process of the HPS
    execs      \* the commands the bridge executed, oldest first

linkVars == <<toHps, toPc>>
vars == <<version, req, ended, ctl, queue, cl, toHps, toPc, hps, execs>>

Ids == 1 .. Len(req)
Session == ctl.session

----------------------------------------------------------------------------
(* The datagrams.  "by" is the request a datagram was made for: no field   *)
(* of the packet, it only lets the properties tell who caused what.        *)

Ping == [kind |-> "ping"]
Diagnostic == [kind |-> "status"]
Command(id, seq) ==
    [kind |-> "command", seq |-> seq, packet |-> req[id].packet, by |-> id]
Result(m, disposition, by) ==
    [kind |-> "result", seq |-> m.seq, type |-> m.packet.type,
     disposition |-> disposition, by |-> by]

\* The two sets only grow: a datagram that is never read is one that was
\* lost, one that is read again is one that was duplicated.

----------------------------------------------------------------------------
(* LiveCommandController: the user interface's thread.                     *)

NewClient == [sock |-> FALSE, probed |-> FALSE, next |-> SeqStart,
              pc |-> "none", id |-> 0, seq |-> 0, attempt |-> 0]
NewController(s) ==
    [session |-> s, starts |-> 0, thread |-> "none", ui |-> "idle",
     accepting |-> FALSE, stop |-> FALSE, closed |-> FALSE, forced |-> FALSE]

Alive == ctl.thread \notin {"none", "dead"}

\* The terminal outcome of one request, and the "failed" of several.
Publish(id, outcome) == ended' = [ended EXCEPT ![id] = Append(@, outcome)]
Failed == [state |-> "failed", disposition |-> "none", by |-> 0]
Completed(disposition, by) ==
    [state |-> "completed", disposition |-> disposition, by |-> by]
FailPending ==
    /\ ended' = [id \in Ids |-> IF \E i \in DOMAIN queue : queue[i] = id
                                THEN Append(ended[id], Failed) ELSE ended[id]]
    /\ queue' = <<>>

Start ==
    /\ ctl.ui = "idle" /\ ~Alive
    /\ ctl.starts < MaxStarts
    /\ ctl' = [ctl EXCEPT !.starts = @ + 1, !.thread = "open", !.stop = FALSE,
                          !.closed = FALSE, !.forced = FALSE,
                          !.accepting = TRUE]
    /\ UNCHANGED <<version, req, ended, queue, cl, linkVars, hps, execs>>

Accepts == ctl.accepting /\ Alive /\ Len(queue) < QueueSize

Submit(r) ==
    /\ ctl.ui = "idle" /\ ctl.starts > 0
    /\ Len(req) < MaxRequests
    /\ LET p == [type |-> r.type, version |-> version,
                 a0 |-> r.a0, a1 |-> r.a1, a2 |-> r.a2]
       IN  req' = Append(req, [packet |-> p, session |-> Session])
    /\ ended' = Append(ended, IF Accepts THEN <<>> ELSE <<Failed>>)
    /\ queue' = IF Accepts THEN Append(queue, Len(req) + 1) ELSE queue
    /\ UNCHANGED <<version, ctl, cl, linkVars, hps, execs>>

\* client.close() under _client_close_lock, at most once per start.
CloseClientNever == cl' = cl
CloseClientOnce ==
    cl' = IF ctl.closed THEN cl ELSE [cl EXCEPT !.sock = FALSE]

\* stop(): without a thread it fails what is queued and closes at once.
Stop ==
    /\ ctl.ui = "idle" /\ ctl.starts > 0
    /\ IF ctl.thread = "none"
       THEN /\ ctl' = [ctl EXCEPT !.stop = TRUE, !.accepting = FALSE,
                                  !.closed = TRUE]
            /\ FailPending /\ CloseClientOnce
       ELSE /\ ctl' = [ctl EXCEPT !.stop = TRUE, !.accepting = FALSE,
                                  !.ui = "join"]
            /\ UNCHANGED <<ended, queue, cl>>
    /\ UNCHANGED <<version, req, linkVars, hps, execs>>

\* The first join runs into its deadline: the client is closed under the
\* worker, which is joined once more.
JoinDeadline ==
    /\ ctl.ui = "join" /\ Alive
    /\ CloseClientOnce
    /\ ctl' = [ctl EXCEPT !.ui = "join2", !.closed = TRUE,
                          !.forced = TRUE]
    /\ UNCHANGED <<version, req, ended, queue, linkVars, hps, execs>>

\* The end of stop(), with the worker gone, or still there at the deadline
\* of the second join.
StopReturns ==
    /\ \/ ctl.ui = "join" /\ ~Alive
       \/ ctl.ui = "join2"
    /\ FailPending
    /\ ctl' = [ctl EXCEPT !.ui = "idle",
                          !.thread = IF Alive THEN @ ELSE "none"]
    /\ UNCHANGED <<version, req, cl, linkVars, hps, execs>>

----------------------------------------------------------------------------
(* LiveCommandController._run: the worker thread.                          *)

Worker(from, to) ==
    /\ ctl.thread = from
    /\ ctl' = [ctl EXCEPT !.thread = to]

\* client.open(): the bind of a new socket may fail, and the worker ends.
WorkerOpen ==
    /\ \E ok \in {TRUE, cl.sock} :
          /\ Worker("open", IF ok THEN "loop" ELSE "finally")
          /\ cl' = [cl EXCEPT !.sock = ok]
    /\ UNCHANGED <<version, req, ended, queue, linkVars, hps, execs>>

\* while not stop: ...; the stop event may be set after the test.
WorkerLoop ==
    /\ Worker("loop", IF ctl.stop THEN "finally" ELSE "get")
    /\ UNCHANGED <<version, req, ended, queue, cl, linkVars, hps, execs>>

\* requests.get(timeout): a request for _execute, or Empty.
WorkerGet ==
    /\ Worker("get", IF queue = <<>> THEN "loop" ELSE "execute")
    /\ \/ queue = <<>> /\ UNCHANGED <<queue, cl>>
       \/ /\ queue /= <<>>
          /\ queue' = Tail(queue)
          /\ cl' = [cl EXCEPT !.id = Head(queue), !.pc = "call"]
    /\ UNCHANGED <<version, req, ended, linkVars, hps, execs>>

\* finally: no more requests, under the lock; then what is queued fails; then
\* the client is closed, unless stop() has closed it.
WorkerStillAccepts ==
    /\ Worker("finally", "drain")
    /\ UNCHANGED <<version, req, ended, queue, cl, linkVars, hps, execs>>
WorkerRefuses ==
    /\ ctl.thread = "finally"
    /\ ctl' = [ctl EXCEPT !.thread = "drain", !.accepting = FALSE]
    /\ UNCHANGED <<version, req, ended, queue, cl, linkVars, hps, execs>>
WorkerDrains ==
    /\ Worker("drain", "close")
    /\ FailPending
    /\ UNCHANGED <<version, req, cl, linkVars, hps, execs>>
WorkerEnds ==
    /\ ctl.thread = "close"
    /\ CloseClientOnce
    /\ ctl' = [ctl EXCEPT !.thread = "dead", !.closed = TRUE]
    /\ UNCHANGED <<version, req, ended, queue, linkVars, hps, execs>>

----------------------------------------------------------------------------
(* CommandClient.send on the worker thread.                                *)

Current == req[cl.id].packet
ExpectsResult == version = 2 /\ Current.type /= "PING"
Bump(s) == (s + 1) % SeqMod

\* _execute publishes the outcome and goes back to the loop.
Return(outcome, c) ==
    /\ Publish(cl.id, outcome)
    /\ cl' = [c EXCEPT !.pc = "none", !.id = 0, !.seq = 0, !.attempt = 0]
    /\ ctl' = [ctl EXCEPT !.thread = "loop"]

\* The checks of set_*() before send(); the PING send() puts in front of
\* the first command of a version-2 session; build(), which has taken its
\* number when the packet is not of this version.
Call ==
    /\ cl.pc = "call"
    /\ IF ~ClientArgs(Current) THEN Return(Failed, cl)
       ELSE IF Current.type = "PING" \/ (ExpectsResult /\ ~cl.probed)
       THEN cl' = [cl EXCEPT !.pc = "ping"] /\ UNCHANGED <<ended, ctl>>
       ELSE IF ~ClientValid(Current)
       THEN Return(Failed, [cl EXCEPT !.next = Bump(@)])
       ELSE cl' = [cl EXCEPT !.pc = "command"] /\ UNCHANGED <<ended, ctl>>
    /\ UNCHANGED <<version, req, queue, linkVars, hps, execs>>

\* _send_datagram opens the socket if it is not open, which may fail.
OpenFails ==
    /\ cl.pc \in {"ping", "command"} /\ ~cl.sock
    /\ Return(Failed, [cl EXCEPT !.next = IF cl.attempt = 0 THEN Bump(@)
                                          ELSE @])
    /\ UNCHANGED <<version, req, queue, linkVars, hps, execs>>

SendPing ==
    /\ cl.pc = "ping"
    /\ cl' = [cl EXCEPT !.sock = TRUE, !.next = Bump(@), !.pc = "diagnostic"]
    /\ toHps' = toHps \cup {Ping}
    /\ UNCHANGED <<version, req, ended, ctl, queue, toPc, hps, execs>>

\* _receive_diagnostic_status takes one datagram, whatever it is.
ReceiveDiagnostic(m) ==
    /\ cl.pc = "diagnostic" /\ cl.sock
    /\ IF m /= Diagnostic THEN Return(Failed, cl)
       ELSE LET c == [cl EXCEPT !.probed = version = 2]
            IN  IF Current.type = "PING"
                THEN Return(Completed("none", cl.id), c)
                ELSE cl' = [c EXCEPT !.pc = "command"]
                     /\ UNCHANGED <<ended, ctl>>
    /\ UNCHANGED <<version, req, queue, linkVars, hps, execs>>

DiagnosticTimeout ==
    /\ cl.pc = "diagnostic"
    /\ Return(Failed, cl)
    /\ UNCHANGED <<version, req, queue, linkVars, hps, execs>>

\* One attempt of send_packet; the bytes of a retry are those of the first.
SendCommand ==
    /\ cl.pc = "command"
    /\ LET first == cl.attempt = 0
           seq == IF first THEN cl.next ELSE cl.seq
           c == [cl EXCEPT !.sock = TRUE, !.seq = seq,
                           !.next = IF first THEN Bump(@) ELSE @,
                           !.attempt = @ + 1, !.pc = "result"]
       IN  /\ toHps' = toHps \cup {Command(cl.id, seq)}
           /\ IF ExpectsResult THEN cl' = c /\ UNCHANGED <<ended, ctl>>
              ELSE Return(Completed("none", cl.id), c)
    /\ UNCHANGED <<version, req, queue, toPc, hps, execs>>

\* _receive_correlated: a result of another type or number is ignored.
CorrelatedByType(m) == m.kind = "result" /\ m.type = Current.type
Correlated(m) ==
    m.kind = "result" /\ m.seq = cl.seq /\ m.type = Current.type

ReceiveResult(m) ==
    /\ cl.pc = "result" /\ cl.sock
    /\ IF Correlated(m) THEN Return(Completed(m.disposition, m.by), cl)
       ELSE UNCHANGED <<ended, ctl, cl>>
    /\ UNCHANGED <<version, req, queue, linkVars, hps, execs>>

ResultTimeoutForever ==
    /\ cl.pc = "result"
    /\ cl' = [cl EXCEPT !.pc = "command", !.attempt = 1]
    /\ UNCHANGED <<version, req, ended, ctl, queue, linkVars, hps, execs>>
ResultTimeout ==
    /\ cl.pc = "result"
    /\ IF cl.attempt > Retries THEN Return(Failed, cl)
       ELSE cl' = [cl EXCEPT !.pc = "command"] /\ UNCHANGED <<ended, ctl>>
    /\ UNCHANGED <<version, req, queue, linkVars, hps, execs>>

\* stop() closed the socket while the worker waits on it: an error, or, when
\* the wait had begun, the timeout above.
SocketGone ==
    /\ cl.pc = "result" /\ ~cl.sock
    /\ Return(Failed, cl)
    /\ UNCHANGED <<version, req, queue, linkVars, hps, execs>>

----------------------------------------------------------------------------
(* The HPS: trecap_streamer_service_commands, one datagram at a time.      *)

NoLedger == [valid |-> FALSE, seq |-> 0, packet |-> <<>>,
             disposition |-> "none", by |-> 0]

SerialDiffers(a, b) == a /= b
SerialIsNewer(a, b) == (a - b) % SeqMod \in 1 .. SeqMod \div 2 - 1

Execute(m) ==
    execs' = Append(execs, [id |-> m.by, boot |-> hps.boot,
                            session |-> req[m.by].session])

\* A PING answers with a diagnostic STATUS; an unpinned server learns its
\* peer from the first one and empties the ledger.
HpsPing(m) ==
    /\ m.kind = "ping"
    /\ hps' = IF hps.peer THEN hps
              ELSE [hps EXCEPT !.peer = TRUE, !.ledger = NoLedger]
    /\ toPc' = toPc \cup {Diagnostic}
    /\ UNCHANGED execs

\* apply_v1: no ledger and no result.
HpsVersion1(m) ==
    /\ m.kind = "command" /\ m.packet.version = 1
    /\ Len(execs) < MaxExecs
    /\ IF hps.peer /\ ServerReason(m.packet) = "NONE" THEN Execute(m)
       ELSE UNCHANGED execs
    /\ UNCHANGED <<hps, toPc>>

\* handle_v2.  APPLIED stands for NOOP too, FAILED for every refusal by the
\* state of the bridge and for every fault, REJECTED for illegal arguments.
HpsVersion2(m) ==
    LET led == hps.ledger
        Answer(d, by) == toPc' = toPc \cup {Result(m, d, by)}
        Decide(d) ==
            /\ hps' = [hps EXCEPT !.ledger =
                          [valid |-> TRUE, seq |-> m.seq, packet |-> m.packet,
                           disposition |-> d, by |-> m.by]]
            /\ Answer(d, m.by)
    IN  /\ m.kind = "command" /\ m.packet.version = 2
        /\ \/ /\ ~hps.peer
              /\ UNCHANGED <<hps, toPc, execs>>
           \/ /\ hps.peer /\ led.valid /\ led.seq = m.seq
              /\ IF led.packet = m.packet THEN Answer(led.disposition, led.by)
                 ELSE Answer("CONFLICT", m.by)
              /\ UNCHANGED <<hps, execs>>
           \/ /\ hps.peer /\ led.valid /\ led.seq /= m.seq
              /\ ~SerialIsNewer(m.seq, led.seq)
              /\ Answer("STALE", m.by)
              /\ UNCHANGED <<hps, execs>>
           \/ /\ hps.peer
              /\ led.valid => SerialIsNewer(m.seq, led.seq)
              /\ IF ServerReason(m.packet) /= "NONE"
                 THEN Decide("REJECTED") /\ UNCHANGED execs
                 ELSE /\ \E d \in {"APPLIED", "FAILED"} : Decide(d)
                      /\ Execute(m)

HpsReceive(m) ==
    /\ \/ HpsPing(m)
       \/ HpsVersion1(m)
       \/ HpsVersion2(m)
    /\ UNCHANGED <<version, req, ended, ctl, queue, cl, toHps>>

----------------------------------------------------------------------------
(* Restarts.                                                               *)

RestartAllowed == hps.boot + Session < MaxRestarts + 2

\* A configured peer is pinned from the start, a peer to be learned is not.
NewHps(boot, learns) ==
    [boot |-> boot, learns |-> learns, peer |-> ~learns, ledger |-> NoLedger]

HpsRestart ==
    /\ RestartAllowed
    /\ hps' = NewHps(hps.boot + 1, hps.learns)
    /\ UNCHANGED <<version, req, ended, ctl, queue, cl, toHps, toPc, execs>>

\* Another dashboard process: a new controller and a new client, with the
\* same local port and the same first number.
DashboardRestart ==
    /\ RestartAllowed
    /\ ctl' = NewController(Session + 1)
    /\ cl' = NewClient
    /\ queue' = <<>>
    /\ UNCHANGED <<version, req, ended, toHps, toPc, hps, execs>>

Init ==
    /\ version \in {1, 2}
    /\ req = <<>> /\ ended = <<>> /\ queue = <<>> /\ execs = <<>>
    /\ ctl = NewController(1)
    /\ cl = NewClient
    /\ toHps = {} /\ toPc = {}
    /\ \E learns \in BOOLEAN : hps = NewHps(1, learns)

UserInterface == Start \/ (\E r \in Requests : Submit(r)) \/ Stop
Stopping == JoinDeadline \/ StopReturns
Timeout == DiagnosticTimeout \/ ResultTimeout
WorkerStep ==
    \/ WorkerOpen \/ WorkerLoop \/ WorkerGet
    \/ WorkerRefuses \/ WorkerDrains \/ WorkerEnds
    \/ Call \/ SendPing \/ SendCommand \/ OpenFails \/ SocketGone
    \/ \E m \in toPc : ReceiveDiagnostic(m) \/ ReceiveResult(m)
    \/ Timeout

Next ==
    \/ UserInterface
    \/ Stopping
    \/ WorkerStep
    \/ \E m \in toHps : HpsReceive(m)
    \/ HpsRestart
    \/ DashboardRestart

\* The worker is a thread that gets its turns, and every wait of the client
\* has a deadline that no stream of ignored datagrams can move.
Spec ==
    /\ Init /\ [][Next]_vars
    /\ WF_vars(WorkerStep)
    /\ WF_vars(Timeout)

----------------------------------------------------------------------------
(* Properties.                                                             *)

(***************************************************************************)
(* At most once and in order: one HPS process executes the version-2       *)
(* commands of one dashboard session in the order in which they were       *)
(* issued, each at most once, however the link repeats, delays and         *)
(* reorders the datagrams and their retries: a command given up after its  *)
(* timeouts never takes effect after a later one (handle_v2's ledger).     *)
(***************************************************************************)
LedgerOrders ==
    version = 2 =>
        \A i, j \in DOMAIN execs :
            /\ i < j
            /\ execs[i].boot = execs[j].boot
            /\ execs[i].session = execs[j].session
            => execs[i].id < execs[j].id

(***************************************************************************)
(* A result that send_packet returns belongs to the command it was called  *)
(* for, which the bridge has executed; the arguments that passed           *)
(* validate_command_packet were not refused by the HPS.  The exception is  *)
(* a dashboard that was restarted: its numbers start again, so it may be   *)
(* given the result an earlier session's command of the same type and      *)
(* number left in the ledger or on the link, or be told that its number    *)
(* is stale or in conflict.                                                *)
(***************************************************************************)
Earlier(id) == { j \in Ids : req[j].session < req[id].session }
Answered(id, o) ==
    o.state = "completed" /\ version = 2 /\ req[id].packet.type /= "PING"

OwnResult ==
    \A id \in Ids : \A k \in DOMAIN ended[id] :
        LET o == ended[id][k]
        IN  Answered(id, o) =>
               /\ o.disposition /= "REJECTED"
               /\ o.disposition \in {"APPLIED", "FAILED"} =>
                     \E i \in DOMAIN execs : execs[i].id = o.by
               /\ o.disposition \in {"CONFLICT", "STALE"} =>
                     Earlier(id) /= {}
               /\ o.by /= id =>
                     /\ o.by \in Earlier(id)
                     /\ req[o.by].packet.type = req[id].packet.type

(***************************************************************************)
(* No request is stranded and none ends twice: when the worker thread has  *)
(* ended, every request of its dashboard process has exactly one terminal  *)
(* outcome, those submitted while the worker was ending included (the      *)
(* accepting flag is tested and cleared under _state_lock, and the queue   *)
(* is drained after that).                                                 *)
(***************************************************************************)
NothingStranded ==
    /\ \A id \in Ids : Len(ended[id]) <= 1
    /\ ctl.thread \in {"dead", "none"} =>
          \A id \in Ids : req[id].session = Session => Len(ended[id]) = 1

(***************************************************************************)
(* The command socket is closed when the worker has ended, unless stop()   *)
(* closed it at its deadline: a retry then opens it again, and             *)
(* _close_client_once has been used up.                                    *)
(***************************************************************************)
SocketReleased ==
    ctl.thread \in {"dead", "none"} /\ cl.sock => ctl.forced

(***************************************************************************)
(* Every request ends: while the worker is scheduled and the waits of the  *)
(* client run into their deadlines, each request of the running dashboard  *)
(* gets its terminal outcome, whatever the HPS and the link do.            *)
(***************************************************************************)
Pending(id) ==
    id \in Ids /\ req[id].session = Session /\ ended[id] = <<>>

RequestsEnd == \A id \in 1 .. MaxRequests : Pending(id) ~> ~Pending(id)
============================================================================
