------------------------- MODULE TelemetryReceiver -------------------------
(***************************************************************************)
(* The receiving half of the PC dashboard: the background thread that      *)
(* takes datagrams from the socket, writes them to the capture file,       *)
(* parses them and queues the events (udp_receiver.py), the main thread    *)
(* that drains the queue into its buffers and stops the receiver           *)
(* (dashboard.py, ring_buffers.py), the capture file that outlives both,   *)
(* and the death of the process at any point.                              *)
(*                                                                         *)
(* The telemetry the board sends is numbered 1, 2, 3, ...; a number never  *)
(* received is a lost datagram, one received twice a duplicate, and one    *)
(* behind a later one has been overtaken by fewer than Window others.      *)
(* Datagrams of a foreign source change counters only and are left out.    *)
(***************************************************************************)
EXTENDS TelemetryPacket, SequencesExt, FiniteSetsExt

CONSTANTS
    SeqRange,      \* 2^32, the modulus of a sequence number
    SeqStart,    \* the sequence number of telemetry number 0
    Window,      \* how far the network reorders
    MaxNumber,   \* bound: telemetry datagrams the board sends
    MaxOdd,      \* bound: datagrams in a session that are no telemetry
    MaxReceived, \* bound: datagrams received, over all sessions
    MaxSessions, \* bound: runs of the dashboard
    QueueSize,   \* queue_maxsize
    EventBudget, \* event_budget_per_refresh
    FlushEvery   \* capture_flush_every

ASSUME ReceiverAssumption ==
    /\ {SeqRange, SeqStart, Window, MaxNumber, MaxOdd, MaxReceived} \subseteq Nat
    /\ MaxSessions \in Nat
    /\ {QueueSize, EventBudget, FlushEvery} \subseteq Nat \ {0}
    /\ 2 * MaxNumber < SeqRange

VARIABLES
    ui,       \* the main thread: [pc, left, counts], the counts its buffers keep
    rx,       \* the receiver thread: [pc, d, stop, error]; error is thread_error
    socket,   \* the socket is open
    capture,  \* the writer: [attached, stream, append, since, pending];
              \* since is _records_since_flush, pending what is not on disk
    file,     \* the pieces of the capture file, NoFile when there is none
    stats,    \* the sequence counters of UdpReceiverStats
    queue,    \* BackgroundTelemetryReceiver.events
    past      \* history: [log, noted, shown, base, forced, unflushed, session,
              \* received]
              \* what this session accepted, what it counted, what the main
              \* thread took, what the file held, that stop() gave up waiting

vars == <<ui, rx, socket, capture, file, stats, queue, past>>

----------------------------------------------------------------------------
(* What arrives.                                                           *)

Telemetry(n) == [kind |-> "telemetry", n |-> n]
Odd == { [kind |-> k, n |-> 0] :
           k \in {"diagnostic", "mistyped", "miscounted", "truncated"} }
Datagrams == { Telemetry(n) : n \in 1 .. MaxNumber } \cup Odd

Serial(d) == (SeqStart + d.n) % SeqRange

Wave(s) == [envelope |-> TRUE, type |-> "WAVE", flags |-> {}, seq |-> s,
            stamped |-> TRUE, payload |-> 22, len |-> 54, count |-> 1,
            shift |-> 0, clean |-> TRUE]
Content(d) ==
    CASE d.kind = "telemetry" -> Wave(Serial(d))
      [] d.kind = "diagnostic" -> [Wave(0) EXCEPT !.type = "STATUS",
              !.flags = {"diagnostic"}, !.payload = 72, !.len = 104]
      [] d.kind = "mistyped" -> [Wave(0) EXCEPT !.type = "UNKNOWN"]
      [] d.kind = "miscounted" -> [Wave(0) EXCEPT !.count = 0]

High(s) == Max({0} \cup { s[i].n : i \in DOMAIN s })

\* What the socket can deliver next.
Arriving ==
    { d \in Datagrams :
        IF d.n > 0 THEN d.n + Window > High(past.log)
        ELSE Len(SelectSeq(past.log, LAMBDA e : e.n = 0)) < MaxOdd }

----------------------------------------------------------------------------
(* Sequence accounting, as note_parsed_packet keeps it for the receiver    *)
(* and _record_packet_summary for the buffers of the dashboard.            *)

NoSequence == -1
NoCounts == [last |-> NoSequence, gaps |-> 0, missing |-> 0,
             duplicates |-> 0, reordered |-> 0]

\* Older and exactly half-range numbers never advance the high-water mark.
NoteParsedUnwrapped(c, p) ==
    LET delta == p.seq - c.last
    IN  IF ~Participates(p) THEN c
        ELSE IF c.last = NoSequence THEN [c EXCEPT !.last = p.seq]
        ELSE IF delta = 0 THEN [c EXCEPT !.duplicates = @ + 1]
        ELSE IF delta > 0
        THEN [c EXCEPT !.last = p.seq,
                       !.gaps = IF delta > 1 THEN @ + 1 ELSE @,
                       !.missing = @ + (delta - 1)]
        ELSE [c EXCEPT !.reordered = @ + 1]
NoteParsed(c, p) ==
    LET delta == (p.seq - c.last) % SeqRange
    IN  IF ~Participates(p) THEN c
        ELSE IF c.last = NoSequence THEN [c EXCEPT !.last = p.seq]
        ELSE IF delta = 0 THEN [c EXCEPT !.duplicates = @ + 1]
        ELSE IF 2 * delta < SeqRange
        THEN [c EXCEPT !.last = p.seq,
                       !.gaps = IF delta > 1 THEN @ + 1 ELSE @,
                       !.missing = @ + (delta - 1)]
        ELSE [c EXCEPT !.reordered = @ + 1]

RecordSummaryPerPacket(c, p) ==
    LET n == NoteParsed(c, p)
    IN  [n EXCEPT !.gaps = n.missing]
RecordSummary(c, p) ==
    LET delta == (p.seq - c.last) % SeqRange
        ahead == delta > 0 /\ 2 * delta < SeqRange
        first == c.last = NoSequence
    IN  IF ~Participates(p) THEN c
        ELSE [ last |-> IF first \/ ahead THEN p.seq ELSE c.last,
               gaps |-> c.gaps + IF ~first /\ ahead /\ delta > 1 THEN 1 ELSE 0,
               missing |-> c.missing + IF ~first /\ ahead THEN delta - 1 ELSE 0,
               duplicates |-> c.duplicates + IF ~first /\ delta = 0 THEN 1 ELSE 0,
               reordered |-> c.reordered
                   + IF ~first /\ delta > 0 /\ ~ahead THEN 1 ELSE 0 ]

----------------------------------------------------------------------------
(* The capture file: a magic, then for every datagram a record header and  *)
(* its bytes.  A "cut" is a piece the process died in the middle of.       *)

Magic == [kind |-> "magic"]
RecordHeader(d) == [kind |-> "header", d |-> d]
RecordBytes(d) == [kind |-> "bytes", d |-> d]
Cut == [kind |-> "cut"]
NoFile == <<Cut, Cut>>

\* _validate_existing_capture, and iter_capture_datagrams of the replay: the
\* magic and whole records up to the end.
WholeRecords(f) ==
    /\ f /= <<>> /\ f[1] = Magic
    /\ Len(f) % 2 = 1
    /\ \A i \in 2 .. Len(f) : f[i].kind = IF i % 2 = 0 THEN "header" ELSE "bytes"

RecordsIn(f) == [ i \in 1 .. (Len(f) - 1) \div 2 |-> f[2 * i].d ]

\* The pieces a dying process leaves of the ones it wrote: those it flushed,
\* then some of the others, then part of one.
Remains(f, pending) ==
    LET kept == { SubSeq(f, 1, k) : k \in Len(f) - pending .. Len(f) }
    IN  kept \cup { Append(g, Cut) : g \in { h \in kept : Len(h) < Len(f) } }

----------------------------------------------------------------------------
(* FramedCaptureWriter.open: extend a file that is whole, or start anew.   *)

RefusesNothing(append) == FALSE
Refuses(append) == append /\ file /= NoFile /\ ~WholeRecords(file)
Opened(append) == IF append /\ file /= NoFile THEN file ELSE <<Magic>>
Stream(append) == [attached |-> TRUE, stream |-> TRUE, append |-> append,
                   since |-> 0,
                   pending |-> IF append /\ file /= NoFile THEN 0 ELSE 1]
NoWriter == [attached |-> FALSE, stream |-> FALSE, append |-> FALSE,
             since |-> 0, pending |-> 0]

----------------------------------------------------------------------------
(* The receiver thread.                                                    *)

Thread(from) == rx.pc = from
Dies(why) == rx' = [rx EXCEPT !.pc = "dead", !.error = why, !.stop = TRUE]

\* iter_events looks at the stop event between two datagrams.
AfterEvent == IF rx.stop THEN "done" ELSE "receive"

ReceiveParsed(d) ==
    /\ Thread("receive")
    /\ socket
    /\ past.received < MaxReceived
    /\ rx' = [rx EXCEPT !.d = d,
                        !.pc = IF capture.attached /\ d.kind \in {"telemetry", "diagnostic"}
                               THEN "header" ELSE "parse"]
    /\ past' = [past EXCEPT !.log = Append(@, d), !.received = @ + 1]
    /\ UNCHANGED <<ui, socket, capture, file, stats, queue>>
Receive(d) ==
    /\ Thread("receive")
    /\ socket
    /\ past.received < MaxReceived
    /\ rx' = [rx EXCEPT !.d = d,
                        !.pc = IF capture.attached /\ d.kind /= "truncated"
                               THEN "header" ELSE "parse"]
    /\ past' = [past EXCEPT !.log = Append(@, d), !.received = @ + 1]
    /\ UNCHANGED <<ui, socket, capture, file, stats, queue>>

ReceiveTimeout ==
    /\ Thread("receive")
    /\ rx' = [rx EXCEPT !.pc = AfterEvent]
    /\ UNCHANGED <<ui, socket, capture, file, stats, queue, past>>

\* The socket was closed under the thread, or reports an error of its own.
ReceiveFails ==
    /\ Thread("receive")
    /\ Dies("socket")
    /\ UNCHANGED <<ui, socket, capture, file, stats, queue, past>>

\* close() has taken the writer away between the check of _capture and its use.
WriterGone ==
    /\ Thread("header")
    /\ ~capture.attached
    /\ Dies("capture")
    /\ UNCHANGED <<ui, socket, capture, file, stats, queue, past>>

\* write() opens the file again when the stream is gone.
WriteHeader ==
    /\ Thread("header")
    /\ IF capture.stream
       THEN /\ file' = Append(file, RecordHeader(rx.d))
            /\ capture' = [capture EXCEPT !.pending = @ + 1]
            /\ rx' = [rx EXCEPT !.pc = "bytes"]
       ELSE IF Refuses(capture.append)
       THEN Dies("capture") /\ UNCHANGED <<file, capture>>
       ELSE /\ file' = Append(Opened(capture.append), RecordHeader(rx.d))
            /\ capture' = [Stream(capture.append) EXCEPT
                             !.attached = FALSE, !.pending = @ + 1]
            /\ rx' = [rx EXCEPT !.pc = "bytes"]
    /\ UNCHANGED <<ui, socket, stats, queue, past>>

WriteBytes ==
    /\ Thread("bytes")
    /\ IF capture.stream
       THEN /\ file' = Append(file, RecordBytes(rx.d))
            /\ capture' = IF capture.since + 1 >= FlushEvery
                          THEN [capture EXCEPT !.since = 0, !.pending = 0]
                          ELSE [capture EXCEPT !.since = @ + 1,
                                               !.pending = @ + 1]
            /\ rx' = [rx EXCEPT !.pc = "parse"]
       ELSE Dies("capture") /\ UNCHANGED <<file, capture>>
    /\ UNCHANGED <<ui, socket, stats, queue, past>>

\* An OSError of the file is counted and raised again.
WriteFails ==
    /\ rx.pc \in {"header", "bytes"}
    /\ capture.stream
    /\ Dies("capture")
    /\ UNCHANGED <<ui, socket, capture, file, stats, queue, past>>

\* put_nowait: a full queue drops the event.
Put(d) == queue' = IF Len(queue) < QueueSize THEN Append(queue, d) ELSE queue

Verdict(d) ==
    IF d.kind = "truncated" THEN "error" ELSE ParserVerdict(Content(d))

Parse ==
    /\ Thread("parse")
    /\ IF Verdict(rx.d) = "raise"
       THEN Dies("parser") /\ UNCHANGED <<stats, queue, past>>
       ELSE /\ Put(rx.d)
            /\ rx' = [rx EXCEPT !.pc = AfterEvent]
            /\ IF Verdict(rx.d) = "ok"
               THEN /\ stats' = NoteParsed(stats, Content(rx.d))
                    /\ past' = [past EXCEPT !.noted = Append(@, rx.d)]
               ELSE UNCHANGED <<stats, past>>
    /\ UNCHANGED <<ui, socket, capture, file>>

----------------------------------------------------------------------------
(* The main thread: _run_live, its loop, and stop().                       *)

MainThread == [pc |-> "off", left |-> 0, counts |-> NoCounts]
NoThread == [pc |-> "off", d |-> Telemetry(1), stop |-> FALSE, error |-> "none"]
History(n, r, f) == [log |-> <<>>, noted |-> <<>>, shown |-> <<>>, base |-> f,
                     forced |-> FALSE, unflushed |-> FALSE, session |-> n,
                     received |-> r]

ThreadEnded == rx.pc \in {"off", "done", "dead"}

\* The app is built anew; open() binds the socket, then opens the capture.
Start(append) ==
    /\ ui.pc = "off" \/ (ui.pc = "ended" /\ ThreadEnded)
    /\ past.session < MaxSessions
    /\ ~Refuses(append)
    /\ ui' = [MainThread EXCEPT !.pc = "loop"]
    /\ rx' = [NoThread EXCEPT !.pc = "receive"]
    /\ socket' = TRUE
    /\ file' = Opened(append)
    /\ capture' = Stream(append)
    /\ stats' = NoCounts
    /\ queue' = <<>>
    /\ past' = History(past.session + 1, past.received, RecordsIn(Opened(append)))

\* An open() that fails leaves the file as it was and nothing running.
StartFails(append) ==
    /\ ui.pc = "off" \/ (ui.pc = "ended" /\ ThreadEnded)
    /\ past.session < MaxSessions
    /\ Refuses(append)
    /\ ui' = [MainThread EXCEPT !.pc = "ended"]
    /\ rx' = NoThread
    /\ socket' = FALSE
    /\ capture' = NoWriter
    /\ stats' = NoCounts
    /\ queue' = <<>>
    /\ past' = [past EXCEPT !.session = @ + 1, !.noted = <<>>, !.shown = <<>>]
    /\ UNCHANGED file

\* _drain_events and _handle_event, one event at a time; the last drain
\* stops at its budget.
DrainEvent ==
    /\ ui.pc = "loop" \/ (ui.pc = "final" /\ ui.left > 0)
    /\ queue /= <<>>
    /\ queue' = Tail(queue)
    /\ LET d == Head(queue)
           left == IF ui.pc = "final" THEN ui.left - 1 ELSE 0
       IN  IF Verdict(d) = "ok"
           THEN /\ ui' = [ui EXCEPT !.left = left,
                            !.counts = RecordSummary(@, Content(d))]
                /\ past' = [past EXCEPT !.shown = Append(@, d)]
           ELSE ui' = [ui EXCEPT !.left = left] /\ UNCHANGED past
    /\ UNCHANGED <<rx, socket, capture, file, stats>>

Main(from, to) == ui.pc = from /\ ui' = [ui EXCEPT !.pc = to]

\* _keep_running raises when the receiver thread failed.
CaptureErrorRaised ==
    /\ rx.error = "capture"
    /\ Main("loop", "stop")
    /\ UNCHANGED <<rx, socket, capture, file, stats, queue, past>>
ThreadErrorRaised ==
    /\ rx.error /= "none"
    /\ Main("loop", "stop")
    /\ UNCHANGED <<rx, socket, capture, file, stats, queue, past>>

\* The user, the duration or max_packets ends the loop.
LoopEnds ==
    /\ ui.pc = "loop"
    /\ ui' = [ui EXCEPT !.pc = "final", !.left = EventBudget]
    /\ UNCHANGED <<rx, socket, capture, file, stats, queue, past>>

LastDrainEnds ==
    /\ ui.left = 0 \/ queue = <<>>
    /\ Main("final", "stop")
    /\ UNCHANGED <<rx, socket, capture, file, stats, queue, past>>

Stop ==
    /\ Main("stop", "join")
    /\ rx' = [rx EXCEPT !.stop = TRUE]
    /\ UNCHANGED <<socket, capture, file, stats, queue, past>>

\* join() returns when the thread ended, or at its deadline.
Join ==
    /\ Main("join", "detach")
    /\ past' = [past EXCEPT !.forced = ~ThreadEnded]
    /\ UNCHANGED <<rx, socket, capture, file, stats, queue>>

CloseCapture ==
    /\ Main("detach", "close")
    /\ capture' = [capture EXCEPT !.attached = FALSE, !.stream = FALSE,
                                  !.since = 0, !.pending = 0]
    /\ UNCHANGED <<rx, socket, file, stats, queue, past>>

\* The flush in FramedCaptureWriter.close raises: stop() ends there, with the
\* socket open and in the file what reached it.
CloseCaptureFails ==
    /\ capture.stream
    /\ Main("detach", "ended")
    /\ capture' = [capture EXCEPT !.attached = FALSE, !.stream = FALSE,
                                  !.since = 0, !.pending = 0]
    /\ \E f \in Remains(file, capture.pending) : file' = f
    /\ past' = [past EXCEPT !.unflushed = TRUE]
    /\ UNCHANGED <<rx, socket, stats, queue>>

CloseSocket ==
    /\ Main("close", "ended")
    /\ socket' = FALSE
    /\ UNCHANGED <<rx, capture, file, stats, queue, past>>

\* The process dies, or exits over a thread that is still running.
ProcessDies ==
    /\ ui.pc /= "off"
    /\ ui.pc = "ended" => ~ThreadEnded
    /\ \E f \in Remains(file, capture.pending) : file' = f
    /\ ui' = MainThread
    /\ rx' = NoThread
    /\ socket' = FALSE
    /\ capture' = NoWriter
    /\ stats' = NoCounts
    /\ queue' = <<>>
    /\ past' = [past EXCEPT !.noted = <<>>, !.shown = <<>>]

----------------------------------------------------------------------------
Init ==
    /\ ui = MainThread
    /\ rx = NoThread
    /\ socket = FALSE
    /\ capture = NoWriter
    /\ file = NoFile
    /\ stats = NoCounts
    /\ queue = <<>>
    /\ past = History(0, 0, <<>>)

ThreadStep ==
    \/ ReceiveTimeout \/ ReceiveFails
    \/ WriterGone \/ WriteHeader \/ WriteBytes \/ Parse

MainStep ==
    \/ DrainEvent \/ ThreadErrorRaised \/ LastDrainEnds
    \/ Stop \/ Join \/ CloseCapture \/ CloseSocket

Environment ==
    \/ \E append \in BOOLEAN : Start(append) \/ StartFails(append)
    \/ \E d \in Arriving : Receive(d)
    \/ WriteFails \/ CloseCaptureFails
    \/ LoopEnds
    \/ ProcessDies

Next == ThreadStep \/ MainStep \/ Environment

\* The main thread's loop has no wait without a limit.
Spec == Init /\ [][Next]_vars /\ WF_vars(MainStep)

----------------------------------------------------------------------------
(* Properties.                                                             *)

Captured(s) == SelectSeq(s, LAMBDA d : d.kind /= "truncated")
Stopped ==
    /\ ui.pc = "ended" /\ rx.pc \in {"done", "dead"}
    /\ ~past.forced /\ ~past.unflushed

\* Whatever was written, cut short or extended, the capture file is a magic
\* and whole records up to at most one damaged record at its very end, and
\* its records are a run of what the sessions that wrote it received, in that
\* order (FramedCaptureWriter.write, open and _validate_existing_capture):
\* no session ever writes behind a damaged record.  Records are missing in the
\* middle only where two faults meet: stop() gave the thread up and its flush
\* failed, and the thread has opened the file again.
CaptureFaithful ==
    file /= NoFile =>
        /\ \A i \in 1 .. Len(file) - 1 : file[i].kind /= "cut"
        /\ \A i \in DOMAIN file :
              \/ file[i] = Cut
              \/ i = 1 /\ file[i] = Magic
              \/ i > 1 /\ i % 2 = 0 /\ file[i].kind = "header"
              \/ i > 1 /\ i % 2 = 1 /\ file[i] = RecordBytes(file[i - 1].d)
        /\ LET whole == IF Len(file) > 0 /\ Last(file) = Cut
                        THEN SubSeq(file, 1, Len(file) - 1) ELSE file
               all == past.base \o Captured(past.log)
           IN  \E a \in 1 .. Len(all) + 1 : \E b \in a - 1 .. Len(all) :
                  \/ RecordsIn(whole) = SubSeq(all, a, b)
                  \/ past.forced /\ past.unflushed

\* When stop() waited for the thread and no write and no flush failed, every
\* datagram the session accepted is in the file, behind what the file held
\* before, also when the socket or the parser ended the thread: the record is
\* written before the datagram is parsed, and close() flushes.
CaptureComplete ==
    Stopped /\ rx.error /= "capture" =>
        /\ WholeRecords(file)
        /\ RecordsIn(file) = past.base \o Captured(past.log)

\* The counters c after the datagrams h.
CountsLosses(c, h) ==
    LET s == SelectSeq(h, LAMBDA d : d.kind = "telemetry")
        got == { s[i].n : i \in DOMAIN s }
        lost == Cardinality((s[1].n .. Max(got)) \ got)
    IN  IF s = <<>> THEN c = NoCounts
        ELSE /\ c.last = Serial(Telemetry(Max(got)))
             /\ lost <= c.missing /\ c.missing <= lost + c.reordered
             /\ c.missing + Len(s) = 1 + c.duplicates + c.reordered
                                     + Max(got) - s[1].n
             /\ c.gaps <= c.missing /\ (c.missing > 0 => c.gaps > 0)

\* The receiver and the buffers of the dashboard report as missing exactly the
\* datagrams that had not come when a later one did: every lost one, and no
\* other but the late ones they count as reordered, over the wrap of the
\* sequence number, with duplicates, diagnostic STATUS and events the full
\* queue dropped (note_parsed_packet, _record_packet_summary).
GapsAreLosses ==
    /\ CountsLosses(stats, past.noted)
    /\ CountsLosses(ui.counts, past.shown)

\* Replaying the capture of a session gives the counters its receiver had:
\* _run_capture_replay feeds the records to the buffers of the dashboard.  It is
\* claimed of a session that has stopped, into a capture of its own, whose
\* thread met no error and in whose capture every record parses: a record that
\* does not parse was counted by the receiver and ends the replay.
ReplayAgrees ==
    Stopped /\ rx.error = "none" /\ past.base = <<>>
      /\ (\A i \in DOMAIN RecordsIn(file) : Verdict(RecordsIn(file)[i]) = "ok")
    => FoldLeft(LAMBDA c, d : RecordSummary(c, Content(d)), NoCounts,
                RecordsIn(file)) = stats

\* A receiver thread that died is never left unnoticed: the main thread
\* leaves its loop, closes the capture and, unless that fails, the socket, and
\* ends (_keep_running raises on thread_error).
DeadThreadEnds == rx.error /= "none" ~> ui.pc \in {"off", "ended"}
============================================================================
