------------------------- MODULE CommandPathProofs -------------------------
(***************************************************************************)
(* Proofs about the command path.  The client and the server of a command  *)
(* judge it alike; and however the user interface, the worker thread, the  *)
(* link and the restarts interleave, no request is stranded, none ends     *)
(* twice, and the socket is released.  The inductive invariant keeps the   *)
(* books of the requests: one that is pending is in the queue, once, or in *)
(* the hands of the worker, and the queue of a worker that has drained it  *)
(* stays empty because the accepting flag is already down.                 *)
(*                                                                         *)
(* The last part is about the numbers of the commands: the ones a session  *)
(* takes follow its requests and never use up half of the number space     *)
(* (Order), so that the serial comparison of the ledger is the order in    *)
(* which they were taken; and the steps that send no command keep that     *)
(* order.                                                                  *)
(***************************************************************************)
EXTENDS CommandPath, TLAPS

----------------------------------------------------------------------------
(* Sequences.                                                              *)

\* A function on the first n positions is a sequence.
LEMMA FunctionIsSeq ==
    ASSUME NEW S, NEW n \in Nat, NEW f \in [1 .. n -> S]
    PROVE  f \in Seq(S) /\ Len(f) = n /\ DOMAIN f = 1 .. n
  OBVIOUS

\* The empty sequence, and the others.
LEMMA EmptySeq ==
    ASSUME NEW S
    PROVE  /\ <<>> \in Seq(S) /\ Len(<<>>) = 0
           /\ \A s \in Seq(S) : s # <<>> => Len(s) \in Nat \ {0}
  OBVIOUS

\* A sequence is a function on its positions.
LEMMA LenProperties ==
    ASSUME NEW S, NEW s \in Seq(S)
    PROVE  Len(s) \in Nat /\ s \in [1 .. Len(s) -> S] /\ DOMAIN s = 1 .. Len(s)
  OBVIOUS

\* Its elements.
LEMMA ElementOfSeq ==
    ASSUME NEW S, NEW s \in Seq(S), NEW i \in 1 .. Len(s)
    PROVE  s[i] \in S
  OBVIOUS

\* A sequence with one element replaced.
LEMMA ExceptSeq ==
    ASSUME NEW S, NEW s \in Seq(S), NEW i \in 1 .. Len(s), NEW e \in S
    PROVE  LET t == [s EXCEPT ![i] = e] IN
           /\ t \in Seq(S) /\ Len(t) = Len(s)
           /\ \A j \in 1 .. Len(s) : t[j] = IF j = i THEN e ELSE s[j]
  OBVIOUS

\* A sequence with one element more.
LEMMA AppendProperties ==
    ASSUME NEW S, NEW s \in Seq(S), NEW e \in S
    PROVE  /\ Append(s, e) \in Seq(S) /\ Append(s, e) # <<>>
           /\ Len(Append(s, e)) = Len(s) + 1 /\ Append(s, e)[Len(s) + 1] = e
           /\ \A i \in 1 .. Len(s) : Append(s, e)[i] = s[i]
  OBVIOUS

\* A sequence without its first element.
LEMMA HeadTailProperties ==
    ASSUME NEW S, NEW s \in Seq(S), s # <<>>
    PROVE  /\ Head(s) \in S /\ Tail(s) \in Seq(S) /\ Len(Tail(s)) = Len(s) - 1
           /\ \A i \in 1 .. Len(Tail(s)) : Tail(s)[i] = s[i + 1]
  OBVIOUS

----------------------------------------------------------------------------
(* The two validators.                                                     *)

\* The client joins the two threshold words and compares the sum
\* (join_thr2); the server looks at the top byte of the high word.
LEMMA ThresholdWords ==
    ASSUME NEW lo \in U32, NEW hi \in U32
    PROVE  ThresholdFits(lo, hi) <=> hi \div HiLimit = 0
<1>1. lo \in Int /\ hi \in Int /\ 0 <= lo /\ lo < Word /\ 0 <= hi
  BY WordAssumption DEF U32
<1>2. hi \div HiLimit = 0 <=> hi < HiLimit
  BY <1>1, WordAssumption
<1>3. ASSUME hi < HiLimit PROVE ThresholdFits(lo, hi)
  <2>1. hi + 1 <= HiLimit
    BY <1>1, <1>3, WordAssumption
  <2>2. (hi + 1) * Word <= HiLimit * Word
    BY <1>1, <2>1, WordAssumption
  <2>3. (hi + 1) * Word = hi * Word + Word
    BY <1>1, WordAssumption
  <2> QED
    BY <1>1, <2>2, <2>3, WordAssumption DEF ThresholdFits
<1>4. ASSUME HiLimit <= hi PROVE ~ThresholdFits(lo, hi)
  <2>1. HiLimit * Word <= hi * Word
    BY <1>1, <1>4, WordAssumption
  <2> QED
    BY <1>1, <2>1, WordAssumption DEF ThresholdFits
<1> QED
  BY <1>1, <1>2, <1>3, <1>4, WordAssumption

\* The range checks of the client and of the server on one argument.
LEMMA Ranges ==
    ASSUME NEW a \in Nat, NEW d \in Nat
    PROVE  /\ a \in 0 .. 3 <=> a <= 3
           /\ a \in 0 .. 15 <=> a \div 16 = 0
           /\ a \in 1 .. d <=> a /= 0 /\ a <= d
           /\ a \in 0 .. 55 <=> a <= 55
           /\ a \in 0 .. 2 <=> a <= 2
           /\ a \in {0, 1} <=> a <= 1
  OBVIOUS

\* The client (validate_command_packet) refuses a command before it is sent
\* exactly when the server (validate_envelope, validate_args) would reject it,
\* so a command the client lets through is never answered by a reject of its
\* form, and the client withholds none the server would carry out.
THEOREM ValidatorsAgree ==
    ASSUME NEW p \in Packets
    PROVE  ClientValid(p) <=> (ServerReason(p) = "NONE")
<1>1. /\ p.type \in V1Types \cup V2Only
      /\ p.a0 \in U32 /\ p.a1 \in U32 /\ p.a2 \in U32
  BY DEF Packets
<1>2. p.a0 \in Nat /\ DecimMax \in Nat
  BY <1>1, WordAssumption DEF U32, DecimMax
<1>3. ThresholdFits(p.a0, p.a1) <=> p.a1 \div HiLimit = 0
  BY <1>1, ThresholdWords
<1>4. /\ p.a0 \in 0 .. 3 <=> p.a0 <= 3
      /\ p.a0 \in 0 .. 15 <=> p.a0 \div 16 = 0
      /\ p.a0 \in 1 .. DecimMax <=> p.a0 /= 0 /\ p.a0 <= DecimMax
      /\ p.a0 \in 0 .. 55 <=> p.a0 <= 55
      /\ p.a0 \in 0 .. 2 <=> p.a0 <= 2
      /\ p.a0 \in {0, 1} <=> p.a0 <= 1
  BY <1>2, Ranges
<1>5. ASSUME ClientArgs(p) PROVE ~Reserved(p)
  BY <1>5, Zenon DEF ClientArgs, Reserved
<1>6. ASSUME ClientArgs(p) PROVE InRange(p)
  BY <1>3, <1>4, <1>6, ZenonT(60) DEF ClientArgs, InRange
<1>7. ASSUME ~Reserved(p), InRange(p) PROVE ClientArgs(p)
  BY <1>3, <1>4, <1>7, ZenonT(90) DEF ClientArgs, Reserved, InRange
<1> QED
  BY <1>5, <1>6, <1>7 DEF ClientValid, ServerReason

----------------------------------------------------------------------------
(* The inductive invariant.                                                *)

Asked == [packet : [type : { r.type : r \in Requests }, version : {1, 2},
                    a0 : { r.a0 : r \in Requests },
                    a1 : { r.a1 : r \in Requests },
                    a2 : { r.a2 : r \in Requests }],
          session : Nat]
Dispositions == { "none", "APPLIED", "FAILED", "REJECTED", "CONFLICT", "STALE" }
Outcomes == [state : {"failed", "completed"}, disposition : Dispositions,
             by : Nat]
Controllers ==
    [session : Nat, starts : Nat,
     thread : {"none", "open", "loop", "get", "execute", "finally", "drain",
               "close", "dead"},
     ui : {"idle", "join", "join2"},
     accepting : BOOLEAN, stop : BOOLEAN, closed : BOOLEAN, forced : BOOLEAN]
Clients ==
    [sock : BOOLEAN, probed : BOOLEAN, next : Int,
     pc : {"none", "call", "ping", "diagnostic", "command", "result"},
     id : Nat, seq : Int, attempt : Nat]

PcTyped ==
    /\ version \in {1, 2}
    /\ req \in Seq(Asked)
    /\ ended \in Seq(Seq(Outcomes)) /\ Len(ended) = Len(req)
    /\ queue \in Seq(Nat)
    /\ ctl \in Controllers
    /\ cl \in Clients

\* What the link and the ledger hold, as far as an outcome is made of it.
LinkTyped ==
    /\ \A m \in toHps : m.kind = "command" => m.by \in Nat
    /\ \A m \in toPc : m.kind = "result" =>
          m.disposition \in Dispositions /\ m.by \in Nat
    /\ "ledger" \in DOMAIN hps
    /\ hps.ledger.disposition \in Dispositions /\ hps.ledger.by \in Nat

\* The worker, its accepting flag, its queue and its socket.
Control ==
    /\ cl.pc /= "none" <=> ctl.thread = "execute"
    /\ ctl.thread \in {"drain", "close", "dead"} => ~ctl.accepting
    /\ ctl.thread \in {"close", "dead", "none"} => queue = <<>>
    /\ Alive /\ ctl.closed => ctl.forced
    /\ SocketReleased

\* Where a pending request is: in the queue, once, or with the worker.
InQueue(id) == \E i \in DOMAIN queue : queue[i] = id
InHand(id) == cl.pc /= "none" /\ cl.id = id
Books ==
    /\ \A id \in Ids : Len(ended[id]) <= 1 /\ req[id].session <= Session
    /\ \A i \in DOMAIN queue : Pending(queue[i])
    /\ \A i, j \in DOMAIN queue : queue[i] = queue[j] => i = j
    /\ cl.pc /= "none" => Pending(cl.id) /\ ~InQueue(cl.id)
    /\ \A id \in Nat : Pending(id) => InQueue(id) \/ InHand(id)

IInv == PcTyped /\ LinkTyped /\ Control /\ Books

----------------------------------------------------------------------------
(* Typing.                                                                 *)

\* Bump keeps a sequence number a number.
LEMMA BumpTyped ==
    ASSUME NEW s \in Int PROVE Bump(s) \in Int
<1>1. SeqMod \in Nat /\ SeqMod > 0
  BY PathAssumption
<1> QED
  BY <1>1 DEF Bump

\* A request has its place in the book of outcomes.
LEMMA EndedOf ==
    ASSUME PcTyped, NEW id \in Ids
    PROVE  ended[id] \in Seq(Outcomes) /\ req[id] \in Asked
<1>1. Len(ended) \in Nat /\ id \in 1 .. Len(ended) /\ id \in 1 .. Len(req)
  BY LenProperties DEF PcTyped, Ids
<1> QED
  BY <1>1, ElementOfSeq DEF PcTyped

\* One more outcome for one request.
LEMMA PublishTyped ==
    ASSUME PcTyped, NEW id \in Ids, NEW o \in Outcomes, Publish(id, o)
    PROVE  /\ ended' \in Seq(Seq(Outcomes)) /\ Len(ended') = Len(ended)
           /\ ended'[id] = Append(ended[id], o)
           /\ \A j \in Ids : j /= id => ended'[j] = ended[j]
<1>1. ended \in Seq(Seq(Outcomes)) /\ Len(ended) = Len(req) /\ Len(req) \in Nat
  BY LenProperties DEF PcTyped
<1>2. id \in 1 .. Len(ended)
  BY <1>1 DEF Ids
<1>3. Append(ended[id], o) \in Seq(Outcomes)
  BY EndedOf, AppendProperties
<1>4. ended' = [ended EXCEPT ![id] = Append(ended[id], o)]
  BY DEF Publish
<1>5. ended' \in Seq(Seq(Outcomes)) /\ Len(ended') = Len(ended)
  BY <1>1, <1>2, <1>3, <1>4, ExceptSeq
<1>6. ended'[id] = Append(ended[id], o)
  BY <1>1, <1>2, <1>3, <1>4, ExceptSeq
<1>7. \A j \in 1 .. Len(ended) : j /= id => ended'[j] = ended[j]
  BY <1>1, <1>2, <1>3, <1>4, ExceptSeq
<1> QED
  BY <1>1, <1>5, <1>6, <1>7 DEF Ids

\* The failure of everything that is queued.
LEMMA FailTyped ==
    ASSUME PcTyped, FailPending
    PROVE  /\ ended' \in Seq(Seq(Outcomes)) /\ Len(ended') = Len(ended)
           /\ queue' \in Seq(Nat) /\ queue' = <<>>
           /\ \A id \in Ids : ended'[id] = IF InQueue(id)
                                           THEN Append(ended[id], Failed)
                                           ELSE ended[id]
<1> DEFINE e(id) == IF InQueue(id) THEN Append(ended[id], Failed) ELSE ended[id]
<1>1. Len(ended) = Len(req) /\ Len(req) \in Nat
  BY LenProperties DEF PcTyped
<1>2. Failed \in Outcomes
  BY DEF Failed, Outcomes, Dispositions
<1>3. \A id \in Ids : e(id) \in Seq(Outcomes)
  BY <1>2, EndedOf, AppendProperties
<1>4. ended' = [id \in Ids |-> e(id)]
  BY DEF FailPending, InQueue
<1> HIDE DEF e
<1>5. ended' \in [1 .. Len(req) -> Seq(Outcomes)]
  BY <1>3, <1>4 DEF Ids
<1>6. ended' \in Seq(Seq(Outcomes)) /\ DOMAIN ended' = 1 .. Len(req)
  BY <1>1, <1>5, FunctionIsSeq
<1>7. Len(ended') = Len(ended)
  BY <1>1, <1>6, LenProperties
<1>8. \A id \in Ids : ended'[id] = e(id)
  BY <1>4
<1>9. queue' = <<>> /\ queue' \in Seq(Nat)
  BY EmptySeq DEF FailPending
<1> QED
  BY <1>6, <1>7, <1>8, <1>9 DEF e

----------------------------------------------------------------------------
(* The books.                                                              *)

----------------------------------------------------------------------------
(* The steps of the dashboard.                                             *)

Dashboard == PcTyped /\ Control /\ Books

----------------------------------------------------------------------------
(* The HPS and the link.                                                   *)

----------------------------------------------------------------------------
(* The theorems.                                                           *)

\* A dashboard that has just been started, and an HPS without a ledger.
LEMMA InitInv == Init => IInv
<1> SUFFICES ASSUME Init PROVE IInv
  OBVIOUS
<1>1. /\ req = <<>> /\ ended = <<>> /\ queue = <<>> /\ version \in {1, 2}
      /\ ctl = NewController(1) /\ cl = NewClient /\ toHps = {} /\ toPc = {}
  BY DEF Init
<1>2. ctl \in Controllers /\ ctl.thread = "none" /\ ctl.closed = FALSE
  BY <1>1 DEF NewController, Controllers
<1>3. SeqStart \in Int
  BY PathAssumption
<1>4. cl \in Clients /\ cl.pc = "none" /\ cl.sock = FALSE
  BY <1>1, <1>3 DEF NewClient, Clients
<1>5. PcTyped
  BY <1>1, <1>2, <1>4, EmptySeq DEF PcTyped
<1>6. Control
  BY <1>1, <1>2, <1>4 DEF Control, Alive, SocketReleased
<1>7. Ids = {} /\ DOMAIN queue = {}
  BY <1>1 DEF Ids
<1>8. Books
  BY <1>4, <1>7 DEF Books, Pending
<1>9. PICK learns \in BOOLEAN : hps = NewHps(1, learns)
  BY DEF Init
<1>10. "ledger" \in DOMAIN hps /\ hps.ledger = NoLedger
  BY <1>9 DEF NewHps
<1>11. NoLedger.disposition \in Dispositions /\ NoLedger.by \in Nat
  BY DEF NoLedger, Dispositions
<1>12. LinkTyped
  BY <1>1, <1>10, <1>11 DEF LinkTyped
<1> QED
  BY <1>5, <1>6, <1>8, <1>12 DEF IInv

\* Every step of the dashboard, the link and the HPS keeps the books.
LEMMA StepInv ==
    IInv /\ [Next]_vars => IInv'

\* A step that touches neither the requests, nor their outcomes, nor what the
\* worker holds.
<1>BooksFrame.
    ASSUME Books, UNCHANGED <<req, ended, queue>>,
           ctl'.session = ctl.session, cl'.id = cl.id,
           cl'.pc /= "none" <=> cl.pc /= "none"
    PROVE  Books'
  <2> USE <1>BooksFrame
  <2>1. \A id : Pending(id)' <=> Pending(id)
    BY DEF Pending, Ids, Session
  <2>2. \A id : (InQueue(id)' <=> InQueue(id)) /\ (InHand(id)' <=> InHand(id))
    BY DEF InQueue, InHand
  <2> QED
    BY <2>1, <2>2 DEF Books, Ids, Session

\* The queue is drained: everything in it has failed, once.
<1>BooksFail.
    ASSUME PcTyped, Books, FailPending, UNCHANGED req,
           ctl'.session = ctl.session, cl'.id = cl.id, cl'.pc = cl.pc
    PROVE  Books'
  <2> USE <1>BooksFail
  <2>1. /\ queue' = <<>>
        /\ \A id \in Ids : ended'[id] = IF InQueue(id)
                                        THEN Append(ended[id], Failed)
                                        ELSE ended[id]
    BY FailTyped
  <2>2. Ids' = Ids /\ Session' = Session
    BY DEF Ids, Session
  <2>3. Failed \in Outcomes
    BY DEF Failed, Outcomes, Dispositions
  <2>4. ASSUME NEW id \in Ids, InQueue(id)
        PROVE  Len(ended'[id]) = 1 /\ ended'[id] /= <<>>
    <3>1. ended[id] = <<>>
      BY <2>4 DEF Books, InQueue, Pending
    <3>2. ended'[id] = Append(<<>>, Failed)
      BY <2>1, <2>4, <3>1, ZenonT(60)
    <3>3. ended'[id] = <<Failed>>
      BY <3>2
    <3> QED
      BY <3>3
  <2>5. ASSUME NEW id \in Ids, ~InQueue(id) PROVE ended'[id] = ended[id]
    BY <2>1, <2>5
  <2>6. DOMAIN queue' = {}
    BY <2>1
  <2>7. \A id : ~InQueue(id)'
    BY <2>6 DEF InQueue
  <2>8. \A id \in Ids : Len(ended'[id]) <= 1 /\ req[id].session <= Session
    <3> SUFFICES ASSUME NEW id \in Ids
                 PROVE  Len(ended'[id]) <= 1 /\ req[id].session <= Session
      OBVIOUS
    <3>1. Len(ended[id]) <= 1 /\ req[id].session <= Session
      BY DEF Books
    <3>2. CASE InQueue(id)
      <4>1. Len(ended'[id]) = 1
        BY <3>2, <2>4
      <4> QED
        BY <4>1, <3>1
    <3>3. CASE ~InQueue(id)
      BY <3>1, <3>3, <2>5
    <3> QED
      BY <3>2, <3>3
  <2>9. ASSUME NEW id, Pending(id)' PROVE Pending(id) /\ ~InQueue(id)
    BY <2>2, <2>4, <2>5, <2>9 DEF Pending
  <2>10. \A id \in Nat : Pending(id)' => InHand(id)'
    BY <2>9 DEF Books, InHand
  <2>11. ASSUME cl'.pc /= "none" PROVE Pending(cl.id)'
    <3>1. Pending(cl.id) /\ ~InQueue(cl.id)
      BY <2>11 DEF Books
    <3> QED
      BY <3>1, <2>2, <2>5 DEF Pending
  <2> QED
    BY <2>2, <2>6, <2>7, <2>8, <2>10, <2>11 DEF Books

\* The worker takes the head of the queue into its hands.
<1>BooksGet.
    ASSUME PcTyped, Books, UNCHANGED <<req, ended>>,
           queue /= <<>>, queue' = Tail(queue), cl.pc = "none",
           cl'.id = Head(queue), cl'.pc /= "none", ctl'.session = ctl.session
    PROVE  Books'
  <2> USE <1>BooksGet
  <2>1. /\ queue \in Seq(Nat) /\ Len(queue) \in Nat /\ Len(queue) > 0
        /\ DOMAIN queue = 1 .. Len(queue)
    BY LenProperties, EmptySeq DEF PcTyped
  <2>2. /\ queue' \in Seq(Nat) /\ Len(queue') = Len(queue) - 1
        /\ \A i \in 1 .. Len(queue) - 1 : queue'[i] = queue[i + 1]
        /\ Head(queue) = queue[1]
    BY <2>1, HeadTailProperties
  <2>3. DOMAIN queue' = 1 .. Len(queue) - 1
    BY <2>2, LenProperties
  <2>4. \A id : Pending(id)' <=> Pending(id)
    BY DEF Pending, Ids, Session
  <2>5. \A i \in DOMAIN queue' : i + 1 \in DOMAIN queue /\ queue'[i] = queue[i + 1]
    BY <2>1, <2>2, <2>3
  <2>6. (\A i \in DOMAIN queue : Pending(queue[i]))'
    BY <2>4, <2>5 DEF Books
  <2>7. \A i, j \in DOMAIN queue' : queue'[i] = queue'[j] => i = j
    <3> SUFFICES ASSUME NEW i \in DOMAIN queue', NEW j \in DOMAIN queue',
                        queue'[i] = queue'[j]
                 PROVE  i = j
      OBVIOUS
    <3>1. i + 1 \in DOMAIN queue /\ j + 1 \in DOMAIN queue
      BY <2>5
    <3>2. queue[i + 1] = queue[j + 1]
      BY <2>5
    <3>3. i + 1 = j + 1
      BY <3>1, <3>2 DEF Books
    <3> QED
      BY <3>3, <2>1, <2>3
  <2>8. 1 \in DOMAIN queue
    BY <2>1
  <2>9. Pending(cl.id)'
    BY <2>2, <2>4, <2>8 DEF Books
  <2>10. ~InQueue(cl.id)'
    <3> SUFFICES ASSUME NEW i \in DOMAIN queue', queue'[i] = cl'.id
                 PROVE  FALSE
      BY DEF InQueue
    <3>1. queue[i + 1] = queue[1] /\ i + 1 \in DOMAIN queue
      BY <2>2, <2>5
    <3>2. i + 1 = 1
      BY <2>8, <3>1 DEF Books
    <3> QED
      BY <3>2, <2>1, <2>3
  <2>11. ASSUME NEW id \in Nat, Pending(id)' PROVE InQueue(id)' \/ InHand(id)'
    <3>1. InQueue(id)
      BY <2>4, <2>11 DEF Books, InHand
    <3>2. PICK i \in DOMAIN queue : queue[i] = id
      BY <3>1 DEF InQueue
    <3>3. CASE i = 1
      BY <3>2, <3>3, <2>2 DEF InHand
    <3>4. CASE i /= 1
      <4>1. i - 1 \in DOMAIN queue' /\ queue'[i - 1] = queue[i]
        BY <3>4, <2>1, <2>2, <2>3
      <4> QED
        BY <4>1, <3>2 DEF InQueue
    <3> QED
      BY <3>3, <3>4
  <2>12. \A id \in Ids' : Len(ended'[id]) <= 1 /\ req'[id].session <= Session'
    BY DEF Books, Ids, Session
  <2> QED
    BY <2>6, <2>7, <2>9, <2>10, <2>11, <2>12 DEF Books

\* The worker publishes the outcome of the request in its hands.
<1>BooksReturn.
    ASSUME PcTyped, Books, cl.pc /= "none",
           NEW o \in Outcomes, Publish(cl.id, o), UNCHANGED <<req, queue>>,
           cl'.pc = "none", ctl'.session = ctl.session
    PROVE  Books'
  <2> USE <1>BooksReturn
  <2>1. /\ cl.id \in Ids /\ ended[cl.id] = <<>> /\ ~InQueue(cl.id)
    BY DEF Books, Pending
  <2>2. /\ ended'[cl.id] = Append(ended[cl.id], o)
        /\ \A j \in Ids : j /= cl.id => ended'[j] = ended[j]
    BY <2>1, PublishTyped
  <2>3. ended'[cl.id] = <<o>>
    BY <2>1, <2>2
  <2>4. Len(ended'[cl.id]) = 1 /\ ended'[cl.id] /= <<>>
    BY <2>3
  <2>5. Ids' = Ids /\ Session' = Session
    BY DEF Ids, Session
  <2>6. \A id : Pending(id)' <=> Pending(id) /\ id /= cl.id
    BY <2>2, <2>4, <2>5 DEF Pending
  <2>7. \A id : InQueue(id)' <=> InQueue(id)
    BY DEF InQueue
  <2>8. \A id \in Ids : Len(ended'[id]) <= 1
    BY <2>2, <2>4 DEF Books
  <2>9. \A i \in DOMAIN queue : queue[i] /= cl.id
    BY <2>1 DEF InQueue
  <2>10. \A id \in Nat : Pending(id)' => InQueue(id)'
    BY <2>6, <2>7 DEF Books, InHand
  <2> QED
    BY <2>5, <2>6, <2>8, <2>9, <2>10 DEF Books

\* A request is submitted: into the queue, or failed at once.
<1>BooksSubmit.
    ASSUME PcTyped, Books, NEW r \in Requests, Submit(r)
    PROVE  /\ req' \in Seq(Asked) /\ ended' \in Seq(Seq(Outcomes))
           /\ Len(ended') = Len(req') /\ queue' \in Seq(Nat)
           /\ Books'
  <2> USE <1>BooksSubmit
  <2> DEFINE p == [packet |-> [type |-> r.type, version |-> version,
                               a0 |-> r.a0, a1 |-> r.a1, a2 |-> r.a2],
                   session |-> Session]
             e == IF Accepts THEN <<>> ELSE <<Failed>>
  <2>1. /\ req \in Seq(Asked) /\ ended \in Seq(Seq(Outcomes)) /\ queue \in Seq(Nat)
        /\ Len(ended) = Len(req) /\ Len(req) \in Nat /\ Len(queue) \in Nat
    BY LenProperties DEF PcTyped
  <2>n. PICK n \in Nat : n = Len(req) + 1
    BY <2>1
  <2>2. p \in Asked /\ p.session = Session /\ Session \in Nat
    BY DEF Asked, PcTyped, Controllers, Session
  <2>3. Failed \in Outcomes
    BY DEF Failed, Outcomes, Dispositions
  <2>4. /\ e \in Seq(Outcomes) /\ Len(e) <= 1 /\ (e = <<>> <=> Accepts)
    <3>1. CASE Accepts
      BY <3>1, EmptySeq
    <3>2. CASE ~Accepts
      BY <3>2, <2>3
    <3> QED
      BY <3>1, <3>2
  <2>5. /\ req' = Append(req, p) /\ ended' = Append(ended, e)
        /\ queue' = (IF Accepts THEN Append(queue, n) ELSE queue)
        /\ UNCHANGED <<ctl, cl>>
    BY <2>n DEF Submit
  <2> HIDE DEF p, e
  <2>6. /\ req' \in Seq(Asked) /\ Len(req') = n /\ req'[n] = p
        /\ \A i \in 1 .. Len(req) : req'[i] = req[i]
    BY <2>1, <2>2, <2>5, <2>n, AppendProperties
  <2>7. /\ ended' \in Seq(Seq(Outcomes)) /\ Len(ended') = n /\ ended'[n] = e
        /\ \A i \in 1 .. Len(req) : ended'[i] = ended[i]
    <3>1. ended \in Seq(Seq(Outcomes)) /\ e \in Seq(Outcomes)
      BY <2>1, <2>4
    <3>2. /\ ended' \in Seq(Seq(Outcomes)) /\ Len(ended') = Len(ended) + 1
          /\ \A i \in 1 .. Len(ended) : ended'[i] = ended[i]
          /\ ended'[Len(ended) + 1] = e
      BY <3>1, <2>5, AppendProperties
    <3> QED
      BY <3>2, <2>1, <2>n
  <2>8. Ids' = Ids \cup {n} /\ n \notin Ids /\ n \in Nat /\ Session' = Session
    BY <2>1, <2>5, <2>6, <2>n DEF Ids, Session
  <2>9. \A id \in Ids : Pending(id)' <=> Pending(id)
    BY <2>6, <2>7, <2>8 DEF Pending, Ids
  <2>10. Pending(n)' <=> Accepts
    BY <2>2, <2>4, <2>6, <2>7, <2>8 DEF Pending
  <2>11. \A id : Pending(id) => id \in Ids
    BY DEF Pending
  <2>12. \A id : Pending(id)' => id \in Ids \/ id = n
    BY <2>8 DEF Pending
  <2>13. \A id \in Ids' : Len(ended'[id]) <= 1 /\ req'[id].session <= Session'
    <3>1. Len(ended'[n]) <= 1 /\ req'[n].session <= Session
      BY <2>2, <2>4, <2>6, <2>7
    <3>2. \A id \in Ids : Len(ended'[id]) <= 1 /\ req'[id].session <= Session
      BY <2>6, <2>7, SMTT(30) DEF Books, Ids
    <3> QED
      BY <3>1, <3>2, <2>8
  <2>14. CASE ~Accepts
    <3>1. queue' = queue
      BY <2>5, <2>14
    <3>2. \A id : (InQueue(id)' <=> InQueue(id)) /\ (InHand(id)' <=> InHand(id))
      BY <3>1, <2>5 DEF InQueue, InHand
    <3>3. \A id : Pending(id)' <=> Pending(id)
      BY <2>8, <2>9, <2>10, <2>11, <2>12, <2>14
    <3>4. Books'
      BY <3>1, <3>2, <3>3, <2>5, <2>13, ZenonT(60) DEF Books
    <3> QED
      BY <3>1, <3>4, <2>1, <2>6, <2>7
  <2>15. CASE Accepts
    <3>1. queue' = Append(queue, n)
      BY <2>5, <2>15
    <3>2. /\ queue' \in Seq(Nat) /\ Len(queue') = Len(queue) + 1
          /\ queue'[Len(queue) + 1] = n
          /\ \A i \in 1 .. Len(queue) : queue'[i] = queue[i]
      BY <3>1, <2>1, <2>8, AppendProperties
    <3>3. DOMAIN queue = 1 .. Len(queue) /\ DOMAIN queue' = 1 .. Len(queue) + 1
      BY <3>2, <2>1, LenProperties
    <3>4. \A i \in DOMAIN queue : queue[i] \in Ids /\ queue[i] /= n
      BY <2>8 DEF Books, Pending
    <3>5. (\A i \in DOMAIN queue : Pending(queue[i]))'
      <4> SUFFICES ASSUME NEW i \in DOMAIN queue' PROVE Pending(queue[i])'
        OBVIOUS
      <4>1. CASE i \in DOMAIN queue
        <5>1. Pending(queue[i]) /\ queue[i] \in Ids /\ queue'[i] = queue[i]
          BY <4>1, <3>2, <3>3, <3>4 DEF Books
        <5> QED
          BY <5>1, <2>9
      <4>2. CASE i = Len(queue) + 1
        BY <4>2, <3>2, <2>10, <2>15
      <4> QED
        BY <4>1, <4>2, <3>3, <2>1
    <3>6. \A i, j \in DOMAIN queue' : queue'[i] = queue'[j] => i = j
      <4>1. \A i, j \in DOMAIN queue : queue[i] = queue[j] => i = j
        BY DEF Books
      <4>2. \A i \in DOMAIN queue' : i \in DOMAIN queue \/ i = Len(queue) + 1
        BY <3>3, <2>1
      <4>3. \A i \in DOMAIN queue : queue'[i] = queue[i] /\ queue'[i] /= n
        BY <3>2, <3>3, <3>4
      <4> QED
        BY <4>1, <4>2, <4>3, <3>2
    <3>7. \A id : InQueue(id)' <=> InQueue(id) \/ id = n
      <4>1. DOMAIN queue' = DOMAIN queue \cup {Len(queue) + 1}
        BY <3>3, <2>1
      <4>2. \A i \in DOMAIN queue : queue'[i] = queue[i]
        BY <3>2, <3>3
      <4> QED
        BY <4>1, <4>2, <3>2 DEF InQueue
    <3>8. \A id : InHand(id)' <=> InHand(id)
      BY <2>5 DEF InHand
    <3>9. ASSUME cl'.pc /= "none" PROVE Pending(cl.id)' /\ ~InQueue(cl.id)'
      <4>1. Pending(cl.id) /\ ~InQueue(cl.id) /\ cl' = cl
        BY <3>9, <2>5 DEF Books
      <4>2. cl.id \in Ids
        BY <4>1, <2>11
      <4> QED
        BY <4>1, <4>2, <3>7, <2>8, <2>9
    <3>10. \A id \in Nat : Pending(id)' => InQueue(id)' \/ InHand(id)'
      BY <3>7, <3>8, <2>9, <2>12 DEF Books
    <3>11. Books'
      BY <3>5, <3>6, <3>9, <3>10, <2>13 DEF Books
    <3> QED
      BY <3>2, <3>11, <2>6, <2>7
  <2> QED
    BY <2>14, <2>15

\* The user interface: start(), submit() and stop().
<1>InterfaceKeeps.
    ASSUME Dashboard, UserInterface \/ Stopping
    PROVE  Dashboard'
  <2> USE <1>InterfaceKeeps
  <2> USE DEF Dashboard
  <2>0. ctl \in Controllers /\ cl \in Clients
    BY DEF PcTyped
  <2>1. CASE Start
    <3>0. PICK n \in Nat : n = ctl.starts + 1
      BY <2>0 DEF Controllers
    <3>1. /\ ctl' = [ctl EXCEPT !.starts = n, !.thread = "open",
                                !.stop = FALSE, !.closed = FALSE,
                                !.forced = FALSE, !.accepting = TRUE]
          /\ UNCHANGED <<version, req, ended, queue, cl>>
          /\ ctl.thread \in {"none", "dead"}
      BY <2>1, <3>0 DEF Start, Alive
    <3>2. /\ ctl' \in Controllers /\ ctl'.thread = "open" /\ ctl'.closed = FALSE
          /\ ctl'.session = ctl.session
      BY <2>0, <3>1, ZenonT(60) DEF Controllers
    <3>3. PcTyped'
      BY <3>1, <3>2 DEF PcTyped
    <3>4. Control'
      BY <3>1, <3>2 DEF Control, Alive, SocketReleased
    <3>5. Books'
      BY <3>1, <3>2, <1>BooksFrame
    <3> QED
      BY <3>3, <3>4, <3>5
  <2>2. ASSUME NEW r \in Requests, Submit(r) PROVE Dashboard'
    <3>1. /\ req' \in Seq(Asked) /\ ended' \in Seq(Seq(Outcomes))
          /\ Len(ended') = Len(req') /\ queue' \in Seq(Nat) /\ Books'
      BY <2>2, <1>BooksSubmit
    <3>2. UNCHANGED <<version, ctl, cl>>
      BY <2>2 DEF Submit
    <3>3. PcTyped'
      BY <3>1, <3>2 DEF PcTyped
    <3>4. queue' = queue \/ (ctl.accepting /\ Alive)
      BY <2>2 DEF Submit, Accepts
    <3>5. Control'
      BY <3>2, <3>4 DEF Control, Alive, SocketReleased
    <3> QED
      BY <3>1, <3>3, <3>5
  <2>3. CASE Stop /\ ctl.thread = "none"
    <3>1. /\ ctl' = [ctl EXCEPT !.stop = TRUE, !.accepting = FALSE,
                                !.closed = TRUE]
          /\ FailPending /\ CloseClientOnce /\ UNCHANGED <<version, req>>
      BY <2>3 DEF Stop
    <3>2. /\ ctl' \in Controllers /\ ctl'.thread = ctl.thread
          /\ ctl'.session = ctl.session /\ ctl'.forced = ctl.forced
      BY <2>0, <3>1, ZenonT(60) DEF Controllers
    <3>3. /\ cl' \in Clients /\ cl'.id = cl.id /\ cl'.pc = cl.pc
          /\ cl'.sock => cl.sock
      BY <2>0, <3>1, ZenonT(60) DEF CloseClientOnce, Clients
    <3>4. /\ ended' \in Seq(Seq(Outcomes)) /\ Len(ended') = Len(ended)
          /\ queue' \in Seq(Nat) /\ queue' = <<>>
      BY <3>1, FailTyped
    <3>5. PcTyped'
      BY <3>1, <3>2, <3>3, <3>4 DEF PcTyped
    <3>6. Control'
      BY <2>3, <3>2, <3>3, <3>4 DEF Control, Alive, SocketReleased
    <3>7. Books'
      BY <3>1, <3>2, <3>3, <1>BooksFail
    <3> QED
      BY <3>5, <3>6, <3>7
  <2>4. CASE Stop /\ ctl.thread /= "none"
    <3>1. /\ ctl' = [ctl EXCEPT !.stop = TRUE, !.accepting = FALSE,
                                !.ui = "join"]
          /\ UNCHANGED <<version, req, ended, queue, cl>>
      BY <2>4 DEF Stop
    <3>2. /\ ctl' \in Controllers /\ ctl'.thread = ctl.thread
          /\ ctl'.session = ctl.session /\ ctl'.forced = ctl.forced
          /\ ctl'.closed = ctl.closed /\ ctl'.accepting = FALSE
      BY <2>0, <3>1, ZenonT(60) DEF Controllers
    <3>3. PcTyped'
      BY <3>1, <3>2 DEF PcTyped
    <3>4. Control'
      BY <3>1, <3>2 DEF Control, Alive, SocketReleased
    <3>5. Books'
      BY <3>1, <3>2, <1>BooksFrame
    <3> QED
      BY <3>3, <3>4, <3>5
  <2>5. CASE JoinDeadline
    <3>1. /\ ctl' = [ctl EXCEPT !.ui = "join2", !.closed = TRUE,
                                !.forced = TRUE]
          /\ CloseClientOnce /\ UNCHANGED <<version, req, ended, queue>>
      BY <2>5 DEF JoinDeadline
    <3>2. /\ ctl' \in Controllers /\ ctl'.thread = ctl.thread
          /\ ctl'.session = ctl.session /\ ctl'.forced = TRUE
          /\ ctl'.accepting = ctl.accepting
      BY <2>0, <3>1, ZenonT(60) DEF Controllers
    <3>3. cl' \in Clients /\ cl'.id = cl.id /\ cl'.pc = cl.pc
      BY <2>0, <3>1, ZenonT(60) DEF CloseClientOnce, Clients
    <3>4. PcTyped'
      BY <3>1, <3>2, <3>3 DEF PcTyped
    <3>5. Control'
      BY <3>1, <3>2, <3>3 DEF Control, Alive, SocketReleased
    <3>6. Books'
      BY <3>1, <3>2, <3>3, <1>BooksFrame
    <3> QED
      BY <3>4, <3>5, <3>6
  <2>6. CASE StopReturns
    <3>1. /\ ctl' = [ctl EXCEPT !.ui = "idle",
                                !.thread = IF Alive THEN ctl.thread ELSE "none"]
          /\ FailPending /\ UNCHANGED <<version, req, cl>>
      BY <2>6 DEF StopReturns
    <3>2. /\ ctl' \in Controllers
          /\ ctl'.thread = IF Alive THEN ctl.thread ELSE "none"
          /\ ctl'.session = ctl.session /\ ctl'.forced = ctl.forced
          /\ ctl'.closed = ctl.closed /\ ctl'.accepting = ctl.accepting
      BY <2>0, <3>1, ZenonT(60) DEF Controllers
    <3>3. /\ ended' \in Seq(Seq(Outcomes)) /\ Len(ended') = Len(ended)
          /\ queue' \in Seq(Nat) /\ queue' = <<>>
      BY <3>1, FailTyped
    <3>4. PcTyped'
      BY <3>1, <3>2, <3>3 DEF PcTyped
    <3>5. Control'
      BY <3>1, <3>2, <3>3 DEF Control, Alive, SocketReleased
    <3>6. Books'
      BY <3>1, <3>2, <1>BooksFail
    <3> QED
      BY <3>4, <3>5, <3>6
  <2> QED
    BY <2>1, <2>2, <2>3, <2>4, <2>5, <2>6 DEF UserInterface, Stopping

\* The worker outside of _execute moves from one place to another and leaves
\* the requests alone.
<1>WorkerMoves.
    ASSUME Dashboard, NEW to \in {"loop", "get", "finally", "drain"},
           ctl.thread \in {"open", "loop", "get", "finally"},
           ctl' \in Controllers, ctl'.thread = to,
           ctl'.session = ctl.session, ctl'.closed = ctl.closed,
           ctl'.forced = ctl.forced,
           to = "drain" => ~ctl'.accepting,
           cl' \in Clients, cl'.id = cl.id, cl'.pc = cl.pc,
           UNCHANGED <<version, req, ended, queue>>
    PROVE  Dashboard'
  <2> USE <1>WorkerMoves
  <2>1. PcTyped'
    BY DEF Dashboard, PcTyped
  <2>2. Control'
    BY DEF Dashboard, Control, Alive, SocketReleased
  <2>3. Books'
    BY <1>BooksFrame DEF Dashboard
  <2> QED
    BY <2>1, <2>2, <2>3 DEF Dashboard

\* LiveCommandController._run outside of _execute.
<1>WorkerKeeps.
    ASSUME Dashboard,
           \/ WorkerOpen \/ WorkerLoop \/ WorkerGet
           \/ WorkerRefuses \/ WorkerDrains \/ WorkerEnds
    PROVE  Dashboard'
  <2> USE <1>WorkerKeeps
  <2>0. ctl \in Controllers /\ cl \in Clients
    BY DEF Dashboard, PcTyped
  <2>1. CASE WorkerOpen
    <3>1. PICK ok \in {TRUE, cl.sock} :
            /\ Worker("open", IF ok THEN "loop" ELSE "finally")
            /\ cl' = [cl EXCEPT !.sock = ok]
      BY <2>1, ZenonT(60) DEF WorkerOpen
    <3>2. PICK to \in {"loop", "finally"} : Worker("open", to)
      BY <3>1
    <3>3. cl' \in Clients /\ cl'.id = cl.id /\ cl'.pc = cl.pc
      BY <2>0, <3>1, ZenonT(60) DEF Clients
    <3>4. /\ ctl.thread = "open" /\ ctl' \in Controllers /\ ctl'.thread = to
          /\ ctl'.session = ctl.session /\ ctl'.closed = ctl.closed
          /\ ctl'.forced = ctl.forced
      BY <2>0, <3>2 DEF Worker, Controllers
    <3>5. UNCHANGED <<version, req, ended, queue>>
      BY <2>1 DEF WorkerOpen
    <3> QED
      BY <3>3, <3>4, <3>5, <1>WorkerMoves
  <2>2. CASE WorkerLoop
    <3>1. PICK to \in {"get", "finally"} : Worker("loop", to)
      BY <2>2 DEF WorkerLoop
    <3>2. /\ ctl.thread = "loop" /\ ctl' \in Controllers /\ ctl'.thread = to
          /\ ctl'.session = ctl.session /\ ctl'.closed = ctl.closed
          /\ ctl'.forced = ctl.forced
      BY <2>0, <3>1 DEF Worker, Controllers
    <3>3. UNCHANGED <<version, req, ended, queue, cl>>
      BY <2>2 DEF WorkerLoop
    <3> QED
      BY <2>0, <3>2, <3>3, <1>WorkerMoves
  <2>3. CASE WorkerGet /\ queue = <<>>
    <3>1. Worker("get", "loop") /\ UNCHANGED <<version, req, ended, queue, cl>>
      BY <2>3 DEF WorkerGet
    <3>2. /\ ctl.thread = "get" /\ ctl' \in Controllers /\ ctl'.thread = "loop"
          /\ ctl'.session = ctl.session /\ ctl'.closed = ctl.closed
          /\ ctl'.forced = ctl.forced
      BY <2>0, <3>1 DEF Worker, Controllers
    <3> QED
      BY <2>0, <3>1, <3>2, <1>WorkerMoves
  <2>4. CASE WorkerGet /\ queue /= <<>>
    <3>1. /\ Worker("get", "execute") /\ UNCHANGED <<version, req, ended>>
          /\ queue' = Tail(queue)
          /\ cl' = [cl EXCEPT !.id = Head(queue), !.pc = "call"]
      BY <2>4 DEF WorkerGet
    <3>2. queue \in Seq(Nat)
      BY DEF Dashboard, PcTyped
    <3>3. Head(queue) \in Nat /\ Tail(queue) \in Seq(Nat)
      BY <2>4, <3>2, HeadTailProperties
    <3>4. cl' \in Clients /\ cl'.id = Head(queue) /\ cl'.pc = "call"
      BY <2>0, <3>1, <3>3, ZenonT(60) DEF Clients
    <3>5. /\ ctl.thread = "get" /\ ctl' \in Controllers
          /\ ctl'.thread = "execute"
          /\ ctl'.session = ctl.session /\ ctl'.closed = ctl.closed
          /\ ctl'.forced = ctl.forced
      BY <2>0, <3>1 DEF Worker, Controllers
    <3>6. cl.pc = "none"
      BY <3>5 DEF Dashboard, Control
    <3>7. PcTyped'
      BY <3>1, <3>3, <3>4, <3>5 DEF Dashboard, PcTyped
    <3>8. Control'
      BY <3>4, <3>5 DEF Dashboard, Control, Alive, SocketReleased
    <3>9. Books'
      BY <2>4, <3>1, <3>4, <3>5, <3>6, <1>BooksGet DEF Dashboard
    <3> QED
      BY <3>7, <3>8, <3>9 DEF Dashboard
  <2>5. CASE WorkerRefuses
    <3>1. /\ ctl.thread = "finally" /\ UNCHANGED <<version, req, ended, queue, cl>>
          /\ ctl' = [ctl EXCEPT !.thread = "drain", !.accepting = FALSE]
      BY <2>5 DEF WorkerRefuses
    <3>2. /\ ctl' \in Controllers /\ ctl'.thread = "drain"
          /\ ctl'.session = ctl.session /\ ctl'.closed = ctl.closed
          /\ ctl'.forced = ctl.forced /\ ctl'.accepting = FALSE
      BY <2>0, <3>1, ZenonT(60) DEF Controllers
    <3> QED
      BY <2>0, <3>1, <3>2, <1>WorkerMoves
  <2>6. CASE WorkerDrains
    <3>1. Worker("drain", "close") /\ FailPending /\ UNCHANGED <<version, req, cl>>
      BY <2>6 DEF WorkerDrains
    <3>2. /\ ctl.thread = "drain" /\ ctl' \in Controllers
          /\ ctl'.thread = "close" /\ ctl'.accepting = ctl.accepting
          /\ ctl'.session = ctl.session /\ ctl'.closed = ctl.closed
          /\ ctl'.forced = ctl.forced
      BY <2>0, <3>1 DEF Worker, Controllers
    <3>3. /\ ended' \in Seq(Seq(Outcomes)) /\ Len(ended') = Len(ended)
          /\ queue' \in Seq(Nat) /\ queue' = <<>>
      BY <3>1, FailTyped DEF Dashboard
    <3>4. PcTyped'
      BY <3>1, <3>2, <3>3 DEF Dashboard, PcTyped
    <3>5. Control'
      BY <3>1, <3>2, <3>3 DEF Dashboard, Control, Alive, SocketReleased
    <3>6. Books'
      BY <3>1, <3>2, <1>BooksFail DEF Dashboard
    <3> QED
      BY <3>4, <3>5, <3>6 DEF Dashboard
  <2>7. CASE WorkerEnds
    <3>1. /\ ctl.thread = "close" /\ UNCHANGED <<version, req, ended, queue>>
          /\ ctl' = [ctl EXCEPT !.thread = "dead", !.closed = TRUE]
          /\ cl' = IF ctl.closed THEN cl ELSE [cl EXCEPT !.sock = FALSE]
      BY <2>7 DEF WorkerEnds, CloseClientOnce
    <3>2. /\ ctl' \in Controllers /\ ctl'.thread = "dead"
          /\ ctl'.session = ctl.session /\ ctl'.accepting = ctl.accepting
          /\ ctl'.forced = ctl.forced
      BY <2>0, <3>1, ZenonT(60) DEF Controllers
    <3>3. /\ cl' \in Clients /\ cl'.id = cl.id /\ cl'.pc = cl.pc
          /\ cl'.sock => ctl.closed
      BY <2>0, <3>1, ZenonT(60) DEF Clients
    <3>4. PcTyped'
      BY <3>1, <3>2, <3>3 DEF Dashboard, PcTyped
    <3>5. Control'
      BY <3>1, <3>2, <3>3 DEF Dashboard, Control, Alive, SocketReleased
    <3>6. Books'
      BY <3>1, <3>2, <3>3, <1>BooksFrame DEF Dashboard
    <3> QED
      BY <3>4, <3>5, <3>6 DEF Dashboard
  <2> QED
    BY <2>1, <2>2, <2>3, <2>4, <2>5, <2>6, <2>7

\* _execute publishes the outcome of send() and goes back to the loop.
<1>ReturnKeeps.
    ASSUME Dashboard, cl.pc /= "none", NEW o \in Outcomes, NEW c \in Clients,
           Return(o, c), UNCHANGED <<version, req, queue>>
    PROVE  Dashboard'
  <2> USE <1>ReturnKeeps
  <2>1. /\ Publish(cl.id, o) /\ ctl' = [ctl EXCEPT !.thread = "loop"]
        /\ cl' = [c EXCEPT !.pc = "none", !.id = 0, !.seq = 0, !.attempt = 0]
    BY DEF Return
  <2>z. PICK z \in Nat : z = 0 /\ z \in Int
    OBVIOUS
  <2>2. cl' \in Clients /\ cl'.pc = "none"
    <3>1. cl' = [c EXCEPT !.pc = "none", !.id = z, !.seq = z, !.attempt = z]
      BY <2>1, <2>z
    <3> QED
      BY <2>z, <3>1, ZenonT(60) DEF Clients
  <2>3. /\ ctl' \in Controllers /\ ctl'.thread = "loop"
        /\ ctl'.session = ctl.session /\ ctl'.closed = ctl.closed
        /\ ctl'.forced = ctl.forced
    BY <2>1, ZenonT(60) DEF Dashboard, PcTyped, Controllers
  <2>4. cl.id \in Ids
    BY DEF Dashboard, Books, Pending
  <2>5. ended' \in Seq(Seq(Outcomes)) /\ Len(ended') = Len(ended)
    BY <2>1, <2>4, PublishTyped DEF Dashboard
  <2>6. PcTyped'
    BY <2>2, <2>3, <2>5 DEF Dashboard, PcTyped
  <2>7. Control'
    BY <2>2, <2>3 DEF Dashboard, Control, Alive, SocketReleased
  <2>8. Books'
    BY <2>1, <2>2, <2>3, <1>BooksReturn DEF Dashboard
  <2> QED
    BY <2>6, <2>7, <2>8 DEF Dashboard

\* send() goes on with the request it has in its hands.
<1>SendGoesOn.
    ASSUME Dashboard, cl.pc /= "none", cl' \in Clients, cl'.pc /= "none",
           cl'.id = cl.id, UNCHANGED <<version, req, ended, queue, ctl>>
    PROVE  Dashboard'
  <2> USE <1>SendGoesOn
  <2>1. PcTyped'
    BY DEF Dashboard, PcTyped
  <2>2. Control'
    BY DEF Dashboard, Control, Alive, SocketReleased
  <2>3. Books'
    BY <1>BooksFrame DEF Dashboard
  <2> QED
    BY <2>1, <2>2, <2>3 DEF Dashboard

\* The outcomes send() makes itself, and the one it is sent.
<1>OutcomesTyped.
    /\ Failed \in Outcomes
    /\ \A d \in Dispositions : \A by \in Nat : Completed(d, by) \in Outcomes
    /\ "none" \in Dispositions
    BY DEF Failed, Completed, Outcomes, Dispositions

\* CommandClient.send on the worker thread.
<1>ClientKeeps.
    ASSUME Dashboard, LinkTyped,
           \/ Call \/ SendPing \/ SendCommand \/ OpenFails \/ SocketGone
           \/ \E m \in toPc : ReceiveDiagnostic(m) \/ ReceiveResult(m)
           \/ Timeout
    PROVE  Dashboard'
  <2> USE <1>ClientKeeps
  <2>0. cl \in Clients /\ cl.id \in Nat /\ cl.next \in Int
    BY DEF Dashboard, PcTyped, Clients
  <2>b. Bump(cl.next) \in Int
    BY <2>0, BumpTyped
  <2>c. PICK up \in Int : up = Bump(cl.next)
    BY <2>b
  <2>1. CASE Call
    <3>1. cl.pc = "call" /\ UNCHANGED <<version, req, queue>>
      BY <2>1 DEF Call
    <3>2. [cl EXCEPT !.next = up] \in Clients
      BY <2>0 DEF Clients
    <3>3. CASE Return(Failed, cl)
      BY <2>0, <3>1, <3>3, <1>ReturnKeeps, <1>OutcomesTyped
    <3>4. CASE Return(Failed, [cl EXCEPT !.next = up])
      BY <3>1, <3>2, <3>4, <1>ReturnKeeps, <1>OutcomesTyped
    <3>5. ASSUME NEW to \in {"ping", "command"}, cl' = [cl EXCEPT !.pc = to],
                 UNCHANGED <<ended, ctl>>
          PROVE  Dashboard'
      <4>1. cl' \in Clients /\ cl'.pc /= "none" /\ cl'.id = cl.id
        BY <2>0, <3>5 DEF Clients
      <4> QED
        BY <3>1, <3>5, <4>1, <1>SendGoesOn
    <3> QED
      BY <2>1, <2>c, <3>3, <3>4, <3>5 DEF Call
  <2>2. CASE SendPing
    <3>1. /\ cl.pc = "ping" /\ UNCHANGED <<version, req, ended, ctl, queue>>
          /\ cl' = [cl EXCEPT !.sock = TRUE, !.next = up, !.pc = "diagnostic"]
      BY <2>2, <2>c DEF SendPing
    <3>2. cl' \in Clients /\ cl'.pc /= "none" /\ cl'.id = cl.id
      BY <2>0, <3>1, ZenonT(60) DEF Clients
    <3> QED
      BY <3>1, <3>2, <1>SendGoesOn
  <2>3. CASE SendCommand
    <3> DEFINE first == cl.attempt = 0
               seq == IF first THEN cl.next ELSE cl.seq
               c == [cl EXCEPT !.sock = TRUE, !.seq = seq,
                               !.next = IF first THEN up ELSE cl.next,
                               !.attempt = cl.attempt + 1, !.pc = "result"]
    <3>1. cl.pc = "command" /\ UNCHANGED <<version, req, queue>>
      BY <2>3 DEF SendCommand
    <3>2. cl.attempt + 1 \in Nat /\ seq \in Int
      BY <2>0 DEF Clients
    <3>3. c \in Clients /\ c.pc = "result" /\ c.id = cl.id
      BY <2>0, <3>2, ZenonT(60) DEF Clients
    <3>4. \/ cl' = c /\ UNCHANGED <<ended, ctl>>
          \/ Return(Completed("none", cl.id), c)
      BY <2>3, <2>c DEF SendCommand
    <3> HIDE DEF c
    <3>5. CASE cl' = c /\ UNCHANGED <<ended, ctl>>
      BY <3>1, <3>3, <3>5, <1>SendGoesOn
    <3>6. CASE Return(Completed("none", cl.id), c)
      BY <2>0, <3>1, <3>3, <3>6, <1>ReturnKeeps, <1>OutcomesTyped
    <3> QED
      BY <3>4, <3>5, <3>6
  <2>4. CASE OpenFails
    <3>1. PICK n \in Int : n = IF cl.attempt = 0 THEN up ELSE cl.next
      BY <2>0
    <3>2. [cl EXCEPT !.next = n] \in Clients
      BY <2>0 DEF Clients
    <3>3. /\ cl.pc /= "none" /\ UNCHANGED <<version, req, queue>>
          /\ Return(Failed, [cl EXCEPT !.next = n])
      BY <2>4, <2>c, <3>1 DEF OpenFails
    <3> QED
      BY <3>2, <3>3, <1>ReturnKeeps, <1>OutcomesTyped
  <2>5. CASE SocketGone
    <3>1. cl.pc /= "none" /\ UNCHANGED <<version, req, queue>> /\ Return(Failed, cl)
      BY <2>5 DEF SocketGone
    <3> QED
      BY <2>0, <3>1, <1>ReturnKeeps, <1>OutcomesTyped
  <2>6. ASSUME NEW m \in toPc, ReceiveDiagnostic(m) PROVE Dashboard'
    <3> DEFINE c == [cl EXCEPT !.probed = version = 2]
    <3>1. cl.pc = "diagnostic" /\ UNCHANGED <<version, req, queue>>
      BY <2>6 DEF ReceiveDiagnostic
    <3>2. PICK b \in BOOLEAN : b = (version = 2)
      BY ZenonT(60)
    <3>3. c = [cl EXCEPT !.probed = b]
      BY <3>2
    <3>4. c \in Clients /\ c.id = cl.id
      BY <2>0, <3>3 DEF Clients
    <3>5. \/ Return(Failed, cl)
          \/ Return(Completed("none", cl.id), c)
          \/ cl' = [c EXCEPT !.pc = "command"] /\ UNCHANGED <<ended, ctl>>
      BY <2>6 DEF ReceiveDiagnostic
    <3> HIDE DEF c
    <3>6. CASE Return(Failed, cl)
      BY <2>0, <3>1, <3>6, <1>ReturnKeeps, <1>OutcomesTyped
    <3>7. CASE Return(Completed("none", cl.id), c)
      BY <2>0, <3>1, <3>4, <3>7, <1>ReturnKeeps, <1>OutcomesTyped
    <3>8. CASE cl' = [c EXCEPT !.pc = "command"] /\ UNCHANGED <<ended, ctl>>
      <4>1. cl' \in Clients /\ cl'.pc /= "none" /\ cl'.id = cl.id
        BY <3>4, <3>8 DEF Clients
      <4> QED
        BY <3>1, <3>8, <4>1, <1>SendGoesOn
    <3> QED
      BY <3>5, <3>6, <3>7, <3>8
  <2>7. ASSUME NEW m \in toPc, ReceiveResult(m) PROVE Dashboard'
    <3>1. cl.pc = "result" /\ UNCHANGED <<version, req, queue>>
      BY <2>7 DEF ReceiveResult
    <3>2. CASE Correlated(m)
      <4>1. m.disposition \in Dispositions /\ m.by \in Nat
        BY <3>2 DEF Correlated, LinkTyped
      <4>2. Return(Completed(m.disposition, m.by), cl)
        BY <2>7, <3>2 DEF ReceiveResult
      <4>3. Completed(m.disposition, m.by) \in Outcomes
        BY <4>1, <1>OutcomesTyped
      <4> QED
        BY <2>0, <3>1, <4>2, <4>3, <1>ReturnKeeps
    <3>3. CASE ~Correlated(m)
      <4>1. UNCHANGED <<ended, ctl, cl>>
        BY <2>7, <3>3 DEF ReceiveResult
      <4> QED
        BY <2>0, <3>1, <4>1, <1>SendGoesOn
    <3> QED
      BY <3>2, <3>3
  <2>8. CASE DiagnosticTimeout
    <3>1. cl.pc /= "none" /\ UNCHANGED <<version, req, queue>> /\ Return(Failed, cl)
      BY <2>8 DEF DiagnosticTimeout
    <3> QED
      BY <2>0, <3>1, <1>ReturnKeeps, <1>OutcomesTyped
  <2>9. CASE ResultTimeout
    <3>1. cl.pc = "result" /\ UNCHANGED <<version, req, queue>>
      BY <2>9 DEF ResultTimeout
    <3>2. CASE Return(Failed, cl)
      BY <2>0, <3>1, <3>2, <1>ReturnKeeps, <1>OutcomesTyped
    <3>3. CASE cl' = [cl EXCEPT !.pc = "command"] /\ UNCHANGED <<ended, ctl>>
      <4>1. cl' \in Clients /\ cl'.pc /= "none" /\ cl'.id = cl.id
        BY <2>0, <3>3 DEF Clients
      <4> QED
        BY <3>1, <3>3, <4>1, <1>SendGoesOn
    <3> QED
      BY <2>9, <3>2, <3>3 DEF ResultTimeout
  <2> QED
    BY <2>1, <2>2, <2>3, <2>4, <2>5, <2>6, <2>7, <2>8, <2>9 DEF Timeout

\* Another dashboard process has no request yet.
<1>RestartKeeps.
    ASSUME Dashboard, DashboardRestart
    PROVE  Dashboard'
  <2> USE <1>RestartKeeps
  <2>1. /\ ctl' = NewController(Session + 1) /\ cl' = NewClient
        /\ queue' = <<>> /\ UNCHANGED <<version, req, ended>>
    BY DEF DashboardRestart
  <2>2. Session \in Nat
    BY DEF Dashboard, PcTyped, Controllers, Session
  <2>3. PICK s \in Nat : s = Session + 1
    BY <2>2
  <2>4. /\ ctl' \in Controllers /\ ctl'.session = s /\ ctl'.thread = "none"
        /\ ctl'.closed = FALSE
    BY <2>1, <2>3 DEF NewController, Controllers
  <2>5. SeqStart \in Int
    BY PathAssumption
  <2>6. cl' \in Clients /\ cl'.pc = "none" /\ cl'.sock = FALSE
    BY <2>1, <2>5 DEF NewClient, Clients
  <2>7. PcTyped'
    BY <2>1, <2>4, <2>6, EmptySeq DEF Dashboard, PcTyped
  <2>8. Control'
    BY <2>1, <2>4, <2>6 DEF Control, Alive, SocketReleased
  <2>9. Session' = s /\ Ids' = Ids
    BY <2>1, <2>4 DEF Session, Ids
  <2>10. ASSUME NEW id \in Ids
         PROVE  /\ Len(ended'[id]) <= 1 /\ req'[id].session <= Session'
                /\ req'[id].session /= Session'
    <3>1. Len(ended[id]) <= 1 /\ req[id].session <= Session
      BY DEF Dashboard, Books
    <3>2. req[id].session \in Nat
      BY EndedOf DEF Dashboard, Asked
    <3>3. req[id].session <= s /\ req[id].session /= s
      BY <2>2, <2>3, <3>1, <3>2
    <3> QED
      BY <2>1, <2>9, <3>1, <3>3
  <2>11. \A id : ~Pending(id)'
    BY <2>9, <2>10 DEF Pending
  <2>12. DOMAIN queue' = {}
    BY <2>1
  <2>13. Books'
    BY <2>6, <2>9, <2>10, <2>11, <2>12 DEF Books
  <2> QED
    BY <2>7, <2>8, <2>13 DEF Dashboard

\* Whatever the HPS answers is a disposition and names a request.
<1>HpsKeeps.
    ASSUME LinkTyped, NEW m \in toHps, HpsReceive(m)
    PROVE  LinkTyped'
  <2> USE <1>HpsKeeps
  <2>0. toHps' = toHps
    BY DEF HpsReceive
  <2>1. NoLedger.disposition \in Dispositions /\ NoLedger.by \in Nat
    BY DEF NoLedger, Dispositions
  <2>2. ASSUME NEW d \in Dispositions, NEW by \in Nat,
               toPc' = toPc \cup {Result(m, d, by)}
        PROVE  \A a \in toPc' : a.kind = "result" =>
                  a.disposition \in Dispositions /\ a.by \in Nat
    <3>1. Result(m, d, by).disposition = d /\ Result(m, d, by).by = by
      BY DEF Result
    <3> QED
      BY <2>2, <3>1 DEF LinkTyped
  <2>3. CASE HpsPing(m)
    <3>1. /\ hps' = hps \/ hps' = [hps EXCEPT !.peer = TRUE, !.ledger = NoLedger]
          /\ toPc' = toPc \cup {Diagnostic}
      BY <2>3 DEF HpsPing
    <3>2. Diagnostic.kind /= "result"
      BY DEF Diagnostic
    <3>3. /\ "ledger" \in DOMAIN hps'
          /\ hps'.ledger = hps.ledger \/ hps'.ledger = NoLedger
      BY <3>1, ZenonT(60) DEF LinkTyped
    <3> QED
      BY <2>0, <2>1, <3>1, <3>2, <3>3 DEF LinkTyped
  <2>4. CASE HpsVersion1(m)
    BY <2>0, <2>4 DEF HpsVersion1, LinkTyped
  <2>5. CASE HpsVersion2(m)
    <3>1. m.kind = "command" /\ m.by \in Nat
      BY <2>5 DEF HpsVersion2, LinkTyped
    <3>2. hps.ledger.disposition \in Dispositions /\ hps.ledger.by \in Nat
      BY DEF LinkTyped
    <3>3. ASSUME UNCHANGED hps,
                 NEW d \in Dispositions, NEW by \in Nat,
                 toPc' = toPc \cup {Result(m, d, by)}
          PROVE  LinkTyped'
      BY <2>0, <2>2, <3>3 DEF LinkTyped
    <3>4. ASSUME NEW d \in Dispositions,
                 hps' = [hps EXCEPT !.ledger =
                            [valid |-> TRUE, seq |-> m.seq, packet |-> m.packet,
                             disposition |-> d, by |-> m.by]],
                 toPc' = toPc \cup {Result(m, d, m.by)}
          PROVE  LinkTyped'
      <4>1. /\ "ledger" \in DOMAIN hps'
            /\ hps'.ledger.disposition = d /\ hps'.ledger.by = m.by
        BY <3>4 DEF LinkTyped
      <4> QED
        BY <2>0, <2>2, <3>1, <3>4, <4>1 DEF LinkTyped
    <3>5. \/ UNCHANGED <<hps, toPc>>
          \/ \E d \in Dispositions : \E by \in Nat :
                UNCHANGED hps /\ toPc' = toPc \cup {Result(m, d, by)}
          \/ \E d \in Dispositions :
                /\ hps' = [hps EXCEPT !.ledger =
                            [valid |-> TRUE, seq |-> m.seq, packet |-> m.packet,
                             disposition |-> d, by |-> m.by]]
                /\ toPc' = toPc \cup {Result(m, d, m.by)}
      <4>1. /\ "CONFLICT" \in Dispositions /\ "STALE" \in Dispositions
            /\ "REJECTED" \in Dispositions /\ "APPLIED" \in Dispositions
            /\ "FAILED" \in Dispositions
        BY DEF Dispositions
      <4> QED
        BY <2>5, <3>1, <3>2, <4>1, Zenon DEF HpsVersion2
    <3> QED
      BY <2>0, <3>3, <3>4, <3>5 DEF LinkTyped
  <2> QED
    BY <2>3, <2>4, <2>5 DEF HpsReceive

\* What the client sends names its request; a new HPS has an empty ledger.
<1>LinkKeeps.
    ASSUME Dashboard, LinkTyped, [Next]_vars
    PROVE  LinkTyped'
  <2> USE <1>LinkKeeps
  <2>0. cl.id \in Nat
    BY DEF Dashboard, PcTyped, Clients
  <2>1. CASE UNCHANGED <<toHps, toPc, hps>>
    BY <2>1 DEF LinkTyped
  <2>2. CASE SendPing
    <3>1. toHps' = toHps \cup {Ping} /\ UNCHANGED <<toPc, hps>>
      BY <2>2 DEF SendPing
    <3>2. Ping.kind /= "command"
      BY DEF Ping
    <3> QED
      BY <3>1, <3>2 DEF LinkTyped
  <2>3. CASE SendCommand
    <3>1. PICK s : toHps' = toHps \cup {Command(cl.id, s)}
      BY <2>3 DEF SendCommand
    <3>2. UNCHANGED <<toPc, hps>>
      BY <2>3 DEF SendCommand
    <3>3. Command(cl.id, s).by = cl.id
      BY DEF Command
    <3> QED
      BY <2>0, <3>1, <3>2, <3>3 DEF LinkTyped
  <2>4. CASE HpsRestart
    <3>1. UNCHANGED <<toHps, toPc>> /\ hps' = NewHps(hps.boot + 1, hps.learns)
      BY <2>4 DEF HpsRestart
    <3>2. /\ "ledger" \in DOMAIN hps' /\ hps'.ledger = NoLedger
      BY <3>1 DEF NewHps
    <3>3. NoLedger.disposition \in Dispositions /\ NoLedger.by \in Nat
      BY DEF NoLedger, Dispositions
    <3> QED
      BY <3>1, <3>2, <3>3 DEF LinkTyped
  <2>5. CASE UserInterface \/ Stopping \/ DashboardRestart \/ UNCHANGED vars
    <3>1. UNCHANGED <<toHps, toPc, hps>>
      BY <2>5, ZenonT(60) DEF UserInterface, Stopping, DashboardRestart, vars, linkVars,
                  Start, Submit, Stop, JoinDeadline, StopReturns
    <3> QED
      BY <2>1, <3>1
  <2>6. CASE WorkerStep
    <3>1. \/ UNCHANGED <<toHps, toPc, hps>> \/ SendPing \/ SendCommand
      BY <2>6 DEF WorkerStep, Timeout, linkVars, WorkerOpen, WorkerLoop,
                  WorkerGet, WorkerRefuses, WorkerDrains, WorkerEnds, Call,
                  OpenFails, SocketGone, ReceiveDiagnostic, ReceiveResult,
                  DiagnosticTimeout, ResultTimeout
    <3> QED
      BY <2>1, <2>2, <2>3, <3>1
  <2> QED
    BY <2>4, <2>5, <2>6, <1>HpsKeeps DEF Next

<1> QED
  <2> SUFFICES ASSUME IInv, [Next]_vars PROVE IInv'
    OBVIOUS
  <2>1. Dashboard /\ LinkTyped
    BY DEF IInv, Dashboard
  <2>2. LinkTyped'
    BY <2>1, <1>LinkKeeps
  <2>3. ASSUME UNCHANGED <<version, req, ended, ctl, queue, cl>>
        PROVE  Dashboard'
    <3>1. PcTyped'
      BY <2>1, <2>3 DEF Dashboard, PcTyped
    <3>2. Control'
      BY <2>1, <2>3 DEF Dashboard, Control, Alive, SocketReleased
    <3>3. Books'
      BY <2>1, <2>3, <1>BooksFrame DEF Dashboard
    <3> QED
      BY <3>1, <3>2, <3>3 DEF Dashboard
  <2>4. ASSUME WorkerStep PROVE Dashboard'
    BY <2>1, <2>4, <1>WorkerKeeps, <1>ClientKeeps DEF WorkerStep
  <2>5. ASSUME (\E m \in toHps : HpsReceive(m)) \/ HpsRestart \/ UNCHANGED vars
        PROVE  Dashboard'
    <3>1. UNCHANGED <<version, req, ended, ctl, queue, cl>>
      BY <2>5 DEF HpsReceive, HpsRestart, vars
    <3> QED
      BY <2>3, <3>1
  <2>6. Dashboard'
    BY <2>1, <2>4, <2>5, <1>InterfaceKeeps, <1>RestartKeeps DEF Next
  <2> QED
    BY <2>2, <2>6 DEF IInv, Dashboard

\* The inductive invariant holds in every behaviour.
LEMMA Inductive == Spec => []IInv
  BY InitInv, StepInv, PTL DEF Spec

\* The books of a worker that has ended are closed.
LEMMA BooksClosed == ASSUME IInv PROVE NothingStranded
<1>1. \A id \in Ids : Len(ended[id]) <= 1
  BY DEF IInv, Books
<1>2. ASSUME ctl.thread \in {"dead", "none"}, NEW id \in Ids,
             req[id].session = Session
      PROVE  Len(ended[id]) = 1
  <2>1. queue = <<>> /\ cl.pc = "none"
    BY <1>2 DEF IInv, Control
  <2>2. DOMAIN queue = {}
    BY <2>1
  <2>3. id \in Nat
    BY DEF Ids
  <2>4. ~InQueue(id) /\ ~InHand(id)
    BY <2>1, <2>2 DEF InQueue, InHand
  <2>5. ended[id] /= <<>>
    BY <1>2, <2>3, <2>4 DEF IInv, Books, Pending
  <2>6. ended[id] \in Seq(Outcomes)
    BY EndedOf DEF IInv
  <2>7. Len(ended[id]) \in Nat /\ Len(ended[id]) /= 0
    BY <2>5, <2>6, LenProperties, EmptySeq
  <2>8. Len(ended[id]) <= 1
    BY <1>1
  <2>9. PICK k \in Nat : k = Len(ended[id])
    BY <2>7
  <2>10. k <= 1 /\ k /= 0
    BY <2>7, <2>8, <2>9, Zenon
  <2>11. k = 1
    BY <2>10
  <2> QED
    BY <2>9, <2>11
<1> QED
  BY <1>1, <1>2 DEF NothingStranded

\* For every number of requests, queue size, retry count and number of
\* restarts, no request is stranded and none ends twice: start(), submit(),
\* stop(), its deadlines, the worker's finally and a restart may interleave in
\* any way (dashboard.py, LiveCommandController).
THEOREM NoneStranded == Spec => []NothingStranded
  BY Inductive, BooksClosed, PTL

\* The command socket of a worker that has ended is closed, whatever the
\* interleaving, unless stop() closed it under the worker at its deadline.
THEOREM SocketIsReleased == Spec => []SocketReleased
<1>1. IInv => SocketReleased
  BY DEF IInv, Control
<1> QED
  BY <1>1, Inductive, PTL

----------------------------------------------------------------------------
(* The numbers of one session, in the order in which they are taken.       *)

Numbers == 0 .. SeqMod - 1

\* How many numbers a session takes before it takes s.
Pos(s) == IF s >= SeqStart THEN s - SeqStart ELSE s - SeqStart + SeqMod

\* What the difference of two numbers is modulo their modulus.
LEMMA ModDifference ==
    ASSUME NEW n \in Nat, n > 0, NEW x \in Int, -n < x, x < n
    PROVE  x % n = IF x >= 0 THEN x ELSE x + n
<1>1. CASE x >= 0
  BY <1>1
<1>2. CASE x < 0
  <2>1. x = n * (-1) + (x + n) /\ x + n \in 0 .. n - 1
    BY <1>2
  <2> QED
    BY <1>2, <2>1
<1> QED
  BY <1>1, <1>2

\* The positions of the numbers.
LEMMA Positions ==
    /\ SeqStart \in Numbers /\ Pos(SeqStart) = 0
    /\ \A s \in Numbers : Pos(s) \in Nat /\ Pos(s) < SeqMod
    /\ \A s, t \in Numbers : Pos(s) = Pos(t) => s = t
<1>1. SeqMod \in Nat /\ SeqStart \in Int /\ 0 <= SeqStart /\ SeqStart < SeqMod
  BY PathAssumption
<1> QED
  BY <1>1 DEF Numbers, Pos

\* _next_sequence goes on by one position, over the wrap of the number.
LEMMA BumpPosition ==
    ASSUME NEW s \in Numbers, Pos(s) + 1 < SeqMod
    PROVE  Bump(s) \in Numbers /\ Pos(Bump(s)) = Pos(s) + 1
<1>1. SeqMod \in Nat /\ SeqStart \in Int /\ 0 <= SeqStart /\ SeqStart < SeqMod
  BY PathAssumption
<1>2. s \in Int /\ 0 <= s /\ s < SeqMod
  BY <1>1 DEF Numbers
<1>3. CASE s + 1 < SeqMod
  <2>1. Bump(s) = s + 1
    BY <1>1, <1>2, <1>3 DEF Bump
  <2> QED
    BY <1>1, <1>2, <1>3, <2>1 DEF Numbers, Pos
<1>4. CASE s + 1 = SeqMod
  <2>1. Bump(s) = 0
    BY <1>1, <1>2, <1>4 DEF Bump
  <2> QED
    BY <1>1, <1>2, <1>4, <2>1 DEF Numbers, Pos
<1> QED
  BY <1>1, <1>2, <1>3, <1>4

\* Among the numbers one session can take, the serial comparison of the
\* ledger is the comparison of positions.
LEMMA NewerIsLater ==
    ASSUME NEW s \in Numbers, NEW t \in Numbers,
           Pos(s) < 2 * MaxRequests, Pos(t) < 2 * MaxRequests
    PROVE  SerialIsNewer(s, t) <=> Pos(s) > Pos(t)
<1>1. /\ SeqMod \in Nat /\ SeqStart \in Int /\ 0 <= SeqStart /\ SeqStart < SeqMod
      /\ MaxRequests \in Nat /\ 4 * MaxRequests < SeqMod
  BY PathAssumption
<1>2. /\ s \in Int /\ 0 <= s /\ s < SeqMod /\ t \in Int /\ 0 <= t /\ t < SeqMod
  BY <1>1 DEF Numbers
<1>3. (s - t) % SeqMod = IF s - t >= 0 THEN s - t ELSE s - t + SeqMod
  BY <1>1, <1>2, ModDifference
<1>4. PICK d \in Int : d = (s - t) % SeqMod
  BY <1>1, <1>2, <1>3
<1>5. PICK h \in Int : h = SeqMod \div 2
  BY <1>1
<1>6. 2 * MaxRequests <= h /\ SeqMod <= 2 * h + 1 /\ 2 * h <= SeqMod
  BY <1>1, <1>5
<1>7. SerialIsNewer(s, t) <=> (1 <= d /\ d <= h - 1)
  BY <1>4, <1>5 DEF SerialIsNewer
<1>8. d = IF s - t >= 0 THEN s - t ELSE s - t + SeqMod
  BY <1>3, <1>4
<1> QED
  BY <1>1, <1>2, <1>6, <1>7, <1>8 DEF Pos

----------------------------------------------------------------------------
(* The order of the requests, of their numbers and of the commands sent.   *)

Commands == { m \in toHps : m.kind = "command" }
SessionOf(m) == req[m.by].session

\* The numbers the call in the worker's hands may still take.
Owes ==
    IF cl.pc \in {"call", "ping"} THEN 2
    ELSE IF cl.pc = "diagnostic" \/ (cl.pc = "command" /\ cl.attempt = 0) THEN 1
    ELSE 0

\* What was asked for is a packet of the session's version.
Requested ==
    \A id \in Ids : req[id].packet \in Packets /\ req[id].packet.version = version

\* A call takes at most two numbers.
Counting ==
    /\ Len(req) <= MaxRequests
    /\ cl.next \in Numbers
    /\ Pos(cl.next) + 2 * Len(queue) + Owes <= 2 * Len(req)

\* Where the client is, what it has sent and what it has checked.
Place ==
    /\ cl.pc \notin {"command", "result"} => cl.attempt = 0
    /\ cl.pc = "result" => cl.attempt > 0 /\ ExpectsResult
    /\ cl.attempt > 0 => cl.seq \in Numbers /\ Pos(cl.seq) < Pos(cl.next)
    /\ cl.pc \notin {"none", "call"} => ClientValid(Current)

\* Requests wait in the order in which they were submitted.
Ascending ==
    /\ \A i, j \in DOMAIN queue : i < j => queue[i] < queue[j]
    /\ cl.pc /= "none" => \A i \in DOMAIN queue : cl.id < queue[i]

\* A command on the link against what the client does now.
SentBefore(m) ==
    /\ Pos(m.seq) < Pos(cl.next)
    /\ \A i \in DOMAIN queue : m.by < queue[i]
    /\ cl.pc /= "none" => m.by <= cl.id
    /\ cl.pc /= "none" /\ m.by = cl.id => cl.attempt > 0 /\ m.seq = cl.seq
    /\ cl.attempt > 0 /\ m.by < cl.id => Pos(m.seq) < Pos(cl.seq)

Sent ==
    \A m \in Commands :
        /\ m.by \in Ids /\ m.packet = req[m.by].packet /\ ClientValid(m.packet)
        /\ m.seq \in Numbers /\ Pos(m.seq) < 2 * MaxRequests
        /\ SessionOf(m) = Session => SentBefore(m)

\* Two commands of one session: numbers in the order of the requests, and the
\* number of a request the same in every retry.
Numbered ==
    \A m, n \in Commands :
        SessionOf(m) = SessionOf(n) =>
            /\ m.by < n.by => Pos(m.seq) < Pos(n.seq)
            /\ m.by = n.by => m.seq = n.seq

Order == Requested /\ Counting /\ Place /\ Ascending /\ Sent /\ Numbered

----------------------------------------------------------------------------
\* A step of the dashboard that sends no command, submits nothing and takes
\* nothing from the queue: the client goes on with its call or ends it.
GoesOn ==
    /\ UNCHANGED <<version, req>> /\ Session' = Session
    /\ Commands' = Commands
    /\ queue' = queue \/ queue' = <<>>
    /\ cl'.next \in Numbers
    /\ Pos(cl.next) <= Pos(cl'.next)
    /\ Pos(cl'.next) + Owes' <= Pos(cl.next) + Owes
    /\ Place'
    /\ \/ cl'.pc = "none"
       \/ /\ cl.pc /= "none" /\ cl'.id = cl.id
          /\ cl'.seq = cl.seq /\ cl'.attempt = cl.attempt

\* What Owes can be.
LEMMA OwesTyped == Owes \in 0 .. 2
  BY DEF Owes

\* Such a step keeps the order.
LEMMA OrderGoesOn ==
    ASSUME IInv, Order, GoesOn
    PROVE  Order'
<1>1. /\ queue \in Seq(Nat) /\ Len(queue) \in Nat /\ DOMAIN queue = 1 .. Len(queue)
      /\ Len(req) \in Nat
  BY LenProperties DEF IInv, PcTyped
<1>2. Len(queue') \in Nat /\ Len(queue') <= Len(queue)
  <2>1. CASE queue' = queue
    BY <1>1, <2>1
  <2>2. CASE queue' = <<>>
    BY <1>1, <2>2, EmptySeq
  <2> QED
    BY <2>1, <2>2 DEF GoesOn
<1>3. \A i \in DOMAIN queue' : i \in DOMAIN queue /\ queue'[i] = queue[i]
  <2>1. CASE queue' = <<>>
    BY <2>1
  <2> QED
    BY <2>1 DEF GoesOn
<1>4. Ids' = Ids /\ UNCHANGED <<version, req>> /\ Session' = Session
  BY DEF GoesOn, Ids
<1>5. Requested'
  BY <1>4 DEF Requested, Order
<1>6. Counting'
  <2>1. Owes \in Int /\ Owes' \in Int
    BY OwesTyped DEF Owes
  <2>2. Pos(cl.next) \in Int /\ Pos(cl'.next) \in Int
    BY Positions DEF Order, Counting, GoesOn
  <2>3. Pos(cl.next) + 2 * Len(queue) + Owes <= 2 * Len(req)
    BY DEF Order, Counting
  <2>4. Pos(cl'.next) + Owes' <= Pos(cl.next) + Owes
    BY DEF GoesOn
  <2>5. Pos(cl'.next) + 2 * Len(queue') + Owes' <= 2 * Len(req)
    BY <1>1, <1>2, <2>1, <2>2, <2>3, <2>4, SMTT(30)
  <2> QED
    BY <1>4, <2>5 DEF Order, Counting, GoesOn, Pos
<1>7. Place'
  BY DEF GoesOn
<1>8. Ascending'
  BY <1>3 DEF Order, Ascending, GoesOn
<1>9. ASSUME NEW m \in Commands, SessionOf(m) = Session PROVE SentBefore(m)'
  <2>1. SentBefore(m) /\ m.seq \in Numbers
    BY <1>9 DEF Order, Sent
  <2>2. Pos(m.seq) < Pos(cl'.next)
    <3>1. /\ Pos(m.seq) \in Int /\ Pos(cl.next) \in Int /\ Pos(cl'.next) \in Int
      BY <2>1, Positions DEF Order, Counting, GoesOn
    <3>2. Pos(m.seq) < Pos(cl.next) /\ Pos(cl.next) <= Pos(cl'.next)
      BY <2>1 DEF SentBefore, GoesOn
    <3> QED
      BY <3>1, <3>2
  <2>3. \A i \in DOMAIN queue' : m.by < queue'[i]
    BY <1>3, <2>1 DEF SentBefore
  <2>4. CASE cl'.pc = "none"
    <3>1. cl'.attempt = 0
      BY <2>4, <1>7 DEF Place
    <3> QED
      BY <2>2, <2>3, <2>4, <3>1 DEF SentBefore, Pos
  <2>5. CASE cl'.pc /= "none"
    <3>1. /\ cl.pc /= "none" /\ cl'.id = cl.id
          /\ cl'.seq = cl.seq /\ cl'.attempt = cl.attempt
      BY <2>5 DEF GoesOn
    <3> QED
      BY <2>1, <2>2, <2>3, <2>5, <3>1 DEF SentBefore, Pos
  <2> QED
    BY <2>4, <2>5
<1>10. Sent'
  BY <1>4, <1>9 DEF Order, Sent, SessionOf, GoesOn, Pos
<1>11. Numbered'
  BY <1>4 DEF Order, Numbered, SessionOf, GoesOn, Pos
<1> QED
  BY <1>5, <1>6, <1>7, <1>8, <1>10, <1>11 DEF Order

\* Half of the number space is never used up.
LEMMA RoomForOne ==
    ASSUME IInv, Order, Owes > 0
    PROVE  /\ Bump(cl.next) \in Numbers
           /\ Pos(Bump(cl.next)) = Pos(cl.next) + 1
           /\ Pos(cl.next) < 2 * MaxRequests
<1>1. /\ Len(queue) \in Nat /\ Len(req) \in Nat
  BY LenProperties DEF IInv, PcTyped
<1>2. /\ cl.next \in Numbers /\ Pos(cl.next) \in Nat /\ Pos(cl.next) < SeqMod
  BY Positions DEF Order, Counting
<1>3. /\ Len(req) <= MaxRequests
      /\ Pos(cl.next) + 2 * Len(queue) + Owes <= 2 * Len(req)
  BY DEF Order, Counting
<1>4. MaxRequests \in Nat /\ 4 * MaxRequests < SeqMod /\ SeqMod \in Nat
  BY PathAssumption
<1>5. Owes \in Int
  BY OwesTyped
<1>6. Pos(cl.next) < 2 * MaxRequests /\ Pos(cl.next) + 1 < SeqMod
  BY <1>1, <1>2, <1>3, <1>4, <1>5
<1> QED
  BY <1>2, <1>6, BumpPosition

\* A step that leaves the call where it is.
LEMMA FrameGoesOn ==
    ASSUME IInv, Order, UNCHANGED <<version, req>>,
           ctl'.session = ctl.session, toHps' = toHps,
           queue' = queue \/ queue' = <<>>,
           cl'.next = cl.next, cl'.pc = cl.pc, cl'.id = cl.id,
           cl'.seq = cl.seq, cl'.attempt = cl.attempt
    PROVE  GoesOn
<1>1. Commands' = Commands /\ Session' = Session /\ Owes' = Owes
  BY DEF Commands, Session, Owes
<1>2. cl.next \in Numbers /\ Pos(cl.next) \in Int /\ Owes \in Int
  BY Positions, OwesTyped DEF Order, Counting
<1>3. Place'
  BY DEF Order, Place, ExpectsResult, Current, Pos
<1> QED
  BY <1>1, <1>2, <1>3 DEF GoesOn

\* A step of the client that sends no command.
LEMMA ClientGoesOn ==
    IInv /\ Order /\ (\/ Call \/ SendPing \/ OpenFails \/ SocketGone \/ Timeout \/ \E m \in toPc : ReceiveDiagnostic(m) \/ ReceiveResult(m)) => GoesOn

\* A call that ends, with the number it has taken or without one.
<1>ReturnGoesOn.
    ASSUME IInv, Order, UNCHANGED <<version, req, queue>>,
           ctl'.session = ctl.session, Commands' = Commands,
           cl'.pc = "none", cl'.attempt = 0,
           \/ cl'.next = cl.next
           \/ Owes > 0 /\ cl'.next = Bump(cl.next)
    PROVE  GoesOn
  <2> USE <1>ReturnGoesOn
  <2>1. Session' = Session /\ Owes' = 0 /\ Place'
    BY DEF Session, Owes, Place
  <2>2. cl.next \in Numbers /\ Pos(cl.next) \in Int /\ Owes \in 0 .. 2
    BY Positions, OwesTyped DEF Order, Counting
  <2>3. CASE cl'.next = cl.next
    BY <2>1, <2>2, <2>3 DEF GoesOn
  <2>4. CASE Owes > 0 /\ cl'.next = Bump(cl.next)
    <3>1. /\ cl'.next \in Numbers /\ Pos(cl'.next) = Pos(cl.next) + 1
      BY <2>4, RoomForOne
    <3> QED
      BY <2>1, <2>2, <2>4, <3>1 DEF GoesOn
  <2> QED
    BY <2>3, <2>4

\* A call that goes on to another place, with nothing sent yet or between two
\* attempts.
<1>PlaceGoesOn.
    ASSUME IInv, Order, UNCHANGED <<version, req, queue>>,
           ctl'.session = ctl.session, Commands' = Commands,
           cl.pc /= "none", cl'.pc \in {"ping", "diagnostic", "command"},
           cl'.id = cl.id, cl'.seq = cl.seq, cl'.attempt = cl.attempt,
           cl'.pc /= "command" => cl.attempt = 0,
           ClientValid(Current),
           \/ cl'.next = cl.next /\ Owes' <= Owes
           \/ cl'.next = Bump(cl.next) /\ Owes' + 1 <= Owes
    PROVE  GoesOn
  <2> USE <1>PlaceGoesOn
  <2>1. Session' = Session /\ Current' = Current
    BY DEF Session, Current
  <2>2. cl.next \in Numbers /\ Pos(cl.next) \in Int
    BY Positions DEF Order, Counting
  <2>o. PICK o \in Nat : o = Owes
    BY OwesTyped
  <2>p. PICK p \in Nat : p = Owes'
    BY DEF Owes
  <2>3. /\ cl'.next \in Numbers /\ Pos(cl'.next) \in Int
        /\ Pos(cl.next) <= Pos(cl'.next)
        /\ Pos(cl'.next) + Owes' <= Pos(cl.next) + Owes
    <3>1. CASE cl'.next = cl.next /\ Owes' <= Owes
      BY <2>2, <2>o, <2>p, <3>1
    <3>2. CASE cl'.next = Bump(cl.next) /\ Owes' + 1 <= Owes
      <4>0. p + 1 <= o
        BY <2>o, <2>p, <3>2, Zenon
      <4>1. o > 0
        BY <4>0
      <4>2. cl'.next \in Numbers /\ Pos(cl'.next) = Pos(cl.next) + 1
        BY <2>o, <3>2, <4>1, RoomForOne
      <4>3. Pos(cl'.next) + p <= Pos(cl.next) + o
        BY <2>2, <4>0, <4>2
      <4>4. Pos(cl'.next) + Owes' <= Pos(cl.next) + Owes
        BY <2>o, <2>p, <4>3, Zenon
      <4> QED
        BY <2>2, <4>2, <4>4
    <3> QED
      BY <3>1, <3>2
  <2>4. cl.attempt > 0 => cl.seq \in Numbers /\ Pos(cl.seq) < Pos(cl'.next)
    <3> SUFFICES ASSUME cl.attempt > 0
                 PROVE  cl.seq \in Numbers /\ Pos(cl.seq) < Pos(cl'.next)
      OBVIOUS
    <3>1. cl.seq \in Numbers /\ Pos(cl.seq) < Pos(cl.next)
      BY DEF Order, Place
    <3>2. Pos(cl.seq) \in Int
      BY <3>1, Positions
    <3> QED
      BY <2>2, <2>3, <3>1, <3>2
  <2>5. ClientValid(Current)' <=> ClientValid(Current)
    BY <2>1, Zenon DEF ClientValid, ClientArgs
  <2>6. Place'
    BY <2>4, <2>5, <2>1 DEF Place, Pos
  <2> QED
    BY <2>1, <2>3, <2>6 DEF GoesOn

\* What the client has checked when it leaves set_*() and build().
<1>CheckedIsValid.
    ASSUME IInv, Order, cl.pc = "call", ClientArgs(Current),
           Current.type = "PING" \/ ExpectsResult \/ ClientValid(Current)
    PROVE  ClientValid(Current)
  <2> USE <1>CheckedIsValid
  <2>1. cl.id \in Ids
    BY DEF IInv, Books, Pending
  <2>2. Current \in Packets /\ Current.version = version
    BY <2>1 DEF Order, Requested, Current
  <2>3. Current.type \in V1Types \cup V2Only
    BY <2>2 DEF Packets
  <2>4. CASE Current.type = "PING"
    BY <2>4 DEF ClientValid, Types, V1Types
  <2>5. CASE ExpectsResult
    BY <2>2, <2>3, <2>5 DEF ClientValid, Types, ExpectsResult
  <2> QED
    BY <2>4, <2>5

<1> QED
  <2> SUFFICES ASSUME IInv, Order,
                \/ Call \/ SendPing \/ OpenFails \/ SocketGone \/ Timeout
                \/ \E m \in toPc : ReceiveDiagnostic(m) \/ ReceiveResult(m)
               PROVE  GoesOn
    OBVIOUS
  <2>0. cl \in Clients
    BY DEF IInv, PcTyped
  <2>1. ASSUME NEW o, NEW c \in Clients, Return(o, c)
        PROVE  /\ cl'.pc = "none" /\ cl'.attempt = 0 /\ cl'.next = c.next
               /\ ctl'.session = ctl.session
    <3>1. ctl \in Controllers
      BY DEF IInv, PcTyped
    <3> QED
      BY <2>1, <3>1 DEF Return, Clients, Controllers
  <2>2. ASSUME NEW o, Return(o, cl), UNCHANGED <<version, req, queue>>,
               UNCHANGED linkVars
        PROVE  GoesOn
    <3>1. Commands' = Commands
      BY <2>2 DEF Commands, linkVars
    <3>2. /\ cl'.pc = "none" /\ cl'.attempt = 0 /\ cl'.next = cl.next
          /\ ctl'.session = ctl.session
      BY <2>0, <2>1, <2>2
    <3> QED
      BY <2>2, <3>1, <3>2, <1>ReturnGoesOn
  <2>3. ASSUME NEW o, Owes > 0, Return(o, [cl EXCEPT !.next = Bump(@)]),
               UNCHANGED <<version, req, queue>>, UNCHANGED linkVars
        PROVE  GoesOn
    <3>1. Commands' = Commands
      BY <2>3 DEF Commands, linkVars
    <3>2. /\ [cl EXCEPT !.next = Bump(@)] \in Clients
          /\ [cl EXCEPT !.next = Bump(@)].next = Bump(cl.next)
      <4>1. Bump(cl.next) \in Int
        BY <2>0, BumpTyped DEF Clients
      <4> QED
        BY <2>0, <4>1 DEF Clients
    <3>3. /\ cl'.pc = "none" /\ cl'.attempt = 0 /\ cl'.next = Bump(cl.next)
          /\ ctl'.session = ctl.session
      BY <2>1, <2>3, <3>2, ZenonT(60)
    <3> QED
      BY <2>3, <3>1, <3>3, <1>ReturnGoesOn
  <2>4. CASE Call
    <3>1. /\ UNCHANGED <<version, req, queue>> /\ UNCHANGED linkVars
          /\ cl.pc = "call"
      BY <2>4 DEF Call
    <3>2. Owes = 2 /\ cl.attempt = 0
      BY <3>1 DEF Owes, Order, Place
    <3>3. Commands' = Commands
      BY <3>1 DEF Commands, linkVars
    <3>4. \/ Return(Failed, cl)
          \/ Return(Failed, [cl EXCEPT !.next = Bump(@)])
          \/ /\ ClientArgs(Current)
             /\ \/ /\ Current.type = "PING" \/ ExpectsResult
                   /\ cl' = [cl EXCEPT !.pc = "ping"]
                \/ /\ ClientValid(Current)
                   /\ cl' = [cl EXCEPT !.pc = "command"]
             /\ UNCHANGED ctl
      BY <2>4, Zenon DEF Call
    <3>5. CASE Return(Failed, cl)
      BY <2>2, <3>1, <3>5
    <3>6. CASE Return(Failed, [cl EXCEPT !.next = Bump(@)])
      <4>1. Owes > 0
        BY <3>2
      <4> QED
        BY <2>3, <3>1, <3>6, <4>1
    <3>7. CASE /\ ClientArgs(Current)
               /\ \/ /\ Current.type = "PING" \/ ExpectsResult
                     /\ cl' = [cl EXCEPT !.pc = "ping"]
                  \/ /\ ClientValid(Current)
                     /\ cl' = [cl EXCEPT !.pc = "command"]
               /\ UNCHANGED ctl
      <4>1. ClientValid(Current)
        BY <3>1, <3>7, <1>CheckedIsValid
      <4>2. \/ cl' = [cl EXCEPT !.pc = "ping"]
            \/ cl' = [cl EXCEPT !.pc = "command"]
        BY <3>7
      <4>3. /\ cl'.pc \in {"ping", "command"} /\ cl'.id = cl.id /\ cl'.seq = cl.seq
            /\ cl'.attempt = cl.attempt /\ cl'.next = cl.next
        BY <2>0, <4>2 DEF Clients
      <4>4. Owes' <= 2
        BY <4>3 DEF Owes
      <4>5. ctl'.session = ctl.session
        BY <3>7
      <4>6. Owes' <= Owes
        BY <3>2, <4>4, Zenon
      <4> QED
        BY <3>1, <3>2, <3>3, <4>1, <4>3, <4>5, <4>6, <1>PlaceGoesOn
    <3> QED
      BY <3>4, <3>5, <3>6, <3>7
  <2>5. CASE OpenFails
    <3>1. /\ UNCHANGED <<version, req, queue>> /\ UNCHANGED linkVars
          /\ cl.pc \in {"ping", "command"}
          /\ Return(Failed, [cl EXCEPT !.next = IF cl.attempt = 0 THEN Bump(@)
                                                ELSE @])
      BY <2>5 DEF OpenFails
    <3>2. CASE cl.attempt = 0
      <4>1. Owes > 0
        BY <3>1, <3>2 DEF Owes
      <4>2. Return(Failed, [cl EXCEPT !.next = Bump(@)])
        BY <3>1, <3>2
      <4> QED
        BY <2>3, <3>1, <4>1, <4>2
    <3>3. CASE cl.attempt /= 0
      <4>1. [cl EXCEPT !.next = cl.next] = cl
        BY <2>0 DEF Clients
      <4>2. Return(Failed, [cl EXCEPT !.next = cl.next])
        BY <3>1, <3>3
      <4>3. Return(Failed, cl)
        BY <4>1, <4>2, Zenon
      <4> QED
        BY <2>2, <3>1, <4>3
    <3> QED
      BY <3>2, <3>3
  <2>6. CASE SendPing
    <3>1. /\ UNCHANGED <<version, req, ctl, queue>> /\ cl.pc = "ping"
          /\ cl' = [cl EXCEPT !.sock = TRUE, !.next = Bump(@), !.pc = "diagnostic"]
          /\ toHps' = toHps \cup {Ping}
      BY <2>6 DEF SendPing
    <3>2. Commands' = Commands
      BY <3>1 DEF Commands, Ping
    <3>3. /\ cl'.pc = "diagnostic" /\ cl'.id = cl.id /\ cl'.seq = cl.seq
          /\ cl'.attempt = cl.attempt /\ cl'.next = Bump(cl.next)
      BY <2>0, <3>1 DEF Clients
    <3>4. cl.attempt = 0 /\ ClientValid(Current) /\ ctl'.session = ctl.session
      BY <3>1 DEF Order, Place
    <3>5. Owes' = 1 /\ Owes = 2
      BY <3>1, <3>3 DEF Owes
    <3>6. Owes' + 1 <= Owes
      <4>1. 1 + 1 <= 2
        OBVIOUS
      <4> QED
        BY <3>5, <4>1, Zenon
    <3> QED
      BY <3>1, <3>2, <3>3, <3>4, <3>6, <1>PlaceGoesOn
  <2>7. CASE \E m \in toPc : ReceiveDiagnostic(m)
    <3>1. PICK m \in toPc : ReceiveDiagnostic(m)
      BY <2>7
    <3>2. /\ UNCHANGED <<version, req, queue>> /\ UNCHANGED linkVars
          /\ cl.pc = "diagnostic"
      BY <3>1 DEF ReceiveDiagnostic
    <3>3. Commands' = Commands
      BY <3>2 DEF Commands, linkVars
    <3>4. cl.attempt = 0 /\ ClientValid(Current)
      BY <3>2 DEF Order, Place
    <3> DEFINE c == [cl EXCEPT !.probed = version = 2]
    <3>5. c \in Clients /\ c.next = cl.next
      BY <2>0, ZenonT(60) DEF Clients
    <3>6. \/ Return(Failed, cl) \/ Return(Completed("none", cl.id), c)
          \/ cl' = [c EXCEPT !.pc = "command"] /\ UNCHANGED ctl
      BY <3>1, Zenon DEF ReceiveDiagnostic
    <3>7. CASE Return(Failed, cl)
      BY <2>2, <3>2, <3>7
    <3>8. CASE Return(Completed("none", cl.id), c)
      <4>1. /\ cl'.pc = "none" /\ cl'.attempt = 0 /\ cl'.next = cl.next
            /\ ctl'.session = ctl.session
        BY <2>1, <3>5, <3>8, ZenonT(60)
      <4> QED
        BY <3>2, <3>3, <4>1, <1>ReturnGoesOn
    <3>9. CASE cl' = [c EXCEPT !.pc = "command"] /\ UNCHANGED ctl
      <4>1. /\ cl'.pc = "command" /\ cl'.id = cl.id /\ cl'.seq = cl.seq
            /\ cl'.attempt = cl.attempt /\ cl'.next = cl.next
        BY <2>0, <3>9 DEF Clients
      <4>2. Owes' <= 1 /\ Owes = 1
        BY <3>2, <4>1 DEF Owes
      <4>3. Owes' <= Owes
        BY <4>2, Zenon
      <4>4. ctl'.session = ctl.session
        BY <3>9
      <4> QED
        BY <3>2, <3>3, <3>4, <4>1, <4>3, <4>4, <1>PlaceGoesOn
    <3> QED
      BY <3>6, <3>7, <3>8, <3>9
  <2>8. CASE \E m \in toPc : ReceiveResult(m)
    <3>1. /\ UNCHANGED <<version, req, queue>> /\ UNCHANGED linkVars
          /\ \/ \E o : Return(o, cl)
             \/ UNCHANGED <<ctl, cl>>
      BY <2>8, Zenon DEF ReceiveResult
    <3>2. CASE UNCHANGED <<ctl, cl>>
      BY <3>1, <3>2, FrameGoesOn DEF linkVars
    <3> QED
      BY <2>2, <3>1, <3>2
  <2>9. CASE Timeout
    <3>1. /\ UNCHANGED <<version, req, queue>> /\ UNCHANGED linkVars
          /\ \/ Return(Failed, cl)
             \/ /\ cl.pc = "result" /\ cl' = [cl EXCEPT !.pc = "command"]
                /\ UNCHANGED ctl
      BY <2>9, Zenon DEF Timeout, DiagnosticTimeout, ResultTimeout
    <3>2. CASE /\ cl.pc = "result" /\ cl' = [cl EXCEPT !.pc = "command"]
               /\ UNCHANGED ctl
      <4>1. /\ cl'.pc = "command" /\ cl'.id = cl.id /\ cl'.seq = cl.seq
            /\ cl'.attempt = cl.attempt /\ cl'.next = cl.next
        BY <2>0, <3>2 DEF Clients
      <4>2. cl.attempt > 0 /\ ClientValid(Current)
        BY <3>2 DEF Order, Place
      <4>3. Owes' = 0 /\ Owes = 0
        BY <3>2, <4>1, <4>2 DEF Owes
      <4>4. Owes' <= Owes
        <5>1. 0 <= 0
          OBVIOUS
        <5> QED
          BY <4>3, <5>1, Zenon
      <4>5. ctl'.session = ctl.session /\ Commands' = Commands
        BY <3>1, <3>2 DEF Commands, linkVars
      <4> QED
        BY <3>1, <3>2, <4>1, <4>2, <4>4, <4>5, <1>PlaceGoesOn
    <3> QED
      BY <2>2, <3>1, <3>2
  <2>10. CASE SocketGone
    BY <2>2, <2>10 DEF SocketGone
  <2> QED
    BY <2>4, <2>5, <2>6, <2>7, <2>8, <2>9, <2>10

----------------------------------------------------------------------------
(* The steps that take a request, submit one, or send a command.           *)

\* The worker takes the oldest request that waits.
LEMMA OrderGet ==
    ASSUME IInv, Order, WorkerGet
    PROVE  Order'
<1>1. /\ queue \in Seq(Nat) /\ Len(queue) \in Nat /\ DOMAIN queue = 1 .. Len(queue)
      /\ Len(req) \in Nat /\ cl \in Clients /\ ctl \in Controllers
  BY LenProperties DEF IInv, PcTyped
<1>2. /\ UNCHANGED <<version, req>> /\ UNCHANGED linkVars /\ ctl.thread = "get"
      /\ ctl' = [ctl EXCEPT !.thread = IF queue = <<>> THEN "loop" ELSE "execute"]
      /\ \/ UNCHANGED <<queue, cl>>
         \/ /\ queue /= <<>> /\ queue' = Tail(queue)
            /\ cl' = [cl EXCEPT !.id = Head(queue), !.pc = "call"]
  BY DEF WorkerGet, Worker
<1>3. Session' = Session /\ Commands' = Commands /\ Ids' = Ids
  BY <1>1, <1>2 DEF Controllers, Session, Commands, linkVars, Ids
<1>4. CASE UNCHANGED <<queue, cl>>
  BY <1>2, <1>3, <1>4, FrameGoesOn, OrderGoesOn DEF linkVars, Session
<1>5. CASE /\ queue /= <<>> /\ queue' = Tail(queue)
           /\ cl' = [cl EXCEPT !.id = Head(queue), !.pc = "call"]
  <2>1. /\ Len(queue) > 0 /\ Len(queue') = Len(queue) - 1 /\ Len(queue') \in Nat
        /\ queue' \in Seq(Nat) /\ Head(queue) = queue[1]
        /\ \A i \in 1 .. Len(queue) - 1 : queue'[i] = queue[i + 1]
    BY <1>1, <1>5, HeadTailProperties, EmptySeq, LenProperties
  <2>2. /\ DOMAIN queue' = 1 .. Len(queue) - 1 /\ 1 \in DOMAIN queue
        /\ \A i \in DOMAIN queue' : i + 1 \in DOMAIN queue /\ i + 1 > 1
                                    /\ queue'[i] = queue[i + 1]
    BY <1>1, <2>1, LenProperties
  <2>3. cl.pc = "none"
    BY <1>2 DEF IInv, Control
  <2>4. /\ cl'.pc = "call" /\ cl'.id = queue[1] /\ cl'.next = cl.next
        /\ cl'.seq = cl.seq /\ cl'.attempt = cl.attempt
    BY <1>1, <1>5, <2>1 DEF Clients
  <2>5. cl.attempt = 0
    BY <2>3 DEF Order, Place
  <2>6. Counting'
    <3>1. Owes' = 2 /\ Owes = 0
      BY <2>3, <2>4 DEF Owes
    <3>2. /\ Pos(cl.next) + 2 * Len(queue) + Owes <= 2 * Len(req)
          /\ cl.next \in Numbers
      BY DEF Order, Counting
    <3>3. Pos(cl.next) \in Int
      BY <3>2, Positions
    <3>4. Pos(cl.next) + 2 * Len(queue') + 2 <= 2 * Len(req)
      BY <1>1, <2>1, <3>1, <3>2, <3>3
    <3>5. Pos(cl.next) + 2 * Len(queue') + Owes' <= 2 * Len(req)
      BY <3>1, <3>4, Zenon
    <3> QED
      BY <1>2, <2>4, <3>2, <3>5 DEF Order, Counting, Pos
  <2>7. Place'
    BY <2>4, <2>5 DEF Place
  <2>8. Ascending'
    <3>1. \A i, j \in DOMAIN queue' : i < j => queue'[i] < queue'[j]
      <4> SUFFICES ASSUME NEW i \in DOMAIN queue', NEW j \in DOMAIN queue', i < j
                   PROVE  queue'[i] < queue'[j]
        OBVIOUS
      <4>1. i + 1 < j + 1 /\ i + 1 \in DOMAIN queue /\ j + 1 \in DOMAIN queue
        BY <1>1, <2>2
      <4>2. queue[i + 1] < queue[j + 1]
        BY <4>1 DEF Order, Ascending
      <4> QED
        BY <2>2, <4>2
    <3>2. \A i \in DOMAIN queue' : queue[1] < queue'[i]
      BY <2>2 DEF Order, Ascending
    <3> QED
      BY <2>4, <3>1, <3>2 DEF Ascending
  <2>9. ASSUME NEW m \in Commands, SessionOf(m) = Session PROVE SentBefore(m)'
    <3>1. SentBefore(m) /\ m.by \in Ids
      BY <2>9 DEF Order, Sent
    <3>2. m.by \in Nat /\ queue[1] \in Nat
      BY <1>1, <2>2, <3>1 DEF Ids
    <3>3. m.by < queue[1]
      BY <2>2, <3>1 DEF SentBefore
    <3>4. \A i \in DOMAIN queue' : m.by < queue'[i]
      BY <2>2, <3>1 DEF SentBefore
    <3>5. m.by <= queue[1] /\ m.by /= queue[1]
      BY <3>2, <3>3
    <3>6. Pos(m.seq) < Pos(cl.next)
      BY <3>1 DEF SentBefore
    <3> QED
      BY <2>4, <2>5, <3>4, <3>5, <3>6 DEF SentBefore, Pos
  <2>10. Sent'
    BY <1>2, <1>3, <2>9 DEF Order, Sent, SessionOf, Pos
  <2>11. Numbered' /\ Requested'
    BY <1>2, <1>3 DEF Order, Numbered, Requested, SessionOf, Pos
  <2> QED
    BY <2>6, <2>7, <2>8, <2>10, <2>11 DEF Order
<1> QED
  BY <1>2, <1>4, <1>5

\* A request gets the next place, in the list and in the queue.
LEMMA OrderSubmit ==
    ASSUME IInv, Order, NEW r \in Requests, Submit(r)
    PROVE  Order'
<1> DEFINE p == [type |-> r.type, version |-> version,
                 a0 |-> r.a0, a1 |-> r.a1, a2 |-> r.a2]
           e == [packet |-> p, session |-> Session]
<1>1. /\ queue \in Seq(Nat) /\ Len(queue) \in Nat /\ DOMAIN queue = 1 .. Len(queue)
      /\ req \in Seq(Asked) /\ Len(req) \in Nat /\ cl \in Clients
      /\ version \in {1, 2}
  BY LenProperties DEF IInv, PcTyped
<1>n. PICK n \in Nat : n = Len(req) + 1
  BY <1>1
<1>2. /\ UNCHANGED <<version, ctl, cl>> /\ UNCHANGED linkVars
      /\ Len(req) < MaxRequests /\ req' = Append(req, e)
      /\ queue' = Append(queue, n) \/ queue' = queue
  BY <1>n DEF Submit
<1>3. e \in Asked
  BY <1>1 DEF Asked, Session, IInv, PcTyped, Controllers
<1>4. p \in Packets /\ p.version = version
  BY <1>1, PathAssumption DEF Packets
<1>5. e.packet = p
  OBVIOUS
<1> HIDE DEF p, e
<1>6. /\ Len(req') = n /\ req'[n] = e
      /\ \A i \in 1 .. Len(req) : req'[i] = req[i]
  BY <1>1, <1>2, <1>3, <1>n, AppendProperties, SMTT(30)
<1>7. /\ Session' = Session /\ Commands' = Commands
      /\ Ids' = Ids \cup {n} /\ n \notin Ids
      /\ \A id \in Ids : req'[id] = req[id] /\ id < n /\ id \in Nat
  BY <1>1, <1>2, <1>6, <1>n DEF Session, Commands, linkVars, Ids
<1>8. \A i \in DOMAIN queue : queue[i] \in Ids
  BY DEF IInv, Books, Pending
<1>9. cl.pc /= "none" => cl.id \in Ids
  BY DEF IInv, Books, Pending
<1>10. /\ Len(queue') \in Nat /\ Len(queue') <= Len(queue) + 1
       /\ \A i \in DOMAIN queue' :
             \/ i \in DOMAIN queue /\ queue'[i] = queue[i]
             \/ i = Len(queue) + 1 /\ queue'[i] = n
  <2>1. CASE queue' = Append(queue, n)
    <3>1. /\ Len(queue') = Len(queue) + 1 /\ queue' \in Seq(Nat)
          /\ \A i \in 1 .. Len(queue) : queue'[i] = queue[i]
          /\ queue'[Len(queue) + 1] = n
      BY <1>1, <2>1, AppendProperties
    <3>2. DOMAIN queue' = 1 .. Len(queue) + 1
      BY <3>1, LenProperties
    <3> QED
      BY <1>1, <3>1, <3>2
  <2>2. CASE queue' = queue
    BY <1>1, <2>2
  <2> QED
    BY <1>2, <2>1, <2>2
<1>11. Requested'
  BY <1>2, <1>4, <1>5, <1>6, <1>7, ZenonT(60) DEF Order, Requested
<1>12. Counting'
  <2>1. Owes' = Owes
    BY <1>2 DEF Owes
  <2>2. Owes \in Int
    BY OwesTyped
  <2>3. /\ cl.next \in Numbers /\ Pos(cl.next) \in Int
    BY Positions DEF Order, Counting
  <2>4. Pos(cl.next) + 2 * Len(queue) + Owes <= 2 * Len(req)
    BY DEF Order, Counting
  <2>5. Pos(cl.next) + 2 * Len(queue') + Owes <= 2 * n
    BY <1>1, <1>10, <1>n, <2>2, <2>3, <2>4
  <2>6. n <= MaxRequests
    BY <1>1, <1>2, <1>n, PathAssumption
  <2>7. Pos(cl.next) + 2 * Len(queue') + Owes' <= 2 * Len(req')
    BY <1>6, <2>1, <2>5, Zenon
  <2> QED
    BY <1>2, <1>6, <2>3, <2>6, <2>7 DEF Counting, Pos
<1>13. Place'
  <2>1. CASE cl.pc = "none"
    BY <1>2, <2>1 DEF Order, Place
  <2>2. CASE cl.pc /= "none"
    <3>1. Current' = Current
      BY <1>2, <1>7, <1>9, <2>2, ZenonT(60) DEF Current
    <3>2. ClientValid(Current)' <=> ClientValid(Current)
      BY <3>1, Zenon DEF ClientValid, ClientArgs
    <3> QED
      BY <1>2, <3>1, <3>2 DEF Order, Place, ExpectsResult, Pos
  <2> QED
    BY <2>1, <2>2
<1>14. Ascending'
  <2>1. ASSUME NEW i \in DOMAIN queue', NEW j \in DOMAIN queue', i < j
        PROVE  queue'[i] < queue'[j]
    <3>1. i \in DOMAIN queue /\ queue'[i] = queue[i]
      <4>1. CASE i = Len(queue) + 1
        BY <1>1, <1>10, <2>1, <4>1
      <4> QED
        BY <1>10, <4>1
    <3>2. CASE j \in DOMAIN queue /\ queue'[j] = queue[j]
      BY <2>1, <3>1, <3>2 DEF Order, Ascending
    <3>3. CASE queue'[j] = n
      BY <1>7, <1>8, <3>1, <3>3
    <3> QED
      BY <1>10, <3>2, <3>3
  <2>2. ASSUME cl.pc /= "none", NEW i \in DOMAIN queue' PROVE cl.id < queue'[i]
    BY <1>7, <1>9, <1>10, <2>2 DEF Order, Ascending
  <2> QED
    BY <1>2, <2>1, <2>2 DEF Ascending
<1>15. \A m \in Commands : m.by \in Ids
  BY DEF Order, Sent
<1>16. \A m \in Commands : SessionOf(m)' = SessionOf(m)
  BY <1>7, <1>15, SMTT(30) DEF SessionOf
<1>17. ASSUME NEW m \in Commands, SentBefore(m) PROVE SentBefore(m)'
  <2>1. \A i \in DOMAIN queue' : m.by < queue'[i]
    BY <1>7, <1>10, <1>15, <1>17 DEF SentBefore
  <2> QED
    BY <1>2, <1>17, <2>1 DEF SentBefore, Pos
<1>18. Sent'
  BY <1>7, <1>15, <1>16, <1>17 DEF Order, Sent, SessionOf, Pos
<1>19. Numbered'
  BY <1>7, <1>16 DEF Order, Numbered, SessionOf, Pos
<1> QED
  BY <1>11, <1>12, <1>13, <1>14, <1>18, <1>19 DEF Order

\* A dashboard process that starts again: its numbers start again, and every
\* command on the link is of an earlier session.
LEMMA OrderRestart ==
    ASSUME IInv, Order, DashboardRestart
    PROVE  Order'
<1>1. /\ UNCHANGED <<version, req, toHps>> /\ cl' = NewClient /\ queue' = <<>>
      /\ ctl' = NewController(Session + 1)
  BY DEF DashboardRestart
<1>2. /\ cl'.pc = "none" /\ cl'.attempt = 0 /\ cl'.next = SeqStart
  BY <1>1 DEF NewClient
<1>3. Session' = Session + 1 /\ Session \in Nat
  BY <1>1 DEF NewController, Session, IInv, PcTyped, Controllers
<1>4. Commands' = Commands /\ Ids' = Ids /\ Len(req) \in Nat
  BY <1>1, LenProperties DEF Commands, Ids, IInv, PcTyped
<1>5. Requested'
  BY <1>1, <1>4 DEF Order, Requested
<1>6. Counting'
  <2>1. Owes' = 0 /\ Len(queue') = 0
    BY <1>1, <1>2, EmptySeq DEF Owes
  <2>2. cl'.next \in Numbers /\ Pos(cl'.next) = 0
    BY <1>2, Positions
  <2>3. 0 + 2 * 0 + 0 <= 2 * Len(req)
    BY <1>4
  <2>4. Pos(cl'.next) + 2 * Len(queue') + Owes' <= 2 * Len(req)
    BY <2>1, <2>2, <2>3, Zenon
  <2> QED
    BY <1>1, <2>2, <2>4 DEF Order, Counting, Pos
<1>7. Place'
  BY <1>2 DEF Place
<1>8. Ascending'
  BY <1>1, <1>2 DEF Ascending
<1>9. ASSUME NEW m \in Commands PROVE SessionOf(m) /= Session'
  <2>1. m.by \in Ids
    BY DEF Order, Sent
  <2>2. SessionOf(m) <= Session /\ SessionOf(m) \in Nat
    BY <2>1, EndedOf DEF IInv, Books, SessionOf, Asked
  <2> QED
    BY <1>3, <2>2, SMTT(30)
<1>10. Sent'
  BY <1>1, <1>4, <1>9 DEF Order, Sent, SessionOf, Pos
<1>11. Numbered'
  BY <1>1, <1>4 DEF Order, Numbered, SessionOf, Pos
<1> QED
  BY <1>5, <1>6, <1>7, <1>8, <1>10, <1>11 DEF Order
============================================================================
