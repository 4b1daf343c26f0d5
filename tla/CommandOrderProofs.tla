------------------------ MODULE CommandOrderProofs -------------------------
(***************************************************************************)
(* Proofs about the commands under way.  The ledger keeps the commands of  *)
(* a session in order, and the results that return are the caller's own:   *)
(* every step keeps the order of the numbers (Order), and what the HPS has *)
(* executed and answered stems from commands on the link (Served).         *)
(***************************************************************************)
EXTENDS CommandPathProofs

----------------------------------------------------------------------------
(* The ledger and the answers of the HPS.                                  *)

Hpses ==
    [boot : Nat, learns : BOOLEAN, peer : BOOLEAN,
     ledger : [valid : BOOLEAN, seq : Int, packet : Packets \cup {<<>>},
               disposition : Dispositions, by : Nat]]
Executed(id) == \E i \in DOMAIN execs : execs[i].id = id

\* An execution stems from a command on the link; one by this HPS process is
\* not newer than its ledger.
Recorded(e) ==
    \E m \in Commands :
        /\ m.by = e.id /\ SessionOf(m) = e.session
        /\ version = 2 /\ e.boot = hps.boot =>
              hps.ledger.valid /\ Pos(m.seq) <= Pos(hps.ledger.seq)

Ledger ==
    /\ hps \in Hpses
    /\ execs \in Seq([id : Nat, boot : Nat, session : Nat])
    /\ hps.ledger.valid =>
         /\ hps.peer
         /\ hps.ledger.disposition \in {"APPLIED", "FAILED"}
         /\ Executed(hps.ledger.by)
         /\ \E m \in Commands : /\ m.seq = hps.ledger.seq
                                /\ m.packet = hps.ledger.packet
                                /\ m.by = hps.ledger.by
    /\ \A i \in DOMAIN execs : execs[i].boot <= hps.boot /\ Recorded(execs[i])

\* A result on the link answers commands that are on the link.
Grounded(r) ==
    /\ \E m \in Commands :
          m.by = r.by /\ m.seq = r.seq /\ m.packet.type = r.type
    /\ r.disposition \in {"APPLIED", "FAILED", "CONFLICT", "STALE"}
    /\ r.disposition \in {"APPLIED", "FAILED"} => Executed(r.by)
    /\ r.disposition = "CONFLICT" =>
          \E m, n \in Commands :
              m.seq = r.seq /\ n.seq = r.seq /\ m.packet /= n.packet
    /\ r.disposition = "STALE" => \E n \in Commands : Pos(n.seq) > Pos(r.seq)
Answers == \A r \in toPc : r.kind = "result" => Grounded(r)

Served == Ledger /\ Answers /\ LedgerOrders

----------------------------------------------------------------------------

\* The HPS executes one more command.
LEMMA ExecuteAdds ==
    ASSUME IInv, Order, Served, NEW m \in Commands, Execute(m)
    PROVE  LET e == [id |-> m.by, boot |-> hps.boot, session |-> SessionOf(m)]
               n == Len(execs)
           IN  /\ execs' \in Seq([id : Nat, boot : Nat, session : Nat])
               /\ n \in Nat /\ DOMAIN execs = 1 .. n /\ DOMAIN execs' = 1 .. n + 1
               /\ \A i \in 1 .. n : execs'[i] = execs[i]
               /\ execs'[n + 1] = e
               /\ Executed(m.by)'
               /\ \A id : Executed(id) => Executed(id)'
<1> DEFINE e == [id |-> m.by, boot |-> hps.boot, session |-> SessionOf(m)]
           n == Len(execs)
           E == [id : Nat, boot : Nat, session : Nat]
<1>1. execs \in Seq(E) /\ n \in Nat /\ DOMAIN execs = 1 .. n
  BY LenProperties DEF Served, Ledger
<1>2. execs' = Append(execs, e)
  BY DEF Execute, SessionOf
<1>3. e \in E
  <2>1. m.by \in Ids /\ hps.boot \in Nat
    BY DEF Order, Sent, Served, Ledger, Hpses
  <2>2. m.by \in Nat /\ req[m.by] \in Asked
    BY <2>1, EndedOf DEF Ids, IInv
  <2>3. SessionOf(m) \in Nat
    BY <2>2 DEF SessionOf, Asked
  <2> QED
    BY <2>1, <2>2, <2>3
<1>e. e.id = m.by
  OBVIOUS
<1> HIDE DEF e, E, n
<1>4. /\ execs' \in Seq(E) /\ Len(execs') = n + 1
      /\ \A i \in 1 .. n : execs'[i] = execs[i]
      /\ execs'[n + 1] = e
  BY <1>1, <1>2, <1>3, AppendProperties DEF n
<1>5. DOMAIN execs' = 1 .. n + 1
  BY <1>4, LenProperties
<1>6. n + 1 \in 1 .. n + 1 /\ \A i \in 1 .. n : i \in 1 .. n + 1
  BY <1>1
<1>7. Executed(m.by)'
  BY <1>4, <1>5, <1>6, <1>e DEF Executed
<1>8. \A id : Executed(id) => Executed(id)'
  BY <1>1, <1>4, <1>5, <1>6 DEF Executed
<1> QED
  BY <1>1, <1>4, <1>5, <1>7, <1>8 DEF e, E, n

\* What the dashboard's steps leave alone.
LEMMA DashboardFrame ==
    ASSUME UserInterface \/ Stopping \/ WorkerStep \/ DashboardRestart \/ UNCHANGED vars
    PROVE  UNCHANGED <<version, toPc, hps, execs>>
  BY ZenonT(60)
     DEF UserInterface, Start, Submit, Stop, Stopping, JoinDeadline, StopReturns,
         WorkerStep, WorkerOpen, WorkerLoop, WorkerGet, WorkerRefuses,
         WorkerDrains, WorkerEnds, Call, SendPing, SendCommand, OpenFails,
         SocketGone, ReceiveDiagnostic, ReceiveResult, Timeout,
         DiagnosticTimeout, ResultTimeout, DashboardRestart, linkVars, vars

\* The requests and the datagrams only grow.
LEMMA RequestsGrow ==
    ASSUME IInv, [Next]_vars
    PROVE  /\ version' = version
           /\ Ids \subseteq Ids' /\ \A id \in Ids : req'[id] = req[id]
           /\ toHps \subseteq toHps'
<1>1. /\ version' = version
      /\ toHps \subseteq toHps'
      /\ req' = req \/ \E r \in Requests : Submit(r)
  BY ZenonT(60) DEF Next, UserInterface, Start, Submit, Stop, Stopping, JoinDeadline,
         StopReturns,
         WorkerStep, WorkerOpen, WorkerLoop, WorkerGet, WorkerRefuses,
         WorkerDrains, WorkerEnds, Call, SendPing, SendCommand, OpenFails,
         SocketGone, ReceiveDiagnostic, ReceiveResult, Timeout,
         DiagnosticTimeout, ResultTimeout, DashboardRestart, linkVars, vars,
         HpsReceive, HpsRestart
<1>2. CASE req' = req
  BY <1>1, <1>2 DEF Ids
<1>3. CASE \E r \in Requests : Submit(r)
  <2>1. PICK a : req' = Append(req, a)
    BY <1>3 DEF Submit
  <2>2. req \in Seq(Asked) /\ Len(req) \in Nat
    BY LenProperties DEF IInv, PcTyped
  <2>3. Len(req') = Len(req) + 1 /\ \A i \in 1 .. Len(req) : req'[i] = req[i]
    BY <2>1, <2>2
  <2> QED
    BY <1>1, <2>2, <2>3, SMTT(30) DEF Ids
<1> QED
  BY <1>1, <1>2, <1>3

\* Every step keeps what the HPS has served.
LEMMA ServedKeeps ==
    IInv /\ Order /\ Served /\ [Next]_vars => Served'

\* What the dashboard does only adds to the commands.
<1>ServedFrame.
    ASSUME IInv, Served, UNCHANGED <<version, toPc, hps, execs>>,
           Commands \subseteq Commands',
           \A m \in Commands : SessionOf(m)' = SessionOf(m)
    PROVE  Served'
  <2> USE <1>ServedFrame
  <2>1. \A e : Recorded(e) => Recorded(e)'
    BY DEF Recorded, Pos
  <2>2. \A id : Executed(id)' <=> Executed(id)
    BY DEF Executed
  <2>3. Ledger'
    BY <2>1, <2>2, SMTT(30) DEF Served, Ledger, Hpses
  <2>4. \A r : Grounded(r) => Grounded(r)'
    BY <2>2 DEF Grounded, Pos
  <2>5. Answers'
    BY <2>4, SMTT(30) DEF Served, Answers
  <2>6. LedgerOrders'
    BY DEF Served, LedgerOrders
  <2> QED
    BY <2>3, <2>5, <2>6, SMTT(30) DEF Served

\* A command on the link was checked by its sender, so the HPS rejects none.
<1>NeverRejected.
    ASSUME IInv, Order, NEW m \in Commands
    PROVE  ServerReason(m.packet) = "NONE" /\ m.packet \in Packets
  <2> USE <1>NeverRejected
  <2>1. m.by \in Ids /\ m.packet = req[m.by].packet /\ ClientValid(m.packet)
    BY DEF Order, Sent
  <2>2. m.packet \in Packets
    BY <2>1 DEF Order, Requested
  <2> QED
    BY <2>1, <2>2, ValidatorsAgree

\* An answer that is added to the link, with the ledger as it was.
<1>AnswerAdds.
    ASSUME IInv, Order, Served, NEW r,
           toPc' = toPc \cup {r}, r.kind = "result" => Grounded(r),
           UNCHANGED <<version, req, toHps, hps, execs>>
    PROVE  Served'
  <2> USE <1>AnswerAdds
  <2>1. Commands' = Commands /\ \A m \in Commands : SessionOf(m)' = SessionOf(m)
    BY DEF Commands, SessionOf
  <2>2. \A e : Recorded(e) => Recorded(e)'
    BY <2>1 DEF Recorded, Pos
  <2>3. \A id : Executed(id)' <=> Executed(id)
    BY SMTT(30) DEF Executed
  <2>4. Ledger'
    BY <2>1, <2>2, <2>3, SMTT(30) DEF Served, Ledger, Hpses
  <2>5. \A a : Grounded(a) => Grounded(a)'
    BY <2>1, <2>3 DEF Grounded, Pos
  <2>6. Answers'
    BY <2>5 DEF Served, Answers
  <2>7. LedgerOrders'
    BY DEF Served, LedgerOrders
  <2> QED
    BY <2>4, <2>6, <2>7 DEF Served

\* The HPS takes a new command: it executes it and enters it in the ledger.
<1>ServedDecides.
    ASSUME IInv, Order, Served, version = 2, NEW m \in Commands,
           UNCHANGED <<version, req, toHps>>, hps.peer,
           hps.ledger.valid => SerialIsNewer(m.seq, hps.ledger.seq),
           NEW d \in {"APPLIED", "FAILED"},
           hps' = [hps EXCEPT !.ledger =
                      [valid |-> TRUE, seq |-> m.seq, packet |-> m.packet,
                       disposition |-> d, by |-> m.by]],
           toPc' = toPc \cup {Result(m, d, m.by)}, Execute(m)
    PROVE  Served'
  <2> USE <1>ServedDecides
  <2> DEFINE e == [id |-> m.by, boot |-> hps.boot, session |-> SessionOf(m)]
             n == Len(execs)
             led == [valid |-> TRUE, seq |-> m.seq, packet |-> m.packet,
                     disposition |-> d, by |-> m.by]
  <2>1. /\ execs' \in Seq([id : Nat, boot : Nat, session : Nat])
        /\ n \in Nat /\ DOMAIN execs = 1 .. n /\ DOMAIN execs' = 1 .. n + 1
        /\ \A i \in 1 .. n : execs'[i] = execs[i]
        /\ execs'[n + 1] = e
        /\ Executed(m.by)'
        /\ \A id : Executed(id) => Executed(id)'
    BY ExecuteAdds
  <2>2. /\ m.by \in Ids /\ m.seq \in Numbers /\ Pos(m.seq) < 2 * MaxRequests
        /\ m.packet \in Packets
    BY <1>NeverRejected DEF Order, Sent
  <2>3. m.by \in Nat /\ m.seq \in Int /\ Pos(m.seq) \in Nat
    BY <2>2, Positions DEF Ids, Numbers
  <2>4. hps \in Hpses
    BY DEF Served, Ledger
  <2>5. led \in [valid : BOOLEAN, seq : Int, packet : Packets \cup {<<>>},
                 disposition : Dispositions, by : Nat]
    BY <2>2, <2>3 DEF Dispositions
  <2>6. hps' = [hps EXCEPT !.ledger = led]
    OBVIOUS
  <2> HIDE DEF led
  <2>7. /\ hps' \in Hpses /\ hps'.ledger = led /\ hps'.boot = hps.boot
        /\ hps'.peer = hps.peer
    BY <2>4, <2>5, <2>6, ZenonT(60) DEF Hpses
  <2>8. /\ led.valid = TRUE /\ led.seq = m.seq /\ led.packet = m.packet
        /\ led.disposition = d /\ led.by = m.by
    BY DEF led
  <2>9. Commands' = Commands /\ \A a \in Commands : SessionOf(a)' = SessionOf(a)
    BY DEF Commands, SessionOf
  <2>10. e.id = m.by /\ e.boot = hps.boot /\ e.session = SessionOf(m)
    OBVIOUS
  <2> HIDE DEF e, n
  \* What this HPS process has executed before is older.
  <2>11. ASSUME NEW i \in 1 .. n, execs[i].boot = hps.boot
         PROVE  \E a \in Commands : /\ a.by = execs[i].id
                                    /\ SessionOf(a) = execs[i].session
                                    /\ Pos(a.seq) < Pos(m.seq)
    <3>1. Recorded(execs[i])
      BY <2>1 DEF Served, Ledger
    <3>2. PICK a \in Commands : /\ a.by = execs[i].id /\ SessionOf(a) = execs[i].session
                                /\ hps.ledger.valid
                                /\ Pos(a.seq) <= Pos(hps.ledger.seq)
      BY <2>11, <3>1 DEF Recorded
    <3>3. PICK b \in Commands : b.seq = hps.ledger.seq
      BY <3>2 DEF Served, Ledger
    <3>4. /\ a.seq \in Numbers /\ b.seq \in Numbers /\ Pos(b.seq) < 2 * MaxRequests
      BY DEF Order, Sent
    <3>5. Pos(a.seq) \in Nat /\ Pos(b.seq) \in Nat
      BY <3>4, Positions
    <3>6. SerialIsNewer(m.seq, b.seq)
      BY <3>2, <3>3
    <3>7. Pos(m.seq) > Pos(b.seq)
      BY <2>2, <3>4, <3>6, NewerIsLater
    <3>8. Pos(a.seq) <= Pos(b.seq)
      BY <3>2, <3>3
    <3>9. Pos(a.seq) < Pos(m.seq)
      BY <2>3, <3>5, <3>7, <3>8
    <3> QED
      BY <3>2, <3>9
  <2>12. ASSUME NEW i \in 1 .. n PROVE Recorded(execs[i])'
    <3>1. CASE execs[i].boot = hps.boot
      <4>1. PICK a \in Commands : /\ a.by = execs[i].id
                                  /\ SessionOf(a) = execs[i].session
                                  /\ Pos(a.seq) < Pos(m.seq)
        BY <2>11, <3>1
      <4>2. a.seq \in Numbers
        BY DEF Order, Sent
      <4>3. Pos(a.seq) \in Nat
        BY <4>2, Positions
      <4>4. Pos(a.seq) <= Pos(m.seq)
        BY <2>3, <4>1, <4>3
      <4> QED
        BY <2>1, <2>7, <2>8, <2>9, <4>1, <4>4, ZenonT(60) DEF Recorded, Pos
    <3>2. CASE execs[i].boot /= hps.boot
      <4>1. Recorded(execs[i])
        BY <2>1 DEF Served, Ledger
      <4> QED
        BY <2>1, <2>7, <2>9, <3>2, <4>1, ZenonT(60) DEF Recorded
    <3> QED
      BY <3>1, <3>2
  <2>13. ASSUME NEW i, i = n + 1 PROVE Recorded(execs[i])'
    <3>1. Pos(m.seq) <= Pos(m.seq)
      BY <2>3
    <3>2. SessionOf(m)' = SessionOf(m) /\ m \in Commands'
      BY <2>9
    <3>3. execs'[i].id = m.by /\ execs'[i].session = SessionOf(m)
      BY <2>1, <2>10, <2>13
    <3> QED
      BY <2>7, <2>8, <3>1, <3>2, <3>3 DEF Recorded, Pos
  <2>14. \A i \in 1 .. n + 1 : i = n + 1 \/ i \in 1 .. n
    BY <2>1
  <2>15. ASSUME NEW i \in 1 .. n + 1
         PROVE  execs'[i].boot <= hps'.boot /\ Recorded(execs[i])'
    <3>1. hps.boot \in Nat
      BY <2>4 DEF Hpses
    <3>2. CASE i = n + 1
      <4>1. execs'[i].boot = hps.boot
        BY <2>1, <2>10, <3>2
      <4>2. Recorded(execs[i])'
        BY <2>13, <3>2
      <4> QED
        BY <2>7, <3>1, <4>1, <4>2
    <3>3. CASE i \in 1 .. n
      <4>1. execs'[i] = execs[i] /\ execs[i].boot <= hps.boot
        BY <2>1, <3>3 DEF Served, Ledger
      <4>2. Recorded(execs[i])'
        BY <2>1, <2>12, <3>3
      <4> QED
        BY <2>7, <4>1, <4>2
    <3> QED
      BY <2>14, <3>2, <3>3
  <2>16. Ledger'
    <3>1. \E a \in Commands : a.seq = m.seq /\ a.packet = m.packet /\ a.by = m.by
      OBVIOUS
    <3>2. hps'.peer
      BY <2>7
    <3> QED
      BY <2>1, <2>7, <2>8, <2>9, <2>15, <3>1, <3>2 DEF Ledger
  <2>17. Answers'
    <3> DEFINE r == Result(m, d, m.by)
    <3>1. /\ r.kind = "result" /\ r.by = m.by /\ r.seq = m.seq
          /\ r.type = m.packet.type /\ r.disposition = d
      BY DEF Result
    <3>2. Grounded(r)'
      BY <2>1, <2>9, <3>1 DEF Grounded
    <3>3. \A a : Grounded(a) => Grounded(a)'
      BY <2>1, <2>9 DEF Grounded, Pos
    <3> QED
      BY <3>2, <3>3 DEF Served, Answers
  <2>18. LedgerOrders'
    <3> SUFFICES ASSUME NEW i \in 1 .. n + 1, NEW j \in 1 .. n + 1, i < j,
                        execs'[i].boot = execs'[j].boot,
                        execs'[i].session = execs'[j].session
                 PROVE  execs'[i].id < execs'[j].id
      BY <2>1, ZenonT(60) DEF LedgerOrders
    <3>1. i \in 1 .. n
      BY <2>1
    <3>2. CASE j \in 1 .. n
      BY <2>1, <3>1, <3>2, ZenonT(60) DEF Served, LedgerOrders
    <3>3. CASE j = n + 1
      <4>1. /\ execs[i].boot = hps.boot /\ execs[i].session = SessionOf(m)
            /\ execs'[j].id = m.by
        BY <2>1, <2>10, <3>1, <3>3, ZenonT(60)
      <4>2. PICK a \in Commands : /\ a.by = execs[i].id /\ SessionOf(a) = SessionOf(m)
                                  /\ Pos(a.seq) < Pos(m.seq)
        BY <2>11, <3>1, <4>1
      <4>3. a.by \in Ids /\ a.seq \in Numbers
        BY DEF Order, Sent
      <4>4. a.by \in Nat /\ Pos(a.seq) \in Nat
        BY <4>3, Positions, SMTT(30) DEF Ids
      <4>5. /\ m.by < a.by => Pos(m.seq) < Pos(a.seq)
            /\ m.by = a.by => m.seq = a.seq
        BY <4>2 DEF Order, Numbered
      <4>6. a.by < m.by
        BY <2>3, <4>2, <4>4, <4>5, SMTT(30)
      <4> QED
        BY <2>1, <3>1, <4>1, <4>2, <4>6, ZenonT(60)
    <3> QED
      BY <2>14, <3>2, <3>3
  <2> QED
    BY <2>16, <2>17, <2>18 DEF Served

\* A command that finds an entry in the ledger that it is not newer than.
<1>ServedAnswers.
    ASSUME IInv, Order, Served, NEW m \in Commands,
           UNCHANGED <<version, req, toHps, hps, execs>>, hps.ledger.valid,
           NEW r, toPc' = toPc \cup {r},
           \/ /\ hps.ledger.seq = m.seq /\ hps.ledger.packet = m.packet
              /\ r = Result(m, hps.ledger.disposition, hps.ledger.by)
           \/ /\ hps.ledger.seq = m.seq /\ hps.ledger.packet /= m.packet
              /\ r = Result(m, "CONFLICT", m.by)
           \/ /\ hps.ledger.seq /= m.seq
              /\ ~SerialIsNewer(m.seq, hps.ledger.seq)
              /\ r = Result(m, "STALE", m.by)
    PROVE  Served'
  <2> USE <1>ServedAnswers
  <2>1. PICK n \in Commands : /\ n.seq = hps.ledger.seq
                              /\ n.packet = hps.ledger.packet
                              /\ n.by = hps.ledger.by
    BY SMTT(30) DEF Served, Ledger
  <2>2. /\ hps.ledger.disposition \in {"APPLIED", "FAILED"}
        /\ Executed(hps.ledger.by)
    BY SMTT(30) DEF Served, Ledger
  <2>3. CASE /\ hps.ledger.seq = m.seq /\ hps.ledger.packet = m.packet
             /\ r = Result(m, hps.ledger.disposition, hps.ledger.by)
    <3>1. /\ r.seq = m.seq /\ r.type = m.packet.type
          /\ r.disposition = hps.ledger.disposition /\ r.by = hps.ledger.by
      BY <2>3, SMTT(30) DEF Result
    <3>2. n.by = r.by /\ n.seq = r.seq /\ n.packet.type = r.type
      BY <2>1, <2>3, <3>1, SMTT(30)
    <3>3. Grounded(r)
      BY <2>2, <3>1, <3>2, SMTT(30) DEF Grounded
    <3> QED
      BY <3>3, <1>AnswerAdds, SMTT(30)
  <2>4. CASE /\ hps.ledger.seq = m.seq /\ hps.ledger.packet /= m.packet
             /\ r = Result(m, "CONFLICT", m.by)
    <3>1. /\ r.seq = m.seq /\ r.type = m.packet.type
          /\ r.disposition = "CONFLICT" /\ r.by = m.by
      BY <2>4 DEF Result
    <3>2. n.seq = r.seq /\ n.packet /= m.packet
      BY <2>1, <2>4, <3>1, SMTT(30)
    <3>3. Grounded(r)
      BY <3>1, <3>2, SMTT(30) DEF Grounded
    <3> QED
      BY <3>3, <1>AnswerAdds
  <2>5. CASE /\ hps.ledger.seq /= m.seq /\ ~SerialIsNewer(m.seq, hps.ledger.seq)
             /\ r = Result(m, "STALE", m.by)
    <3>1. /\ r.seq = m.seq /\ r.type = m.packet.type
          /\ r.disposition = "STALE" /\ r.by = m.by
      BY <2>5, SMTT(30) DEF Result
    <3>2. /\ m.seq \in Numbers /\ n.seq \in Numbers
          /\ Pos(m.seq) < 2 * MaxRequests /\ Pos(n.seq) < 2 * MaxRequests
      BY SMTT(30) DEF Order, Sent
    <3>3. n.seq /= m.seq /\ ~SerialIsNewer(m.seq, n.seq)
      BY <2>1, <2>5, SMTT(30)
    <3>4. ~(Pos(m.seq) > Pos(n.seq)) /\ Pos(m.seq) /= Pos(n.seq)
      BY <3>2, <3>3, NewerIsLater, Positions, SMTT(30)
    <3>5. Pos(m.seq) \in Nat /\ Pos(n.seq) \in Nat
      BY <3>2, Positions, SMTT(30)
    <3>6. Pos(n.seq) > Pos(r.seq)
      BY <3>1, <3>4, <3>5, SMTT(30)
    <3>7. Grounded(r)
      BY <3>1, <3>6 DEF Grounded
    <3> QED
      BY <3>7, <1>AnswerAdds
  <2> QED
    BY <2>3, <2>4, <2>5, SMTT(30)

\* Execution without a ledger: version 1, or a ledger that becomes empty with
\* nothing executed by this process.
<1>ServedAnew.
    ASSUME IInv, Order, Served,
           UNCHANGED <<version, req, toHps, execs>>,
           \/ hps' = [hps EXCEPT !.peer = TRUE, !.ledger = NoLedger] /\ ~hps.peer
           \/ \E learns \in BOOLEAN : hps' = NewHps(hps.boot + 1, learns),
           toPc' = toPc \/ toPc' = toPc \cup {Diagnostic}
    PROVE  Served'
  <2> USE <1>ServedAnew
  <2>1. hps \in Hpses /\ hps.boot \in Nat
    BY DEF Served, Ledger, Hpses
  <2>2. /\ NoLedger \in [valid : BOOLEAN, seq : Int, packet : Packets \cup {<<>>},
                         disposition : Dispositions, by : Nat]
        /\ ~NoLedger.valid
    BY DEF NoLedger, Dispositions
  <2>3. /\ hps' \in Hpses /\ hps'.ledger = NoLedger
        /\ \/ hps'.boot = hps.boot /\ ~hps.peer
           \/ hps'.boot = hps.boot + 1
    <3>1. CASE hps' = [hps EXCEPT !.peer = TRUE, !.ledger = NoLedger] /\ ~hps.peer
      BY <2>1, <2>2, <3>1, ZenonT(60) DEF Hpses
    <3>2. CASE \E learns \in BOOLEAN : hps' = NewHps(hps.boot + 1, learns)
      <4>1. PICK learns \in BOOLEAN : hps' = NewHps(hps.boot + 1, learns)
        BY <3>2
      <4>2. hps.boot + 1 \in Nat
        BY <2>1
      <4> QED
        BY <2>2, <4>1, <4>2 DEF Hpses, NewHps
    <3> QED
      BY <3>1, <3>2
  <2>4. Commands' = Commands /\ \A a \in Commands : SessionOf(a)' = SessionOf(a)
    BY DEF Commands, SessionOf
  <2>5. ASSUME NEW i \in DOMAIN execs
        PROVE  /\ execs'[i].boot <= hps'.boot
               /\ version = 2 => execs'[i].boot /= hps'.boot
               /\ Recorded(execs[i])
    <3>1. execs[i].boot <= hps.boot /\ Recorded(execs[i])
      BY DEF Served, Ledger
    <3>2. execs[i].boot \in Nat
      <4>1. execs \in Seq([id : Nat, boot : Nat, session : Nat])
        BY DEF Served, Ledger
      <4>2. i \in 1 .. Len(execs)
        BY <4>1, LenProperties
      <4>3. execs[i] \in [id : Nat, boot : Nat, session : Nat]
        BY <4>1, <4>2, ElementOfSeq, ZenonT(60)
      <4> QED
        BY <4>3
    <3>3. version = 2 /\ execs[i].boot = hps.boot => hps.peer
      BY <3>1 DEF Recorded, Served, Ledger
    <3> QED
      BY <2>1, <2>3, <3>1, <3>2, <3>3
  <2>6. \A i \in DOMAIN execs : Recorded(execs[i])'
    BY <2>4, <2>5 DEF Recorded
  <2>7. Ledger'
    BY <2>2, <2>3, <2>5, <2>6 DEF Served, Ledger
  <2>8. \A r : Grounded(r) => Grounded(r)'
    BY <2>4 DEF Grounded, Pos, Executed
  <2>9. Answers'
    BY <2>8 DEF Served, Answers, Diagnostic
  <2> QED
    BY <2>7, <2>9 DEF Served, LedgerOrders

\* A version-1 command is executed.
<1>ServedFirst.
    ASSUME IInv, Order, Served, NEW m \in Commands, version = 1,
           UNCHANGED <<version, req, toHps, hps, toPc>>, Execute(m)
    PROVE  Served'
  <2> USE <1>ServedFirst
  <2> DEFINE e == [id |-> m.by, boot |-> hps.boot, session |-> SessionOf(m)]
             n == Len(execs)
  <2>1. /\ execs' \in Seq([id : Nat, boot : Nat, session : Nat])
        /\ n \in Nat /\ DOMAIN execs = 1 .. n /\ DOMAIN execs' = 1 .. n + 1
        /\ \A i \in 1 .. n : execs'[i] = execs[i]
        /\ execs'[n + 1] = e
        /\ \A id : Executed(id) => Executed(id)'
    BY ExecuteAdds, SMTT(30)
  <2>2. hps \in Hpses /\ hps.boot \in Nat
    BY DEF Served, Ledger, Hpses
  <2>3. Commands' = Commands /\ \A a \in Commands : SessionOf(a)' = SessionOf(a)
    BY SMTT(30) DEF Commands, SessionOf
  <2>4. e.id = m.by /\ e.boot = hps.boot /\ e.session = SessionOf(m)
    OBVIOUS
  <2> HIDE DEF e, n
  <2>5. ASSUME NEW i \in 1 .. n + 1
        PROVE  execs'[i].boot <= hps'.boot /\ Recorded(execs[i])'
    <3>1. CASE i = n + 1
      <4>1. /\ execs'[i].boot = hps.boot /\ execs'[i].id = m.by
            /\ execs'[i].session = SessionOf(m)
        BY <2>1, <2>4, <3>1
      <4>2. m \in Commands' /\ SessionOf(m)' = SessionOf(m)
        BY <2>3
      <4> QED
        BY <2>2, <4>1, <4>2, SMTT(30) DEF Recorded
    <3>2. CASE i \in 1 .. n
      <4>1. execs'[i] = execs[i] /\ execs[i].boot <= hps.boot /\ Recorded(execs[i])
        BY <2>1, <3>2 DEF Served, Ledger
      <4> QED
        BY <2>3, <4>1, SMTT(30) DEF Recorded
    <3> QED
      BY <2>1, <3>1, <3>2
  <2>6. Ledger'
    BY <2>1, <2>3, <2>5, SMTT(30) DEF Served, Ledger, Hpses
  <2>7. Answers'
    BY <2>1, <2>3 DEF Served, Answers, Grounded, Pos
  <2> QED
    BY <2>6, <2>7 DEF Served, LedgerOrders

\* Every datagram the HPS takes.
<1>ServedHps.
    ASSUME IInv, Order, Served, NEW m \in toHps, HpsReceive(m)
    PROVE  Served'
  <2> USE <1>ServedHps
  <2>0. UNCHANGED <<version, req, toHps>>
    BY DEF HpsReceive
  <2>1. hps.boot \in Nat /\ version \in {1, 2}
    BY DEF Served, Ledger, Hpses, IInv, PcTyped
  <2>2. CASE HpsPing(m)
    <3>1. Diagnostic.kind /= "result"
      BY SMTT(30) DEF Diagnostic
    <3> QED
      BY <2>0, <2>1, <2>2, <3>1, <1>ServedAnew, <1>AnswerAdds, SMTT(30) DEF HpsPing
  <2>3. ASSUME m.kind = "command"
        PROVE  m \in Commands /\ m.packet.version = version
    BY <2>3, SMTT(30) DEF Commands, Order, Sent, Requested
  <2>4. ASSUME UNCHANGED <<hps, toPc, execs>> PROVE Served'
    BY <2>0, <2>4, <1>ServedFrame DEF Commands, SessionOf
  <2>5. CASE HpsVersion1(m)
    <3>1. m \in Commands /\ version = 1
      BY <2>3, <2>5 DEF HpsVersion1
    <3> QED
      BY <2>0, <2>4, <2>5, <3>1, <1>ServedFirst DEF HpsVersion1
  <2>6. CASE HpsVersion2(m)
    <3>1. m \in Commands /\ version = 2
      BY <2>3, <2>6 DEF HpsVersion2
    <3>2. ServerReason(m.packet) = "NONE"
      BY <3>1, <1>NeverRejected, SMTT(30)
    <3>3. CASE UNCHANGED <<hps, toPc, execs>>
      BY <2>4, <3>3, SMTT(30)
    <3>4. CASE /\ hps.ledger.valid /\ UNCHANGED <<hps, execs>>
               /\ \/ /\ hps.ledger.seq = m.seq /\ hps.ledger.packet = m.packet
                     /\ toPc' = toPc \cup {Result(m, hps.ledger.disposition, hps.ledger.by)}
                  \/ /\ hps.ledger.seq = m.seq /\ hps.ledger.packet /= m.packet
                     /\ toPc' = toPc \cup {Result(m, "CONFLICT", m.by)}
                  \/ /\ hps.ledger.seq /= m.seq
                     /\ ~SerialIsNewer(m.seq, hps.ledger.seq)
                     /\ toPc' = toPc \cup {Result(m, "STALE", m.by)}
      BY <2>0, <3>1, <3>4, <1>ServedAnswers
    <3>5. CASE /\ hps.peer /\ Execute(m)
               /\ hps.ledger.valid => SerialIsNewer(m.seq, hps.ledger.seq)
               /\ \E d \in {"APPLIED", "FAILED"} :
                     /\ hps' = [hps EXCEPT !.ledger =
                                  [valid |-> TRUE, seq |-> m.seq, packet |-> m.packet,
                                   disposition |-> d, by |-> m.by]]
                     /\ toPc' = toPc \cup {Result(m, d, m.by)}
      BY <2>0, <3>1, <3>5, <1>ServedDecides, ZenonT(60)
    <3> QED
      BY <2>6, <3>2, <3>3, <3>4, <3>5, ZenonT(60) DEF HpsVersion2
  <2> QED
    BY <2>2, <2>5, <2>6 DEF HpsReceive

<1> QED
  <2> SUFFICES ASSUME IInv, Order, Served, [Next]_vars
               PROVE  Served'
    OBVIOUS
  <2>1. CASE UserInterface \/ Stopping \/ WorkerStep \/ DashboardRestart
             \/ UNCHANGED vars
    <3>1. /\ \A id \in Ids : req'[id] = req[id]
          /\ toHps \subseteq toHps'
      BY RequestsGrow
    <3>2. Commands \subseteq Commands'
      BY <3>1 DEF Commands
    <3>3. \A m \in Commands : SessionOf(m)' = SessionOf(m)
      BY <3>1 DEF SessionOf, Order, Sent
    <3> QED
      BY <2>1, <3>2, <3>3, DashboardFrame, <1>ServedFrame
  <2>2. CASE \E m \in toHps : HpsReceive(m)
    BY <2>2, <1>ServedHps
  <2>3. CASE HpsRestart
    <3>1. hps.boot \in Nat /\ hps.learns \in BOOLEAN
      BY DEF Served, Ledger, Hpses
    <3>2. /\ UNCHANGED <<version, req, toHps, execs, toPc>>
          /\ hps' = NewHps(hps.boot + 1, hps.learns)
      BY <2>3 DEF HpsRestart
    <3> QED
      BY <3>1, <3>2, <1>ServedAnew
  <2> QED
    BY <2>1, <2>2, <2>3 DEF Next

\* Nothing is served at the start.
LEMMA ServedInit ==
    ASSUME Init
    PROVE  Served
<1>1. /\ execs = <<>> /\ toPc = {}
      /\ \E learns \in BOOLEAN : hps = NewHps(1, learns)
  BY DEF Init
<1>2. /\ NoLedger \in [valid : BOOLEAN, seq : Int, packet : Packets \cup {<<>>},
                       disposition : Dispositions, by : Nat]
      /\ ~NoLedger.valid
  BY SMTT(30) DEF NoLedger, Dispositions
<1>3. hps \in Hpses /\ hps.ledger = NoLedger
  BY <1>1, <1>2 DEF NewHps, Hpses
<1>4. execs \in Seq([id : Nat, boot : Nat, session : Nat]) /\ DOMAIN execs = {}
  BY <1>1, EmptySeq
<1> QED
  BY <1>1, <1>2, <1>3, <1>4 DEF Served, Ledger, Answers, LedgerOrders

----------------------------------------------------------------------------
(* The results the client returns.                                         *)

\* What OwnResult says of one outcome.
Own(id, o) ==
    Answered(id, o) =>
        /\ o.disposition /= "REJECTED"
        /\ o.disposition \in {"APPLIED", "FAILED"} => Executed(o.by)
        /\ o.disposition \in {"CONFLICT", "STALE"} => Earlier(id) /= {}
        /\ o.by /= id =>
              /\ o.by \in Earlier(id)
              /\ req[o.by].packet.type = req[id].packet.type

\* Every step keeps the results the clients' own.
LEMMA OwnKeeps ==
    IInv /\ Order /\ Served /\ OwnResult /\ [Next]_vars => OwnResult'

\* OwnResult in those words.
<1>OwnEach.
    OwnResult <=> \A id \in Ids : \A k \in DOMAIN ended[id] : Own(id, ended[id][k])
    BY DEF OwnResult, Own, Executed

\* What was executed stays executed.
<1>ExecutedStays.
    ASSUME IInv, Order, Served, [Next]_vars
    PROVE  \A id : Executed(id) => Executed(id)'
  <2> USE <1>ExecutedStays
  <2>1. CASE execs' = execs
    BY <2>1, SMTT(30) DEF Executed
  <2>2. CASE \E m \in toHps : HpsReceive(m)
    <3>1. PICK m \in toHps : HpsReceive(m)
      BY <2>2
    <3>2. execs' = execs \/ (m.kind = "command" /\ Execute(m))
      BY <3>1, ZenonT(60) DEF HpsReceive, HpsPing, HpsVersion1, HpsVersion2
    <3>3. m.kind = "command" => m \in Commands
      BY SMTT(30) DEF Commands
    <3> QED
      BY <2>1, <3>2, <3>3, ExecuteAdds, ZenonT(60)
  <2>3. CASE HpsRestart
    BY <2>1, <2>3 DEF HpsRestart
  <2>4. CASE UserInterface \/ Stopping \/ WorkerStep \/ DashboardRestart
             \/ UNCHANGED vars
    BY <2>1, <2>4, DashboardFrame
  <2> QED
    BY <2>2, <2>3, <2>4 DEF Next

\* An outcome that was right stays right.
<1>OwnStays.
    ASSUME IInv, Order, Served, [Next]_vars, NEW id \in Ids, NEW o, Own(id, o)
    PROVE  Own(id, o)'
  <2> USE <1>OwnStays
  <2>1. /\ version' = version /\ Ids \subseteq Ids'
        /\ \A j \in Ids : req'[j] = req[j]
    BY RequestsGrow
  <2>2. Answered(id, o)' <=> Answered(id, o)
    BY <2>1 DEF Answered
  <2>3. Earlier(id) \subseteq Earlier(id)'
    BY <2>1, SMTT(30) DEF Earlier
  <2>4. \A j \in Earlier(id) : j \in Ids
    BY SMTT(30) DEF Earlier
  <2>5. Executed(o.by) => Executed(o.by)'
    BY <1>ExecutedStays, SMTT(30)
  <2> QED
    BY <2>1, <2>2, <2>3, <2>4, <2>5 DEF Own

\* One more outcome for the request in the worker's hands.
<1>OwnReturn.
    ASSUME IInv, Order, Served, OwnResult, [Next]_vars, UNCHANGED req,
           NEW id \in Ids, NEW o \in Outcomes, Publish(id, o), Own(id, o)
    PROVE  OwnResult'
  <2> USE <1>OwnReturn
  <2>1. /\ ended'[id] = Append(ended[id], o)
        /\ \A j \in Ids : j /= id => ended'[j] = ended[j]
    BY PublishTyped, SMTT(30) DEF IInv
  <2>2. ended[id] \in Seq(Outcomes) /\ Len(ended[id]) \in Nat
    BY EndedOf, LenProperties, SMTT(30) DEF IInv
  <2>3. ASSUME NEW k \in DOMAIN ended'[id]
        PROVE  ended'[id][k] = o \/ (k \in DOMAIN ended[id] /\ ended'[id][k] = ended[id][k])
    BY <2>1, <2>2, SMTT(30)
  <2>4. \A j \in Ids : \A k \in DOMAIN ended[j] : Own(j, ended[j][k])
    BY <1>OwnEach, SMTT(30)
  <2>5. ASSUME NEW j \in Ids, NEW k \in DOMAIN ended'[j]
        PROVE  Own(j, ended'[j][k])
    BY <2>1, <2>3, <2>4
  <2>6. Ids' = Ids
    BY SMTT(30) DEF Ids
  <2>7. ASSUME NEW j \in Ids', NEW k \in DOMAIN ended'[j]
        PROVE  Own(j, ended[j][k])'
    <3>1. PICK x : x = ended'[j][k]
      BY SMTT(30)
    <3>2. Own(j, x)
      BY <2>5, <2>6, <3>1, SMTT(30)
    <3>3. Own(j, x)'
      BY <2>6, <3>2, <1>OwnStays, SMTT(30)
    <3> QED
      BY <3>1, <3>3, ZenonT(60) DEF Own, Answered
  <2> QED
    BY <2>7 DEF OwnResult, Own, Executed

\* Outcomes that are not answers: failures, and what was never awaited.
<1>NoAnswers.
    /\ \A id : Own(id, Failed)
    /\ ~ExpectsResult => Own(cl.id, Completed("none", cl.id))
    /\ Failed \in Outcomes
  <2>1. Failed.state = "failed" /\ Completed("none", cl.id).state = "completed"
    BY SMTT(30) DEF Failed, Completed
  <2>2. Failed \in Outcomes
    BY SMTT(30) DEF Failed, Outcomes, Dispositions
  <2> QED
    BY <2>1, <2>2, SMTT(30) DEF Own, Answered, ExpectsResult, Current

\* A command of this session has the number in hand only if it is the one in
\* hand, and none has a later number.
<1>InHandLast.
    ASSUME IInv, Order, cl.pc = "result", NEW n \in Commands
    PROVE  /\ SessionOf(n) = Session =>
                 /\ ~(Pos(n.seq) > Pos(cl.seq))
                 /\ n.seq = cl.seq => n.by = cl.id
           /\ SessionOf(n) /= Session => n.by \in Earlier(cl.id)
  <2> USE <1>InHandLast
  <2>1. cl.attempt > 0 /\ cl.seq \in Numbers
    BY DEF Order, Place, IInv, PcTyped, Clients
  <2>2. n.by \in Ids /\ n.seq \in Numbers
    BY DEF Order, Sent
  <2>3. cl.id \in Nat /\ n.by \in Nat /\ Pos(n.seq) \in Nat /\ Pos(cl.seq) \in Nat
    BY <2>1, <2>2, Positions, SMTT(30) DEF Ids, IInv, PcTyped, Clients
  <2>4. ASSUME SessionOf(n) = Session
        PROVE  /\ ~(Pos(n.seq) > Pos(cl.seq))
               /\ n.seq = cl.seq => n.by = cl.id
    <3>1. /\ n.by <= cl.id
          /\ n.by = cl.id => n.seq = cl.seq
          /\ n.by < cl.id => Pos(n.seq) < Pos(cl.seq)
      BY <2>1, <2>4, SMTT(30) DEF Order, Sent, SentBefore
    <3>2. CASE n.by = cl.id
      BY <2>3, <3>1, <3>2
    <3>3. CASE n.by < cl.id
      BY <2>3, <3>1, <3>3
    <3> QED
      BY <2>3, <3>1, <3>2, <3>3, SMTT(30)
  <2>5. ASSUME SessionOf(n) /= Session PROVE n.by \in Earlier(cl.id)
    <3>1. req[n.by].session <= Session /\ req[cl.id].session = Session
      <4>1. req[n.by].session <= Session
        BY <2>2, ZenonT(60) DEF IInv, Books
      <4>2. cl.pc /= "none"
        OBVIOUS
      <4>3. Pending(cl.id)
        BY <4>2, ZenonT(60) DEF IInv, Books
      <4> QED
        BY <4>1, <4>3, ZenonT(60) DEF Pending
    <3>2. req[n.by].session \in Nat /\ Session \in Nat
      BY <2>2, EndedOf, ZenonT(60) DEF IInv, PcTyped, Asked, Session, Controllers
    <3>3. req[n.by].session < Session
      BY <2>5, <3>1, <3>2, SMTT(30) DEF SessionOf
    <3> QED
      BY <2>2, <3>1, <3>3, SMTT(30) DEF Earlier
  <2> QED
    BY <2>4, <2>5

\* The result send_packet returns.
<1>CorrelatedOwn.
    ASSUME IInv, Order, Served, cl.pc = "result", NEW m \in toPc, Correlated(m)
    PROVE  /\ Own(cl.id, Completed(m.disposition, m.by))
           /\ Completed(m.disposition, m.by) \in Outcomes
  <2> USE <1>CorrelatedOwn
  <2>1. m.kind = "result" /\ m.seq = cl.seq /\ m.type = Current.type
    BY DEF Correlated
  <2>2. Grounded(m)
    BY <2>1, SMTT(30) DEF Served, Answers
  <2>3. PICK n \in Commands : n.by = m.by /\ n.seq = m.seq /\ n.packet.type = m.type
    BY <2>2 DEF Grounded
  <2>4. n.by \in Ids /\ n.packet = req[n.by].packet
    BY SMTT(30) DEF Order, Sent
  <2> DEFINE o == Completed(m.disposition, m.by)
  <2>5. o.state = "completed" /\ o.disposition = m.disposition /\ o.by = m.by
    BY DEF Completed
  <2>6. o \in Outcomes
    <3>1. m.by \in Nat /\ m.disposition \in Dispositions
      BY <2>2, <2>3, <2>4 DEF Ids, Grounded, Dispositions
    <3> QED
      BY <3>1, SMTT(30) DEF Completed, Outcomes
  <2> HIDE DEF o
  <2>7. /\ o.disposition /= "REJECTED"
        /\ o.disposition \in {"APPLIED", "FAILED"} => Executed(o.by)
    BY <2>2, <2>5 DEF Grounded
  <2>8. ASSUME o.disposition = "CONFLICT" PROVE Earlier(cl.id) /= {}
    <3>1. PICK a \in Commands, b \in Commands :
             a.seq = cl.seq /\ b.seq = cl.seq /\ a.packet /= b.packet
      BY <2>1, <2>2, <2>5, <2>8, SMTT(30) DEF Grounded
    <3>2. a.packet = req[a.by].packet /\ b.packet = req[b.by].packet
      BY DEF Order, Sent
    <3>3. a.by /= b.by
      BY <3>1, <3>2, SMTT(30)
    <3> QED
      BY <3>1, <3>3, <1>InHandLast
  <2>9. ASSUME o.disposition = "STALE" PROVE Earlier(cl.id) /= {}
    <3>1. PICK a \in Commands : Pos(a.seq) > Pos(cl.seq)
      BY <2>1, <2>2, <2>5, <2>9, SMTT(30) DEF Grounded
    <3> QED
      BY <3>1, <1>InHandLast, SMTT(30)
  <2>10. ASSUME o.by /= cl.id
         PROVE  /\ o.by \in Earlier(cl.id)
                /\ req[o.by].packet.type = req[cl.id].packet.type
    <3>1. n.by /= cl.id /\ n.seq = cl.seq /\ n.by = o.by
      BY <2>1, <2>3, <2>5, <2>10, SMTT(30)
    <3>2. n.by \in Earlier(cl.id)
      BY <3>1, <1>InHandLast, SMTT(30)
    <3> QED
      BY <2>1, <2>3, <2>4, <3>1, <3>2, SMTT(30) DEF Current
  <2> QED
    BY <2>6, <2>7, <2>8, <2>9, <2>10, ZenonT(60) DEF Own, o

\* A step that publishes nothing.
<1>OwnFrame.
    ASSUME IInv, Order, Served, OwnResult, [Next]_vars, UNCHANGED <<req, ended>>
    PROVE  OwnResult'
  <2> USE <1>OwnFrame
  <2>1. Ids' = Ids
    BY SMTT(30) DEF Ids
  <2>2. \A j \in Ids : \A k \in DOMAIN ended[j] : Own(j, ended[j][k])
    BY <1>OwnEach, SMTT(30)
  <2>3. ASSUME NEW j \in Ids, NEW k \in DOMAIN ended'[j] PROVE Own(j, ended[j][k])'
    <3>1. PICK x : x = ended[j][k]
      OBVIOUS
    <3>2. Own(j, x)'
      BY <2>2, <3>1, <1>OwnStays, SMTT(30)
    <3> QED
      BY <3>1, <3>2 DEF Own, Answered
  <2> QED
    BY <2>1, <2>3, ZenonT(60) DEF OwnResult, Own, Executed

\* Everything that is queued fails.
<1>OwnFail.
    ASSUME IInv, Order, Served, OwnResult, [Next]_vars, UNCHANGED req, FailPending
    PROVE  OwnResult'
  <2> USE <1>OwnFail
  <2>1. Ids' = Ids
    BY DEF Ids
  <2>2. \A j \in Ids : \A k \in DOMAIN ended[j] : Own(j, ended[j][k])
    BY <1>OwnEach, SMTT(30)
  <2>3. ASSUME NEW j \in Ids, NEW k \in DOMAIN ended'[j] PROVE Own(j, ended[j][k])'
    <3>1. ended'[j] = ended[j] \/ ended'[j] = Append(ended[j], Failed)
      BY FailTyped, ZenonT(60) DEF IInv
    <3>2. ended[j] \in Seq(Outcomes) /\ Len(ended[j]) \in Nat
      BY EndedOf, LenProperties DEF IInv
    <3>3. \/ ended'[j][k] = Failed
          \/ k \in DOMAIN ended[j] /\ ended'[j][k] = ended[j][k]
      BY <3>1, <3>2, SMTT(30)
    <3>4. PICK x : x = ended'[j][k]
      BY SMTT(30)
    <3>5. Own(j, x)
      BY <2>2, <3>3, <3>4, <1>NoAnswers
    <3>6. Own(j, x)'
      BY <3>5, <1>OwnStays, SMTT(30)
    <3> QED
      BY <3>4, <3>6, ZenonT(60) DEF Own, Answered
  <2> QED
    BY <2>1, <2>3, ZenonT(60) DEF OwnResult, Own, Executed

\* A new request: failed at once, or open.
<1>OwnSubmit.
    ASSUME IInv, Order, Served, OwnResult, [Next]_vars, NEW r \in Requests, Submit(r)
    PROVE  OwnResult'
  <2> USE <1>OwnSubmit
  <2>1. PICK e \in {<<>>, <<Failed>>} : ended' = Append(ended, e)
    BY Zenon DEF Submit
  <2>2. PICK a : req' = Append(req, a)
    BY DEF Submit
  <2>3. /\ ended \in Seq(Seq(Outcomes)) /\ req \in Seq(Asked)
        /\ Len(ended) = Len(req) /\ Len(req) \in Nat
    BY LenProperties DEF IInv, PcTyped
  <2>4. PICK n \in Nat : n = Len(req)
    BY <2>3
  <2>5. /\ \A j \in 1 .. n : ended'[j] = ended[j]
        /\ ended'[n + 1] = e
        /\ Len(req') = n + 1
    BY <2>1, <2>2, <2>3, <2>4
  <2>6. Ids = 1 .. n /\ Ids' = 1 .. n + 1
    BY <2>4, <2>5 DEF Ids
  <2>7. \A j \in Ids : \A k \in DOMAIN ended[j] : Own(j, ended[j][k])
    BY <1>OwnEach, SMTT(30)
  <2>8. ASSUME NEW j \in Ids, NEW k \in DOMAIN ended'[j] PROVE Own(j, ended[j][k])'
    <3>1. PICK x : x = ended[j][k]
      OBVIOUS
    <3>2. ended'[j] = ended[j]
      BY <2>5, <2>6, SMTT(30)
    <3>3. Own(j, x)'
      BY <2>7, <3>1, <3>2, <1>OwnStays, SMTT(30)
    <3> QED
      BY <3>1, <3>2, <3>3, ZenonT(60) DEF Own, Answered
  <2>9. ASSUME NEW j, j = n + 1, NEW k \in DOMAIN ended'[j] PROVE Own(j, ended[j][k])'
    <3>1. ended'[j] = e
      BY <2>5, <2>9
    <3>2. e = <<Failed>> /\ k = 1
      BY <3>1
    <3>3. ended'[j][k] = Failed
      BY <3>1, <3>2, SMTT(30)
    <3>4. Failed.state = "failed"
      BY SMTT(30) DEF Failed
    <3> QED
      BY <3>3, <3>4, SMTT(30) DEF Own, Answered
  <2>10. \A j \in Ids' : j \in Ids \/ j = n + 1
    BY <2>6, SMTT(30)
  <2> QED
    BY <2>8, <2>9, <2>10, ZenonT(60) DEF OwnResult, Own, Executed

\* What a step of the client publishes for the request in hand.
<1>ClientOwn.
    ASSUME IInv, Order, Served, OwnResult, [Next]_vars, UNCHANGED req,
           cl.pc /= "none",
           \/ ended' = ended
           \/ Publish(cl.id, Failed)
           \/ ~ExpectsResult /\ Publish(cl.id, Completed("none", cl.id))
           \/ \E m \in toPc : /\ cl.pc = "result" /\ Correlated(m)
                              /\ Publish(cl.id, Completed(m.disposition, m.by))
    PROVE  OwnResult'
  <2> USE <1>ClientOwn
  <2>1. cl.id \in Ids
    BY DEF IInv, Books, Pending
  <2>2. CASE ended' = ended
    BY <2>2, <1>OwnFrame, SMTT(30)
  <2>3. CASE Publish(cl.id, Failed)
    BY <2>1, <2>3, <1>NoAnswers, <1>OwnReturn, SMTT(30)
  <2>4. CASE ~ExpectsResult /\ Publish(cl.id, Completed("none", cl.id))
    <3>1. Completed("none", cl.id) \in Outcomes
      BY <2>1, SMTT(30) DEF Completed, Outcomes, Dispositions, Ids
    <3> QED
      BY <2>1, <2>4, <3>1, <1>NoAnswers, <1>OwnReturn, SMTT(30)
  <2>5. CASE \E m \in toPc : /\ cl.pc = "result" /\ Correlated(m)
                             /\ Publish(cl.id, Completed(m.disposition, m.by))
    BY <2>1, <2>5, <1>CorrelatedOwn, <1>OwnReturn
  <2> QED
    BY <2>2, <2>3, <2>4, <2>5, SMTT(30)

<1> QED
  <2> SUFFICES ASSUME IInv, Order, Served, OwnResult, [Next]_vars
               PROVE  OwnResult'
    OBVIOUS
  <2>1. CASE UserInterface \/ Stopping
    <3>1. CASE \E r \in Requests : Submit(r)
      BY <3>1, <1>OwnSubmit
    <3>2. CASE Start \/ Stop \/ Stopping
      <4>1. UNCHANGED req /\ (UNCHANGED ended \/ FailPending)
        BY <3>2, Zenon DEF Start, Stop, Stopping, JoinDeadline, StopReturns
      <4> QED
        BY <4>1, <1>OwnFrame, <1>OwnFail
    <3> QED
      BY <2>1, <3>1, <3>2 DEF UserInterface
  <2>2. CASE WorkerStep
    <3>1. CASE WorkerOpen \/ WorkerLoop \/ WorkerGet \/ WorkerRefuses \/ WorkerEnds
               \/ SendPing
      BY <3>1, <1>OwnFrame
         DEF WorkerOpen, WorkerLoop, WorkerGet, WorkerRefuses, WorkerEnds, SendPing
    <3>2. CASE WorkerDrains
      BY <3>2, <1>OwnFail DEF WorkerDrains
    <3>3. CASE Call \/ OpenFails \/ SocketGone \/ Timeout
      <4>1. /\ UNCHANGED req /\ cl.pc /= "none"
            /\ ended' = ended \/ Publish(cl.id, Failed)
        BY <3>3, ZenonT(60) DEF Call, OpenFails, SocketGone, Timeout, DiagnosticTimeout,
               ResultTimeout, Return
      <4> QED
        BY <4>1, <1>ClientOwn, SMTT(30)
    <3>4. CASE SendCommand
      <4>1. /\ UNCHANGED req /\ cl.pc /= "none"
            /\ \/ ended' = ended
               \/ ~ExpectsResult /\ Publish(cl.id, Completed("none", cl.id))
        BY <3>4, ZenonT(60) DEF SendCommand, Return
      <4> QED
        BY <4>1, <1>ClientOwn
    <3>5. ASSUME NEW m \in toPc, ReceiveDiagnostic(m) PROVE OwnResult'
      <4>1. /\ UNCHANGED req /\ cl.pc /= "none"
            /\ \/ ended' = ended \/ Publish(cl.id, Failed)
               \/ ~ExpectsResult /\ Publish(cl.id, Completed("none", cl.id))
        BY <3>5, ZenonT(60) DEF ReceiveDiagnostic, Return, ExpectsResult
      <4> QED
        BY <4>1, <1>ClientOwn
    <3>6. ASSUME NEW m \in toPc, ReceiveResult(m) PROVE OwnResult'
      <4>1. /\ UNCHANGED req /\ cl.pc = "result"
            /\ \/ ended' = ended
               \/ Correlated(m) /\ Publish(cl.id, Completed(m.disposition, m.by))
        BY <3>6, ZenonT(60) DEF ReceiveResult, Return
      <4> QED
        BY <4>1, <1>ClientOwn
    <3> QED
      BY <2>2, <3>1, <3>2, <3>3, <3>4, <3>5, <3>6, SMTT(30) DEF WorkerStep
  <2>3. CASE (\E m \in toHps : HpsReceive(m)) \/ HpsRestart \/ DashboardRestart
             \/ UNCHANGED vars
    BY <2>3, <1>OwnFrame, SMTT(30) DEF HpsReceive, HpsRestart, DashboardRestart, vars
  <2> QED
    BY <2>1, <2>2, <2>3 DEF Next

----------------------------------------------------------------------------
(* A command that is sent.                                                *)

\* Every step keeps the order.
LEMMA OrderKeeps ==
    IInv /\ Order /\ [Next]_vars => Order'

\* An attempt: the number of the first one is new, a retry repeats it.
<1>OrderSend.
    ASSUME IInv, Order, SendCommand
    PROVE  Order'
  <2> USE <1>OrderSend
  <2> DEFINE first == cl.attempt = 0
             seq == IF first THEN cl.next ELSE cl.seq
             next == IF first THEN Bump(cl.next) ELSE cl.next
             m0 == Command(cl.id, seq)
  <2>1. /\ cl.pc = "command" /\ toHps' = toHps \cup {m0}
        /\ UNCHANGED <<version, req, queue>>
    BY DEF SendCommand
  <2>2. /\ cl \in Clients /\ ctl \in Controllers
        /\ queue \in Seq(Nat) /\ Len(queue) \in Nat /\ Len(req) \in Nat
    BY LenProperties DEF IInv, PcTyped
  <2>3. cl.attempt \in Nat /\ cl.id \in Nat
    BY <2>2 DEF Clients
  <2>4. /\ cl'.next = next /\ ctl'.session = ctl.session
        /\ \/ /\ cl'.pc = "result" /\ cl'.id = cl.id /\ cl'.seq = seq
              /\ cl'.attempt = cl.attempt + 1 /\ ExpectsResult
           \/ cl'.pc = "none" /\ cl'.attempt = 0
    <3> DEFINE c == [cl EXCEPT !.sock = TRUE, !.seq = seq, !.next = next,
                               !.attempt = @ + 1, !.pc = "result"]
    <3>1. \/ ExpectsResult /\ cl' = c /\ UNCHANGED ctl
          \/ Return(Completed("none", cl.id), c)
      BY DEF SendCommand
    <3>2. /\ c.pc = "result" /\ c.id = cl.id /\ c.seq = seq /\ c.next = next
          /\ c.attempt = cl.attempt + 1
      BY <2>2 DEF Clients
    <3>n. seq \in Int /\ next \in Int
      BY <2>2, BumpTyped DEF Clients
    <3> HIDE DEF seq, next
    <3>3. c \in Clients
      <4>1. PICK k \in Nat : k = cl.attempt + 1
        BY <2>3
      <4>2. c = [cl EXCEPT !.sock = TRUE, !.seq = seq, !.next = next,
                           !.attempt = k, !.pc = "result"]
        BY <4>1
      <4> QED
        BY <2>2, <3>n, <4>1, <4>2, ZenonT(60) DEF Clients
    <3> HIDE DEF c
    <3>4. CASE ExpectsResult /\ cl' = c /\ UNCHANGED ctl
      BY <3>2, <3>4
    <3>5. CASE Return(Completed("none", cl.id), c)
      BY <2>2, <3>2, <3>3, <3>5 DEF Return, Clients, Controllers
    <3> QED
      BY <3>1, <3>4, <3>5
  <2>5. cl.id \in Ids /\ req[cl.id].session = Session
    BY <2>1 DEF IInv, Books, Pending
  <2>6. /\ m0.kind = "command" /\ m0.by = cl.id /\ m0.seq = seq
        /\ m0.packet = req[cl.id].packet
    BY SMTT(30) DEF Command
  <2>7. ClientValid(m0.packet)
    BY <2>1, <2>6 DEF Order, Place, Current
  <2>8. Commands' = Commands \cup {m0}
    BY <2>1, <2>6 DEF Commands
  <2>9. /\ seq \in Numbers /\ next \in Numbers
        /\ Pos(seq) < Pos(next) /\ Pos(seq) < 2 * MaxRequests
        /\ Pos(cl.next) <= Pos(next)
        /\ cl.next \in Numbers
        /\ Pos(seq) \in Nat /\ Pos(next) \in Nat /\ Pos(cl.next) \in Nat
        /\ Pos(next) <= Pos(cl.next) + Owes
    <3>1. cl.next \in Numbers /\ Pos(cl.next) \in Nat
      BY Positions DEF Order, Counting
    <3>2. CASE first
      <4>1. Owes = 1
        BY <2>1, <3>2 DEF Owes
      <4>2. Owes > 0
        BY <4>1
      <4>3. /\ Bump(cl.next) \in Numbers
            /\ Pos(Bump(cl.next)) = Pos(cl.next) + 1
            /\ Pos(cl.next) < 2 * MaxRequests
        BY <4>2, RoomForOne
      <4> QED
        BY <3>1, <3>2, <4>1, <4>3
    <3>3. CASE ~first
      <4>1. Owes = 0
        BY <2>1, <3>3 DEF Owes
      <4>2. cl.seq \in Numbers /\ Pos(cl.seq) < Pos(cl.next)
        BY <2>3, <3>3 DEF Order, Place
      <4>3. Pos(cl.seq) \in Nat
        BY <4>2, Positions
      <4>4. /\ Len(req) <= MaxRequests
            /\ Pos(cl.next) + 2 * Len(queue) + Owes <= 2 * Len(req)
        BY DEF Order, Counting
      <4>5. MaxRequests \in Nat
        BY PathAssumption
      <4>6. Pos(cl.seq) < 2 * MaxRequests
        BY <2>2, <3>1, <4>1, <4>2, <4>3, <4>4, <4>5, SMTT(30)
      <4> QED
        BY <3>1, <3>3, <4>1, <4>2, <4>3, <4>6
    <3> QED
      BY <3>2, <3>3
  <2>10. ASSUME NEW m \in Commands, SessionOf(m) = Session
         PROVE  /\ m.by \in Nat /\ m.by <= cl.id
                /\ m.by = cl.id => m.seq = seq
                /\ m.by < cl.id => Pos(m.seq) < Pos(seq)
                /\ Pos(m.seq) \in Nat /\ Pos(m.seq) < Pos(next)
    <3>1. SentBefore(m) /\ m.by \in Ids /\ m.seq \in Numbers
      BY <2>10 DEF Order, Sent
    <3>2. m.by \in Nat /\ m.by <= cl.id /\ Pos(m.seq) \in Nat
      BY <2>1, <3>1, Positions DEF SentBefore, Ids
    <3>3. Pos(m.seq) < Pos(cl.next)
      BY <3>1 DEF SentBefore
    <3>4. m.by = cl.id => ~first /\ m.seq = cl.seq
      BY <2>1, <3>1 DEF SentBefore
    <3>5. m.by < cl.id => Pos(m.seq) < Pos(seq)
      <4>1. CASE first
        BY <3>3, <4>1
      <4>2. CASE ~first
        BY <2>3, <3>1, <4>2 DEF SentBefore
      <4> QED
        BY <4>1, <4>2
    <3>6. Pos(m.seq) < Pos(next)
      BY <2>9, <3>2, <3>3, SMTT(30)
    <3> QED
      BY <3>2, <3>4, <3>5, <3>6
  <2> HIDE DEF first, seq, next, m0
  <2>11. Session' = Session /\ Ids' = Ids
    BY <2>1, <2>4 DEF Session, Ids
  <2>12. Requested'
    BY <2>1, <2>11 DEF Order, Requested
  <2>13. Counting'
    <3>1. Owes' = 0
      BY <2>4 DEF Owes
    <3>2. /\ Len(req) <= MaxRequests
          /\ Pos(cl.next) + 2 * Len(queue) + Owes <= 2 * Len(req)
      BY DEF Order, Counting
    <3>3. Owes \in Int
      BY OwesTyped
    <3>4. Pos(next) + 2 * Len(queue) + 0 <= 2 * Len(req)
      BY <2>2, <2>9, <3>2, <3>3
    <3>5. Pos(next) + 2 * Len(queue) + Owes' <= 2 * Len(req)
      BY <3>1, <3>4, Zenon
    <3> QED
      BY <2>1, <2>4, <2>9, <3>2, <3>5 DEF Counting, Pos
  <2>14. Place'
    <3>1. CASE cl'.pc = "none" /\ cl'.attempt = 0
      BY <3>1, SMTT(30) DEF Place
    <3>2. CASE /\ cl'.pc = "result" /\ cl'.id = cl.id /\ cl'.seq = seq
               /\ cl'.attempt = cl.attempt + 1 /\ ExpectsResult
      <4>1. Current' = Current /\ ExpectsResult'
        BY <2>1, <3>2 DEF Current, ExpectsResult
      <4>2. ClientValid(Current)
        BY <2>1 DEF Order, Place
      <4>3. ClientValid(Current)'
        BY <4>1, <4>2, ZenonT(60) DEF ClientValid, ClientArgs
      <4>4. cl'.attempt > 0
        BY <2>3, <3>2
      <4> QED
        BY <2>4, <2>9, <3>2, <4>1, <4>3, <4>4 DEF Place, Pos
    <3> QED
      BY <2>4, <3>1, <3>2
  <2>15. Ascending'
    BY <2>1, <2>4, SMTT(30) DEF Order, Ascending
  <2>16. ASSUME NEW m \in Commands \cup {m0}, SessionOf(m) = Session
         PROVE  SentBefore(m)'
    <3>1. /\ m.by \in Nat /\ m.by <= cl.id
          /\ m.by = cl.id => m.seq = seq
          /\ m.by < cl.id => Pos(m.seq) < Pos(seq)
          /\ Pos(m.seq) < Pos(next)
      <4>1. CASE m = m0
        BY <2>3, <2>6, <2>9, <4>1, SMTT(30)
      <4> QED
        BY <2>10, <2>16, <4>1
    <3>2. \A i \in DOMAIN queue : m.by < queue[i]
      <4>1. CASE m = m0
        BY <2>1, <2>6, <4>1 DEF Order, Ascending
      <4> QED
        BY <2>16, <4>1 DEF Order, Sent, SentBefore
    <3>3. CASE cl'.pc = "none" /\ cl'.attempt = 0
      BY <2>1, <2>4, <3>1, <3>2, <3>3, SMTT(30) DEF SentBefore, Pos
    <3>4. CASE /\ cl'.pc = "result" /\ cl'.id = cl.id /\ cl'.seq = seq
               /\ cl'.attempt = cl.attempt + 1
      <4>1. cl'.attempt > 0
        BY <2>3, <3>4
      <4> QED
        BY <2>1, <2>4, <3>1, <3>2, <3>4, <4>1 DEF SentBefore, Pos
    <3> QED
      BY <2>4, <3>3, <3>4
  <2>17. SessionOf(m0) = Session
    BY <2>5, <2>6, SMTT(30) DEF SessionOf
  <2>18. Sent'
    <3> SUFFICES ASSUME NEW m \in Commands \cup {m0}
        PROVE  /\ m.by \in Ids /\ m.packet = req[m.by].packet
               /\ ClientValid(m.packet)
               /\ m.seq \in Numbers /\ Pos(m.seq) < 2 * MaxRequests
               /\ SessionOf(m) = Session => SentBefore(m)'
      BY <2>1, <2>8, <2>11, SMTT(30) DEF Sent, SessionOf, Pos
    <3>1. CASE m = m0
      BY <2>5, <2>6, <2>7, <2>9, <2>16, <3>1, SMTT(30)
    <3>2. CASE m \in Commands
      BY <2>16, <3>2 DEF Order, Sent
    <3> QED
      BY <3>1, <3>2
  <2>19. Numbered'
    <3> SUFFICES ASSUME NEW m \in Commands \cup {m0}, NEW n \in Commands \cup {m0},
                        SessionOf(m) = SessionOf(n)
        PROVE  /\ m.by < n.by => Pos(m.seq) < Pos(n.seq)
               /\ m.by = n.by => m.seq = n.seq
      BY <2>1, <2>8 DEF Numbered, SessionOf, Pos
    <3>1. CASE m \in Commands /\ n \in Commands
      BY <3>1 DEF Order, Numbered
    <3>2. CASE m \in Commands /\ n = m0
      BY <2>6, <2>10, <2>17, <3>2
    <3>3. CASE m = m0 /\ n \in Commands
      <4>1. /\ n.by \in Nat /\ n.by <= cl.id /\ (n.by = cl.id => n.seq = seq)
            /\ m.by = cl.id /\ m.seq = seq
        BY <2>6, <2>10, <2>17, <3>3, Zenon
      <4> QED
        BY <2>3, <4>1
    <3>4. CASE m = m0 /\ n = m0
      BY <2>3, <2>6, <3>4
    <3> QED
      BY <3>1, <3>2, <3>3, <3>4
  <2> QED
    BY <2>12, <2>13, <2>14, <2>15, <2>18, <2>19 DEF Order

<1> QED
  <2> SUFFICES ASSUME IInv, Order, [Next]_vars
               PROVE  Order'
    OBVIOUS
  <2>0. cl \in Clients /\ ctl \in Controllers
    BY DEF IInv, PcTyped
  <2>1. ASSUME UNCHANGED <<version, req, toHps>>,
               queue' = queue \/ queue' = <<>>,
               ctl'.session = ctl.session,
               cl' = cl \/ \E b \in BOOLEAN : cl' = [cl EXCEPT !.sock = b]
        PROVE  Order'
    <3>1. /\ cl'.next = cl.next /\ cl'.pc = cl.pc /\ cl'.id = cl.id
          /\ cl'.seq = cl.seq /\ cl'.attempt = cl.attempt
      BY <2>0, <2>1 DEF Clients
    <3> QED
      BY <2>1, <3>1, FrameGoesOn, OrderGoesOn
  <2>2. ASSUME CloseClientOnce
        PROVE  cl' = cl \/ \E b \in BOOLEAN : cl' = [cl EXCEPT !.sock = b]
    BY <2>2, ZenonT(60) DEF CloseClientOnce
  <2>3. CASE Start
    <3>1. UNCHANGED <<version, req, toHps, queue, cl>>
      BY <2>3 DEF Start, linkVars
    <3>2. ctl'.session = ctl.session
      BY <2>0, <2>3, ZenonT(60) DEF Start, Controllers
    <3> QED
      BY <2>1, <3>1, <3>2
  <2>4. CASE Stop
    <3>1. /\ UNCHANGED <<version, req, toHps>>
          /\ queue' = queue \/ queue' = <<>>
          /\ cl' = cl \/ CloseClientOnce
      BY <2>4, Zenon DEF Stop, linkVars, FailPending
    <3>2. ctl'.session = ctl.session
      BY <2>0, <2>4, ZenonT(60) DEF Stop, Controllers
    <3> QED
      BY <2>1, <2>2, <3>1, <3>2
  <2>5. CASE Stopping
    <3>1. /\ UNCHANGED <<version, req, toHps>>
          /\ queue' = queue \/ queue' = <<>>
          /\ cl' = cl \/ CloseClientOnce
      BY <2>5, Zenon DEF Stopping, JoinDeadline, StopReturns, linkVars, FailPending
    <3>2. ctl'.session = ctl.session
      BY <2>0, <2>5, ZenonT(60) DEF Stopping, JoinDeadline, StopReturns, Controllers
    <3> QED
      BY <2>1, <2>2, <3>1, <3>2
  <2>6. CASE WorkerOpen
    <3>1. /\ UNCHANGED <<version, req, toHps, queue>>
          /\ \E b \in {TRUE, cl.sock} : cl' = [cl EXCEPT !.sock = b]
      BY <2>6, ZenonT(60) DEF WorkerOpen, linkVars
    <3>2. ctl'.session = ctl.session
      BY <2>0, <2>6 DEF WorkerOpen, Worker, Controllers
    <3>3. cl.sock \in BOOLEAN
      BY <2>0 DEF Clients
    <3>4. \E b \in BOOLEAN : cl' = [cl EXCEPT !.sock = b]
      BY <3>1, <3>3, ZenonT(60)
    <3> QED
      BY <2>1, <3>1, <3>2, <3>4
  <2>7. CASE WorkerLoop \/ WorkerRefuses
    <3>1. UNCHANGED <<version, req, toHps, queue, cl>>
      BY <2>7 DEF WorkerLoop, WorkerRefuses, linkVars
    <3>2. ctl'.session = ctl.session
      BY <2>0, <2>7, ZenonT(60) DEF WorkerLoop, WorkerRefuses, Worker, Controllers
    <3> QED
      BY <2>1, <3>1, <3>2
  <2>8. CASE WorkerDrains
    <3>1. UNCHANGED <<version, req, toHps, cl>> /\ queue' = <<>>
      BY <2>8 DEF WorkerDrains, linkVars, FailPending
    <3>2. ctl'.session = ctl.session
      BY <2>0, <2>8 DEF WorkerDrains, Worker, Controllers
    <3> QED
      BY <2>1, <3>1, <3>2
  <2>9. CASE WorkerEnds
    <3>1. UNCHANGED <<version, req, toHps, queue>> /\ CloseClientOnce
      BY <2>9 DEF WorkerEnds, linkVars
    <3>2. ctl'.session = ctl.session
      BY <2>0, <2>9 DEF WorkerEnds, Controllers
    <3> QED
      BY <2>1, <2>2, <3>1, <3>2
  <2>10. CASE (\E m \in toHps : HpsReceive(m)) \/ HpsRestart \/ UNCHANGED vars
    <3>1. UNCHANGED <<version, req, toHps, queue, cl, ctl>>
      BY <2>10 DEF HpsReceive, HpsRestart, vars
    <3> QED
      BY <2>1, <3>1
  <2>11. CASE WorkerStep
    BY <2>6, <2>7, <2>8, <2>9, <2>11, OrderGet, <1>OrderSend, OrderGoesOn, ClientGoesOn
       DEF WorkerStep
  <2> QED
    BY <2>3, <2>4, <2>5, <2>10, <2>11, OrderSubmit, OrderRestart
       DEF Next, UserInterface

\* Nothing is submitted and nothing sent at the start.
LEMMA OrderInit ==
    ASSUME Init, IInv
    PROVE  Order
<1>1. /\ req = <<>> /\ queue = <<>> /\ cl = NewClient /\ toHps = {}
  BY DEF Init
<1>2. cl.pc = "none" /\ cl.attempt = 0 /\ cl.next = SeqStart
  BY <1>1 DEF NewClient
<1>3. Len(req) = 0 /\ Len(queue) = 0 /\ Ids = {} /\ DOMAIN queue = {}
  BY <1>1, EmptySeq DEF Ids
<1>4. Counting
  <2>1. cl.next \in Numbers /\ Pos(cl.next) = 0 /\ Owes = 0
    BY <1>2, Positions DEF Owes
  <2>2. MaxRequests \in Nat
    BY PathAssumption
  <2> QED
    BY <1>3, <2>1, <2>2 DEF Counting
<1>5. Commands = {}
  BY <1>1 DEF Commands
<1> QED
  BY <1>2, <1>3, <1>4, <1>5 DEF Order, Requested, Place, Ascending, Sent, Numbered

----------------------------------------------------------------------------
(* The whole path.                                                         *)

Path == IInv /\ Order /\ Served /\ OwnResult

\* The invariant of the whole path.
LEMMA PathInductive == Spec => []Path
<1>1. Init => Path
  <2>1. Init => OwnResult
    BY EmptySeq DEF Init, OwnResult, Ids
  <2> QED
    BY <2>1, InitInv, OrderInit, ServedInit, SMTT(30) DEF Path
<1>2. Path /\ [Next]_vars => Path'
  BY StepInv, OrderKeeps, ServedKeeps, OwnKeeps DEF Path
<1> QED
  BY <1>1, <1>2, PTL DEF Spec

\* LedgerOrders, for any number of requests, restarts and executions: one HPS
\* process executes the version-2 commands of one dashboard session in the
\* order of their requests and each at most once, however the link repeats,
\* delays and reorders them (handle_v2's ledger and its serial comparison).
THEOREM LedgerKeepsOrder == Spec => []LedgerOrders
<1>1. Path => LedgerOrders
  BY DEF Path, Served
<1> QED
  BY <1>1, PathInductive, PTL

\* OwnResult, likewise: send_packet returns the result of its own command, of
\* one that the bridge executed, and never a reject; only a dashboard that was
\* restarted can be given what an earlier session's command of the same type
\* left behind (_receive_correlated).
THEOREM ResultIsOwn == Spec => []OwnResult
<1>1. Path => OwnResult
  BY DEF Path
<1> QED
  BY <1>1, PathInductive, PTL
============================================================================
