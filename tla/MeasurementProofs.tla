------------------------ MODULE MeasurementProofs --------------------------
(***************************************************************************)
(* What an admitted campaign is worth, for every number of trials and any  *)
(* number of meter sessions, restarts, lost lines and clock requests; and  *)
(* what a valid row of the meter is worth, for every size of its register. *)
(***************************************************************************)
EXTENDS MeasurementCampaign, EnergyMeter, SequenceTheorems, TLAPS

----------------------------------------------------------------------------
(* The inductive invariant.                                                *)

Early == {"start", "ready", "run", "padding", "request", "stop"}
Pcs == Early \cup {"clean_jtag", "clean_capture", "clean_wait", "done", "dead", "analysed"}

DevSet == [state : {"boot", "wait", "session"}, inc : Nat, idx : Nat]
LineSet == [kind : {"start", "header", "row", "sync"}, inc : Nat, idx : Nat, at : Nat,
            token : Nat]
CapSet == [state : {"none", "starting", "open", "last", "exited"},
           rows : SUBSET [inc : Nat, at : Nat],
           replies : SUBSET [inc : Nat, idx : Nat, token : Nat],
           pending : SUBSET Nat, tokens : Nat, sessions : Nat, session : Nat,
           sample : Nat, ok : BOOLEAN, byFile : BOOLEAN, opened : Nat, closed : Nat]
TrialSet == [begun : Nat, done : Nat]
JtagSet == [state : {"none", "running", "exited"}, code : {0, 1}, begun : Nat,
            busy : BOOLEAN, trials : Seq(TrialSet)]
HostSet == [pc : Pcs, status : {"starting", "pass", "failed"},
            handles : SUBSET {"capture", "jtag"}, stopFile : BOOLEAN, errors : BOOLEAN]

TypeLine ==
    /\ dev \in DevSet
    /\ asked \in Seq(Nat) /\ wire \in Seq(LineSet) /\ seen \in Nat /\ now \in Nat
TypeCap == cap \in CapSet
TypeJtag == jtag \in JtagSet
TypeHost == host \in HostSet
Types == TypeLine /\ TypeCap /\ TypeJtag /\ TypeHost

\* Only a header changes the session of the line, and the firmware's session
\* is the last one on it.
Ordered(w, first, last) ==
    /\ \A j \in 1 .. Len(w) :
          w[j].kind # "header" => w[j].inc = IF j = 1 THEN first ELSE w[j - 1].inc
    /\ last = IF w = <<>> THEN first ELSE w[Len(w)].inc
WireOrder == Ordered(wire, seen, dev.inc)

\* Until a second header is counted, what is recorded is of one session, the
\* one the line is in while the capture reads it.
CsvOrder ==
    /\ cap.state \in {"none", "starting"} => cap.sessions = 0
    /\ cap.sessions = 0 => cap.rows = {}
    /\ cap.rows = {} => cap.replies = {} /\ cap.pending = {}
    /\ cap.state \in {"open", "last"} /\ cap.sessions <= 1 =>
         \A r \in cap.rows \cup cap.replies : r.inc = seen
    /\ cap.state = "exited" /\ cap.sessions <= 1 =>
         \A r, s \in cap.rows \cup cap.replies : r.inc = s.inc

\* Who can be running when.
Phases ==
    /\ cap.state \in {"none", "starting"} => jtag.state = "none"
    /\ jtag.state = "none" => jtag.trials = <<>> /\ ~jtag.busy
    /\ host.pc = "start" => cap.state = "none" /\ host.handles = {}
    /\ host.pc \in {"start", "ready"} => jtag.state = "none" /\ "jtag" \notin host.handles
    /\ host.pc \in {"padding", "request", "stop"} => jtag.state = "exited"
    /\ host.pc \in Early => host.status = "starting" /\ ~host.errors
    /\ host.stopFile => host.pc \notin Early \ {"stop"}
    /\ cap.byFile => host.stopFile

\* The capture was opened before the first launch; a stop by the file comes
\* after the last completion while the runner has not failed.
Times ==
    /\ cap.opened < now
    /\ jtag.busy => cap.opened < jtag.begun
    /\ \A i \in 1 .. Len(jtag.trials) :
          cap.opened < jtag.trials[i].begun /\ jtag.trials[i].done < now
    /\ host.pc \in Early /\ cap.byFile =>
          \A i \in 1 .. Len(jtag.trials) : jtag.trials[i].done < cap.closed

\* What a pass fixes.
Passed ==
    /\ host.pc = "analysed" => host.status = "pass"
    /\ host.status = "pass" =>
         /\ jtag.state = "exited" /\ cap.state = "exited" /\ ~host.errors
         /\ cap.sessions <= 1
         /\ \A i \in 1 .. Len(jtag.trials) : jtag.trials[i].done < cap.closed

\* How far the finally block has come.
Cleaned ==
    /\ host.errors => host.status = "failed"
    /\ host.pc \in {"clean_capture", "clean_wait", "done"} /\ ~host.errors
         /\ "jtag" \in host.handles => ~Running(jtag)
    /\ host.pc = "done" /\ ~host.errors /\ "capture" \in host.handles => ~Running(cap)

\* The steps of the runner that touch nothing else.
HostOnly ==
    \/ HostSeesJtagEnd \/ HostPads \/ HostRequestsStop \/ HostAdmits \/ HostFails
    \/ HostCleansCapture \/ HostDies \/ Analyze

Course == Phases /\ Times /\ Passed /\ Cleaned /\ TrialsAreMetered

IInv == Types /\ WireOrder /\ CsvOrder /\ Course

----------------------------------------------------------------------------
(* Types.                                                                  *)

\* A line the firmware prints is one of LineSet.
LEMMA LineTyped ==
    ASSUME now \in Nat, NEW k \in {"start", "header", "row", "sync"}, NEW i \in Nat,
           NEW x \in Nat, NEW t \in Nat
    PROVE  Line(k, i, x, t) \in LineSet
BY DEF Line, LineSet

\* So is what an error or a restart leaves of the firmware's state.
LEMMA DevTyped ==
    ASSUME NEW d \in DevSet, NEW st \in {"boot", "wait", "session"}, NEW i \in Nat
    PROVE  [d EXCEPT !.state = st, !.idx = i] \in DevSet
BY ZenonT(60) DEF DevSet

\* Losing the first lines leaves a line, and its session is one of a line.
LEMMA LoseTyped ==
    ASSUME wire \in Seq(LineSet), seen \in Nat, NEW k \in 0 .. Len(wire), Lose(k)
    PROVE  wire' \in Seq(LineSet) /\ seen' \in Nat
<1>1. wire' \in Seq(LineSet)
  BY SubSeqProperties DEF Lose
<1>2. CASE k = 0
  BY <1>1, <1>2 DEF Lose
<1>3. CASE k # 0
  <2>1. wire[k] \in LineSet
    BY <1>3, ElementOfSeq
  <2> QED
    BY <1>1, <1>3, <2>1, SMTT(30) DEF Lose, LineSet
<1> QED
  BY <1>2, <1>3

\* Every step of the firmware keeps the types.
LEMMA DeviceTypes ==
    ASSUME Types, Device
    PROVE  Types'
<1> USE DEF Types, TypeLine
<1>1. CASE DeviceSession
  <2>1. dev.inc \in Nat /\ dev.idx \in Nat /\ dev' \in DevSet
    BY <1>1 DEF DeviceSession, DevSet
  <2>2. Line("start", dev.inc, dev.idx + 1, 0) \in LineSet
    BY <2>1, LineTyped
  <2>3. Line("header", dev.inc + 1, dev.idx + 1, 0) \in LineSet
    BY <2>1, LineTyped
  <2>4. wire' \in Seq(LineSet)
    BY <1>1, <2>2, <2>3 DEF DeviceSession
  <2> QED
    BY <1>1, <2>1, <2>4 DEF DeviceSession, TypeCap, TypeJtag, TypeHost
<1>2. CASE DeviceError
  <2>1. CASE dev' = [dev EXCEPT !.state = "wait"]
    BY <1>2, <2>1 DEF DeviceError, DevSet, TypeCap, TypeJtag, TypeHost
  <2>2. CASE \E n \in {0, 1} : dev' = [dev EXCEPT !.state = "wait", !.idx = @ + n]
    <3>1. PICK n \in {0, 1} : dev' = [dev EXCEPT !.state = "wait", !.idx = dev.idx + n]
      BY <2>2, ZenonT(60)
    <3>2. dev.idx + n \in Nat
      BY DEF DevSet
    <3>3. dev' \in DevSet
      BY <3>1, <3>2, DevTyped, ZenonT(60)
    <3> QED
      BY <1>2, <3>3 DEF DeviceError, TypeCap, TypeJtag, TypeHost
  <2> QED
    BY <1>2, <2>1, <2>2 DEF DeviceError
<1>3. CASE DeviceRow
  <2>1. Line("row", dev.inc, dev.idx, 0) \in LineSet
    BY LineTyped DEF DevSet
  <2> QED
    BY <1>3, <2>1, AppendProperties DEF DeviceRow, TypeCap, TypeJtag, TypeHost
<1>4. CASE DeviceReply
  <2>1. Head(asked) \in Nat /\ Tail(asked) \in Seq(Nat)
    BY <1>4, HeadTailProperties DEF DeviceReply
  <2>2. Line("sync", dev.inc, dev.idx, Head(asked)) \in LineSet
    BY <2>1, LineTyped DEF DevSet
  <2> QED
    BY <1>4, <2>1, <2>2, AppendProperties DEF DeviceReply, TypeCap, TypeJtag, TypeHost
<1>5. CASE DeviceRestart
  <2>1. dev' \in DevSet /\ asked' \in Seq(Nat)
    <3>1. asked' \in Seq(Nat)
      BY <1>5, EmptySeq DEF DeviceRestart
    <3>2. dev' = [dev EXCEPT !.state = "boot", !.idx = 0] /\ 0 \in Nat
      BY <1>5 DEF DeviceRestart
    <3> QED
      BY <3>1, <3>2, DevTyped, ZenonT(60)
  <2> QED
    BY <1>5, <2>1, SMTT(30) DEF DeviceRestart, TypeCap, TypeJtag, TypeHost
<1> QED
  BY <1>1, <1>2, <1>3, <1>4, <1>5 DEF Device

\* What Receive-Line makes of a line is a state of the capture.
LEMMA ParsedTyped ==
    ASSUME TypeCap, NEW m \in LineSet
    PROVE  Parsed(m) \in CapSet
<1>1. CASE m.kind = "start"
  BY <1>1 DEF Parsed, TypeCap, CapSet, LineSet
<1>2. CASE m.kind = "header"
  BY <1>2 DEF Parsed, TypeCap, CapSet, LineSet
<1>3. CASE m.kind = "row"
  <2> DEFINE r == [inc |-> m.inc, at |-> m.at]
  <2>1. cap.rows \cup {r} \in SUBSET [inc : Nat, at : Nat]
    BY DEF TypeCap, CapSet, LineSet
  <2> HIDE DEF r
  <2>2. PICK n \in Nat : n = IF cap.sessions = 0 THEN 1 ELSE cap.sessions
    BY DEF TypeCap, CapSet
  <2>3. Parsed(m) = [cap EXCEPT !.sessions = n, !.rows = @ \cup {r}, !.sample = cap.session]
    BY <1>3, <2>2 DEF Parsed, r
  <2> QED
    BY <2>1, <2>3, ZenonT(60) DEF TypeCap, CapSet
<1>4. CASE m.kind = "sync"
  <2> DEFINE r == [inc |-> m.inc, idx |-> m.idx, token |-> m.token]
  <2>1. cap.replies \cup {r} \in SUBSET [inc : Nat, idx : Nat, token : Nat]
    BY DEF TypeCap, CapSet, LineSet
  <2> HIDE DEF r
  <2>2. Parsed(m) = [cap EXCEPT !.replies = @ \cup {r}, !.pending = @ \ {m.token}]
    BY <1>4 DEF Parsed, r
  <2> QED
    BY <2>1, <2>2, ZenonT(60) DEF TypeCap, CapSet
<1> QED
  BY <1>1, <1>2, <1>3, <1>4 DEF LineSet

\* Every step of the capture keeps the types.
LEMMA CaptureTypes ==
    ASSUME Types, Capture
    PROVE  Types'
<1> USE DEF Types, TypeLine
<1>1. CASE PortDrops
  <2>1. PICK k \in 1 .. Len(wire) : Lose(k)
    BY <1>1 DEF PortDrops
  <2>2. wire' \in Seq(LineSet) /\ seen' \in Nat
    BY <2>1, LoseTyped
  <2> QED
    BY <1>1, <2>2 DEF PortDrops, TypeCap, TypeJtag, TypeHost
<1>2. CASE CaptureOpen
  <2>1. PICK k \in 0 .. Len(wire) : Lose(k)
    BY <1>2 DEF CaptureOpen
  <2>2. wire' \in Seq(LineSet) /\ seen' \in Nat
    BY <2>1, LoseTyped
  <2>3. TypeCap' /\ dev' \in DevSet /\ asked' \in Seq(Nat)
    <3>1. TypeCap'
      BY <1>2, ZenonT(60) DEF CaptureOpen, TypeCap, CapSet
    <3>2. dev' \in DevSet /\ asked' \in Seq(Nat)
      <4>1. asked' \in Seq(Nat)
        BY <1>2, EmptySeq DEF CaptureOpen
      <4>2. dev' = [dev EXCEPT !.state = "boot", !.idx = 0] /\ 0 \in Nat
        BY <1>2 DEF CaptureOpen
      <4> QED
        BY <4>1, <4>2, DevTyped, ZenonT(60)
    <3> QED
      BY <3>1, <3>2
  <2> QED
    BY <1>2, <2>2, <2>3 DEF CaptureOpen, TypeJtag, TypeHost
<1>3. CASE CaptureAsk
  <2>1. cap.tokens + 1 \in Nat /\ cap.pending \cup {cap.tokens + 1} \in SUBSET Nat
    BY DEF TypeCap, CapSet
  <2>2. TypeCap'
    BY <1>3, <2>1, ZenonT(60) DEF CaptureAsk, TypeCap, CapSet
  <2> QED
    BY <1>3, <2>1, <2>2, AppendProperties DEF CaptureAsk, TypeJtag, TypeHost
<1>4. CASE CaptureLine
  <2>1. Head(wire) \in LineSet /\ Tail(wire) \in Seq(LineSet)
    BY <1>4, HeadTailProperties DEF CaptureLine
  <2>2. Head(wire).inc \in Nat
    BY <2>1 DEF LineSet
  <2>3. TypeCap'
    BY <1>4, <2>1, ParsedTyped DEF CaptureLine, TypeCap
  <2> QED
    BY <1>4, <2>1, <2>2, <2>3 DEF CaptureLine, TypeJtag, TypeHost
<1>5. CASE \E byFile \in BOOLEAN : CaptureStops(byFile)
  <2>1. TypeCap'
    BY <1>5, ZenonT(60) DEF CaptureStops, TypeCap, CapSet
  <2> QED
    BY <1>5, <2>1 DEF CaptureStops, deviceVars, TypeJtag, TypeHost
<1>6. CASE CaptureExits \/ CaptureFails
  <2>1. TypeCap'
    BY <1>6, ZenonT(60) DEF CaptureExits, CaptureFails, Exited, TypeCap, CapSet
  <2> QED
    BY <1>6, <2>1, ZenonT(60) DEF CaptureExits, CaptureFails, deviceVars, TypeJtag, TypeHost
<1> QED
  BY <1>1, <1>2, <1>3, <1>4, <1>5, <1>6 DEF Capture

\* Every step of the JTAG program keeps the types.
LEMMA JtagTypes ==
    ASSUME Types, Jtag
    PROVE  Types'
<1> USE DEF Types
<1>1. CASE JtagLaunch
  <2>1. TypeJtag'
    BY <1>1, ZenonT(60) DEF JtagLaunch, TypeJtag, JtagSet, TypeLine
  <2> QED
    BY <1>1, <2>1 DEF JtagLaunch, deviceVars, TypeLine, TypeCap, TypeHost
<1>2. CASE JtagCompletes
  <2>1. [begun |-> jtag.begun, done |-> now] \in TrialSet /\ jtag.trials \in Seq(TrialSet)
    BY DEF TypeJtag, JtagSet, TrialSet, TypeLine
  <2>2. Append(jtag.trials, [begun |-> jtag.begun, done |-> now]) \in Seq(TrialSet)
    BY <2>1, AppendProperties
  <2>3. TypeJtag'
    BY <1>2, <2>2, ZenonT(60) DEF JtagCompletes, TypeJtag, JtagSet
  <2> QED
    BY <1>2, <2>3 DEF JtagCompletes, deviceVars, TypeLine, TypeCap, TypeHost
<1>3. CASE \E code \in {0, 1} : JtagExits(code)
  <2>1. TypeJtag'
    BY <1>3, ZenonT(60) DEF JtagExits, TypeJtag, JtagSet
  <2> QED
    BY <1>3, <2>1 DEF JtagExits, deviceVars, TypeLine, TypeCap, TypeHost
<1> QED
  BY <1>1, <1>2, <1>3 DEF Jtag

\* Every step of the runner keeps the types.
LEMMA HostTypes ==
    ASSUME Types, Host
    PROVE  Types'
<1> USE DEF Types
<1>1. CASE HostStartsCapture
  <2>1. TypeCap'
    BY <1>1 DEF HostStartsCapture, TypeCap, CapSet
  <2>2. TypeHost'
    BY <1>1, ZenonT(60) DEF HostStartsCapture, Fail, TypeHost, HostSet, Pcs, Early
  <2> QED
    BY <1>1, <2>1, <2>2 DEF HostStartsCapture, deviceVars, TypeLine, TypeJtag
<1>2. CASE HostStartsJtag
  <2>1. TypeJtag'
    BY <1>2 DEF HostStartsJtag, TypeJtag, JtagSet
  <2>2. TypeHost'
    BY <1>2, ZenonT(60) DEF HostStartsJtag, Fail, TypeHost, HostSet, Pcs, Early
  <2> QED
    BY <1>2, <2>1, <2>2 DEF HostStartsJtag, deviceVars, TypeLine, TypeCap
<1>3. CASE HostCleansJtag
  <2>1. TypeJtag'
    BY <1>3, ZenonT(60) DEF HostCleansJtag, TypeJtag, JtagSet
  <2>2. TypeHost'
    BY <1>3, ZenonT(60) DEF HostCleansJtag, Goto, CleanupError, TypeHost, HostSet, Pcs, Early
  <2> QED
    BY <1>3, <2>1, <2>2 DEF HostCleansJtag, deviceVars, TypeLine, TypeCap
<1>4. CASE HostWaits
  <2>1. TypeCap'
    BY <1>4, ZenonT(60) DEF HostWaits, Exited, TypeCap, CapSet
  <2>2. TypeHost'
    BY <1>4, ZenonT(60) DEF HostWaits, Goto, CleanupError, TypeHost, HostSet, Pcs, Early
  <2> QED
    BY <1>4, <2>1, <2>2 DEF HostWaits, deviceVars, TypeLine, TypeJtag
<1>5. CASE HostOnly
  <2>1. UNCHANGED <<dev, asked, wire, seen, cap, jtag, now>>
    BY <1>5 DEF HostOnly, HostSeesJtagEnd, HostPads, HostRequestsStop, HostAdmits, HostFails,
                HostCleansCapture, HostDies, Analyze, deviceVars
  <2>2. TypeHost'
    BY <1>5, ZenonT(60) DEF HostOnly, HostSeesJtagEnd, HostPads, HostRequestsStop, HostAdmits, HostFails,
                HostCleansCapture, HostDies, Analyze, Goto, Fail, CleanupError, TypeHost,
                HostSet, Pcs, Early
  <2> QED
    BY <2>1, <2>2 DEF TypeLine, TypeCap, TypeJtag
<1> QED
  BY <1>1, <1>2, <1>3, <1>4, <1>5 DEF Host, HostOnly

\* Every step of the four processes keeps the types.
LEMMA TypesKept ==
    ASSUME Types, [Next]_vars
    PROVE  Types'
<1>1. CASE UNCHANGED vars
  BY <1>1 DEF vars, Types, TypeLine, TypeCap, TypeJtag, TypeHost
<1> QED
  BY <1>1, DeviceTypes, CaptureTypes, JtagTypes, HostTypes DEF Next

----------------------------------------------------------------------------
(* The sessions of the lines.                                              *)

\* A line of the running session, or a header, may follow.
LEMMA AppendOrdered ==
    ASSUME NEW w \in Seq(LineSet), NEW first, NEW last, NEW m \in LineSet,
           m.kind = "header" \/ m.inc = last, Ordered(w, first, last)
    PROVE  Ordered(Append(w, m), first, m.inc)
<1> DEFINE v == Append(w, m)
<1>1. /\ v \in Seq(LineSet) /\ Len(v) = Len(w) + 1 /\ v[Len(w) + 1] = m
      /\ \A j \in 1 .. Len(w) : v[j] = w[j]
  BY AppendProperties
<1>2. Len(w) \in Nat /\ (w = <<>> <=> Len(w) = 0)
  BY LenProperties, EmptySeq
<1> HIDE DEF v
<1>3. v # <<>>
  BY <1>1, <1>2
<1>4. ASSUME NEW j \in 1 .. Len(v), v[j].kind # "header"
      PROVE  v[j].inc = IF j = 1 THEN first ELSE v[j - 1].inc
  <2>1. CASE j \in 1 .. Len(w)
    <3>1. v[j] = w[j] /\ (j # 1 => v[j - 1] = w[j - 1])
      BY <1>1, <1>2, <2>1
    <3> QED
      BY <1>4, <2>1, <3>1 DEF Ordered
  <2>2. CASE j = Len(w) + 1
    <3>1. v[j].inc = last
      BY <1>1, <1>4, <2>2
    <3>2. CASE Len(w) = 0
      BY <1>2, <2>2, <3>1, <3>2 DEF Ordered
    <3>3. CASE Len(w) # 0
      <4>1. j # 1 /\ j - 1 = Len(w) /\ v[j - 1] = w[Len(w)]
        BY <1>1, <1>2, <2>2, <3>3
      <4>2. last = w[Len(w)].inc
        BY <1>2, <3>3 DEF Ordered
      <4> QED
        BY <3>1, <4>1, <4>2
    <3> QED
      BY <3>2, <3>3
  <2> QED
    BY <1>1, <1>2, <2>1, <2>2
<1>5. m.inc = IF v = <<>> THEN first ELSE v[Len(v)].inc
  BY <1>1, <1>3
<1>6. Ordered(v, first, m.inc)
  BY <1>4, <1>5 DEF Ordered
<1> QED
  BY <1>6 DEF v

\* So may the loss of the first lines.
LEMMA SuffixOrdered ==
    ASSUME NEW w \in Seq(LineSet), NEW first, NEW last, NEW k \in 0 .. Len(w),
           Ordered(w, first, last)
    PROVE  Ordered(SubSeq(w, k + 1, Len(w)), IF k = 0 THEN first ELSE w[k].inc, last)
<1> DEFINE v == SubSeq(w, k + 1, Len(w))
           f == IF k = 0 THEN first ELSE w[k].inc
<1>0. Len(w) \in Nat
  BY LenProperties
<1>1. /\ v \in Seq(LineSet) /\ Len(v) = Len(w) - k
      /\ \A j \in 1 .. Len(w) - k : v[j] = w[k + j]
  BY <1>0
<1> HIDE DEF v
<1>2. v = <<>> <=> Len(w) = k
  BY <1>0, <1>1, EmptySeq
<1>3. w = <<>> <=> Len(w) = 0
  BY EmptySeq
<1>4. ASSUME NEW j \in 1 .. Len(v), v[j].kind # "header"
      PROVE  v[j].inc = IF j = 1 THEN f ELSE v[j - 1].inc
  <2>1. k + j \in 1 .. Len(w) /\ v[j] = w[k + j]
    BY <1>0, <1>1
  <2>2. w[k + j].inc = IF k + j = 1 THEN first ELSE w[k + j - 1].inc
    BY <1>4, <2>1 DEF Ordered
  <2>3. CASE j = 1
    BY <2>1, <2>2, <2>3
  <2>4. CASE j # 1
    <3>1. v[j - 1] = w[k + (j - 1)] /\ k + (j - 1) = k + j - 1 /\ k + j # 1
      BY <1>0, <1>1, <2>4
    <3> QED
      BY <2>1, <2>2, <2>4, <3>1
  <2> QED
    BY <2>3, <2>4
<1>5. last = IF v = <<>> THEN f ELSE v[Len(v)].inc
  <2>1. CASE Len(w) = k
    BY <1>2, <1>3, <2>1 DEF Ordered
  <2>2. CASE Len(w) # k
    <3>1. Len(v) \in 1 .. Len(w) - k /\ k + Len(v) = Len(w) /\ Len(w) # 0
      BY <1>0, <1>1, <2>2
    <3>2. v[Len(v)] = w[Len(w)]
      BY <1>1, <3>1
    <3> QED
      BY <1>2, <1>3, <2>2, <3>1, <3>2 DEF Ordered
  <2> QED
    BY <2>1, <2>2
<1>6. Ordered(v, f, last)
  BY <1>4, <1>5 DEF Ordered
<1> QED
  BY <1>6 DEF v

\* Reading a line is losing the first.
LEMMA TailOrdered ==
    ASSUME NEW w \in Seq(LineSet), NEW first, NEW last, w # <<>>, Ordered(w, first, last)
    PROVE  /\ Ordered(Tail(w), Head(w).inc, last)
           /\ Head(w).kind # "header" => Head(w).inc = first
<1>1. Len(w) \in Nat \ {0} /\ Head(w) = w[1]
  BY EmptySeq, LenProperties
<1>2. Tail(w) = SubSeq(w, 1 + 1, Len(w))
  BY <1>1
<1>3. Ordered(SubSeq(w, 1 + 1, Len(w)), w[1].inc, last)
  BY <1>1, SuffixOrdered
<1>4. w[1].kind # "header" => w[1].inc = first
  BY <1>1 DEF Ordered
<1> QED
  BY <1>1, <1>2, <1>3, <1>4, ZenonT(60)

\* The runner never touches the line.
LEMMA HostKeepsLine ==
    ASSUME Host
    PROVE  UNCHANGED deviceVars /\ now' = now
BY ZenonT(60) DEF Host, HostStartsCapture, HostStartsJtag, HostSeesJtagEnd, HostPads, HostRequestsStop,
       HostAdmits, HostFails, HostCleansJtag, HostCleansCapture, HostWaits, HostDies, Analyze

\* Only a header changes the session of the line.
LEMMA WireOrderKept ==
    ASSUME Types, WireOrder, [Next]_vars
    PROVE  WireOrder'
<1> USE DEF WireOrder
<1>0. wire \in Seq(LineSet) /\ dev \in DevSet /\ dev.inc \in Nat /\ dev.idx \in Nat /\ now \in Nat
  BY DEF Types, TypeLine, DevSet
<1>1. CASE DeviceSession
  <2> DEFINE a == Line("start", dev.inc, dev.idx + 1, 0)
             b == Line("header", dev.inc + 1, dev.idx + 1, 0)
  <2>1. a \in LineSet /\ b \in LineSet
    BY <1>0, LineTyped
  <2>2. a.inc = dev.inc /\ b.kind = "header" /\ b.inc = dev.inc + 1
    BY DEF Line
  <2>3. wire' = wire \o <<a, b>> /\ seen' = seen /\ dev'.inc = dev.inc + 1
    BY <1>1 DEF DeviceSession
  <2> HIDE DEF a, b
  <2>4. wire' = Append(Append(wire, a), b)
    BY <1>0, <2>1, <2>3
  <2>5. Ordered(Append(wire, a), seen, a.inc) /\ Append(wire, a) \in Seq(LineSet)
    BY <1>0, <2>1, <2>2, AppendOrdered, AppendProperties
  <2>6. Ordered(Append(Append(wire, a), b), seen, b.inc)
    BY <2>1, <2>2, <2>5, AppendOrdered, ZenonT(60)
  <2> QED
    BY <2>2, <2>3, <2>4, <2>6, ZenonT(60)
<1>2. CASE DeviceError
  BY <1>0, <1>2, ZenonT(60) DEF DeviceError, DevSet
<1>3. CASE DeviceRow
  <2> DEFINE a == Line("row", dev.inc, dev.idx, 0)
  <2>1. a \in LineSet /\ a.inc = dev.inc
    BY <1>0, LineTyped DEF Line
  <2>2. wire' = Append(wire, a) /\ seen' = seen /\ dev' = dev
    BY <1>3 DEF DeviceRow
  <2> HIDE DEF a
  <2> QED
    BY <1>0, <2>1, <2>2, AppendOrdered
<1>4. CASE DeviceReply
  <2> DEFINE a == Line("sync", dev.inc, dev.idx, Head(asked))
  <2>1. Head(asked) \in Nat
    BY <1>4, HeadTailProperties DEF DeviceReply, Types, TypeLine
  <2>2. a \in LineSet /\ a.inc = dev.inc
    BY <1>0, <2>1, LineTyped DEF Line
  <2>3. wire' = Append(wire, a) /\ seen' = seen /\ dev' = dev
    BY <1>4 DEF DeviceReply
  <2> HIDE DEF a
  <2> QED
    BY <1>0, <2>2, <2>3, AppendOrdered
<1>5. CASE DeviceRestart
  BY <1>0, <1>5 DEF DeviceRestart, DevSet
<1>6. CASE PortDrops \/ CaptureOpen
  <2>1. PICK k \in 0 .. Len(wire) : Lose(k)
    BY <1>0, <1>6, LenProperties DEF PortDrops, CaptureOpen
  <2>2. dev'.inc = dev.inc
    BY <1>0, <1>6, ZenonT(60) DEF PortDrops, CaptureOpen, DevSet
  <2> QED
    BY <1>0, <2>1, <2>2, SuffixOrdered DEF Lose
<1>7. CASE CaptureLine
  BY <1>0, <1>7, TailOrdered DEF CaptureLine
<1>8. CASE CaptureAsk \/ (\E byFile \in BOOLEAN : CaptureStops(byFile)) \/ CaptureExits \/ CaptureFails
  BY <1>8, ZenonT(60) DEF CaptureAsk, CaptureStops, CaptureExits, CaptureFails, deviceVars
<1>9. CASE Jtag
  BY <1>9 DEF Jtag, JtagLaunch, JtagCompletes, JtagExits, deviceVars
<1>10. CASE Host
  BY <1>10, HostKeepsLine DEF deviceVars
<1>11. CASE UNCHANGED vars
  BY <1>11 DEF vars
<1> QED
  BY <1>1, <1>2, <1>3, <1>4, <1>5, <1>6, <1>7, <1>8, <1>9, <1>10, <1>11 DEF Next, Device, Capture

----------------------------------------------------------------------------
(* What is recorded is of one session until a second header is counted.    *)

\* A line read by the capture.
LEMMA LineKeepsCsv ==
    ASSUME Types, WireOrder, CsvOrder, CaptureLine
    PROVE  CsvOrder'
<1> DEFINE m == Head(wire)
<1>1. m \in LineSet /\ (m.kind # "header" => m.inc = seen)
  BY HeadTailProperties, TailOrdered DEF CaptureLine, Types, TypeLine, WireOrder
<1>2. /\ cap \in CapSet /\ cap.state \in {"open", "last"}
      /\ m.kind = "sync" => m.token \in cap.pending
      /\ cap' = Parsed(m) /\ seen' = m.inc
  BY DEF CaptureLine, Types, TypeCap
<1> HIDE DEF m
<1>3. PICK n \in Nat : n = cap.sessions
  BY <1>2 DEF CapSet
<1>4. CASE m.kind = "start"
  <2>1. /\ cap'.state = cap.state /\ cap'.sessions = cap.sessions /\ cap'.rows = cap.rows
        /\ cap'.replies = cap.replies /\ cap'.pending = cap.pending /\ seen' = seen
    BY <1>1, <1>2, <1>4 DEF Parsed, CapSet
  <2> QED
    BY <1>2, <2>1 DEF CsvOrder
<1>5. CASE m.kind = "header"
  <2>1. /\ cap'.state = cap.state /\ cap'.sessions = n + 1 /\ cap'.rows = cap.rows
        /\ cap'.replies = cap.replies /\ cap'.pending = cap.pending
    BY <1>2, <1>3, <1>5 DEF Parsed, CapSet
  <2>2. n + 1 <= 1 => cap.rows = {} /\ cap.replies = {}
    BY <1>3 DEF CsvOrder
  <2>3. n + 1 # 0
    OBVIOUS
  <2> QED
    BY <1>2, <2>1, <2>2, <2>3 DEF CsvOrder
<1>6. CASE m.kind = "row"
  <2> DEFINE r == [inc |-> m.inc, at |-> m.at]
  <2>1. r.inc = seen
    BY <1>1, <1>6
  <2>2. /\ cap'.state = cap.state /\ cap'.sessions = IF n = 0 THEN 1 ELSE n
        /\ cap'.rows = cap.rows \cup {r}
        /\ cap'.replies = cap.replies /\ cap'.pending = cap.pending /\ seen' = seen
    BY <1>1, <1>2, <1>3, <1>6, ZenonT(60) DEF Parsed, CapSet
  <2> HIDE DEF r
  <2>3. cap'.sessions # 0 /\ (cap'.sessions <= 1 => cap.sessions <= 1) /\ cap'.rows # {}
    BY <1>3, <2>2
  <2>4. ASSUME cap'.sessions <= 1, NEW x \in cap'.rows \cup cap'.replies
        PROVE  x.inc = seen
    BY <1>2, <2>1, <2>2, <2>3, <2>4 DEF CsvOrder
  <2> QED
    BY <1>2, <2>2, <2>3, <2>4 DEF CsvOrder
<1>7. CASE m.kind = "sync"
  <2> DEFINE r == [inc |-> m.inc, idx |-> m.idx, token |-> m.token]
  <2>1. r.inc = seen
    BY <1>1, <1>7
  <2>2. /\ cap'.state = cap.state /\ cap'.sessions = cap.sessions
        /\ cap'.rows = cap.rows /\ cap'.replies = cap.replies \cup {r} /\ seen' = seen
    BY <1>1, <1>2, <1>7, ZenonT(60) DEF Parsed, CapSet
  <2> HIDE DEF r
  <2>3. cap.rows # {} /\ cap.sessions # 0
    BY <1>2, <1>7 DEF CsvOrder
  <2>4. ASSUME cap'.sessions <= 1, NEW x \in cap'.rows \cup cap'.replies
        PROVE  x.inc = seen
    BY <1>2, <2>1, <2>2, <2>4 DEF CsvOrder
  <2> QED
    BY <1>2, <2>2, <2>3, <2>4 DEF CsvOrder
<1> QED
  BY <1>1, <1>4, <1>5, <1>6, <1>7 DEF LineSet

\* A capture that ends keeps what it has.
LEMMA ExitKeepsCsv ==
    ASSUME Types, CsvOrder, cap.state \in {"starting", "open", "last"},
           NEW ok \in BOOLEAN, Exited(ok)
    PROVE  CsvOrder'
<1>1. /\ cap'.state = "exited" /\ cap'.sessions = cap.sessions /\ cap'.rows = cap.rows
      /\ cap'.replies = cap.replies /\ cap'.pending = cap.pending
  BY DEF Exited, Types, TypeCap, CapSet
<1>2. ASSUME cap.sessions <= 1, NEW r \in cap.rows \cup cap.replies,
             NEW t \in cap.rows \cup cap.replies
      PROVE  r.inc = t.inc
  <2>1. CASE cap.state = "starting"
    BY <1>2, <2>1 DEF CsvOrder
  <2>2. CASE cap.state \in {"open", "last"}
    BY <1>2, <2>2 DEF CsvOrder
  <2> QED
    BY <2>1, <2>2
<1> QED
  BY <1>1, <1>2 DEF CsvOrder

\* What the capture has parsed stays one run of a session after another.
LEMMA CsvOrderKept ==
    ASSUME Types, WireOrder, CsvOrder, Phases, [Next]_vars
    PROVE  CsvOrder'
<1>0. cap \in CapSet
  BY DEF Types, TypeCap
<1>1. CASE Device \/ Jtag \/ UNCHANGED vars
  <2>1. cap' = cap /\ seen' = seen
    BY <1>1 DEF Device, DeviceSession, DeviceError, DeviceRow, DeviceReply, DeviceRestart, Jtag,
                JtagLaunch, JtagCompletes, JtagExits, vars, deviceVars
  <2> QED
    BY <2>1 DEF CsvOrder
<1>2. CASE PortDrops
  BY <1>2 DEF PortDrops, CsvOrder
<1>3. CASE CaptureOpen
  <2>1. /\ cap.state = "starting" /\ cap'.state = "open" /\ cap'.sessions = cap.sessions
        /\ cap'.rows = cap.rows /\ cap'.replies = cap.replies /\ cap'.pending = cap.pending
    BY <1>0, <1>3 DEF CaptureOpen, CapSet
  <2> QED
    BY <2>1 DEF CsvOrder
<1>4. CASE CaptureAsk
  <2>1. /\ cap'.state = cap.state /\ cap'.sessions = cap.sessions /\ seen' = seen
        /\ cap'.rows = cap.rows /\ cap'.replies = cap.replies /\ cap.rows # {}
    BY <1>0, <1>4 DEF CaptureAsk, CapSet
  <2> QED
    BY <2>1 DEF CsvOrder
<1>5. CASE CaptureLine
  BY <1>5, LineKeepsCsv
<1>6. CASE \E byFile \in BOOLEAN : CaptureStops(byFile)
  <2>1. /\ cap.state = "open" /\ cap'.state = "last" /\ cap'.sessions = cap.sessions /\ seen' = seen
        /\ cap'.rows = cap.rows /\ cap'.replies = cap.replies /\ cap'.pending = cap.pending
    BY <1>0, <1>6 DEF CaptureStops, CapSet, deviceVars
  <2> QED
    BY <2>1 DEF CsvOrder
<1>7. CASE CaptureExits \/ CaptureFails
  <2>1. cap.state \in {"starting", "open", "last"} /\ \E ok \in BOOLEAN : Exited(ok)
    BY <1>0, <1>7, ZenonT(60) DEF CaptureExits, CaptureFails, Running, CapSet
  <2> QED
    BY <2>1, ExitKeepsCsv
<1>8. CASE HostStartsCapture
  <2>1. /\ cap.state = "none" /\ cap'.state = "starting" /\ cap'.sessions = cap.sessions
        /\ cap'.rows = cap.rows /\ cap'.replies = cap.replies /\ cap'.pending = cap.pending
    BY <1>0, <1>8 DEF HostStartsCapture, Phases, CapSet
  <2> QED
    BY <2>1 DEF CsvOrder
<1>9. CASE HostWaits
  <2>1. CASE UNCHANGED cap
    BY <1>9, <2>1 DEF HostWaits, deviceVars, CsvOrder
  <2>2. CASE Running(cap) /\ Exited(FALSE)
    BY <1>0, <2>2, ExitKeepsCsv, ZenonT(60) DEF Running, CapSet
  <2> QED
    BY <1>9, <2>1, <2>2, ZenonT(60) DEF HostWaits
<1>10. CASE HostStartsJtag \/ HostCleansJtag \/ HostOnly
  <2>1. cap' = cap /\ seen' = seen
    BY <1>10 DEF HostOnly, HostSeesJtagEnd, HostPads, HostRequestsStop, HostAdmits, HostFails,
                 HostCleansCapture, HostDies, Analyze, HostStartsJtag, HostCleansJtag, deviceVars
  <2> QED
    BY <2>1 DEF CsvOrder
<1> QED
  BY <1>1, <1>2, <1>3, <1>4, <1>5, <1>6, <1>7, <1>8, <1>9, <1>10 DEF Next, Capture, Host, HostOnly

----------------------------------------------------------------------------
(* The course of a campaign.                                               *)

\* The clock, and the times of the trials.
LEMMA TimeTypes ==
    ASSUME Types
    PROVE  /\ now \in Nat /\ cap.opened \in Nat /\ cap.closed \in Nat /\ jtag.begun \in Nat
           /\ jtag.trials \in Seq(TrialSet) /\ Len(jtag.trials) \in Nat
           /\ \A i \in 1 .. Len(jtag.trials) :
                 jtag.trials[i].begun \in Nat /\ jtag.trials[i].done \in Nat
<1>1. jtag.trials \in Seq(TrialSet)
  BY DEF Types, TypeJtag, JtagSet
<1>2. \A i \in 1 .. Len(jtag.trials) : jtag.trials[i] \in TrialSet
  BY <1>1, ElementOfSeq
<1> QED
  BY <1>1, <1>2, LenProperties, SMTT(30) DEF Types, TypeLine, TypeCap, CapSet, TypeJtag, JtagSet, TrialSet

\* A step that moves neither the runner nor the JTAG program, nor the capture
\* from one phase to another.
LEMMA CalmStep ==
    ASSUME Types, Course, host' = host, jtag' = jtag, now' \in {now, now + 1},
           cap'.state = cap.state, cap'.opened = cap.opened, cap'.closed = cap.closed,
           cap'.byFile = cap.byFile, cap.state = "exited" => cap' = cap
    PROVE  Course'
<1>1. Phases'
  BY DEF Course, Phases
<1>2. Times'
  BY TimeTypes DEF Course, Times
<1>3. Passed'
  BY DEF Course, Passed
<1>4. Cleaned'
  BY DEF Course, Cleaned, Running
<1>5. TrialsAreMetered'
  BY DEF Course, Passed, TrialsAreMetered
<1> QED
  BY <1>1, <1>2, <1>3, <1>4, <1>5 DEF Course

\* The capture ends, having failed or not.
LEMMA ExitCourse ==
    ASSUME Types, Course, Running(cap), NEW ok \in BOOLEAN, Exited(ok), jtag' = jtag,
           now' = now, host' = host
    PROVE  Course'
<1>1. /\ cap.state \in {"starting", "open", "last"} /\ cap'.state = "exited"
      /\ cap'.opened = cap.opened /\ cap'.closed = cap.closed /\ cap'.byFile = cap.byFile
  BY DEF Types, TypeCap, CapSet, Running, Exited
<1>2. host.status # "pass" /\ host.pc # "analysed"
  BY <1>1 DEF Course, Passed
<1>3. Phases'
  BY <1>1 DEF Course, Phases
<1>4. Times'
  BY <1>1 DEF Course, Times
<1>5. Passed' /\ TrialsAreMetered'
  BY <1>2 DEF Passed, TrialsAreMetered
<1>6. Cleaned'
  BY <1>1 DEF Course, Cleaned, Running
<1> QED
  BY <1>3, <1>4, <1>5, <1>6 DEF Course

\* Receive-Line never ends the capture.
LEMMA ParsedKeeps ==
    ASSUME TypeCap, NEW m \in LineSet
    PROVE  /\ Parsed(m).state = cap.state /\ Parsed(m).byFile = cap.byFile
           /\ Parsed(m).opened = cap.opened /\ Parsed(m).closed = cap.closed
<1>1. CASE m.kind = "start"
  BY <1>1 DEF Parsed, TypeCap, CapSet
<1>2. CASE m.kind = "header"
  BY <1>2 DEF Parsed, TypeCap, CapSet
<1>3. CASE m.kind = "row"
  BY <1>3, ZenonT(60) DEF Parsed, TypeCap, CapSet
<1>4. CASE m.kind = "sync"
  BY <1>4, ZenonT(60) DEF Parsed, TypeCap, CapSet
<1> QED
  BY <1>1, <1>2, <1>3, <1>4 DEF LineSet

\* Steps of the firmware and of the capture.
LEMMA CaptureCourse ==
    ASSUME Types, Course, Device \/ Capture
    PROVE  Course'
<1>0. cap \in CapSet /\ now \in Nat
  BY DEF Types, TypeCap, TypeLine
<1>1. CASE Device \/ PortDrops
  <2>1. host' = host /\ jtag' = jtag /\ cap' = cap /\ now' \in {now, now + 1}
    BY <1>1 DEF Device, DeviceSession, DeviceError, DeviceRow, DeviceReply, DeviceRestart, PortDrops
  <2> QED
    BY <2>1, CalmStep
<1>2. CASE CaptureOpen
  <2>1. /\ cap.state = "starting" /\ cap'.state = "open" /\ cap'.opened = now
        /\ cap'.byFile = cap.byFile /\ now' = now + 1 /\ host' = host /\ jtag' = jtag
        /\ ~host.stopFile
    BY <1>0, <1>2 DEF CaptureOpen, CapSet
  <2>2. /\ jtag.trials = <<>> /\ ~jtag.busy /\ ~cap.byFile /\ host.status # "pass"
        /\ host.pc # "analysed" /\ jtag.state = "none"
    BY <2>1 DEF Course, Phases, Passed
  <2>3. Phases'
    BY <2>1, <2>2 DEF Course, Phases
  <2>4. Times'
    <3>1. Len(jtag'.trials) = 0
      BY <2>1, <2>2
    <3> QED
      BY <1>0, <2>1, <2>2, <3>1 DEF Times
  <2>5. Passed' /\ TrialsAreMetered'
    BY <2>1, <2>2 DEF Passed, TrialsAreMetered
  <2>6. Cleaned'
    BY <2>1 DEF Course, Cleaned, Running
  <2> QED
    BY <2>3, <2>4, <2>5, <2>6 DEF Course
<1>3. CASE CaptureAsk
  <2>1. /\ host' = host /\ jtag' = jtag /\ now' = now /\ cap.state = "open" /\ cap'.state = "open"
        /\ cap'.opened = cap.opened /\ cap'.closed = cap.closed /\ cap'.byFile = cap.byFile
    BY <1>0, <1>3 DEF CaptureAsk, CapSet
  <2> QED
    BY <2>1, CalmStep
<1>4. CASE CaptureLine
  <2>1. /\ host' = host /\ jtag' = jtag /\ now' = now /\ cap.state \in {"open", "last"}
        /\ Head(wire) \in LineSet /\ cap' = Parsed(Head(wire))
    BY <1>4, HeadTailProperties DEF CaptureLine, Types, TypeLine
  <2>2. /\ cap'.state = cap.state /\ cap'.opened = cap.opened /\ cap'.closed = cap.closed
        /\ cap'.byFile = cap.byFile
    BY <1>0, <2>1, ParsedKeeps DEF Types
  <2> QED
    BY <2>1, <2>2, CalmStep
<1>5. CASE \E byFile \in BOOLEAN : CaptureStops(byFile)
  <2>1. PICK byFile \in BOOLEAN : CaptureStops(byFile)
    BY <1>5
  <2>2. /\ cap.state = "open" /\ cap'.state = "last" /\ cap'.opened = cap.opened
        /\ cap'.closed = now /\ cap'.byFile = byFile /\ now' = now + 1
        /\ host' = host /\ jtag' = jtag /\ (byFile => host.stopFile)
    BY <1>0, <2>1 DEF CaptureStops, CapSet
  <2>3. host.status # "pass" /\ host.pc # "analysed"
    BY <2>2 DEF Course, Passed
  <2>4. Phases'
    BY <2>2 DEF Course, Phases
  <2>5. Times'
    BY <2>2, TimeTypes DEF Course, Times
  <2>6. Passed' /\ TrialsAreMetered'
    BY <2>2, <2>3 DEF Passed, TrialsAreMetered
  <2>7. Cleaned'
    BY <2>2 DEF Course, Cleaned, Running
  <2> QED
    BY <2>4, <2>5, <2>6, <2>7 DEF Course
<1>6. CASE CaptureExits \/ CaptureFails
  <2>1. Running(cap) /\ (\E ok \in BOOLEAN : Exited(ok)) /\ jtag' = jtag /\ now' = now /\ host' = host
    BY <1>6, ZenonT(60) DEF CaptureExits, CaptureFails, Running
  <2> QED
    BY <2>1, ExitCourse
<1> QED
  BY <1>1, <1>2, <1>3, <1>4, <1>5, <1>6 DEF Capture

\* Steps of the JTAG program.
LEMMA JtagCourse ==
    ASSUME Types, Course, Jtag
    PROVE  Course'
<1>0. /\ jtag \in JtagSet /\ jtag.state = "running" /\ host' = host /\ cap' = cap
      /\ host.status # "pass" /\ host.pc # "analysed"
      /\ cap.state \notin {"none", "starting"} /\ cap.opened < now
      /\ host.pc \notin {"start", "ready", "padding", "request", "stop"}
  BY DEF Types, TypeJtag, Jtag, JtagLaunch, JtagCompletes, JtagExits, Course, Passed, Phases, Times
<1>1. Passed' /\ TrialsAreMetered'
  BY <1>0 DEF Passed, TrialsAreMetered
<1>2. ASSUME jtag'.state \in {"running", "exited"} PROVE Phases' /\ Cleaned'
  BY <1>0, <1>2 DEF Course, Phases, Cleaned, Running
<1>3. ~cap.byFile \/ host.pc \notin Early
  BY <1>0 DEF Course, Phases, Early
<1>4. CASE JtagLaunch
  <2>1. /\ jtag'.state = "running" /\ jtag'.begun = now /\ jtag'.trials = jtag.trials
        /\ now' = now + 1
    BY <1>0, <1>4 DEF JtagLaunch, JtagSet
  <2>2. Times'
    BY <1>0, <1>3, <2>1, TimeTypes DEF Course, Times
  <2> QED
    BY <1>1, <1>2, <2>1, <2>2 DEF Course
<1>5. CASE JtagCompletes
  <2> DEFINE e == [begun |-> jtag.begun, done |-> now]
  <2>1. /\ jtag'.state = "running" /\ jtag'.busy = FALSE /\ jtag.busy
        /\ jtag'.trials = Append(jtag.trials, e) /\ now' = now + 1
    BY <1>0, <1>5 DEF JtagCompletes, JtagSet
  <2>2. e \in TrialSet /\ e.begun = jtag.begun /\ e.done = now
    BY TimeTypes DEF TrialSet
  <2> HIDE DEF e
  <2>3. /\ Len(jtag'.trials) = Len(jtag.trials) + 1 /\ jtag'.trials[Len(jtag.trials) + 1] = e
        /\ \A i \in 1 .. Len(jtag.trials) : jtag'.trials[i] = jtag.trials[i]
    BY <2>1, <2>2, TimeTypes, AppendProperties
  <2>4. ASSUME NEW i \in 1 .. Len(jtag'.trials)
        PROVE  cap.opened < jtag'.trials[i].begun /\ jtag'.trials[i].done < now'
    <3>1. CASE i \in 1 .. Len(jtag.trials)
      BY <2>1, <2>3, <3>1, TimeTypes DEF Course, Times
    <3>2. CASE i = Len(jtag.trials) + 1
      BY <2>1, <2>2, <2>3, <3>2, TimeTypes DEF Course, Times
    <3> QED
      BY <2>3, <3>1, <3>2, TimeTypes
  <2>5. Times'
    BY <1>0, <1>3, <2>1, <2>4, TimeTypes DEF Times
  <2> QED
    BY <1>1, <1>2, <2>1, <2>5 DEF Course
<1>6. CASE \E code \in {0, 1} : JtagExits(code)
  <2>1. /\ jtag'.state = "exited" /\ jtag'.begun = jtag.begun /\ jtag'.trials = jtag.trials
        /\ jtag'.busy = jtag.busy /\ now' = now
    BY <1>0, <1>6 DEF JtagExits, JtagSet
  <2>2. Times'
    BY <1>0, <2>1 DEF Course, Times
  <2> QED
    BY <1>1, <1>2, <2>1, <2>2 DEF Course
<1> QED
  BY <1>4, <1>5, <1>6 DEF Jtag

\* The steps that start the two processes.
LEMMA StartCourse ==
    ASSUME Types, CsvOrder, Course, HostStartsCapture \/ HostStartsJtag
    PROVE  Course'
<1>0. cap \in CapSet /\ jtag \in JtagSet /\ host \in HostSet
  BY DEF Types, TypeCap, TypeJtag, TypeHost
<1>1. CASE HostStartsCapture
  <2>1. /\ host.pc = "start" /\ cap'.state = "starting" /\ cap'.opened = cap.opened
        /\ cap'.byFile = cap.byFile /\ jtag' = jtag /\ now' = now
        /\ host'.stopFile = host.stopFile /\ host'.errors = host.errors
        /\ \/ /\ host'.pc = "ready" /\ host'.status = host.status /\ host'.handles = {"capture"}
           \/ host'.pc = "clean_jtag" /\ host'.status = "failed" /\ host'.handles = {}
    BY <1>0, <1>1, ZenonT(60) DEF HostStartsCapture, Fail, CapSet, HostSet
  <2>2. /\ jtag.state = "none" /\ host.status = "starting" /\ ~host.errors /\ ~host.stopFile
        /\ ~cap.byFile /\ jtag.trials = <<>> /\ ~jtag.busy
    BY <2>1 DEF Course, Phases, Early
  <2>3. Phases'
    BY <2>1, <2>2 DEF Phases, Early
  <2>4. Times'
    BY <2>1, <2>2 DEF Course, Times
  <2>5. Passed' /\ Cleaned' /\ TrialsAreMetered'
    BY <2>1, <2>2 DEF Passed, Cleaned, TrialsAreMetered
  <2> QED
    BY <2>3, <2>4, <2>5 DEF Course
<1>2. CASE HostStartsJtag
  <2>1. /\ host.pc = "ready" /\ jtag'.state = "running" /\ jtag'.trials = jtag.trials
        /\ jtag'.busy = jtag.busy /\ jtag'.begun = jtag.begun /\ cap' = cap /\ now' = now
        /\ host'.stopFile = host.stopFile /\ host'.errors = host.errors
        /\ \/ host'.pc = "run" /\ host'.status = host.status
           \/ host'.pc = "clean_jtag" /\ host'.status = "failed"
    BY <1>0, <1>2, ZenonT(60) DEF HostStartsJtag, Fail, JtagSet, HostSet
  <2>2. cap.rows # {}
    BY <1>2 DEF HostStartsJtag, Ready
  <2>3. /\ host.status = "starting" /\ ~host.errors /\ ~host.stopFile /\ ~cap.byFile
    BY <2>1 DEF Course, Phases, Early
  <2>4. cap.state \notin {"none", "starting"}
    BY <2>2 DEF CsvOrder
  <2>5. Phases'
    BY <2>1, <2>3, <2>4 DEF Phases, Early
  <2>6. Times'
    BY <2>1, <2>3 DEF Course, Times
  <2>7. Passed' /\ Cleaned' /\ TrialsAreMetered'
    BY <2>1, <2>3 DEF Passed, Cleaned, TrialsAreMetered
  <2> QED
    BY <2>5, <2>6, <2>7 DEF Course
<1> QED
  BY <1>1, <1>2

\* The steps of a campaign that goes well, or fails.
LEMMA RunCourse ==
    ASSUME Types, Course, HostSeesJtagEnd \/ HostPads \/ HostRequestsStop \/ HostAdmits \/ HostFails
    PROVE  Course'
<1>0. host \in HostSet /\ cap' = cap /\ jtag' = jtag /\ now' = now /\ host.pc \in Early
  BY DEF Types, TypeHost, HostSeesJtagEnd, HostPads, HostRequestsStop, HostAdmits, HostFails, Early
<1>1. /\ host.status = "starting" /\ ~host.errors
  BY <1>0 DEF Course, Phases
<1>2. CASE HostSeesJtagEnd \/ HostPads \/ HostRequestsStop
  <2>1. /\ host'.status = host.status /\ host'.errors = host.errors /\ host'.handles = host.handles
        /\ \/ host.pc = "run" /\ jtag.state = "exited" /\ host'.pc = "padding" /\ host'.stopFile = host.stopFile
           \/ host.pc = "padding" /\ host'.pc = "request" /\ host'.stopFile = host.stopFile
           \/ host.pc = "request" /\ host'.pc = "stop" /\ host'.stopFile = TRUE
    BY <1>0, <1>2, ZenonT(60) DEF HostSeesJtagEnd, HostPads, HostRequestsStop, Goto, HostSet
  <2>2. Phases'
    BY <1>0, <1>1, <2>1 DEF Course, Phases, Early
  <2>3. Times'
    BY <1>0, <2>1 DEF Course, Times
  <2>4. Passed' /\ Cleaned' /\ TrialsAreMetered'
    BY <1>1, <2>1 DEF Passed, Cleaned, TrialsAreMetered
  <2> QED
    BY <2>2, <2>3, <2>4 DEF Course
<1>3. CASE HostAdmits
  <2>1. /\ host.pc = "stop" /\ host'.pc = "clean_jtag" /\ host'.status = "pass"
        /\ host'.errors = host.errors /\ host'.stopFile = host.stopFile
    BY <1>0, <1>3 DEF HostAdmits, HostSet
  <2>2. cap.state = "exited" /\ cap.byFile /\ cap.sessions = 1
    BY <1>3 DEF HostAdmits, Admissible
  <2>3. jtag.state = "exited"
    BY <2>1, SMTT(30) DEF Course, Phases
  <2>4. \A i \in 1 .. Len(jtag.trials) : jtag.trials[i].done < cap.closed
    BY <1>0, <2>2 DEF Course, Times
  <2>5. Phases'
    BY <1>0, <2>1, <2>2, <2>3 DEF Course, Phases, Early
  <2>6. Times'
    BY <1>0, <2>1 DEF Course, Times, Early
  <2>7. Passed'
    BY <1>0, <1>1, <2>1, <2>2, <2>3, <2>4 DEF Passed
  <2>8. Cleaned' /\ TrialsAreMetered'
    BY <1>1, <2>1 DEF Cleaned, TrialsAreMetered
  <2> QED
    BY <2>5, <2>6, <2>7, <2>8 DEF Course
<1>4. CASE HostFails
  <2>1. /\ host'.pc = "clean_jtag" /\ host'.status = "failed" /\ host'.errors = host.errors
        /\ host'.stopFile = host.stopFile
    BY <1>0, <1>4, SMTT(30) DEF HostFails, Fail, HostSet
  <2>2. Phases'
    BY <1>0, <2>1 DEF Course, Phases, Early
  <2>3. Times'
    BY <1>0, <2>1 DEF Course, Times, Early
  <2>4. Passed' /\ Cleaned' /\ TrialsAreMetered'
    BY <1>1, <2>1 DEF Passed, Cleaned, TrialsAreMetered
  <2> QED
    BY <2>2, <2>3, <2>4 DEF Course
<1> QED
  BY <1>2, <1>3, <1>4

\* Rows on both sides of a trial of an admitted capture are of one session.
LEMMA MeteredByBrackets ==
    ASSUME Types, CsvOrder, Course, HostDies \/ Analyze
    PROVE  TrialsAreMetered'
<1>0. host \in HostSet
  BY DEF Types, TypeHost
<1>1. CASE HostDies
  <2>1. host'.pc = "dead"
    BY <1>0, <1>1 DEF HostDies, Goto, HostSet
  <2> QED
    BY <2>1 DEF TrialsAreMetered
<1>2. CASE Analyze
  <2>1. cap' = cap /\ jtag' = jtag /\ host.status = "pass"
    BY <1>2 DEF Analyze
  <2>2. \A r, s \in cap.rows : r.inc = s.inc
    BY <2>1 DEF Course, Passed, CsvOrder
  <2>3. ASSUME NEW i \in 1 .. Len(jtag.trials)
        PROVE  \E r, s \in cap.rows : /\ r.inc = s.inc
                                      /\ r.at < jtag.trials[i].begun
                                      /\ jtag.trials[i].done < s.at
    <3>1. PICK r \in cap.rows : r.at < jtag.trials[i].begun
      BY <1>2 DEF Analyze
    <3>2. PICK s \in cap.rows : s.at > jtag.trials[i].done
      BY <1>2 DEF Analyze
    <3>3. s.at \in Nat /\ jtag.trials[i].done \in Nat
      BY TimeTypes, SMTT(30) DEF Types, TypeCap, CapSet
    <3>4. jtag.trials[i].done < s.at
      BY <3>2, <3>3
    <3> QED
      BY <2>2, <3>1, <3>4
  <2> QED
    BY <2>1, <2>3 DEF TrialsAreMetered
<1> QED
  BY <1>1, <1>2

\* The finally block, the death of the runner, and the analysis.
LEMMA EndCourse ==
    ASSUME Types, CsvOrder, Course, HostCleansJtag \/ HostCleansCapture \/ HostWaits \/ HostDies \/ Analyze
    PROVE  Course'
<1>0. host \in HostSet /\ cap \in CapSet /\ jtag \in JtagSet /\ now' = now
  BY ZenonT(60) DEF Types, TypeHost, TypeCap, TypeJtag, HostCleansJtag, HostCleansCapture, HostWaits, HostDies, Analyze
<1>1. CASE HostCleansJtag
  <2>1. /\ host.pc = "clean_jtag" /\ host'.pc = "clean_capture" /\ cap' = cap
        /\ host'.stopFile = host.stopFile /\ host'.handles = host.handles
    BY <1>0, <1>1, ZenonT(60) DEF HostCleansJtag, Goto, CleanupError, HostSet
  <2>2. \/ /\ Running(jtag) /\ jtag'.state = "exited" /\ jtag'.trials = jtag.trials
           /\ jtag'.busy = jtag.busy /\ jtag'.begun = jtag.begun
           /\ host'.status = host.status /\ host'.errors = host.errors
        \/ jtag' = jtag /\ Running(jtag) /\ host'.status = "failed" /\ host'.errors = TRUE
        \/ /\ ~("jtag" \in host.handles /\ Running(jtag)) /\ jtag' = jtag
           /\ host'.status = host.status /\ host'.errors = host.errors
    BY <1>0, <1>1, ZenonT(60) DEF HostCleansJtag, Goto, CleanupError, HostSet, JtagSet
  <2>3. Phases'
    BY <2>1, <2>2 DEF Course, Phases, Early, Running
  <2>4. Times'
    BY <1>0, <2>1, <2>2 DEF Course, Times, Early
  <2>5. Passed'
    BY <2>1, <2>2 DEF Course, Passed, Running
  <2>6. Cleaned'
    BY <2>1, <2>2 DEF Course, Cleaned, Running
  <2>7. TrialsAreMetered'
    BY <2>1 DEF TrialsAreMetered
  <2> QED
    BY <2>3, <2>4, <2>5, <2>6, <2>7 DEF Course
<1>2. CASE HostCleansCapture
  <2>1. /\ host.pc = "clean_capture" /\ cap' = cap /\ jtag' = jtag /\ host'.handles = host.handles
    BY <1>0, <1>2, ZenonT(60) DEF HostCleansCapture, Goto, CleanupError, HostSet
  <2>2. \/ /\ host'.pc = "clean_wait" /\ host'.stopFile = TRUE
           /\ host'.status = host.status /\ host'.errors = host.errors
        \/ /\ host'.pc = "done" /\ host'.stopFile = host.stopFile /\ Running(cap)
           /\ host'.status = "failed" /\ host'.errors = TRUE
        \/ /\ ~("capture" \in host.handles /\ Running(cap)) /\ host'.pc = "done"
           /\ host'.stopFile = host.stopFile /\ host'.status = host.status
           /\ host'.errors = host.errors
    BY <1>0, <1>2, ZenonT(60) DEF HostCleansCapture, Goto, CleanupError, HostSet
  <2>3. Phases'
    BY <2>1, <2>2 DEF Course, Phases, Early
  <2>4. Times'
    BY <1>0, <2>1, <2>2 DEF Course, Times, Early
  <2>5. Passed'
    BY <2>1, <2>2 DEF Course, Passed
  <2>6. Cleaned'
    BY <2>1, <2>2 DEF Course, Cleaned
  <2>7. TrialsAreMetered'
    BY <2>2 DEF TrialsAreMetered
  <2> QED
    BY <2>3, <2>4, <2>5, <2>6, <2>7 DEF Course
<1>3. CASE HostWaits
  <2>1. /\ host.pc = "clean_wait" /\ host'.pc = "done" /\ jtag' = jtag
        /\ host'.handles = host.handles /\ host'.stopFile = host.stopFile
    BY <1>0, <1>3, ZenonT(60) DEF HostWaits, Goto, CleanupError, HostSet
  <2>2. \/ /\ cap' = cap /\ ~Running(cap)
           /\ host'.status = host.status /\ host'.errors = host.errors
        \/ /\ Running(cap) /\ cap'.state = "exited" /\ cap'.opened = cap.opened
           /\ cap'.closed = cap.closed /\ cap'.byFile = cap.byFile
           /\ host'.status = host.status /\ host'.errors = host.errors
        \/ /\ cap' = cap /\ Running(cap) /\ host'.status = "failed" /\ host'.errors = TRUE
    BY <1>0, <1>3, ZenonT(60) DEF HostWaits, Exited, Goto, CleanupError, HostSet, CapSet
  <2>3. Phases'
    BY <2>1, <2>2 DEF Course, Phases, Early, Running
  <2>4. Times'
    BY <1>0, <2>1, <2>2 DEF Course, Times, Early
  <2>5. Passed'
    BY <2>1, <2>2 DEF Course, Passed, Running
  <2>6. Cleaned'
    BY <2>1, <2>2 DEF Course, Cleaned, Running
  <2>7. TrialsAreMetered'
    BY <2>1 DEF TrialsAreMetered
  <2> QED
    BY <2>3, <2>4, <2>5, <2>6, <2>7 DEF Course
<1>4. CASE HostDies \/ Analyze
  <2>1. /\ cap' = cap /\ jtag' = jtag /\ host'.status = host.status /\ host'.errors = host.errors
        /\ host'.stopFile = host.stopFile /\ host'.handles = host.handles
        /\ \/ host'.pc = "dead"
           \/ host'.pc = "analysed" /\ host.status = "pass"
    BY <1>0, <1>4, SMTT(30) DEF HostDies, Analyze, Goto, HostSet
  <2>2. Phases'
    BY <2>1 DEF Course, Phases, Early
  <2>3. Times'
    BY <1>0, <2>1 DEF Course, Times, Early
  <2>4. Passed'
    BY <2>1 DEF Course, Passed
  <2>5. Cleaned'
    BY <2>1 DEF Course, Cleaned
  <2>6. TrialsAreMetered'
    BY <1>4, <2>1, MeteredByBrackets
  <2> QED
    BY <2>2, <2>3, <2>4, <2>5, <2>6 DEF Course
<1> QED
  BY <1>1, <1>2, <1>3, <1>4

----------------------------------------------------------------------------
(* The theorems.                                                           *)

\* Before the runner starts, nothing is running and no line is on its way.
LEMMA InitInv == Init => IInv
<1> SUFFICES ASSUME Init PROVE IInv
  OBVIOUS
<1>1. TypeLine
  BY EmptySeq DEF Init, TypeLine, DevSet
<1>2. TypeCap /\ TypeHost
  BY DEF Init, NoCapture, NoHost, TypeCap, CapSet, TypeHost, HostSet, Pcs, Early
<1>3. TypeJtag
  BY EmptySeq DEF Init, NoJtag, TypeJtag, JtagSet
<1>4. Len(wire) = 0 /\ wire = <<>> /\ seen = 0 /\ dev.inc = 0
  BY DEF Init
<1>5. WireOrder
  BY <1>4, SMTT(30) DEF WireOrder, Ordered
<1>6. CsvOrder
  BY DEF Init, NoCapture, CsvOrder
<1>7. Phases /\ Passed /\ Cleaned /\ TrialsAreMetered
  BY SMTT(30) DEF Init, NoCapture, NoJtag, NoHost, Phases, Early, Passed, Cleaned, TrialsAreMetered
<1>8. Times
  BY DEF Init, NoCapture, NoJtag, NoHost, Times
<1> QED
  BY <1>1, <1>2, <1>3, <1>5, <1>6, <1>7, <1>8, SMTT(30) DEF IInv, Types, Course

\* Every step keeps the runner, the JTAG program and the capture in step.
LEMMA CourseKept ==
    ASSUME Types, CsvOrder, Course, [Next]_vars
    PROVE  Course'
<1>1. CASE UNCHANGED vars
  <2>1. host' = host /\ jtag' = jtag /\ cap' = cap /\ now' = now
    BY <1>1 DEF vars
  <2> QED
    BY <2>1, CalmStep
<1>2. CASE Host
  BY <1>2, StartCourse, RunCourse, EndCourse DEF Host
<1> QED
  BY <1>1, <1>2, CaptureCourse, JtagCourse DEF Next

\* Every step of the campaign keeps the inductive invariant.
LEMMA StepInv == IInv /\ [Next]_vars => IInv'
<1> SUFFICES ASSUME IInv, [Next]_vars PROVE IInv'
  OBVIOUS
<1>1. Types /\ WireOrder /\ CsvOrder /\ Course /\ Phases
  BY DEF IInv, Course
<1> QED
  BY <1>1, TypesKept, WireOrderKept, CsvOrderKept, CourseKept DEF IInv

\* The inductive invariant holds throughout a campaign.
LEMMA Inductive == Spec => []IInv
BY InitInv, StepInv, PTL DEF Spec

\* A capture that validate_capture admits is of one session of the firmware:
\* restarts, I/O errors, lost lines and equal session numbers do not mix two.
THEOREM AdmittedIsOneSession == Spec => []OneMeterSession
<1>1. IInv => OneMeterSession
  BY DEF IInv, CsvOrder, Course, Passed, OneMeterSession
<1> QED
  BY <1>1, Inductive, PTL

\* The analyzer's brackets around a trial are rows of one session, so that
\* their difference is energy of one baseline.
THEOREM TrialsMetered == Spec => []TrialsAreMetered
<1>1. IInv => TrialsAreMetered
  BY DEF IInv, Course
<1> QED
  BY <1>1, Inductive, PTL

\* The runner admits only captures that were open before the first trial and
\* that its own stop request, made after the last trial, has ended.
THEOREM CaptureSpans == Spec => []CaptureSpansTrials
<1>1. IInv => CaptureSpansTrials
  BY DEF IInv, Course, Passed, Times, CaptureSpansTrials
<1> QED
  BY <1>1, Inductive, PTL

\* The finally block of the runner ends both processes or records that it
\* could not.
THEOREM ChildrenEnded == Spec => []NoChildLeft
<1>1. IInv => NoChildLeft
  BY SMTT(30) DEF IInv, Course, Passed, Cleaned, NoChildLeft, Running
<1> QED
  BY <1>1, Inductive, PTL

----------------------------------------------------------------------------
(* The meter firmware of EnergyMeter.                                      *)

MeterNumbers ==
    /\ energy \in Nat /\ energy < Modulus
    /\ total \in Nat /\ since \in Nat /\ since < Modulus
    /\ baseline \in Nat /\ previous \in Nat /\ previous < Modulus /\ start \in Nat
MeterMarks == energyOf \in BOOLEAN /\ latched \in BOOLEAN /\ discontinuity \in BOOLEAN

\* What the register has counted since it was last read, wrapped at most once.
Counted ==
    pc \in {"flags", "energy"} =>
        energy = IF previous + since < Modulus THEN previous + since ELSE previous + since - Modulus

\* Up to that read, an undisturbed session has counted everything.
Complete ==
    pc \in {"flags", "energy"} /\ ~latched /\ ~discontinuity =>
        previous - baseline = total - since - start

MeterInv == MeterNumbers /\ MeterMarks /\ Counted /\ Complete /\ ValidRowIsTrue

\* Every read, wrap and error keeps the inductive invariant.
LEMMA MeterStep ==
    ASSUME Modulus \in Nat \ {0}, MeterInv, [MeterNext]_meterVars
    PROVE  MeterInv'
<1> USE DEF MeterInv, MeterNumbers, MeterMarks
<1>1. CASE Accumulate
  <2>1. PICK e \in Nat :
            /\ since + e < Modulus
            /\ energy' = IF energy + e < Modulus THEN energy + e ELSE energy + e - Modulus
            /\ energyOf' = (energyOf \/ energy + e >= Modulus)
            /\ total' = total + e /\ since' = since + e
            /\ UNCHANGED <<pc, session>>
    BY <1>1 DEF Accumulate
  <2>2. MeterNumbers' /\ MeterMarks'
    BY <2>1 DEF session
  <2>3. Counted'
    BY <2>1 DEF Counted, session
  <2>4. Complete'
    BY <2>1 DEF Complete, session
  <2> QED
    BY <2>1, <2>2, <2>3, <2>4 DEF ValidRowIsTrue, session
<1>2. CASE ResetAccumulators
  <2>1. /\ energy' = 0 /\ energyOf' = FALSE /\ since' = 0 /\ total' = total
        /\ pc' = "initial_flags" /\ UNCHANGED session
    BY <1>2 DEF ResetAccumulators
  <2>2. MeterNumbers' /\ MeterMarks'
    <3>1. MeterNumbers'
      BY <2>1 DEF session
    <3>2. MeterMarks'
      BY <2>1, ZenonT(60) DEF session
    <3> QED
      BY <3>1, <3>2
  <2>3. Counted' /\ Complete'
    BY <2>1 DEF Counted, Complete
  <2> QED
    BY <2>1, <2>2, <2>3 DEF session, ValidRowIsTrue
<1>3. CASE \E fault \in BOOLEAN : ReadFlags(fault)
  <2>1. MeterNumbers' /\ MeterMarks'
    BY <1>3 DEF ReadFlags, register
  <2>2. Counted' /\ Complete'
    BY <1>3 DEF ReadFlags, register, Counted, Complete
  <2> QED
    BY <1>3, <2>1, <2>2 DEF ReadFlags, ValidRowIsTrue
<1>4. CASE ReadBaseline
  <2>1. /\ baseline' = energy /\ previous' = energy /\ start' = total /\ energy' = energy
        /\ total' = total /\ since' = 0 /\ latched' = latched
    BY <1>4 DEF ReadBaseline
  <2>2. energyOf' = FALSE /\ discontinuity' = FALSE /\ row' = NoRow
    BY <1>4 DEF ReadBaseline
  <2>3. MeterNumbers'
    BY <2>1
  <2>4. MeterMarks'
    BY <2>1, <2>2, ZenonT(60)
  <2>5. Counted' /\ Complete'
    BY <2>1 DEF Counted, Complete
  <2>6. ValidRowIsTrue'
    BY <2>2 DEF NoRow, ValidRowIsTrue
  <2> QED
    BY <2>3, <2>4, <2>5, <2>6
<1>5. CASE ReadEnergy
  <2>1. /\ pc = "energy" /\ previous' = energy /\ energy' = energy /\ since' = 0
        /\ total' = total /\ baseline' = baseline /\ start' = start /\ latched' = latched
    BY <1>5 DEF ReadEnergy
  <2>2. MeterNumbers' /\ Counted' /\ MeterMarks'
    <3>1. MeterNumbers' /\ Counted'
      BY <2>1 DEF Counted
    <3>2. energyOf' \in BOOLEAN /\ discontinuity' \in BOOLEAN /\ latched' \in BOOLEAN
      BY <1>5, ZenonT(60) DEF ReadEnergy
    <3> QED
      BY <3>1, <3>2
  \* A wrap leaves the register below its last value, whatever became of the flag.
  <2>3. ~latched /\ ~discontinuity' => energy - baseline = total - start
    <3>1. discontinuity' = (discontinuity \/ energy < previous)
      BY <1>5 DEF ReadEnergy
    <3>2. ASSUME ~latched, ~discontinuity, ~(energy < previous)
          PROVE  energy - baseline = total - start
      <4>1. previous - baseline = total - since - start
        BY <2>1, <3>2 DEF Complete
      <4>2. energy = previous + since
        BY <2>1, <3>2 DEF Counted
      <4> QED
        BY <4>1, <4>2
    <3> QED
      BY <3>1, <3>2, ZenonT(60)
  <2>4. Complete'
    BY <2>1, <2>3 DEF Complete
  <2>5. row'.valid => ~latched /\ ~discontinuity'
    BY <1>5, ZenonT(60) DEF ReadEnergy
  <2>6. row'.delta = energy - baseline /\ row'.spent = total - start
    BY <1>5 DEF ReadEnergy
  <2>7. ValidRowIsTrue'
    BY <2>3, <2>5, <2>6 DEF ValidRowIsTrue
  <2> QED
    BY <2>2, <2>4, <2>7
<1>6. CASE IoError \/ UNCHANGED meterVars
  BY <1>6 DEF IoError, meterVars, register, session, Counted, Complete, ValidRowIsTrue
<1> QED
  BY <1>1, <1>2, <1>3, <1>4, <1>5, <1>6 DEF MeterNext

\* For every size of the register and every schedule of wraps and reads, a row
\* run_session marks valid carries the energy spent since the baseline.
THEOREM ValidRowsTrue ==
    ASSUME Modulus \in Nat \ {0}
    PROVE  MeterSpec => []ValidRowIsTrue
<1>1. MeterInit => MeterInv
  <2> SUFFICES ASSUME MeterInit PROVE MeterInv
    OBVIOUS
  <2>1. MeterNumbers /\ MeterMarks
    <3>1. energy \in Nat /\ energy < Modulus
      BY DEF MeterInit
    <3>2. MeterNumbers
      BY <3>1 DEF MeterInit, MeterNumbers
    <3>3. MeterMarks
      BY ZenonT(60) DEF MeterInit, MeterMarks
    <3> QED
      BY <3>2, <3>3
  <2>2. Counted /\ Complete /\ ValidRowIsTrue
    BY DEF MeterInit, NoRow, Counted, Complete, ValidRowIsTrue
  <2> QED
    BY <2>1, <2>2 DEF MeterInv
<1>2. MeterInv /\ [MeterNext]_meterVars => MeterInv'
  BY MeterStep
<1>3. MeterInv => ValidRowIsTrue
  BY DEF MeterInv
<1> QED
  BY <1>1, <1>2, <1>3, PTL DEF MeterSpec

\* After missed log times run_session waits for the first one still to come,
\* at most a period away.
THEOREM NextLogAhead ==
    ASSUME LogPeriod \in Nat \ {0}, NEW next \in Int, NEW finished \in Int
    PROVE  /\ NextLog(next, finished) > finished
           /\ NextLog(next, finished) <= finished + LogPeriod
              \/ NextLog(next, finished) = next + LogPeriod
<1> DEFINE slot == next + LogPeriod
           q == (finished - slot) \div LogPeriod
<1>1. CASE slot > finished
  BY <1>1 DEF NextLog
<1>2. CASE slot <= finished
  <2>1. q \in Int /\ q * LogPeriod <= finished - slot /\ finished - slot < q * LogPeriod + LogPeriod
    BY <1>2
  <2>2. NextLog(next, finished) = slot + (q + 1) * LogPeriod
    BY <1>2 DEF NextLog
  <2>3. (q + 1) * LogPeriod = q * LogPeriod + LogPeriod
    BY <2>1
  <2> QED
    BY <2>1, <2>2, <2>3
<1> QED
  BY <1>1, <1>2
============================================================================
