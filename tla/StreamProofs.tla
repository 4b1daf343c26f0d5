---------------------------- MODULE StreamProofs ----------------------------
(***************************************************************************)
(* Four components along the stream, each on its own and for every value   *)
(* of its constants: the registers of the threshold, the dual-clock FIFO   *)
(* of the audio path, the scheduler of the telemetry records, and the      *)
(* readers of a datagram.                                                  *)
(***************************************************************************)
EXTENDS ThresholdCommit, AsyncFifo, PacketScheduler, TelemetryPacket,
        SequenceTheorems, TLAPS

----------------------------------------------------------------------------
(* The scheduler.                                                          *)

SchedTypes ==
    /\ ctrl \in [enable : BOOLEAN, mask : SUBSET Sources, mode : SpecModes]
    /\ src \in [Sources -> [left : Nat, type : SpecModes \cup Sources \cup {NoSource},
                            via : SUBSET {"fifo", "shed"}]]
    /\ active \in Sources \cup {NoSource} /\ open \in Sources \cup {NoSource}
    /\ disabled \subseteq Sources /\ illegal \subseteq Sources

\* A record being shed has one reason, the owner of the output is sending and
\* is not shed, and the beats of a record went one way: to the FIFO when its
\* source is the owner, away when it is being shed.
OneWay ==
    /\ disabled \cap illegal = {}
    /\ \A s \in Draining : Valid(s)
    /\ active # NoSource => Valid(active) /\ active \notin Draining
    /\ \A s \in Sources : \/ src[s].via = {}
                          \/ src[s].via = {"fifo"} /\ s = active
                          \/ src[s].via = {"shed"} /\ s \in Draining
    /\ open # NoSource => active = open /\ src[open].via = {"fifo"}

SchedInv == SchedTypes /\ OneWay

\* No source is called "none".
LEMMA SourceNames == NoSource \notin Sources
  BY SchedulerConstants DEF Priority, NoSource

\* The arbiter chooses a source that may send.
LEMMA IdleSelLegal == IdleSel # NoSource => IdleSel \in Sources /\ Legal(IdleSel)
<1> DEFINE legal == {i \in DOMAIN Priority : Priority[i] \in Sources /\ Legal(Priority[i])}
<1> SUFFICES ASSUME IdleSel # NoSource
             PROVE  IdleSel \in Sources /\ Legal(IdleSel)
  OBVIOUS
<1>1. legal # {} /\ IdleSel = Priority[CHOOSE i \in legal : \A j \in legal : i <= j]
  BY DEF IdleSel
<1>2. legal \subseteq 1 .. 4
  BY DEF Priority
<1>3. \A i \in legal : Priority[i] \in Sources /\ Legal(Priority[i])
  OBVIOUS
<1> HIDE DEF legal
<1>4. \E i \in legal : \A j \in legal : i <= j
  <2>1. CASE 1 \in legal
    BY <1>2, <2>1
  <2>2. CASE 1 \notin legal /\ 2 \in legal
    BY <1>2, <2>2
  <2>3. CASE 1 \notin legal /\ 2 \notin legal /\ 3 \in legal
    BY <1>2, <2>3
  <2>4. CASE 1 \notin legal /\ 2 \notin legal /\ 3 \notin legal
    <3>1. \A i \in legal : i = 4
      BY <1>2, <2>4
    <3> QED
      BY <1>1, <3>1
  <2> QED
    BY <2>1, <2>2, <2>3, <2>4
<1>5. (CHOOSE i \in legal : \A j \in legal : i <= j) \in legal
  BY <1>4
<1> QED
  BY <1>1, <1>3, <1>5

\* The source at the output is sending and is neither shed nor about to be.
LEMMA SelSends ==
    ASSUME SchedInv
    PROVE  /\ Sel \in Sources \cup {NoSource}
           /\ Sel # NoSource => OutValid /\ Sel \notin Draining \cup DisabledStart \cup IllegalStart
           /\ active # NoSource => Sel = active
  BY SourceNames, IdleSelLegal
     DEF SchedInv, SchedTypes, OneWay, Sel, OutValid, Legal, Allowed, DisabledStart, IllegalStart

\* The parts of one cycle.
Accepted(r) == {s \in Sources : Valid(s) /\ Ready(s, r)}
Ended(r) == {s \in Accepted(r) : Last(s)}
Shedding == Draining \cup DisabledStart \cup IllegalStart

\* A source gives a beat to the FIFO or sheds it; which records end, and which
\* of those are dropped.
LEMMA CycleParts ==
    ASSUME SchedInv, NEW r \in BOOLEAN
    PROVE  /\ \A s \in Sources : s \in Accepted(r) <=>
                 \/ s \in Shedding /\ s # Sel
                 \/ s = Sel /\ r
           /\ Shedding \subseteq Sources /\ \A s \in Shedding : Valid(s)
           /\ Sel \notin Shedding
           /\ (disabled \cup DisabledStart) \cap (illegal \cup IllegalStart) = {}
           /\ {d[1] : d \in Drops(Ended(r))} = Ended(r) \cap Shedding
<1>1. Sel \notin Shedding
  BY SelSends, SourceNames
     DEF Shedding, SchedInv, SchedTypes, Draining, DisabledStart, IllegalStart
<1>2. Shedding \subseteq Sources /\ \A s \in Shedding : Valid(s)
  BY DEF SchedInv, SchedTypes, OneWay, Shedding, Draining, DisabledStart, IllegalStart
<1>3. \A s \in Sources : s \in Accepted(r) <=>
                 \/ s \in Shedding /\ s # Sel
                 \/ s = Sel /\ r
  BY <1>1, <1>2, SelSends, SourceNames DEF Accepted, Ready, Shedding, OutValid
<1>4. (disabled \cup DisabledStart) \cap (illegal \cup IllegalStart) = {}
  BY DEF SchedInv, OneWay, DisabledStart, IllegalStart, Draining
<1>5. {d[1] : d \in Drops(Ended(r))} = Ended(r) \cap Shedding
  <2>1. ASSUME NEW d \in Drops(Ended(r)) PROVE d[1] \in Ended(r) \cap Shedding
    BY <2>1 DEF Drops, Shedding, Draining
  <2>2. ASSUME NEW s \in Ended(r) \cap Shedding PROVE \E d \in Drops(Ended(r)) : d[1] = s
    <3>1. <<s, "disabled">> \in Drops(Ended(r)) \/ <<s, "illegal">> \in Drops(Ended(r))
      BY <2>2, Zenon DEF Drops, Shedding, Draining
    <3>2. <<s, "disabled">>[1] = s /\ <<s, "illegal">>[1] = s
      OBVIOUS
    <3> QED
      BY <3>1, <3>2, Zenon
  <2> QED
    BY <2>1, <2>2, Zenon
<1> QED
  BY <1>1, <1>2, <1>3, <1>4, <1>5


\* One cycle, for a source: a new record, or what became of the one it sends.
LEMMA CycleSource ==
    ASSUME SchedInv, NEW r \in BOOLEAN, NEW c \in Controls, NEW offer \in Offers,
           Cycle(r, c, offer), NEW s \in Sources
    PROVE  \/ \E n \in Nat \ {0}, t \in SpecModes \cup Sources :
                 ~Valid(s) /\ src'[s] = [left |-> n, type |-> t, via |-> {}]
           \/ /\ s \in Ended(r) /\ src'[s] = NoRecord
           \/ \E n \in Nat \ {0} :
                 /\ s \in Accepted(r) /\ s \notin Ended(r)
                 /\ src'[s] = [left |-> n, type |-> src[s].type,
                               via |-> src[s].via \cup {IF s = Sel THEN "fifo" ELSE "shed"}]
           \/ /\ s \notin Accepted(r) /\ src'[s] = src[s]
<1>1. PICK new \in SUBSET {t \in Sources : ~Valid(t) /\ Gate(t)} : offer \in [new -> Lengths]
  BY DEF Offers
<1>2. CASE s \in DOMAIN offer
  <2>1. offer[s] \in Nat \ {0} /\ ~Valid(s)
    BY <1>1, <1>2, SchedulerConstants
  <2>2. src'[s] = [left |-> offer[s], via |-> {},
                   type |-> IF s = "spec" THEN ctrl.mode ELSE s]
    BY <1>2, <2>1, ZenonT(60) DEF Cycle
  <2>3. ctrl.mode \in SpecModes
    BY SMTT(30) DEF SchedInv, SchedTypes
  <2> QED
    BY <1>2, <2>1, <2>2, <2>3, ZenonT(60)
<1>3. CASE s \notin DOMAIN offer /\ s \in Ended(r)
  BY <1>3, ZenonT(60) DEF Cycle, Accepted, Ended
<1>4. CASE s \notin DOMAIN offer /\ s \in Accepted(r) \ Ended(r)
  <2>1. src'[s] = [src[s] EXCEPT !.left = @ - 1,
                       !.via = @ \cup {IF OutValid /\ s = Sel THEN "fifo" ELSE "shed"}]
    BY <1>4, ZenonT(60) DEF Cycle, Accepted, Ended
  <2>2. src[s] \in [left : Nat, type : SpecModes \cup Sources \cup {NoSource},
                    via : SUBSET {"fifo", "shed"}]
    BY DEF SchedInv, SchedTypes
  <2>3. src[s].left > 1
    BY <1>4, <2>2 DEF Accepted, Ended, Valid, Last
  <2>4. s = Sel => OutValid
    BY SelSends, SourceNames
  <2>5. src'[s] = [left |-> src[s].left - 1, type |-> src[s].type,
                   via |-> src[s].via \cup {IF s = Sel THEN "fifo" ELSE "shed"}]
    BY <2>1, <2>2, <2>4, ZenonT(60)
  <2>6. src[s].left - 1 \in Nat \ {0}
    BY <2>2, <2>3
  <2> QED
    BY <1>4, <2>5, <2>6, ZenonT(60)
<1>5. CASE s \notin DOMAIN offer /\ s \notin Accepted(r)
  BY <1>5, ZenonT(60) DEF Cycle, Accepted, Ended
<1> QED
  BY <1>2, <1>3, <1>4, <1>5, ZenonT(60) DEF Ended

\* The same, for the fields that matter.
LEMMA CycleFields ==
    ASSUME SchedInv, NEW r \in BOOLEAN, NEW c \in Controls, NEW offer \in Offers,
           Cycle(r, c, offer), NEW s \in Sources
    PROVE  \/ ~Valid(s) /\ src'[s].left > 0 /\ src'[s].via = {}
           \/ s \in Ended(r) /\ src'[s].left = 0 /\ src'[s].via = {}
           \/ /\ s \in Accepted(r) /\ s \notin Ended(r) /\ src'[s].left > 0
              /\ src'[s].via = src[s].via \cup {IF s = Sel THEN "fifo" ELSE "shed"}
           \/ s \notin Accepted(r) /\ src'[s] = src[s]
<1>1. CASE \E n \in Nat \ {0}, t \in SpecModes \cup Sources :
                 ~Valid(s) /\ src'[s] = [left |-> n, type |-> t, via |-> {}]
  BY <1>1
<1>2. CASE s \in Ended(r) /\ src'[s] = NoRecord
  BY <1>2 DEF NoRecord
<1>3. CASE \E n \in Nat \ {0} :
                 /\ s \in Accepted(r) /\ s \notin Ended(r)
                 /\ src'[s] = [left |-> n, type |-> src[s].type,
                               via |-> src[s].via \cup {IF s = Sel THEN "fifo" ELSE "shed"}]
  <2>1. PICK n \in Nat \ {0} : src'[s] = [left |-> n, type |-> src[s].type,
                       via |-> src[s].via \cup {IF s = Sel THEN "fifo" ELSE "shed"}]
    BY <1>3
  <2>2. src'[s].left = n /\ src'[s].via = src[s].via \cup {IF s = Sel THEN "fifo" ELSE "shed"}
    BY <2>1
  <2> QED
    BY <1>3, <2>2
<1> QED
  BY <1>1, <1>2, <1>3, CycleSource, Zenon

\* Every behaviour starts idle.
LEMMA SchedStart == SchedulerInit => SchedInv
  BY DEF SchedulerInit, SchedInv, SchedTypes, OneWay, Draining, Valid, NoRecord, SpecModes

\* Every step keeps the invariant.
LEMMA SchedStep == SchedInv /\ [SchedulerNext]_schedulerVars => SchedInv'
<1> SUFFICES ASSUME SchedInv, [SchedulerNext]_schedulerVars PROVE SchedInv'
  OBVIOUS
<1>1. ASSUME NEW r \in BOOLEAN, NEW c \in Controls, NEW offer \in Offers, Cycle(r, c, offer)
      PROVE  SchedInv'
  <2>1. /\ disabled' = (disabled \cup DisabledStart) \ (Ended(r) \cap Shedding)
        /\ illegal' = (illegal \cup IllegalStart) \ (Ended(r) \cap Shedding)
    BY <1>1, CycleParts, ZenonT(60) DEF Cycle, Accepted, Ended
  <2>2. Draining' = Shedding \ Ended(r)
    BY <2>1, SMTT(30) DEF Draining, Shedding
  <2>3. active' = (IF Sel # NoSource /\ Sel \in Ended(r) THEN NoSource ELSE Sel)
    BY <1>1, CycleParts, SelSends, SourceNames, ZenonT(60) DEF Cycle, Ended, OutValid
  <2>4. open' = (IF Sel # NoSource /\ r THEN IF Sel \in Ended(r) THEN NoSource ELSE Sel
                                        ELSE open)
    BY <1>1, CycleParts, SelSends, SourceNames, ZenonT(60) DEF Cycle, Ended, OutValid
  <2>5. ctrl' \in [enable : BOOLEAN, mask : SUBSET Sources, mode : SpecModes]
    BY <1>1, ZenonT(60) DEF Cycle, Controls
  <2>6. \A s \in Sources : src[s] \in [left : Nat, via : SUBSET {"fifo", "shed"},
                                       type : SpecModes \cup Sources \cup {NoSource}]
    BY DEF SchedInv, SchedTypes
  <2>7. \A s \in Sources : src'[s] \in [left : Nat, via : SUBSET {"fifo", "shed"},
                                        type : SpecModes \cup Sources \cup {NoSource}]
    <3> SUFFICES ASSUME NEW s \in Sources
                 PROVE  src'[s] \in [left : Nat, via : SUBSET {"fifo", "shed"},
                                     type : SpecModes \cup Sources \cup {NoSource}]
      OBVIOUS
    <3>1. src[s] \in [left : Nat, via : SUBSET {"fifo", "shed"},
                      type : SpecModes \cup Sources \cup {NoSource}]
      BY <2>6
    <3>2. CASE \E n \in Nat \ {0}, t \in SpecModes \cup Sources :
                 ~Valid(s) /\ src'[s] = [left |-> n, type |-> t, via |-> {}]
      BY <3>2
    <3>3. CASE src'[s] = NoRecord
      BY <3>3 DEF NoRecord
    <3>4. CASE \E n \in Nat \ {0} :
                 src'[s] = [left |-> n, type |-> src[s].type,
                            via |-> src[s].via \cup {IF s = Sel THEN "fifo" ELSE "shed"}]
      BY <3>1, <3>4
    <3> QED
      BY <1>1, <3>1, <3>2, <3>3, <3>4, CycleSource, Zenon
  <2>8. src' \in [Sources -> [left : Nat, via : SUBSET {"fifo", "shed"},
                                type : SpecModes \cup Sources \cup {NoSource}]]
    <3> DEFINE E(s) ==
             CASE s \in DOMAIN offer ->
                    [left |-> offer[s], via |-> {},
                     type |-> IF s = "spec" THEN ctrl.mode ELSE s]
               [] s \in Ended(r) -> NoRecord
               [] s \in Accepted(r) \ Ended(r) ->
                    [src[s] EXCEPT !.left = @ - 1,
                       !.via = @ \cup {IF OutValid /\ s = Sel THEN "fifo" ELSE "shed"}]
               [] OTHER -> src[s]
    <3>1. src' = [s \in Sources |-> E(s)]
      BY <1>1, Zenon DEF Cycle, Accepted, Ended
    <3> HIDE DEF E
    <3> QED
      BY <2>7, <3>1
  <2>9. SchedTypes'
    <3>1. disabled' \subseteq Sources /\ illegal' \subseteq Sources
      BY <2>1 DEF SchedTypes, SchedInv, DisabledStart, IllegalStart
    <3>2. active' \in Sources \cup {NoSource} /\ open' \in Sources \cup {NoSource}
      BY <2>3, <2>4, SelSends DEF SchedTypes, SchedInv
    <3> QED
      BY <2>5, <2>8, <3>1, <3>2 DEF SchedTypes
  <2>10. \A s \in Sources : Valid(s) /\ s \notin Ended(r) => Valid(s)'
    <3> SUFFICES ASSUME NEW s \in Sources, Valid(s), s \notin Ended(r) PROVE src'[s].left > 0
      BY DEF Valid
    <3> QED
      BY <1>1, CycleFields DEF Valid
  <2>11. OneWay'
    <3>1. (disabled \cap illegal = {})'
      BY <2>1, CycleParts
    <3>2. (\A s \in Draining : Valid(s))'
      BY <2>2, <2>10, CycleParts
    <3>3. (active # NoSource => Valid(active) /\ active \notin Draining)'
      BY <2>2, <2>3, <2>10, SelSends, CycleParts DEF OutValid
    <3>4. ASSUME NEW s \in Sources
          PROVE  (\/ src[s].via = {}
                  \/ src[s].via = {"fifo"} /\ s = active
                  \/ src[s].via = {"shed"} /\ s \in Draining)'
      <4>0. \/ src[s].via = {}
            \/ src[s].via = {"fifo"} /\ s = active
            \/ src[s].via = {"shed"} /\ s \in Draining
        BY DEF SchedInv, OneWay
      <4>1. CASE src'[s].via = {}
        BY <4>1
      <4>2. CASE /\ s \in Accepted(r) /\ s \notin Ended(r)
                 /\ src'[s].via = src[s].via \cup {IF s = Sel THEN "fifo" ELSE "shed"}
        <5>1. CASE s = Sel
          <6>1. src[s].via = {} \/ src[s].via = {"fifo"}
            BY <4>0, <5>1, SelSends, SourceNames
          <6> QED
            BY <2>3, <4>2, <5>1, <6>1
        <5>2. CASE s # Sel
          <6>1. s \in Shedding /\ (src[s].via = {} \/ src[s].via = {"shed"})
            BY <4>0, <4>2, <5>2, CycleParts, SelSends, SourceNames
          <6> QED
            BY <2>2, <4>2, <5>2, <6>1
        <5> QED
          BY <5>1, <5>2
      <4>3. CASE s \notin Accepted(r) /\ src'[s] = src[s]
        <5>1. s \in Draining => s \in Shedding /\ s # Sel
          BY CycleParts DEF Shedding
        <5>2. s = active => s = Sel /\ s = active'
          BY <2>3, <4>3, SelSends, SourceNames DEF Ended
        <5> QED
          BY <4>0, <4>3, <5>1, <5>2, CycleParts
      <4>4. \/ src'[s].via = {}
            \/ /\ s \in Accepted(r) /\ s \notin Ended(r)
               /\ src'[s].via = src[s].via \cup {IF s = Sel THEN "fifo" ELSE "shed"}
            \/ s \notin Accepted(r) /\ src'[s] = src[s]
        BY <1>1, CycleFields, Zenon
      <4> QED
        BY <4>1, <4>2, <4>3, <4>4
    <3>5. (open # NoSource => active = open /\ src[open].via = {"fifo"})'
      <4> SUFFICES ASSUME open' # NoSource
                   PROVE  active' = open' /\ src'[open'].via = {"fifo"}
        OBVIOUS
      <4>1. open' = Sel /\ open' \in Sources /\ active' = open' /\ Sel \notin Ended(r)
        BY <2>3, <2>4, SelSends, CycleParts, SourceNames
           DEF SchedInv, SchedTypes, OneWay, Ended
      <4>2. CASE r
        <5>1. Sel \in Accepted(r) /\ Sel \in Sources
          BY <4>1, <4>2, CycleParts, ZenonT(60)
        <5>2. src'[Sel].via = src[Sel].via \cup {"fifo"}
          BY <1>1, <4>1, <5>1, CycleFields DEF Accepted
        <5>3. src[Sel].via = {} \/ src[Sel].via = {"fifo"}
          BY <5>1, SelSends, SourceNames DEF SchedInv, OneWay
        <5> QED
          BY <4>1, <5>2, <5>3
      <4>3. CASE ~r
        <5>1. Sel \notin Accepted(r) /\ Sel \in Sources /\ open' = open
          BY <2>4, <4>1, <4>3, CycleParts
        <5>2. src'[Sel] = src[Sel]
          <6>1. Valid(Sel)
            BY <4>1, <5>1, SelSends, SourceNames DEF OutValid
          <6> QED
            BY <1>1, <5>1, <6>1, CycleSource, Zenon DEF Ended
        <5> QED
          BY <4>1, <5>1, <5>2 DEF SchedInv, OneWay
      <4> QED
        BY <4>2, <4>3
    <3> QED
      BY <3>1, <3>2, <3>3, <3>4, <3>5 DEF OneWay
  <2> QED
    BY <2>9, <2>11 DEF SchedInv
<1>2. CASE FormatterReset
  BY <1>2 DEF FormatterReset, SchedInv, SchedTypes, OneWay, Draining, Valid, NoRecord
<1>3. CASE UNCHANGED schedulerVars
  BY <1>3, Zenon DEF schedulerVars, SchedInv, SchedTypes, OneWay, Draining, Valid
<1> QED
  BY <1>1, <1>2, <1>3, ZenonT(60) DEF SchedulerNext, Tick

\* Whatever the gates, the FIFO and the other packetizers do, the FIFO sees whole
\* records: trecap_packet_scheduler.sv neither mixes two nor sheds the rest of
\* one it has begun to forward.
THEOREM RecordsStayWhole == SchedulerSpec => []RecordsWhole
<1>2. SchedInv => RecordsWhole
  BY DEF SchedInv, OneWay, RecordsWhole
<1> QED
  BY <1>2, SchedStart, SchedStep, PTL DEF SchedulerSpec

\* The drop events account for the records: one event, for one reason, in the
\* cycle in which the last beat of a record is shed, and no other.
THEOREM ShedReported == SchedulerSpec => ShedIffReported
<1> DEFINE events(s) == {d \in drops' : d[1] = s}
           ends(s) == Valid(s) /\ src'[s].left = 0
           fwd(s) == OutValid /\ s = Sel
<1>1. ASSUME SchedInv, NEW r \in BOOLEAN, NEW c \in Controls, NEW offer \in Offers,
             Cycle(r, c, offer), NEW s \in Sources
      PROVE  IF ends(s) /\ ~fwd(s) THEN \E why \in Reasons : events(s) = {<<s, why>>}
             ELSE events(s) = {}
  <2>1. drops' = {<<t, "disabled">> : t \in Ended(r) \cap (disabled \cup DisabledStart)}
                   \cup {<<t, "illegal">> : t \in Ended(r) \cap (illegal \cup IllegalStart)}
    BY <1>1, Zenon DEF Cycle, Drops, Ended, Accepted
  <2>2. ends(s) <=> s \in Ended(r)
    BY <1>1, CycleFields DEF Ended, Accepted, Valid
  <2>3. s \in Ended(r) /\ ~fwd(s) => s \in Shedding
    BY <1>1, CycleParts, SelSends, SourceNames DEF Ended
  <2>4. fwd(s) => s \notin Shedding
    BY <1>1, CycleParts
  <2>5. (disabled \cup DisabledStart) \cap (illegal \cup IllegalStart) = {}
    BY <1>1, CycleParts
  <2>6. \A t, k : <<t, k>>[1] = t
    OBVIOUS
  <2>7. CASE s \in Ended(r) /\ s \in disabled \cup DisabledStart
    <3>1. events(s) = {<<s, "disabled">>}
      <4>1. <<s, "disabled">> \in events(s)
        BY <2>1, <2>6, <2>7, Zenon
      <4>2. ASSUME NEW d \in events(s) PROVE d = <<s, "disabled">>
        BY <2>1, <2>5, <2>6, <2>7, <4>2, Zenon
      <4> QED
        BY <4>1, <4>2, Zenon
    <3> QED
      BY <2>2, <2>4, <2>7, <3>1 DEF Shedding, Draining, Reasons
  <2>8. CASE s \in Ended(r) /\ s \in illegal \cup IllegalStart
    <3>1. events(s) = {<<s, "illegal">>}
      <4>1. <<s, "illegal">> \in events(s)
        BY <2>1, <2>6, <2>8, Zenon
      <4>2. ASSUME NEW d \in events(s) PROVE d = <<s, "illegal">>
        <5>1. s \notin disabled \cup DisabledStart /\ d[1] = s /\ d \in drops'
          BY <2>5, <2>8, <4>2
        <5>2. d \notin {<<t, "disabled">> : t \in Ended(r) \cap (disabled \cup DisabledStart)}
          BY <2>6, <5>1, Zenon
        <5> QED
          BY <2>1, <2>6, <5>1, <5>2, Zenon
      <4> QED
        BY <4>1, <4>2, Zenon
    <3> QED
      BY <2>2, <2>4, <2>8, <3>1 DEF Shedding, Draining, Reasons
  <2>9. CASE ~(s \in Ended(r) /\ s \in Shedding)
    <3>1. events(s) = {}
      BY <2>1, <2>6, <2>9, Zenon DEF Shedding, Draining
    <3> QED
      BY <2>2, <2>3, <2>9, <3>1
  <2> QED
    BY <2>7, <2>8, <2>9 DEF Shedding, Draining
<1>2. SchedInv /\ [SchedulerNext]_schedulerVars =>
        [~FormatterReset => \A s \in Sources :
            IF ends(s) /\ ~fwd(s) THEN \E why \in Reasons : events(s) = {<<s, why>>}
            ELSE events(s) = {}]_schedulerVars
  BY <1>1, ZenonT(60) DEF SchedulerNext, Tick
<1> QED
  BY <1>2, SchedStart, SchedStep, PTL DEF SchedulerSpec, ShedIffReported

----------------------------------------------------------------------------
(* The dual-clock FIFO.                                                    *)

Sized == Depth \in Nat \ {0} /\ Stages \in Nat \ {0}

----------------------------------------------------------------------------
(* Arithmetic on the circle of pointers.                                   *)

\* The pointer n places after p.
Plus(p, n) == IF p + n >= 2 * Depth THEN p + n - 2 * Depth ELSE p + n

\* Distances, and what moving either end does to them.
LEMMA Distance ==
    ASSUME Sized, NEW a \in Pointers, NEW b \in Pointers
    PROVE  /\ Used(a, b) \in Nat /\ Used(a, b) \in 0 .. 2 * Depth - 1 /\ Inc(a) \in Pointers
           /\ Used(a, b) < Depth => Used(a, Inc(b)) = Used(a, b) + 1
           /\ Used(a, b) > 0 => Used(Inc(a), b) = Used(a, b) - 1
           /\ (Used(a, b) = 0 <=> a = b) /\ (Used(a, b) = Depth <=> b = Opposite(a))
           /\ Plus(a, Used(a, b)) = b
BY DEF Sized, Pointers, Used, Inc, Opposite, Plus

\* Places, and the words they share an address with.
LEMMA Place ==
    ASSUME Sized, NEW a \in Pointers, NEW n \in 0 .. Depth
    PROVE  /\ Addr(a) \in 0 .. Depth - 1 /\ Plus(a, n) \in Pointers /\ Plus(a, 0) = a
           /\ n > 0 => Plus(Inc(a), n - 1) = Plus(a, n)
           /\ \A m \in 0 .. n : m < n /\ n < Depth => Addr(Plus(a, m)) # Addr(Plus(a, n))
BY DEF Sized, Pointers, Inc, Plus, Addr

----------------------------------------------------------------------------
(* The inductive invariant.                                                *)

Typed(w, r, rs, ws, m, q) ==
    /\ w \in Pointers /\ r \in Pointers
    /\ rs \in [1 .. Stages -> Pointers] /\ ws \in [1 .. Stages -> Pointers]
    /\ m \in [0 .. Depth - 1 -> Data] /\ q \in Seq(Data)

\* The write side believes the reader is where it is or behind, and the older
\* the stage the further behind, yet never more than a turn of the memory.
ReaderSeen(w, r, rs) ==
    /\ Used(r, w) <= Depth
    /\ \A s \in 1 .. Stages : Used(r, w) <= Used(rs[s], w) /\ Used(rs[s], w) <= Depth
    /\ \A s, t \in 1 .. Stages : s <= t => Used(rs[s], w) <= Used(rs[t], w)

\* The read side believes the writer is where it is or behind, but not behind
\* the reader.
WriterSeen(w, r, ws) ==
    /\ \A s \in 1 .. Stages : Used(r, ws[s]) <= Used(r, w)
    /\ \A s, t \in 1 .. Stages : s <= t => Used(r, ws[t]) <= Used(r, ws[s])

\* The words between the pointers are the ones accepted and not yet taken.
Held(w, r, m, q) ==
    /\ Len(q) = Used(r, w)
    /\ \A i \in 1 .. Len(q) : q[i] = m[Addr(Plus(r, i - 1))]

Good(w, r, rs, ws, m, q) ==
    /\ Typed(w, r, rs, ws, m, q) /\ ReaderSeen(w, r, rs) /\ WriterSeen(w, r, ws)
    /\ Held(w, r, m, q)

IInv == Good(wr, rd, rdSync, wrSync, mem, queue)

----------------------------------------------------------------------------
(* The parts of a step.                                                    *)

\* A chain after an edge holds what the stage before held.
LEMMA Chain ==
    ASSUME Sized, NEW c \in [1 .. Stages -> Pointers], NEW p \in Pointers
    PROVE  /\ Shifted(c, p) \in [1 .. Stages -> Pointers]
           /\ \A s \in 1 .. Stages :
                 \/ s = 1 /\ Shifted(c, p)[s] = p
                 \/ s > 1 /\ s - 1 \in 1 .. Stages /\ Shifted(c, p)[s] = c[s - 1]
BY DEF Sized, Shifted

\* The write side's chain moves on.
LEMMA WriteShift ==
    ASSUME Sized, NEW w, NEW r, NEW rs, NEW ws, NEW m, NEW q, Good(w, r, rs, ws, m, q)
    PROVE  Good(w, r, Shifted(rs, r), ws, m, q)
<1>0. /\ Typed(w, r, rs, ws, m, q) /\ ReaderSeen(w, r, rs)
      /\ w \in Pointers /\ r \in Pointers /\ rs \in [1 .. Stages -> Pointers]
  BY DEF Good, Typed
<1> DEFINE c == Shifted(rs, r)
<1>1. /\ c \in [1 .. Stages -> Pointers]
      /\ \A s \in 1 .. Stages :
            \/ s = 1 /\ c[s] = r
            \/ s > 1 /\ s - 1 \in 1 .. Stages /\ c[s] = rs[s - 1]
  BY <1>0, Chain, ZenonT(60)
<1>2. Used(r, w) \in Nat
  BY <1>0, Distance, ZenonT(60)
<1> HIDE DEF c
<1>3. ASSUME NEW s \in 1 .. Stages
      PROVE  Used(r, w) <= Used(c[s], w) /\ Used(c[s], w) <= Depth
  BY <1>0, <1>1, <1>2 DEF ReaderSeen
<1>4. ASSUME NEW s \in 1 .. Stages, NEW t \in 1 .. Stages, s <= t
      PROVE  Used(c[s], w) <= Used(c[t], w)
  <2>1. CASE s = 1
    BY <1>1, <1>3, <2>1
  <2>2. CASE s > 1
    <3>1. t > 1 /\ s - 1 <= t - 1
      BY <1>4, <2>2
    <3> QED
      BY <1>0, <1>1, <2>2, <3>1 DEF ReaderSeen
  <2> QED
    BY <2>1, <2>2
<1>5. ReaderSeen(w, r, c)
  BY <1>0, <1>3, <1>4 DEF ReaderSeen
<1>6. Good(w, r, c, ws, m, q)
  BY <1>1, <1>5 DEF Good, Typed
<1> QED
  BY <1>6 DEF c

\* The read side's chain moves on.
LEMMA ReadShift ==
    ASSUME Sized, NEW w, NEW r, NEW rs, NEW ws, NEW m, NEW q, Good(w, r, rs, ws, m, q)
    PROVE  Good(w, r, rs, Shifted(ws, w), m, q)
<1>0. /\ Typed(w, r, rs, ws, m, q) /\ WriterSeen(w, r, ws)
      /\ w \in Pointers /\ r \in Pointers /\ ws \in [1 .. Stages -> Pointers]
  BY DEF Good, Typed
<1> DEFINE c == Shifted(ws, w)
<1>1. /\ c \in [1 .. Stages -> Pointers]
      /\ \A s \in 1 .. Stages :
            \/ s = 1 /\ c[s] = w
            \/ s > 1 /\ s - 1 \in 1 .. Stages /\ c[s] = ws[s - 1]
  BY <1>0, Chain, ZenonT(60)
<1>2. Used(r, w) \in Nat
  BY <1>0, Distance, ZenonT(60)
<1> HIDE DEF c
<1>3. ASSUME NEW s \in 1 .. Stages
      PROVE  Used(r, c[s]) <= Used(r, w)
  BY <1>0, <1>1, <1>2 DEF WriterSeen
<1>4. ASSUME NEW s \in 1 .. Stages, NEW t \in 1 .. Stages, s <= t
      PROVE  Used(r, c[t]) <= Used(r, c[s])
  <2>1. CASE s = 1
    BY <1>1, <1>3, <2>1
  <2>2. CASE s > 1
    <3>1. t > 1 /\ s - 1 <= t - 1
      BY <1>4, <2>2
    <3> QED
      BY <1>0, <1>1, <2>2, <3>1 DEF WriterSeen
  <2> QED
    BY <2>1, <2>2
<1>5. WriterSeen(w, r, c)
  BY <1>3, <1>4 DEF WriterSeen
<1>6. Good(w, r, rs, c, m, q)
  BY <1>1, <1>5 DEF Good, Typed
<1> QED
  BY <1>6 DEF c

\* A word is accepted: the FIFO is not full, even in the oldest view.
LEMMA Push ==
    ASSUME Sized, NEW w, NEW r, NEW rs, NEW ws, NEW m, NEW q, Good(w, r, rs, ws, m, q),
           w # Opposite(rs[Stages]), NEW d \in Data
    PROVE  Good(Inc(w), r, rs, ws, [m EXCEPT ![Addr(w)] = d], Append(q, d))
<1>0. Typed(w, r, rs, ws, m, q) /\ ReaderSeen(w, r, rs) /\ WriterSeen(w, r, ws) /\ Held(w, r, m, q)
  BY DEF Good
<1>1. /\ w \in Pointers /\ r \in Pointers /\ Stages \in 1 .. Stages /\ Depth \in Nat
      /\ \A s \in 1 .. Stages : rs[s] \in Pointers /\ ws[s] \in Pointers
  BY <1>0 DEF Sized, Typed
<1>2. Used(rs[Stages], w) # Depth /\ Used(rs[Stages], w) \in Int
  BY <1>1, Distance
<1>3. \A s \in 1 .. Stages : Used(rs[s], w) \in Int /\ Used(rs[s], w) < Depth
  <2>1. ASSUME NEW s \in 1 .. Stages
        PROVE  Used(rs[s], w) \in Int /\ Used(rs[s], w) < Depth
    <3>1. s <= Stages /\ Used(rs[s], w) \in Int
      BY <1>1, Distance, SMTT(30)
    <3>2. Used(rs[s], w) <= Used(rs[Stages], w) /\ Used(rs[Stages], w) <= Depth
      BY <1>0, <1>1, <3>1 DEF ReaderSeen
    <3> QED
      BY <1>1, <1>2, <3>1, <3>2
  <2> QED
    BY <2>1, SMTT(30)
<1>4. Used(r, w) \in Nat /\ Used(r, w) < Depth
  <2>1. Used(r, w) <= Used(rs[Stages], w) /\ Used(r, w) \in 0 .. 2 * Depth - 1
    BY <1>0, <1>1, Distance DEF ReaderSeen
  <2> QED
    BY <1>1, <1>3, <2>1
<1>5. Used(r, Inc(w)) = Used(r, w) + 1 /\ Inc(w) \in Pointers
  BY <1>1, <1>4, Distance, ZenonT(60)
<1>6. \A s \in 1 .. Stages : Used(rs[s], Inc(w)) = Used(rs[s], w) + 1
  BY <1>1, <1>3, Distance, ZenonT(60)
<1>7. ReaderSeen(Inc(w), r, rs)
  BY <1>0, <1>1, <1>3, <1>4, <1>5, <1>6 DEF ReaderSeen
<1>8. WriterSeen(Inc(w), r, ws)
  <2>1. \A s \in 1 .. Stages : Used(r, ws[s]) \in Nat
    BY <1>1, Distance, ZenonT(60)
  <2> QED
    BY <1>0, <1>4, <1>5, <2>1 DEF WriterSeen
<1> DEFINE n == [m EXCEPT ![Addr(w)] = d]
           p == Append(q, d)
<1>9. Addr(w) \in 0 .. Depth - 1 /\ Plus(r, Used(r, w)) = w
  BY <1>1, Place, Distance
<1>10. n \in [0 .. Depth - 1 -> Data] /\ n[Addr(w)] = d
       /\ \A x \in 0 .. Depth - 1 : x # Addr(w) => n[x] = m[x]
  BY <1>0, <1>9 DEF Typed
<1>11. /\ p \in Seq(Data) /\ Len(p) = Len(q) + 1 /\ p[Len(q) + 1] = d
       /\ \A i \in 1 .. Len(q) : p[i] = q[i]
  BY <1>0, AppendProperties DEF Typed
<1> HIDE DEF n, p
<1>12. Len(q) = Used(r, w)
  BY <1>0, SMTT(30) DEF Held
<1>13. ASSUME NEW i \in 1 .. Len(p)
       PROVE  p[i] = n[Addr(Plus(r, i - 1))]
  <2>1. CASE i = Len(q) + 1
    BY <1>4, <1>9, <1>10, <1>11, <1>12, <2>1
  <2>2. CASE i \in 1 .. Len(q)
    <3>1. i - 1 \in 0 .. Used(r, w) /\ i - 1 < Used(r, w) /\ Used(r, w) \in 0 .. Depth
          /\ i - 1 \in 0 .. Depth
      BY <1>1, <1>4, <1>12, <2>2
    <3>2. Addr(Plus(r, i - 1)) # Addr(w)
      BY <1>1, <1>4, <1>9, <3>1, Place
    <3>3. Plus(r, i - 1) \in Pointers
      BY <1>1, <3>1, Place
    <3>4. Addr(Plus(r, i - 1)) \in 0 .. Depth - 1
      BY <3>3, Place DEF Sized
    <3>5. q[i] = m[Addr(Plus(r, i - 1))]
      BY <1>0, <2>2, SMTT(30) DEF Held
    <3> QED
      BY <1>10, <1>11, <2>2, <3>2, <3>4, <3>5
  <2> QED
    BY <1>4, <1>11, <1>12, <2>1, <2>2
<1>14. Held(Inc(w), r, n, p)
  BY <1>5, <1>11, <1>12, <1>13 DEF Held
<1>15. Good(Inc(w), r, rs, ws, n, p)
  BY <1>0, <1>5, <1>7, <1>8, <1>10, <1>11, <1>14 DEF Good, Typed
<1> QED
  BY <1>15 DEF n, p

\* A word is taken: the FIFO is not empty, even in the oldest view.
LEMMA Pop ==
    ASSUME Sized, NEW w, NEW r, NEW rs, NEW ws, NEW m, NEW q, Good(w, r, rs, ws, m, q),
           r # ws[Stages]
    PROVE  Good(w, Inc(r), rs, ws, m, Tail(q)) /\ q # <<>> /\ m[Addr(r)] = Head(q)
<1>0. Typed(w, r, rs, ws, m, q) /\ ReaderSeen(w, r, rs) /\ WriterSeen(w, r, ws) /\ Held(w, r, m, q)
  BY DEF Good
<1>1. /\ w \in Pointers /\ r \in Pointers /\ Stages \in 1 .. Stages /\ Depth \in Nat
      /\ \A s \in 1 .. Stages : rs[s] \in Pointers /\ ws[s] \in Pointers
  BY <1>0 DEF Sized, Typed
<1>2. Used(r, ws[Stages]) > 0
  <2>1. Used(r, ws[Stages]) \in 0 .. 2 * Depth - 1 /\ Used(r, ws[Stages]) # 0
    BY <1>1, Distance, ZenonT(60)
  <2> QED
    BY <1>1, <2>1
<1>3. \A s \in 1 .. Stages : Used(r, ws[s]) \in Int /\ Used(r, ws[s]) > 0
  <2>1. ASSUME NEW s \in 1 .. Stages
        PROVE  Used(r, ws[s]) \in Int /\ Used(r, ws[s]) > 0
    <3>1. Used(r, ws[s]) \in Nat /\ Used(r, ws[Stages]) \in Nat
      BY <1>1, Distance, ZenonT(60)
    <3>2. s <= Stages
      BY <1>1
    <3>3. Used(r, ws[Stages]) <= Used(r, ws[s])
      BY <1>0, <1>1, <3>2 DEF WriterSeen
    <3> QED
      BY <1>2, <3>1, <3>3
  <2> QED
    BY <2>1
<1>4. Used(r, w) \in Nat /\ Used(r, w) > 0 /\ Used(r, w) <= Depth
  <2>1. /\ Used(r, ws[Stages]) <= Used(r, w) /\ Used(r, w) <= Depth
        /\ Used(r, w) \in 0 .. 2 * Depth - 1
    BY <1>0, <1>1, Distance, ZenonT(60) DEF WriterSeen, ReaderSeen
  <2> QED
    BY <1>1, <1>3, <2>1, SMTT(30)
<1>5. Used(Inc(r), w) = Used(r, w) - 1 /\ Inc(r) \in Pointers
  BY <1>1, <1>4, Distance
<1>6. \A s \in 1 .. Stages : Used(Inc(r), ws[s]) = Used(r, ws[s]) - 1
  BY <1>1, <1>3, Distance
<1>7. ReaderSeen(w, Inc(r), rs)
  <2>1. \A s \in 1 .. Stages : Used(rs[s], w) \in Nat
    BY <1>1, Distance, ZenonT(60)
  <2> QED
    BY <1>0, <1>1, <1>4, <1>5, <2>1 DEF ReaderSeen
<1>8. WriterSeen(w, Inc(r), ws)
  BY <1>0, <1>3, <1>4, <1>5, <1>6 DEF WriterSeen
<1>9. Len(q) = Used(r, w) /\ q \in Seq(Data)
  BY <1>0 DEF Held, Typed
<1>10. q # <<>>
  BY <1>4, <1>9, EmptySeq
<1>11. /\ Tail(q) \in Seq(Data) /\ Len(Tail(q)) = Len(q) - 1 /\ Head(q) = q[1]
       /\ \A i \in 1 .. Len(q) - 1 : Tail(q)[i] = q[i + 1]
  BY <1>9, <1>10, HeadTailProperties, SMTT(30)
<1>12. ASSUME NEW i \in 1 .. Len(Tail(q))
       PROVE  Tail(q)[i] = m[Addr(Plus(Inc(r), i - 1))]
  <2>1. i + 1 \in 1 .. Len(q) /\ i \in 1 .. Len(q) - 1 /\ i \in 0 .. Depth /\ i > 0
    BY <1>1, <1>4, <1>9, <1>11
  <2>2. Tail(q)[i] = q[i + 1] /\ q[i + 1] = m[Addr(Plus(r, (i + 1) - 1))] /\ (i + 1) - 1 = i
    BY <1>0, <1>11, <2>1 DEF Held
  <2>3. Plus(Inc(r), i - 1) = Plus(r, i)
    BY <1>1, <2>1, Place
  <2> QED
    BY <2>2, <2>3
<1>13. Held(w, Inc(r), m, Tail(q))
  BY <1>4, <1>5, <1>9, <1>11, <1>12 DEF Held
<1>14. m[Addr(r)] = Head(q)
  <2>1. 1 \in 1 .. Len(q) /\ 1 - 1 = 0 /\ 0 \in 0 .. Depth
    BY <1>1, <1>4, <1>9
  <2>2. q[1] = m[Addr(Plus(r, 1 - 1))]
    BY <1>0, <2>1 DEF Held
  <2>3. Plus(r, 0) = r
    BY <1>1, <2>1, Place
  <2> QED
    BY <1>11, <2>1, <2>2, <2>3, SMTT(30)
<1> QED
  BY <1>0, <1>5, <1>7, <1>8, <1>10, <1>11, <1>13, <1>14 DEF Good, Typed

----------------------------------------------------------------------------
(* The theorems.                                                           *)

\* Nothing held, both pointers at the start.
LEMMA Empties ==
    ASSUME Sized, NEW m \in [0 .. Depth - 1 -> Data]
    PROVE  Good(0, 0, Zeros, Zeros, m, <<>>)
<1>1. 0 \in Pointers /\ Used(0, 0) = 0 /\ Zeros \in [1 .. Stages -> Pointers]
      /\ \A s \in 1 .. Stages : Zeros[s] = 0
  BY DEF Sized, Pointers, Used, Zeros
<1>2. Len(<<>>) = 0 /\ <<>> \in Seq(Data)
  OBVIOUS
<1> QED
  BY <1>1, <1>2 DEF Sized, Good, Typed, ReaderSeen, WriterSeen, Held

\* The FIFO starts in reset and empty.
LEMMA InitInv ==
    ASSUME Sized, FifoInit
    PROVE  IInv
BY Empties DEF FifoInit, IInv

\* Both clock edges, a reset and its release keep the inductive invariant.
LEMMA StepInv ==
    ASSUME Sized, IInv, [FifoNext]_fifoVars
    PROVE  IInv'
<1>1. ASSUME NEW valid \in BOOLEAN, NEW d \in Data, WriteEdge(valid, d)
      PROVE  IInv'
  <2>1. CASE valid /\ ~Full
    <3>1. Good(Inc(wr), rd, rdSync, wrSync, [mem EXCEPT ![Addr(wr)] = d], Append(queue, d))
      BY <2>1, Push DEF IInv, Full
    <3>2. Good(Inc(wr), rd, Shifted(rdSync, rd), wrSync, [mem EXCEPT ![Addr(wr)] = d], Append(queue, d))
      BY <3>1, WriteShift
    <3> QED
      BY <1>1, <2>1, <3>2, ZenonT(60) DEF WriteEdge, IInv
  <2>2. CASE ~(valid /\ ~Full)
    <3>1. Good(wr, rd, Shifted(rdSync, rd), wrSync, mem, queue)
      BY WriteShift DEF IInv
    <3> QED
      BY <1>1, <2>2, <3>1 DEF WriteEdge, IInv
  <2> QED
    BY <2>1, <2>2
<1>2. ASSUME NEW ready \in BOOLEAN, ReadEdge(ready)
      PROVE  IInv'
  <2>1. CASE ready /\ ~Empty
    <3>1. Good(wr, Inc(rd), rdSync, wrSync, mem, Tail(queue))
      BY <2>1, Pop DEF IInv, Empty
    <3>2. Good(wr, Inc(rd), rdSync, Shifted(wrSync, wr), mem, Tail(queue))
      BY <3>1, ReadShift
    <3> QED
      BY <1>2, <2>1, <3>2, ZenonT(60) DEF ReadEdge, IInv
  <2>2. CASE ~(ready /\ ~Empty)
    <3>1. Good(wr, rd, rdSync, Shifted(wrSync, wr), mem, queue)
      BY ReadShift DEF IInv
    <3> QED
      BY <1>2, <2>2, <3>1 DEF ReadEdge, IInv
  <2> QED
    BY <2>1, <2>2
<1>3. CASE Reset
  <2>1. mem \in [0 .. Depth - 1 -> Data]
    BY DEF IInv, Good, Typed
  <2> QED
    BY <1>3, <2>1, Empties DEF Reset, IInv
<1>4. CASE UNCHANGED fifoVars \/ \E side \in {"write", "read"} : Release(side)
  BY <1>4 DEF fifoVars, Release, IInv
<1> QED
  BY <1>1, <1>2, <1>3, <1>4 DEF FifoNext

\* The inductive invariant always holds.
LEMMA Inductive ==
    ASSUME Sized
    PROVE  FifoSpec => []IInv
<1>1. FifoInit => IInv
  BY InitInv
<1>2. IInv /\ [FifoNext]_fifoVars => IInv'
  BY StepInv
<1> QED
  BY <1>1, <1>2, PTL DEF FifoSpec

\* out_valid_o and out_data_o: a word is shown only when there is one, and it
\* is the oldest accepted.
THEOREM OldestFirst ==
    ASSUME Sized
    PROVE  FifoSpec => []WordIsOldest
<1>1. IInv => WordIsOldest
  BY Pop, ZenonT(60) DEF IInv, Empty, WordIsOldest
<1> QED
  BY <1>1, Inductive, PTL

\* wr_level_o never understates, and rd_level_o never overstates, what the
\* FIFO holds, which is never more than its depth.
THEOREM LevelsSafe ==
    ASSUME Sized
    PROVE  FifoSpec => []LevelsBound
<1>1. IInv => LevelsBound
  <2>1. Stages \in 1 .. Stages
    BY DEF Sized
  <2> QED
    BY <2>1 DEF IInv, Good, ReaderSeen, WriterSeen, Held, LevelsBound
<1> QED
  BY <1>1, Inductive, PTL

\* wr_full and rd_empty become exact when nothing moves.
THEOREM FlagsSettle ==
    ASSUME Sized
    PROVE  FifoSpec => []FlagsExact
<1>1. IInv => FlagsExact
  <2> SUFFICES ASSUME IInv, \A s \in 1 .. Stages : rdSync[s] = rd /\ wrSync[s] = wr
               PROVE  (Full <=> Len(queue) = Depth) /\ (Empty <=> queue = <<>>)
    BY DEF FlagsExact
  <2>1. /\ rdSync[Stages] = rd /\ wrSync[Stages] = wr /\ rd \in Pointers /\ wr \in Pointers
        /\ Len(queue) = Used(rd, wr) /\ queue \in Seq(Data)
    BY DEF Sized, IInv, Good, Typed, Held
  <2>2. /\ Used(rd, wr) = Depth <=> wr = Opposite(rd)
        /\ Used(rd, wr) = 0 <=> rd = wr
    BY <2>1, Distance
  <2>3. queue = <<>> <=> Len(queue) = 0
    BY <2>1, EmptySeq
  <2> QED
    BY <2>1, <2>2, <2>3 DEF Full, Empty
<1> QED
  BY <1>1, Inductive, PTL

----------------------------------------------------------------------------
(* The threshold the core computes with.                                   *)

\* Thresholds somebody asked for, or the one of the power-on reset.
Asked == Requests \cup {ResetValue}

ThresholdTypes ==
    /\ bank \in [shadow : Thresholds, active : Asked, value : Asked,
                 pending : BOOLEAN, cancelled : BOOLEAN]
    /\ hps \in [proc : Procedures, step : Steps, want : Asked,
                mirror : Asked, locked : BOOLEAN]

\* A commit is pending only where the streamer waits for it, after it gave
\* up, and until the soft reset that cancels it.
PendingWhere ==
    bank.pending => \/ hps.step \in {"poll", "off", "reset"}
                    \/ hps.step = "idle" /\ hps.locked

\* The halves already stored are the wanted ones.
HalvesInPlace ==
    /\ At("hi") => bank.shadow[1] = hps.want[1]
    /\ At("commit") => bank.shadow = hps.want
    /\ At("poll") => /\ bank.shadow = hps.want
                     /\ bank.pending => bank.value = hps.want
                     /\ ~bank.pending => bank.active = hps.want
    /\ At("verify") => bank.shadow = hps.want /\ bank.active = hps.want

\* Outside start-up and outside the three stores, the shadow register, which
\* the commands read back, tells what is or will be active.
Settled ==
    \/ hps.step \in {"idle", "rearm", "check", "read", "rest", "poll", "verify"}
    \/ At("reset") /\ hps.proc # "start"
ShadowTells ==
    Settled => /\ bank.pending => bank.value = bank.shadow
               /\ ~bank.pending => bank.shadow = bank.active \/ bank.cancelled

\* Which procedure is at which step, and what RESET_TRANSPORT wants.
ProcAt ==
    /\ hps.step \in {"idle", "rearm", "check", "read", "rest", "verify"} =>
         hps.proc # "start"
    /\ hps.proc = "reset" => hps.want = hps.mirror

\* The threshold the bridge reports, once it serves or is about to.
MirrorTells ==
    Serving \/ At("rest") => hps.mirror = bank.active \/ bank.cancelled

TInv == /\ ThresholdTypes /\ PendingWhere /\ HalvesInPlace /\ ShadowTells /\ ProcAt
        /\ MirrorTells

\* The registers and the bridge start in agreement.
LEMMA InitTInv == Init => TInv
  BY ThresholdConstants
  DEF Init, TInv, ThresholdTypes, PendingWhere, HalvesInPlace, ShadowTells, Settled,
      ProcAt, MirrorTells, Serving, At, Asked, ResetValue, Thresholds,
      Procedures, Steps

\* The threshold a procedure wants to write is one the register can hold.
LEMMA WantFits ==
    ASSUME ThresholdTypes
    PROVE  hps.want \in Thresholds
  BY ThresholdConstants, SMTT(30) DEF ThresholdTypes, Asked, ResetValue, Thresholds

\* Every register access, frame boundary, reset and kill keeps the inductive invariant.
LEMMA NextTInv == TInv /\ [Next]_vars => TInv'
<1> SUFFICES ASSUME TInv, [Next]_vars PROVE TInv'
  OBVIOUS
<1> USE DEF TInv, ThresholdTypes, PendingWhere, HalvesInPlace, ShadowTells, Settled,
            ProcAt, MirrorTells, Serving, At, Procedures, Steps
<1>1. ASSUME Boundary PROVE TInv'
  BY <1>1, ZenonT(60) DEF Boundary
<1>2. ASSUME NEW v \in Requests, Start(v) PROVE TInv'
  BY <1>2, ThresholdConstants, ZenonT(60) DEF Start, Asked
<1>3. ASSUME NEW v \in Requests, SetThr2(v) PROVE TInv'
  BY <1>3, ThresholdConstants, ZenonT(60) DEF SetThr2, Asked
<1>4. ASSUME ResetTransport PROVE TInv'
  BY <1>4, ZenonT(60) DEF ResetTransport
<1>5. ASSUME PulseReset PROVE TInv'
  BY <1>5, ThresholdConstants, ZenonT(60) DEF PulseReset, SoftReset, Goto, Asked
<1>6. ASSUME ResetFails PROVE TInv'
  BY <1>6, ZenonT(60) DEF ResetFails, FailClosed, Idle
<1>7. ASSUME RearmReplay PROVE TInv'
  BY <1>7 DEF RearmReplay, Goto
<1>8. ASSUME CheckPending PROVE TInv'
  BY <1>8 DEF CheckPending, Goto, Idle
<1>9. ASSUME ReadShadow PROVE TInv'
  BY <1>9, ZenonT(60) DEF ReadShadow, ThresholdDone, Goto, Idle
<1>10. ASSUME StoreLo PROVE TInv'
  <2>1. ~bank.pending /\ hps.want \in Thresholds
    BY <1>10, WantFits DEF StoreLo
  <2>2. /\ bank' = [bank EXCEPT !.shadow = [bank.shadow EXCEPT ![1] = hps.want[1]]]
        /\ hps' = [hps EXCEPT !.step = "hi"]
    BY <1>10, <2>1 DEF StoreLo, WriteLo, Goto
  <2>3. bank'.shadow \in Thresholds /\ bank'.shadow[1] = hps.want[1]
    BY <2>1, <2>2 DEF Thresholds
  <2> QED
    BY <1>10, <2>1, <2>2, <2>3 DEF StoreLo
<1>11. ASSUME StoreHi PROVE TInv'
  <2>1. ~bank.pending /\ hps.want \in Thresholds
    BY <1>11, WantFits DEF StoreHi
  <2>2. /\ bank' = [bank EXCEPT !.shadow = [bank.shadow EXCEPT ![2] = hps.want[2]]]
        /\ hps' = [hps EXCEPT !.step = "commit"]
    BY <1>11, <2>1 DEF StoreHi, WriteHi, Goto
  <2>3. bank'.shadow \in Thresholds /\ bank'.shadow = hps.want
    BY <1>11, <2>1, <2>2 DEF Thresholds, StoreHi
  <2> QED
    BY <1>11, <2>1, <2>2, <2>3 DEF StoreHi
<1>12. ASSUME StoreCommit PROVE TInv'
  BY <1>12, ZenonT(60) DEF StoreCommit, Commit, Goto
<1>13. ASSUME PollDone PROVE TInv'
  BY <1>13, ZenonT(60) DEF PollDone, ThresholdDone, Goto, Idle
<1>14. ASSUME PollTimeout PROVE TInv'
  <2>1. bank.pending /\ At("poll") /\ UNCHANGED bank
    BY <1>14 DEF PollTimeout
  <2>2. CASE hps.proc = "start"
    <3>1. hps' = [hps EXCEPT !.proc = "none", !.step = "off"]
      BY <1>14, <2>2 DEF PollTimeout
    <3> QED
      BY <2>1, <3>1, ZenonT(60)
  <2>3. CASE hps.proc # "start"
    <3>1. hps' = [hps EXCEPT !.proc = "none", !.step = "idle",
                             !.mirror = hps.mirror, !.locked = TRUE]
      BY <1>14, <2>3 DEF PollTimeout, FailClosed, Idle
    <3> QED
      BY <2>1, <3>1, ZenonT(60)
  <2> QED
    BY <2>2, <2>3
<1>15. ASSUME Verify PROVE TInv'
  BY <1>15, ZenonT(60) DEF Verify, ThresholdDone, FailClosed, Goto, Idle
<1>16. ASSUME ResetDone PROVE TInv'
  BY <1>16, ZenonT(60) DEF ResetDone, Idle
<1>17. ASSUME OtherFailure PROVE TInv'
  BY <1>17, ZenonT(60) DEF OtherFailure, FailClosed, Idle
<1>18. ASSUME Kill PROVE TInv'
  BY <1>18, ZenonT(60) DEF Kill
<1>19. ASSUME UNCHANGED vars PROVE TInv'
  BY <1>19 DEF vars
<1> QED
  BY <1>1, <1>2, <1>3, <1>4, <1>5, <1>6, <1>7, <1>8, <1>9, <1>10, <1>11, <1>12, <1>13, <1>14, <1>15, <1>16, <1>17, <1>18, <1>19, ZenonT(60) DEF Next

\* The inductive invariant always holds.
LEMMA AlwaysTInv == Spec => []TInv
<1>1. Init => TInv
  BY InitTInv
<1>2. TInv /\ [Next]_vars => TInv'
  BY NextTInv
<1> QED
  BY <1>1, <1>2, PTL DEF Spec

\* Stores, silent refusals, frame boundaries, resets, timeouts and kills of
\* trecap_csr_shadow_commit.sv and command_bridge.c in any order: the core
\* never uses a threshold mixed from two requests.
THEOREM ThresholdWhole == Spec => []NoTornThreshold
<1>1. TInv => NoTornThreshold
  BY DEF TInv, ThresholdTypes, NoTornThreshold, Asked
<1> QED
  BY <1>1, AlwaysTInv, PTL

\* While the bridge serves commands, the threshold it has recorded is the one
\* the core uses, unless RESET_TRANSPORT's soft reset dropped a commit.
THEOREM MirrorTrue == Spec => []MirrorIsActiveUnlessCancelled
<1>1. TInv => MirrorIsActiveUnlessCancelled
  BY SMTT(30) DEF TInv, MirrorTells, MirrorIsActiveUnlessCancelled
<1> QED
  BY <1>1, AlwaysTInv, PTL

----------------------------------------------------------------------------
(* The readers of a datagram.                                              *)

\* A record that passes the content checks of the ring reader
\* (trecap_ring_validate_record_header) parses in the dashboard, in the smoke
\* receiver and in the triage tool: none of them reports an error or raises.
THEOREM ForwardedIsRead ==
    ASSUME NEW p \in Packets, Forwarded(p)
    PROVE  /\ ParserVerdict(p) = "ok"
           /\ SmokeVerdict(p) = "ok"
           /\ CaptureVerdict(p) = "ok"
           /\ Participates(p)
<1> USE DEF Forwarded, ReaderForwards, ReaderFlags, ReaderSize, ReaderPayload,
            Forwardable, HeaderBytes, UdpMax, ShiftMax, Exact, Packets
<1>1. /\ p.type \in Forwardable
      /\ p.len = HeaderBytes + p.payload /\ p.payload \in Nat /\ p.count \in Nat
      /\ p.shift \in Nat
  BY SMTT(30)
<1>2. RuleFits(p)
  BY DEF RuleFits
<1>3. ~Diagnostic(p)
  BY SMTT(30) DEF Diagnostic
<1>4. ParserHeader(p)
  BY <1>1 DEF ParserHeader
<1>5. ToolHeader(p)
  BY <1>1, SMTT(30) DEF ToolHeader
<1>6. p.type = "METRICS" => MetricsFlags(p)
  BY SMTT(30)
<1>7. ParserPayload(p)
  <2>1. CASE p.type = "WAVE"
    BY <2>1, SMTT(30) DEF ParserPayload
  <2>2. CASE p.type \in {"SPEC129", "SPEC64"}
    <3>1. p.shift \in 0 .. ShiftMax /\ p.stamped
      BY <1>1, <2>2
    <3>2. CASE p.type = "SPEC129"
      <4>1. p.count = 129 /\ p.clean
        BY <3>2
      <4> QED
        BY <3>1, <3>2, <4>1 DEF ParserPayload
    <3>3. CASE p.type = "SPEC64"
      BY <3>1, <3>3 DEF ParserPayload
    <3> QED
      BY <2>2, <3>2, <3>3
  <2>3. CASE p.type = "METRICS"
    BY <1>6, <2>3 DEF ParserPayload
  <2>4. CASE p.type = "STATUS"
    BY <1>3, <2>4 DEF ParserPayload
  <2> QED
    BY <1>1, <2>1, <2>2, <2>3, <2>4
<1>8. ToolPayload(p)
  BY <1>1, <1>2, <1>6, SMTT(30) DEF ToolPayload
<1>9. ParserVerdict(p) = "ok"
  BY <1>2, <1>4, <1>7 DEF ParserVerdict
<1>10. SmokeVerdict(p) = "ok"
  BY <1>1, <1>5, <1>8 DEF SmokeVerdict
<1>11. CaptureVerdict(p) = "ok"
  BY <1>5, <1>8 DEF CaptureVerdict
<1> QED
  BY <1>3, <1>9, <1>10, <1>11 DEF Participates

\* The diagnostic STATUS the HPS answers a PING with
\* (trecap_status_build_diagnostic) is the one the command client waits for;
\* a receiver that meets it takes it and leaves it out of the sequence.
THEOREM DiagnosticIsRead ==
    ASSUME NEW p \in Packets, DiagnosticReply(p)
    PROVE  /\ ClientTakes(p)
           /\ ParserVerdict(p) = "ok"
           /\ SmokeVerdict(p) = "ok"
           /\ CaptureVerdict(p) = "ok"
           /\ ~Participates(p)
  BY DEF DiagnosticReply, ClientTakes, ParserVerdict, SmokeVerdict,
         CaptureVerdict, Participates, Diagnostic, ParserHeader, RuleFits,
         ParserPayload, ToolHeader, ToolPayload, Exact, HeaderBytes, UdpMax,
         Packets

\* A PING answer and a forwarded record are never taken for each other: the
\* flags of a ring record rule the diagnostic bit out.
THEOREM AnswersAreNotRecords ==
    ASSUME NEW p \in Packets, ClientTakes(p)
    PROVE  ~Forwarded(p)
  BY DEF ClientTakes, Forwarded, ReaderForwards, ReaderFlags

\* A capture the dashboard can replay passes the bring-up tools: the parser
\* of the dashboard (TelemetryPacketParser) is the strictest of the three.
THEOREM ParserIsStrictest ==
    ASSUME NEW p \in Packets, ParserVerdict(p) = "ok"
    PROVE  SmokeVerdict(p) = "ok" /\ CaptureVerdict(p) = "ok"
<1>1. ParserHeader(p) /\ RuleFits(p) /\ ParserPayload(p)
  BY DEF ParserVerdict
<1>2. p.type = "WAVE" => p.count \in 1 .. 192
  BY DEF ParserVerdict
<1>3. /\ p.type \in {"WAVE", "SPEC129", "SPEC64", "METRICS", "STATUS"}
      /\ p.payload \in Nat /\ p.len = HeaderBytes + p.payload
  BY <1>1 DEF ParserHeader, RuleFits, Packets
<1>4. ToolHeader(p)
  BY <1>1, <1>3 DEF ParserHeader, ToolHeader, HeaderBytes
<1>5. ToolPayload(p)
  BY <1>1, <1>2, <1>3, ZenonT(60) DEF ParserPayload, ToolPayload
<1>6. ~(p.type = "SPEC129" /\ p.payload \in 12 .. 286)
  BY <1>1 DEF RuleFits, Exact
<1> QED
  BY <1>3, <1>4, <1>5, <1>6 DEF SmokeVerdict, CaptureVerdict
=============================================================================
