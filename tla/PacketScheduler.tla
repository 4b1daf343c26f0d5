--------------------------- MODULE PacketScheduler ---------------------------
(***************************************************************************)
(* The record scheduler between the four telemetry packetizers and the     *)
(* packet FIFO (trecap_packet_scheduler.sv, wired in                       *)
(* trecap_telemetry_top.sv).  A packetizer offers one record at a time,    *)
(* beat by beat, and never takes an offered record back.  The scheduler    *)
(* forwards records of admitted sources by fixed priority and swallows     *)
(* ("sheds") records of sources that are gated off or whose packet type    *)
(* does not match the selected spectrum mode.                              *)
(*                                                                         *)
(* One step is one clock cycle.  Beats carry no data: a source is the      *)
(* number of beats its record still has.                                   *)
(***************************************************************************)
EXTENDS Integers, Sequences

CONSTANTS Sources,      \* the packetizers present
          Lengths       \* numbers of beats a record can have

Priority == <<"status", "metrics", "spec", "wave">>
NoSource == "none"
SpecModes == {"off", "spec64", "spec129"}

ASSUME SchedulerConstants ==
    /\ Sources \subseteq {Priority[i] : i \in DOMAIN Priority}
    /\ Lengths \subseteq Nat \ {0}

VARIABLES
    ctrl,       \* telemetry_admit_enable, PACKET_ENABLE, SPEC_MODE
    src,        \* per packetizer: beats left, packet type; "via" is not in the
                \* code: where the accepted beats of the record have gone
    active,     \* active_q and active_sel_q
    disabled,   \* disabled_drain_q
    illegal,    \* illegal_drain_q
    drops,      \* the drop events of the last cycle
    open        \* not in the code: the source of the record of which the
                \* FIFO has a first but not yet the last beat

schedulerVars == <<ctrl, src, active, disabled, illegal, drops, open>>

NoRecord == [left |-> 0, type |-> NoSource, via |-> {}]
Reasons == {"disabled", "illegal"}

----------------------------------------------------------------------------
(* Combinational signals.                                                  *)

Valid(s) == src[s].left > 0
Last(s) == src[s].left = 1

Gate(s) ==
    ctrl.enable /\ s \in ctrl.mask /\ (s = "spec" => ctrl.mode # "off")
Allowed(s) == Gate(s) /\ (s = "spec" => src[s].type = ctrl.mode)

Draining == disabled \cup illegal

Legal(s) == Valid(s) /\ Allowed(s) /\ s \notin Draining

\* A record that does not own the output and meets a closed gate is shed.
DisabledStart ==
    {s \in Sources : Valid(s) /\ ~Gate(s) /\ s # active /\ s \notin Draining}

IllegalStart ==
    {s \in Sources : /\ Valid(s) /\ Gate(s) /\ ~Allowed(s)
                     /\ s # active /\ s \notin Draining}

\* Mutant: the order of priorities is reversed.
IdleSelReversed ==
    LET legal == {i \in DOMAIN Priority : Priority[i] \in Sources /\ Legal(Priority[i])}
    IN  IF legal = {} THEN NoSource
        ELSE Priority[CHOOSE i \in legal : \A j \in legal : i >= j]

\* Arbitration between records, by fixed priority.
IdleSel ==
    LET legal == {i \in DOMAIN Priority : Priority[i] \in Sources /\ Legal(Priority[i])}
    IN  IF legal = {} THEN NoSource
        ELSE Priority[CHOOSE i \in legal : \A j \in legal : i <= j]

\* Mutant: arbitration runs in every cycle, not only between records.
SelUnlocked == IF IdleSel # NoSource THEN IdleSel ELSE active

\* The source connected to the output: the owner, or the arbiter's choice.
Sel == IF active # NoSource THEN active ELSE IdleSel
OutValid == Sel # NoSource /\ Valid(Sel)

\* Mutant: only the first beat is shed without the FIFO.
ReadyWithFifo(s, r) ==
    IF OutValid /\ s = Sel THEN r
    ELSE s \in DisabledStart \cup IllegalStart \/ (s \in Draining /\ r)

\* The ready given to a source when the FIFO's is r.
Ready(s, r) ==
    IF OutValid /\ s = Sel THEN r
    ELSE s \in Draining \cup DisabledStart \cup IllegalStart

----------------------------------------------------------------------------
(* The register bank: at most one of its registers changes in a cycle, and *)
(* PACKET_ENABLE and SPEC_MODE only while telemetry is off.                *)

Controls ==
    {c \in [enable : BOOLEAN, mask : SUBSET Sources, mode : SpecModes] :
        /\ c.enable # ctrl.enable => c.mask = ctrl.mask /\ c.mode = ctrl.mode
        /\ c.mask # ctrl.mask => c.mode = ctrl.mode
        /\ ctrl.enable => c.mask = ctrl.mask /\ c.mode = ctrl.mode}

\* The records that packetizers complete in this cycle: a packetizer that is
\* not sending, and whose gate is open, may start to send.
Offers ==
    LET idle == {s \in Sources : ~Valid(s) /\ Gate(s)}
    IN  UNION {[new -> Lengths] : new \in SUBSET idle}

\* Mutant: the illegal events are taken from both drain registers.
DropsTwice(ended) ==
    {<<s, "disabled">> : s \in ended \cap (disabled \cup DisabledStart)}
        \cup {<<s, "illegal">> : s \in ended \cap (Draining \cup IllegalStart)}

\* disabled_candidate_drop_events_o and illegal_candidate_drop_events_o.
Drops(ended) ==
    {<<s, "disabled">> : s \in ended \cap (disabled \cup DisabledStart)}
        \cup {<<s, "illegal">> : s \in ended \cap (illegal \cup IllegalStart)}

\* One cycle.  r is the FIFO's ready, c the controls after the cycle, and
\* offer maps the packetizers that start to send to the lengths of their
\* records.
Cycle(r, c, offer) ==
    LET accepted == {s \in Sources : Valid(s) /\ Ready(s, r)}
        ended    == {s \in accepted : Last(s)}
        dropped  == {d[1] : d \in Drops(ended)}
        where(s) == IF OutValid /\ s = Sel THEN "fifo" ELSE "shed"
    IN  /\ ctrl' = c
        /\ src' = [s \in Sources |->
             CASE s \in DOMAIN offer ->
                    [left |-> offer[s], via |-> {},
                     type |-> IF s = "spec" THEN ctrl.mode ELSE s]
               [] s \in ended -> NoRecord
               [] s \in accepted \ ended ->
                    [src[s] EXCEPT !.left = @ - 1, !.via = @ \cup {where(s)}]
               [] OTHER -> src[s]]
        /\ drops' = Drops(ended)
        /\ disabled' = (disabled \cup DisabledStart) \ dropped
        /\ illegal' = (illegal \cup IllegalStart) \ dropped
        /\ active' = IF OutValid /\ r /\ Last(Sel) THEN NoSource ELSE Sel
        /\ open' = IF OutValid /\ r
                     THEN IF Last(Sel) THEN NoSource ELSE Sel
                     ELSE open

\* formatter_reset: the packetizers, the scheduler and the FIFO all forget.
FormatterReset ==
    /\ src' = [s \in Sources |-> NoRecord]
    /\ active' = NoSource /\ open' = NoSource
    /\ disabled' = {} /\ illegal' = {} /\ drops' = {}
    /\ UNCHANGED ctrl

SchedulerInit ==
    /\ ctrl = [enable |-> FALSE, mask |-> Sources, mode |-> "spec64"]
    /\ src = [s \in Sources |-> NoRecord]
    /\ active = NoSource /\ open = NoSource
    /\ disabled = {} /\ illegal = {} /\ drops = {}

Tick(r) == \E c \in Controls, offer \in Offers : Cycle(r, c, offer)

SchedulerNext == Tick(TRUE) \/ Tick(FALSE) \/ FormatterReset

SchedulerSpec == SchedulerInit /\ [][SchedulerNext]_schedulerVars

\* The clock runs, whatever the FIFO does.
ClockedSpec == SchedulerSpec /\ WF_schedulerVars(\E r \in BOOLEAN : Tick(r))

\* The FIFO is ready again and again: it decides on every capture.
FifoGoesOn == SF_schedulerVars(Tick(TRUE))

----------------------------------------------------------------------------
\* The FIFO only ever sees whole records: between the first and the last
\* beat of one no beat of another source follows, and the rest of a record
\* of which the FIFO has the first beat is not shed when its gate closes.
RecordsWhole ==
    /\ \A s \in Sources : src[s].via \in {{}, {"fifo"}, {"shed"}}
    /\ open # NoSource => active = open /\ src[open].via = {"fifo"}

\* Every record a source gives up outside a reset is reported exactly when
\* it was shed, and for one reason: drop events and records that reach the
\* FIFO together account for all records.
ShedIffReported ==
    [][~FormatterReset =>
         \A s \in Sources :
           LET events == {d \in drops' : d[1] = s}
               ends   == Valid(s) /\ src'[s].left = 0
               fwd    == OutValid /\ s = Sel
           IN  IF ends /\ ~fwd THEN \E why \in Reasons : events = {<<s, why>>}
               ELSE events = {}]_schedulerVars

\* A record that meets a closed gate leaves its packetizer although the FIFO
\* is stalled for ever: a stopped host does not freeze a disabled source.
ShedDespiteStall ==
    \A s \in Sources : (Valid(s) /\ ~Gate(s) /\ s # active) ~> ~Valid(s)

\* A STATUS record, the first in the order, never waits for ever behind the
\* others while the FIFO takes beats.
StatusIsServed == FifoGoesOn => (Valid("status") ~> ~Valid("status"))

=============================================================================
