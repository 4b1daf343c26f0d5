# T-RECAP Phase 2: TLA+ verification

T-RECAP Phase 2 is an FPGA that filters a sample stream in the frequency domain
(STFT, threshold mask, overlap-add), a telemetry transport that carries records
about this work through a ring in DDR memory to a program on the HPS (the ARM
side of the chip), and the programs around it: a PC dashboard that shows the
telemetry and sends commands, a capture server for the TSH2 profile, and a
campaign runner that measures the power of the board. This directory models the
parts in which independent actors share state.

```
core taps -> packetizers -> scheduler -> packet FIFO -> ring writer -> DDR ring
                                                            |  W          |
 dashboard <- UDP <- streamer / ring reader <---- CSR bank -+-- Rd        |
     |                    |  (commands)  ---------> CSR bank              |
     +--- UDP commands ---+            <---- reads records ---------------+

 browser, remote owner -> capture server -> board service (TSH2 profile)
 campaign runner -> capture script <- serial <- meter firmware
                 -> JTAG program   -> trials on the FPGA
```

All paths below are under `src/phase2/`.

## 1. Inventory

| Part | State | What makes it hard |
|---|---|---|
| `rtl/hps_bridge/trecap_ring_pointer_ctrl.sv` | W, Rd, sequence, epoch, snapshot | WRAP at the end of the ring, guard, overflow of W + length, several requests on one edge |
| `trecap_ddr_ring_writer.sv`, `trecap_ddr_record_builder.sv`, `trecap_avmm_write_master.sv` | writer FSM, builder, one outstanding write | fit decided long before the advance, bus errors and stalls, disable in every state |
| `trecap_csr_bank.sv`, `trecap_avmm_csr_adapter.sv`, `trecap_csr_shadow_commit.sv` | enable levels, shadow/pending/active registers, copies of the pointers | silent refusals, copies one cycle old, 64-bit values in halves |
| `rtl/telemetry/trecap_packet_fifo.sv`, `trecap_priority_dropper.sv` | slots, queue, capture, prefetched output | pop and admission on one edge, prefetch against eviction |
| `trecap_packet_scheduler.sv`, packetizers | owner, two drain vectors | gates that close in mid-record, stalled FIFO |
| `rtl/common/async_fifo.sv`, `reset_sync.sv` | pointers in two clock domains | stale pointers, resets released one side at a time |
| `sw/hps/src/ring_reader.c`, `trecap_udp_streamer.c` | Rd, sequence, malformed latch, process state | zero-copy reads of memory the writer reuses, stale headers, killed at any point |
| `sw/hps/src/command_bridge.c`, `csr_map.c`, `command_server.c` | lock, mirrors, result ledger | poll timeouts against late commits, retries, duplicates |
| `sw/pc_dashboard/trecap_dashboard/command_client.py`, `dashboard.py` | requests, worker thread, socket | stop against submit, retry against close, wrap of the sequence number |
| `udp_receiver.py`, `ring_buffers.py`, `packet_parser.py` | receiver thread, event queue, capture file | thread against main loop, torn file, loss and reordering |
| `scripts/bringup/*.py` | verdicts on a packet | four readers of one format must agree |
| `profiles/tsh2/work/trecap_visualizer_v01/*.py` | job queue, worker, board client, store | shared board, surviving services, restart |
| `scripts/measurement/run_campaign.py`, `sw/measurement/ina228/*`, `platform/de1soc/measurement/jtag_control.tcl` | four processes on three machines | sessions whose numbers start again, early failure of any process |
| core, FFT, sources, replay, board layer, TRF1, generators | | see section 6 |

`PROJECT.json` lists every component with what is left out and why, the source
lines of every definition (`map`), and the hazards with the line where each
one bites.

## 2. Modules

| Module | Models | One step is |
|---|---|---|
| `RingPointerCtrl` | the pointer controller | one clock edge with any set of requests |
| `RingWriter` | writer, builder, write master, on top of `RingPointerCtrl` | one clock edge |
| `CsrRing` | bus adapter and ring registers of the bank, with `RingPointerCtrl` and the writer's idle and advance signals | one clock edge |
| `BringUp` | the start-up script of the streamer on top of `CsrRing`, with kill and restart | one clock edge or host access |
| `PacketFifo` | packet FIFO and priority dropper, with the ring writer as the FIFO sees it and the idle flag that admits a flush | one clock edge |
| `PacketScheduler` | scheduler, gates, and packetizers as seen by it | one clock edge |
| `ThresholdCommit` | THR2 registers and the three host procedures that write them | one register access or frame boundary |
| `TelemetryChannel` | abstract: a FIFO channel that may lose but never repeats, reorders or alters | |
| `RingTransport` | writer, DDR blocks, reader, commands, kill; implements `TelemetryChannel` | one block written, or one call of the reader |
| `CommandPacket` | the checks on a command at both ends | |
| `CommandPath` | controller, worker and client of the dashboard, link, server and ledger of the HPS | one call, one datagram, one timeout |
| `TelemetryPacket` | a telemetry datagram as its four readers judge it | |
| `TelemetryReceiver` | receiver thread, main thread, capture file, replay | one write, parse, queue or drain |
| `CaptureServer` | HTTP handlers, worker, board client, store, board service | one board access or one locked section |
| `AsyncFifo` | the dual-clock FIFO | one edge of either clock, a reset or its release |
| `MeasurementCampaign` | runner, capture script, JTAG program, meter sessions, analyzer | one phase of a process or one serial line |
| `EnergyMeter` | flags, energy register and validity of a row | one register read or an increment |
| `*Proofs` | theorems, see section 4 | |

`MC*` modules only give constants their values.

Correspondence with the code:

* **Units.** Ring sizes are counted in 32-byte units (64-byte blocks in
  `RingTransport`); the guard of 64 bytes is 2 units and `Aligned` is evenness.
  The pointer controller keeps the wrap of W + length with `PtrLimit`, in the
  place of 2^64.
* **Data.** Payload bytes are abstracted to the identity of a record; a damaged,
  torn or overwritten record is distinguishable from an intact one.
* **Refused stores** change nothing and the host does not learn of it, as in the
  code, where stores have no answer.
* **Histories**, variables without a counterpart in the code, are marked where
  they are declared: `via` and `open` in `PacketScheduler`, `cancelled` in
  `ThresholdCommit`, `taken` and the fate of records (`tally`, with the records a
  flush discards) in `PacketFifo`, the latter also in `RingWriter`, `host.met`
  (the store that arms the writer met a replay or a source change) in `BringUp`,
  `execs` in `CommandPath`, `past` in `TelemetryReceiver`, `txns` in
  `CaptureServer`, `inc` and `seen` in `MeasurementCampaign`, `queue` in
  `AsyncFifo`, `total`, `since` and `start` in `EnergyMeter`.
* `RingTransport` raises both enable levels with a CONTROL write the bank
  accepts. The code's two writes are refused (first finding below), so a
  literal model would never move a record. `BringUp` has the two writes.
* In `CsrRing` the threshold, source-mode and formatter registers are reduced to
  the question whether a store to them is taken; a replay or a source change in
  progress, and a commit that waits, are inputs of every edge (`RestOfChip`), so
  they may come and go at any time.
* `BringUp` gives one store to each register group that start-up writes between
  the ring and the enable levels (threshold, source mode, formatters), and the
  wait for their commits, which may run out.
* In `PacketScheduler` a spectrum record takes the mode at the moment it is
  offered; the packetizer latches it at the first bin of the frame. With the
  bank's lock there is no difference, because the mode only changes while
  collection is disabled. The packetizers build their metadata from constants
  and lengths that are always legal, so the drain of an illegal record
  (`packet_meta_legal`) is in the model and never begins.
* `ThresholdCommit` merges the reads of the two threshold halves: only the
  single-threaded streamer writes the shadow register.
* `CommandPath` has the client of both protocol versions. A failed send of an
  answer is a lost answer. The bridge executes a command in one step; what
  SET_THR2 and the transport commands do inside is in `ThresholdCommit` and
  `RingTransport`. Its verdict is one of three: `APPLIED` stands for NOOP too,
  `FAILED` for everything the bridge decides against after it looked at its own
  state (a required reset, an identity that does not match), and `REJECTED` for
  arguments it refuses; `OwnResult` tells apart no more. That the interpreter
  cannot create the worker thread (`dashboard.py:138`) is left out, and so is
  the queue of outcomes, which only feeds the display.
* `TelemetryReceiver` writes a record as a header and its bytes and flushes now
  and then; each write, the flush in `close()` and each reception may fail, and
  each write may be the last thing the process does; a capture that already
  exists is validated and extended as the code does it. What a flush that failed
  did not write is lost: that the interpreter may try again when it disposes of
  the stream is left out. Datagrams from a foreign source only change counters
  and are left out.
* `CaptureServer` models one recording; a threshold stands for the pair of
  recording and threshold. The order of captures on disk is that of the clock,
  which is assumed not to be set back. Every capture on disk can be restored: one
  whose files do not verify is skipped by the code and listed in
  `restore_errors`. Recordings of the archive (`store.actuals`) are read-only and
  stand behind `latest`; the thresholds of the model have none. The recording is
  a registered one, so the checks of `Hardware.capture` before its `try`
  (`hardware.py:105-109`) pass.
* `EnergyMeter` counts energy in register units; that the firmware multiplies
  the register by a float before it compares and subtracts is left out.
* `BringUp` is started with a ring size that `config.c` admits: the loader
  refuses any other (`config.c:871`).
* `MeasurementCampaign` reads `now` where the code compares times. Lines that
  carry only metadata are left out.
* In `AsyncFifo` a pointer sampled while it changes is seen either old or new,
  which the Gray code guarantees; that is an edge just before or just after.

## 3. Runs

| Run | Properties | Instance | States |
|---|---|---|---|
| ring_pointers | `EpochConsistent`, `DrainedRingAdmits`, `NoStraddle`, `WrapKeepsPromise` | ring of 16 units, lengths 1, 2 and 6 (odd ones are illegal), a legal and an illegal configuration, `PtrLimit` 20: the second lap and the overflow of W are reached | 7,584 |
| ring_writer | `CommittedChain`, `NothingLostSilently`, `DisableDrains`, `HeadNeverBlocks` | ring of 8 units, records of one and two blocks, a torn and a malformed one, stalls and write errors; the last record is offered before W = 8 and may lie, after a WRAP, in the second lap | 230,799 |
| bring_up | `BankMirrorsController`, `RingStableUnderWriter`, `VerifiedRingIsReal`, `RestartReachesArmedWriter` | a host that performs any accesses in any order, with and without the external clear, then the start-up script of 21 accesses, killed and restarted, while replays, source changes and waiting commits come and go; pointers up to 10 units in a ring of 8, past the first WRAP | 1,698,033 |
| packet_fifo | `ResidentPayloadKept`, `EveryRecordAccounted`, `EvictedForBetter`, `WriterInsideHead`, `HeadLeaves` | three resident records, two words per slot, four records of six shapes, so that the last one meets a full queue: eviction of the middle and of the last record, a pop on the edge of an admission, a flush in every state of the writer | 131,427 |
| packet_scheduler | `RecordsWhole`, `ShedIffReported`, `ShedDespiteStall`, `StatusIsServed` | three sources, records of one and two beats; gates may change in every cycle; finite without a bound | 7,476 |
| ring_transport | `NoFalseAlarm`, `ImplementsChannel`, `HeadConsumed` | four blocks, records of one and two, up to four records, two resets and one damaged header: two laps, with WRAPs | 402,146 |
| threshold_commit | `NoTornThreshold`, `MirrorIsActiveUnlessCancelled` | two thresholds that differ in both halves; finite without a bound | 869 |
| command_path | `LedgerOrders`, `OwnResult`, `NothingStranded`, `SocketReleased`, `RequestsEnd` | two requests of four kinds, a queue of one, one retry, one restart of either process, numbers of four bits that wrap in the first session | 668,712 |
| telemetry_receiver | `CaptureFaithful`, `CaptureComplete`, `GapsAreLosses`, `ReplayAgrees`, `DeadThreadEnds` | three datagrams received out of four sent, one of them odd, two sessions on one file, a queue of one, numbers that wrap | 1,066,464 |
| capture_server | `CaptureIsOwn`, `LatestIsNewest`, `NoAutomaticRecovery`, `JobsEnd` | two jobs, two services, two server processes, one reboot and one step of another tool | 517,263 |

Deadlock is not checked in ring_transport, telemetry_receiver and capture_server,
where bounds, or the end of the dashboard, stop the system.

What they say:

* **ring_pointers, ring_writer.** Whatever is requested on one edge, Rd never
  passes W and W never laps Rd; no record crosses the end of the ring; what
  lies between Rd and W is a chain of complete records with consecutive
  numbers; a record taken from the FIFO is published or counted as dropped.
* **bring_up.** A Rd the bank acknowledged is one the controller took; no reset
  or configuration lands under a working writer; what start-up verified is what
  the hardware has; from every state that an earlier process left, a new one is
  stopped before the writer is armed only by a poll that ran out, or, at the
  store that arms it, by a replay or a source change in progress.
* **packet_fifo, packet_scheduler.** Payloads survive eviction and prefetch,
  records reach the FIFO whole, and each one that is given up is reported once;
  what a flush discards is the exception, which `EveryRecordAccounted` states:
  the code counts it nowhere (section 5).
  The flag that admits a flush is a cycle old; it still never admits one that
  would cut the record the ring writer is inside of.
* **ring_transport** is the composition: reading the ring as the reader does
  gives the queue of `TelemetryChannel`, so each record is forwarded at most
  once, whole, in order, through wraps, drops, kills and restarts.
* **command_path.** A version-2 command takes effect at most once and in order,
  although the link repeats, delays and reorders; a result belongs to its
  command, and a restarted dashboard that counts from the start again can only
  meet answers of its predecessor or be told that its number is stale; every
  request ends exactly once, also against `stop()` and its deadlines.
* **telemetry_receiver.** A damaged record is only ever the last one of a
  capture file; an undisturbed session is in it completely; the counters report
  exactly the losses; replay of a session that met no error and no unparsable
  datagram gives the counters of the live session.
* **capture_server.** A kept capture is the transaction that its own service ran
  between the two admissions; the newest one is offered, also after a restart;
  a failed board is not used again before an explicit admission.

Fairness (liveness is model-checked only):

| Property | Fairness and its justification |
|---|---|
| `DisableDrains`, `HeadNeverBlocks` | the clock runs and the bus answers (Avalon contract); nothing about the host |
| `HeadLeaves` | premise `ConsumerGoesOn`: the clock runs, the writer takes what it is offered and finishes what it is busy with, and at last writes its WRAPs without a fault; the scheduler may stop |
| `ShedDespiteStall` | only the clock runs |
| `StatusIsServed` | premise `FifoGoesOn`: the FIFO is ready again and again, as it decides on every capture by itself |
| `HeadConsumed` | the streamer's loop keeps running; nothing about the writer |
| `RequestsEnd` | the worker thread is scheduled and its waits, all of which have a deadline, end; nothing about the link or the HPS |
| `DeadThreadEnds` | the main thread is scheduled; nothing about the receiver thread |
| `JobsEnd` | the worker thread is scheduled: every board access has a deadline; nothing about the board |

Premises are used where two properties need different neighbours: a fairness
condition in the specification would force the other neighbour too. Lower
priorities than STATUS may starve behind busy sources: that is the code's
fixed-priority policy, so no property says otherwise.

Two runs end in a counterexample on purpose, each a disagreement between the
code and its own text:

* **bring_up_order** (`TelemetryFollowsWriter`): start-up writes CONTROL twice,
  ring writer first, then ring writer and telemetry. The bank accepts a nonzero
  level write only while both levels are off (`trecap_csr_bank.sv:414,651`), so
  the second write is always refused. One write with both levels is accepted.
* **threshold_mirror** (`MirrorIsActive`): RESET_TRANSPORT decides from the
  shadow register whether the threshold has to be restored
  (`command_bridge.c:788`). SET_THR2 times out and is applied late; a first
  RESET_TRANSPORT writes the old threshold, and its commit times out; a second
  one cancels that commit with its soft reset, finds the shadow already right
  and clears the lock. The core keeps the new threshold, the bridge reports the
  old one. `MirrorIsActiveUnlessCancelled` shows that this cancellation is the
  only way.

Every property of a passing run has a mutant in `PROJECT.json`: a plausible
error in the code that the property detects under the same configuration.

## 4. Proofs

TLC checks the instances above; the theorems hold for every value of the
constants that satisfies the named assumptions of the modules.

| Module | Theorems | Inductive invariant, and why it is needed |
|---|---|---|
| `RingPointerCtrlProofs` | `TypeCorrect`, `PointersConsistent`, `NothingPublished`, `SnapshotSafe`, `PointersMonotone` (within an epoch W and Rd only grow), `RecordsNeverStraddle`, `DrainedAdmits`, `WrapSafe` | `EpochConsistent` says nothing about the state between a reset and the first Rd commit. `IInv` adds the register types, that a legal configuration has an even size, and the order of pointers and snapshot inside and outside an epoch. One lemma per branch of an edge; arithmetic lemmas on division and modulus carry the wrap |
| `BringUpProofs` | `BankIsMirror`, `RingIsStable`, `RingIsReal`, `WriterIsArmed` | Bank and controller disagree while a registered pulse is on its way. `RingInv` says what holds then: the pulse belongs to the access the adapter is answering, so no second one is taken before it lands; what the bank checked for it is still true although W has moved; the writer rests under a reset or a configuration. `StartUpInv` says, for each step of the script, what has been taken, what has landed and what was read back, and that the store that arms the writer was taken unless the rest of the chip was busy on that edge |
| `StreamProofs` | scheduler: `RecordsStayWhole`, `ShedReported` | `OneWay` keeps for every source where the accepted beats of its open record have gone, and ties the owner and the two drain vectors to it |
| | dual-clock FIFO: `OldestFirst`, `LevelsSafe`, `FlagsSettle` | `Good` says that every stage of a synchronizer chain holds a pointer that its owner passed earlier, in order and at most a depth ago (`ReaderSeen`, `WriterSeen`), and that the memory between the pointers holds the queue |
| | threshold: `ThresholdWhole`, `MirrorTrue` | A mixed shadow exists between two stores. `TInv` says where a commit can be pending, which halves are in place at each step of the three procedures, and what the shadow tells about the active value |
| | packets: `ForwardedIsRead`, `DiagnosticIsRead`, `AnswersAreNotRecords`, `ParserIsStrictest` | no state: the four readers are compared on every packet |
| `PacketFifoProofs` | `PayloadKept`, `RecordsAccounted`, `WriterStaysInside`, `BeatsInOrder`, `OnlyWorseEvicted` (an action property) | `FifoInv` gives every record a slot of its own, says what the memory, the read in flight and the output hold of the head, what the writer has taken of it, what the idle flag of the cycle before excludes, and where each record that was captured is: held, delivered, reported or flushed |
| `CommandPathProofs` | `ValidatorsAgree`, `NoneStranded`, `SocketIsReleased` | `NothingStranded` looks only at dead workers. `Books` says that a pending request is in the queue exactly once or in the worker's hands; `Control` ties the program counter of worker and `stop()` to `accepting`, the queue and the socket; `LinkTyped` and `PcTyped` give the types |
| `CommandOrderProofs` | `LedgerKeepsOrder`, `ResultIsOwn` | The ledger sees numbers only. `Order` follows the numbers of a session from its requests through the queue and the worker to every copy on the link; `NewerIsLater` shows that among them the serial comparison is the order in which they were taken, over the wrap. `Served` says that what was executed, remembered or answered stems from such a command |
| `CaptureServerProofs` | `LatchIsKept`, `CapturesAreOwn`, `LatestStaysNewest` | `TLInv` adds to the types that a worker about to start a service holds no latch. `Owned` follows a capture through the log of its service, the connection, the reply and the run to the disk. `Newest` says that a capture about to be stored is newer than all stored ones |
| `MeasurementProofs` | campaign: `AdmittedIsOneSession`, `TrialsMetered`, `CaptureSpans`, `ChildrenEnded` | The rows on disk depend on lines still on the wire. `WireOrder` orders those by session, `CsvOrder` says that recorded rows are of one session until a second header is counted, `Course` ties the phases of the runner to the other processes and their times |
| | meter: `ValidRowsTrue`, `NextLogAhead` | `Counted` relates the register to what was spent since the last read, with at most one wrap; `Complete` says that without a latch nothing was lost since the baseline |

What the assumptions ask for: at least one word and one synchronizer stage, a
register size and a log period of at least one; in `EnergyMeter` that less than
a whole register is spent between two reads, which at ten reads a second holds
by many orders of magnitude; in `CommandPath` that one session of the dashboard
does not use up half of the 32-bit numbers, with which any serial comparison
loses its meaning (TLC: two requests in four bits); in `CsrRing` that the writer
stops short of the end of the 64-bit pointers, whose overflow is the subject of
`RingPointerCtrlProofs`; in `BringUp` a ring size that the loader admits.

How the proofs go. Each invariant was first checked with TLC, on the instance of
its run. There is one lemma for each action, which rests on lemmas about the
operators that the action is made of; the theorems combine them. Two of the
arguments are worth a word. The eviction search of the packet FIFO picks
an extreme element of a sequence: instead of an induction over the sequence,
`LeastNumber` takes the least index with the property, from the
well-foundedness of the natural numbers. In `BringUp` the
script is a concatenation of six sequences; `ScriptSteps` gives its twenty-one
steps once, and nothing after it looks at the concatenation.

`MeasurementCampaign`, `AsyncFifo` and `EnergyMeter` are proved and have no run
of their own here. Before the proofs their invariants were explored with TLC on
`Trials = 1` (21,880,464 states), `Depth = 4, Stages = 2` (47,248) and
`Modulus = 5` (54,480) without an error.

Only model-checked: all liveness; `CommittedChain` and `NothingLostSilently` of
`RingWriter`; `NoFalseAlarm` of `RingTransport` and its refinement of
`TelemetryChannel`; the four invariants of `TelemetryReceiver`. Liveness and
ENABLED are out of the reach of the prover, and so is induction with a
predicate as its parameter: what a recursive function or a fold computes is not
available for every input. The chain of records in the ring (`WalkFrom`,
`Records`) and the counters of a replay are defined that way. No proof has been
attempted of `NothingLostSilently`, `NoFalseAlarm`, `CaptureFaithful`,
`CaptureComplete` and `GapsAreLosses`.

## 5. Observations

Met while modelling, and not the subject of a run of their own:

* A flush that the idle flag admits can discard queued records. An admitted
  record shows at the FIFO output two or three cycles later, and after a record
  has been taken the next one is fetched first; meanwhile the transport looks
  idle. Such records are not counted as dropped. `trecap_de1soc_full_top.sv:297`
  says "only while no queued/active record can be stranded": `WriterInsideHead`
  shows it of the active record, and TLC refutes `FormatterFlush => q = <<>>`
  for the queued ones in five states. `EveryRecordAccounted` therefore has a
  term for them, `tally.flushed`.
* Start-up commits the source mode and writes the formatter registers right
  after it, before it waits for the commit (`trecap_udp_streamer.c:515-539`).
  While the source changes the bank refuses them without a sign, and nothing
  reads them back, so the packet mask, decimation and spectrum mode the streamer
  records as active (`:541-546`) may not be those of the hardware.
* The wait for the commits looks at two pending bits, not at the source
  transition that the enable levels depend on: after a wait that succeeded the
  writer may still be refused (the exception of `RestartReachesArmedWriter`).
* When the flush in `FramedCaptureWriter.close` raises, `close()` of the receiver
  leaves its socket open (`udp_receiver.py:387-395`) and the dashboard's `stop()`
  does not come to its command controller (`dashboard.py:539-545`).
* `udp_receiver.py:502` catches parse errors only. A WAVE datagram whose sample
  count is outside 1..192 raises a plain `ValueError`, which ends the receiver
  thread; `DeadThreadEnds` then ends the dashboard. `ForwardedIsRead` shows
  that no record the HPS forwards does this.
* Live reception counts an unparsable datagram and goes on, replay stops at it
  (`ReplayAgrees` is restricted accordingly).
* The bring-up tools count a datagram that arrives late as a gap and move their
  last number back (`update_sequence`); `packet_parser.py:515` counts a
  reordering as a large gap. The receiver does neither.
* The smoke receiver raises `IndexError` on a SPEC129 payload that is too short.
* `dashboard.py:536` copies the drop count before the thread has stopped, and
  the queue of outcomes drops its oldest entry when full (`dashboard.py:317`).
* `SocketReleased` has an exception: when `stop()` reaches its deadline and
  closes the socket, a retry of the worker opens it again and nobody closes it.
* `server.py:159`: when saving a job fails, the worker thread ends with the job
  marked active and no later job runs; `JobsEnd` excepts this. `close()` waits
  80 s for the worker and then goes on.
* A campaign can end with PASS_CAPTURE_AND_TRIAL_ADMISSION although the meter
  fell silent during the trials, as long as no second header appears. The
  analyzer then rejects the trials, which is why `TrialsAreMetered` speaks of
  the analysis and `OneMeterSession` of the admission.
* In `run_campaign.py` an exception between the start of a child and the
  assignment of its handle loses the handle: `NoChildLeft` speaks of children
  whose handle the runner has.
* A wrap of the energy register between the read of the flags and the read of
  the energy loses its flag, for the second read clears it; the comparison with
  the previous energy catches it.

## 6. Not modelled

* **Fixed-point arithmetic**: FFT, windows, mask and overlap-add. The repository
  compares them bit by bit with a reference model; the control between the
  stages is a chain of valid and ready signals in one clock domain.
* **Sources and replay**: the source mux waits for a safe point and replay ends
  by frame counts, both inside the core. `PacketFifo` has the flush that they
  ask for, not the admission of a replay itself. One hazard in `PROJECT.json`
  belongs here and has no property: result epochs.
* **Register sequences of the quiesced configuration commands**, apart from
  SET_THR2 and the transport commands; their ledger and checks are modelled.
* **Pulse and bus synchronizers, skid buffer, single-clock FIFO.**
* **Board layer, TRF1 profile, TSH2 pipelines**: pins, vendor interfaces and
  linear batches of arithmetic.
* **The bulk of the Python code.** Most of the 216 Python files, by lines, are
  generators, vector builders, static checkers of the repository, packaging,
  plots, report writers and the numerical reference model. They are batch
  programs that read files and write files: no state outlives a call, nothing
  runs concurrently, and a model would repeat the program. The mapped Python is
  the part with protocol state (command client and controller, receiver and
  buffers, packet verdicts, capture server, campaign runner, meter firmware),
  about one line in twenty of all Python; the rest of the map is SystemVerilog,
  C, PowerShell and Tcl.
