# Formal models of the DSSC detector devices

This directory holds TLA+ models of the Karabo devices that control the DSSC
detector, the TLC runs that check them on small instances, and TLAPS proofs of
most of what they check for every instance. The devices are `DsscPpt` (C++, one
per quadrant), `DsscControl`, `DsscConfigurator` (Python middlelayer),
`DsscSIB` (Python with threads) and `DsscLadderParameterTrimming` (C++). Line
numbers refer to `src/src/DsscControl/dssc_control.py` (C), `configurator.py`
(CF) and `sib.py` (SB) beside it, `src/src/DsscPpt/DsscPpt.cc` (P),
`DsscPpt.hh` (PH), and in `src/src/LadderParameterTrimming/` to
`DsscLadderParameterTrimming.cc` (T), `.hh` (L) and `DsscTrimPptAPI.cc` (API).

## The system

| Component | State it keeps | Operations | Talks to | What is hard |
|---|---|---|---|---|
| **DsscPpt** (C++, 4 instances) | device state; the PPT API object `m_ppt` (registers, connection); `m_burstAcquisition`, `m_keepPolling`, `m_pollThread` | about 90 slots, reconfigurations by tag, the input `registerConfigInput` | the PPT hardware; one mutex `m_accessToPptMutex` around its API | slots run in a strand, but `initSystem`, `_updateIOBFirmware` and the burst run in 16 event-loop threads, polling in a thread of its own, the input in another: they share the state and the flags without a lock |
| **DsscControl** (Python) | fused state, proxies of the PPTs and of the Power Procedure, locks it holds, `framesToSend` | `connectDevices`, `startDataSending`, `stopDataSending`, ..., background tasks `state_fusion` and `monitor_frames` | slots, property updates and locks of the remote devices | proxies lag; a coroutine loses control at every `await`; other clients lock and call the same devices |
| **Power Procedure** (external) | PASSIVE, CHANGING, ACTIVE, ENGAGED, ON, ERROR | ramps power | locked by DsscControl | fails at any time |
| **DsscSIB** (Python, threads) | socket, state, data queue | connect worker, listener, consumer, `restart` | the SIB over TCP | three threads share `self.socket` and the state |
| **DsscConfigurator** (Python) | state, target and actual gain configuration, proxies | `apply` shuts down and instantiates the PPTs; monitoring; `requestConfiguration` | PPTs, server | a restart in several steps, each of which may fail |
| **DsscStateCombiner** (Python) | most significant state | monitors states | interlock devices | masking of errors |
| **DsscASICreset** (Python) | active quadrant, module, ASIC | `resetAll`, `programASIC` | PPTs | mapping of ASIC numbers, failures while CHANGING |
| **DsscLadderParameterTrimming** (C++) | state, receive mode, registers to program, raw-data flag, injection mode, pointer to the trimmer | measurements and trimmings, `stopTrimming` | the PPT (slots, register channel), the data processor, the receiver; an external trimming library | programming, trains and results overtake one another; slots end by exceptions and aborts |
| Registers, `DsscConfigHashWriter` | registers of each module, the active module, the Hash last written | file to schema to Hash and back, programming, reading | the rest of DsscPpt | the active module is set before the mutex is taken; stale baseline of the last Hash |

What makes each correct:

* DsscPpt: its state tells clients which slots they may call, so it has to follow
  the chain of PH 35-39 and to tell the mode the PPT is in; no slot, task or
  failure may leave it CHANGING; a device that acquires is polled, one that is
  closed is not; a burst ends.
* DsscControl: the fused state and the locks follow the remote states
  (`doc/soft_interlock.md`); power is not ramped while data is taken; locks of
  other clients are respected; nothing parks the fusion; the number of frames is
  the same on all PPTs.
* DsscSIB: a lost link is noticed and built up again, and data are not mixed.
* DsscConfigurator: a restart ends in ACTIVE or ERROR, and the configuration
  shown is the one running.
* Registers: what is programmed goes to the module it was meant for, and what
  counts as unchanged is unchanged.
* DsscLadderParameterTrimming: a measurement takes data of its own registers and
  of the kind it asked for; what a slot changes for its duration is put back.

## Modules

| Module | What it is |
|---|---|
| `PptStates` | the abstract specification of a PPT's `state` property: the chain of PH 35-39 |
| `DsscPpt` | the PPT device: threads with programs of instructions |
| `DsscControl` | state fusion, locks, connection procedure, slots, and the remote devices around them; it takes the moves of a PPT from `PptStates` |
| `SoftInterlock` | `DsscControl` with a count of the snapshots since the devices last moved: the promises of `doc/soft_interlock.md` |
| `FrameMonitor` | `framesToSend`, `monitor_frames` and the PPTs' property |
| `PptRegisters` | the registers of `DsscPpt`, the active module, the configuration hash |
| `TrainAcquisition` | the trimming device programming and acquiring: what is under way between device, PPT and processor |
| `TrimDevice` | the slots of the trimming device, its keepers, the PPT it starts and stops |
| `SibLink` | the four threads of `DsscSIB` and its TCP stream |
| `Configurator` | `DsscConfigurator` and the PPTs it restarts |
| `MC*` | instances for TLC |
| `DsscControlProofs` | theorems about `DsscControl` and `SoftInterlock` |
| `DsscPptProofs`, `FrameMonitorProofs`, `PptRegistersProofs`, `TrainAcquisitionProofs`, `TrimDeviceProofs`, `SibLinkProofs`, `ConfiguratorProofs` | theorems about the module of that name |

`DsscPpt` implements `PptStates` (property `StateChain`), and `DsscControl`
lets its PPTs make the moves of `PptStates` only, so the two are joined by one
abstract specification.

### DsscPpt

A thread is the sequence of instructions it still has to do; a slot is the
concatenation of what the functions it calls do, so `runXFEL` is
`RunContMode(TRUE) \o RunAcquisition(TRUE)` as in P 1975-1978. One instruction
is one step that another thread can come between: an `updateState`, a section
under `m_accessToPptMutex` (`Set`, `Use`), a test or write of a flag, a join.
`DSSC::StateChangeKeeper` and `ContModeKeeper` (PH 415-443) are frames on
a stack; leaving a scope pops them. The first of the two is not in this
repository: that it shows CHANGING while in scope and afterwards the state it was
given, or the one it found, is taken from how P uses it, and its definitions
(`Keep`, `Save`, `Drop`, ...) are external. An exception (`Throw`) empties the
program down to the destructors of the frames in scope, and terminates the
program when it leaves a destructor. `Keep(s)` is the constructor with an end
state, `Save` the one that reads the present state: read and update are two
steps, as there is no lock around them.

The strand `"slot"` executes one slot call or reconfiguration at a time when the
state is in `Allowed(slot)`; `"data"` is the thread of `registerConfigInput`
(P 1333-1362); every other member of `Threads` is a thread of the event loop
(P 1116) that takes posted tasks in order. `PollerEnds`, `PollerThrows` are the
poll thread (P 4682-4705). That Karabo runs a device's slots one after the other
and checks `allowedStates` at the call, and that `EventLoop::post` is first-in
first-out, is taken from Karabo and not from this repository.

Every slot registered in P 1117-1232 and every reconfiguration that reaches
`m_ppt` has its name in `Slot`; slots alike in what they call and when they may
be called share a set (`ResetSlots`, `InjectionSlots`, ...), and the tags of
one kind of register a name. `Body(slot)` is what a slot does, `TaskBody` what
a posted task does, `DataBody` what a received configuration does, with the
nested keeper of `updateSequenceCounters`.

Kept: the device state, continuous mode, sending, XFEL control, the selected
environment (which decides about XFEL control on `open`), the connection, the
burst flag, polling, posted tasks. Left out: the values of the other registers
(`Use` is any row of calls that touches none of the modelled ones),
`waitJTAGEngineDone`, which only waits for the state to change, `requestScene`,
and `preDestruction`, which ends the device.

### DsscControl

The device is one asyncio loop: an action is what a coroutine does from one
`await` to the next, and `fusion` names the `await` at which `state_fusion` is
parked: `sleep` (C 357), `wait` (396), `lockPpts` (413), `lockPow` (415),
`clear` (423). `Fuse` is the chain of `if`s (C 363-383), written in order of
decreasing priority. `seenPpt`, `seenPow`, `seenLock` are the copies in the
proxies; `Deliver*` are the updates. `PptCall`, `PowerCall` are operators who
call slots at the devices directly: only a lock keeps them away. ON stands for
the Power Procedure's ACTIVE, ENGAGED and ON, which the fusion does not tell
apart. It fails (`PowerStep`) without a slot. `Others` are the devices another
client takes and frees the locks of.

A slot of the device (`Request`) sends a call to each PPT and awaits the gather
(`slot`); `asked` holds the calls not yet answered, each with the states in which
the PPT executes it (`PptExecutes`) rather than refuse it (`PptRefuses`), and a
refusal ends in `onException` while the other calls go on. `initPPTdevices`
awaits two gathers, the stops and then the initialisations (C 200-215). One slot
that calls PPTs is under way at a time. `connectDevices` cancels the task,
but not the calls of `lock` and `slotClearLock` it has sent: they arrive later
(`StrayLock`, `StrayClear`). A call that raises at C 413 or 415 (`noLock`) or 423
(`noClear`) ends the task, as it is outside the `try`; after the first the state
is one in which `connectDevices` is not allowed.

`PromptLocks` is an assumption about Karabo: the devices whose update of
`lockedBy` comes no later than the reply to the call that caused it. When the
reply comes first, the round after a `slotClearLock` reads a stale copy and
clears again, by then perhaps the lock of somebody else. TLC does find that for
a device outside `PromptLocks`, so `ClearsOwnLocks` and `OthersRespected` speak
of the devices in it. `control_safety` and `interlock_rounds` have the PPTs in it
and the Power Procedure outside, `interlock_live` has all of them in it; the
theorems about states and locks hold whichever devices are prompt.

### FrameMonitor

Each PPT has a queue of writes to it and one of its updates and replies. Values
carry the timestamp of where they were set, as KaraboValues do, and who set
them there. `ReceiveUpdate` wakes `monitor_frames` only while it waits:
`waitUntilNew` (C 316) registers when it is called. `MonitorAdopts` is the loop
of C 302-312 up to `await set_many_remote`. That a PPT's update arrives before
the reply to the write that caused it, and that the device serves one
reconfiguration at a time, is assumed of Karabo. The module is about one
connection with one monitor: `connectDevices` cancels the monitor before it
starts the next (C 141-143, 191), but `set_many_remote` catches the
CancelledError (C 272-273), so a monitor cancelled while it writes lives on
beside its successor. That is outside the module.

### PptRegisters

Three threads execute operations made of instructions: the slot, the handler of
the configuration input and a posted task. `Set` makes a module active (with or
without `m_accessToPptMutex`), `Use` and `Peek` program or read the active
module under the mutex, `Fetch` and `Entry` are `getRegisters` and a write to
what it returned, `For` is a loop over modules, `Check` the early return of
`setActiveModule` for an IOB that does not answer (P 2663). `Baseline` is the
comparison with `m_last_config_hash` (P 2259), what `updateConfigFromHash`
leaves to be written. Ghosts tell what has happened to an operation: `own`,
`disturbed` (another thread has changed its module or registers), `misled` (its
entry was for another module than the one active when the registers were
fetched, or for one without an IOB) and `astray` (something else has been
written, programmed or read than was to be, by a thread neither disturbed nor
misled); `misfiled` are the modules whose entry went to another one's registers,
`loose` those whose registers were written past `updateConfigFromHash`. A
module's registers are one value, so two entries of a module are one. That the library's functions mean its active module is taken from
how P 1376-1378 and 2825-2826 use them. The model begins after the first
`updateConfigHash_impl`, and holds the JTAG registers: entries for IOBR
registers program the IOB `selModule` whatever module the entry names, EPC
entries need no module.

### TrainAcquisition and TrimDevice

`TrainAcquisition` takes one slot of the trimming device at the level of
`waitDataReceived`, `doSingleCycle`, `resetDataReceiver` and the keepers of
register writes. A register content is a version number, a train is the set of
the contents the PPT had while it was taken, and a result belongs to a train.
`Acquisition` are the functions that acquire, by what they do differently: the
mode, whether the processor is told of it, whether they retry, whether they are
fast. The data are those of the PPT; the test data generator, which has no
register content (`isTestData`, T 2731), is not modelled. `limit` says where
the train id of the filter comes from: read, the old one kept after a
read that failed (T 2727), or the 1 of a fast acquisition (T 2729-2730).

`TrimDevice` is at the level of the slots: programs of instructions with
keepers as frames, as in `DsscPpt`, while `stopTrimming` may come at any time.
The slots are those of T by shape. `Trigger` is `triggerPptInitFunction` with
its tries and the two reads of the PPT's state in its condition (T 2205);
`initSystem` of the PPT only posts. A remote call that fails may have been
executed all the same. `left` is the set of what slots that ended early have left
behind, and each member is taken out by what puts it right; `alone` says that the
last slot is a change of the number of frames which no failing call and nobody
else has come between. One slot at a time besides
`stopTrimming`, a valid initial configuration file, and that
`getNewChipTrimmer` returns the object it constructs (no copy) are assumed.

### SibLink

The stream is a sequence of pieces: "begin" and "end" are the halves of the reply
to a command, "head" and "tail" those of a row of log data; `recv` returns any
prefix, so it may part a reply as well as a row.
`Dial` ... `Configure` are `connect_to_sib` and `authenticate` from one `recv`
to the next; `Receive`, `PutRow`, `PutLast` are one turn of `listener`, with
the consumer taking rows between two of them; the loss of a connection is two
steps (SB 738, 739). A connection goes silent, is closed or is reset at any
time. The ghost `parted` is set when `authenticate` has gone on with part of a
reply, until the next dial. That the SIB answers each command with one line,
within the timeout of
five seconds, and sends no log data at level 0, is assumed. A dial that fails
changes nothing that matters and is no action. After a failed authentication
ERROR lasts until `configure_sib` a moment later: the two are one step, as the
listener needs a timeout of seconds to come between.

### Configurator

An action is what a coroutine does from one `await` to the next. `Connect` is a
round of `connect_to_proxies`, `Evaluate` the part of `monitor_configs` under
the lock, `Deliver` an update that wakes `waitUntilNew`. The slot `apply` posts a
task (CF 230-234), which begins in a step of its own (`Begin`), so that a second
call finds `allowedStates` as they were; there may be two tasks
`_apply` (below), and a third is not looked at. `Default` is the file
of a PPT's configuration "default", which it is instantiated with (CF 276); a PPT
that has one does not ask for the target. The PPT's side is `initialize` (P 1253-1278): it asks for its
file (`GetConfiguration`), for no more than a second, and goes on with none
after it. `actual` is the file whose description is shown.

## Runs

| Run | Expected | Question | Instance |
|---|---|---|---|
| `control_safety` | pass | the interlock never runs without the Power Procedure; it clears and takes no lock but its own | 2 PPTs, 3 PPT states, power ON and CHANGING with its lock seen late, a slot of each kind, another client of the PPTs; 2.69 M states |
| `interlock_rounds` | pass | state and locks follow the devices within 2 and 3 snapshots, but for the named departures | 2 PPTs, 3 PPT and 4 power states, the power lock seen late, one slot; 1.88 M states |
| `interlock_live` | pass | the fusion comes to rest published and interlocked, unless its task ends | 2 PPTs, 3 PPT states, power ON and ERROR, two slots, prompt locks; 0.18 M states |
| `ppt_slots` | pass | any sequence of slots: chain of states, mode, polling, no terminate | strand alone, every slot and reconfiguration but three (below), connection failures; 1 397 states |
| `ppt_keepers` | pass | keepers unwind in every interleaving with every failure | strand, input, one posted task; 0.66 M states |
| `ppt_tasks` | pass | two posted tasks against the strand; a burst ends in ON | strand, two event-loop threads; 0.28 M states |
| `frames` | pass | in one connection everybody agrees on the number of frames in the end | 2 PPTs, 2 values, 2 changes, refusals; 0.95 M states |
| `acquisition` | pass | a measurement takes trains of its own registers and kind, but for three named cases, and ends | 1 write, 3 trains, 1 result under way, 1 failing call, 2 tries, a PPT that begins late; 1.27 M states |
| `trim_slots` | pass | however a slot ends, the device state is put back and what else is left behind does not last | one slot of every shape, 1 failing call or move of the PPT, 2 tries; 0.44 M states |
| `ppt_registers` | pass | operations keep to their module, and the baseline is true, but for the named cases | 2 modules, 2 values, 1 file, 3 operations; 1.18 M states |
| `sib_link` | pass | authentication reads its replies and no log data; rows are whole; the mode follows; a silent connection is noticed and dialled again | 1 row in the queue, 2 timeouts, 3 pieces under way, 2 levels, 2 modes; 0.60 M states |
| `configurator` | pass | an apply ends; what it reports as restarted runs with the file it was to have; the monitor shows whether files agree | 2 PPTs, one with a file of its own, 2 known files and one that is not, 2 client operations, 2 tasks; 0.34 M states |

Why the bounds are enough. Two PPTs are needed for states that differ and for a
gather with part of its calls done; a third adds no rule, as the fusion only
asks whether all are alike. The PPT states visited contain one of each class
the fusion distinguishes (idle, transient, taking data); the Power Procedure's
are all four classes in `interlock_rounds`; the other two runs take the two that
matter to their question, one at rest and one that bars the PPTs.
`startDataSending` and `startAllChannelsDummyData` differ only in the states they
are called in, so one of them is enough where no PPT is OFF; `initPPTdevices`,
the only slot with two gathers, is in the run about locks, and the client that
locks the Power Procedure too is left to the theorems. Three rounds are what the promise needs:
one may be a sleep begun while the PPTs differed, the next publishes, the third
locks. In `DsscPpt` a program is finite and a slot begins only when the strand
is free, so only posted tasks need a bound (`MaxPosts`): two suffice for a task
to meet another and a slot at once. `ppt_slots` is small because nothing runs
beside the strand: its depth is the length of the sequences of slots, which is
not bounded. It leaves out setting `continuous_mode` and setting
`disable_sending`, which change the PPT's mode and not the device state: the
code that would have followed is commented out (P 4269-4284), so with them
`StateTellsMode` and `PollingFollows` fail. `ppt_keepers` has a slot of every
shape, since what interleaves are the shapes, and leaves the nested keeper of a
received configuration to `programAllIOBFPGAs`; with it there (`"counters"` in
`RegTypes`) the run has 1.6 M states and the same result. In `FrameMonitor` two changes let
a change here cross one by hand; three changes without refusals have been run as
well (1.8 M states) with the same result. Symmetry of the quadrants is used for
safety only.

In `PptRegisters` three operations are one per thread, or a sequence of three
on one: an operation is led astray by one other thread, and the baseline by a
write between two. In `TrainAcquisition` a train before, during and after the
programming are the cases there are. `TrimDevice`: a fault at every instruction
of every shape; a second would come after the unwinding of the first. In
`SibLink` nothing is counted, so connections are lost and dialled without
limit; three pieces are a reply and half a row, or a row and half a reply, in
every order the SIB can send them. `Configurator`: two
operations are two applies, or an apply and a change of the target or of a
file; that is what it takes for the two to meet.

Deadlock is not checked where the system may stop: `DsscControl` does when a
reconnection has cancelled the fusion and failed while everything is locked (no
slot can move anything: the locks are leaked), `DsscPpt` when it terminates or
when an input without slots is all that is left, `FrameMonitor` when all changes
are made, `TrainAcquisition`, `PptRegisters` and `Configurator` when their bounds are used
up, `SibLink` when listener and consumer have died. `ppt_slots` and `trim_slots` do check it.

Fairness. `SoftInterlock`: the coroutine goes on and updates arrive; nobody has
to call a slot, a ramp need not end, a lock held by another client need not be
freed. `DsscPpt`: every thread is scheduled, posted tasks begin, trains keep
coming, the poll thread looks at its flag every five seconds; clients need not
call anything. `FrameMonitor`: messages arrive and coroutines go on.
`TrainAcquisition`, `TrimDevice`: the slot and the PPT go on; the processor need
send nothing and nobody need abort. `SibLink`: threads go on; the SIB need not
answer. `Configurator`: the loop goes on, calls and updates come back or time
out, a PPT told to shut down does.

`TypeOK` of `TrimDevice`, `PptRegisters`, `SibLink` and `Configurator` has been
checked on these instances too; their runs list what could go wrong.

### What the runs show

* `StateFollows`, `LocksFollow`: whatever sequence of moves, refused slots,
  sleeps and late copies came before, two rounds of quiet suffice for the
  state and three for the locks. `Documented` are the rules of
  `doc/soft_interlock.md:16-20`, and the code departs from them twice
  (`Published`): PPTs that differ give ERROR although one of them, or the power,
  is changing, where the document has CHANGING, and a Power Procedure that is
  PASSIVE gives OFF although PPTs change. Of the locks of `:22-24`
  the code leaves out those on the side that is the source of the change
  (`PowerLeftOpen`, `PptsLeftOpen`): power slots while the power itself ramps,
  fails or is off and the PPTs agree; acquisition slots while PPTs differ, and
  while they change with the power on or off.
* `Converges`: no `await lock` asks for a lock already held here. It exempts a
  task that has ended, by a cancellation or by a call that raised.
* `KeepersUnwind`: nothing but two keepers of different threads that overlap
  leaves the device CHANGING; a received configuration beside a slot does, and
  CHANGING is in no `allowedStates`. Slots and tasks that name their end state
  cannot do it (`NeverStuck`).
* `BurstReturns` holds of a single burst, also when the end of its trains and
  `stopAcquisition` meet; a second one may never stop,
  because the flag is set when it is asked for (P 1938).
* `FramesAgree`: crossing writes and changes still end in agreement; the
  exceptions are a change by hand that arrives while the monitor writes
  (`missed`), which is C 316 below, and a write that was refused.
* `AdoptsOperators`: the timestamp tells an echo from a change, unless writes
  of the setter and the monitor cross: then the echo of the older number may
  undo the operator's.

* `RightModule`: an operation writes, programs and reads the module it was given
  with the value it was given, but in three cases. Another thread comes between,
  as the module is set before the mutex is taken (P 2663): even
  `programLMKOutput`, which sets under the mutex, is disturbed, because
  others set without it. `preProgSelReg` finds no IOB for its module: the value
  goes to the module active before (P 2825). An entry of a reconfiguration is for
  a module that was not active when its registers were fetched, or has no IOB:
  one thread alone then writes and programs something else (P 2301-2307).
* `BaselineTrue`: a reconfiguration never leaves out a register that nothing
  but reconfigurations has written and whose own entry has not gone to another
  module. One whose entry has is left out from then on: the Hash has the new value
  and the registers the old one.
* `FilterCurrent`, `Fresh`: the train id read after programming keeps out every
  older train, also the one under way, whatever results were still on their way.
  Three cases are not promised: the wait for the PPT ended before it had begun, and
  the id could not be read - both failures are swallowed (T 2444, 2727) - and a fast
  acquisition, whose limit is 1 (T 2729-2730). The last reaches beyond itself: an
  acquisition after it finds the configuration VALID, resets nothing, and
  takes stale trains. `RightKind` asks for a reset, with the processor at rest and
  the id read; without a reset the device takes means for rms values or the reverse.
* `StateReturns`: the keepers put back the state on every way out. Flags have no
  keeper: `TrimmerInScope`, `RawDataEnds` say what an exception leaves behind
  and for how long - a dangling trimmer until the next trimmer, a recording until
  the next measurement that records, wanted raw data until the next gain map that
  sets or unsets them. `InjectionTold`: the mode believed is the mode of the PPT
  however calls fail, but after a new configuration or PPT, or a call executed and
  not answered.
* `AcquiresAgain`: a PPT stopped for a change of the number of frames is started
  again, also when it refuses the calls; not so when a remote call raises between
  the two (T 2507-2511) or somebody else, an `initSystem` posted before included,
  moves the PPT.
* `RepliesMatch`: the flush before `AUTH` is what makes authentication read
  replies and no log data, and each its own, as long as `recv` returns replies
  whole; one that is parted (SB 674-680) puts all later ones out of step, until
  the next dial. `RowsWhole`: chunks are joined and cut rightly within a
  connection, but for the first row after a loss or after a parted reply. `NeverStranded`: socket first, state second.
* `RestartedOnTarget`: no partial restart is reported as done: every PPT runs,
  with the file of its default configuration, else with the target or, where its
  question was not answered within the second, with none. A target or file set
  meanwhile and a second apply are exempt.

## Divergences

What the code does against its own documents, comments or descriptions, or
plainly by mistake; the models contain it, and the properties say where they
make an exception of it.

* C 404-415: the lock on the Power Procedure is asked for only after the PPTs
  are seen ACQUIRING, so power can ramp while data is taken;
  `doc/soft_interlock.md:8` says "the device can either be powering on/off, or
  take data". `LocksFollow` holds after three snapshots.
* C 356-361: PPTs that differ are in ERROR, also while one of them or the power is
  changing; `doc/soft_interlock.md:18`, after the rule for PPTs that differ, says that any
  changing device means CHANGING. C 47: a PASSIVE Power
  Procedure gives OFF, a rule the document does not have.
* C 410-415: only the side that is not the source of a change is locked;
  `doc/soft_interlock.md:23-24` bars power slots and acquisition slots alike
  whenever a device is changing or in error.
* C 413, 415, 423: `lock` and `slotClearLock` are awaited outside the try block:
  one that raises ends the task, and after the first two the device is in a state
  in which `connectDevices` may not start it again.
* C 272: `set_many_remote` catches the CancelledError, so a `monitor_frames`
  cancelled while it writes goes on beside the one that replaces it.
* C 410: in expert mode without a Power Procedure (C 350) the lock updates
  dereference it outside the try block and the task ends.
* C 316: a change by hand that arrives while `monitor_frames` writes wakes
  nobody; C 294 says "update all if any changes" (`missed` in `FramesAgree`).
* P 1938: of two posted bursts the second may acquire without end.
* P 1335: the keeper of a configuration received within a slot saves CHANGING and
  may restore it last.
* SB 651: the initial configuration has the key `log` where `configure_sib` (875)
  looks for `logLevel`: after the `LOG 0` of `authenticate` nothing turns the
  log data on again, so the listener counts its timeouts and loses the
  connection, again and again; "updates are expected all the time" (731). Its
  counter is not reset after a loss: the next connection is lost at its first
  timeout.
* SB 726: a connection closed by the SIB is never noticed (`recv` returns no
  bytes and the counter is reset), and in `authenticate` the flush spins for
  ever. SB 729: any exception but a timeout ends the listener. SB 719: what was
  left of a row is joined to the first row of the next connection, which may end
  the consumer (`parse` returns None). SB 674-680: a reply is what one `recv`
  returns, which may be a part of it. SB 684: after a failed authentication the
  ERROR is overwritten by NORMAL. The empty string after the last terminator is
  queued as a row.
* CF 244: "try later" leaves the state CHANGING, where `apply` is not allowed.
  CF 165: ACTIVE is set over the CHANGING or ERROR of an apply begun in INIT, so
  that two may run. CF 188-200: only the names of the files are compared, though
  "it is important to look at the full path". CF 212-215: for a file that is not
  in the table, such as none after a restart, `.value` of a string ends the
  monitoring. ERROR has no way out; `gainConfigurationState` stays ON while PPTs
  are down.
* P 2301: an entry's module is made active after its registers have been
  fetched: a reconfiguration of a module that is not active writes the registers
  of the one that is, programs its own with what they were, and counts as written.
  P 2825: without an IOB `preProgSelReg` writes to the module active before. P 2882-2911: `readSelReg` chooses `selModule` and does not make it
  active. `updateJTAGConfigSchema` loads a file into the active module's
  registers and programs the module of the attribute.
* T 2507-2511: a call that raises between `stop` and the restart leaves the PPT
  stopped. T 2729: the limit of a fast acquisition stays for the acquisitions
  after it. T 928: the ERROR that `initMultiModuleInterface` sets for missing devices is
  overwritten by OFF. T 2843, 2878: `saveTrimmingRawData` is read twice, before and after a
  measurement. T 2216: `open` is
  called in ERROR, where the PPT refuses it. T 1021: after an exception
  `m_currentTrimmer` dangles. T 2527: the new number of frames is compared with
  the old maximum. T 2735: the last train id is kept in 32 bits. T 1222:
  `m_setColumns` may be read before it is set. T 1138: `acquireDisplayData`
  ignores whether data have come and subtracts the baseline twice. API 54-60, 108:
  functions that should return a value do not. `m_runFastAcquisition` stays
  set after an exception. T 1778: the second branch for `fullConfigFileName` is
  never reached.

Others: power is
unlocked for a round while PPTs already acquire (C 417 looks at the state of
the last snapshot); PPTs that are all in ERROR do not lock power
(`soft_interlock.md:24` says they do); locks are taken in expert mode too (`:58` says not); `connectDevices` is
not allowed in the ERROR it ends in without a Power Procedure; the counter of
failures is reset after a failure as well (C 405), so C 425 is never reached;
`stopAcquisition` calls `disableSending(false)` (P 1819), so a PPT stopped in
standalone mode goes on sending; a burst posted before `close` starts the poll
thread after it; the properties tagged `measurements` are filtered with the tag
`measurement` (P 4342), and `preReconfigureFastInit` (P 4393) is called from
nowhere, so reconfigurations of either are not applied; the key
`ethernetOutputRate` (P 4224) is no property's name; the slots
`programIOBNConfig` and `readIOBRegistersN` are registered under other names
than their elements, so nothing restricts the states they are called in;
`readFullConfigFile` shows the path of the EPC file as that of the IOB file and
the reverse (P 2090-2091).

## Proofs

The theorems hold for every value of the constants that the assumptions allow:
`ConstantsAssumption`, `FrameAssumption`, `PptAssumption` and
`SlotsAssumption`, `AcquisitionAssumption`, `TrimAssumption`, `SibAssumption`,
`ConfiguratorAssumption`, `RegistersAssumption`, each in the module it is about, which say only that
bounds are numbers and sets are of the right kind. What a theorem assumes on top
of them stands in its statement.

| Module | Theorem | Statement |
|---|---|---|
| `DsscControlProofs` | `TypeInvariant`, `Armed`, `OwnLocks` | `Spec => []` `TypeOK`, `InterlockArmed`, `ClearsOwnLocks` |
| | `Respect` | `Spec => OthersRespected` |
| | `Follows`, `Interlocks` | without `Others`: `RSpec => [](hasPow /\ Known => ` `StateFollows`, `LocksFollow`): the document, but for the departures these name |
| | `Promise` | without `Others`, outside expert mode, PPTs never in ERROR or INIT: `RSpec => [](StateFollows /\ LocksFollow)` |
| `FrameMonitorProofs` | `TypeInvariant`, `Agreement` | `Spec => []` `TypeOK`, `FramesAgree` |
| | `AdoptsByHand` | `Spec => AdoptsOperators` |
| `DsscPptProofs` | `TypeInvariant`, `Unwinding` | `Spec => []` `TypeOK`, `KeepersUnwind` |
| | `Released` | slots of `NamingSlots`, no input, valid file, no call fails: `Spec => []NeverStuck` |
| | `ModeTold`, `PollingTold`, `NeverTerminates` | `StrandAlone => (Spec => []` `StateTellsMode`, `PollingFollows`, `NoTerminate)` |
| | `Chain` | `StrandAlone => (Spec => StateChain)`: `DsscPpt` implements `PptStates` |
| `PptRegistersProofs` | `RegistersTyped`, `WorksOnRightModule`, `BaselineHolds` | `Spec => []` `TypeOK`, `RightModule`, `BaselineTrue` |
| `TrainAcquisitionProofs` | `TypeInvariant`, `FilterIsCurrent`, `TakesFresh`, `TakesRightKind` | `Spec => []` `TypeOK`, `FilterCurrent`, `Fresh`, `RightKind` |
| `TrimDeviceProofs` | `TypeInvariant`, `Returns`, `InScope`, `RawEnds`, `Told`, `StartsAgain` | `Spec => []` `TypeOK`, `StateReturns`, `TrimmerInScope`, `RawDataEnds`, `InjectionTold`, `AcquiresAgain` |
| `SibLinkProofs` | `TypeInvariant`, `AlwaysDials`, `FollowsMode`, `KeepsRows` | `Spec => []` `TypeOK`, `NeverStranded`, `ModeFollows`, `RowsWhole` |
| | `TakesReplies` | `Spec => RepliesMatch` |
| `ConfiguratorProofs` | `TypeInvariant`, `Shows` | `Spec => []` `TypeOK`, `ShowsFiles` |
| | `RestartsOnTarget` | `Spec => RestartedOnTarget` |

Every inductive invariant below but `StrandInv`, which asks for sets that TLC
cannot enumerate, was checked by TLC, as an invariant of the
instances of the runs or of wider ones, before it was proved: among others
`FollowInv` on 7.5 million states, the invariant of `Released` on 6.5 million
(three threads, two tasks, failing connections), those of `TrimDevice` on 122 529
and 64 875, those of `PptRegisters` on 1.2 million.

**DsscControl.** `TypeOK` is inductive: `FuseType` says the chain of `if`s yields
published states, `LoopType` and `FreeLocksType` carry that through the loop, and
the actions are taken in groups (environment, slots, fusion). `InterlockArmed`
needs no strengthening over `TypeOK`: the proxy is never given up, and the
task is started only where it exists or in expert mode. `ClearsOwnLocks`
is inductive only together with `seenLock[d] = lockedBy[d]` on `PromptLocks`
(`PromptStep`): with it the list made at C 421 is right when made
(`ClearStarts`), and stays right because a lock held here is freed by nobody
but this task (`LocksElsewhere`, `ClearsStep`). `OthersRespected` is an action
property from that invariant: a lock is taken only when free and cleared only
when on the list.

**SoftInterlock.** The properties speak of two or three snapshots, the invariant
`FollowInv` of every `await` between them: once a snapshot has been taken and
nothing has moved since, the fusion is either `Apart` (the PPTs differ, ERROR is
published, the power locked before the next snapshot) or `Agreed` (the second
snapshot has published the verdict, and of the locks that the third asks for as
many are taken or cleared as are not on the list any more). `Documents` then
compares the verdict of `Fuse` with `Published`, the rules of the document with
the two departures, and its locks with those that the document asks for and the
code does not leave open. The theorems are
about an interlock whose locks no other client takes, since one may hold a lock
for ever; and about PPTs that do not all show ERROR or INIT, for which the code
keeps the state it had, so that what it publishes depends on the past
(`Known`); `interlock_rounds` has PPTs that visit neither state, and for such,
outside expert mode, `Promise` states both properties as that run checks them.
The number of PPTs, the states they visit and the updates of `lockedBy` that are
late are arbitrary.

**FrameMonitor.** `AgreeInv` says of each PPT that the messages under way from it
lead the proxy to what it has (`Leads`), that the last write under way to it is
the number shown here, and that where no write is, either the PPT's number is
newer than the one here, so that it will be adopted when the update arrives, or
nobody has set any (`Settled`). `OldEchoes` is needed because an update that
is the echo of an older write must not be the last. `EchoInv` keeps, as long as
writes do not cross, the echo of a write in front of its reply, so that the
monitor, which waits for the reply, never looks at a proxy that shows it
(`Paired`, `HeldUp`).

**DsscPpt and TrimDevice.** What a property has to know of the instructions left
in a thread is a mark at every point between two of them. `Runs` says that a
program can be marked from one mark to another; programs marked end to end
compose (`RunsBoth`), and a step takes the marking along (`RunsOn`). A slot then
needs one lemma, which marks its program, and an instruction one. `DsscPptProofs`
defines `Runs` as the least relation that instructions lead back from the end,
so that what holds of every marked program is shown by a set of programs closed
under them; `TrimDeviceProofs` asks for the marks themselves, since `InScope` and
`RawEnds` look for the instruction that changes one (`RunsUntil`).
In `DsscPpt` the mark is the number of keepers in scope: `KeeperInv` says that
the instructions left undo all of them (`Nested`), that a task is posted by the
last instruction of a slot, and that, as long as keepers of two threads have not
overlapped, the state is CHANGING only while there is one (`Alone`). An exception
replaces the program by one destructor for each frame, which is marked by
construction. `Released` adds a second marking, in which the
outermost keeper must name a state to rest in (`Names`), and a third for the
`open` that the device begins with (`Opens`). Its hypotheses are what makes it
true: keepers that save the state may save CHANGING, and where a call throws
or the file is invalid the initial `open` stays where it was.
For the strand alone the marks are sets: what the strand may find of the device
(`View`: state, keepers, continuous mode, sending, poll thread, connection)
before each instruction. `Takes(A, p, B)` says that the program `p` takes all of
`A` to `B`; like a Hoare triple it composes, and is read off the instructions
with `Does`. The lemmas `Takes...` have one function each, `RestedBody` says that
every slot, called in a state it is allowed in, takes what suits that state
(`Suits`) to what suits a state to rest in, and `StrandInv` that the rest of
the program does. `Does` allows a change of state only along `PptStates`
(`InChain`), so that the same invariant gives the refinement. Where an
instruction puts others before the rest of the program, as `open`, `pause` and
the destructor of `ContModeKeeper` do, `Does` says what they must all achieve, and
a lemma of theirs that they do. `StrandAlone` is what makes the four theorems true:
one thread, so that a posted task is never begun; the configuration file valid and
no call failing, while connecting and disconnecting may; and none of the three
reconfigurations that change the mode behind the device state. `ppt_slots` is
the instance with no task posted.
In `TrimDevice` the mark is a record: states to put back, the trimmer to
forget, the recording and the saving of raw data to end, the mode to note, a
verdict to come to (`Marks`); `IInv` says there is a marking whose first mark
agrees with the flags and frames. `StartsAgain` needs a second one (`FramesInv`),
of what the PPT may not be in any more after a `trigger` or a wait (`Brings`),
for as long as the slot has been `alone`: no remote call of it has failed and
nobody else has moved the PPT.

**PptRegisters.** `RightModule` says nothing of the instructions in front of the
one that goes astray, so `StageInv` says what is known before each: a thread
nobody has disturbed finds the module it made active still active (`own`), and
`Staged` relates what it knows (`View`) to the instructions it has left; a thread
that is misled is left out from the entry that misleads it to its next operation.
An entry for the module that was active when the registers were fetched, with an
IOB, is the case to prove: it is written, made active and programmed as it is. What
follows a `set` uses the module it names (`SetTail`); what follows a `check` does so too,
and where the IOB does not answer what is left is right without (`CheckTail`,
`SkipTail`). A `put` goes to the module made active, or, as `preProgSelReg`
writes also where the IOB has refused, the IOB does not answer and whoever
uses the value checks it first (`PutTail`); the registers that
`updateJTAGConfigSchema` fills are used whatever they hold. `BaselineTrue` speaks of the end of a write only, and `BaseInv` of every
point of the loop in `updateConfigFromHash`: of the modules nothing else has
written to, those still in `todo` hold what the last Hash says, the others what
the new one says (`Reached`), and while an entry is under way its module counts
among the former, whichever module is active when it arrives (`Entering`).
Another thread that writes puts the module into `loose`, and an entry that goes to
another module's registers puts its own into `misfiled` and the other into
`loose`, so that they disturb neither.

**TrainAcquisition.** All three speak of a filter whose id was read (`limit`).
`Beyond` strengthens `FilterCurrent` to the train under way
and to those that the device has not asked for: whatever is beyond the filter,
when the id was read with the PPT at rest, has the content written last.
`ValidInv` keeps values of older trains from being taken, `KindInv` says the same
of the kind: the results under way that are beyond the filter come from a
processor that has been told.

**SibLink.** `StateInv` joins the socket, the state and what the listener
is about to do, so that nothing is lost between the two assignments of SB 738
and 739. `DialogueInv` says that in the dialogue of `authenticate` there is nothing but
replies under way (`Replies`), because the flush ends only when `LOG 0` has been
handled, and that as long as none was parted it is one command or its whole
reply. `ModeInv` looks for the last `SOM` among the commands
not handled yet (that there is a last one is the least-number principle,
`WFMin` of the library). `RowsInv` says that what the listener has of the stream
and what is under way join to whole rows.

**Configurator.** `ShownInv` holds where the monitor waits. `ApplyInv`: while
nobody interferes one apply `Runs`, and as long as its calls succeed the PPTs
that live are those it waits for, then none, then those it has started, with a
file of `Intended`.

Only model-checked is liveness, which is out of this prover's reach: `Converges`,
`BurstReturns`, `ComesToRest`, `Ends`, `SlotEnds`, `LossNoticed`, `ApplyEnds`.

## Not modelled

* `DsscStateCombiner` (one function without a wait; it masks any ERROR while the
  chiller is in ERROR and the digital input OFF, though it says "check if it
  comes from the chiller") and `DsscASICreset` (a loop over calls of the PPT).
* The values of registers, the IOBR and EPC registers, parsing and writing of
  files and Hashes, the parsing of the SIB's rows.
* The measurements of the trimming device, calls of an external library that
  compute; scenes, register defaults and configuration files, which are data.
* `preDestruction` and `onDestruction`; the setters of `numBurstTrains` and
  `numPreBurstVetos`; setting `availableGainConfigurations`.

## Plan

1. `PptStates`, `DsscControl`, `SoftInterlock` with the proofs of its core,
   `DsscPpt`, `FrameMonitor`; then `TrainAcquisition`, `TrimDevice`,
   `PptRegisters`, `SibLink`, `Configurator`: done.
2. Proofs of every safety property the runs check: done, as listed under Proofs.
