------------------------------- MODULE DsscPpt -------------------------------
(***************************************************************************)
(* The DsscPpt device: its slots, the tasks they post to the event loop,   *)
(* the configuration input and the poll thread, as far as they touch the   *)
(* device state, the acquisition registers and the connection.             *)
(*                                                                         *)
(* Each thread has a program, what it still has to do: a sequence of       *)
(* instructions, one per step that another thread can come between.  A     *)
(* slot is the concatenation of what the functions it calls do.  A section *)
(* under m_accessToPptMutex is one instruction.  The keepers are frames:   *)
(* leaving a scope, by return or by exception, runs their destructors.     *)
(*                                                                         *)
(* DSSC::StateChangeKeeper is not in this repository.  It is taken to do   *)
(* what its uses rely on: it shows CHANGING while it is in scope, and then *)
(* the state it was given or, without one, the state it found.             *)
(***************************************************************************)
EXTENDS Naturals, FiniteSets, Sequences

CONSTANTS
    Threads,    \* "slot": the strand of the slot calls; "data": that of the
                \* configuration input; the others: threads of the event loop
    Slots,      \* the slots and reconfigurations clients use
    RegTypes,   \* the configurations received: "none" (no regType), "register",
                \* "counters" (burst parameters, a sequence of a new length)
    Faults,     \* what can fail: "config", "connect", "disconnect", "call"
    Hamburg,    \* the values of selEnvironment = HAMBURG to start with
    MaxPosts    \* bound on the tasks posted

VARIABLES
    state,      \* the device state
    prog,       \* per thread, the instructions left
    frames,     \* per thread, the keepers in scope, the innermost last
    loaded,     \* m_ppt is not null: the configuration file was valid
    open,       \* the connection to the PPT
    cont,       \* continuous mode, in the PPT
    sending,    \* data sending enabled, in the PPT
    xfel,       \* XFEL control, in the PPT and in the property xfelMode
    hamburg,    \* selEnvironment is HAMBURG: the run is under XFEL control
    burst,      \* m_burstAcquisition
    keep,       \* m_keepPolling
    poller,     \* m_pollThread: none, running, or ended but not joined
    posted,     \* tasks posted and not begun
    posts,      \* tasks posted so far
    terminated, \* std::terminate has been called
    overlapped  \* two threads have had keepers in scope at once

registers == <<loaded, open, cont, sending, xfel, hamburg>>
polling   == <<keep, poller>>
tasks     == <<posted, posts>>
scopes    == <<frames, overlapped>>
vars == <<state, prog, scopes, registers, burst, polling, tasks, terminated>>

Workers == Threads \ {"slot", "data"}

DeviceState == {"INIT", "UNKNOWN", "OPENING", "OFF", "CHANGING", "ON", "STARTED",
                "ACQUIRING", "CLOSING", "ERROR"}
Task == {"initSystem", "updateIOBFirmware", "burst"}
Fault == {"config", "connect", "disconnect", "call"}

ASSUME PptAssumption ==
    /\ "slot" \in Threads /\ IsFiniteSet(Threads)
    /\ RegTypes \subseteq {"none", "register", "counters"}
    /\ Faults \subseteq Fault
    /\ Hamburg \subseteq BOOLEAN
    /\ MaxPosts \in Nat

-----------------------------------------------------------------------------
(* Instructions and the functions made of them *)

Op(name)    == <<[op |-> name]>>
Put(s)      == <<[op |-> "put", to |-> s]>>         \* updateState
Keep(s)     == <<[op |-> "keep", to |-> s]>>        \* StateChangeKeeper(this, s)
Save        == Op("save") \o Put("CHANGING")        \* StateChangeKeeper(this)
Drop        == Op("drop")                           \* end of a keeper's scope
SetAll(new) == <<[op |-> "set", to |-> new]>>
Set(reg, b) == SetAll([r \in {reg} |-> b])
Use         == Op("use")  \* other calls of m_ppt; calls in a row are one
Burst(b)    == <<[op |-> "burst", to |-> b]>>
Post(task)  == <<[op |-> "post", to |-> task]>>

\* Variant: stopping ends in a state of its own.
RunContModeStopped(run) ==
    Keep(IF run THEN "STARTED" ELSE "STOPPED") \o Set("cont", run) \o Drop

RunContMode(run) ==
    Keep(IF run THEN "STARTED" ELSE "ON") \o Set("cont", run) \o Drop

StartPolling == Op("startPolling")
StopPolling  == Op("stopPolling") \o Op("join")

\* Variant: acquisition starts without the poll thread.
RunAcquisitionUnpolled(run) ==
    Keep(IF run THEN "ACQUIRING" ELSE "STARTED") \o Set("sending", TRUE) \o Drop

\* disableSending(false) whether acquisition starts or stops.
RunAcquisition(run) ==
    Keep(IF run THEN "ACQUIRING" ELSE "STARTED") \o Set("sending", TRUE)
        \o (IF run THEN StartPolling ELSE <<>>) \o Drop

\* runXFEL, runStandAlone, and start whatever xfelMode is.
Start == RunContMode(TRUE) \o RunAcquisition(TRUE)

\* "xfel": if m_ppt->isXFELMode(), runContMode(false).
StopAcquisition == Burst(FALSE) \o RunAcquisition(FALSE) \o Op("xfel") \o Use
Stop            == StopAcquisition \o RunContMode(FALSE)

Close    == Put("CLOSING") \o StopPolling \o Op("disconnect") \o Put("UNKNOWN")
ResetAll == StopPolling \o Use
Open     == Op("open") \o Op("setup")

Kept == Save \o Use \o Drop

\* With nested keepers; initIOBs is Kept.
ProgramAllIOBFPGAs == Save \o Use \o Kept \o Drop

UpdateFlash == Save \o StopPolling \o Use \o Drop

ReadFullConfigFile == Op("pause") \o Use \o Drop

\* updateTestEnvironment: MANNHEIM is standalone.
UpdateTestEnvironment(h) == Set("xfel", h) \o Use

-----------------------------------------------------------------------------
(* The slots and the reconfigurations *)

\* Slots that call m_ppt and touch nothing of this model; slots of one kind
\* for each of four boards have one name, and updateConfigHash does its part
\* in a task.
ResetSlots  == {"initChip", "resetEPC", "resetIOBs", "resetASICs"}
BoardSlots  == {"programIOBFPGA"}
LinkSlots   == {"programLMK", "resetAurora"}
ChainSlots  == {"programJTAG", "programPixelRegister", "programPixelRegisterDefault",
                "updateSequencer", "checkAllIOBStatus"}
ManualSlots == {"startManualBurstBtn", "fillSramAndReadout"}
SelRegSlots == {"preProgSelReg", "progSelReg", "readSelReg"}
EPCSlots    == {"programEPCConfig", "readEPCRegisters", "updateStartWaitOffset",
                "programLMKsAuto"}
ConfigSlots == {"programIOBConfig", "readIOBRegisters"}
GuiSlots    == {"updateGuiRegisters", "readLastPPTTrainID", "restorePoweredPixels"}
ClockSlots  == {"programPLL"}
StoreSlots  == {"storeFullConfigFile", "storeFullConfigUnder"}
SaveSlots   == {"saveConfiguration", "saveConfigIOB"}
CheckSlots  == {"checkIOBDataFailed", "checkPPTDataFailed", "checkASICReset",
                "checkQSFPConnected"}
ParamSlots  == {"setBurstParameter", "setSequencerParameter", "setSendingASICs",
                "setThrottleDivider", "loadLastFileETHConfig", "storePoweredPixels"}
HashSlots   == {"updateConfigHash", "updateConfigFromHash"}

\* Reconfigurations of the same kind, by their tags.
RegisterTags == {"epcParam", "ethParam", "enableDatapath", "PLL"}
BoardTags    == {"IOBConfig", "JTAGConfig", "regAccess"}
PathTags     == {"EPCConfigPath", "IOBConfigPath", "ASICConfigPath"}
OtherTags    == {"numFramesToSendOut", "enableDPChannels", "send_dummy_dr_data"}

CallSlots == ResetSlots \cup BoardSlots \cup LinkSlots \cup ChainSlots \cup ManualSlots
    \cup SelRegSlots \cup EPCSlots \cup ConfigSlots \cup GuiSlots \cup ClockSlots
    \cup StoreSlots \cup SaveSlots
    \cup CheckSlots \cup ParamSlots \cup HashSlots
    \cup RegisterTags \cup BoardTags \cup PathTags \cup OtherTags

\* Slots that are a keeper around such calls.
InjectionSlots == {"setNormalMode", "setIntDACMode", "setPixelInjectionMode",
                   "setInjectionMode", "setInjectionValue"}
PixelSlots     == {"setCurrentQuarterOn", "setCurrentColSkipOn"}
CounterSlots   == {"updateSequenceCounters", "programLMKOutput"}
KeptSlots      == InjectionSlots \cup PixelSlots \cup CounterSlots \cup {"resetDatapath"}

RunSlots  == {"startAllChannelsDummyData", "runXFEL", "runStandAlone", "stopStandalone",
              "startAcquisition", "stopAcquisition", "startBurstAcquisition",
              "startSingleCycle"}
InitSlots == {"open", "close", "initSystem", "initSingleModule", "doFastInit",
              "resetAllBtn", "updateFirmwareFlash", "updateLinuxFlash",
              "updateIOBFirmware", "programAllIOBFPGAs", "setQuadrantSetup",
              "fullConfigFileName"}
ModeTags  == {"xfelMode on", "xfelMode off", "continuous_mode on", "continuous_mode off",
              "disable_sending on", "disable_sending off", "HAMBURG", "MANNHEIM"}

Slot == CallSlots \cup KeptSlots \cup RunSlots \cup InitSlots \cup ModeTags

ASSUME SlotsAssumption == Slots \subseteq Slot

\* What each does, in the thread that executes it.
Run(slot) ==
    CASE slot = "startAllChannelsDummyData"       -> Use \o Start
      [] slot \in {"runXFEL", "runStandAlone"}    -> Start
      [] slot = "stopStandalone"        -> RunAcquisition(FALSE) \o RunContMode(FALSE)
      [] slot = "startAcquisition"      -> RunAcquisition(TRUE)
      [] slot = "stopAcquisition"       -> StopAcquisition
      [] slot = "startBurstAcquisition" -> Burst(TRUE) \o Post("burst")
      [] slot = "startSingleCycle"      -> SetAll([r \in {"cont", "sending"} |-> r = "sending"])

Initialise(slot) ==
    CASE slot = "open"  -> Open
      [] slot = "close" -> Close
      [] slot \in Task  -> Post(slot)
      [] slot \in {"doFastInit", "initSingleModule"} -> Keep("ON") \o Use \o Drop
      [] slot = "resetAllBtn" -> Save \o ResetAll \o Drop
      [] slot \in {"updateFirmwareFlash", "updateLinuxFlash"} -> UpdateFlash
      [] slot = "programAllIOBFPGAs" -> ProgramAllIOBFPGAs
      [] slot = "setQuadrantSetup" ->
             Set("hamburg", TRUE) \o UpdateTestEnvironment(TRUE)
      [] slot = "fullConfigFileName" -> ReadFullConfigFile

\* Of the environment the property is set last.
Reconfigure(tag) ==
    CASE tag = "xfelMode on"         -> Set("xfel", TRUE)
      [] tag = "xfelMode off"        -> Set("xfel", FALSE)
      [] tag = "continuous_mode on"  -> Set("cont", TRUE)
      [] tag = "continuous_mode off" -> Set("cont", FALSE)
      [] tag = "disable_sending on"  -> Set("sending", FALSE)
      [] tag = "disable_sending off" -> Set("sending", TRUE)
      [] tag = "HAMBURG"             -> UpdateTestEnvironment(TRUE) \o Set("hamburg", TRUE)
      [] tag = "MANNHEIM"            -> UpdateTestEnvironment(FALSE) \o Set("hamburg", FALSE)

Body(slot) ==
    CASE slot \in CallSlots -> Use
      [] slot \in KeptSlots -> Kept
      [] slot \in RunSlots  -> Run(slot)
      [] slot \in InitSlots -> Initialise(slot)
      [] slot \in ModeTags  -> Reconfigure(slot)

Acquisition == {"STARTED", "ACQUIRING"}
Connected   == {"OFF", "ON"}

\* Variant: every slot may be called in every state.
AllowedAlways(slot) == DeviceState \ {"INIT"}

\* allowedStates; STOPPED, which no code sets, is left out.
Allowed(slot) ==
    CASE slot = "open" -> {"UNKNOWN"}
      [] slot = "setQuadrantSetup" -> {"UNKNOWN", "OFF"}
      [] slot \in BoardSlots \cup {"updateIOBFirmware", "updateFirmwareFlash",
                   "updateLinuxFlash", "programAllIOBFPGAs"} -> {"OFF"}
      [] slot \in {"runXFEL", "runStandAlone", "startBurstAcquisition"}
                   \cup LinkSlots \cup ChainSlots \cup ManualSlots -> {"ON"}
      [] slot \in ResetSlots \cup {"close", "startAllChannelsDummyData", "initSystem",
                   "initSingleModule", "doFastInit", "startSingleCycle", "resetAllBtn",
                   "resetDatapath", "xfelMode on", "xfelMode off"} -> Connected
      [] slot \in {"stopStandalone", "startAcquisition"} -> {"STARTED"}
      [] slot = "stopAcquisition" -> {"ACQUIRING"}
      [] slot \in SelRegSlots \cup EPCSlots \cup CounterSlots -> {"ON"} \cup Acquisition
      [] slot \in GuiSlots \cup ClockSlots \cup InjectionSlots \cup PixelSlots ->
             Connected \cup Acquisition
      [] slot \in StoreSlots -> {"UNKNOWN"} \cup Connected \cup Acquisition
      [] OTHER -> DeviceState \ {"INIT"}

\* The boards are programmed when none is found. Where initSystem_impl catches
\* an exception it goes on with the next call; here it ends at once, with the
\* same states.
TaskBody(task, boards) ==
    CASE task = "initSystem" ->
             Keep("ON") \o ResetAll
                 \o (IF boards THEN <<>> ELSE ProgramAllIOBFPGAs \o Use) \o Drop
      [] task = "updateIOBFirmware" -> UpdateFlash
      [] task = "burst"             -> Start \o Use \o Op("trains")

\* receiveRegisterConfiguration; "counters" ends in updateSequenceCounters.
DataBody(regType) ==
    Save \o (CASE regType = "none"     -> <<>>
               [] regType = "register" -> Use
               [] regType = "counters" -> Kept) \o Drop

-----------------------------------------------------------------------------
(* Steps *)

Running(t) == ~terminated /\ prog[t] # <<>>
At(t, op)  == Running(t) /\ Head(prog[t]).op = op
Arg(t)     == Head(prog[t]).to
Goto(t, p) == prog' = [prog EXCEPT ![t] = p]
Continue(t, before) == Goto(t, before \o Tail(prog[t]))
Advance(t) == Continue(t, <<>>)

Frame(kind, s) == [kind |-> kind, to |-> s]
Top(t)      == frames[t][Len(frames[t])]
Popped(t)   == SubSeq(frames[t], 1, Len(frames[t]) - 1)

\* Two threads have a keeper in scope: it is there from the moment it has read
\* the state, that of a ContModeKeeper while its constructor runs.
Overlap ==
    LET keeping == {t \in Threads : \/ frames[t] # <<>>
                                    \/ \E i \in DOMAIN prog[t] : prog[t][i].op = "paused"}
    IN  Cardinality(keeping) > 1

\* A keeper enters the scope; after the instruction has been taken.
Push(t, f) == /\ frames' = [frames EXCEPT ![t] = Append(@, f)]
              /\ overlapped' = (overlapped \/ Overlap')

\* updateState
PutState(t) ==
    /\ At(t, "put")
    /\ state' = Arg(t)
    /\ Advance(t)
    /\ UNCHANGED <<scopes, registers, burst, polling, tasks, terminated>>

KeepState(t) ==
    /\ At(t, "keep")
    /\ Advance(t)
    /\ Push(t, Frame("state", Arg(t)))
    /\ state' = "CHANGING"
    /\ UNCHANGED <<registers, burst, polling, tasks, terminated>>

\* getState() and updateState(CHANGING) of the other constructor are two
\* steps.
SaveState(t) ==
    /\ At(t, "save")
    /\ Advance(t)
    /\ Push(t, Frame("state", state))
    /\ UNCHANGED <<state, registers, burst, polling, tasks, terminated>>

\* The constructor of ContModeKeeper, up to where the keeper exists.
Pause(t) ==
    /\ At(t, "pause")
    /\ Continue(t, (IF state = "ACQUIRING" THEN RunAcquisition(FALSE) ELSE <<>>)
                   \o (IF state \in Acquisition THEN RunContMode(FALSE) ELSE <<>>)
                   \o <<[op |-> "paused", to |-> state]>>)
    /\ UNCHANGED <<state, frames, registers, burst, polling, tasks, terminated>>
    /\ overlapped' = (overlapped \/ Overlap')

Paused(t) ==
    /\ At(t, "paused")
    /\ Advance(t)
    /\ Push(t, Frame("cont", Arg(t)))
    /\ state' = "CHANGING"
    /\ UNCHANGED <<registers, burst, polling, tasks, terminated>>

\* Variant: the keeper does not put back the state.
DropStateForgets(t) ==
    /\ At(t, "drop") /\ Top(t).kind # "cont"
    /\ frames' = [frames EXCEPT ![t] = Popped(t)]
    /\ Advance(t)
    /\ UNCHANGED <<overlapped, state, registers, burst, polling, tasks, terminated>>

\* The destructor of a StateChangeKeeper, and the end of ContModeKeeper's.
DropState(t) ==
    /\ At(t, "drop") /\ Top(t).kind # "cont"
    /\ state' = Top(t).to
    /\ frames' = [frames EXCEPT ![t] = Popped(t)]
    /\ Advance(t)
    /\ UNCHANGED <<overlapped, registers, burst, polling, tasks, terminated>>

\* Variant: the destructor restores the state without restarting.
ResumeNothing(t) ==
    /\ At(t, "drop") /\ Top(t).kind = "cont"
    /\ frames' = [frames EXCEPT ![t] = Append(Popped(t), Frame("destructor", Top(t).to))]
    /\ UNCHANGED <<overlapped, state, prog, registers, burst, polling, tasks, terminated>>

\* The destructor of ContModeKeeper restarts what its constructor stopped.
Resume(t) ==
    /\ At(t, "drop") /\ Top(t).kind = "cont"
    /\ frames' = [frames EXCEPT ![t] = Append(Popped(t), Frame("destructor", Top(t).to))]
    /\ Goto(t, (IF Top(t).to \in Acquisition THEN RunContMode(TRUE) ELSE <<>>)
               \o (IF Top(t).to = "ACQUIRING" THEN RunAcquisition(TRUE) ELSE <<>>)
               \o prog[t])
    /\ UNCHANGED <<overlapped, state, registers, burst, polling, tasks, terminated>>

Calls(t) == At(t, "set") \/ At(t, "use")

\* A call of m_ppt under the mutex.
CallPpt(t) ==
    /\ Calls(t) /\ loaded
    /\ LET new(reg, old) == IF At(t, "set") /\ reg \in DOMAIN Arg(t) THEN Arg(t)[reg] ELSE old
       IN  /\ cont' = new("cont", cont)
           /\ sending' = new("sending", sending)
           /\ xfel' = new("xfel", xfel)
           /\ hamburg' = new("hamburg", hamburg)
    /\ Advance(t)
    /\ UNCHANGED <<state, scopes, loaded, open, burst, polling, tasks, terminated>>

\* An exception runs the destructors of the keepers in scope; one that leaves
\* a destructor terminates the program.
Throw(t) ==
    IF \E i \in DOMAIN frames[t] : frames[t][i].kind = "destructor"
    THEN terminated' = TRUE /\ UNCHANGED prog
    ELSE /\ Goto(t, [i \in DOMAIN frames[t] |-> Drop[1]])
         /\ UNCHANGED terminated

CallThrows(t) ==
    /\ "call" \in Faults
    /\ Calls(t) /\ loaded
    /\ Throw(t)
    /\ UNCHANGED <<state, scopes, registers, burst, polling, tasks>>

\* After an invalid configuration file m_ppt is null.
CallNull(t) ==
    /\ Calls(t) /\ ~loaded
    /\ terminated' = TRUE
    /\ UNCHANGED <<state, prog, scopes, registers, burst, polling, tasks>>

SetBurst(t) ==
    /\ At(t, "burst")
    /\ burst' = Arg(t)
    /\ Advance(t)
    /\ UNCHANGED <<state, scopes, registers, polling, tasks, terminated>>

IfXfelMode(t) ==
    /\ At(t, "xfel")
    /\ Continue(t, IF xfel THEN RunContMode(FALSE) ELSE <<>>)
    /\ UNCHANGED <<state, scopes, registers, burst, polling, tasks, terminated>>

PostTask(t) ==
    /\ At(t, "post")
    /\ posted' = Append(posted, Arg(t))
    /\ posts' = posts + 1
    /\ Advance(t)
    /\ UNCHANGED <<state, scopes, registers, burst, polling, terminated>>

\* Variant: the burst ends without stopping the acquisition.
BurstDoneSilently(t) ==
    /\ At(t, "trains") /\ burst
    /\ burst' = FALSE
    /\ UNCHANGED <<state, prog, scopes, registers, polling, tasks, terminated>>

\* Enough trains have been seen; then the loop looks at the flag again.
BurstDone(t) ==
    /\ At(t, "trains") /\ burst
    /\ burst' = FALSE
    /\ Goto(t, Stop \o prog[t])
    /\ UNCHANGED <<state, scopes, registers, polling, tasks, terminated>>

\* The flag has been cleared: nothing is left to do.
BurstOver(t) ==
    /\ At(t, "trains") /\ ~burst
    /\ Advance(t)
    /\ UNCHANGED <<state, scopes, registers, burst, polling, tasks, terminated>>

-----------------------------------------------------------------------------
(* The connection and the poll thread *)

OpenConnection(t) ==
    /\ At(t, "open")
    /\ Continue(t, IF open THEN <<>> ELSE Put("OPENING") \o Op("connect"))
    /\ UNCHANGED <<state, scopes, registers, burst, polling, tasks, terminated>>

Connect(t) ==
    /\ At(t, "connect")
    /\ open' = TRUE
    /\ Advance(t)
    /\ UNCHANGED <<state, scopes, loaded, cont, sending, xfel, hamburg, burst, polling, tasks, terminated>>

ConnectFails(t) ==
    /\ At(t, "connect") /\ "connect" \in Faults
    /\ Continue(t, Close \o Put("UNKNOWN"))
    /\ UNCHANGED <<state, scopes, registers, burst, polling, tasks, terminated>>

\* resetAll, programPLL, reading the hardware's properties and the environment.
Setup(t) ==
    /\ At(t, "setup")
    /\ Continue(t, IF open THEN ResetAll \o UpdateTestEnvironment(hamburg) \o Put("OFF") ELSE <<>>)
    /\ UNCHANGED <<state, scopes, registers, burst, polling, tasks, terminated>>

Disconnect(t) ==
    /\ At(t, "disconnect")
    /\ open' = FALSE
    /\ Advance(t)
    /\ UNCHANGED <<state, scopes, loaded, cont, sending, xfel, hamburg, burst, polling, tasks, terminated>>

\* The state is ERROR until close() ends with UNKNOWN.
DisconnectFails(t) ==
    /\ At(t, "disconnect") /\ "disconnect" \in Faults
    /\ open' \in {open, FALSE}
    /\ Continue(t, Put("ERROR"))
    /\ UNCHANGED <<state, scopes, loaded, cont, sending, xfel, hamburg, burst, polling, tasks, terminated>>

\* Variant: polling is started whatever the flag says.
StartPollingAgain(t) ==
    /\ At(t, "startPolling")
    /\ Continue(t, Op("spawn"))
    /\ UNCHANGED <<state, scopes, registers, burst, polling, tasks, terminated>>

CheckPolling(t) ==
    /\ At(t, "startPolling")
    /\ Continue(t, IF keep THEN <<>> ELSE Op("spawn"))
    /\ UNCHANGED <<state, scopes, registers, burst, polling, tasks, terminated>>

\* Replacing a thread object that has not been joined terminates the program.
SpawnPoller(t) ==
    /\ At(t, "spawn")
    /\ keep' = TRUE
    /\ IF poller = "none" THEN poller' = "running" /\ UNCHANGED terminated
                          ELSE terminated' = TRUE /\ UNCHANGED poller
    /\ Advance(t)
    /\ UNCHANGED <<state, scopes, registers, burst, tasks>>

ClearPolling(t) ==
    /\ At(t, "stopPolling")
    /\ keep' = FALSE
    /\ Advance(t)
    /\ UNCHANGED <<state, scopes, registers, burst, poller, tasks, terminated>>

JoinPoller(t) ==
    /\ At(t, "join") /\ poller # "running"
    /\ poller' = "none"
    /\ Advance(t)
    /\ UNCHANGED <<state, scopes, registers, burst, keep, tasks, terminated>>

\* Two threads join the same thread: the second is refused.
JoinTwice(t) ==
    /\ At(t, "join") /\ poller # "none"
    /\ \E u \in Threads \ {t} : At(u, "join")
    /\ Throw(t)
    /\ UNCHANGED <<state, scopes, registers, burst, polling, tasks>>

PollerEnds ==
    /\ ~terminated /\ poller = "running" /\ ~keep
    /\ poller' = "ended"
    /\ UNCHANGED <<state, prog, scopes, registers, burst, keep, tasks, terminated>>

\* A read throws: the thread ends, m_keepPolling stays set.
PollerThrows ==
    /\ ~terminated /\ "call" \in Faults /\ poller = "running"
    /\ poller' = "ended"
    /\ UNCHANGED <<state, prog, scopes, registers, burst, keep, tasks, terminated>>

-----------------------------------------------------------------------------
(* Callers *)

Posts(slot) == slot \in Task \cup {"startBurstAcquisition"}

\* A slot call or a reconfiguration, when the strand is free.
Call(slot) ==
    /\ ~terminated /\ prog["slot"] = <<>>
    /\ state \in Allowed(slot)
    /\ Posts(slot) => posts < MaxPosts
    /\ Goto("slot", Body(slot))
    /\ UNCHANGED <<state, scopes, registers, burst, polling, tasks, terminated>>

Receive ==
    /\ "data" \in Threads /\ ~terminated /\ prog["data"] = <<>>
    /\ state # "INIT"
    /\ \E regType \in RegTypes : Goto("data", DataBody(regType))
    /\ UNCHANGED <<state, scopes, registers, burst, polling, tasks, terminated>>

BeginTask(w) ==
    /\ ~terminated /\ prog[w] = <<>> /\ posted # <<>>
    /\ \E boards \in BOOLEAN : Goto(w, TaskBody(Head(posted), boards))
    /\ posted' = Tail(posted)
    /\ UNCHANGED <<state, scopes, registers, burst, polling, posts, terminated>>

\* initialize() validates the configuration file and connects.
Init ==
    /\ state = "INIT"
    /\ loaded \in {TRUE, "config" \notin Faults}
    /\ prog = [t \in Threads |-> IF t # "slot" THEN <<>>
                                 ELSE IF loaded THEN Open ELSE Put("ERROR")]
    /\ frames = [t \in Threads |-> <<>>]
    /\ open = FALSE /\ cont = FALSE /\ sending = FALSE
    /\ xfel \in BOOLEAN /\ hamburg \in Hamburg
    /\ burst = FALSE
    /\ keep = FALSE /\ poller = "none"
    /\ posted = <<>> /\ posts = 0
    /\ terminated = FALSE /\ overlapped = FALSE

Step(t) ==
    \/ PutState(t) \/ KeepState(t) \/ SaveState(t) \/ DropState(t)
    \/ Pause(t) \/ Paused(t) \/ Resume(t)
    \/ CallPpt(t) \/ CallThrows(t) \/ CallNull(t)
    \/ SetBurst(t) \/ IfXfelMode(t)
    \/ PostTask(t) \/ BurstDone(t) \/ BurstOver(t)
    \/ OpenConnection(t) \/ Connect(t) \/ ConnectFails(t) \/ Setup(t)
    \/ Disconnect(t) \/ DisconnectFails(t)
    \/ CheckPolling(t) \/ SpawnPoller(t) \/ ClearPolling(t)
    \/ JoinPoller(t) \/ JoinTwice(t)

Next ==
    \/ \E t \in Threads : Step(t)
    \/ PollerEnds \/ PollerThrows
    \/ \E slot \in Slots : Call(slot)
    \/ Receive
    \/ \E w \in Workers : BeginTask(w)

Spec == Init /\ [][Next]_vars

\* Every thread is scheduled, trains keep coming, and the poll thread looks at
\* its flag every five seconds.
Fairness == /\ \A t \in Threads : WF_vars(Step(t))
            /\ \A w \in Workers : WF_vars(BeginTask(w))
            /\ WF_vars(PollerEnds)

FairSpec == Spec /\ Fairness

-----------------------------------------------------------------------------
(* Properties *)

Register == {"cont", "sending", "xfel", "hamburg"}

Instruction ==
    [op : {"save", "drop", "use", "startPolling", "spawn", "stopPolling", "join",
           "xfel", "trains", "open", "connect", "setup", "disconnect", "pause"}]
    \cup [op : {"put", "keep", "paused"}, to : DeviceState]
    \cup [op : {"post"}, to : Task]
    \cup [op : {"burst"}, to : BOOLEAN]
    \cup [op : {"set"}, to : UNION {[R -> BOOLEAN] : R \in SUBSET Register}]

TypeOK ==
    /\ state \in DeviceState
    /\ prog \in [Threads -> Seq(Instruction)]
    /\ frames \in [Threads -> Seq([kind : {"state", "cont", "destructor"},
                                   to : DeviceState])]
    /\ registers \in BOOLEAN \X BOOLEAN \X BOOLEAN \X BOOLEAN \X BOOLEAN \X BOOLEAN
    /\ burst \in BOOLEAN
    /\ keep \in BOOLEAN /\ poller \in {"none", "running", "ended"}
    /\ posted \in Seq(Task) /\ posts \in 0..MaxPosts
    /\ terminated \in BOOLEAN /\ overlapped \in BOOLEAN

\* Nothing runs and nothing waits to run, but the poll thread.
Idle == /\ ~terminated /\ posted = <<>>
        /\ \A t \in Threads : prog[t] = <<>>

\* Between slot calls the published state tells whether the PPT is in
\* continuous mode, whatever sequence of slots led there, as long as none of them
\* posts a task and none of the reconfigurations is used that change the mode
\* behind the state (setting continuous_mode or disable_sending).
StateTellsMode == Idle => (cont <=> state \in Acquisition)

\* A device that acquires is polled and sends (runAcquisition, 1812-1825), and
\* "stop polling before closing the connection" (2542): the hardware is never
\* polled without one.  Of the same sequences of slots, and of a poll thread that
\* no exception has ended.
PollingFollows ==
    /\ Idle /\ state = "ACQUIRING" => keep /\ sending
    /\ poller = "running" => open

\* The thread object is never replaced unjoined, and no exception leaves a
\* destructor.
NoTerminate == ~terminated

\* However slots, posted tasks and configurations end, by return or by an
\* exception in any of their calls, their keepers are gone, and the idle
\* device is left CHANGING by nothing but keepers of two threads that overlap.
KeepersUnwind ==
    /\ \A t \in Threads : prog[t] = <<>> => frames[t] = <<>>
    /\ Idle /\ state = "CHANGING" => overlapped

\* Slots and tasks whose keepers name the state to end with leave the device
\* in a state a client can call slots in, however they overlap.  Keepers that
\* save the state they find do not, as they may find CHANGING.
NeverStuck == Idle => state \in {"UNKNOWN", "OFF", "ON", "STARTED", "ACQUIRING"}

\* A burst in XFEL mode, nothing else posted, ends with the device back in ON
\* and the PPT out of continuous mode, whether its trains run out,
\* stopAcquisition comes first or both stop it at once.
BurstReturns ==
    [](posts <= 1) => (burst /\ xfel ~> Idle /\ state = "ON" /\ ~cont)

\* The device shows its clients the chain of states of PptStates.
P == INSTANCE PptStates
StateChain == P!Spec

=============================================================================
