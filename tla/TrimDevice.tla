------------------------------ MODULE TrimDevice ------------------------------
(***************************************************************************)
(* The slots of DsscLadderParameterTrimming: the device state, the state   *)
(* of the PPT it starts and stops, the trimmer that stopTrimming aborts,   *)
(* the recording of raw data and the injection mode.                       *)
(*                                                                         *)
(* No slot has allowedStates.  One slot runs at a time, but stopTrimming   *)
(* comes from another client while it runs.  A slot is a program: a        *)
(* sequence of instructions, the concatenation of what the functions it    *)
(* calls do; its StateChangeKeepers are frames, and leaving a scope, by    *)
(* return or by exception, runs their destructors.  What an acquisition    *)
(* returns is the subject of TrainAcquisition.                             *)
(***************************************************************************)
EXTENDS Naturals, FiniteSets, Sequences

CONSTANTS
    Slots,        \* the slots and reconfigurations clients use
    Settings,     \* bound on the settings a trimmer measures
    Tries,        \* TRY_CNT of triggerPptInitFunction
    MaxFaults     \* bound on remote calls that fail and what the PPT does of itself

VARIABLES
    state,        \* the device state
    doing,        \* the slot that runs
    prog,         \* the instructions it has left
    frames,       \* what its keepers put back, the innermost last
    \* members
    saveRaw,      \* m_saveRawData
    trimmer,      \* m_currentTrimmer is not null
    runTrimming,  \* m_trimppt_api->runTrimming
    injection,    \* m_trimppt_api->injectionMode
    \* other devices
    recording,    \* saveToHDF5 of the DsscDataReceiver
    ppt,          \* the state of the PPT; "gone" without a device
    told,         \* the injection mode of the PPT
    posted,       \* the initSystem tasks of the PPT that have not begun
    \* not in the code
    nfaults,      \* how often remote calls failed and the PPT was moved by others
    left,         \* what slots that ended early have left behind, see Leavings
    alone,        \* the last slot is numFramesToReceive, no remote call of it has
                  \* failed and the PPT has not been moved by others since
    unsure        \* injection mode and PPT were parted by a new configuration or PPT,
                  \* or by a call that was executed but not answered

slot    == <<doing, prog, frames>>
members == <<saveRaw, trimmer, runTrimming, injection>>
others  == <<recording, ppt, told, posted>>
ghosts  == <<nfaults, left, alone, unsure>>
vars == <<state, slot, members, others, ghosts>>

DeviceState == {"STARTING", "OFF", "CHANGING", "ACQUIRING", "STOPPING", "ERROR"}
PptState    == {"gone", "UNKNOWN", "OFF", "ON", "STARTED", "ACQUIRING", "ERROR", "CHANGING"}
InjectionMode == {"NORM", "INJ"}

\* "begin": the initialization was not finished; "trimmer": m_currentTrimmer
\* dangles; "recording": the receiver goes on; "raw": m_saveRawData stays set.
Leavings == {"begin", "trimmer", "recording", "raw"}

-----------------------------------------------------------------------------
(* Instructions and the functions made of them *)

Op(name)  == <<[op |-> name]>>
With(name, to) == <<[op |-> name, to |-> to]>>
Put(s)    == With("put", s)          \* changeDeviceState
Kept(body) == Op("keep") \o body \o Op("drop")  \* StateChangeKeeper keeper(this)
Use       == Op("use")               \* remote calls that may throw
Call(f)   == With("call", f)         \* remote().execute(m_pptDeviceId, f)

\* waitDataReceived, and what calls it.  measureBurstData starts the recording.
Acquire     == Op("acquire")
BurstData   == Op("record") \o Use \o Acquire
PixelData   == Use \o Acquire

Trigger(from, f, times) == With("trigger", [from |-> from, call |-> f, times |-> times])

StartPptDevice ==
    Trigger("ERROR", "open", 1) \o Trigger("UNKNOWN", "open", 1)
        \o Trigger("OFF", "initSystem", Tries)
        \o Trigger("ON", "runStandAlone", Tries)
        \o Trigger("STARTED", "startAcquisition", Tries)

StopPpt == With("ifPpt", [is |-> "ACQUIRING", call |-> "stopAcquisition"])
           \o With("ifPpt", [is |-> "STARTED", call |-> "stopStandalone"])

\* Variant: what is stopped is not started again.
RunContinuousModeStops(run) == StopPpt

RunContinuousMode(run) == IF run THEN StartPptDevice ELSE StopPpt

\* isPPTDeviceAvailable
PptAvailable == Op("instance") \o StartPptDevice \o Op("acquires")

\* checkPPTInputConnected asks isPPTDeviceAvailable a second time.
AllDevicesAvailable == PptAvailable \o PptAvailable \o Op("receivers")

Available == With("available", TRUE)

SetActiveModule == Use

\* The keeper, and the mode if it is another one.
SetSelectedInjectionMode == Kept(SetActiveModule \o Op("inject"))

InitTrimming == SetSelectedInjectionMode \o SetActiveModule

GetNewChipTrimmer == Op("newTrimmer") \o Use \o Op("range")

\* A trimmer measures setting after setting; then it is forgotten.
Trimming(after) == GetNewChipTrimmer \o With("trim", Settings) \o after \o Op("forget")

\* A pattern is read back if the PPT is ON.
FillSramAndReadout == With("fill", StopPpt \o Call("fillSramAndReadout") \o StopPpt
                                   \o Call("fillSramAndReadout") \o Acquire)

-----------------------------------------------------------------------------
(* The slots and the reconfigurations *)

\* Registers are programmed, or files are read; waitJTAGEngineDone swallows
\* what it throws.
ProgramSlots == {"enableInjectionInSelPixels", "setCoarseGainSettings", "powerUpSelPixels",
                 "addValueToPxRegSignal", "enableMonBusInCols", "setBufferMode",
                 "setGainConfigurationFromFitResultsFile", "setSelectedGainConfig"}

FileSlots    == {"importBinningInformationFile", "importADCGainMapFile",
                 "importSpektrumFitResultsFile", "computeTargetGainADCConfiguration",
                 "displayBinValuesOfPixel", "clearBaseline"}

\* Measurements of a kind, with and without a keeper.
MeasureSlots == {"measureBurstData", "measureBurstOffsetSweep", "setBaseline",
                 "calibrateCurrCompDAC", "measureMeanSramContent",
                 "measureMeanSramContentAllPix", "generateSramBlacklist", "acquireImage",
                 "acquireHistogram", "doSingleCycle2", "matrixSRAMTest",
                 "fillSramAndReadoutPattern"}

TrimSlots    == {"runPixelDelayTrimming", "runGainTrimming", "measureInjectionSweepSlopes",
                 "measureADCGainMap", "measureBinningInformation"}

Tags         == {"numFramesToReceive", "activeModule", "sendingASICs", "numIterations",
                 "fullConfigFileName"}

Slot == ProgramSlots \cup FileSlots \cup MeasureSlots \cup TrimSlots \cup Tags
        \cup {"setSelectedInjectionMode"}

ASSUME TrimAssumption ==
    /\ Slots \subseteq Slot
    /\ Settings \in Nat \ {0} /\ Tries \in Nat \ {0}
    /\ MaxFaults \in Nat

MeasureBinningInformation == Kept(Put("ACQUIRING") \o Trimming(Use))

RunPixelDelayTrimming == Kept(AllDevicesAvailable \o Available \o InitTrimming \o PixelData)

RunGainTrimming ==
    Kept(Put("ACQUIRING") \o Use \o AllDevicesAvailable \o Available \o InitTrimming
         \o Trimming(<<>>))

MeasureInjectionSweepSlopes ==
    Kept(Op("require") \o SetSelectedInjectionMode \o Trimming(Use))

\* Variant: the trimmer is not forgotten.
MeasureADCGainMapRemembers ==
    Kept(Op("initRaw") \o GetNewChipTrimmer \o With("trim", Settings) \o Op("finishRaw"))

MeasureADCGainMap == Kept(Op("initRaw") \o Trimming(Op("finishRaw")))

AcquireDisplayData == Kept(PixelData)
AcquireImage == Use \o AcquireDisplayData
MeasureMeanSramContent == Kept(Op("require") \o PixelData)
MeasureMeanSramContentAllPix == Kept(PixelData)
GenerateSramBlacklist == MeasureMeanSramContentAllPix \o Use
MeasureBurstOffsetSweep == Kept(Op("require") \o BurstData)

\* Two patterns of five: the others are tried all the same.
MatrixSRAMTest == StopPpt \o FillSramAndReadout \o FillSramAndReadout

\* The configuration file is not valid, or the interface is made anew.  In the
\* end OFF follows ERROR in `initialization`, and nothing in a reconfiguration.
InitMultiModuleInterface(after) ==
    Op("load") \o AllDevicesAvailable \o With("complete", TRUE) \o Use \o SetActiveModule \o after

Reconfigure(tag) ==
    CASE tag = "numFramesToReceive" ->
             With("exists", RunContinuousMode(FALSE) \o Use \o RunContinuousMode(TRUE)) \o Use
      [] tag = "activeModule" -> SetActiveModule
      [] tag \in {"sendingASICs", "numIterations"} -> Use
      [] tag = "fullConfigFileName" -> InitMultiModuleInterface(<<>>)

Body(s) ==
    CASE s = "setSelectedGainConfig"        -> Kept(Use)
      [] s \in ProgramSlots                 -> Use
      [] s \in FileSlots                    -> <<>>
      [] s \in Tags                         -> Reconfigure(s)
      [] s = "setSelectedInjectionMode"     -> SetSelectedInjectionMode
      [] s = "measureBurstData"             -> Kept(BurstData)
      [] s = "measureBurstOffsetSweep"      -> MeasureBurstOffsetSweep
      [] s \in {"setBaseline", "calibrateCurrCompDAC"} -> BurstData
      [] s = "measureMeanSramContent"       -> MeasureMeanSramContent
      [] s = "measureMeanSramContentAllPix" -> MeasureMeanSramContentAllPix
      [] s = "generateSramBlacklist"        -> GenerateSramBlacklist
      [] s = "acquireImage"                 -> AcquireImage
      [] s = "acquireHistogram"             -> AcquireDisplayData
      [] s = "doSingleCycle2"               -> PixelData
      [] s = "matrixSRAMTest"               -> MatrixSRAMTest
      [] s = "fillSramAndReadoutPattern"    -> FillSramAndReadout
      [] s = "runPixelDelayTrimming"        -> RunPixelDelayTrimming
      [] s = "runGainTrimming"              -> RunGainTrimming
      [] s = "measureInjectionSweepSlopes"  -> MeasureInjectionSweepSlopes
      [] s = "measureADCGainMap"            -> MeasureADCGainMap
      [] s = "measureBinningInformation"    -> MeasureBinningInformation

-----------------------------------------------------------------------------
(* Steps *)

Running    == prog # <<>>
At(op)     == Running /\ Head(prog).op = op
Arg        == Head(prog).to
Goto(p)    == prog' = p /\ doing' = IF p = <<>> THEN "none" ELSE doing
Continue(before) == Goto(before \o Tail(prog))
Advance    == Continue(<<>>)

\* `return`, and an exception: nothing is left but the destructors.
Leave == Goto([i \in DOMAIN frames |-> Op("drop")[1]])

PutState ==
    /\ At("put")
    /\ state' = Arg
    /\ Advance
    /\ UNCHANGED <<frames, members, others, ghosts>>

\* Variant: the state is read when it has been overwritten.
KeepLate ==
    /\ At("keep")
    /\ frames' = Append(frames, "CHANGING")
    /\ state' = "CHANGING"
    /\ Advance
    /\ UNCHANGED <<members, others, ghosts>>

KeepState ==
    /\ At("keep")
    /\ frames' = Append(frames, state)
    /\ state' = "CHANGING"
    /\ Advance
    /\ UNCHANGED <<members, others, ghosts>>

DropState ==
    /\ At("drop")
    /\ state' = frames[Len(frames)]
    /\ frames' = SubSeq(frames, 1, Len(frames) - 1)
    /\ Advance
    /\ UNCHANGED <<members, others, ghosts>>

Remote == Running /\ Head(prog).op \in {"use", "acquire", "call", "tell", "receivers"}

UseRemote ==
    /\ At("use")
    /\ Advance
    /\ UNCHANGED <<state, frames, members, others, ghosts>>

\* Raw data go on being wanted.
LeftEarly == left' = left \cup {w \in {"raw"} : saveRaw}

\* What is left behind by an exception.
Behind ==
    {w \in Leavings : \/ w = "begin" /\ state = "STARTING"
                      \/ w = "trimmer" /\ trimmer
                      \/ w = "recording" /\ recording
                      \/ w = "raw" /\ saveRaw}

\* A remote call throws: refused, no answer, no such device.
Throws ==
    /\ Leave
    /\ left' = left \cup Behind
    /\ UNCHANGED <<state, frames, members, recording, ppt, posted>>

Fails == nfaults < MaxFaults /\ nfaults' = nfaults + 1 /\ alone' = FALSE

RemoteThrows ==
    /\ Remote /\ Fails
    /\ Throws /\ UNCHANGED <<told, unsure>>

\* The PPT has taken the mode, but the answer comes too late.
ToldInVain ==
    /\ At("tell") /\ ppt # "gone" /\ Fails
    /\ told' = Arg /\ unsure' = TRUE
    /\ Throws

\* A pixel does not send, no injection mode is selected.
Require ==
    /\ At("require")
    /\ Advance \/ Leave
    /\ UNCHANGED <<state, frames, members, others, ghosts>>

-----------------------------------------------------------------------------
(* Measuring *)

\* saveToHDF5 is set for a measurement whose raw data are wanted,
Record ==
    /\ At("record")
    /\ recording' = (recording \/ saveRaw)
    /\ Advance
    /\ UNCHANGED <<state, frames, members, ppt, told, posted, ghosts>>

\* Variant: only a measurement that succeeds ends the recording.
AcquireInTime ==
    /\ At("acquire")
    /\ \E inTime \in BOOLEAN :
         /\ recording' = (recording /\ ~(saveRaw /\ inTime))
         /\ left' = IF saveRaw /\ inTime THEN left \ {"recording"} ELSE left
    /\ Advance
    /\ UNCHANGED <<state, frames, members, ppt, told, posted, nfaults, alone, unsure>>

\* and reset when it is over, in time or not.
AcquireData ==
    /\ At("acquire")
    /\ recording' = (recording /\ ~saveRaw)
    /\ left' = IF saveRaw THEN left \ {"recording"} ELSE left
    /\ Advance
    /\ UNCHANGED <<state, frames, members, ppt, told, posted, nfaults, alone, unsure>>

\* If raw data are to be saved, with data of the DsscDataReceiver,
InitRaw ==
    /\ At("initRaw")
    /\ \/ saveRaw' = TRUE  /\ left' = left \ {"raw"} /\ Continue(Use)
       \/ saveRaw' = FALSE /\ left' = left \ {"raw"} /\ Advance
       \/ UNCHANGED <<saveRaw, left>> /\ Advance
    /\ UNCHANGED <<state, frames, trimmer, runTrimming, injection, others, nfaults, alone, unsure>>

\* and if saveTrimmingRawData, that can be changed in between, is set in the end.
FinishRaw ==
    /\ At("finishRaw")
    /\ \/ saveRaw' = FALSE /\ left' = left \ {"raw"}
       \/ LeftEarly /\ UNCHANGED saveRaw
    /\ Advance
    /\ UNCHANGED <<state, frames, trimmer, runTrimming, injection, others, nfaults, alone, unsure>>

\* An abort from before is lost.
NewTrimmer ==
    /\ At("newTrimmer")
    /\ runTrimming' = TRUE
    /\ Advance
    /\ UNCHANGED <<state, frames, saveRaw, trimmer, injection, others, ghosts>>

GoodRange ==
    /\ At("range")
    /\ trimmer' = TRUE
    /\ left' = left \ {"trimmer"}
    /\ Advance
    /\ UNCHANGED <<state, frames, saveRaw, runTrimming, injection, others, nfaults, alone, unsure>>

BadRange ==
    /\ At("range")
    /\ Leave
    /\ LeftEarly
    /\ UNCHANGED <<state, frames, members, others, nfaults, alone, unsure>>

\* The CHIPTrimmer goes on until it has all settings or is aborted.
TrimSetting ==
    /\ At("trim") /\ runTrimming /\ Arg > 0
    /\ Goto(BurstData \o With("trim", Arg - 1) \o Tail(prog))
    /\ UNCHANGED <<state, frames, members, others, ghosts>>

TrimEnds ==
    /\ At("trim") /\ (~runTrimming \/ Arg = 0)
    /\ Advance
    /\ UNCHANGED <<state, frames, members, others, ghosts>>

Forget ==
    /\ At("forget")
    /\ trimmer' = FALSE
    /\ Advance
    /\ UNCHANGED <<state, frames, saveRaw, runTrimming, injection, others, ghosts>>

-----------------------------------------------------------------------------
(* The PPT *)

\* deviceState: CHANGING when there is no answer.
Seen == IF ppt = "gone" THEN "CHANGING" ELSE ppt

\* allowedStates of the slots of the PPT, and the states they end in;
\* initSystem is a task it posts.
Accepts(f) ==
    CASE f = "open"             -> {"UNKNOWN"}
      [] f = "initSystem"       -> {"OFF", "ON"}
      [] f \in {"runStandAlone", "fillSramAndReadout"} -> {"ON"}
      [] f \in {"startAcquisition", "stopStandalone"}  -> {"STARTED"}
      [] f = "stopAcquisition"  -> {"ACQUIRING"}

Ends(f) ==
    CASE f = "open"             -> {"OFF", "UNKNOWN"}
      [] f = "initSystem"       -> {ppt}
      [] f \in {"runStandAlone", "startAcquisition"}   -> {"ACQUIRING"}
      [] f = "stopAcquisition"  -> {"STARTED", "ON"}
      [] f \in {"stopStandalone", "fillSramAndReadout"} -> {"ON"}

\* Variant: the tries are not counted.
Same(times) == times

OneLess(times) == times - 1

\* A call, and the loop goes on.
Again == Call(Arg.call) \o IF Arg.times = 1 THEN <<>>
                           ELSE Trigger(Arg.from, Arg.call, OneLess(Arg.times))

\* The loop of triggerPptInitFunction reads the state of the PPT for the first
Triggers ==
    /\ At("trigger")
    /\ Continue(IF Seen = Arg.from THEN Again ELSE With("changing", Arg))
    /\ UNCHANGED <<state, frames, members, others, ghosts>>

\* and for the second comparison.
Changing ==
    /\ At("changing")
    /\ Continue(IF Seen = "CHANGING" THEN Again ELSE <<>>)
    /\ UNCHANGED <<state, frames, members, others, ghosts>>

IfPpt ==
    /\ At("ifPpt")
    /\ Continue(IF Seen = Arg.is THEN Call(Arg.call) ELSE <<>>)
    /\ UNCHANGED <<state, frames, members, others, ghosts>>

\* isDeviceExisting.
Exists ==
    /\ At("exists")
    /\ Continue(IF ppt = "gone" THEN <<>> ELSE Arg)
    /\ UNCHANGED <<state, frames, members, others, ghosts>>

CallPpt ==
    /\ At("call") /\ ppt \in Accepts(Arg)
    /\ Arg = "initSystem" => posted < Tries
    /\ ppt' \in Ends(Arg)
    /\ posted' = IF Arg = "initSystem" THEN posted + 1 ELSE posted
    /\ Advance
    /\ UNCHANGED <<state, frames, members, recording, told, ghosts>>

\* A slot that is not allowed in the state of the PPT is refused.
PptRefuses ==
    /\ At("call") /\ ppt \notin Accepts(Arg)
    /\ Throws /\ UNCHANGED <<told, nfaults, alone, unsure>>

\* A device that is not there is instantiated.
Instance ==
    /\ At("instance") /\ ppt # "gone"
    /\ Advance
    /\ UNCHANGED <<state, frames, members, others, ghosts>>

\* The PPT starts in the mode NORM.
Anew == told' = "NORM" /\ unsure' = (injection # "NORM" \/ At("own"))

\* `return false` on the way to a verdict.
Unavailable ==
    LET verdict == CHOOSE k \in DOMAIN prog :
                     /\ prog[k].op \in {"available", "complete"}
                     /\ \A j \in 1 .. k - 1 : prog[j].op \notin {"available", "complete"}
    IN  Goto(With(prog[verdict].op, FALSE) \o SubSeq(prog, verdict + 1, Len(prog)))

NewInstance ==
    /\ At("instance") /\ ppt = "gone"
    /\ \/ /\ ppt' \in {"OFF", "UNKNOWN", "ERROR"}
          /\ Anew
          /\ Advance
       \/ Unavailable /\ UNCHANGED <<ppt, told, unsure>>
    /\ UNCHANGED <<state, frames, members, recording, posted, nfaults, left, alone>>

Acquires ==
    /\ At("acquires")
    /\ IF Seen = "ACQUIRING" THEN Advance ELSE Unavailable
    /\ UNCHANGED <<state, frames, members, others, ghosts>>

\* The input of the PPT, and allReceiverDevicesAvailable.
Receivers ==
    /\ At("receivers")
    /\ Advance \/ Unavailable
    /\ UNCHANGED <<state, frames, members, others, ghosts>>

\* What the verdict is for: a routine does not begin, an interface is in ERROR.
Verdict ==
    /\ Running /\ Head(prog).op \in {"available", "complete"}
    /\ IF Arg \/ Head(prog).op = "complete" THEN Advance ELSE Leave
    /\ state' = IF ~Arg /\ Head(prog).op = "complete" THEN "ERROR" ELSE state
    /\ UNCHANGED <<frames, members, others, ghosts>>

-----------------------------------------------------------------------------
(* The interface and the injection mode *)

\* A file that is not valid leaves the interface as it is.  The first is valid.
Load ==
    /\ At("load")
    /\ \/ /\ injection' = "NORM" /\ unsure' = (told # "NORM")
          /\ Advance
          /\ UNCHANGED state
       \/ /\ doing # "initialization"
          /\ state' = "ERROR"
          /\ Leave
          /\ UNCHANGED <<injection, unsure>>
    /\ UNCHANGED <<frames, saveRaw, trimmer, runTrimming, others, nfaults, left, alone>>

\* Variant: the device notes the mode before it tells the PPT.
InjectOwnFirst ==
    /\ At("inject")
    /\ \E mode \in InjectionMode :
         Continue(IF mode = injection THEN <<>> ELSE With("own", mode) \o With("tell", mode))
    /\ UNCHANGED <<state, frames, members, others, ghosts>>

Inject ==
    /\ At("inject")
    /\ \E mode \in InjectionMode :
         Continue(IF mode = injection THEN <<>> ELSE With("tell", mode) \o With("own", mode))
    /\ UNCHANGED <<state, frames, members, others, ghosts>>

\* Without a PPT nobody is told.
Tell ==
    /\ At("tell")
    /\ IF ppt = "gone" THEN unsure' = (told # Arg) /\ UNCHANGED told
                       ELSE told' = Arg /\ UNCHANGED unsure
    /\ Advance
    /\ UNCHANGED <<state, frames, members, recording, ppt, posted, nfaults, left, alone>>

Own ==
    /\ At("own")
    /\ injection' = Arg
    /\ unsure' = (unsure /\ told # Arg)
    /\ Advance
    /\ UNCHANGED <<state, frames, saveRaw, trimmer, runTrimming, others, nfaults, left, alone>>

Fill ==
    /\ At("fill")
    /\ Continue(IF Seen = "ON" THEN Arg ELSE <<>>)
    /\ UNCHANGED <<state, frames, members, others, ghosts>>

-----------------------------------------------------------------------------
(* Clients and the PPT of itself *)

CallSlot(s) ==
    /\ ~Running
    /\ prog' = Body(s) /\ doing' = IF Body(s) = <<>> THEN "none" ELSE s
    /\ alone' = (s = "numFramesToReceive")
    /\ UNCHANGED <<state, frames, members, others, nfaults, left, unsure>>

StopTrimming ==
    /\ doing # "initialization"
    /\ runTrimming' = FALSE
    /\ state' = "STOPPING"
    /\ UNCHANGED <<slot, saveRaw, trimmer, injection, others, ghosts>>

Moved == alone' = FALSE

TaskBegins ==
    /\ posted > 0 /\ ppt \notin {"gone", "CHANGING"}
    /\ ppt' = "CHANGING" /\ posted' = posted - 1
    /\ Moved
    /\ UNCHANGED <<state, slot, members, recording, told, nfaults, left, unsure>>

TaskEnds ==
    /\ ppt = "CHANGING"
    /\ ppt' = "ON"
    /\ Moved
    /\ UNCHANGED <<state, slot, members, recording, told, posted, nfaults, left, unsure>>

\* Another client uses the PPT, or it dies or is started anew.
PptMeddles ==
    /\ nfaults < MaxFaults /\ nfaults' = nfaults + 1
    /\ ppt # "CHANGING"
    /\ ppt' \in PptState \ {ppt, "CHANGING"}
    /\ IF "gone" \in {ppt, ppt'}
         THEN Anew /\ posted' = 0
         ELSE UNCHANGED <<told, unsure, posted>>
    /\ Moved
    /\ UNCHANGED <<state, slot, members, recording, left>>

-----------------------------------------------------------------------------

\* `initialization` sets OFF whatever the interface has found.
Init ==
    /\ state = "STARTING"
    /\ doing = "initialization" /\ prog = InitMultiModuleInterface(Put("OFF")) /\ frames = <<>>
    /\ saveRaw = FALSE /\ trimmer = FALSE /\ runTrimming = TRUE /\ injection = "NORM"
    /\ recording = FALSE
    /\ ppt \in PptState \ {"CHANGING"} /\ told = "NORM" /\ posted = 0
    /\ nfaults = 0 /\ left = {} /\ alone = FALSE /\ unsure = FALSE

Step ==
    \/ PutState \/ KeepState \/ DropState \/ UseRemote \/ RemoteThrows \/ ToldInVain \/ Require
    \/ Record \/ AcquireData \/ InitRaw \/ FinishRaw
    \/ NewTrimmer \/ GoodRange \/ BadRange \/ TrimSetting \/ TrimEnds \/ Forget
    \/ Triggers \/ Changing \/ IfPpt \/ Exists \/ CallPpt \/ PptRefuses \/ Instance \/ NewInstance
    \/ Acquires \/ Receivers \/ Verdict
    \/ Load \/ Inject \/ Tell \/ Own \/ Fill

Ppt == TaskBegins \/ TaskEnds

Next ==
    \/ Step \/ Ppt \/ PptMeddles \/ StopTrimming
    \/ \E s \in Slots : CallSlot(s)

Spec == Init /\ [][Next]_vars

\* A slot goes on, and the PPT does what it has posted.
FairSpec == Spec /\ WF_vars(Step) /\ WF_vars(Ppt)

-----------------------------------------------------------------------------
(* Properties *)

\* What every variable holds.
TypeOK ==
    /\ state \in DeviceState
    /\ doing \in Slot \cup {"none", "initialization"}
    /\ doing = "none" <=> prog = <<>>
    /\ frames \in Seq(DeviceState) /\ Len(frames) <= 2
    /\ members \in BOOLEAN \X BOOLEAN \X BOOLEAN \X InjectionMode
    /\ recording \in BOOLEAN /\ ppt \in PptState /\ told \in InjectionMode
    /\ posted \in 0 .. Tries
    /\ nfaults \in 0 .. MaxFaults
    /\ left \subseteq Leavings
    /\ alone \in BOOLEAN /\ unsure \in BOOLEAN

\* However a slot ends, by return, exception or abort, the device is left in the
\* state of before or in that of the abort, never CHANGING or ACQUIRING; an
\* exception in `initialization` leaves STARTING.
StateReturns ==
    ~Running => /\ frames = <<>>
                /\ \/ state \in {"OFF", "ERROR", "STOPPING"}
                   \/ state = "STARTING" /\ "begin" \in left

\* stopTrimming calls the trimmer that m_currentTrimmer points to: it is in
\* scope, unless an exception has left the slot that had it; then the pointer
\* dangles until the next trimmer is made, and no longer.
TrimmerInScope ==
    trimmer /\ "trimmer" \notin left => \E i \in DOMAIN prog : prog[i].op = "forget"

\* Between measurements the receiver records nothing, unless an exception has
\* ended one that did and no later one that wants raw data has come to its end.
\* Between slots raw data are wanted by nobody, unless a gain map that wanted
\* them was left early - by an exception, by a bad injectionSweepRange or because
\* saveTrimmingRawData was unset meanwhile - and no later one has set or unset them.
RawDataEnds ==
    /\ recording /\ "recording" \notin left => \E i \in DOMAIN prog : prog[i].op = "acquire"
    /\ ~Running /\ saveRaw => "raw" \in left

\* The PPT has the injection mode the device believes it has, whatever calls
\* fail, unless either was started anew since or the PPT has executed a call
\* that was not answered: "already set, nothing to do" is then true.
InjectionTold ==
    ppt # "gone" /\ injection # told /\ ~At("own") => unsure

\* Changing the number of frames stops the PPT and starts it again.  However the
\* slot ends, by a call the PPT refuses too, it is not left stopped, if nobody
\* else has moved it - an initSystem posted before included - and no remote call
\* of the slot has failed.  The last condition is needed: a call that fails
\* between the stop and the start leaves the PPT stopped (lines 2507-2511).
AcquiresAgain ==
    alone /\ (~Running \/ prog = Use) => ppt \notin {"ON", "STARTED"}

\* Every slot ends, whatever the PPT does: the tries of triggerPptInitFunction
\* are counted, and an abort ends the trimming.
SlotEnds == Running ~> ~Running

=============================================================================
