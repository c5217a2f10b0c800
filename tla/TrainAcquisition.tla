--------------------------- MODULE TrainAcquisition ---------------------------
(***************************************************************************)
(* How DsscLadderParameterTrimming programs the PPT and acquires data, and *)
(* what is on its way meanwhile: register contents from the device to the  *)
(* PPT, trains from the PPT to the processor, results from the processor   *)
(* to the device.  A measurement changes a register and acquires, again    *)
(* and again; here the two alternate in any order.  Values are versions:   *)
(* `written` is the number of the content the device sent last, and a      *)
(* train is the set of the contents the PPT had while it was taken.        *)
(*                                                                         *)
(* A result holds a number of trains and is judged by the first of them    *)
(* (trainIds[0]); here it holds one.  The data are those of the PPT: the   *)
(* trains of a test data generator, whose id is the limit as it is, have   *)
(* no register content.                                                    *)
(***************************************************************************)
EXTENDS Naturals, FiniteSets, Sequences

CONSTANTS
    Acquisitions, \* the functions that acquire, see Acquisition
    Tries,        \* numTries of doSingleCycle
    Late,         \* the PPT may begin to program after waitJTAGEngineDone has
                  \* stopped waiting for it
    MaxFailures,  \* bound on the remote calls that fail
    MaxWrites,    \* bound on the register contents written
    MaxTrains,    \* bound on the trains sent
    MaxMail       \* bound on the results under way

VARIABLES
    \* the slot of the device
    pc,         \* where it is
    doing,      \* the function that acquires
    tries,      \* tries left
    ok,         \* what waitDataReceived is about to return
    \* the members of the device
    recvMode,   \* m_recvMode
    config,     \* m_deviceConfigState
    fast,       \* m_runFastAcquisition
    minTrain,   \* m_lastPptTrainId
    values,     \* the result that was accepted, Nothing while m_asicChannelDataValid
                \* is false
    written,    \* the register content written last
    \* the PPT
    programmed, \* the register content it has
    busy,       \* it is in receiveRegisterConfiguration
    taking,     \* the train it takes
    trains,     \* the trains it has sent
    lastTrain,  \* its property lastTrainId
    \* the processor and what it sent
    proc, mail,
    failures,   \* the remote calls that have failed
    \* not in the code
    synced,     \* the last waitJTAGEngineDone ended with the content in the PPT
    limit,      \* where minTrain of the last reset comes from, see Limit
    fresh       \* this acquisition has reset the receiver, with the processor at rest

slot    == <<pc, doing, tries, ok>>
members == <<recvMode, config, fast, minTrain>>
ppt     == <<programmed, busy, taking, trains, lastTrain>>
remote  == <<proc, mail>>
ghosts  == <<synced, limit, fresh>>
vars == <<slot, members, values, written, ppt, remote, failures, ghosts>>

Kind == {"MEAN", "RMS", "PIXEL"}
Averaged == {"MEAN", "RMS"} \* what arrives in onMeanData

\* Who calls waitDataReceived: the mode it sets, whether it tells the processor
\* so, whether it retries, whether it is a fast acquisition.
Function(kind, told, retries, quick) ==
    [kind |-> kind, told |-> told, retries |-> retries, quick |-> quick]

BurstData    == Function("MEAN", TRUE, FALSE, FALSE)
DisplayRms   == Function("RMS", TRUE, FALSE, FALSE)
RMSData      == Function("RMS", FALSE, FALSE, FALSE)
SingleCycle  == Function("PIXEL", TRUE, TRUE, FALSE)
MeanSram     == Function("PIXEL", TRUE, TRUE, TRUE)
Readout      == Function("ANY", FALSE, FALSE, FALSE) \* in the mode that was last

Acquisition == {BurstData, DisplayRms, RMSData, SingleCycle, MeanSram, Readout}

\* The slot is not acquiring.
None == Function("NONE", FALSE, FALSE, FALSE)

ASSUME AcquisitionAssumption ==
    /\ Acquisitions \subseteq Acquisition
    /\ Tries \in Nat \ {0}
    /\ Late \in BOOLEAN /\ MaxFailures \in Nat
    /\ MaxWrites \in Nat /\ MaxTrains \in Nat /\ MaxMail \in Nat

\* "read" from the PPT; "old" where the reading failed; "fast": 1, as a fast
\* acquisition has it, and whatever follows it until the next reset.
Limit == {"read", "old", "fast"}

Result == [train : 1 .. Len(trains), kind : Kind]
Nothing == [train |-> 0, kind |-> "NONE"]

Goto(step) == pc' = step

\* A remote call throws: no answer, or the device is gone.
Fails == failures < MaxFailures /\ failures' = failures + 1

\* The slot ends, and what it had of its own is gone.
Leave == Goto("idle") /\ doing' = None /\ tries' = 0 /\ ok' = FALSE

-----------------------------------------------------------------------------
(* Programming: programJtag, programPixelRegs, programSequencer, ... *)

\* The ConfigStateKeeper is made and the content goes into the channel.
Write ==
    /\ pc = "idle" /\ written < MaxWrites
    /\ config' = "CHANGING"
    /\ written' = written + 1
    /\ synced' = FALSE
    /\ Goto("begun")
    /\ UNCHANGED <<doing, tries, ok, recvMode, fast, minTrain, values, ppt, remote,
                   failures, limit, fresh>>

\* waitJTAGEngineDone of the PPT: while it is CHANGING; then 20 ms and once
\* more.  It gives up after a time.  The content has begun to arrive by then,
\* unless it is late.
Begun ==
    /\ pc = "begun"
    /\ (~busy \/ Late)
    /\ Goto("done")
    /\ UNCHANGED <<doing, tries, ok, members, values, written, ppt, remote, failures, ghosts>>

Prompt == programmed = written

\* The last look, and the destructor of the ConfigStateKeeper.
Written ==
    /\ pc = "done"
    /\ ((~busy /\ Prompt) \/ Late)
    /\ synced' = (~busy /\ Prompt)
    /\ config' = "CHANGED"
    /\ Goto("idle")
    /\ UNCHANGED <<doing, tries, ok, recvMode, fast, minTrain, values, written, ppt, remote,
                   failures, limit, fresh>>

-----------------------------------------------------------------------------
(* Acquiring: the caller, then waitDataReceived *)

Measure(f) ==
    /\ pc = "idle"
    /\ doing' = f
    /\ tries' = IF f.retries THEN Tries ELSE 1
    /\ recvMode' = IF f.kind = "ANY" THEN recvMode ELSE f.kind
    /\ fast' = (fast \/ f.quick)
    /\ proc' = IF f.told THEN [proc EXCEPT !.kind = f.kind] ELSE proc
    /\ fresh' = FALSE
    /\ Goto("init")
    /\ UNCHANGED <<ok, config, minTrain, values, written, ppt, mail, failures, synced, limit>>

\* initDataAcquisition waits while a keeper lives.  What is valid needs no reset.
NothingChanged ==
    /\ pc = "init" /\ config = "VALID"
    /\ Goto("arm")
    /\ UNCHANGED <<doing, tries, ok, members, values, written, ppt, remote, failures, ghosts>>

\* resetDataReceiver begins: the PPT is made to look at the train under way.
ReadLastTrain ==
    /\ pc = "init" /\ config = "CHANGED"
    /\ lastTrain' = Len(trains)
    /\ Goto("ask")
    /\ UNCHANGED <<doing, tries, ok, members, values, written, programmed, busy, taking,
                   trains, remote, failures, ghosts>>

\* Variant: the train under way counts.
LastTrain == lastTrain

\* lastTrainId + 1: the train that was under way does not count.
NextTrain == lastTrain + 1

\* Every train up to this one is refused, but for a fast acquisition.
GetLastValidTrainId ==
    /\ pc = "ask"
    /\ minTrain' = (IF fast THEN 1 ELSE NextTrain)
    /\ limit' = (IF fast THEN "fast" ELSE "read")
    /\ Goto("tell")
    /\ UNCHANGED <<doing, tries, ok, recvMode, config, fast, values, written, ppt, remote,
                   failures, synced, fresh>>

\* Either call throws: the exception is swallowed, and the old limit stays.
TrainIdFails ==
    /\ \/ pc = "init" /\ config = "CHANGED"
       \/ pc = "ask"
    /\ Fails
    /\ limit' = "old"
    /\ Goto("tell")
    /\ UNCHANGED <<doing, tries, ok, members, values, written, ppt, remote, synced, fresh>>

\* Variant: the processor keeps the kind it has.
ResetMinTrainOnly ==
    /\ pc = "tell"
    /\ proc' = [proc EXCEPT !.min = minTrain, !.on = @ \/ recvMode \in Averaged]
    /\ config' = "VALID"
    /\ fresh' = ~proc.on
    /\ Goto("arm")
    /\ UNCHANGED <<doing, tries, ok, recvMode, fast, minTrain, values, written, ppt, mail,
                   failures, synced, limit>>

\* The rest of resetDataReceiver, and the content is valid.
ResetDataReceiver ==
    /\ pc = "tell"
    /\ proc' = [proc EXCEPT !.min = minTrain, !.kind = recvMode,
                            !.on = @ \/ recvMode \in Averaged]
    /\ config' = "VALID"
    /\ fresh' = ~proc.on
    /\ Goto("arm")
    /\ UNCHANGED <<doing, tries, ok, recvMode, fast, minTrain, values, written, ppt, mail,
                   failures, synced, limit>>

\* The end of initDataAcquisition, and the processor begins.
Accumulate ==
    /\ pc = "arm"
    /\ values' = Nothing
    /\ proc' = [proc EXCEPT !.on = TRUE]
    /\ Goto("poll")
    /\ UNCHANGED <<doing, tries, ok, members, written, ppt, mail, failures, ghosts>>

\* The data have come, or the time is over; at the last look it may be both.
Poll ==
    /\ pc = "poll"
    /\ \E inTime \in {values # Nothing, FALSE} : ok' = inTime
    /\ Goto("stop")
    /\ UNCHANGED <<doing, tries, members, values, written, ppt, remote, failures, ghosts>>

\* Variant: one try too many.
RetryOnce == tries >= 1

Retry == tries > 1

\* Variant: the tries are not counted.
Same == tries

OneLess == tries - 1

\* What the caller is told.  doSingleCycle tells whether a try but the last one
\* succeeded; but DsscTrimPptAPI::doSingleCycle, which forwards the call, has no
\* return statement, and its callers see whatever is there.
Answer == IF doing.retries THEN BOOLEAN ELSE {ok}

\* The processor stops.
Stop ==
    /\ pc = "stop"
    /\ proc' = [proc EXCEPT !.on = FALSE]
    /\ fast' = (fast /\ ~ok)
    /\ \/ ~ok /\ Retry /\ Goto("init") /\ tries' = OneLess /\ fresh' = FALSE
          /\ UNCHANGED <<doing, ok>>
       \/ (ok \/ ~Retry) /\ TRUE \in Answer /\ Goto("read")
          /\ UNCHANGED <<doing, tries, ok, fresh>>
       \/ (ok \/ ~Retry) /\ FALSE \in Answer /\ Leave /\ UNCHANGED fresh
    /\ UNCHANGED <<recvMode, config, minTrain, values, written, ppt, mail, failures,
                   synced, limit>>

\* The caller takes what is there; measureMeanSramContent is fast no more.
Read ==
    /\ pc = "read"
    /\ fast' = (fast /\ ~doing.quick)
    /\ Leave
    /\ UNCHANGED <<recvMode, config, minTrain, values, written, ppt,
                   remote, failures, ghosts>>

\* A remote call throws and the slot is left; only the keepers clean up.
CallFails ==
    /\ Fails
    /\ pc \in {"tell", "arm", "stop"}
    /\ Leave
    /\ UNCHANGED <<members, values, written, ppt, remote, ghosts>>

-----------------------------------------------------------------------------
(* The PPT, the processor and the results under way *)

\* receiveRegisterConfiguration of the PPT, from its keeper to the keeper's end.
\* A train that is taken meanwhile has something of both contents.
ReceiveBegins ==
    /\ ~busy /\ programmed < written
    /\ busy' = TRUE
    /\ taking' = taking \cup {programmed + 1}
    /\ UNCHANGED <<slot, members, values, written, programmed, trains, lastTrain, remote, failures,
                   ghosts>>

ReceiveEnds ==
    /\ busy
    /\ busy' = FALSE /\ programmed' = programmed + 1
    /\ UNCHANGED <<slot, members, values, written, taking, trains, lastTrain, remote, failures,
                   ghosts>>

\* A train ends and the next one begins.
Train ==
    /\ Len(trains) < MaxTrains
    /\ trains' = Append(trains, taking)
    /\ taking' = {programmed} \cup (IF busy THEN {programmed + 1} ELSE {})
    /\ UNCHANGED <<slot, members, values, written, programmed, busy, lastTrain, remote, failures,
                   ghosts>>

\* The processor makes a result of a train it has not seen.
Collect ==
    /\ proc.on /\ Cardinality(mail) < MaxMail
    /\ \E t \in 1 .. Len(trains) :
         /\ t > proc.seen /\ t >= proc.min
         /\ mail' = mail \cup {[train |-> t, kind |-> proc.kind]}
         /\ proc' = [proc EXCEPT !.seen = t]
    /\ UNCHANGED <<slot, members, values, written, ppt, failures, ghosts>>

\* Variant: any train will do.
WantedAnyTrain(result) ==
    IF result.kind = "PIXEL" THEN recvMode = "PIXEL" ELSE recvMode \in Averaged

Wanted(result) ==
    /\ IF result.kind = "PIXEL" THEN recvMode = "PIXEL" ELSE recvMode \in Averaged
    /\ result.train > minTrain

\* onPixelData, onMeanData
Deliver(result) ==
    /\ mail' = mail \ {result}
    /\ values' = IF Wanted(result) THEN result ELSE values
    /\ UNCHANGED <<slot, members, written, ppt, proc, failures, ghosts>>

\* The channel of the processor drops what nobody takes.
Lose(result) ==
    /\ mail' = mail \ {result}
    /\ UNCHANGED <<slot, members, values, written, ppt, proc, failures, ghosts>>

-----------------------------------------------------------------------------

\* The constructor and initialization; the PPT is not bound to be in step.
Init ==
    /\ pc = "idle" /\ doing = None /\ tries = 0 /\ ok = FALSE
    /\ recvMode = "MEAN" /\ config = "CHANGED" /\ fast = FALSE /\ minTrain = 0
    /\ values = Nothing
    /\ written = 0
    /\ programmed = 0 /\ busy = FALSE /\ taking = {0} /\ trains = <<>>
    /\ lastTrain = 0
    /\ proc = [on |-> FALSE, min |-> 0, kind |-> "PIXEL", seen |-> 0]
    /\ mail = {}
    /\ failures = 0
    /\ synced = TRUE /\ limit = "old" /\ fresh = FALSE

Programming == Write \/ Begun \/ Written

Acquiring ==
    \/ NothingChanged \/ ReadLastTrain \/ GetLastValidTrainId \/ ResetDataReceiver
    \/ Accumulate \/ Poll \/ Stop \/ Read

Ppt == ReceiveBegins \/ ReceiveEnds \/ Train

Processor == Collect \/ \E result \in mail : Deliver(result) \/ Lose(result)

Next ==
    \/ Programming \/ Acquiring \/ TrainIdFails \/ CallFails
    \/ \E f \in Acquisitions : Measure(f)
    \/ Ppt \/ Processor

Spec == Init /\ [][Next]_vars

\* A slot that has begun goes on, and the PPT ends what it has begun.
FairSpec ==
    /\ Spec
    /\ WF_vars(Begun \/ Written) /\ WF_vars(Acquiring)
    /\ WF_vars(ReceiveBegins \/ ReceiveEnds)

-----------------------------------------------------------------------------
(* Properties *)

\* What the trains below hold about every variable.
TypeOK ==
    /\ pc \in {"idle", "begun", "done", "init", "ask", "tell", "arm", "poll", "stop", "read"}
    /\ doing \in Acquisition \cup {None} /\ tries \in 0 .. Tries
    /\ tries = 0 <=> doing = None
    /\ ok \in BOOLEAN
    /\ recvMode \in Kind /\ config \in {"VALID", "CHANGED", "CHANGING"}
    /\ fast \in BOOLEAN /\ minTrain \in Nat
    /\ values \in {Nothing} \cup Result
    /\ written \in Nat /\ programmed \in 0 .. written /\ busy \in BOOLEAN
    /\ busy => programmed < written
    /\ taking \subseteq 0 .. written /\ trains \in Seq(SUBSET (0 .. written))
    /\ lastTrain \in 0 .. Len(trains)
    /\ proc \in [on : BOOLEAN, min : Nat, kind : Kind, seen : 0 .. Len(trains)]
    /\ mail \subseteq Result
    /\ failures \in 0 .. MaxFailures
    /\ synced \in BOOLEAN /\ limit \in Limit /\ fresh \in BOOLEAN

\* Every train that will be accepted was taken with the content that was written
\* last: the reset may come long after the writing, and the train that is under
\* way is refused.  Three cases are not promised: the PPT was late and has not
\* been waited for (~synced); its train id could not be read ("old"); and a fast
\* acquisition, which refuses no train, with what acquires after it and before
\* the next write, which finds the configuration valid and resets nothing
\* ("fast", lines 2729-2730).
FilterCurrent ==
    config = "VALID" /\ synced /\ limit = "read" =>
        \A t \in 1 .. Len(trains) : t > minTrain => trains[t] = {written}

\* What a measurement takes was taken with the content it has written, whatever
\* results of earlier acquisitions were still under way - in the same three
\* cases not: after a fast acquisition measureBurstData takes stale trains.
Fresh ==
    pc = "read" /\ values # Nothing /\ synced /\ limit = "read" =>
        trains[values.train] = {written}

\* What a measurement takes is of the kind it has asked for, if it has reset
\* the receiver with the processor at rest and a train id read: means and rms
\* values share one input.  Without a reset, on a configuration still valid, it
\* takes whichever of the two arrives.
RightKind ==
    pc = "read" /\ values # Nothing /\ fresh /\ limit = "read" => values.kind = recvMode

\* No acquisition waits for ever: not for the PPT that programs, not for data
\* that do not come, not in its retries.
Ends == pc # "idle" ~> pc = "idle"

=============================================================================
