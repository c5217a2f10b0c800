------------------------ MODULE TrainAcquisitionProofs ------------------------
(***************************************************************************)
(* What holds of TrainAcquisition for every choice of the functions that   *)
(* acquire, of the numbers of tries and failures and of the lengths of the *)
(* histories, and with or without a late PPT: its type invariant, and what *)
(* the trains, results and values are that a measurement takes.            *)
(***************************************************************************)
EXTENDS TrainAcquisition, SequenceTheorems, TLAPS

\* The functions that acquire are told from the idle slot by their kind.
LEMMA FunctionType ==
    ASSUME NEW f \in Acquisition
    PROVE  /\ f # None
           /\ f.kind \in Kind \cup {"ANY"}
           /\ f.told \in BOOLEAN /\ f.retries \in BOOLEAN /\ f.quick \in BOOLEAN
           /\ f.told => f.kind \in Kind
<1> DEFINE Typed(g) == /\ g.kind \in Kind \cup {"ANY"}
                       /\ g.told \in BOOLEAN /\ g.retries \in BOOLEAN /\ g.quick \in BOOLEAN
                       /\ g.told => g.kind \in Kind
<1>1. /\ Typed(BurstData) /\ Typed(DisplayRms) /\ Typed(RMSData)
      /\ Typed(SingleCycle) /\ Typed(MeanSram) /\ Typed(Readout)
    BY DEF Kind, Function, BurstData, DisplayRms, RMSData, SingleCycle, MeanSram, Readout
<1>2. None.kind \notin Kind \cup {"ANY"}
    BY DEF None, Function, Kind
<1>3. Typed(f)
    BY <1>1 DEF Acquisition
<1> QED
    BY <1>2, <1>3

\* What has been sent stays what it is when trains are added.
LEMMA ResultsKept ==
    ASSUME TypeOK, UNCHANGED trains, mail' \subseteq mail \/ UNCHANGED mail,
           values' \in {values, Nothing} \cup mail
    PROVE  mail' \subseteq Result' /\ values' \in {Nothing} \cup Result'
BY DEF TypeOK, Result

\* Programming writes values of the right types.
LEMMA ProgrammingType == ASSUME TypeOK, Programming PROVE TypeOK'
<1> USE DEF TypeOK, slot, members, ppt, remote, ghosts, Goto
<1>1. CASE Write
    <2>0. mail' \subseteq Result' /\ values' \in {Nothing} \cup Result'
        BY <1>1, ResultsKept DEF Write
    <2>1. trains \in Seq(SUBSET (0 .. written'))
        <3>1. SUBSET (0 .. written) \subseteq SUBSET (0 .. written')
            BY <1>1 DEF Write
        <3> QED
            BY <1>1, <3>1, SeqMonotonic DEF Write
    <2>2. /\ taking \subseteq 0 .. written' /\ programmed \in 0 .. written'
          /\ busy => programmed < written'
        BY <1>1 DEF Write
    <2>3. synced' \in BOOLEAN /\ pc' = "begun" /\ config' = "CHANGING"
        BY <1>1 DEF Write
    <2> QED
        BY <1>1, <2>0, <2>1, <2>2, <2>3 DEF Write
<1>2. CASE Begun
    <2>0. mail' \subseteq Result' /\ values' \in {Nothing} \cup Result'
        BY <1>2, ResultsKept DEF Begun
    <2> QED
        BY <1>2, <2>0 DEF Begun
<1>3. CASE Written
    <2>0. mail' \subseteq Result' /\ values' \in {Nothing} \cup Result'
        BY <1>3, ResultsKept DEF Written
    <2> QED
        BY <1>3, <2>0 DEF Written, Prompt
<1> QED
    BY <1>1, <1>2, <1>3 DEF Programming

\* So does what begins a measurement.
LEMMA MeasureType == ASSUME TypeOK, NEW f \in Acquisitions, Measure(f) PROVE TypeOK'
<1>1. f \in Acquisition
    BY AcquisitionAssumption
<1>2. doing' \in Acquisition \cup {None} /\ tries' \in 0 .. Tries
      /\ (tries' = 0 <=> doing' = None)
    BY <1>1, FunctionType, AcquisitionAssumption DEF Measure
<1>3. recvMode' \in Kind
    BY <1>1, FunctionType DEF Measure, TypeOK
<1>4. proc' \in [on : BOOLEAN, min : Nat, kind : Kind, seen : 0 .. Len(trains)]
    BY <1>1, FunctionType DEF Measure, TypeOK
<1>5. fast' \in BOOLEAN
    BY <1>1, FunctionType DEF Measure, TypeOK
<1> QED
    BY <1>2, <1>3, <1>4, <1>5 DEF Measure, TypeOK, Goto, ppt, Result

LEMMA AcquiringType == ASSUME TypeOK, Acquiring \/ TrainIdFails \/ CallFails PROVE TypeOK'
<1> USE AcquisitionAssumption DEF TypeOK, slot, members, ppt, remote, ghosts, Goto, Fails
<1>1. CASE NothingChanged
    <2>0. mail' \subseteq Result' /\ values' \in {Nothing} \cup Result'
        BY <1>1, ResultsKept DEF NothingChanged
    <2> QED
        BY <1>1, <2>0 DEF NothingChanged
<1>2. CASE GetLastValidTrainId
    <2>0. mail' \subseteq Result' /\ values' \in {Nothing} \cup Result'
        BY <1>2, ResultsKept DEF GetLastValidTrainId
    <2>1. minTrain' \in Nat
        BY <1>2 DEF GetLastValidTrainId, NextTrain
    <2>2. limit' \in Limit
        BY <1>2 DEF GetLastValidTrainId, Limit
    <2> QED
        BY <1>2, <2>0, <2>1, <2>2 DEF GetLastValidTrainId
<1>9. CASE ReadLastTrain
    <2>0. mail' \subseteq Result' /\ values' \in {Nothing} \cup Result'
        BY <1>9, ResultsKept DEF ReadLastTrain
    <2>1. lastTrain' \in 0 .. Len(trains)
        BY <1>9 DEF ReadLastTrain
    <2> QED
        BY <1>9, <2>0, <2>1 DEF ReadLastTrain
<1>10. CASE TrainIdFails
    <2>0. mail' \subseteq Result' /\ values' \in {Nothing} \cup Result'
        BY <1>10, ResultsKept DEF TrainIdFails
    <2>1. failures' \in 0 .. MaxFailures /\ limit' \in Limit
        BY <1>10 DEF TrainIdFails, Limit
    <2> QED
        BY <1>10, <2>0, <2>1 DEF TrainIdFails
<1>3. CASE ResetDataReceiver
    <2>0. mail' \subseteq Result' /\ values' \in {Nothing} \cup Result'
        BY <1>3, ResultsKept DEF ResetDataReceiver
    <2>1. proc' \in [on : BOOLEAN, min : Nat, kind : Kind, seen : 0 .. Len(trains)]
        BY <1>3 DEF ResetDataReceiver
    <2> QED
        BY <1>3, <2>0, <2>1 DEF ResetDataReceiver
<1>4. CASE Accumulate
    <2>0. mail' \subseteq Result' /\ values' \in {Nothing} \cup Result'
        BY <1>4, ResultsKept DEF Accumulate
    <2> QED
        BY <1>4, <2>0 DEF Accumulate
<1>5. CASE Poll
    <2>0. mail' \subseteq Result' /\ values' \in {Nothing} \cup Result'
        BY <1>5, ResultsKept DEF Poll
    <2>1. ok' \in BOOLEAN
        BY <1>5 DEF Poll
    <2> QED
        BY <1>5, <2>0, <2>1 DEF Poll
<1>6. CASE Stop
    <2>0. mail' \subseteq Result' /\ values' \in {Nothing} \cup Result'
        BY <1>6, ResultsKept DEF Stop
    <2>1. doing' \in Acquisition \cup {None} /\ tries' \in 0 .. Tries
          /\ (tries' = 0 <=> doing' = None)
        <3>1. CASE tries > 1 /\ tries' = tries - 1 /\ doing' = doing
            BY <3>1
        <3>2. CASE tries' = tries /\ doing' = doing
            BY <3>2
        <3>3. CASE tries' = 0 /\ doing' = None
            BY <3>3
        <3> QED
            BY <1>6, <3>1, <3>2, <3>3 DEF Stop, Retry, OneLess, Leave
    <2>2. proc' \in [on : BOOLEAN, min : Nat, kind : Kind, seen : 0 .. Len(trains)]
        BY <1>6 DEF Stop
    <2> QED
        BY <1>6, <2>0, <2>1, <2>2 DEF Stop, Leave
<1>7. CASE Read
    <2>0. mail' \subseteq Result' /\ values' \in {Nothing} \cup Result'
        BY <1>7, ResultsKept DEF Read
    <2>1. fast' \in BOOLEAN
        BY <1>7 DEF Read
    <2>2. doing' \in Acquisition \cup {None} /\ tries' \in 0 .. Tries
          /\ (tries' = 0 <=> doing' = None)
        BY <1>7 DEF Read, Leave
    <2>3. ok' \in BOOLEAN /\ pc' = "idle"
        BY <1>7 DEF Read, Leave
    <2> QED
        BY <1>7, <2>0, <2>1, <2>2, <2>3 DEF Read
<1>8. CASE CallFails
    <2>0. mail' \subseteq Result' /\ values' \in {Nothing} \cup Result'
        BY <1>8, ResultsKept DEF CallFails
    <2>1. doing' \in Acquisition \cup {None} /\ tries' \in 0 .. Tries
          /\ (tries' = 0 <=> doing' = None)
        BY <1>8 DEF CallFails, Leave
    <2>2. ok' \in BOOLEAN /\ pc' = "idle"
        BY <1>8 DEF CallFails, Leave
    <2>3. failures' \in 0 .. MaxFailures
        BY <1>8 DEF CallFails
    <2> QED
        BY <1>8, <2>0, <2>1, <2>2, <2>3 DEF CallFails
<1> QED
    BY <1>1, <1>2, <1>3, <1>4, <1>5, <1>6, <1>7, <1>8, <1>9, <1>10 DEF Acquiring

LEMMA EnvironmentType == ASSUME TypeOK, Ppt \/ Processor PROVE TypeOK'
<1> USE DEF TypeOK, slot, members, ppt, remote, ghosts
<1>1. CASE ReceiveBegins
    <2>0. mail' \subseteq Result' /\ values' \in {Nothing} \cup Result'
        BY <1>1, ResultsKept DEF ReceiveBegins
    <2> QED
        BY <1>1, <2>0 DEF ReceiveBegins
<1>2. CASE ReceiveEnds
    <2>0. mail' \subseteq Result' /\ values' \in {Nothing} \cup Result'
        BY <1>2, ResultsKept DEF ReceiveEnds
    <2>1. programmed' \in 0 .. written /\ busy' = FALSE
        BY <1>2 DEF ReceiveEnds
    <2> QED
        BY ZenonT(60), <1>2, <2>0, <2>1 DEF ReceiveEnds
<1>3. CASE Train
    <2>1. mail \subseteq Result' /\ values \in {Nothing} \cup Result'
        BY <1>3 DEF Train, Result
    <2>2. trains' \in Seq(SUBSET (0 .. written)) /\ Len(trains') = Len(trains) + 1
        BY <1>3 DEF Train
    <2>3. taking' \subseteq 0 .. written
        BY <1>3 DEF Train
    <2> QED
        BY <1>3, <2>1, <2>2, <2>3 DEF Train
<1>4. CASE Collect
    <2>1. mail' \subseteq Result
        BY <1>4 DEF Collect, Result
    <2> QED
        BY <1>4, <2>1 DEF Collect, Result
<1>5. ASSUME NEW r \in mail, Deliver(r) \/ Lose(r) PROVE TypeOK'
    <2>1. mail' \subseteq Result' /\ values' \in {Nothing} \cup Result'
        BY <1>5, ResultsKept DEF Deliver, Lose
    <2>2. CASE Deliver(r)
        BY <2>1, <2>2 DEF Deliver
    <2>3. CASE Lose(r)
        BY <2>1, <2>3 DEF Lose
    <2> QED
        BY <1>5, <2>2, <2>3
<1> QED
    BY <1>1, <1>2, <1>3, <1>4, <1>5 DEF Ppt, Processor

\* What every variable holds, for every instance.
THEOREM TypeInvariant == Spec => []TypeOK
<1>1. Init => TypeOK
    <2> SUFFICES ASSUME Init PROVE TypeOK
        OBVIOUS
    <2>1. /\ pc \in {"idle", "begun", "done", "init", "ask", "tell", "arm", "poll", "stop", "read"}
          /\ config \in {"VALID", "CHANGED", "CHANGING"} /\ recvMode \in Kind
          /\ proc \in [on : BOOLEAN, min : Nat, kind : Kind, seen : 0 .. Len(trains)]
        BY DEF Init, Kind
    <2>2. /\ doing \in Acquisition \cup {None} /\ tries \in 0 .. Tries
          /\ tries = 0 <=> doing = None
        BY AcquisitionAssumption DEF Init
    <2>3. /\ minTrain \in Nat /\ written \in Nat /\ programmed \in 0 .. written
          /\ taking \subseteq 0 .. written /\ trains \in Seq(SUBSET (0 .. written))
          /\ failures \in 0 .. MaxFailures
        BY AcquisitionAssumption DEF Init
    <2>4. /\ ok \in BOOLEAN /\ fast \in BOOLEAN /\ busy \in BOOLEAN
          /\ busy => programmed < written
          /\ synced \in BOOLEAN /\ fresh \in BOOLEAN
        BY Zenon DEF Init
    <2>6. limit \in Limit /\ lastTrain \in 0 .. Len(trains)
        BY DEF Init, Limit
    <2>5. values \in {Nothing} \cup Result /\ mail \subseteq Result
        BY DEF Init
    <2> QED
        BY <2>1, <2>2, <2>3, <2>4, <2>5, <2>6 DEF TypeOK
<1>2. TypeOK /\ [Next]_vars => TypeOK'
    <2> SUFFICES ASSUME TypeOK, [Next]_vars PROVE TypeOK'
        OBVIOUS
    <2>1. CASE Next
        BY <2>1, ProgrammingType, MeasureType, AcquiringType, EnvironmentType DEF Next
    <2>2. CASE UNCHANGED vars
        BY <2>2 DEF vars, slot, members, ppt, remote, ghosts, TypeOK, Result
    <2> QED
        BY <2>1, <2>2
<1> QED
    BY <1>1, <1>2, PTL DEF Spec

-----------------------------------------------------------------------------
(* The content a train was taken with *)

\* While the last wait for the PPT counts, the PPT rests with the content that
\* was written last.
Rests == synced => ~busy /\ programmed = written

\* The device has the id of the train that was under way when it asked, and
\* has not been made to ask again since.
Filtering == (pc = "tell" \/ config = "VALID") /\ synced /\ limit = "read"

\* A train after number n was taken with the content written last, the one
\* under way included.
CurrentAfter(n) ==
    /\ Len(trains) >= n => taking = {written}
    /\ \A t \in 1 .. Len(trains) : t > n => trains[t] = {written}

\* So is then every train beyond the filter, and before every train but the one
\* under way when the PPT was asked.
Beyond ==
    /\ Filtering => CurrentAfter(minTrain)
    /\ pc = "ask" /\ synced => CurrentAfter(lastTrain + 1)

CurrentInv == TypeOK /\ Rests /\ Beyond

\* A new content ends the claims, and the wait for the PPT makes Rests true
\* where the next reset has not been made.
LEMMA ProgrammingCurrent == ASSUME CurrentInv, Programming PROVE Rests' /\ Beyond'
<1>1. CASE Write
    BY <1>1 DEF CurrentInv, TypeOK, Write, Rests, Beyond, Filtering
<1>2. CASE Begun
    BY <1>2 DEF CurrentInv, Begun, Goto, members, ppt, ghosts, Rests, Beyond, Filtering, CurrentAfter
<1>3. CASE Written
    <2>1. config' = "CHANGED" /\ pc' = "idle"
        BY <1>3 DEF Written, Goto
    <2>2. Rests'
        BY <1>3 DEF Written, Prompt, ppt, Rests
    <2> QED
        BY <2>1, <2>2 DEF Beyond, Filtering
<1> QED
    BY <1>1, <1>2, <1>3 DEF Programming

LEMMA AcquiringCurrent ==
    ASSUME CurrentInv, Acquiring \/ TrainIdFails \/ CallFails \/ \E f \in Acquisitions : Measure(f)
    PROVE  Rests' /\ Beyond'
<1>0. Rests'
    BY DEF CurrentInv, Rests, Acquiring, NothingChanged, ReadLastTrain, GetLastValidTrainId,
           TrainIdFails, ResetDataReceiver, Accumulate, Poll, Stop, Read, CallFails, Measure, ppt, ghosts
<1>1. CASE ReadLastTrain
    <2>1. Len(trains) \in Nat
        BY DEF CurrentInv, TypeOK
    <2>2. /\ lastTrain' = Len(trains) /\ pc' = "ask" /\ config # "VALID"
          /\ UNCHANGED <<trains, taking, written, synced, config>>
        BY <1>1 DEF ReadLastTrain, members, ghosts, Goto
    <2> QED
        BY <1>0, <2>1, <2>2 DEF Beyond, Filtering, CurrentAfter
<1>2. CASE GetLastValidTrainId
    <2>1. pc = "ask" /\ pc' = "tell" /\ UNCHANGED <<trains, taking, written, synced>>
        BY <1>2 DEF GetLastValidTrainId, ppt, Goto
    <2>2. limit' = "read" => minTrain' = lastTrain + 1
        BY <1>2 DEF GetLastValidTrainId, NextTrain
    <2> QED
        BY <1>0, <2>1, <2>2 DEF CurrentInv, Beyond, Filtering, CurrentAfter
<1>3. CASE TrainIdFails
    <2>1. pc' = "tell" /\ limit' = "old"
        BY <1>3 DEF TrainIdFails, Goto
    <2> QED
        BY <1>0, <2>1 DEF Beyond, Filtering
<1>4. CASE ~ReadLastTrain /\ ~GetLastValidTrainId /\ ~TrainIdFails
    <2>1. UNCHANGED <<written, ppt, minTrain, synced, limit>> /\ pc' # "ask"
        BY <1>4 DEF Acquiring, NothingChanged, ResetDataReceiver, Accumulate, Poll, Stop,
                    Read, CallFails, Measure, Leave, Goto, ghosts, members
    <2>2. Filtering' => Filtering
        BY <1>4, <2>1 DEF Acquiring, NothingChanged, ResetDataReceiver, Accumulate, Poll,
                    Stop, Read, CallFails, Measure, Leave, Goto, members, Filtering
    <2> QED
        BY <1>0, <2>1, <2>2 DEF CurrentInv, Beyond, CurrentAfter, ppt
<1> QED
    BY <1>1, <1>2, <1>3, <1>4

\* A resting PPT begins its trains with the content it has.
LEMMA EnvironmentCurrent == ASSUME CurrentInv, Ppt \/ Processor PROVE Rests' /\ Beyond'
<1>1. CASE ReceiveBegins \/ ReceiveEnds
    <2>1. ~synced /\ UNCHANGED synced
        BY <1>1 DEF ReceiveBegins, ReceiveEnds, CurrentInv, TypeOK, Rests, ghosts
    <2> QED
        BY <2>1 DEF Rests, Beyond, Filtering
<1>2. CASE Train
    <2>2. trains \in Seq(SUBSET (0 .. written)) /\ minTrain \in Nat /\ lastTrain + 1 \in Nat
        BY DEF CurrentInv, TypeOK
    <2>3. UNCHANGED <<pc, config, limit, written, programmed, busy, synced, minTrain, lastTrain>>
        BY <1>2 DEF Train, slot, members, ghosts
    <2>4. ASSUME synced PROVE taking' = {written}
        BY <1>2, <2>4 DEF Train, CurrentInv, Rests
    <2>5. ASSUME synced, NEW n \in Nat, CurrentAfter(n), NEW t \in 1 .. Len(trains'), t > n
          PROVE  trains'[t] = {written}
        <3>1. trains' = Append(trains, taking)
            BY <1>2 DEF Train
        <3>2. CASE t \in 1 .. Len(trains)
            BY <2>2, <2>5, <3>1, <3>2 DEF CurrentAfter
        <3>3. CASE t = Len(trains) + 1
            BY <2>2, <2>5, <3>1, <3>3 DEF CurrentAfter
        <3> QED
            BY <2>2, <3>1, <3>2, <3>3
    <2>6. Filtering' => CurrentAfter(minTrain)'
        BY <2>2, <2>3, <2>4, <2>5 DEF CurrentInv, Beyond, Filtering, CurrentAfter
    <2>7. pc' = "ask" /\ synced' => CurrentAfter(lastTrain + 1)'
        BY <2>2, <2>3, <2>4, <2>5 DEF CurrentInv, Beyond, CurrentAfter
    <2> QED
        BY <2>3, <2>6, <2>7 DEF CurrentInv, Rests, Beyond
<1>3. CASE Processor
    BY <1>3 DEF Processor, Collect, Deliver, Lose, CurrentInv, Rests, Beyond, Filtering,
                CurrentAfter, slot, members, ppt, ghosts
<1> QED
    BY <1>1, <1>2, <1>3 DEF Ppt

LEMMA CurrentHolds == Spec => []CurrentInv
<1>1. Init => Rests /\ Beyond
    BY DEF Init, Rests, Beyond, Filtering
<1>2. TypeOK /\ TypeOK' /\ Rests /\ Beyond /\ [Next]_vars => Rests' /\ Beyond'
    <2> SUFFICES ASSUME CurrentInv, [Next]_vars PROVE Rests' /\ Beyond'
        BY DEF CurrentInv
    <2>1. CASE Next
        BY <2>1, ProgrammingCurrent, AcquiringCurrent, EnvironmentCurrent DEF Next
    <2>2. CASE UNCHANGED vars
        BY <2>2 DEF vars, slot, members, ppt, ghosts, CurrentInv, Rests, Beyond, Filtering, CurrentAfter
    <2> QED
        BY <2>1, <2>2
<1> QED
    BY <1>1, <1>2, TypeInvariant, PTL DEF Spec, CurrentInv

\* Every train beyond the filter has the content written last, where the PPT was
\* waited for and the limit is a train id read from it: for any number of writes,
\* trains, tries and failures, and with a PPT that begins late at other times.
THEOREM FilterIsCurrent == Spec => []FilterCurrent
<1>1. CurrentInv => FilterCurrent
    BY DEF CurrentInv, Beyond, Filtering, CurrentAfter, FilterCurrent
<1> QED
    BY <1>1, CurrentHolds, PTL

-----------------------------------------------------------------------------
(* What a measurement takes *)

\* From the reset on until the slot ends, what the device has is valid, and a
\* value it has is of a train beyond the filter.
Armed  == {"arm", "poll", "stop", "read"}
Filled == {"poll", "stop", "read"}

ValidInv ==
    /\ pc \in Armed => config = "VALID"
    /\ pc \in Filled /\ values # Nothing => values.train > minTrain

LEMMA ValidStep == TypeOK /\ ValidInv /\ [Next]_vars => ValidInv'
<1> SUFFICES ASSUME TypeOK, ValidInv, [Next]_vars PROVE ValidInv'
    OBVIOUS
<1> USE DEF ValidInv, Armed, Filled
<1>1. CASE Programming \/ CallFails \/ Read \/ \E f \in Acquisitions : Measure(f)
    <2>1. pc' \notin Armed
        BY <1>1 DEF Programming, Write, Begun, Written, CallFails, Read, Measure, Leave, Goto
    <2> QED
        BY <2>1
<1>2. CASE NothingChanged \/ ReadLastTrain \/ GetLastValidTrainId \/ TrainIdFails \/ ResetDataReceiver
    BY <1>2 DEF NothingChanged, ReadLastTrain, GetLastValidTrainId, TrainIdFails, ResetDataReceiver,
                Goto, members
<1>3. CASE Accumulate
    BY <1>3 DEF Accumulate, Goto, members
<1>4. CASE Poll
    BY <1>4 DEF Poll, Goto, members
<1>5. CASE Stop
    BY <1>5 DEF Stop, Leave, Goto
<1>6. CASE Ppt \/ Collect \/ \E r \in mail : Lose(r)
    BY <1>6 DEF Ppt, ReceiveBegins, ReceiveEnds, Train, Collect, Lose, slot, members
<1>7. ASSUME NEW r \in mail, Deliver(r) PROVE ValidInv'
    BY <1>7 DEF Deliver, Wanted, slot, members
<1>8. CASE UNCHANGED vars
    BY <1>8 DEF vars, slot, members
<1> QED
    BY <1>1, <1>2, <1>3, <1>4, <1>5, <1>6, <1>7, <1>8 DEF Next, Acquiring, Processor

\* So what a measurement takes was then taken with the content it has written.
THEOREM TakesFresh == Spec => []Fresh
<1>1. Init => ValidInv
    BY DEF Init, ValidInv, Armed, Filled
<1>2. TypeOK /\ ValidInv /\ FilterCurrent => Fresh
    BY DEF TypeOK, Result, Nothing, ValidInv, Armed, Filled, FilterCurrent, Fresh
<1> QED
    BY <1>1, <1>2, ValidStep, TypeInvariant, FilterIsCurrent, PTL DEF Spec

\* Where the train id was read and the processor found at rest, the results
\* under way that are beyond the filter are of the kind the device asks for:
\* those of before are not beyond it, and the processor has been told the kind.
OldResults ==
    /\ pc = "ask" /\ ~proc.on => \A r \in mail : r.train <= lastTrain
    /\ pc = "tell" /\ limit = "read" /\ ~proc.on => \A r \in mail : r.train <= minTrain

KindInv ==
    /\ pc \in {"init", "ask", "tell"} => ~fresh
    /\ OldResults
    /\ fresh /\ limit = "read" /\ pc \in Armed =>
          /\ proc.kind = recvMode
          /\ \A r \in mail : r.train > minTrain => r.kind = recvMode
          /\ pc \in Filled /\ values # Nothing => values.kind = recvMode

\* The slot.
LEMMA SlotKind ==
    ASSUME TypeOK, KindInv,
           \/ Programming \/ Acquiring \/ TrainIdFails \/ CallFails
           \/ \E f \in Acquisitions : Measure(f)
    PROVE  KindInv'
<1> USE DEF KindInv, OldResults, Armed, Filled
<1>1. CASE Programming \/ CallFails \/ Read
    <2>1. pc' \notin Armed \cup {"init", "ask", "tell"}
        BY <1>1 DEF Programming, Write, Begun, Written, CallFails, Read, Leave, Goto
    <2> QED
        BY <2>1
<1>2. ASSUME NEW f \in Acquisitions, Measure(f) PROVE KindInv'
    BY <1>2 DEF Measure, Goto
<1>3. CASE NothingChanged
    BY <1>3 DEF NothingChanged, Goto, ghosts
<1>9. CASE ReadLastTrain
    <2>1. pc' = "ask" /\ ~fresh' /\ lastTrain' = Len(trains) /\ mail' = mail
        BY <1>9 DEF ReadLastTrain, Goto, remote, ghosts
    <2>2. Len(trains) \in Nat /\ \A r \in mail : r.train \in 1 .. Len(trains)
        BY DEF TypeOK, Result
    <2> QED
        BY <2>1, <2>2
<1>10. CASE TrainIdFails
    BY <1>10 DEF TrainIdFails, Goto
<1>4. CASE GetLastValidTrainId
    <2>1. pc = "ask" /\ pc' = "tell" /\ ~fresh' /\ mail' = mail /\ proc' = proc
        BY <1>4 DEF GetLastValidTrainId, Goto, remote
    <2>2. limit' = "read" => minTrain' = lastTrain + 1
        BY <1>4 DEF GetLastValidTrainId, NextTrain
    <2>3. lastTrain \in Nat /\ \A r \in mail : r.train \in Nat
        BY DEF TypeOK, Result
    <2>4. ~proc.on /\ limit' = "read" => \A r \in mail' : r.train <= minTrain'
        BY <2>1, <2>2, <2>3
    <2> QED
        BY <2>1, <2>4
<1>5. CASE ResetDataReceiver
    <2>1. pc' = "arm" /\ fresh' = ~proc.on /\ proc'.kind = recvMode
        BY <1>5 DEF ResetDataReceiver, Goto, TypeOK
    <2>2. UNCHANGED <<recvMode, mail, minTrain, limit>> /\ pc = "tell"
        BY <1>5 DEF ResetDataReceiver
    <2>3. ASSUME fresh', limit' = "read", NEW r \in mail PROVE ~(r.train > minTrain)
        BY <2>1, <2>2, <2>3 DEF TypeOK, Result
    <2> QED
        BY <2>1, <2>2, <2>3
<1>6. CASE Accumulate
    <2>1. pc = "arm" /\ pc' = "poll" /\ values' = Nothing /\ proc'.kind = proc.kind
        BY <1>6 DEF Accumulate, Goto, TypeOK
    <2> QED
        BY <1>6, <2>1 DEF Accumulate, members, ghosts
<1>7. CASE Poll
    BY <1>7 DEF Poll, Goto, members, remote, ghosts
<1>8. CASE Stop
    <2>1. pc = "stop" /\ proc'.kind = proc.kind
        BY <1>8 DEF Stop, TypeOK
    <2>2. UNCHANGED <<recvMode, minTrain, values, mail, limit>>
        BY <1>8 DEF Stop
    <2>3. CASE Goto("init") /\ fresh' = FALSE
        BY <2>2, <2>3 DEF Goto
    <2>4. CASE Goto("read") /\ UNCHANGED fresh
        BY <2>1, <2>2, <2>4 DEF Goto
    <2>5. CASE Leave
        BY <2>5 DEF Leave, Goto
    <2> QED
        BY <1>8, <2>3, <2>4, <2>5 DEF Stop
<1> QED
    BY <1>1, <1>2, <1>3, <1>4, <1>5, <1>6, <1>7, <1>8, <1>9, <1>10 DEF Acquiring

\* The PPT, the processor and the channels.
LEMMA EnvironmentKind == ASSUME TypeOK, KindInv, Ppt \/ Processor PROVE KindInv'
<1> USE DEF KindInv, OldResults, Armed, Filled, slot, members, ppt, ghosts
<1>1. CASE Ppt
    BY <1>1 DEF Ppt, ReceiveBegins, ReceiveEnds, Train, remote
<1>2. CASE Collect
    <2>1. PICK t \in 1 .. Len(trains) :
             /\ mail' = mail \cup {[train |-> t, kind |-> proc.kind]}
             /\ proc' = [proc EXCEPT !.seen = t]
        BY <1>2 DEF Collect
    <2>2. proc'.kind = proc.kind /\ proc'.on = proc.on /\ proc.on
        BY <1>2, <2>1 DEF Collect, TypeOK
    <2>3. UNCHANGED <<pc, recvMode, minTrain, lastTrain, values, fresh, limit>>
        BY <1>2 DEF Collect
    <2> QED
        BY <2>1, <2>2, <2>3
<1>3. ASSUME NEW r \in mail, Lose(r) PROVE KindInv'
    BY <1>3 DEF Lose
<1>4. ASSUME NEW r \in mail, Deliver(r) PROVE KindInv'
    <2>1. (values' = r /\ r.train > minTrain) \/ UNCHANGED values
        BY <1>4 DEF Deliver, Wanted
    <2> QED
        BY <1>4, <2>1 DEF Deliver
<1> QED
    BY <1>1, <1>2, <1>3, <1>4 DEF Processor

\* What a measurement takes that has reset the receiver, the processor at rest
\* and a train id read, is of its kind.
THEOREM TakesRightKind == Spec => []RightKind
<1>1. Init => KindInv
    BY DEF Init, KindInv, OldResults, Armed, Filled
<1>2. TypeOK /\ KindInv /\ [Next]_vars => KindInv'
    <2> SUFFICES ASSUME TypeOK, KindInv, [Next]_vars PROVE KindInv'
        OBVIOUS
    <2>1. CASE Next
        BY <2>1, SlotKind, EnvironmentKind DEF Next
    <2>2. CASE UNCHANGED vars
        BY <2>2 DEF vars, slot, members, ppt, remote, ghosts, KindInv, OldResults, Armed, Filled
    <2> QED
        BY <2>1, <2>2
<1>3. KindInv => RightKind
    BY DEF KindInv, Armed, Filled, RightKind
<1> QED
    BY <1>1, <1>2, <1>3, TypeInvariant, PTL DEF Spec

================================================================================
