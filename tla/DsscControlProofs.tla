-------------------------- MODULE DsscControlProofs --------------------------
(***************************************************************************)
(* What holds of DsscControl for every set of PPTs, every choice of the    *)
(* states visited, and with or without other clients: its type invariant,  *)
(* that the interlock is armed whenever it runs and, for the devices whose *)
(* updates of lockedBy are prompt, that it clears only locks of its own    *)
(* and so respects those of others.  And what SoftInterlock states on top  *)
(* of it, where no other client locks the devices: the published state     *)
(* follows them within two rounds, and the locks within three.             *)
(***************************************************************************)
EXTENDS SoftInterlock, TLAPS

\* The chain of `if`s of the fusion yields a state this device publishes.
LEMMA FuseType ==
    ASSUME NEW c \in P!PptState, NEW w \in PowState \cup {"none"},
           NEW old \in ControlState
    PROVE  Fuse(c, w, old)[1] \in ControlState /\ Fuse(c, w, old)[2] \in Source
BY DEF Fuse, P!PptState, PowState, ControlState, Source

\* The types of what the coroutine writes: the published state and its locals.
TaskType ==
    /\ state \in ControlState /\ fused \in ControlState
    /\ fusion \in Fusion /\ source \in Source
    /\ todo \in SUBSET Proxies

\* Turning to the head of the loop writes values of the right types.
LEMMA LoopType == TypeOK /\ Loop => TaskType'
<1> SUFFICES ASSUME TypeOK, Loop PROVE TaskType'
    OBVIOUS
<1>1. Common \in P!PptState
    BY ConstantsAssumption DEF Common, TypeOK
<1>2. SeenPow \in PowState \cup {"none"}
    BY DEF SeenPow, TypeOK
<1>3. CASE AllSame
    <2> DEFINE f == Fuse(Common, SeenPow, state)
    <2>1. f[1] \in ControlState /\ f[2] \in Source
        BY <1>1, <1>2, FuseType DEF TypeOK
    <2>2. fused' = f[1] /\ source' = f[2] /\ state' = f[1] /\ fusion' = "wait" /\ todo' = {}
        BY <1>3 DEF Loop
    <2> QED
        BY <2>1, <2>2 DEF TaskType, Fusion
<1>4. CASE ~AllSame
    BY <1>4 DEF Loop, TaskType, TypeOK, Fusion, Source
<1> QED
    BY <1>3, <1>4

\* So does the last part of the loop's body, in a step that types the locks.
LEMMA FreeLocksType == TypeOK /\ FreeLocks => TaskType'
<1> SUFFICES ASSUME TypeOK, FreeLocks PROVE TaskType'
    OBVIOUS
<1>1. CASE Loop
    BY <1>1, LoopType
<1>2. CASE fusion' = "dead" /\ todo' = {} /\ UNCHANGED <<state, fused, source>>
    BY <1>2 DEF TaskType, TypeOK, Fusion
<1>3. CASE fusion' = "clear" /\ todo' = SeenHeld' /\ UNCHANGED <<state, fused, source>>
    BY <1>3 DEF TaskType, TypeOK, Fusion, SeenHeld
<1> QED
    BY <1>1, <1>2, <1>3 DEF FreeLocks

\* The remote devices, their locks and the proxies keep their types.
LEMMA EnvironmentType ==
    ASSUME TypeOK, \/ \E p \in Ppts : PptCall(p) \/ PptStep(p)
                   \/ PowerCall \/ PowerStep
                   \/ \E d \in Proxies : OtherLocks(d) \/ OtherUnlocks(d)
                   \/ Delivers
    PROVE  TypeOK'
<1> USE DEF TypeOK, remote, seen, locks, task, calls, conn
<1>1. ASSUME NEW p \in Ppts, PptCall(p) PROVE TypeOK'
    BY <1>1 DEF PptCall, Leave, P!PptState
<1>2. ASSUME NEW p \in Ppts, PptStep(p) PROVE TypeOK'
    <2>1. PICK s \in PptVisited : ppt' = [ppt EXCEPT ![p] = s]
        BY <1>2 DEF PptStep
    <2> QED
        BY <1>2, <2>1, ConstantsAssumption DEF PptStep
<1>3. CASE PowerCall
    BY <1>3 DEF PowerCall, PowState
<1>4. CASE PowerStep
    BY <1>4, ConstantsAssumption DEF PowerStep
<1>6. CASE DeliverPow
    BY <1>6 DEF DeliverPow
<1>7. ASSUME NEW p \in Ppts, DeliverPpt(p) PROVE TypeOK'
    BY <1>7 DEF DeliverPpt
<1>8. ASSUME NEW d \in Proxies, OtherLocks(d) \/ OtherUnlocks(d) PROVE TypeOK'
    BY <1>8 DEF OtherLocks, OtherUnlocks, Relock, Owner
<1>9. ASSUME NEW d \in Proxies, DeliverLock(d) PROVE TypeOK'
    BY <1>9 DEF DeliverLock
<1> QED
    BY <1>1, <1>2, <1>3, <1>4, <1>6, <1>7, <1>8, <1>9 DEF Delivers

\* A slot and the answers to its calls write values of the right types.
LEMMA RequestType ==
    ASSUME TypeOK, NEW name, NEW kind \in Slot, NEW called \in [Ppts -> SUBSET P!PptState],
           Request(name, kind, called)
    PROVE  TypeOK'
BY DEF TypeOK, Request, Slot, remote, seen, locks, task, conn

LEMMA CallsType ==
    ASSUME TypeOK
    PROVE  /\ Stops \in [Ppts -> SUBSET P!PptState]
           /\ Inits \in [Ppts -> SUBSET P!PptState]
BY DEF TypeOK, Stops, Inits, P!PptState

LEMMA AnswerType ==
    ASSUME TypeOK, NEW p \in Ppts, Answers(p)
    PROVE  TypeOK'
<1> USE DEF TypeOK, remote, seen, locks, task, conn
<1>1. ASSUME NEW kind \in Slot, Await(p, kind)
      PROVE  slot' \in Slot /\ asked' \in [Ppts -> SUBSET P!PptState]
    <2>1. [asked EXCEPT ![p] = {}] \in [Ppts -> SUBSET P!PptState]
        OBVIOUS
    <2> QED
        BY <1>1, <2>1, CallsType DEF Await, Slot
<1>2. CASE PptExecutes(p)
    <2>1. "CHANGING" \in P!PptState
        BY DEF P!PptState
    <2> QED
        BY <1>1, <1>2, <2>1 DEF PptExecutes
<1>3. CASE PptRefuses(p)
    <2>1. "refused" \in Slot
        BY DEF Slot
    <2> QED
        BY <1>1, <1>3, <2>1 DEF PptRefuses, ControlState
<1> QED
    BY <1>2, <1>3 DEF Answers

\* So do the slots and the connection procedure.
LEMMA SlotType ==
    ASSUME TypeOK, \/ StartsSending
                   \/ StopDataSending \/ InitPPTdevices \/ Connects
    PROVE  TypeOK'
<1>1. {"calls", "stop", "init"} \subseteq Slot
    BY DEF Slot
<1>2. ASSUME NEW name \in DOMAIN StartsFrom, StartSending(name) PROVE TypeOK'
    <2>1. [p \in Ppts |-> StartsFrom[name]] \in [Ppts -> SUBSET P!PptState]
        BY DEF StartsFrom, P!PptState
    <2> QED
        BY <1>1, <1>2, <2>1, RequestType DEF StartSending
<1>3. CASE StartsSending
    BY <1>2, <1>3 DEF StartsSending
<1>4. CASE StopDataSending
    BY <1>1, <1>4, RequestType, CallsType DEF StopDataSending
<1>5. CASE InitPPTdevices
    BY <1>1, <1>5, RequestType, CallsType DEF InitPPTdevices
<1> USE DEF TypeOK, remote, seen, locks, task, calls, conn
<1>7. CASE ConnectDevices
    BY <1>7 DEF ConnectDevices, ControlState, Fusion, Source
<1>8. CASE PptsConnected
    BY <1>8 DEF PptsConnected
<1>9. CASE PptsMissing
    BY <1>9 DEF PptsMissing, ControlState
<1>10. CASE PowerConnected
    BY <1>10 DEF PowerConnected, Fusion
<1>11. CASE PowerMissing
    BY <1>11 DEF PowerMissing, Fusion, ControlState
<1> QED
    BY <1>2, <1>3, <1>4, <1>5, <1>7, <1>8, <1>9, <1>10, <1>11 DEF Connects

\* So do the calls that fail and those that nobody awaits.
LEMMA StrayType == ASSUME TypeOK, Fails \/ Strays PROVE TypeOK'
<1> USE DEF TypeOK, remote, seen, locks, task, calls, conn
<1>1. ASSUME NEW d \in Proxies, FusionLockFails(d) \/ FusionClearFails(d) PROVE TypeOK'
    BY <1>1 DEF FusionLockFails, FusionClearFails, Fusion
<1>2. ASSUME NEW d \in Proxies, StrayClear(d) PROVE TypeOK'
    BY <1>2 DEF StrayClear, Relock, Owner
<1>3. ASSUME NEW d \in Proxies, StrayLock(d) PROVE TypeOK'
    BY <1>3 DEF StrayLock, Lock, Owner
<1> QED
    BY <1>1, <1>2, <1>3 DEF Fails, Strays

\* So does the coroutine.
LEMMA FusesType == ASSUME TypeOK, Fuses PROVE TypeOK'
<1>0. TypeOK /\ TaskType' /\ UNCHANGED <<remote, seen, calls, conn>>
          /\ lockedBy' \in [Proxies -> Owner] /\ seenLock' \in [Proxies -> Owner]
        => TypeOK'
    BY DEF TypeOK, TaskType, remote, seen, calls, conn
<1>1. CASE FusionStarts
    BY <1>0, <1>1, LoopType DEF FusionStarts, TypeOK, locks
<1>2. CASE FusionSlept
    <2>1. TaskType'
        BY <1>2 DEF FusionSlept, TaskType, TypeOK, Fusion, Source, ControlState
    <2> QED
        BY <1>0, <1>2, <2>1 DEF FusionSlept, TypeOK, locks
<1>3. CASE FusionWakes
    <2>1. TaskType'
        BY <1>3, FreeLocksType, LoopType DEF FusionWakes, TaskType, TypeOK, Fusion, FreePpts, Proxies
    <2> QED
        BY <1>0, <1>3, <2>1 DEF FusionWakes, TypeOK, locks
<1>4. CASE FusionLocksPow
    BY <1>0, <1>4, FreeLocksType DEF FusionLocksPow, Lock, TypeOK, Owner
<1>5. ASSUME NEW p \in Ppts, FusionLocksPpt(p) PROVE TypeOK'
    <2>1. TaskType'
        BY <1>5, FreeLocksType DEF FusionLocksPpt, TaskType, TypeOK
    <2> QED
        BY <1>0, <1>5, <2>1 DEF FusionLocksPpt, Lock, TypeOK, Owner
<1>6. ASSUME NEW d \in Proxies, FusionClears(d) PROVE TypeOK'
    <2>1. TaskType'
        BY <1>6, LoopType DEF FusionClears, TaskType, TypeOK
    <2> QED
        BY <1>0, <1>6, <2>1 DEF FusionClears, Relock, TypeOK, Owner
<1> QED
    BY <1>1, <1>2, <1>3, <1>4, <1>5, <1>6 DEF Fuses

\* Every step, and a step of none, preserves the types.
LEMMA TypeStep == ASSUME TypeOK, [Next]_vars PROVE TypeOK'
<1>1. CASE Next
    BY <1>1, EnvironmentType, SlotType, AnswerType, FusesType, StrayType DEF Next
<1>2. CASE UNCHANGED vars
    BY <1>2 DEF vars, remote, seen, locks, task, calls, conn, TypeOK
<1> QED
    BY <1>1, <1>2

\* The device as instantiated has the types.
LEMMA TypeInit == Init => TypeOK
BY ConstantsAssumption
DEF Init, TypeOK, PowState, Owner, ControlState, Fusion, Source, Slot

THEOREM TypeInvariant == Spec => []TypeOK
<1>1. Init => TypeOK
    BY TypeInit
<1>2. TypeOK /\ [Next]_vars => TypeOK'
    BY TypeStep
<1> QED
    BY <1>1, <1>2, PTL DEF Spec

-----------------------------------------------------------------------------
(* The interlock is armed whenever it runs *)

\* A step of the coroutine taken with the proxy at hand keeps the coroutine
\* alive and the proxy.
LEMMA FusesAlive ==
    ASSUME Fuses, hasPow, fusion # "dead"
    PROVE  hasPow' /\ fusion' # "dead"
<1>1. hasPow' = hasPow
    BY DEF Fuses, FusionStarts, FusionSlept, FusionWakes, FusionLocksPow,
           FusionLocksPpt, FusionClears, conn
<1>2. Loop => fusion' # "dead"
    BY DEF Loop
<1>3. FreeLocks => fusion' # "dead"
    BY <1>2 DEF FreeLocks
<1>4. fusion' # "dead"
    BY <1>2, <1>3 DEF Fuses, FusionStarts, FusionSlept, FusionWakes,
                      FusionLocksPow, FusionLocksPpt, FusionClears
<1> QED
    BY <1>1, <1>4

\* InterlockArmed is inductive as it stands: the task is started in one place,
\* after the proxy has been set, and nothing takes the proxy away.
THEOREM Armed == Spec => []InterlockArmed
<1>1. Init => InterlockArmed
    BY DEF Init, InterlockArmed
<1>2. InterlockArmed /\ [Next]_vars => InterlockArmed'
    <2> SUFFICES ASSUME ~ExpertMode, InterlockArmed, [Next]_vars
                 PROVE  (fusion' # "off" => hasPow') /\ fusion' # "dead"
        BY DEF InterlockArmed
    <2>0. (fusion # "off" => hasPow) /\ fusion # "dead"
        BY DEF InterlockArmed
    <2>1. CASE Fuses
        <3>1. fusion # "off"
            BY <2>1 DEF Fuses, FusionStarts, FusionSlept, FusionWakes,
                        FusionLocksPow, FusionLocksPpt, FusionClears
        <3> QED
            BY <2>0, <2>1, <3>1, FusesAlive
    <2>2. CASE Connects
        BY <2>0, <2>2 DEF Connects, ConnectDevices, PptsConnected, PptsMissing,
                          PowerConnected, PowerMissing, task
    <2>3. CASE UNCHANGED <<task, conn>>
        BY <2>0, <2>3 DEF task, conn
    <2>5. CASE Fails \/ Strays
        BY <2>0, <2>5 DEF Fails, Strays, FusionLockFails, FusionClearFails, StrayClear, StrayLock, conn
    <2>4. ~Fuses /\ ~Fails /\ ~Strays /\ ~Connects => UNCHANGED <<task, conn>>
        BY DEF Next, vars, Delivers, DeliverPow, DeliverPpt, DeliverLock, PptCall,
               PptStep, PowerCall, PowerStep, OtherLocks, OtherUnlocks,
               StartsSending, StartSending, StopDataSending,
               InitPPTdevices, Request, Answers, PptExecutes, PptRefuses
    <2> QED
        BY <2>1, <2>2, <2>3, <2>4, <2>5
<1> QED
    BY <1>1, <1>2, PTL DEF Spec

-----------------------------------------------------------------------------
(* Locks of others *)

\* The updates of lockedBy that PromptLocks says are prompt.
Prompt == \A d \in PromptLocks : seenLock[d] = lockedBy[d]

LEMMA PromptStep ==
    ASSUME TypeOK, Prompt, [Next]_vars
    PROVE  Prompt'
<1> USE ConstantsAssumption DEF TypeOK, Proxies
<1>1. CASE UNCHANGED locks
    BY <1>1 DEF locks, Prompt
<1>2. ASSUME NEW d \in Proxies, OtherLocks(d) \/ OtherUnlocks(d) PROVE Prompt'
    BY <1>2 DEF OtherLocks, OtherUnlocks, Relock, Prompt
<1>3. CASE FusionLocksPow
    BY <1>3 DEF FusionLocksPow, Lock, Prompt
<1>4. ASSUME NEW p \in Ppts, FusionLocksPpt(p) PROVE Prompt'
    BY <1>4 DEF FusionLocksPpt, Lock, Prompt
<1>5. ASSUME NEW d \in Proxies, FusionClears(d) PROVE Prompt'
    BY <1>5 DEF FusionClears, Relock, Prompt
<1>6. ASSUME NEW d \in Proxies, DeliverLock(d) PROVE Prompt'
    BY <1>6 DEF DeliverLock, Prompt
<1>7. CASE Connects
    BY <1>1, <1>7 DEF Connects, ConnectDevices, PptsConnected, PptsMissing,
                      PowerConnected, PowerMissing
<1>8. CASE FusionStarts \/ FusionSlept \/ FusionWakes \/ Fails
    BY <1>1, <1>8 DEF FusionStarts, FusionSlept, FusionWakes, Fails, FusionLockFails, FusionClearFails
<1>10. ASSUME NEW d \in Proxies, StrayClear(d) PROVE Prompt'
    BY <1>10 DEF StrayClear, Relock, Prompt
<1>11. ASSUME NEW d \in Proxies, StrayLock(d) PROVE Prompt'
    BY <1>11 DEF StrayLock, Lock, Prompt
<1>12. ASSUME NEW p \in Ppts, Answers(p) PROVE Prompt'
    BY <1>1, <1>12 DEF Answers, PptExecutes, PptRefuses
<1>9. CASE \/ \E p \in Ppts : PptCall(p) \/ PptStep(p) \/ DeliverPpt(p)
           \/ PowerCall \/ PowerStep \/ DeliverPow
           \/ StartsSending
           \/ StopDataSending \/ InitPPTdevices \/ UNCHANGED vars
    BY <1>1, <1>9
    DEF vars, DeliverPow, DeliverPpt, PptCall, PptStep, PowerCall, PowerStep,
        StartsSending, StartSending,
        StopDataSending, InitPPTdevices, Request
<1> QED
    BY <1>2, <1>3, <1>4, <1>5, <1>6, <1>7, <1>8, <1>9, <1>10, <1>11, <1>12
    DEF Next, Fuses, Delivers, Strays

\* The task has calls of slotClearLock under way, or may have left some.
Clearing == {"clear", "off", "noClear"}

\* Apart from the calls of the coroutine no lock of this device is taken or
\* freed, and nothing but the coroutine adds to the list.
LEMMA LocksElsewhere ==
    ASSUME TypeOK, [Next]_vars, ~Fuses, ~Strays
    PROVE  /\ Held' = Held
           /\ fusion' \in Clearing =>
                 todo' = {} \/ (fusion \in Clearing /\ todo' \subseteq todo)
<1>1. CASE UNCHANGED <<lockedBy, task>>
    BY <1>1 DEF task, Held
<1>2. ASSUME NEW d \in Proxies, OtherLocks(d) \/ OtherUnlocks(d)
      PROVE  Held' = Held /\ UNCHANGED task
    BY <1>2 DEF OtherLocks, OtherUnlocks, Relock, Held, TypeOK
<1>3. CASE \E d \in Proxies : OtherLocks(d) \/ OtherUnlocks(d)
    BY <1>2, <1>3 DEF task
<1>4. CASE Connects
    BY <1>4 DEF Connects, ConnectDevices, PptsConnected, PptsMissing, Clearing,
                PowerConnected, PowerMissing, locks, task, Held
<1>6. CASE Fails
    BY <1>6 DEF Fails, FusionLockFails, FusionClearFails, locks, Held, Clearing
<1>5. CASE ~Connects /\ ~Fails /\ ~\E d \in Proxies : OtherLocks(d) \/ OtherUnlocks(d)
    BY <1>1, <1>5
    DEF Next, vars, locks, Delivers, DeliverPow, DeliverPpt, DeliverLock, PptCall,
        PptStep, PowerCall, PowerStep, StartsSending, StartSending, StopDataSending, InitPPTdevices, Request,
        Answers, PptExecutes, PptRefuses
<1> QED
    BY <1>3, <1>4, <1>5, <1>6

\* A gather of slotClearLock calls is started on the locks its proxies show.
LEMMA ClearStarts ==
    ASSUME Loop \/ FreeLocks, fusion' = "clear" PROVE todo' = SeenHeld'
BY DEF FreeLocks, Loop

\* ClearsOwnLocks is inductive with the types and Prompt: the list is what is
\* held when the gather starts, each call removes what it frees, and no other
\* client touches a lock that is not its own.
LEMMA ClearsStep ==
    TypeOK /\ Prompt' /\ ClearsOwnLocks /\ [Next]_vars => ClearsOwnLocks'
<1> SUFFICES ASSUME TypeOK, Prompt', ClearsOwnLocks, [Next]_vars, fusion' \in Clearing
             PROVE  todo' \cap PromptLocks \subseteq Held'
    BY DEF ClearsOwnLocks, Clearing
<1>0. SeenHeld' \cap PromptLocks \subseteq Held'
    BY DEF Prompt, SeenHeld, Held
<1>1. CASE ~Fuses /\ ~Strays
    BY <1>1, LocksElsewhere DEF ClearsOwnLocks, Clearing
<1>2. CASE FusionStarts \/ FusionSlept \/ FusionWakes \/ FusionLocksPow
    BY <1>0, <1>2, ClearStarts
    DEF FusionStarts, FusionSlept, FusionWakes, FusionLocksPow, Loop, FreeLocks, Clearing
<1>3. ASSUME NEW p \in Ppts, FusionLocksPpt(p) PROVE todo' \cap PromptLocks \subseteq Held'
    BY <1>0, <1>3, ClearStarts DEF FusionLocksPpt, Loop, FreeLocks, Clearing
<1>4. ASSUME NEW d \in Proxies, FusionClears(d) \/ StrayClear(d)
      PROVE  todo' \cap PromptLocks \subseteq Held'
    <2>1. todo \cap PromptLocks \subseteq Held /\ todo' \subseteq todo \ {d}
        BY <1>4 DEF FusionClears, StrayClear, Loop, ClearsOwnLocks
    <2>2. Held \ {d} \subseteq Held'
        BY <1>4 DEF FusionClears, StrayClear, Relock, Held, TypeOK
    <2> QED
        BY <2>1, <2>2
<1>5. ASSUME NEW d \in Proxies, StrayLock(d) PROVE FALSE
    BY <1>5 DEF StrayLock, Clearing
<1> QED
    BY <1>1, <1>2, <1>3, <1>4, <1>5 DEF Fuses, Strays

\* If the updates of lockedBy are prompt, the check made before the gather is
\* still true at every call.
THEOREM OwnLocks == Spec => []ClearsOwnLocks
<1>1. Init => Prompt /\ ClearsOwnLocks
    BY DEF Init, Prompt, ClearsOwnLocks
<1>2. TypeOK /\ Prompt /\ ClearsOwnLocks /\ [Next]_vars => (Prompt /\ ClearsOwnLocks)'
    BY PromptStep, ClearsStep
<1> QED
    BY <1>1, <1>2, TypeInvariant, PTL DEF Spec

\* Then state_fusion never takes or frees a lock of another client: it takes
\* only free ones and, by OwnLocks, clears only its own.
THEOREM Respect == Spec => OthersRespected
<1> DEFINE Kept == \A d \in PromptLocks : lockedBy[d] = "other" => lockedBy'[d] = "other"
<1>1. ASSUME TypeOK, ClearsOwnLocks, Fuses \/ Strays PROVE Kept
    <2>1. CASE FusionStarts \/ FusionSlept \/ FusionWakes
        BY <2>1 DEF FusionStarts, FusionSlept, FusionWakes, locks
    <2>2. CASE FusionLocksPow
        BY <1>1, <2>2 DEF FusionLocksPow, Lock, TypeOK
    <2>3. ASSUME NEW p \in Ppts, FusionLocksPpt(p) PROVE Kept
        BY <1>1, <2>3 DEF FusionLocksPpt, Lock, TypeOK
    <2>4. ASSUME NEW d \in Proxies, FusionClears(d) \/ StrayClear(d) PROVE Kept
        <3>1. d \in PromptLocks => lockedBy[d] = "control"
            BY <1>1, <2>4 DEF FusionClears, StrayClear, ClearsOwnLocks, Held
        <3>2. lockedBy' = [lockedBy EXCEPT ![d] = "free"]
            BY <2>4 DEF FusionClears, StrayClear, Relock
        <3> QED
            BY <1>1, <3>1, <3>2 DEF TypeOK
    <2>5. ASSUME NEW d \in Proxies, StrayLock(d) PROVE Kept
        BY <1>1, <2>5 DEF StrayLock, Lock, TypeOK
    <2> QED
        BY <1>1, <2>1, <2>2, <2>3, <2>4, <2>5 DEF Fuses, Strays
<1>2. TypeOK /\ ClearsOwnLocks => [Fuses \/ Strays => Kept]_vars
    BY <1>1
<1> QED
    BY <1>2, TypeInvariant, OwnLocks, PTL DEF OthersRespected

-----------------------------------------------------------------------------
(* The published state and the locks follow the devices *)

\* The fusion ignores an ERROR that all PPTs share: it keeps its old state.
Known == ~(Together /\ AllPpts({"ERROR", "INIT"}))

\* State and source the fusion publishes for PPTs that have the same state.
Verdict == Fuse(ppt[CHOOSE p \in Ppts : TRUE], pow, state)

PowerLocked == lockedBy[PowerDevice] # "free"
PptsLocked  == \A p \in Ppts : lockedBy[p] # "free"

\* The PPTs differ, and a snapshot has been published: the power is locked
\* before the next.
Apart ==
    /\ state = "ERROR"
    /\ fusion \in {"sleep", "wait", "lockPow"}
    /\ fusion # "sleep" => source = "split"
    /\ fusion = "sleep" \/ rounds >= 2 => PowerLocked

\* They agree: the second snapshot has the verdict, and what the locks of the
\* round after it have reached.
Agreed ==
    /\ fusion # "sleep"
    /\ rounds >= 2 =>
        /\ <<state, source>> = Verdict
        /\ state \in {"OFF", "ON"} =>
              /\ fusion \in {"wait", "clear"}
              /\ fusion = "clear" => Held \subseteq todo
              /\ rounds >= 3 => Held = {}
        /\ state = "UNKNOWN" => fusion = "wait"
        /\ state \in {"ACQUIRING", "CHANGING", "ERROR"} /\ source = "PPTs" =>
              /\ fusion \in {"wait", "lockPow"}
              /\ rounds >= 3 => PowerLocked
        /\ state \in {"CHANGING", "ERROR"} /\ source = "power" =>
              /\ fusion \in {"wait", "lockPpts"}
              /\ fusion = "lockPpts" => \A p \in Ppts \ todo : lockedBy[p] # "free"
              /\ rounds >= 3 => PptsLocked

Turning ==
    /\ fusion \in {"sleep", "wait", "lockPpts", "lockPow", "clear"}
    /\ Together => Agreed
    /\ ~Together => Apart

FollowInv ==
    rounds >= 1 =>
        /\ Settled
        /\ hasPow /\ Known => Turning

NoOther == \A d \in Proxies : lockedBy[d] # "other"

SInv == TypeOK /\ NoOther /\ rounds \in 0 .. MaxRounds /\ FollowInv

-----------------------------------------------------------------------------

\* What the invariant says of the rules of the document.
LEMMA Documents ==
    ASSUME TypeOK, rounds \in Nat, FollowInv, hasPow, Known
    PROVE  StateFollows /\ LocksFollow
<1> DEFINE c == ppt[CHOOSE p \in Ppts : TRUE]
<1>0. c \in P!PptState /\ \A p \in Ppts : Together => ppt[p] = c
    BY ConstantsAssumption DEF TypeOK, Together
<1>1. ASSUME Together PROVE
          /\ DaqOn <=> c \in {"ACQUIRING", "STARTED"}
          /\ AnyChanging <=> pow = "CHANGING" \/ c \in Transient
          /\ PptIdle <=> c \in {"OFF", "ON"}
          /\ c \notin {"ERROR", "INIT"}
    BY <1>0, <1>1, ConstantsAssumption DEF DaqOn, AnyChanging, PptIdle, AllPpts, Known
<1>2. ASSUME ~Together PROVE ~DaqOn /\ ~PptIdle
    BY <1>2 DEF DaqOn, PptIdle
<1>3. pow \in {"PASSIVE", "CHANGING", "ON", "ERROR"}
    BY DEF TypeOK, PowState
<1>4. CASE ~Together
    <2>1. rounds >= 1 => Apart
        BY <1>4 DEF FollowInv, Turning
    <2>2. StateFollows
        BY <1>4, <2>1 DEF StateFollows, Published, Apart
    <2>3. LocksFollow
        BY <1>2, <1>4, <2>1 DEF LocksFollow, Apart, PowerLocked, PptsLeftOpen
    <2> QED
        BY <2>2, <2>3
<1>5. CASE Together
    <2>1. rounds >= 1 => Agreed
        BY <1>5 DEF FollowInv, Turning
    <2>2. /\ Documented = IF DaqOn THEN "ACQUIRING" ELSE IF pow = "ERROR" THEN "ERROR"
                          ELSE IF AnyChanging THEN "CHANGING" ELSE c
          /\ Verdict = Fuse(c, pow, state)
        BY <1>5 DEF Documented, Verdict
    <2> HIDE DEF c
    <2>3. StateFollows
        <3> SUFFICES ASSUME rounds >= 2 PROVE state = Published
            BY DEF StateFollows
        <3>1. state = Fuse(c, pow, state)[1]
            BY <2>1, <2>2 DEF Agreed
        <3> QED
            BY <1>0, <1>1, <1>3, <1>5, <2>2, <3>1
            DEF Fuse, P!PptState, Published, PowerOff, Transient
    <2>4. LocksFollow
        <3> SUFFICES ASSUME rounds >= 3 PROVE
               /\ PowerBarred /\ ~PowerLeftOpen => PowerLocked
               /\ PptsBarred /\ ~PptsLeftOpen => PptsLocked
               /\ PptIdle /\ pow \in {"ON", "PASSIVE"} => Held = {}
            BY DEF LocksFollow, PowerLocked, PptsLocked
        <3>1. Agreed /\ rounds >= 2 /\ <<state, source>> = Fuse(c, pow, state)
            BY <2>1, <2>2 DEF Agreed
        <3>2. ASSUME DaqOn PROVE PowerLocked
            <4>1. Fuse(c, pow, state) = <<"ACQUIRING", "PPTs">>
                BY <1>1, <1>5, <3>2 DEF Fuse
            <4>2. state = "ACQUIRING" /\ source = "PPTs"
                BY <3>1, <4>1
            <4> QED
                BY <3>1, <4>2 DEF Agreed
        <3>3. ASSUME c \in Transient, pow = "ON" PROVE PowerLocked
            <4>1. Fuse(c, pow, state) = <<"CHANGING", "PPTs">>
                BY <3>3 DEF Fuse, Transient
            <4>2. state = "CHANGING" /\ source = "PPTs"
                BY <3>1, <4>1
            <4> QED
                BY <3>1, <4>2 DEF Agreed
        <3>4. ASSUME pow \in {"CHANGING", "ERROR"}, ~DaqOn PROVE PptsLocked
            <4>1. Fuse(c, pow, state) \in {<<"CHANGING", "power">>, <<"ERROR", "power">>}
                BY <1>1, <1>5, <3>4 DEF Fuse
            <4>2. state \in {"CHANGING", "ERROR"} /\ source = "power"
                BY <3>1, <4>1
            <4> QED
                BY <3>1, <4>2 DEF Agreed
        <3>5. ASSUME PptIdle, pow \in {"ON", "PASSIVE"} PROVE Held = {}
            <4>1. Fuse(c, pow, state) \in {<<"OFF", "power">>, <<"OFF", "PPTs">>, <<"ON", "PPTs">>}
                BY <1>1, <1>5, <3>5 DEF Fuse
            <4>2. state \in {"OFF", "ON"}
                BY <3>1, <4>1
            <4> QED
                BY <3>1, <4>2 DEF Agreed
        <3>6. PowerBarred /\ ~PowerLeftOpen => DaqOn \/ (c \in Transient /\ pow = "ON")
            BY <1>1, <1>5 DEF PowerBarred, PowerLeftOpen
        <3>7. PptsBarred /\ ~PptsLeftOpen => pow \in {"CHANGING", "ERROR"} /\ ~DaqOn
            BY <1>3, <1>5 DEF PptsBarred, PptsLeftOpen
        <3> QED
            BY <3>2, <3>3, <3>4, <3>5, <3>6, <3>7
    <2> QED
        BY <2>3, <2>4
<1> QED
    BY <1>4, <1>5

-----------------------------------------------------------------------------
(* Steps of the coroutine that go on counting *)

\* A step of the coroutine with the proxies up to date before and after.
Counts ==
    /\ TypeOK /\ rounds \in 0 .. MaxRounds /\ hasPow /\ Known
    /\ UNCHANGED <<remote, seen, conn>>
    /\ seenPpt = ppt /\ seenPow = pow /\ Settled'
    /\ rounds' = IF fusion' = "wait" /\ rounds < MaxRounds THEN rounds + 1 ELSE rounds
    /\ rounds' >= 1
    /\ rounds >= 1 => Settled /\ Turning

\* What the devices say is the same before and after.
LEMMA Unmoved ==
    ASSUME UNCHANGED <<remote, seen, conn>>
    PROVE  /\ ppt' = ppt /\ pow' = pow /\ seenPpt' = seenPpt /\ seenPow' = seenPow
           /\ hasPow' = hasPow /\ Together' = Together /\ Known' = Known
BY DEF remote, seen, conn, Together, Known, AllPpts

LEMMA LoopTogether ==
    ASSUME Counts, Loop, Together
    PROVE  /\ fusion' = "wait" /\ <<state', source'>> = Verdict /\ Verdict' = Verdict
<1> DEFINE c == ppt[CHOOSE p \in Ppts : TRUE]
<1>1. AllSame /\ Common = c /\ SeenPow = pow
    BY DEF Counts, AllSame, Together, Common, SeenPow
<1>2. /\ fusion' = "wait" /\ state' = Fuse(c, pow, state)[1] /\ source' = Fuse(c, pow, state)[2]
    BY <1>1 DEF Loop
<1>3. c \in P!PptState \ {"ERROR", "INIT"} /\ pow \in PowState
    <2>1. c \in P!PptState /\ pow \in PowState
        BY ConstantsAssumption DEF Counts, TypeOK
    <2>2. \A p \in Ppts : ppt[p] = c
        BY ConstantsAssumption DEF Together
    <2>3. c \notin {"ERROR", "INIT"}
        BY <2>2 DEF Counts, Known, AllPpts
    <2> QED
        BY <2>1, <2>3
<1>4. Verdict = Fuse(c, pow, state) /\ Verdict' = Fuse(c, pow, state')
    BY DEF Verdict, Counts, remote
<1> HIDE DEF c
<1>5. Fuse(c, pow, state') = Fuse(c, pow, state)
    BY <1>3 DEF Fuse, P!PptState, PowState
<1>6. <<Fuse(c, pow, state)[1], Fuse(c, pow, state)[2]>> = Fuse(c, pow, state)
    BY DEF Fuse
<1> QED
    BY <1>2, <1>4, <1>5, <1>6

LEMMA LoopApart ==
    ASSUME Counts, Loop, ~Together
    PROVE  fusion' = "sleep" /\ state' = state
BY DEF Counts, Loop, AllSame, Together

\* A turn that ends with a snapshot of PPTs that agree: what the third round
\* has to have reached is up to the turn.
LEMMA Snapshot ==
    ASSUME Counts, Together, Loop,
           rounds >= 2 =>
               /\ state \in {"OFF", "ON"} => Held' = {}
               /\ state \in {"ACQUIRING", "CHANGING", "ERROR"} /\ source = "PPTs" => PowerLocked'
               /\ state \in {"CHANGING", "ERROR"} /\ source = "power" => PptsLocked'
    PROVE  Turning'
<1>1. fusion' = "wait" /\ <<state', source'>> = Verdict /\ Verdict' = Verdict
    BY LoopTogether
<1>2. Together'
    BY Unmoved DEF Counts
<1>3. rounds' >= 3 => rounds >= 2
    BY DEF Counts, MaxRounds
<1>4. rounds >= 2 => <<state, source>> = Verdict
    BY DEF Counts, Turning, Agreed
<1>5. Agreed'
    <2>1. fusion' # "sleep" /\ <<state', source'>> = Verdict'
        BY <1>1
    <2>2. ASSUME rounds' >= 3 PROVE state' = state /\ source' = source
        BY <1>1, <1>3, <1>4, <2>2
    <2> QED
        BY <1>1, <1>2, <1>3, <2>1, <2>2 DEF Agreed
<1> QED
    BY <1>1, <1>2, <1>5 DEF Turning

\* A step in the middle of a turn on PPTs that agree, which works on what the
\* verdict asks for and undoes no lock of it.
LEMMA Onward ==
    ASSUME Counts, rounds >= 1, Together, UNCHANGED <<state, source>>,
           fusion' \in {"lockPpts", "lockPow", "clear"},
           rounds >= 2 =>
               /\ state # "UNKNOWN"
               /\ state \in {"OFF", "ON"} =>
                     fusion' = "clear" /\ Held' \subseteq todo' /\ Held' \subseteq Held
               /\ state \in {"ACQUIRING", "CHANGING", "ERROR"} /\ source = "PPTs" =>
                     fusion' = "lockPow" /\ (PowerLocked => PowerLocked')
               /\ state \in {"CHANGING", "ERROR"} /\ source = "power" =>
                     /\ fusion' = "lockPpts" /\ (PptsLocked => PptsLocked')
                     /\ \A p \in Ppts \ todo' : lockedBy'[p] # "free"
    PROVE  Turning'
<1>1. Together' /\ rounds' = rounds
    BY Unmoved DEF Counts
<1>2. Verdict' = Verdict
    BY DEF Verdict, Counts, remote
<1>3. Agreed
    BY DEF Counts, Turning
<1>4. Agreed'
    <2>1. fusion' # "sleep"
        OBVIOUS
    <2>2. ASSUME rounds >= 2
          PROVE  /\ <<state', source'>> = Verdict'
                 /\ state' \in {"OFF", "ON"} =>
                       /\ fusion' \in {"wait", "clear"}
                       /\ fusion' = "clear" => Held' \subseteq todo'
                       /\ rounds' >= 3 => Held' = {}
                 /\ state' = "UNKNOWN" => fusion' = "wait"
                 /\ state' \in {"ACQUIRING", "CHANGING", "ERROR"} /\ source' = "PPTs" =>
                       /\ fusion' \in {"wait", "lockPow"}
                       /\ rounds' >= 3 => PowerLocked'
                 /\ state' \in {"CHANGING", "ERROR"} /\ source' = "power" =>
                       /\ fusion' \in {"wait", "lockPpts"}
                       /\ fusion' = "lockPpts" => \A p \in Ppts \ todo' : lockedBy'[p] # "free"
                       /\ rounds' >= 3 => PptsLocked'
        <3>1. <<state', source'>> = Verdict'
            BY <1>2, <1>3, <2>2 DEF Agreed
        <3>2. state \in {"OFF", "ON"} /\ rounds >= 3 => Held' = {}
            BY <1>3, <2>2 DEF Agreed
        <3>3. state \in {"ACQUIRING", "CHANGING", "ERROR"} /\ source = "PPTs" /\ rounds >= 3 => PowerLocked'
            BY <1>3, <2>2 DEF Agreed
        <3>4. state \in {"CHANGING", "ERROR"} /\ source = "power" /\ rounds >= 3 => PptsLocked'
            BY <1>3, <2>2 DEF Agreed
        <3> QED
            BY <1>1, <2>2, <3>1, <3>2, <3>3, <3>4
    <2> QED
        BY <1>1, <2>1, <2>2 DEF Agreed
<1> QED
    BY <1>1, <1>4 DEF Turning

\* The first snapshot after a change.
LEMMA FirstRound ==
    ASSUME Counts, rounds = 0, Fuses
    PROVE  Turning'
<1>1. fusion' = "wait" /\ rounds' = 1
    BY DEF Counts, MaxRounds
<1>2. Together' = Together
    BY Unmoved DEF Counts
<1>3. Loop \/ FusionSlept
    BY <1>1 DEF Fuses, FusionStarts, FusionWakes, FusionLocksPow, FusionLocksPpt, FusionClears,
                FreeLocks, Counts
<1>4. CASE Together
    BY <1>1, <1>2, <1>4 DEF Turning, Agreed
<1>5. CASE ~Together
    <2>1. FusionSlept
        BY <1>1, <1>3, <1>5, LoopApart
    <2>2. state' = "ERROR" /\ source' = "split"
        BY <1>5, <2>1 DEF FusionSlept, AllSame, Together, Counts
    <2> QED
        BY <1>1, <1>2, <1>5, <2>2 DEF Turning, Apart
<1> QED
    BY <1>4, <1>5

\* The end of a sleep.
LEMMA SleptTurning ==
    ASSUME Counts, rounds >= 1, FusionSlept
    PROVE  Turning'
<1>1. ~Together /\ PowerLocked
    BY DEF Counts, Turning, Agreed, Apart, FusionSlept
<1>2. state' = "ERROR" /\ source' = "split" /\ fusion' = "wait"
    BY <1>1 DEF FusionSlept, AllSame, Together, Counts
<1>3. PowerLocked' /\ ~Together'
    <2>1. ~Together'
        BY <1>1, Unmoved DEF Counts
    <2> QED
        BY <1>1, <2>1 DEF PowerLocked, FusionSlept, locks
<1> QED
    BY <1>2, <1>3 DEF Turning, Apart

\* A loop that ends in the sleep of PPTs that differ, the power locked.
LEMMA SleepTurning ==
    ASSUME Counts, Loop, ~Together, state = "ERROR", PowerLocked'
    PROVE  Turning'
BY LoopApart, Unmoved DEF Turning, Apart, Counts

\* An update of the proxies, or its timeout.
LEMMA WakesTurning ==
    ASSUME Counts, rounds >= 1, FusionWakes
    PROVE  Turning'
<1>0. Loop => fusion' \in {"wait", "sleep"}
    BY DEF Loop
<1>1. /\ lockedBy' = lockedBy /\ seenLock' = seenLock /\ seenLock = lockedBy
      /\ hasPow /\ Turning /\ fusion = "wait" /\ TypeOK
    BY DEF Counts, Settled, FusionWakes, locks
<1>2. Held' = Held /\ SeenHeld' = Held /\ PowerLocked' = PowerLocked /\ PptsLocked' = PptsLocked
    BY <1>1 DEF Held, SeenHeld, PowerLocked, PptsLocked
<1>3. CASE Together
    <2>1. CASE Loop
        <3>1. state \in {"OFF", "ON"} => Held' = {}
            BY <1>0, <1>1, <1>2, <2>1 DEF FusionWakes, FreeLocks
        <3>2. state \in {"ACQUIRING", "CHANGING", "ERROR"} /\ source = "PPTs" => PowerLocked'
            BY <1>0, <1>1, <2>1 DEF FusionWakes, PowerLocked
        <3>3. state \in {"CHANGING", "ERROR"} /\ source = "power" => PptsLocked'
            BY <1>0, <1>1, <2>1 DEF FusionWakes, PptsLocked, FreePpts
        <3> QED
            BY <1>3, <2>1, <3>1, <3>2, <3>3, Snapshot
    <2>2. CASE state \in {"OFF", "ON"} /\ fusion' = "clear" /\ todo' = SeenHeld' /\ UNCHANGED <<state, fused, source>>
        BY <1>2, <1>3, <2>2, Onward
    <2>3. CASE /\ source = "power" /\ fusion' = "lockPpts" /\ todo' = FreePpts
               /\ state \in {"ERROR", "ACQUIRING", "CHANGING"} /\ UNCHANGED <<state, fused, source>>
        <3>1. \A p \in Ppts \ todo' : lockedBy'[p] # "free"
            BY <1>1, <2>3 DEF FreePpts
        <3> QED
            BY <1>2, <1>3, <2>3, <3>1, Onward
    <2>4. CASE /\ source \in {"PPTs", "split"} /\ fusion' = "lockPow"
               /\ state \in {"ERROR", "ACQUIRING", "CHANGING"} /\ UNCHANGED <<state, fused, source>>
        BY <1>2, <1>3, <2>4, Onward
    <2> QED
        BY <1>1, <2>1, <2>2, <2>3, <2>4 DEF FusionWakes, FreeLocks
<1>4. CASE ~Together
    <2>1. Apart /\ state = "ERROR" /\ source = "split"
        BY <1>1, <1>4 DEF Turning, Apart
    <2>2. CASE Loop
        <3>1. PowerLocked'
            BY <1>0, <1>1, <2>1, <2>2 DEF FusionWakes, PowerLocked
        <3> QED
            BY <1>4, <2>1, <2>2, <3>1, SleepTurning
    <2>3. CASE fusion' = "lockPow" /\ UNCHANGED <<state, source>>
        <3>1. rounds' = rounds /\ ~Together'
            BY <1>4, <2>3, Unmoved DEF Counts
        <3> QED
            BY <1>1, <1>2, <2>1, <2>3, <3>1 DEF Turning, Apart
    <2> QED
        BY <1>1, <2>1, <2>2, <2>3 DEF FusionWakes
<1> QED
    BY <1>3, <1>4

\* The reply of the power procedure to lock().
LEMMA LocksPowTurning ==
    ASSUME Counts, rounds >= 1, FusionLocksPow
    PROVE  Turning'
<1>1. Turning /\ fusion = "lockPow" /\ TypeOK /\ hasPow
    BY DEF Counts, FusionLocksPow
<1>2. PowerLocked'
    BY <1>1 DEF FusionLocksPow, Lock, PowerLocked, TypeOK, Proxies
<1>3. CASE Together
    <2>1. rounds >= 2 =>
              /\ state \notin {"UNKNOWN", "OFF", "ON"}
              /\ ~(state \in {"CHANGING", "ERROR"} /\ source = "power")
        BY <1>1, <1>3 DEF Turning, Agreed
    <2>2. CASE Loop
        BY <1>2, <1>3, <2>1, <2>2, Snapshot
    <2>3. CASE state \in {"OFF", "ON"} /\ fusion' = "clear" /\ UNCHANGED <<state, fused, source>>
        BY <1>3, <2>1, <2>3, Onward
    <2> QED
        BY <1>1, <2>2, <2>3 DEF FusionLocksPow, FreeLocks
<1>4. CASE ~Together
    <2>1. state = "ERROR"
        BY <1>1, <1>4 DEF Turning, Apart
    <2>2. Loop
        BY <2>1 DEF FusionLocksPow, FreeLocks
    <2> QED
        BY <1>2, <1>4, <2>1, <2>2, SleepTurning
<1> QED
    BY <1>3, <1>4

\* The reply of a PPT to lock().
LEMMA LocksPptTurning ==
    ASSUME Counts, rounds >= 1, NEW p \in Ppts, FusionLocksPpt(p)
    PROVE  Turning'
<1>1. Turning /\ fusion = "lockPpts" /\ TypeOK /\ hasPow /\ p \in todo
    BY DEF Counts, FusionLocksPpt
<1>2. Together
    BY <1>1 DEF Turning, Apart
<1>3. rounds >= 2 =>
          /\ state \notin {"UNKNOWN", "OFF", "ON"}
          /\ ~(state \in {"ACQUIRING", "CHANGING", "ERROR"} /\ source = "PPTs")
          /\ state \in {"CHANGING", "ERROR"} /\ source = "power" =>
                \A q \in Ppts \ todo : lockedBy[q] # "free"
    BY <1>1, <1>2 DEF Turning, Agreed
<1>4. /\ PptsLocked => PptsLocked'
      /\ (\A q \in Ppts \ todo : lockedBy[q] # "free")
            => \A q \in Ppts \ (todo \ {p}) : lockedBy'[q] # "free"
    BY <1>1 DEF FusionLocksPpt, Lock, PptsLocked, TypeOK, Proxies
<1>5. CASE Loop
    <2>1. todo = {p}
        BY <1>1, <1>5 DEF FusionLocksPpt, Loop
    <2>2. (\A q \in Ppts \ todo : lockedBy[q] # "free") => PptsLocked'
        BY <1>4, <2>1 DEF PptsLocked
    <2> QED
        BY <1>2, <1>3, <1>5, <2>2, Snapshot
<1>6. CASE state \in {"OFF", "ON"} /\ fusion' = "clear" /\ UNCHANGED <<state, fused, source>>
    BY <1>2, <1>3, <1>6, Onward
<1>7. CASE todo' = todo \ {p} /\ UNCHANGED <<state, fusion, fused, source>>
    BY <1>1, <1>2, <1>3, <1>4, <1>7, Onward
<1> QED
    BY <1>1, <1>5, <1>6, <1>7 DEF FusionLocksPpt, FreeLocks

\* The reply to slotClearLock.
LEMMA ClearsTurning ==
    ASSUME Counts, rounds >= 1, NEW d \in Proxies, FusionClears(d)
    PROVE  Turning'
<1>1. Turning /\ fusion = "clear" /\ TypeOK
    BY DEF Counts, FusionClears
<1>2. Together
    BY <1>1 DEF Turning, Apart
<1>3. rounds >= 2 =>
          /\ state # "UNKNOWN"
          /\ state \in {"OFF", "ON"} => Held \subseteq todo
          /\ ~(state \in {"ACQUIRING", "CHANGING", "ERROR"} /\ source = "PPTs")
          /\ ~(state \in {"CHANGING", "ERROR"} /\ source = "power")
    BY <1>1, <1>2 DEF Turning, Agreed
<1>4. Held' \subseteq Held \ {d}
    BY <1>1 DEF FusionClears, Relock, Held, TypeOK
<1>5. CASE Loop /\ todo = {d}
    BY <1>2, <1>3, <1>4, <1>5, Snapshot
<1>6. CASE todo' = todo \ {d} /\ UNCHANGED <<state, fusion, fused, source>>
    BY <1>1, <1>2, <1>3, <1>4, <1>6, Onward
<1> QED
    BY <1>5, <1>6 DEF FusionClears

\* Every step of the coroutine.
LEMMA FusesTurning ==
    ASSUME Counts, Fuses
    PROVE  Turning'
<1>1. CASE rounds = 0
    BY <1>1, FirstRound
<1>2. CASE rounds >= 1
    <2>1. ~FusionStarts
        BY <1>2 DEF Counts, Turning, FusionStarts
    <2> QED
        BY <1>2, <2>1, SleptTurning, WakesTurning, LocksPowTurning, LocksPptTurning, ClearsTurning
        DEF Fuses
<1> QED
    BY <1>1, <1>2 DEF Counts

-----------------------------------------------------------------------------
(* All other steps *)

\* Nothing the promise speaks of moves.
LEMMA Still ==
    ASSUME Turning, UNCHANGED <<remote, seen, state, task, conn, lockedBy, rounds>>
    PROVE  Turning'
BY DEF Turning, Together, Agreed, Apart, Verdict, PowerLocked, PptsLocked, Held, remote, task

\* A step that is not the coroutine's and after which the count goes on: it
\* is no refusal of a PPT, so it leaves the state alone.
LEMMA IdleTurning ==
    ASSUME TypeOK, NoOther, Others = {}, Turning, Next, ~Fuses, ~Fails, ~Strays, ~Connects,
           UNCHANGED <<remote, seen, calls, rounds>>
    PROVE  Turning'
<1>1. ~\E d \in Proxies : OtherLocks(d) \/ OtherUnlocks(d)
    BY DEF OtherLocks, OtherUnlocks, NoOther
<1>2. ASSUME NEW p \in Ppts, PptRefuses(p) PROVE FALSE
    <2>1. asked'[p] = {}
        BY <1>2 DEF PptRefuses, Await, TypeOK
    <2> QED
        BY <1>2, <2>1 DEF PptRefuses, calls
<1>3. UNCHANGED <<state, task, conn, lockedBy>>
    BY <1>1, <1>2
    DEF Next, Delivers, DeliverPow, DeliverPpt, DeliverLock, PptCall, PptStep, PowerCall,
        PowerStep, StartsSending, StartSending, StopDataSending,
        InitPPTdevices, Request, Answers, PptExecutes, locks
<1> QED
    BY <1>3, Still

\* Without other clients no lock is theirs.
LEMMA NoOtherStep ==
    ASSUME TypeOK, NoOther, Others = {}, [Next]_vars
    PROVE  NoOther'
<1> USE DEF TypeOK, NoOther, Proxies
<1>1. CASE UNCHANGED lockedBy
    BY <1>1
<1>2. ASSUME NEW d \in Proxies, FusionClears(d) PROVE NoOther'
    BY <1>2 DEF FusionClears, Relock
<1>3. ASSUME NEW p \in Ppts, FusionLocksPpt(p) PROVE NoOther'
    BY <1>3 DEF FusionLocksPpt, Lock
<1>4. CASE FusionLocksPow
    BY <1>4 DEF FusionLocksPow, Lock
<1>7. ASSUME NEW d \in Proxies, StrayClear(d) \/ StrayLock(d) PROVE NoOther'
    BY <1>7 DEF StrayClear, StrayLock, Lock, Relock
<1>5. CASE ~Fuses /\ ~Strays
    BY <1>1, <1>5 DEF Next, vars, locks, Fails, FusionLockFails, FusionClearFails, Answers,
        PptExecutes, PptRefuses, Connects, ConnectDevices, PptsConnected, PptsMissing, PowerConnected,
        PowerMissing, Delivers, DeliverPow, DeliverPpt, DeliverLock, PptCall, PptStep, PowerCall, PowerStep,
        OtherLocks, OtherUnlocks, StartsSending, StartSending, StopDataSending,
        InitPPTdevices, Request
<1>6. CASE FusionStarts \/ FusionSlept \/ FusionWakes
    BY <1>1, <1>6 DEF FusionStarts, FusionSlept, FusionWakes, locks
<1> QED
    BY <1>2, <1>3, <1>4, <1>5, <1>6, <1>7 DEF Fuses, Strays

\* The coroutine leaves the devices and the proxies of them alone.
LEMMA FusesKeeps ==
    ASSUME Fuses
    PROVE  UNCHANGED <<remote, seen, conn>>
BY DEF Fuses, FusionStarts, FusionSlept, FusionWakes, FusionLocksPow, FusionLocksPpt, FusionClears

\* The invariant is inductive.
LEMMA FollowStep ==
    ASSUME SInv, Others = {}, [RNext]_rvars
    PROVE  SInv'
<1>1. TypeOK /\ NoOther /\ rounds \in 0 .. 3 /\ FollowInv
    BY DEF SInv, MaxRounds
<1>2. [Next]_vars
    BY DEF RNext, rvars
<1>3. TypeOK' /\ NoOther'
    BY <1>1, <1>2, TypeStep, NoOtherStep
<1>4. rounds' \in 0 .. 3
    BY <1>1 DEF RNext, rvars, Count, MaxRounds
<1>5. CASE UNCHANGED rvars
    <2>1. UNCHANGED <<remote, seen, state, task, conn, locks, rounds>>
        BY <1>5 DEF rvars, vars
    <2>2. Settled' = Settled /\ Known' = Known /\ hasPow' = hasPow
        BY <2>1, Unmoved DEF Settled, locks
    <2>3. Turning => Turning'
        BY <2>1, Still DEF locks
    <2>4. FollowInv'
        BY <1>1, <2>1, <2>2, <2>3 DEF FollowInv
    <2> QED
        BY <1>3, <1>4, <2>4 DEF SInv, MaxRounds
<1>6. CASE RNext
    <2> SUFFICES ASSUME rounds' >= 1 PROVE Settled' /\ (hasPow' /\ Known' => Turning')
        BY <1>3, <1>4 DEF SInv, FollowInv, MaxRounds
    <2>1. /\ UNCHANGED <<remote, seen, calls>> /\ Settled' /\ ~Connects /\ ~Strays
          /\ fusion' \notin Ended
          /\ rounds' = IF Fuses /\ fusion' = "wait" /\ rounds < MaxRounds THEN rounds + 1 ELSE rounds
        BY <1>6 DEF RNext, Count
    <2> SUFFICES ASSUME hasPow', Known' PROVE Turning'
        BY <2>1
    <2>2. CASE Fuses
        <3>1. UNCHANGED conn
            BY <2>2, FusesKeeps
        <3>2. hasPow /\ Known
            BY <2>1, <3>1, Unmoved
        <3>3. seenPpt = ppt /\ seenPow = pow
            BY <2>1 DEF Settled, remote, seen
        <3>4. Counts
            BY <1>1, <2>1, <2>2, <3>1, <3>2, <3>3 DEF Counts, FollowInv, MaxRounds
        <3> QED
            BY <2>2, <3>4, FusesTurning
    <2>4. ~Fails
        BY <2>1 DEF Fails, FusionLockFails, FusionClearFails, Ended
    <2>3. CASE ~Fuses
        <3>1. rounds' = rounds /\ rounds >= 1
            BY <1>1, <2>1, <2>3
        <3>2. UNCHANGED hasPow
            BY <1>6, <2>1, <2>3, <2>4 DEF RNext, Next, conn, Delivers, DeliverPow, DeliverPpt, DeliverLock, PptCall,
                PptStep, PowerCall, PowerStep, OtherLocks, OtherUnlocks, StartsSending, StartSending, StopDataSending, InitPPTdevices, Request, Answers, PptExecutes,
                PptRefuses
        <3>3. Known' = Known
            BY <2>1 DEF Known, Together, AllPpts, remote
        <3>4. Settled /\ Turning
            BY <1>1, <3>1, <3>2, <3>3 DEF FollowInv
        <3> QED
            BY <1>1, <1>6, <2>1, <2>3, <2>4, <3>1, <3>4, IdleTurning DEF RNext
    <2> QED
        BY <2>2, <2>3
<1> QED
    BY <1>5, <1>6

\* What the promise of doc/soft_interlock.md rests on.
LEMMA FollowInvariant == Others = {} => (RSpec => []SInv)
<1> SUFFICES ASSUME Others = {} PROVE RSpec => []SInv
    OBVIOUS
<1>1. RInit => SInv
    <2>1. Init => NoOther
        BY DEF Init, NoOther
    <2> QED
        BY <2>1, TypeInit DEF RInit, SInv, FollowInv, MaxRounds
<1>2. SInv /\ [RNext]_rvars => SInv'
    BY FollowStep
<1> QED
    BY <1>1, <1>2, PTL DEF RSpec

\* Without other clients StateFollows: two rounds after the last move of a
\* device or answer of a PPT the state is Published, what the document says but
\* for the two departures named there, of an interlock that has its Power
\* Procedure.  PPTs that share an ERROR or INIT are left out: neither code nor
\* document has a rule for them, and the fusion keeps the state it had.
THEOREM Follows == Others = {} => (RSpec => [](hasPow /\ Known => StateFollows))
<1>1. SInv => (hasPow /\ Known => StateFollows)
    BY Documents DEF SInv, MaxRounds
<1> QED
    BY <1>1, FollowInvariant, PTL

\* And LocksFollow, one round later: the document's locks, but for PowerLeftOpen
\* and PptsLeftOpen.
THEOREM Interlocks == Others = {} => (RSpec => [](hasPow /\ Known => LocksFollow))
<1>1. SInv => (hasPow /\ Known => LocksFollow)
    BY Documents DEF SInv, MaxRounds
<1> QED
    BY <1>1, FollowInvariant, PTL

\* PPTs that are not looked at in ERROR or INIT are never there, and the count
\* starts with the task.
Healthy == \A p \in Ppts : ppt[p] \notin {"ERROR", "INIT"}
Started == rounds >= 1 => fusion # "off"

LEMMA HealthyStep ==
    ASSUME PptVisited \cap {"ERROR", "INIT"} = {}, TypeOK, Healthy, [Next]_vars
    PROVE  Healthy'
<1> USE DEF TypeOK, Healthy
<1>1. CASE UNCHANGED ppt
    BY <1>1
<1>2. ASSUME NEW p \in Ppts, PptCall(p) \/ PptStep(p) PROVE Healthy'
    BY <1>2 DEF PptCall, PptStep, Leave
<1>3. CASE \/ StartsSending \/ StopDataSending \/ InitPPTdevices
           \/ Fails \/ Strays
    BY <1>1, <1>3 DEF StartsSending, StartSending, StopDataSending, InitPPTdevices, Request,
                      Fails, Strays, FusionLockFails, FusionClearFails, StrayClear, StrayLock, remote
<1>7. ASSUME NEW p \in Ppts, Answers(p) PROVE Healthy'
    BY <1>7 DEF Answers, PptExecutes, PptRefuses, remote
<1>4. CASE Fuses
    BY <1>1, <1>4, FusesKeeps DEF remote
<1>5. CASE Connects
    BY <1>1, <1>5 DEF Connects, ConnectDevices, PptsConnected, PptsMissing, PowerConnected, PowerMissing, remote
<1>6. CASE \/ PowerCall \/ PowerStep \/ Delivers \/ UNCHANGED vars
           \/ \E d \in Proxies : OtherLocks(d) \/ OtherUnlocks(d)
    BY <1>1, <1>6 DEF PowerCall, PowerStep, Delivers, DeliverPow, DeliverPpt, DeliverLock,
                      OtherLocks, OtherUnlocks, remote, vars
<1> QED
    BY <1>2, <1>3, <1>4, <1>5, <1>6, <1>7 DEF Next

LEMMA StartedStep ==
    ASSUME Started, [RNext]_rvars
    PROVE  Started'
<1>1. CASE UNCHANGED rvars
    BY <1>1 DEF rvars, vars, task, Started
<1>2. CASE RNext
    BY <1>2 DEF RNext, Count, Started, Ended
<1> QED
    BY <1>1, <1>2

\* The interlock outside expert mode always has its Power Procedure: there both
\* hold as the run checks them, if the PPTs are never in ERROR or INIT.
THEOREM Promise ==
    Others = {} /\ ~ExpertMode /\ PptVisited \cap {"ERROR", "INIT"} = {}
        => (RSpec => [](StateFollows /\ LocksFollow))
<1> SUFFICES ASSUME Others = {}, ~ExpertMode, PptVisited \cap {"ERROR", "INIT"} = {}
             PROVE  RSpec => [](StateFollows /\ LocksFollow)
    OBVIOUS
<1>1. RInit => Healthy /\ Started
    <2>1. Init => Healthy
        BY DEF Init, Healthy
    <2>2. RInit => Init /\ Started
        BY DEF RInit, Started
    <2> QED
        BY <2>1, <2>2
<1>2. SInv /\ Healthy /\ Started /\ [RNext]_rvars => Healthy' /\ Started'
    BY HealthyStep, StartedStep DEF SInv, MaxRounds, RNext, rvars
<1>3. InterlockArmed /\ Healthy /\ Started /\ rounds >= 1 => hasPow /\ Known
    BY ConstantsAssumption DEF InterlockArmed, Healthy, Started, Known, AllPpts
<1>4. SInv /\ InterlockArmed /\ Healthy /\ Started => StateFollows /\ LocksFollow
    <2>1. SInv /\ rounds < 1 => StateFollows /\ LocksFollow
        BY DEF SInv, MaxRounds, StateFollows, LocksFollow
    <2>2. SInv /\ hasPow /\ Known => StateFollows /\ LocksFollow
        BY Documents DEF SInv, MaxRounds
    <2> QED
        BY <1>3, <2>1, <2>2 DEF SInv, MaxRounds
<1>5. RSpec => Spec
    <2>1. RInit => Init
        BY DEF RInit
    <2>2. [RNext]_rvars => [Next]_vars
        BY DEF RNext, rvars
    <2> QED
        BY <2>1, <2>2, PTL DEF RSpec, Spec
<1>6. RSpec => []SInv
    BY FollowInvariant
<1>7. RSpec => []InterlockArmed
    BY <1>5, Armed, PTL
<1> QED
    BY <1>1, <1>2, <1>4, <1>6, <1>7, PTL DEF RSpec

=============================================================================
