----------------------------- MODULE DsscControl -----------------------------
(***************************************************************************)
(* The DsscControl device: the state-fusion task that merges the states of *)
(* the PPTs and of the Power Procedure and drives the soft interlock, the  *)
(* slots an operator calls on it, and its connection procedure.            *)
(*                                                                         *)
(* The middlelayer device is one asyncio event loop: code between two      *)
(* awaits is atomic, so an action is what a coroutine does from one await  *)
(* to the next.  `fusion` is the await at which state_fusion is parked.    *)
(* Remote devices run on their own; the proxies hold copies of their       *)
(* states (seenPpt, seenPow) that trail behind until an update arrives.    *)
(***************************************************************************)
EXTENDS FiniteSets

CONSTANTS
    Ppts,           \* the PPT devices ticked in pptConfig
    PptVisited,     \* the PPT states a run looks at
    PowVisited,     \* the Power Procedure states a run looks at
    ExpertMode,     \* the INITONLY property expertMode
    SlotsCalled,    \* the slots of this device an operator calls
    Others,         \* the devices another client also locks
    PromptLocks     \* the devices whose update of lockedBy overtakes the reply
                    \* of slotClearLock, so that no change of it is seen late

VARIABLES
    ppt, pow,           \* states of the remote devices
    seenPpt, seenPow,   \* the copies in the proxies
    lockedBy,           \* who locks each remote device
    seenLock,           \* the copies of lockedBy in the proxies
    state,              \* the published state of this device
    fusion,             \* where state_fusion is parked
    fused,              \* its local `state`
    source,             \* its local `source`
    todo,               \* the proxies whose call of a gather is under way
    slot,               \* what the slot that awaits answers of PPTs is at
    asked,              \* for each PPT, the states in which it executes the
                        \* call it has not answered, {} if there is none
    hasPow,             \* power_procedure is not None
    connecting          \* where connectDevices is parked

remote == <<ppt, pow>>
seen   == <<seenPpt, seenPow>>
locks  == <<lockedBy, seenLock>>
task   == <<fusion, fused, source, todo>>
calls  == <<slot, asked>>
conn   == <<hasPow, connecting>>
vars   == <<remote, seen, locks, state, task, calls, conn>>

P == INSTANCE PptStates WITH state <- ppt

\* ON stands for ACTIVE, ENGAGED and ON, which the code never tells apart.
PowState == {"PASSIVE", "CHANGING", "ON", "ERROR"}

\* The Power Procedure as a member of a set of proxies.
PowerDevice == "power"

ASSUME ConstantsAssumption ==
    /\ Ppts # {} /\ IsFiniteSet(Ppts) /\ PowerDevice \notin Ppts
    /\ PptVisited \subseteq P!PptState
    /\ PptVisited \cap {"OFF", "ON", "ERROR"} # {}
    /\ PowVisited \subseteq PowState
    /\ PowVisited \cap {"PASSIVE", "ON"} # {}
    /\ ExpertMode \in BOOLEAN
    /\ SlotsCalled \subseteq {"startDataSending", "startAllChannelsDummyData",
                              "stopDataSending", "initPPTdevices"}
    /\ Others \subseteq Ppts \cup {PowerDevice}
    /\ PromptLocks \subseteq Ppts \cup {PowerDevice}

\* Values of lockedBy: nobody, this device, another client.
Owner == {"free", "control", "other"}

\* The members of DEVICE_STATES this code sets.
ControlState == {"UNKNOWN", "CHANGING", "OFF", "ON", "ACQUIRING", "ERROR"}

\* "split" is the source "PPTs have different states".
Source == {"", "PPTs", "power", "split"}

\* "off": never started or cancelled.  Outside its try block an exception ends
\* the task: "dead" by that of `None.lockedBy`, "noLock" and "noClear" by that
\* of a call of lock() or of slotClearLock().
Fusion == {"off", "top", "sleep", "wait", "lockPpts", "lockPow", "clear",
           "dead", "noLock", "noClear"}

\* "calls": a refusal reaches onException.  "stop", "init": _initPPTdevices
\* stops and initialises.  "refused": one call has raised, the others go on.
Slot == {"no", "calls", "stop", "init", "refused"}

Proxies == Ppts \cup {PowerDevice}

TypeOK ==
    /\ ppt \in [Ppts -> P!PptState]
    /\ seenPpt \in [Ppts -> P!PptState]
    /\ pow \in PowState /\ seenPow \in PowState
    /\ lockedBy \in [Proxies -> Owner] /\ seenLock \in [Proxies -> Owner]
    /\ state \in ControlState /\ fused \in ControlState
    /\ fusion \in Fusion
    /\ source \in Source
    /\ todo \in SUBSET Proxies
    /\ slot \in Slot /\ asked \in [Ppts -> SUBSET P!PptState]
    /\ hasPow \in BOOLEAN
    /\ connecting \in {"no", "ppts", "power"}

\* The device as instantiated: it has connected to nothing and the remote
\* devices are idle.  onInitialization runs connectDevices.
Init ==
    /\ ppt \in [Ppts -> PptVisited \cap {"OFF", "ON", "ERROR"}]
    /\ pow \in PowVisited \cap {"PASSIVE", "ON"}
    /\ seenPpt = ppt /\ seenPow = pow
    /\ lockedBy = [d \in Proxies |-> "free"] /\ seenLock = lockedBy
    /\ state = "UNKNOWN" /\ fused = "UNKNOWN"
    /\ fusion = "off" /\ source = "" /\ todo = {}
    /\ slot = "no" /\ asked = [p \in Ppts |-> {}]
    /\ hasPow = FALSE /\ connecting = "no"

-----------------------------------------------------------------------------
(* Remote devices and the proxies *)

\* A slot of a PPT moves it to a transient state, at once or when its event
\* loop comes to it.
Leave(s) == (P!Succ(s) \cap {"CHANGING", "OPENING", "CLOSING"}) \cap PptVisited

\* Somebody other than this device calls a slot of p: refused while locked by
\* anybody else.  `other` stands for the lock's owner too.
PptCall(p) ==
    /\ lockedBy[p] # "control"
    /\ ppt[p] \in P!Resting
    /\ \E s \in Leave(ppt[p]) : ppt' = [ppt EXCEPT ![p] = s]
    /\ UNCHANGED <<pow, seen, locks, state, task, calls, conn>>

\* A transient state of p ends.
PptStep(p) ==
    /\ ppt[p] \in {"CHANGING", "OPENING", "CLOSING"}
    /\ \E s \in P!Succ(ppt[p]) \cap PptVisited : ppt' = [ppt EXCEPT ![p] = s]
    /\ UNCHANGED <<pow, seen, locks, state, task, calls, conn>>

\* The power procedure starts to ramp: only its lock keeps operators away.
PowerCall ==
    /\ lockedBy[PowerDevice] # "control"
    /\ pow # "CHANGING" /\ "CHANGING" \in PowVisited
    /\ pow' = "CHANGING"
    /\ UNCHANGED <<ppt, seen, locks, state, task, calls, conn>>

\* A ramp ends.  The hardware fails under the power procedure at any time,
\* whatever is locked.
PowerStep ==
    /\ pow' \in PowVisited \ {pow}
    /\ pow = "CHANGING" \/ pow' = "ERROR"
    /\ UNCHANGED <<ppt, seen, locks, state, task, calls, conn>>

\* Updates arrive in order; only the last one delivered can be read.
DeliverPpt(p) ==
    /\ seenPpt[p] # ppt[p]
    /\ seenPpt' = [seenPpt EXCEPT ![p] = ppt[p]]
    /\ UNCHANGED <<remote, seenPow, locks, state, task, calls, conn>>

DeliverPow ==
    /\ seenPow # pow
    /\ seenPow' = pow
    /\ UNCHANGED <<remote, seenPpt, locks, state, task, calls, conn>>

DeliverLock(d) ==
    /\ seenLock[d] # lockedBy[d]
    /\ seenLock' = [seenLock EXCEPT ![d] = lockedBy[d]]
    /\ UNCHANGED <<remote, seen, lockedBy, state, task, calls, conn>>

\* The copy follows at once or when the update arrives.
Relock(d, owner) ==
    /\ lockedBy' = [lockedBy EXCEPT ![d] = owner]
    /\ seenLock' = IF d \in PromptLocks THEN [seenLock EXCEPT ![d] = owner] ELSE seenLock

\* Another client takes or frees the lock of a device.
OtherLocks(d) ==
    /\ d \in Others
    /\ lockedBy[d] = "free" /\ Relock(d, "other")
    /\ UNCHANGED <<remote, seen, state, task, calls, conn>>

OtherUnlocks(d) ==
    /\ lockedBy[d] = "other" /\ Relock(d, "free")
    /\ UNCHANGED <<remote, seen, state, task, calls, conn>>

-----------------------------------------------------------------------------
(* Slots of this device *)

\* A slot sends its calls and awaits the answers.  Bound: a slot that calls
\* PPTs begins when the answers to the one before have all arrived.
Request(name, kind, called) ==
    /\ name \in SlotsCalled /\ slot = "no"
    /\ slot' = IF \A p \in Ppts : called[p] = {} THEN "no" ELSE kind
    /\ asked' = called
    /\ UNCHANGED <<remote, seen, locks, state, task, conn>>

\* startDataSending calls runXFEL, acquireBursts calls startBurstAcquisition:
\* both are for ON, startAllChannelsDummyData is for ON and OFF, at either end.
StartsFrom == [startDataSending |-> {"ON"}, startAllChannelsDummyData |-> {"ON", "OFF"}]

StartSending(name) ==
    /\ state \in StartsFrom[name]
    /\ Request(name, "calls", [p \in Ppts |-> StartsFrom[name]])

StartsSending == \E name \in DOMAIN StartsFrom : StartSending(name)

\* The slot to call is chosen by the state in the proxy, and each is allowed
\* in that state alone.
Stops == [p \in Ppts |-> {seenPpt[p]} \cap {"ACQUIRING", "STARTED"}]
Inits == [p \in Ppts |-> IF seenPpt[p] \in {"OFF", "ON"} THEN {"OFF", "ON"} ELSE {}]

StopDataSending == state = "ACQUIRING" /\ Request("stopDataSending", "calls", Stops)

\* _initPPTdevices stops what runs and then initialises what rests; it catches
\* whatever the PPTs raise.
InitPPTdevices ==
    /\ state \in {"ON", "OFF"}
    /\ IF \E p \in Ppts : Stops[p] # {} THEN Request("initPPTdevices", "stop", Stops)
                                      ELSE Request("initPPTdevices", "init", Inits)

\* What is left to await once p has answered; the proxies are looked at again
\* when the last PPT has stopped.
Await(p, kind) ==
    LET left == [asked EXCEPT ![p] = {}]
        last == \A q \in Ppts : left[q] = {}
    IN  /\ asked' = IF last /\ kind = "stop" THEN Inits ELSE left
        /\ slot' = IF \A q \in Ppts : asked'[q] = {} THEN "no"
                   ELSE IF last THEN "init" ELSE kind

\* A PPT executes the call if it is allowed in its state and nobody else has
\* locked it.
Executes(p) == lockedBy[p] # "other" /\ ppt[p] \in asked[p]

PptExecutes(p) ==
    /\ asked[p] # {} /\ Executes(p)
    /\ ppt' = [ppt EXCEPT ![p] = "CHANGING"]
    /\ Await(p, slot)
    /\ UNCHANGED <<pow, seen, locks, state, task, conn>>

\* gather raises the first refusal at once, which ends the slot: through
\* onException, or caught by _initPPTdevices.
PptRefuses(p) ==
    /\ asked[p] # {} /\ ~Executes(p)
    /\ state' = IF slot = "calls" THEN "ERROR" ELSE state
    /\ Await(p, "refused")
    /\ UNCHANGED <<remote, seen, locks, task, conn>>

Answers(p) == PptExecutes(p) \/ PptRefuses(p)

-----------------------------------------------------------------------------
(* connectDevices *)

\* Calls of slotClearLock that the cancelled task has sent are still executed.
\* Calls of lock are not under way in these states.
ConnectDevices ==
    /\ state \in {"UNKNOWN", "ON"} /\ connecting = "no"
    /\ fusion' = "off" /\ fused' = "UNKNOWN" /\ source' = ""
    /\ todo' = IF fusion \in {"off", "clear", "noClear"} THEN todo ELSE {}
    /\ state' = "CHANGING"
    /\ connecting' = "ppts"
    /\ UNCHANGED <<remote, seen, locks, calls, hasPow>>

\* A call that nobody awaits any more.
StrayClear(d) ==
    /\ fusion \in {"off", "noClear"} /\ d \in todo
    /\ Relock(d, "free")
    /\ todo' = todo \ {d}
    /\ UNCHANGED <<remote, seen, state, fusion, fused, source, calls, conn>>

\* A device answers calls in the order in which they were sent to it.
PptsConnected ==
    /\ connecting = "ppts" /\ todo \cap Ppts = {}
    /\ connecting' = "power"
    /\ seenPpt' = ppt
    /\ UNCHANGED <<remote, seenPow, locks, state, task, calls, hasPow>>

\* Any failure or timeout among the PPTs ends the slot; the tasks it
\* cancelled stay cancelled.
PptsMissing ==
    /\ connecting = "ppts"
    /\ connecting' = "no"
    /\ state' = "UNKNOWN"
    /\ UNCHANGED <<remote, seen, locks, task, calls, hasPow>>

PowerConnected ==
    /\ connecting = "power" /\ todo = {}
    /\ connecting' = "no"
    /\ hasPow' = TRUE
    /\ seenPow' = pow
    /\ fusion' = "top"
    /\ UNCHANGED <<remote, seenPpt, locks, state, fused, source, todo, calls>>

\* Variant: the Power Procedure's absence is ignored outside expert mode too.
PowerMissingIgnored ==
    /\ connecting = "power"
    /\ connecting' = "no" /\ todo' = {}
    /\ fusion' = "top"
    /\ UNCHANGED <<remote, seen, locks, state, fused, source, calls, hasPow>>

\* A device that is not there executes no call.
PowerMissing ==
    /\ connecting = "power"
    /\ connecting' = "no" /\ todo' = {}
    /\ IF ExpertMode THEN fusion' = "top" /\ UNCHANGED state
                     ELSE state' = "ERROR" /\ UNCHANGED fusion
    /\ UNCHANGED <<remote, seen, locks, fused, source, calls, hasPow>>

-----------------------------------------------------------------------------
(* state_fusion *)

AllSame == \A p, q \in Ppts : seenPpt[p] = seenPpt[q]
Common == seenPpt[CHOOSE p \in Ppts : TRUE]

\* Variant: STARTED is inherited as it is.
FuseInherited(c, w, old) ==
    IF w = "CHANGING" THEN <<"CHANGING", "power">>
    ELSE IF c \in {"CHANGING", "OPENING", "CLOSING"} THEN <<"CHANGING", "PPTs">>
    ELSE <<c, "PPTs">>

\* Variant: the ramps of the Power Procedure trump acquisition.
FuseRampFirst(c, w, old) ==
    IF w = "CHANGING" THEN <<"CHANGING", "power">>
    ELSE IF c \in {"ACQUIRING", "STARTED"} THEN <<"ACQUIRING", "PPTs">>
    ELSE IF w = "ERROR" THEN <<"ERROR", "power">>
    ELSE IF w = "PASSIVE" THEN <<"OFF", "power">>
    ELSE IF c \in {"CHANGING", "OPENING", "CLOSING"} THEN <<"CHANGING", "PPTs">>
    ELSE <<c, "PPTs">>

\* The state and the source the chain of `if`s ends with, the last one that
\* matches deciding: `c` is the state all PPTs share, `w` that of the Power
\* Procedure, `old` the state published so far.
Fuse(c, w, old) ==
    IF c \in {"ACQUIRING", "STARTED"} THEN <<"ACQUIRING", "PPTs">>
    ELSE IF w = "ERROR" THEN <<"ERROR", "power">>
    ELSE IF w = "PASSIVE" THEN <<"OFF", "power">>
    ELSE IF w = "CHANGING" THEN <<"CHANGING", "power">>
    ELSE IF c \in {"CHANGING", "OPENING", "CLOSING"} THEN <<"CHANGING", "PPTs">>
    ELSE IF c \in {"UNKNOWN", "OFF", "ON"} THEN <<c, "PPTs">>
    ELSE <<old, "">>

SeenPow == IF hasPow THEN seenPow ELSE "none"

\* The loop from its head to its first await: publish the fused state and
\* wait for updates, or sleep when the PPTs differ.
Loop ==
    /\ todo' = {}
    /\ IF AllSame
       THEN LET f == Fuse(Common, SeenPow, state)
            IN  /\ fused' = f[1] /\ source' = f[2]
                /\ state' = f[1]
                /\ fusion' = "wait"
       ELSE /\ fused' = state /\ source' = ""
            /\ fusion' = "sleep"
            /\ UNCHANGED state

\* The devices this one locks, and those whose proxies say so.
Held == {d \in Proxies : lockedBy[d] = "control"}
SeenHeld == {d \in Proxies : seenLock[d] = "control"}

\* Variant: every lock on a device is freed, not only the own ones.
FreeAnyLock ==
    LET locked == {d \in Proxies : seenLock'[d] # "free"}
    IN  IF state \notin {"OFF", "ON"} \/ locked = {} THEN Loop
        ELSE fusion' = "clear" /\ todo' = locked /\ UNCHANGED <<state, fused, source>>

\* Variant: OFF does not count as idle.
FreeLocksWhenOn ==
    IF state # "ON" \/ SeenHeld' = {} THEN Loop
    ELSE fusion' = "clear" /\ todo' = SeenHeld' /\ UNCHANGED <<state, fused, source>>

\* From `if self.state in {OFF, ON}` on: free the locks held by now.
FreeLocks ==
    IF state \notin {"OFF", "ON"} THEN Loop
    ELSE IF ~hasPow
    THEN fusion' = "dead" /\ todo' = {} /\ UNCHANGED <<state, fused, source>>
    ELSE IF SeenHeld' = {} THEN Loop
    ELSE fusion' = "clear" /\ todo' = SeenHeld' /\ UNCHANGED <<state, fused, source>>

FusionStarts ==
    /\ fusion = "top"
    /\ Loop
    /\ UNCHANGED <<remote, seen, locks, calls, conn>>

\* After sleep(1) the proxies are read again; if the PPTs agree by now the
\* state read before the sleep is published, with no source.
FusionSlept ==
    /\ fusion = "sleep"
    /\ fusion' = "wait"
    /\ fused' = IF AllSame THEN fused ELSE "ERROR"
    /\ source' = IF AllSame THEN "" ELSE "split"
    /\ state' = fused'
    /\ UNCHANGED <<remote, seen, locks, todo, calls, conn>>

FreePpts == {p \in Ppts : seenLock[p] = "free"}

\* Variant: the power lock is requested without looking at lockedBy.
FusionWakesRelocking ==
    /\ fusion = "wait"
    /\ UNCHANGED <<remote, seen, locks, calls, conn>>
    /\ IF state \notin {"ERROR", "ACQUIRING", "CHANGING"} THEN FreeLocks
       ELSE IF source = "power" /\ FreePpts # {}
       THEN fusion' = "lockPpts" /\ todo' = FreePpts /\ UNCHANGED <<state, fused, source>>
       ELSE IF source \in {"PPTs", "split"}
       THEN fusion' = "lockPow" /\ UNCHANGED <<state, fused, source, todo>>
       ELSE Loop

\* waitUntilNew returns or times out; then the locks are updated, by the
\* state of now and the source of the last snapshot.
FusionWakes ==
    /\ fusion = "wait"
    /\ UNCHANGED <<remote, seen, locks, calls, conn>>
    /\ IF state \notin {"ERROR", "ACQUIRING", "CHANGING"} THEN FreeLocks
       ELSE IF ~hasPow
       THEN fusion' = "dead" /\ UNCHANGED <<state, fused, source, todo>>
       ELSE IF source = "power" /\ FreePpts # {}
       THEN fusion' = "lockPpts" /\ todo' = FreePpts /\ UNCHANGED <<state, fused, source>>
       ELSE IF source \in {"PPTs", "split"} /\ seenLock[PowerDevice] = "free"
       THEN fusion' = "lockPow" /\ UNCHANGED <<state, fused, source, todo>>
       ELSE Loop

\* lock(d) waits for the lock to be free, and for the proxy to show it taken.
Lock(d) ==
    /\ lockedBy[d] = "free"
    /\ lockedBy' = [lockedBy EXCEPT ![d] = "control"]
    /\ seenLock' = [seenLock EXCEPT ![d] = "control"]

\* Variant: the lock is taken over from whoever holds it.
FusionStealsPpt(p) ==
    /\ fusion = "lockPpts" /\ p \in todo
    /\ lockedBy' = [lockedBy EXCEPT ![p] = "control"]
    /\ seenLock' = [seenLock EXCEPT ![p] = "control"]
    /\ UNCHANGED <<remote, seen, calls, conn>>
    /\ IF todo = {p} THEN FreeLocks
       ELSE todo' = todo \ {p} /\ UNCHANGED <<state, fusion, fused, source>>

\* The gather ends with the last of its calls.
FusionLocksPpt(p) ==
    /\ fusion = "lockPpts" /\ p \in todo
    /\ Lock(p)
    /\ UNCHANGED <<remote, seen, calls, conn>>
    /\ IF todo = {p} THEN FreeLocks
       ELSE todo' = todo \ {p} /\ UNCHANGED <<state, fusion, fused, source>>

FusionLocksPow ==
    /\ fusion = "lockPow"
    /\ Lock(PowerDevice)
    /\ UNCHANGED <<remote, seen, calls, conn>>
    /\ FreeLocks

\* slotClearLock frees the lock whoever holds it.
FusionClears(d) ==
    /\ fusion = "clear" /\ d \in todo
    /\ Relock(d, "free")
    /\ IF todo = {d} THEN Loop
       ELSE todo' = todo \ {d} /\ UNCHANGED <<state, fusion, fused, source>>
    /\ UNCHANGED <<remote, seen, calls, conn>>

\* lock() and slotClearLock() raise when the device is gone or does not answer.
\* Outside the try that ends the task, the other calls of the gather go on.
FusionLockFails(d) ==
    /\ \/ fusion = "lockPpts" /\ d \in todo
       \/ fusion = "lockPow" /\ d = PowerDevice
    /\ fusion' = "noLock"
    /\ todo' = IF fusion = "lockPpts" THEN todo \ {d} ELSE {}
    /\ UNCHANGED <<remote, seen, locks, state, fused, source, calls, conn>>

FusionClearFails(d) ==
    /\ fusion = "clear" /\ d \in todo
    /\ fusion' = "noClear"
    /\ todo' = todo \ {d}
    /\ UNCHANGED <<remote, seen, locks, state, fused, source, calls, conn>>

\* A lock() that nobody awaits any more.
StrayLock(d) ==
    /\ fusion = "noLock" /\ d \in todo
    /\ Lock(d)
    /\ todo' = todo \ {d}
    /\ UNCHANGED <<remote, seen, state, fusion, fused, source, calls, conn>>

Strays == \E d \in Proxies : StrayClear(d) \/ StrayLock(d)

Fuses ==
    \/ FusionStarts \/ FusionSlept \/ FusionWakes \/ FusionLocksPow
    \/ \E p \in Ppts : FusionLocksPpt(p)
    \/ \E d \in Proxies : FusionClears(d)

Fails == \E d \in Proxies : FusionLockFails(d) \/ FusionClearFails(d)

Connects ==
    \/ ConnectDevices \/ PptsConnected \/ PptsMissing
    \/ PowerConnected \/ PowerMissing

Delivers == \/ DeliverPow
            \/ \E p \in Ppts : DeliverPpt(p)
            \/ \E d \in Proxies : DeliverLock(d)

Next ==
    \/ \E p \in Ppts : PptCall(p) \/ PptStep(p)
    \/ PowerCall \/ PowerStep
    \/ Delivers
    \/ \E d \in Proxies : OtherLocks(d) \/ OtherUnlocks(d)
    \/ StartsSending \/ StopDataSending \/ InitPPTdevices
    \/ \E p \in Ppts : Answers(p)
    \/ Connects
    \/ Fuses \/ Fails \/ Strays

Spec == Init /\ [][Next]_vars

-----------------------------------------------------------------------------
(* Properties *)

\* The interlock is armed whenever it runs: outside expert mode the fusion
\* task never runs without the proxy of the Power Procedure, so it is never
\* ended by the AttributeError of `None.lockedBy` (lines 410-420).  In expert
\* mode it is, the first time the state is one that sets or frees locks; and in
\* either mode a call of lock() or slotClearLock() that raises ends it.
InterlockArmed ==
    ~ExpertMode => (fusion # "off" => hasPow) /\ fusion # "dead"

\* While calls of slotClearLock are under way every lock still on the list is
\* its own, also after an exception or connectDevices has ended the task: the
\* check `lockedBy == self.deviceId` of line 421 is not stale when the calls
\* are executed.  It is promised of the devices in PromptLocks alone: a copy
\* that still shows the lock cleared a round ago is cleared again, and by then
\* the lock may be another client's.
ClearsOwnLocks ==
    fusion \in {"clear", "off", "noClear"} => todo \cap PromptLocks \subseteq Held

\* No call of state_fusion, awaited or not, takes or frees a lock that another
\* client holds, on the devices in PromptLocks.
OthersRespected ==
    [][Fuses \/ Strays =>
        \A d \in PromptLocks : lockedBy[d] = "other" => lockedBy'[d] = "other"]_vars

=====
