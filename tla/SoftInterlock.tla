---------------------------- MODULE SoftInterlock ----------------------------
(***************************************************************************)
(* What doc/soft_interlock.md says of the state fusion, stated over        *)
(* DsscControl with the places named where the code departs from it: once  *)
(* the devices have settled, the published state and the locks follow      *)
(* their states.  `rounds` counts the snapshots state_fusion has published *)
(* since a device last moved, an update arrived or a PPT answered a slot,  *)
(* so that the promise is a bound, not only an eventuality.                *)
(***************************************************************************)
EXTENDS DsscControl, Naturals

VARIABLE rounds

\* Three rounds are told apart, more are not.
MaxRounds == 3

\* The task has been cancelled, or ended by an exception.
Ended == {"off", "dead", "noLock", "noClear"}

Settled == seenPpt = ppt /\ seenPow = pow /\ seenLock = lockedBy

Count ==
    rounds' = IF \/ remote' # remote \/ seen' # seen \/ calls' # calls
                 \/ ~Settled' \/ Connects \/ Strays \/ fusion' \in Ended
              THEN 0
              ELSE IF Fuses /\ fusion' = "wait" /\ rounds < MaxRounds
              THEN rounds + 1
              ELSE rounds

RInit == Init /\ rounds = 0
RNext == Next /\ Count
rvars == <<vars, rounds>>

RSpec == RInit /\ [][RNext]_rvars

\* The coroutine and the message delivery are scheduled by the event loops;
\* nobody has to call a slot.  A transient state of a PPT need not end.
Fairness == /\ WF_rvars(Fuses /\ Count)
            /\ WF_rvars(DeliverPow /\ Count)
            /\ \A p \in Ppts : WF_rvars(DeliverPpt(p) /\ Count)
            /\ \A d \in Proxies : WF_rvars(DeliverLock(d) /\ Count)

FairRSpec == RSpec /\ Fairness

-----------------------------------------------------------------------------
(* The documented fusion (doc/soft_interlock.md, "State Fusion") and where  *)
(* state_fusion departs from it                                            *)

AllPpts(states) == \A p \in Ppts : ppt[p] \in states
Together == \A p, q \in Ppts : ppt[p] = ppt[q]
Transient == {"CHANGING", "OPENING", "CLOSING"}

DaqOn       == AllPpts({"ACQUIRING", "STARTED"}) /\ Together
PptIdle     == AllPpts({"OFF", "ON"}) /\ Together
AnyChanging == pow = "CHANGING" \/ \E p \in Ppts : ppt[p] \in Transient

\* The five rules of the document, the later rule winning: "If PPT devices do
\* not all have the same state, we go to ERROR"; idle, "we inherit that state";
\* "If any device is changing, we go to CHANGING"; "If the Power Procedure is
\* in error, we go to ERROR"; acquiring, "we inherit that state", STARTED read
\* as ACQUIRING (line 50).
Documented ==
    IF DaqOn THEN "ACQUIRING"
    ELSE IF pow = "ERROR" THEN "ERROR"
    ELSE IF AnyChanging THEN "CHANGING"
    ELSE IF ~Together THEN "ERROR"
    ELSE ppt[CHOOSE p \in Ppts : TRUE]

\* Two departures: PPTs that differ are in ERROR even while one of them, or the
\* power, changes (lines 356-361); and a Power Procedure that is off shows OFF,
\* as line 47 has it and the document does not, even while the PPTs change.
PowerOff == pow = "PASSIVE"

Published ==
    IF ~Together THEN "ERROR"
    ELSE IF PowerOff /\ ~DaqOn THEN "OFF"
    ELSE Documented

\* The published state is that of the devices within two rounds of the last
\* move of a device or answer to a slot: one round may be a sleep that began
\* while the PPTs differed and that publishes the state from before it (lines
\* 341-352); no stale state and no ERROR left by onException survives the next.
StateFollows == rounds >= 2 => state = Published

\* "If acquiring, the power slots are disabled.  If powering on/off, the
\* acquisition slots are disabled.  If changing or in error, the power slots
\* and acquisition slots are disabled."
PowerBarred == DaqOn \/ AnyChanging \/ ~Together \/ pow = "ERROR"
PptsBarred  == ~DaqOn /\ (AnyChanging \/ ~Together \/ pow = "ERROR")

\* The code locks one side only, the one that is not the source (lines
\* 410-415), and neither where it publishes OFF.  So it leaves open the power
\* slots while the power itself ramps, fails or is off and the PPTs agree, and
\* the acquisition slots while the PPTs differ, and while they change with the
\* power on or off.
PowerLeftOpen == Together /\ ~DaqOn /\ pow # "ON"
PptsLeftOpen  == ~Together \/ pow \in {"ON", "PASSIVE"}

\* One round later the locks follow too, even where the copies of lockedBy are
\* late: what the document bars is locked, but for what the code leaves open,
\* and a detector that is idle, power and PPTs, has no lock left.
LocksFollow ==
    rounds >= 3 =>
        /\ PowerBarred /\ ~PowerLeftOpen => lockedBy[PowerDevice] # "free"
        /\ PptsBarred /\ ~PptsLeftOpen => \A p \in Ppts : lockedBy[p] # "free"
        /\ PptIdle /\ pow \in {"ON", "PASSIVE"} => Held = {}

SlotCalls == StartsSending \/ StopDataSending \/ InitPPTdevices

\* Once nobody calls slots, here or there, devices that stay as they are end up
\* published and interlocked for good: the fusion task keeps turning, whatever
\* it was doing when they stopped, until connectDevices cancels it or a call of
\* lock() or slotClearLock() raises.
Converges ==
    <>[][~SlotCalls]_vars /\ <>[][FALSE]_remote /\ <>[](fusion \notin Ended)
        => <>[](rounds = MaxRounds)

=============================================================================
