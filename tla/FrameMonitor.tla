---------------------------- MODULE FrameMonitor ----------------------------
(***************************************************************************)
(* The number of frames to send, kept the same on DsscControl and on every *)
(* PPT: the setter of framesToSend writes it to the PPTs, and the task     *)
(* monitor_frames adopts what somebody sets on a PPT by hand.              *)
(*                                                                         *)
(* An action of the device is what a coroutine does from one await to the  *)
(* next.  A PPT's messages reach the device in the order it sent them, an  *)
(* update before the reply to the write that caused it; so do the writes   *)
(* reach a PPT.  Clocks agree, as the time server makes them.              *)
(*                                                                         *)
(* The module covers one connection, from one connectDevices to the next,  *)
(* with one monitor.  connectDevices cancels the monitor before it starts  *)
(* another (141-143, 191), but one cancelled while it writes goes on, as   *)
(* set_many_remote catches the CancelledError (272-273): two monitors then *)
(* adopt the same changes.  That is outside the module.                    *)
(***************************************************************************)
EXTENDS Naturals, Sequences, FiniteSets

CONSTANTS
    Ppts,           \* the PPTs connected
    Values,         \* numbers of frames
    Refusals,       \* TRUE if a PPT may refuse a write (locked, or its state)
    MaxChanges      \* bound on the changes operators make, here and there

VARIABLES
    clock,      \* the last timestamp given
    ppt,        \* numFramesToSendOut of each PPT
    proxy,      \* its copy in the proxy
    frames,     \* framesToSend
    writes,     \* per PPT, the writes under way to it
    updates,    \* per PPT, its updates and replies under way
    monitor,    \* the await of monitor_frames
    woken,      \* waitUntilNew has an update
    setter,     \* the await of the setter
    awaited,    \* per coroutine, the PPTs whose replies it waits for
    changes,    \* changes made by operators
    missed,     \* a change by hand arrived while nothing waited for it
    refused,    \* a PPT has refused a write
    crossed     \* writes left while others were under way

hands   == <<clock, ppt, changes>>
wires   == <<writes, updates>>
control == <<frames, monitor, setter, awaited>>
vars == <<hands, proxy, wires, control, woken, missed, refused, crossed>>

Coroutine == {"monitor", "setter"}

ASSUME FrameAssumption ==
    /\ Ppts # {} /\ IsFiniteSet(Ppts)
    /\ Values # {} /\ IsFiniteSet(Values)
    /\ Refusals \in BOOLEAN /\ MaxChanges \in Nat

\* A KaraboValue, and who set it where it was set: an operator, or a write.
Stamped == [value : Values, time : Nat, by : {"operator", "write"}]
Stamp(v, by) == [value |-> v, time |-> clock + 1, by |-> by]

TypeOK ==
    /\ clock \in Nat
    /\ ppt \in [Ppts -> Stamped] /\ proxy \in [Ppts -> Stamped]
    /\ frames \in Stamped
    /\ writes \in [Ppts -> Seq([value : Values, from : Coroutine])]
    /\ updates \in [Ppts -> Seq([update : Stamped]
                                \cup [reply : Coroutine, done : BOOLEAN])]
    /\ monitor \in {"waiting", "writing", "dead"}
    /\ setter \in {"idle", "writing"}
    /\ woken \in BOOLEAN /\ missed \in BOOLEAN
    /\ refused \in BOOLEAN /\ crossed \in BOOLEAN
    /\ awaited \in [Coroutine -> SUBSET Ppts]
    /\ changes \in 0..MaxChanges

\* The device connected: each PPT has been instantiated before it (0) or
\* after (2), and monitor_frames takes its first look.
Init ==
    /\ clock = 2
    /\ ppt \in [Ppts -> [value : Values, time : {0, 2}, by : {"operator"}]]
    /\ proxy = ppt
    /\ frames \in [value : Values, time : {1}, by : {"operator"}]
    /\ writes = [p \in Ppts |-> <<>>] /\ updates = [p \in Ppts |-> <<>>]
    /\ monitor = "waiting" /\ woken = TRUE /\ setter = "idle"
    /\ awaited = [c \in Coroutine |-> {}]
    /\ changes = 0 /\ missed = FALSE /\ refused = FALSE /\ crossed = FALSE

-----------------------------------------------------------------------------
(* The PPTs *)

Send(p, messages) == updates' = [updates EXCEPT ![p] = @ \o messages]

\* Somebody sets the number on one PPT.
OperatorSets(p, v) ==
    /\ changes < MaxChanges /\ v # ppt[p].value
    /\ changes' = changes + 1 /\ clock' = clock + 1
    /\ ppt' = [ppt EXCEPT ![p] = Stamp(v, "operator")]
    /\ Send(p, <<[update |-> ppt'[p]]>>)
    /\ UNCHANGED <<proxy, writes, control, woken, missed, refused, crossed>>

\* A write reaches a PPT.
PptSets(p) ==
    /\ writes[p] # <<>>
    /\ LET w == Head(writes[p])
       IN  /\ ppt' = [ppt EXCEPT ![p] = Stamp(w.value, "write")]
           /\ Send(p, <<[update |-> ppt'[p]], [reply |-> w.from, done |-> TRUE]>>)
    /\ clock' = clock + 1
    /\ writes' = [writes EXCEPT ![p] = Tail(@)]
    /\ UNCHANGED <<proxy, control, woken, changes, missed, refused, crossed>>

PptRefuses(p) ==
    /\ Refusals /\ writes[p] # <<>>
    /\ Send(p, <<[reply |-> Head(writes[p]).from, done |-> FALSE]>>)
    /\ writes' = [writes EXCEPT ![p] = Tail(@)]
    /\ refused' = TRUE
    /\ UNCHANGED <<hands, proxy, control, woken, missed, crossed>>

-----------------------------------------------------------------------------
(* DsscControl *)

\* An update reaches the proxy: waitUntilNew sees it if it is waiting.
ReceiveUpdate(p) ==
    /\ updates[p] # <<>> /\ "update" \in DOMAIN Head(updates[p])
    /\ proxy' = [proxy EXCEPT ![p] = Head(updates[p]).update]
    /\ updates' = [updates EXCEPT ![p] = Tail(@)]
    /\ woken' = (woken \/ monitor = "waiting")
    /\ missed' = (missed \/ (monitor = "writing" /\ proxy'[p].by = "operator"))
    /\ UNCHANGED <<hands, writes, control, refused, crossed>>

\* A reply reaches the coroutine that waits for it: a refusal is raised by
\* gather at once, ends monitor_frames for good and the setter's call.
ReceiveReply(p) ==
    /\ updates[p] # <<>> /\ "reply" \in DOMAIN Head(updates[p])
    /\ LET r == Head(updates[p])
       IN  /\ awaited' = [awaited EXCEPT ![r.reply] = IF r.done THEN @ \ {p} ELSE {}]
           /\ monitor' = IF r.reply = "monitor" /\ ~r.done THEN "dead" ELSE monitor
           /\ setter' = IF r.reply = "setter" /\ ~r.done THEN "idle" ELSE setter
    /\ updates' = [updates EXCEPT ![p] = Tail(@)]
    /\ UNCHANGED <<hands, proxy, writes, frames, woken, missed, refused, crossed>>

\* Some write has not been replied to.
UnderWay == \E p \in Ppts :
    \/ writes[p] # <<>>
    \/ \E i \in DOMAIN updates[p] : "reply" \in DOMAIN updates[p][i]

\* Variant: only the PPTs that differ are written to.
SetDiffering(c, v) ==
    LET differing == {p \in Ppts : proxy[p].value # v}
    IN  /\ writes' = [p \in Ppts |-> IF p \in differing
                        THEN Append(writes[p], [value |-> v, from |-> c]) ELSE writes[p]]
        /\ awaited' = [awaited EXCEPT ![c] = differing]
        /\ UNCHANGED crossed

\* set_many_remote: the writes leave at once, then the replies are awaited.  Who
\* cancels it, and what its `except CancelledError` does then, is not modelled.
SetManyRemote(c, v) ==
    /\ writes' = [p \in Ppts |-> Append(writes[p], [value |-> v, from |-> c])]
    /\ awaited' = [awaited EXCEPT ![c] = Ppts]
    /\ crossed' = (crossed \/ UnderWay)

\* The setter of framesToSend; the device serves one reconfiguration at a time.
FramesToSend(v) ==
    /\ setter = "idle" /\ changes < MaxChanges
    /\ changes' = changes + 1 /\ clock' = clock + 1
    /\ frames' = Stamp(v, "operator")
    /\ SetManyRemote("setter", v)
    /\ setter' = "writing"
    /\ UNCHANGED <<ppt, proxy, updates, monitor, woken, missed, refused>>

\* Variant: like the monitor, the setter goes on waiting for updates.
SetterWaits ==
    /\ setter = "writing" /\ awaited["setter"] = {}
    /\ setter' = "waiting"
    /\ UNCHANGED <<hands, proxy, wires, frames, monitor, awaited, woken, missed, refused, crossed>>

SetterEnds ==
    /\ setter = "writing" /\ awaited["setter"] = {}
    /\ setter' = "idle"
    /\ UNCHANGED <<hands, proxy, wires, frames, monitor, awaited, woken, missed, refused, crossed>>

\* Variant: the timestamps are not compared.
AnyDifferent == {p \in Ppts : proxy[p].value # frames.value}

\* The PPTs with another value than this device and a later one.
Newer == {p \in Ppts : proxy[p].value # frames.value /\ proxy[p].time > frames.time}

\* From the snapshot to set_many_remote: the first PPT in the order of ppt_dev,
\* whatever that is, wins.
MonitorAdopts ==
    /\ monitor = "waiting" /\ woken
    /\ \E p \in Newer : frames' = proxy[p]
    /\ SetManyRemote("monitor", frames'.value)
    /\ monitor' = "writing" /\ woken' = FALSE
    /\ UNCHANGED <<hands, proxy, updates, setter, missed, refused>>

\* Nothing to adopt: waitUntilNew again.
MonitorWaits ==
    /\ monitor = "waiting" /\ woken /\ Newer = {}
    /\ woken' = FALSE
    /\ UNCHANGED <<hands, proxy, wires, control, missed, refused, crossed>>

\* Variant: the monitor waits for one reply more than it asked for.
MonitorWroteNever ==
    /\ monitor = "writing" /\ awaited["monitor"] = {} /\ UnderWay
    /\ monitor' = "waiting"
    /\ UNCHANGED <<hands, proxy, wires, frames, setter, awaited, woken, missed, refused, crossed>>

\* The writes are done.  waitUntilNew waits for what arrives from now on.
MonitorWrote ==
    /\ monitor = "writing" /\ awaited["monitor"] = {}
    /\ monitor' = "waiting"
    /\ UNCHANGED <<hands, proxy, wires, frames, setter, awaited, woken, missed, refused, crossed>>

Moves == \/ MonitorAdopts \/ MonitorWaits \/ MonitorWrote \/ SetterEnds
         \/ \E p \in Ppts : ReceiveUpdate(p) \/ ReceiveReply(p)
                            \/ PptSets(p) \/ PptRefuses(p)

Next ==
    \/ Moves
    \/ \E p \in Ppts, v \in Values : OperatorSets(p, v)
    \/ \E v \in Values : FramesToSend(v)

Spec == Init /\ [][Next]_vars

\* Messages arrive and coroutines go on; nobody has to set anything.
FairSpec == Spec /\ WF_vars(Moves)

-----------------------------------------------------------------------------
(* Properties *)

Quiet == /\ monitor = "waiting" /\ ~woken /\ setter = "idle"
         /\ \A p \in Ppts : writes[p] = <<>> /\ updates[p] = <<>>

Agree == \A p \in Ppts : ppt[p].value = frames.value

\* Once everything has arrived, all PPTs have the number shown here, whoever
\* changed it and however the writes of the setter and of the monitor crossed
\* the changes made by hand.  Two things are excepted, which do part them: a
\* change by hand that arrives while the monitor writes, for which nothing waits
\* (`missed`), and a write that was refused (`refused`).  What nobody has set since the
\* device connected may differ as long as it is older (line 307).
FramesAgree ==
    Quiet /\ ~missed /\ ~refused =>
        IF frames.time = 1 THEN \A p \in Ppts : ppt[p].value = frames.value
                                                \/ ppt[p].time < 1
                           ELSE Agree

\* "changes coming from remote devices are newer than ours, and not due to us
\* changing the value here" (296-299): the monitor never adopts the echo of a
\* write of this device, as long as the writes of the setter and the monitor
\* do not cross.  Where they do, an operator's number may be undone by the
\* echo of the one before.
AdoptsOperators == [][frames' # frames /\ ~crossed => frames'.by = "operator"]_vars

\* The monitor does not chase its own echoes: when operators are done it comes
\* to rest, or a refused write has ended it.
ComesToRest == <>[](Quiet \/ monitor = "dead")

=============================================================================
