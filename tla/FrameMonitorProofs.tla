-------------------------- MODULE FrameMonitorProofs --------------------------
(***************************************************************************)
(* Proofs about the number of frames to send, for any PPTs, numbers and    *)
(* changes.                                                                *)
(***************************************************************************)
EXTENDS FrameMonitor, SequenceTheorems, TLAPS

Message == [update : Stamped] \cup [reply : Coroutine, done : BOOLEAN]

IsUpdate(m) == "update" \in DOMAIN m
IsReply(m)  == "reply" \in DOMAIN m

-----------------------------------------------------------------------------
(* The inductive invariant of the agreement *)

\* Of the messages `u` that are under way from a PPT: no stamp is of the future;
\* they lead a proxy `from` to what the PPT has; the echo of an old write, which
\* has not the value `v`, is followed by something newer.
HasUpdate(u) == \E i \in 1 .. Len(u) : IsUpdate(u[i])

InTime(u, now) == \A i \in 1 .. Len(u) : IsUpdate(u[i]) => u[i].update.time <= now

Leads(u, from, to) ==
    /\ ~HasUpdate(u) => from = to
    /\ \A i \in 1 .. Len(u) :
          IsUpdate(u[i]) /\ (\A j \in i + 1 .. Len(u) : ~IsUpdate(u[j])) => u[i].update = to

OldEchoes(u, v) ==
    \A i \in 1 .. Len(u) :
        IsUpdate(u[i]) /\ u[i].update.by = "write" /\ u[i].update.value # v =>
            \E j \in i + 1 .. Len(u) : IsUpdate(u[j])

Stamps(p) ==
    ppt[p].time <= clock /\ proxy[p].time <= clock /\ InTime(updates[p], clock)

\* The last write under way has the number shown here.
LastWrite(p) ==
    writes[p] # <<>> => writes[p][Len(writes[p])].value = frames.value

\* When the monitor has looked, whatever it would adopt is about to change.
Looked == monitor = "writing" \/ (monitor = "waiting" /\ ~woken)

Differs(p) == proxy[p].value # frames.value /\ proxy[p].time > frames.time

\* Either a write is under way, or what the PPT has is newer than the number
\* here, but for what nobody has set since the device connected.
Settled(p) ==
    \/ writes[p] # <<>>
    \/ /\ ppt[p].time > frames.time \/ (frames.time = 1 /\ ppt[p].time < 1)
       /\ OldEchoes(updates[p], frames.value)
       /\ Looked /\ ~missed /\ Differs(p) => HasUpdate(updates[p])

AgreePpt(p) ==
    /\ Stamps(p) /\ Leads(updates[p], proxy[p], ppt[p]) /\ LastWrite(p)
    /\ ~refused => Settled(p)

AgreeInv ==
    /\ monitor = "writing" => ~woken
    /\ frames.time <= clock
    /\ \A p \in Ppts : AgreePpt(p)

-----------------------------------------------------------------------------
(* The inductive invariant of the adoption *)

\* What the monitor would take for a change by hand, but is an echo.
Stale(p) == Differs(p) /\ proxy[p].by = "write"

\* Of the messages `u` under way from a PPT: the echo of a write has the value `v`
\* and a reply follows it; the reply of a write done follows its echo, which has
\* reached the proxy, so that it is not stale, when the reply is the first.
Paired(u, v, stale) ==
    \A i \in 1 .. Len(u) :
        /\ IsUpdate(u[i]) /\ u[i].update.by = "write" =>
              i + 1 \in 1 .. Len(u) /\ IsReply(u[i + 1]) /\ u[i].update.value = v
        /\ IsReply(u[i]) /\ u[i].done => IF i = 1 THEN ~stale ELSE IsUpdate(u[i - 1])

\* The monitor does not look at a stale proxy before the PPT's reply.
HeldUp(p) ==
    Stale(p) => monitor = "dead" \/ (monitor = "writing" /\ p \in awaited["monitor"])

EchoPpt(p) ==
    /\ \A i \in 1 .. Len(writes[p]) : writes[p][i].value = frames.value
    /\ Paired(updates[p], frames.value, Stale(p))
    /\ HeldUp(p)

\* As long as writes do not cross.
EchoInv == ~crossed => \A p \in Ppts : EchoPpt(p)

-----------------------------------------------------------------------------
(* Messages and queues *)

LEMMA Kinds ==
    ASSUME NEW m \in Message
    PROVE  /\ IsUpdate(m) => ~IsReply(m) /\ m.update \in Stamped
           /\ ~IsUpdate(m) => IsReply(m) /\ m.reply \in Coroutine /\ m.done \in BOOLEAN
<1>1. CASE m \in [update : Stamped]
    BY <1>1 DEF IsUpdate, IsReply
<1>2. CASE m \in [reply : Coroutine, done : BOOLEAN]
    BY <1>2 DEF IsUpdate, IsReply
<1> QED
    BY <1>1, <1>2 DEF Message

LEMMA Updates ==
    ASSUME NEW s \in Stamped
    PROVE  /\ [update |-> s] \in Message
           /\ IsUpdate([update |-> s]) /\ ~IsReply([update |-> s])
           /\ [update |-> s].update = s
BY DEF Message, IsUpdate, IsReply

LEMMA Replies ==
    ASSUME NEW c \in Coroutine, NEW b \in BOOLEAN
    PROVE  /\ [reply |-> c, done |-> b] \in Message
           /\ IsReply([reply |-> c, done |-> b]) /\ ~IsUpdate([reply |-> c, done |-> b])
           /\ [reply |-> c, done |-> b].reply = c /\ [reply |-> c, done |-> b].done = b
BY DEF Message, IsUpdate, IsReply

LEMMA Stamping ==
    ASSUME TypeOK, NEW v \in Values, NEW by \in {"operator", "write"}
    PROVE  /\ Stamp(v, by) \in Stamped /\ Stamp(v, by).value = v
           /\ Stamp(v, by).time = clock + 1 /\ Stamp(v, by).by = by
BY DEF TypeOK, Stamp, Stamped

\* A queue with one element more, and a queue without its first.
Longer(s, t, m) ==
    /\ Len(t) = Len(s) + 1 /\ t[Len(s) + 1] = m /\ t # <<>>
    /\ \A i \in 1 .. Len(s) : t[i] = s[i]

Shorter(s, t) ==
    /\ Len(t) = Len(s) - 1 /\ Len(s) > 0 /\ Head(s) = s[1]
    /\ (t = <<>> <=> Len(s) = 1)
    /\ \A i \in 1 .. Len(t) : t[i] = s[i + 1]

LEMMA LongerQueue ==
    ASSUME NEW S, NEW s \in Seq(S), NEW m \in S
    PROVE  /\ s \o <<m>> \in Seq(S) /\ Longer(s, s \o <<m>>, m)
           /\ Append(s, m) \in Seq(S) /\ Longer(s, Append(s, m), m)
<1>1. Append(s, m) = s \o <<m>>
    BY AppendIsConcat
<1>2. Append(s, m) \in Seq(S) /\ Longer(s, Append(s, m), m)
    BY AppendProperties DEF Longer
<1> QED
    BY <1>1, <1>2

LEMMA ShorterQueue ==
    ASSUME NEW S, NEW s \in Seq(S), s # <<>>
    PROVE  Tail(s) \in Seq(S) /\ Shorter(s, Tail(s))
<1>1. Tail(s) \in Seq(S) /\ Len(Tail(s)) = Len(s) - 1 /\ Len(s) \in Nat \ {0}
    BY HeadTailProperties, EmptySeq
<1>2. Tail(s) = <<>> <=> Len(s) = 1
    <2>1. Tail(s) = <<>> => Len(Tail(s)) = 0
        BY EmptySeq
    <2>2. Tail(s) # <<>> => Len(Tail(s)) # 0
        BY <1>1, EmptySeq
    <2> QED
        BY <1>1, <2>1, <2>2
<1>3. Head(s) = s[1]
    BY <1>1
<1>4. \A i \in 1 .. Len(Tail(s)) : Tail(s)[i] = s[i + 1]
    BY HeadTailProperties
<1> QED
    BY <1>1, <1>2, <1>3, <1>4 DEF Shorter

\* The queues after a message, after two, and after one has been taken.
LEMMA SentOne ==
    ASSUME TypeOK, NEW p \in Ppts, NEW m \in Message, Send(p, <<m>>)
    PROVE  /\ updates' \in [Ppts -> Seq(Message)]
           /\ \A q \in Ppts \ {p} : updates'[q] = updates[q]
           /\ Longer(updates[p], updates'[p], m)
<1>1. updates \in [Ppts -> Seq(Message)]
    BY DEF TypeOK, Message
<1>2. updates' = [updates EXCEPT ![p] = @ \o <<m>>]
    BY DEF Send
<1>3. updates[p] \o <<m>> \in Seq(Message) /\ Longer(updates[p], updates[p] \o <<m>>, m)
    BY <1>1, LongerQueue
<1> QED
    BY <1>1, <1>2, <1>3

LEMMA SentTwo ==
    ASSUME TypeOK, NEW p \in Ppts, NEW m \in Message, NEW n \in Message, Send(p, <<m, n>>)
    PROVE  /\ updates' \in [Ppts -> Seq(Message)]
           /\ \A q \in Ppts \ {p} : updates'[q] = updates[q]
           /\ Longer(updates[p], updates[p] \o <<m>>, m)
           /\ Longer(updates[p] \o <<m>>, updates'[p], n)
<1>1. updates \in [Ppts -> Seq(Message)]
    BY DEF TypeOK, Message
<1>2. updates' = [updates EXCEPT ![p] = @ \o <<m, n>>]
    BY DEF Send
<1>3. updates[p] \o <<m>> \in Seq(Message) /\ Longer(updates[p], updates[p] \o <<m>>, m)
    BY <1>1, LongerQueue
<1>4. /\ (updates[p] \o <<m>>) \o <<n>> \in Seq(Message)
      /\ Longer(updates[p] \o <<m>>, (updates[p] \o <<m>>) \o <<n>>, n)
    BY <1>3, LongerQueue
<1>5. (updates[p] \o <<m>>) \o <<n>> = updates[p] \o <<m, n>>
    <2>1. <<m>> \in Seq(Message) /\ <<n>> \in Seq(Message)
        OBVIOUS
    <2>2. <<m>> \o <<n>> = <<m, n>>
        <3>1. /\ <<m>> \o <<n>> \in Seq(Message) /\ Len(<<m>> \o <<n>>) = 2
              /\ (<<m>> \o <<n>>)[1] = m /\ (<<m>> \o <<n>>)[2] = n
            BY <2>1, ConcatProperties
        <3>2. /\ <<m, n>> \in Seq(Message) /\ Len(<<m, n>>) = 2
              /\ <<m, n>>[1] = m /\ <<m, n>>[2] = n
            OBVIOUS
        <3>3. \A i \in 1 .. 2 : (<<m>> \o <<n>>)[i] = <<m, n>>[i]
            BY <3>1, <3>2
        <3> QED
            BY <3>1, <3>2, <3>3, SeqEqual
    <2>3. (updates[p] \o <<m>>) \o <<n>> = updates[p] \o (<<m>> \o <<n>>)
        BY <1>1, <2>1, ConcatAssociative
    <2> QED
        BY <2>2, <2>3
<1> QED
    BY <1>1, <1>2, <1>3, <1>4, <1>5

LEMMA TakenUpdate ==
    ASSUME TypeOK, NEW p \in Ppts, updates[p] # <<>>,
           updates' = [updates EXCEPT ![p] = Tail(@)]
    PROVE  /\ updates' \in [Ppts -> Seq(Message)]
           /\ \A q \in Ppts \ {p} : updates'[q] = updates[q]
           /\ Shorter(updates[p], updates'[p])
<1>1. updates \in [Ppts -> Seq(Message)]
    BY DEF TypeOK, Message
<1>2. Tail(updates[p]) \in Seq(Message) /\ Shorter(updates[p], Tail(updates[p]))
    BY <1>1, ShorterQueue
<1> QED
    BY <1>1, <1>2

Write == [value : Values, from : Coroutine]

LEMMA TakenWrite ==
    ASSUME TypeOK, NEW p \in Ppts, writes[p] # <<>>,
           writes' = [writes EXCEPT ![p] = Tail(@)]
    PROVE  /\ writes' \in [Ppts -> Seq(Write)]
           /\ \A q \in Ppts \ {p} : writes'[q] = writes[q]
           /\ Shorter(writes[p], writes'[p])
           /\ Head(writes[p]) \in Write
<1>1. writes \in [Ppts -> Seq(Write)]
    BY DEF TypeOK, Write
<1>2. Tail(writes[p]) \in Seq(Write) /\ Shorter(writes[p], Tail(writes[p]))
    BY <1>1, ShorterQueue
<1>3. Head(writes[p]) \in Write
    BY <1>1, HeadTailProperties
<1> QED
    BY <1>1, <1>2, <1>3

LEMMA SentWrites ==
    ASSUME TypeOK, NEW c \in Coroutine, NEW v \in Values, SetManyRemote(c, v)
    PROVE  /\ writes' \in [Ppts -> Seq(Write)]
           /\ \A p \in Ppts : Longer(writes[p], writes'[p], [value |-> v, from |-> c])
           /\ awaited' = [awaited EXCEPT ![c] = Ppts]
           /\ awaited' \in [Coroutine -> SUBSET Ppts]
           /\ crossed' \in BOOLEAN
           /\ ~crossed' => ~crossed /\ ~UnderWay
<1>1. writes \in [Ppts -> Seq(Write)]
    BY DEF TypeOK, Write
<1> DEFINE w == [value |-> v, from |-> c]
<1>2. w \in Write
    BY DEF Write
<1> HIDE DEF w
<1>3. writes' = [p \in Ppts |-> Append(writes[p], w)]
    BY DEF SetManyRemote, w
<1>4. \A p \in Ppts : Append(writes[p], w) \in Seq(Write)
                       /\ Longer(writes[p], Append(writes[p], w), w)
    BY <1>1, <1>2, LongerQueue
<1>5. awaited' = [awaited EXCEPT ![c] = Ppts] /\ awaited' \in [Coroutine -> SUBSET Ppts]
    BY DEF SetManyRemote, TypeOK
<1>6. crossed' \in BOOLEAN /\ (~crossed' => ~crossed /\ ~UnderWay)
    BY DEF SetManyRemote, TypeOK, UnderWay
<1> QED
    BY <1>3, <1>4, <1>5, <1>6 DEF w

-----------------------------------------------------------------------------
(* Types *)

\* The first message, of either kind.
LEMMA FirstMessage ==
    ASSUME TypeOK, NEW p \in Ppts, updates[p] # <<>>
    PROVE  Head(updates[p]) \in Message /\ Head(updates[p]) = updates[p][1]
BY HeadTailProperties DEF TypeOK, Message

LEMMA Counted ==
    ASSUME changes \in 0 .. MaxChanges, changes < MaxChanges
    PROVE  changes + 1 \in 0 .. MaxChanges
<1>1. MaxChanges \in Nat
    BY FrameAssumption
<1> QED
    BY <1>1

\* A PPT.
LEMMA PptType ==
    ASSUME TypeOK, NEW p \in Ppts,
           PptSets(p) \/ PptRefuses(p) \/ \E v \in Values : OperatorSets(p, v)
    PROVE  TypeOK'
<1> USE DEF TypeOK
<1>1. ASSUME NEW v \in Values, OperatorSets(p, v) PROVE TypeOK'
    <2>1. ppt' = [ppt EXCEPT ![p] = Stamp(v, "operator")] /\ ppt'[p] \in Stamped
        BY <1>1, Stamping DEF OperatorSets
    <2>2. updates' \in [Ppts -> Seq(Message)]
        BY <1>1, <2>1, Updates, SentOne DEF OperatorSets
    <2>3. changes' \in 0 .. MaxChanges
        BY <1>1, Counted DEF OperatorSets
    <2>6. clock' \in Nat
        BY <1>1 DEF OperatorSets
    <2>4. UNCHANGED <<proxy, writes, control, woken, missed, refused, crossed>>
        BY <1>1 DEF OperatorSets
    <2>5. ppt' \in [Ppts -> Stamped]
        BY <2>1, Stamping
    <2> QED
        BY <2>2, <2>3, <2>4, <2>5, <2>6 DEF control, Message
<1>2. CASE PptSets(p)
    <2>1. Head(writes[p]) \in Write /\ writes' \in [Ppts -> Seq(Write)]
        BY <1>2, TakenWrite DEF PptSets
    <2>2. PICK w \in Write : w = Head(writes[p])
        BY <2>1
    <2>3. w.value \in Values /\ w.from \in Coroutine
        BY DEF Write
    <2>4. /\ ppt' = [ppt EXCEPT ![p] = Stamp(w.value, "write")] /\ ppt'[p] \in Stamped
          /\ Send(p, <<[update |-> ppt'[p]], [reply |-> w.from, done |-> TRUE]>>)
        BY <1>2, <2>2, <2>3, Stamping DEF PptSets
    <2>5. updates' \in [Ppts -> Seq(Message)]
        BY <2>3, <2>4, Updates, Replies, SentTwo
    <2>6. ppt' \in [Ppts -> Stamped]
        BY <2>3, <2>4, Stamping
    <2>7. UNCHANGED <<proxy, control, woken, changes, missed, refused, crossed>> /\ clock' \in Nat
        BY <1>2 DEF PptSets
    <2> QED
        BY <2>1, <2>5, <2>6, <2>7 DEF control, Message, Write
<1>3. CASE PptRefuses(p)
    <2>1. Head(writes[p]) \in Write /\ writes' \in [Ppts -> Seq(Write)]
        BY <1>3, TakenWrite DEF PptRefuses
    <2>2. Head(writes[p]).from \in Coroutine
        BY <2>1 DEF Write
    <2>3. updates' \in [Ppts -> Seq(Message)]
        BY <1>3, <2>2, Replies, SentOne DEF PptRefuses
    <2>4. UNCHANGED <<hands, proxy, control, woken, missed, crossed>> /\ refused' \in BOOLEAN
        BY <1>3 DEF PptRefuses
    <2> QED
        BY <2>1, <2>3, <2>4 DEF hands, control, Message, Write
<1> QED
    BY <1>1, <1>2, <1>3

\* The messages that reach the device.
LEMMA ReceiveType ==
    ASSUME TypeOK, NEW p \in Ppts, ReceiveUpdate(p) \/ ReceiveReply(p) PROVE TypeOK'
<1> USE DEF TypeOK
<1>1. updates[p] # <<>> /\ updates' = [updates EXCEPT ![p] = Tail(@)]
    BY DEF ReceiveUpdate, ReceiveReply
<1>2. updates' \in [Ppts -> Seq(Message)]
    BY <1>1, TakenUpdate
<1>3. PICK m \in Message : m = Head(updates[p])
    BY <1>1, FirstMessage
<1>4. CASE ReceiveUpdate(p)
    <2>1. proxy' = [proxy EXCEPT ![p] = m.update] /\ m.update \in Stamped
        BY <1>3, <1>4, Kinds DEF ReceiveUpdate, IsUpdate
    <2>2. woken' \in BOOLEAN /\ missed' \in BOOLEAN
        BY <1>4 DEF ReceiveUpdate
    <2>3. UNCHANGED <<hands, writes, control, refused, crossed>>
        BY <1>4 DEF ReceiveUpdate
    <2> QED
        BY <1>2, <2>1, <2>2, <2>3 DEF hands, control, Message
<1>5. CASE ReceiveReply(p)
    <2>1. awaited' \in [Coroutine -> SUBSET Ppts]
        BY <1>5 DEF ReceiveReply
    <2>2. monitor' \in {"waiting", "writing", "dead"} /\ setter' \in {"idle", "writing"}
        BY <1>5 DEF ReceiveReply
    <2>3. UNCHANGED <<hands, proxy, writes, frames, woken, missed, refused, crossed>>
        BY <1>5 DEF ReceiveReply
    <2> QED
        BY <1>2, <2>1, <2>2, <2>3 DEF hands, Message
<1> QED
    BY <1>4, <1>5

\* The coroutines.
LEMMA CoroutineType ==
    ASSUME TypeOK,
           \/ MonitorAdopts \/ MonitorWaits \/ MonitorWrote \/ SetterEnds
           \/ \E v \in Values : FramesToSend(v)
    PROVE  TypeOK'
<1> USE DEF TypeOK
<1>1. ASSUME NEW v \in Values, FramesToSend(v) PROVE TypeOK'
    <2>1. /\ writes' \in [Ppts -> Seq(Write)] /\ awaited' \in [Coroutine -> SUBSET Ppts]
          /\ crossed' \in BOOLEAN
        BY <1>1, SentWrites DEF FramesToSend, Coroutine
    <2>2. frames' \in Stamped
        BY <1>1, Stamping DEF FramesToSend
    <2>3. changes' \in 0 .. MaxChanges
        BY <1>1, Counted DEF FramesToSend
    <2>5. clock' \in Nat /\ setter' \in {"idle", "writing"}
        BY <1>1 DEF FramesToSend
    <2>4. UNCHANGED <<ppt, proxy, updates, monitor, woken, missed, refused>>
        BY <1>1 DEF FramesToSend
    <2> QED
        BY <2>1, <2>2, <2>3, <2>4, <2>5 DEF Write
<1>2. CASE MonitorAdopts
    <2>1. frames' \in Stamped /\ frames'.value \in Values
        BY <1>2 DEF MonitorAdopts, Newer, Stamped
    <2>2. /\ writes' \in [Ppts -> Seq(Write)] /\ awaited' \in [Coroutine -> SUBSET Ppts]
          /\ crossed' \in BOOLEAN
        BY <1>2, <2>1, SentWrites DEF MonitorAdopts, Coroutine
    <2>3. monitor' \in {"waiting", "writing", "dead"} /\ woken' \in BOOLEAN
        BY <1>2 DEF MonitorAdopts
    <2>4. UNCHANGED <<hands, proxy, updates, setter, missed, refused>>
        BY <1>2 DEF MonitorAdopts
    <2> QED
        BY <2>1, <2>2, <2>3, <2>4 DEF hands, Write
<1>3. CASE MonitorWaits \/ MonitorWrote \/ SetterEnds
    <2>1. /\ monitor' \in {"waiting", monitor} /\ setter' \in {"idle", setter}
          /\ woken' \in {FALSE, woken}
        BY <1>3 DEF MonitorWaits, MonitorWrote, SetterEnds, control
    <2>2. UNCHANGED <<hands, proxy, wires, frames, awaited, missed, refused, crossed>>
        BY <1>3 DEF MonitorWaits, MonitorWrote, SetterEnds, control
    <2> QED
        BY <2>1, <2>2 DEF hands, wires
<1> QED
    BY <1>1, <1>2, <1>3

\* The types, whatever is under way.
THEOREM TypeInvariant == Spec => []TypeOK
<1>1. Init => TypeOK
    <2> SUFFICES ASSUME Init PROVE TypeOK
        OBVIOUS
    <2>1. ppt \in [Ppts -> Stamped] /\ proxy = ppt /\ frames \in Stamped
        BY DEF Init, Stamped
    <2>2. writes \in [Ppts -> Seq(Write)] /\ updates \in [Ppts -> Seq(Message)]
        BY EmptySeq DEF Init
    <2>3. 0 \in 0 .. MaxChanges
        BY FrameAssumption
    <2> QED
        BY <2>1, <2>2, <2>3 DEF Init, TypeOK, Write, Message
<1>2. TypeOK /\ [Next]_vars => TypeOK'
    <2> SUFFICES ASSUME TypeOK, [Next]_vars PROVE TypeOK'
        OBVIOUS
    <2>1. CASE Next
        BY <2>1, PptType, ReceiveType, CoroutineType DEF Next, Moves
    <2>2. CASE UNCHANGED vars
        BY <2>2 DEF vars, hands, wires, control, TypeOK
    <2> QED
        BY <2>1, <2>2
<1> QED
    BY <1>1, <1>2, PTL DEF Spec

-----------------------------------------------------------------------------
(* What a message does to a queue *)

\* An update is sent.
LEMMA UpdateSent ==
    ASSUME NEW u \in Seq(Message), NEW t \in Seq(Message), NEW m \in Message,
           Longer(u, t, m), IsUpdate(m)
    PROVE  /\ HasUpdate(t)
           /\ \A now \in Nat : InTime(u, now) /\ m.update.time <= now => InTime(t, now)
           /\ \A from : Leads(t, from, m.update)
           /\ \A v : m.update.by = "operator" \/ m.update.value = v => OldEchoes(t, v)
<1>1. /\ Len(u) \in Nat /\ Len(t) = Len(u) + 1 /\ t[Len(u) + 1] = m
      /\ \A i \in 1 .. Len(u) : t[i] = u[i]
    BY DEF Longer
<1>2. \A i \in 1 .. Len(t) : i \in 1 .. Len(u) \/ i = Len(t)
    BY <1>1
<1>3. Len(t) \in 1 .. Len(t) /\ t[Len(t)] = m
    BY <1>1
<1>4. HasUpdate(t)
    BY <1>3 DEF HasUpdate
<1>5. ASSUME NEW now \in Nat, InTime(u, now), m.update.time <= now PROVE InTime(t, now)
    BY <1>1, <1>2, <1>3, <1>5 DEF InTime
<1>6. ASSUME NEW from PROVE Leads(t, from, m.update)
    <2>1. ASSUME NEW i \in 1 .. Len(t), \A j \in i + 1 .. Len(t) : ~IsUpdate(t[j])
          PROVE  i = Len(t)
        BY <1>1, <1>2, <1>3, <2>1
    <2> QED
        BY <1>3, <1>4, <2>1 DEF Leads
<1>7. ASSUME NEW v, m.update.by = "operator" \/ m.update.value = v PROVE OldEchoes(t, v)
    <2> SUFFICES ASSUME NEW i \in 1 .. Len(t), IsUpdate(t[i]), t[i].update.by = "write",
                        t[i].update.value # v
                 PROVE  \E j \in i + 1 .. Len(t) : IsUpdate(t[j])
        BY DEF OldEchoes
    <2>1. i # Len(t)
        BY <1>3, <1>7
    <2>2. Len(t) \in i + 1 .. Len(t)
        BY <1>1, <1>2, <2>1
    <2> QED
        BY <1>3, <2>2
<1> QED
    BY <1>4, <1>5, <1>6, <1>7

\* A reply is sent.
LEMMA ReplySent ==
    ASSUME NEW u \in Seq(Message), NEW t \in Seq(Message), NEW m \in Message,
           Longer(u, t, m), ~IsUpdate(m)
    PROVE  /\ HasUpdate(t) <=> HasUpdate(u)
           /\ \A now \in Nat : InTime(u, now) => InTime(t, now)
           /\ \A from, to : Leads(u, from, to) => Leads(t, from, to)
           /\ \A v : OldEchoes(u, v) => OldEchoes(t, v)
<1>1. /\ Len(u) \in Nat /\ Len(t) = Len(u) + 1 /\ t[Len(u) + 1] = m
      /\ \A i \in 1 .. Len(u) : t[i] = u[i]
    BY DEF Longer
<1>2. \A i \in 1 .. Len(t) : IsUpdate(t[i]) => i \in 1 .. Len(u)
    BY <1>1
<1>3. \A i \in 1 .. Len(u) : i \in 1 .. Len(t) /\ t[i] = u[i]
    BY <1>1
<1>4. \A i \in 1 .. Len(u) : (\E j \in i + 1 .. Len(u) : IsUpdate(u[j]))
                              <=> (\E j \in i + 1 .. Len(t) : IsUpdate(t[j]))
    BY <1>1, <1>2, <1>3
<1>5. HasUpdate(t) <=> HasUpdate(u)
    BY <1>2, <1>3 DEF HasUpdate
<1>6. ASSUME NEW now \in Nat, InTime(u, now) PROVE InTime(t, now)
    BY <1>2, <1>3, <1>6 DEF InTime
<1>7. ASSUME NEW from, NEW to, Leads(u, from, to) PROVE Leads(t, from, to)
    BY <1>2, <1>3, <1>4, <1>5, <1>7 DEF Leads
<1>8. ASSUME NEW v, OldEchoes(u, v) PROVE OldEchoes(t, v)
    BY <1>2, <1>3, <1>4, <1>8 DEF OldEchoes
<1> QED
    BY <1>5, <1>6, <1>7, <1>8

\* The first message is taken.
LEMMA MessageTaken ==
    ASSUME NEW u \in Seq(Message), NEW t \in Seq(Message), Shorter(u, t)
    PROVE  /\ \A now \in Nat : InTime(u, now) => InTime(t, now)
           /\ \A v : OldEchoes(u, v) => OldEchoes(t, v)
           /\ IsUpdate(u[1]) =>
                 /\ \A now \in Nat : InTime(u, now) => u[1].update.time <= now
                 /\ \A from, to : Leads(u, from, to) => Leads(t, u[1].update, to)
                 /\ \A v : /\ OldEchoes(u, v)
                           /\ u[1].update.by = "write" /\ u[1].update.value # v
                           => HasUpdate(t)
           /\ ~IsUpdate(u[1]) =>
                 /\ HasUpdate(u) <=> HasUpdate(t)
                 /\ \A from, to : Leads(u, from, to) => Leads(t, from, to)
<1>1. /\ Len(u) \in Nat /\ Len(t) \in Nat /\ Len(u) = Len(t) + 1
      /\ \A i \in 1 .. Len(t) : t[i] = u[i + 1]
    BY DEF Shorter
<1>2. 1 \in 1 .. Len(u) /\ \A i \in 1 .. Len(t) : i + 1 \in 1 .. Len(u) /\ t[i] = u[i + 1]
    BY <1>1
<1>3. ASSUME NEW i \in 1 .. Len(u), i # 1
      PROVE  i - 1 \in 1 .. Len(t) /\ u[i] = t[i - 1]
    <2>1. i - 1 \in 1 .. Len(t) /\ (i - 1) + 1 = i
        BY <1>1, <1>3
    <2> QED
        BY <1>1, <2>1
<1>4. ASSUME NEW i \in 0 .. Len(t)
      PROVE  (\E j \in i + 1 .. Len(t) : IsUpdate(t[j]))
                <=> (\E j \in (i + 1) + 1 .. Len(u) : IsUpdate(u[j]))
    <2>1. ASSUME NEW j \in i + 1 .. Len(t), IsUpdate(t[j])
          PROVE  j + 1 \in (i + 1) + 1 .. Len(u) /\ IsUpdate(u[j + 1])
        BY <1>1, <1>2, <2>1
    <2>2. ASSUME NEW j \in (i + 1) + 1 .. Len(u), IsUpdate(u[j])
          PROVE  j - 1 \in i + 1 .. Len(t) /\ IsUpdate(t[j - 1])
        <3>1. j \in 1 .. Len(u) /\ j # 1 /\ j - 1 \in i + 1 .. Len(t)
            BY <1>1
        <3> QED
            BY <1>3, <2>2, <3>1
    <2> QED
        BY <2>1, <2>2
<1>5. HasUpdate(t) <=> \E j \in 2 .. Len(u) : IsUpdate(u[j])
    <2>1. 0 \in 0 .. Len(t) /\ (0 + 1) + 1 = 2 /\ 0 + 1 = 1
        BY <1>1
    <2> QED
        BY <1>4, <2>1 DEF HasUpdate
<1>6. ASSUME NEW now \in Nat, InTime(u, now) PROVE InTime(t, now)
    BY <1>2, <1>6 DEF InTime
<1>7. ASSUME NEW v, OldEchoes(u, v) PROVE OldEchoes(t, v)
    <2> SUFFICES ASSUME NEW i \in 1 .. Len(t), IsUpdate(t[i]), t[i].update.by = "write",
                        t[i].update.value # v
                 PROVE  \E j \in i + 1 .. Len(t) : IsUpdate(t[j])
        BY DEF OldEchoes
    <2>1. \E j \in (i + 1) + 1 .. Len(u) : IsUpdate(u[j])
        BY <1>2, <1>7 DEF OldEchoes
    <2> QED
        BY <1>4, <2>1
<1>8. ASSUME NEW from, NEW to, Leads(u, from, to), NEW i \in 1 .. Len(t), IsUpdate(t[i]),
             \A j \in i + 1 .. Len(t) : ~IsUpdate(t[j])
      PROVE  t[i].update = to
    <2>1. \A j \in (i + 1) + 1 .. Len(u) : ~IsUpdate(u[j])
        BY <1>4, <1>8
    <2> QED
        BY <1>2, <1>8, <2>1 DEF Leads
<1>9. ASSUME IsUpdate(u[1])
      PROVE  /\ \A now \in Nat : InTime(u, now) => u[1].update.time <= now
             /\ \A from, to : Leads(u, from, to) => Leads(t, u[1].update, to)
             /\ \A v : /\ OldEchoes(u, v)
                       /\ u[1].update.by = "write" /\ u[1].update.value # v
                       => HasUpdate(t)
    <2>1. ASSUME NEW from, NEW to, Leads(u, from, to) PROVE Leads(t, u[1].update, to)
        <3>1. ~HasUpdate(t) => u[1].update = to
            BY <1>2, <1>5, <1>9, <2>1 DEF Leads
        <3> QED
            BY <1>8, <2>1, <3>1 DEF Leads
    <2>2. ASSUME NEW v, OldEchoes(u, v), u[1].update.by = "write", u[1].update.value # v
          PROVE  HasUpdate(t)
        BY <1>2, <1>5, <1>9, <2>2 DEF OldEchoes
    <2> QED
        BY <1>2, <1>9, <2>1, <2>2 DEF InTime
<1>10. ASSUME ~IsUpdate(u[1])
       PROVE  /\ HasUpdate(u) <=> HasUpdate(t)
              /\ \A from, to : Leads(u, from, to) => Leads(t, from, to)
    <2>1. HasUpdate(u) <=> HasUpdate(t)
        BY <1>1, <1>2, <1>5, <1>10 DEF HasUpdate
    <2>2. ASSUME NEW from, NEW to, Leads(u, from, to) PROVE Leads(t, from, to)
        BY <1>8, <2>1, <2>2 DEF Leads
    <2> QED
        BY <2>1, <2>2
<1> QED
    BY <1>6, <1>7, <1>9, <1>10

-----------------------------------------------------------------------------
(* The agreement *)

LEMMA Typed ==
    ASSUME TypeOK
    PROVE  /\ clock \in Nat /\ frames.time \in Nat /\ refused \in BOOLEAN /\ missed \in BOOLEAN
           /\ \A p \in Ppts : /\ ppt[p] \in Stamped /\ ppt[p].time \in Nat
                              /\ proxy[p] \in Stamped /\ proxy[p].time \in Nat
                              /\ updates[p] \in Seq(Message) /\ writes[p] \in Seq(Write)
BY DEF TypeOK, Stamped, Message, Write

LEMMA Later ==
    ASSUME TypeOK, NEW p \in Ppts, Stamps(p), NEW now \in Nat, clock <= now
    PROVE  ppt[p].time <= now /\ proxy[p].time <= now /\ InTime(updates[p], now)
<1>1. ASSUME NEW i \in 1 .. Len(updates[p]), IsUpdate(updates[p][i])
      PROVE  updates[p][i].update.time <= now
    <2>1. updates[p][i].update.time \in Nat
        BY <1>1, Typed, Kinds, ElementOfSeq DEF Stamped
    <2>2. updates[p][i].update.time <= clock
        BY <1>1 DEF Stamps, InTime
    <2> QED
        BY <2>1, <2>2, Typed
<1>2. ppt[p].time <= clock /\ proxy[p].time <= clock
    BY DEF Stamps
<1> QED
    BY <1>1, <1>2, Typed DEF InTime

\* A PPT that has nothing to do with it.
LEMMA Apart ==
    ASSUME TypeOK, NEW q \in Ppts, AgreePpt(q), clock' \in Nat, clock <= clock',
           ppt'[q] = ppt[q], proxy'[q] = proxy[q],
           updates'[q] = updates[q], writes'[q] = writes[q],
           frames' = frames, refused => refused',
           Looked' /\ ~missed' => Looked /\ ~missed
    PROVE  AgreePpt(q)'
<1>2. Stamps(q)'
    BY Later DEF AgreePpt, Stamps, InTime
<1>3. LastWrite(q)' /\ Leads(updates[q], proxy[q], ppt[q])'
    BY DEF AgreePpt, LastWrite, Leads, HasUpdate
<1>4. Settled(q) => Settled(q)'
    BY DEF Settled, Differs, OldEchoes, HasUpdate
<1> QED
    BY <1>2, <1>3, <1>4 DEF AgreePpt

LEMMA OperatorAgrees ==
    ASSUME TypeOK, TypeOK', AgreeInv, NEW p \in Ppts, NEW v \in Values, OperatorSets(p, v)
    PROVE  AgreeInv'
<1>1. UNCHANGED <<proxy, writes, frames, monitor, woken, missed, refused>>
    BY DEF OperatorSets, control
<1>2. clock' = clock + 1 /\ clock \in Nat /\ clock' \in Nat /\ clock <= clock'
    BY Typed DEF OperatorSets
<1>3. /\ ppt'[p].time = clock + 1 /\ ppt'[p].by = "operator" /\ ppt'[p] \in Stamped
      /\ \A q \in Ppts \ {p} : ppt'[q] = ppt[q]
    BY Stamping DEF OperatorSets, TypeOK
<1>4. PICK m \in Message : m = [update |-> ppt'[p]]
    BY <1>3, Updates
<1>5. IsUpdate(m) /\ m.update = ppt'[p]
    BY <1>3, <1>4, Updates
<1>6. /\ \A q \in Ppts \ {p} : updates'[q] = updates[q]
      /\ Longer(updates[p], updates'[p], m)
    BY <1>4, SentOne DEF OperatorSets
<1>7. ASSUME NEW q \in Ppts \ {p} PROVE AgreePpt(q)'
    BY <1>1, <1>2, <1>3, <1>6, Apart DEF AgreeInv, Looked
<1>8. AgreePpt(p)'
    <2>1. /\ HasUpdate(updates'[p]) /\ Leads(updates'[p], proxy'[p], ppt'[p])
          /\ OldEchoes(updates'[p], frames.value)
          /\ InTime(updates[p], clock') => InTime(updates'[p], clock')
        <3>1. updates[p] \in Seq(Message) /\ updates'[p] \in Seq(Message)
            BY <1>4, SentOne, Typed DEF OperatorSets
        <3>2. m.update.time <= clock' /\ m.update.by = "operator"
            BY <1>2, <1>3, <1>5
        <3> QED
            BY <1>2, <1>5, <1>6, <3>1, <3>2, UpdateSent
    <2>2. InTime(updates[p], clock') /\ proxy[p].time <= clock'
        BY <1>2, Later DEF AgreeInv, AgreePpt
    <2>3. Stamps(p)'
        BY <1>1, <1>2, <1>3, <2>1, <2>2 DEF Stamps
    <2>4. ppt'[p].time > frames.time
        BY <1>2, <1>3, Typed DEF AgreeInv
    <2>5. Settled(p)' /\ LastWrite(p)'
        BY <1>1, <2>1, <2>4 DEF Settled, LastWrite, AgreeInv, AgreePpt
    <2> QED
        BY <2>1, <2>3, <2>5 DEF AgreePpt
<1> QED
    BY <1>1, <1>2, <1>7, <1>8, Typed DEF AgreeInv

LEMMA WriteAgrees ==
    ASSUME TypeOK, TypeOK', AgreeInv, NEW p \in Ppts, PptSets(p)
    PROVE  AgreeInv'
<1>1. UNCHANGED <<proxy, frames, monitor, woken, missed, refused>>
    BY DEF PptSets, control
<1>2. clock' = clock + 1 /\ clock \in Nat /\ clock' \in Nat /\ clock <= clock'
    BY Typed DEF PptSets
<1>3. /\ Shorter(writes[p], writes'[p]) /\ Head(writes[p]) \in Write
      /\ \A q \in Ppts \ {p} : writes'[q] = writes[q]
    BY TakenWrite DEF PptSets
<1>4. PICK w \in Write : w = Head(writes[p])
    BY <1>3
<1>5. /\ ppt'[p].time = clock + 1 /\ ppt'[p].by = "write" /\ ppt'[p].value = w.value
      /\ ppt'[p] \in Stamped
      /\ \A q \in Ppts \ {p} : ppt'[q] = ppt[q]
    <2>1. w.value \in Values /\ ppt' = [ppt EXCEPT ![p] = Stamp(w.value, "write")]
        BY <1>4 DEF PptSets, Write
    <2> QED
        BY <2>1, Stamping DEF TypeOK
<1>6. PICK m \in Message : m = [update |-> ppt'[p]]
    BY <1>5, Updates
<1>7. PICK n \in Message : n = [reply |-> w.from, done |-> TRUE]
    BY Replies DEF Write
<1>8. IsUpdate(m) /\ m.update = ppt'[p] /\ ~IsUpdate(n)
    BY <1>5, <1>6, <1>7, Updates, Replies DEF Write
<1> DEFINE u == updates[p] \o <<m>>
<1>9. Send(p, <<m, n>>)
    BY <1>4, <1>6, <1>7 DEF PptSets
<1>10. /\ \A q \in Ppts \ {p} : updates'[q] = updates[q]
       /\ Longer(updates[p], u, m) /\ Longer(u, updates'[p], n)
       /\ updates' \in [Ppts -> Seq(Message)]
    BY <1>9, SentTwo
<1>11. updates[p] \in Seq(Message) /\ updates'[p] \in Seq(Message) /\ u \in Seq(Message)
    BY <1>10, Typed, LongerQueue
<1> HIDE DEF u
<1>12. ASSUME NEW q \in Ppts \ {p} PROVE AgreePpt(q)'
    BY <1>1, <1>2, <1>3, <1>5, <1>10, Apart DEF AgreeInv, Looked
<1>13. AgreePpt(p)'
    <2>1. /\ HasUpdate(u) /\ Leads(u, proxy[p], ppt'[p])
          /\ InTime(updates[p], clock') => InTime(u, clock')
          /\ w.value = frames.value => OldEchoes(u, frames.value)
        <3>1. m.update.time <= clock' /\ m.update.value = w.value
            BY <1>2, <1>5, <1>8
        <3>2. /\ HasUpdate(u)
              /\ \A now \in Nat : InTime(updates[p], now) /\ m.update.time <= now => InTime(u, now)
              /\ \A from : Leads(u, from, m.update)
              /\ \A v : m.update.by = "operator" \/ m.update.value = v => OldEchoes(u, v)
            BY <1>8, <1>10, <1>11, UpdateSent
        <3> QED
            BY <1>2, <1>8, <3>1, <3>2
    <2>2. InTime(updates[p], clock') /\ proxy[p].time <= clock'
        BY <1>2, Later DEF AgreeInv, AgreePpt
    <2>3. /\ HasUpdate(updates'[p]) /\ Leads(updates'[p], proxy[p], ppt'[p])
          /\ InTime(updates'[p], clock')
          /\ w.value = frames.value => OldEchoes(updates'[p], frames.value)
        BY <1>2, <1>8, <1>10, <1>11, <2>1, <2>2, ReplySent
    <2>4. Stamps(p)'
        BY <1>1, <1>2, <1>5, <2>2, <2>3 DEF Stamps
    <2>5. ppt'[p].time > frames.time
        BY <1>2, <1>5, Typed DEF AgreeInv
    <2>6. LastWrite(p)' /\ (writes'[p] = <<>> => w.value = frames.value)
        <3>1. /\ Len(writes[p]) \in Nat /\ Len(writes[p]) > 0 /\ w = writes[p][1]
              /\ Len(writes'[p]) = Len(writes[p]) - 1
              /\ writes'[p] = <<>> <=> Len(writes[p]) = 1
              /\ \A i \in 1 .. Len(writes'[p]) : writes'[p][i] = writes[p][i + 1]
            <4>1. Len(writes[p]) \in Nat
                BY Typed
            <4> QED
                BY <1>3, <1>4, <4>1 DEF Shorter
        <3>2. writes[p][Len(writes[p])].value = frames.value
            BY DEF AgreeInv, AgreePpt, LastWrite, PptSets
        <3>3. writes'[p] # <<>> => writes'[p][Len(writes'[p])] = writes[p][Len(writes[p])]
            BY <3>1
        <3> QED
            BY <1>1, <3>1, <3>2, <3>3 DEF LastWrite
    <2>7. Settled(p)'
        BY <1>1, <2>3, <2>5, <2>6 DEF Settled
    <2> QED
        BY <1>1, <2>3, <2>4, <2>6, <2>7 DEF AgreePpt
<1> QED
    BY <1>1, <1>2, <1>12, <1>13, Typed DEF AgreeInv

LEMMA RefusalAgrees ==
    ASSUME TypeOK, TypeOK', AgreeInv, NEW p \in Ppts, PptRefuses(p)
    PROVE  AgreeInv'
<1>1. UNCHANGED <<clock, ppt, proxy, frames, monitor, woken, missed>> /\ refused' = TRUE
    BY DEF PptRefuses, control, hands
<1>2. /\ Shorter(writes[p], writes'[p]) /\ Head(writes[p]) \in Write
      /\ \A q \in Ppts \ {p} : writes'[q] = writes[q]
    BY TakenWrite DEF PptRefuses
<1>3. PICK n \in Message : n = [reply |-> Head(writes[p]).from, done |-> FALSE]
    BY <1>2, Replies DEF Write
<1>4. ~IsUpdate(n)
    BY <1>2, <1>3, Replies DEF Write
<1>5. /\ \A q \in Ppts \ {p} : updates'[q] = updates[q]
      /\ Longer(updates[p], updates'[p], n)
      /\ updates'[p] \in Seq(Message) /\ updates[p] \in Seq(Message)
    BY <1>3, SentOne, Typed DEF PptRefuses
<1>6. ASSUME NEW q \in Ppts \ {p} PROVE AgreePpt(q)'
    BY <1>1, <1>2, <1>5, <1>6, Apart, Typed DEF AgreeInv, Looked
<1>7. Stamps(p)' /\ Leads(updates'[p], proxy[p], ppt[p])
    BY <1>1, <1>4, <1>5, ReplySent, Typed DEF AgreeInv, AgreePpt, Stamps
<1>8. LastWrite(p)'
    <2>1. /\ Len(writes[p]) \in Nat /\ Len(writes[p]) > 0
          /\ Len(writes'[p]) = Len(writes[p]) - 1
          /\ writes'[p] = <<>> <=> Len(writes[p]) = 1
          /\ \A i \in 1 .. Len(writes'[p]) : writes'[p][i] = writes[p][i + 1]
        <3>1. Len(writes[p]) \in Nat
            BY Typed
        <3> QED
            BY <1>2, <3>1 DEF Shorter
    <2>2. writes[p][Len(writes[p])].value = frames.value
        BY DEF AgreeInv, AgreePpt, LastWrite, PptRefuses
    <2>3. writes'[p] # <<>> => writes'[p][Len(writes'[p])] = writes[p][Len(writes[p])]
        BY <2>1
    <2> QED
        BY <1>1, <2>2, <2>3 DEF LastWrite
<1> QED
    BY <1>1, <1>6, <1>7, <1>8 DEF AgreeInv, AgreePpt

LEMMA ReceiveAgrees ==
    ASSUME TypeOK, TypeOK', AgreeInv, NEW p \in Ppts, ReceiveUpdate(p) \/ ReceiveReply(p)
    PROVE  AgreeInv'
<1>1. UNCHANGED <<clock, ppt, frames, writes, refused>> /\ clock \in Nat
    BY Typed DEF ReceiveUpdate, ReceiveReply, hands, control
<1>2. updates[p] # <<>> /\ updates' = [updates EXCEPT ![p] = Tail(@)]
    BY DEF ReceiveUpdate, ReceiveReply
<1>3. /\ \A q \in Ppts \ {p} : updates'[q] = updates[q]
      /\ Shorter(updates[p], updates'[p])
      /\ updates'[p] \in Seq(Message) /\ updates[p] \in Seq(Message)
    BY <1>2, TakenUpdate, Typed
<1>4. PICK m \in Message : m = updates[p][1] /\ m = Head(updates[p])
    BY <1>2, FirstMessage
<1>5. CASE ReceiveUpdate(p)
    <2>1. /\ IsUpdate(m) /\ m.update \in Stamped
          /\ proxy' = [proxy EXCEPT ![p] = m.update]
        BY <1>4, <1>5, Kinds DEF ReceiveUpdate, IsUpdate
    <2>2. /\ proxy'[p] = m.update
          /\ \A q \in Ppts \ {p} : proxy'[q] = proxy[q]
        BY <2>1 DEF TypeOK
    <2>3. /\ UNCHANGED monitor /\ woken' = (woken \/ monitor = "waiting")
          /\ missed' = (missed \/ (monitor = "writing" /\ m.update.by = "operator"))
        BY <1>5, <2>2 DEF ReceiveUpdate, control
    <2>4. /\ monitor' = "writing" => ~woken'
          /\ Looked' /\ ~missed' => /\ Looked /\ ~missed
                                    /\ m.update.by # "operator"
        BY <2>3 DEF Looked, AgreeInv
    <2>5. ASSUME NEW q \in Ppts \ {p} PROVE AgreePpt(q)'
        BY <1>1, <1>3, <2>2, <2>4, Apart, Typed DEF AgreeInv
    <2>6. AgreePpt(p)'
        <3>1. /\ InTime(updates'[p], clock) /\ m.update.time <= clock
              /\ Leads(updates'[p], proxy'[p], ppt[p])
              /\ OldEchoes(updates[p], frames.value) => OldEchoes(updates'[p], frames.value)
              /\ /\ OldEchoes(updates[p], frames.value)
                 /\ m.update.by = "write" /\ m.update.value # frames.value
                 => HasUpdate(updates'[p])
            BY <1>1, <1>3, <1>4, <2>1, <2>2, MessageTaken DEF AgreeInv, AgreePpt, Stamps
        <3>2. Stamps(p)' /\ LastWrite(p)'
            BY <1>1, <2>2, <3>1 DEF AgreeInv, AgreePpt, Stamps, LastWrite
        <3>3. m.update.by \in {"operator", "write"}
            BY <2>1 DEF Stamped
        <3>4. Settled(p) => Settled(p)'
            BY <1>1, <2>2, <2>4, <3>1, <3>3 DEF Settled, Differs
        <3> QED
            BY <1>1, <3>1, <3>2, <3>4 DEF AgreeInv, AgreePpt
    <2> QED
        BY <1>1, <2>4, <2>5, <2>6 DEF AgreeInv
<1>6. CASE ReceiveReply(p)
    <2>1. ~IsUpdate(m)
        BY <1>4, <1>6, Kinds DEF ReceiveReply, IsReply
    <2>2. UNCHANGED <<proxy, woken, missed>> /\ monitor' \in {"dead", monitor}
        BY <1>6 DEF ReceiveReply
    <2>3. /\ monitor' = "writing" => ~woken'
          /\ Looked' /\ ~missed' => Looked /\ ~missed
        BY <2>2 DEF Looked, AgreeInv
    <2>4. ASSUME NEW q \in Ppts \ {p} PROVE AgreePpt(q)'
        BY <1>1, <1>3, <2>2, <2>3, Apart, Typed DEF AgreeInv
    <2>5. AgreePpt(p)'
        <3>1. /\ InTime(updates'[p], clock) /\ Leads(updates'[p], proxy[p], ppt[p])
              /\ OldEchoes(updates[p], frames.value) => OldEchoes(updates'[p], frames.value)
              /\ HasUpdate(updates[p]) => HasUpdate(updates'[p])
            BY <1>1, <1>3, <1>4, <2>1, MessageTaken DEF AgreeInv, AgreePpt, Stamps
        <3>2. Stamps(p)' /\ LastWrite(p)'
            BY <1>1, <2>2, <3>1 DEF AgreeInv, AgreePpt, Stamps, LastWrite
        <3>3. Settled(p) => Settled(p)'
            BY <1>1, <2>2, <2>3, <3>1 DEF Settled, Differs
        <3> QED
            BY <1>1, <2>2, <3>1, <3>2, <3>3 DEF AgreeInv, AgreePpt
    <2> QED
        BY <1>1, <2>3, <2>4, <2>5 DEF AgreeInv
<1> QED
    BY <1>5, <1>6

\* Another number is written to every PPT.
LEMMA SettingAgrees ==
    ASSUME TypeOK, TypeOK', AgreeInv, NEW c \in Coroutine, NEW v \in Values,
           SetManyRemote(c, v), frames'.value = v, frames'.time <= clock', clock <= clock',
           UNCHANGED <<ppt, proxy, updates>>, monitor' = "writing" => ~woken'
    PROVE  AgreeInv'
<1> SUFFICES ASSUME NEW p \in Ppts PROVE AgreePpt(p)'
    BY DEF AgreeInv
<1>1. AgreePpt(p) /\ clock' \in Nat
    BY DEF AgreeInv, TypeOK
<1>2. Longer(writes[p], writes'[p], [value |-> v, from |-> c])
    BY SentWrites
<1>3. writes'[p] # <<>> /\ writes'[p][Len(writes'[p])].value = v
    BY <1>2 DEF Longer
<1>4. Stamps(p)'
    BY <1>1, Later DEF AgreePpt, Stamps, InTime
<1>5. LastWrite(p)' /\ Settled(p)'
    BY <1>3 DEF LastWrite, Settled
<1> QED
    BY <1>1, <1>4, <1>5 DEF AgreePpt, Leads, HasUpdate

LEMMA CoroutinesAgree ==
    ASSUME TypeOK, TypeOK', AgreeInv,
           \/ MonitorAdopts \/ MonitorWaits \/ MonitorWrote \/ SetterEnds
           \/ \E v \in Values : FramesToSend(v)
    PROVE  AgreeInv'
<1>1. ASSUME NEW v \in Values, FramesToSend(v) PROVE AgreeInv'
    <2>1. frames'.value = v /\ frames'.time = clock + 1 /\ clock' = clock + 1
        BY <1>1, Stamping DEF FramesToSend
    <2>2. frames'.time <= clock' /\ clock <= clock'
        BY <2>1, Typed
    <2>3. /\ SetManyRemote("setter", v) /\ "setter" \in Coroutine
          /\ UNCHANGED <<ppt, proxy, updates, monitor, woken>>
        BY <1>1 DEF FramesToSend, Coroutine
    <2> QED
        BY <2>1, <2>2, <2>3, SettingAgrees DEF AgreeInv
<1>2. CASE MonitorAdopts
    <2>1. PICK p \in Ppts : frames' = proxy[p]
        BY <1>2 DEF MonitorAdopts, Newer
    <2>2. /\ SetManyRemote("monitor", frames'.value) /\ "monitor" \in Coroutine
          /\ UNCHANGED <<ppt, proxy, updates, clock>> /\ woken' = FALSE
        BY <1>2 DEF MonitorAdopts, Coroutine, hands
    <2>3. frames'.value \in Values /\ frames'.time <= clock' /\ clock <= clock'
        BY <2>1, <2>2, Typed DEF AgreeInv, AgreePpt, Stamps, Stamped
    <2> QED
        BY <2>2, <2>3, SettingAgrees
<1>3. CASE MonitorWaits
    <2>1. UNCHANGED <<clock, ppt, proxy, writes, updates, frames, monitor, missed, refused>>
        BY <1>3 DEF MonitorWaits, hands, wires, control
    <2>2. monitor = "waiting" /\ Newer = {}
        BY <1>3 DEF MonitorWaits
    <2>3. \A p \in Ppts : ~Differs(p)'
        BY <2>1, <2>2 DEF Newer, Differs
    <2> QED
        BY <2>1, <2>2, <2>3 DEF AgreeInv, AgreePpt, Stamps, LastWrite, Settled
<1>4. CASE MonitorWrote \/ SetterEnds
    <2>1. /\ UNCHANGED <<clock, ppt, proxy, writes, updates, frames, woken, missed, refused>>
          /\ monitor' = monitor \/ (monitor = "writing" /\ monitor' = "waiting")
        BY <1>4 DEF MonitorWrote, SetterEnds, hands, wires, control
    <2>2. Looked' => Looked
        BY <2>1 DEF Looked, AgreeInv
    <2>3. ASSUME NEW p \in Ppts PROVE AgreePpt(p)'
        BY <2>1, <2>2, Apart, Typed DEF AgreeInv
    <2> QED
        BY <2>1, <2>3 DEF AgreeInv
<1> QED
    BY <1>1, <1>2, <1>3, <1>4

LEMMA AgreeHolds == Spec => [](TypeOK /\ AgreeInv)
<1>1. Init => AgreeInv
    <2> SUFFICES ASSUME Init PROVE AgreeInv
        OBVIOUS
    <2>1. clock = 2 /\ frames.time = 1 /\ monitor = "waiting" /\ woken = TRUE
        BY DEF Init
    <2>2. ASSUME NEW p \in Ppts PROVE AgreePpt(p)
        <3>1. /\ updates[p] = <<>> /\ writes[p] = <<>> /\ proxy[p] = ppt[p]
              /\ ppt[p].time \in {0, 2}
            BY DEF Init
        <3>2. Stamps(p) /\ Leads(updates[p], proxy[p], ppt[p]) /\ LastWrite(p)
            BY <2>1, <3>1 DEF Stamps, InTime, Leads, HasUpdate, LastWrite
        <3>3. Settled(p)
            BY <2>1, <3>1 DEF Settled, OldEchoes, Looked
        <3> QED
            BY <3>2, <3>3 DEF AgreePpt
    <2> QED
        BY <2>1, <2>2 DEF AgreeInv
<1>2. TypeOK /\ TypeOK' /\ AgreeInv /\ [Next]_vars => AgreeInv'
    <2> SUFFICES ASSUME TypeOK, TypeOK', AgreeInv, [Next]_vars PROVE AgreeInv'
        OBVIOUS
    <2>1. CASE Next
        BY <2>1, OperatorAgrees, WriteAgrees, RefusalAgrees, ReceiveAgrees, CoroutinesAgree
           DEF Next, Moves
    <2>2. CASE UNCHANGED vars
        BY <2>2 DEF vars, hands, wires, control, AgreeInv, AgreePpt, Stamps, LastWrite, Settled,
            Looked, Differs
    <2> QED
        BY <2>1, <2>2
<1> QED
    BY <1>1, <1>2, TypeInvariant, PTL DEF Spec

\* Once everything has arrived the PPTs have the number shown here, for any
\* number of PPTs and of changes on both sides, unless one made by hand has
\* arrived while the monitor was writing or a write has been refused.
THEOREM Agreement == Spec => []FramesAgree
<1>1. TypeOK /\ AgreeInv => FramesAgree
    <2> SUFFICES ASSUME TypeOK, AgreeInv, Quiet, ~missed, ~refused, NEW p \in Ppts
                 PROVE  \/ ppt[p].value = frames.value
                        \/ frames.time = 1 /\ ppt[p].time < 1
        BY DEF FramesAgree, Agree
    <2>1. /\ writes[p] = <<>> /\ updates[p] = <<>> /\ Looked
          /\ AgreePpt(p)
        BY DEF Quiet, Looked, AgreeInv
    <2>2. ~HasUpdate(updates[p])
        BY <2>1 DEF HasUpdate
    <2>3. proxy[p] = ppt[p] /\ Settled(p)
        BY <2>1, <2>2 DEF AgreePpt, Leads
    <2> QED
        BY <2>1, <2>2, <2>3 DEF Settled, Differs
<1> QED
    BY <1>1, AgreeHolds, PTL

-----------------------------------------------------------------------------
(* The adoption *)

LEMMA ByHandPaired ==
    ASSUME NEW u \in Seq(Message), NEW t \in Seq(Message), NEW m \in Message, Longer(u, t, m),
           NEW v, NEW stale, Paired(u, v, stale),
           IF IsUpdate(m) THEN m.update.by = "operator" ELSE ~m.done
    PROVE  Paired(t, v, stale)
<1> SUFFICES ASSUME NEW i \in 1 .. Len(t)
             PROVE  /\ IsUpdate(t[i]) /\ t[i].update.by = "write" =>
                          /\ i + 1 \in 1 .. Len(t) /\ IsReply(t[i + 1])
                          /\ t[i].update.value = v
                    /\ IsReply(t[i]) /\ t[i].done =>
                          IF i = 1 THEN ~stale ELSE IsUpdate(t[i - 1])
    BY DEF Paired
<1>1. Len(u) \in Nat /\ Len(t) = Len(u) + 1
    BY DEF Longer
<1>2. CASE i \in 1 .. Len(u)
    <2>1. t[i] = u[i] /\ (i + 1 \in 1 .. Len(u) => t[i + 1] = u[i + 1])
        BY <1>2 DEF Longer
    <2>2. i # 1 => t[i - 1] = u[i - 1]
        BY <1>1, <1>2 DEF Longer
    <2>3. i + 1 \in 1 .. Len(u) => i + 1 \in 1 .. Len(t)
        BY <1>1
    <2> QED
        BY <1>2, <2>1, <2>2, <2>3 DEF Paired
<1>3. CASE i = Len(u) + 1
    <2>1. t[i] = m
        BY <1>3 DEF Longer
    <2>2. ~IsUpdate(m) \/ ~IsReply(m)
        BY Kinds
    <2> QED
        BY <2>1, <2>2
<1> QED
    BY <1>1, <1>2, <1>3

LEMMA WritePaired ==
    ASSUME NEW u \in Seq(Message), NEW x \in Seq(Message), NEW t \in Seq(Message),
           NEW m \in Message, NEW n \in Message, Longer(u, x, m), Longer(x, t, n),
           NEW v, NEW stale, Paired(u, v, stale),
           IsUpdate(m), m.update.value = v, IsReply(n)
    PROVE  Paired(t, v, stale)
<1> SUFFICES ASSUME NEW i \in 1 .. Len(t)
             PROVE  /\ IsUpdate(t[i]) /\ t[i].update.by = "write" =>
                          /\ i + 1 \in 1 .. Len(t) /\ IsReply(t[i + 1])
                          /\ t[i].update.value = v
                    /\ IsReply(t[i]) /\ t[i].done =>
                          IF i = 1 THEN ~stale ELSE IsUpdate(t[i - 1])
    BY DEF Paired
<1>1. Len(u) \in Nat /\ Len(x) = Len(u) + 1 /\ Len(t) = Len(u) + 2
    BY DEF Longer
<1>2. t[Len(u) + 1] = m /\ t[Len(u) + 2] = n /\ \A j \in 1 .. Len(u) : t[j] = u[j]
    <2>1. x[Len(u) + 1] = m /\ t[Len(x) + 1] = n
        BY DEF Longer
    <2>2. \A j \in 1 .. Len(x) : t[j] = x[j]
        BY DEF Longer
    <2>3. \A j \in 1 .. Len(u) : x[j] = u[j]
        BY DEF Longer
    <2> QED
        BY <1>1, <2>1, <2>2, <2>3
<1>3. ~IsUpdate(n) /\ ~IsReply(m)
    BY Kinds
<1>4. CASE i \in 1 .. Len(u)
    <2>1. t[i] = u[i] /\ (i + 1 \in 1 .. Len(u) => t[i + 1] = u[i + 1])
        BY <1>2, <1>4
    <2>2. i # 1 => t[i - 1] = u[i - 1]
        BY <1>1, <1>2, <1>4
    <2>3. i + 1 \in 1 .. Len(u) => i + 1 \in 1 .. Len(t)
        BY <1>1
    <2> QED
        BY <1>4, <2>1, <2>2, <2>3 DEF Paired
<1>5. CASE i = Len(u) + 1
    <2>1. i + 1 \in 1 .. Len(t) /\ t[i] = m /\ t[i + 1] = n
        BY <1>1, <1>2, <1>5
    <2> QED
        BY <1>3, <2>1
<1>6. CASE i = Len(u) + 2
    <2>1. t[i] = n /\ t[i - 1] = m /\ i # 1
        BY <1>1, <1>2, <1>6
    <2> QED
        BY <1>3, <2>1
<1> QED
    BY <1>1, <1>4, <1>5, <1>6

\* The first message is taken: when it is an update the proxy is not stale.
LEMMA TakenPaired ==
    ASSUME NEW u \in Seq(Message), NEW t \in Seq(Message), u # <<>>, Shorter(u, t),
           NEW v, NEW stale, NEW late, Paired(u, v, stale), IsUpdate(u[1]) => ~late
    PROVE  Paired(t, v, late)
<1> SUFFICES ASSUME NEW i \in 1 .. Len(t)
             PROVE  /\ IsUpdate(t[i]) /\ t[i].update.by = "write" =>
                          /\ i + 1 \in 1 .. Len(t) /\ IsReply(t[i + 1])
                          /\ t[i].update.value = v
                    /\ IsReply(t[i]) /\ t[i].done =>
                          IF i = 1 THEN ~late ELSE IsUpdate(t[i - 1])
    BY DEF Paired
<1>1. Len(t) \in Nat /\ Len(u) \in Nat /\ Len(u) = Len(t) + 1
    BY DEF Shorter
<1>2. t[i] = u[i + 1] /\ (i + 1 \in 1 .. Len(t) => t[i + 1] = u[i + 2])
    BY <1>1 DEF Shorter
<1>3. i # 1 => t[i - 1] = u[i]
    BY <1>1 DEF Shorter
<1> DEFINE k == i + 1
<1>4. k \in 1 .. Len(u) /\ k # 1 /\ k - 1 = i /\ k + 1 = i + 2
    BY <1>1
<1>5. i + 2 \in 1 .. Len(u) => i + 1 \in 1 .. Len(t)
    BY <1>1
<1>6. /\ IsUpdate(u[k]) /\ u[k].update.by = "write" =>
            /\ k + 1 \in 1 .. Len(u) /\ IsReply(u[k + 1])
            /\ u[k].update.value = v
      /\ IsReply(u[k]) /\ u[k].done => IsUpdate(u[k - 1])
    BY <1>4 DEF Paired
<1> QED
    BY <1>2, <1>3, <1>4, <1>5, <1>6

LEMMA OthersPaired ==
    ASSUME ~crossed, ~crossed', EchoInv, NEW q \in Ppts,
           UNCHANGED <<writes[q], updates[q], proxy[q], frames>>, HeldUp(q) => HeldUp(q)'
    PROVE  EchoPpt(q)'
BY DEF EchoInv, EchoPpt, Stale, Differs

LEMMA PptEchoes ==
    ASSUME TypeOK, EchoInv, NEW p \in Ppts,
           PptSets(p) \/ PptRefuses(p) \/ \E v \in Values : OperatorSets(p, v)
    PROVE  EchoInv'
<1> SUFFICES ASSUME ~crossed' PROVE \A q \in Ppts : EchoPpt(q)'
    BY DEF EchoInv
<1>1. UNCHANGED <<proxy, frames, monitor, awaited, crossed>>
    BY DEF PptSets, PptRefuses, OperatorSets, control
<1>2. \A q \in Ppts : Stale(q)' = Stale(q) /\ (HeldUp(q) => HeldUp(q)')
    BY <1>1 DEF Stale, Differs, HeldUp
<1>3. EchoPpt(p)
    BY <1>1 DEF EchoInv
<1> HIDE DEF Stale, HeldUp
<1>4. CASE \E v \in Values : OperatorSets(p, v)
    <2>1. PICK v \in Values : OperatorSets(p, v)
        BY <1>4
    <2>2. ppt'[p] \in Stamped /\ ppt'[p].by = "operator"
        BY <2>1, Stamping DEF OperatorSets, TypeOK
    <2>3. PICK m \in Message : m = [update |-> ppt'[p]]
        BY <2>2, Updates
    <2>4. IsUpdate(m) /\ m.update.by = "operator"
        BY <2>2, <2>3, Updates
    <2>5. /\ \A q \in Ppts \ {p} : updates'[q] = updates[q]
          /\ Longer(updates[p], updates'[p], m)
          /\ updates[p] \in Seq(Message) /\ updates'[p] \in Seq(Message)
        BY <2>1, <2>3, SentOne, Typed DEF OperatorSets
    <2>6. UNCHANGED writes
        BY <2>1 DEF OperatorSets
    <2>7. Paired(updates'[p], frames.value, Stale(p))
        BY <1>3, <2>4, <2>5, ByHandPaired DEF EchoPpt
    <2>8. EchoPpt(p)'
        BY <1>1, <1>2, <1>3, <2>6, <2>7 DEF EchoPpt
    <2>9. ASSUME NEW q \in Ppts \ {p} PROVE EchoPpt(q)'
        BY <1>1, <1>2, <2>5, <2>6, OthersPaired
    <2> QED
        BY <2>8, <2>9
<1>5. CASE PptSets(p) \/ PptRefuses(p)
    <2>1. /\ Shorter(writes[p], writes'[p]) /\ Head(writes[p]) \in Write
          /\ \A q \in Ppts \ {p} : writes'[q] = writes[q]
          /\ Len(writes[p]) \in Nat
        BY <1>5, TakenWrite, Typed DEF PptSets, PptRefuses
    <2>2. PICK w \in Write : w = Head(writes[p])
        BY <2>1
    <2>3. \A i \in 1 .. Len(writes'[p]) : writes'[p][i].value = frames.value
        BY <1>3, <2>1 DEF EchoPpt, Shorter
    <2>4. w.value = frames.value
        BY <1>3, <2>1, <2>2 DEF EchoPpt, Shorter
    <2>5. /\ Paired(updates'[p], frames.value, Stale(p))
          /\ \A q \in Ppts \ {p} : updates'[q] = updates[q]
        <3>1. CASE PptSets(p)
            <4>1. ppt'[p].value = w.value /\ ppt'[p] \in Stamped
                <5>1. w.value \in Values /\ ppt' = [ppt EXCEPT ![p] = Stamp(w.value, "write")]
                    BY <2>2, <3>1 DEF PptSets, Write
                <5> QED
                    BY <5>1, Stamping DEF TypeOK
            <4>2. PICK m \in Message : m = [update |-> ppt'[p]]
                BY <4>1, Updates
            <4>3. PICK n \in Message : n = [reply |-> w.from, done |-> TRUE]
                BY Replies DEF Write
            <4>4. IsUpdate(m) /\ m.update.value = frames.value /\ IsReply(n)
                BY <2>4, <4>1, <4>2, <4>3, Updates, Replies DEF Write
            <4>5. Send(p, <<m, n>>)
                BY <2>2, <3>1, <4>2, <4>3 DEF PptSets
            <4>6. /\ \A q \in Ppts \ {p} : updates'[q] = updates[q]
                  /\ Longer(updates[p], updates[p] \o <<m>>, m)
                  /\ Longer(updates[p] \o <<m>>, updates'[p], n)
                  /\ updates' \in [Ppts -> Seq(Message)]
                BY <4>5, SentTwo
            <4>7. /\ updates[p] \in Seq(Message) /\ updates'[p] \in Seq(Message)
                  /\ updates[p] \o <<m>> \in Seq(Message)
                BY <4>6, Typed, LongerQueue
            <4> QED
                BY <1>3, <4>4, <4>6, <4>7, WritePaired DEF EchoPpt
        <3>2. CASE PptRefuses(p)
            <4>1. PICK n \in Message : n = [reply |-> w.from, done |-> FALSE]
                BY Replies DEF Write
            <4>2. ~IsUpdate(n) /\ ~n.done
                BY <4>1, Replies DEF Write
            <4>3. /\ \A q \in Ppts \ {p} : updates'[q] = updates[q]
                  /\ Longer(updates[p], updates'[p], n)
                  /\ updates'[p] \in Seq(Message) /\ updates[p] \in Seq(Message)
                BY <2>2, <3>2, <4>1, SentOne, Typed DEF PptRefuses
            <4> QED
                BY <1>3, <4>2, <4>3, ByHandPaired DEF EchoPpt
        <3> QED
            BY <1>5, <3>1, <3>2
    <2>6. EchoPpt(p)'
        BY <1>1, <1>2, <1>3, <2>3, <2>5 DEF EchoPpt
    <2>7. ASSUME NEW q \in Ppts \ {p} PROVE EchoPpt(q)'
        BY <1>1, <1>2, <2>1, <2>5, OthersPaired
    <2> QED
        BY <2>6, <2>7
<1> QED
    BY <1>4, <1>5

LEMMA ReceiveEchoes ==
    ASSUME TypeOK, EchoInv, NEW p \in Ppts, ReceiveUpdate(p) \/ ReceiveReply(p)
    PROVE  EchoInv'
<1> SUFFICES ASSUME ~crossed' PROVE \A q \in Ppts : EchoPpt(q)'
    BY DEF EchoInv
<1>1. UNCHANGED <<frames, writes, crossed>>
    BY DEF ReceiveUpdate, ReceiveReply, control
<1>2. updates[p] # <<>> /\ updates' = [updates EXCEPT ![p] = Tail(@)]
    BY DEF ReceiveUpdate, ReceiveReply
<1>3. /\ \A q \in Ppts \ {p} : updates'[q] = updates[q]
      /\ Shorter(updates[p], updates'[p])
      /\ updates'[p] \in Seq(Message) /\ updates[p] \in Seq(Message)
    BY <1>2, TakenUpdate, Typed
<1>4. PICK m \in Message : m = updates[p][1] /\ m = Head(updates[p])
    BY <1>2, FirstMessage
<1>5. EchoPpt(p) /\ 1 \in 1 .. Len(updates[p])
    <2>1. Len(updates[p]) \in Nat
        BY <1>3
    <2> QED
        BY <1>1, <1>3, <2>1 DEF EchoInv, Shorter
<1>6. CASE ReceiveUpdate(p)
    <2>1. /\ IsUpdate(m) /\ m.update \in Stamped
          /\ proxy' = [proxy EXCEPT ![p] = m.update]
        BY <1>4, <1>6, Kinds DEF ReceiveUpdate, IsUpdate
    <2>2. proxy'[p] = m.update /\ \A q \in Ppts \ {p} : proxy'[q] = proxy[q]
        BY <2>1 DEF TypeOK
    <2>3. UNCHANGED <<monitor, awaited>>
        BY <1>6 DEF ReceiveUpdate, control
    <2>4. ~Stale(p)'
        <3>1. m.update.by = "write" => m.update.value = frames.value
            BY <1>4, <1>5, <2>1 DEF EchoPpt, Paired
        <3> QED
            BY <1>1, <2>2, <3>1 DEF Stale, Differs
    <2>5. Paired(updates'[p], frames.value, Stale(p)')
        BY <1>2, <1>3, <1>5, <2>4, TakenPaired DEF EchoPpt
    <2>6. EchoPpt(p)'
        BY <1>1, <1>5, <2>4, <2>5 DEF EchoPpt, HeldUp
    <2>7. ASSUME NEW q \in Ppts \ {p} PROVE EchoPpt(q)'
        <3>1. HeldUp(q) => HeldUp(q)'
            BY <1>1, <2>2, <2>3 DEF HeldUp, Stale, Differs
        <3> QED
            BY <1>1, <1>3, <2>2, <3>1, OthersPaired
    <2> QED
        BY <2>6, <2>7
<1>7. CASE ReceiveReply(p)
    <2>1. IsReply(m) /\ ~IsUpdate(m) /\ m.reply \in Coroutine /\ m.done \in BOOLEAN
        BY <1>4, <1>7, Kinds DEF ReceiveReply, IsReply
    <2>2. UNCHANGED proxy
        BY <1>7 DEF ReceiveReply
    <2>3. /\ awaited' = [awaited EXCEPT ![m.reply] = IF m.done THEN @ \ {p} ELSE {}]
          /\ monitor' = IF m.reply = "monitor" /\ ~m.done THEN "dead" ELSE monitor
        BY <1>4, <1>7 DEF ReceiveReply
    <2>4. monitor' = "dead" \/ (monitor' = monitor /\ awaited["monitor"] \ {p} \subseteq awaited'["monitor"])
        <3>1. CASE m.reply = "monitor"
            BY <2>3, <3>1 DEF TypeOK, Coroutine
        <3>2. CASE m.reply = "setter"
            BY <2>3, <3>2 DEF TypeOK, Coroutine
        <3> QED
            BY <2>1, <3>1, <3>2 DEF Coroutine
    <2>5. m.done => ~Stale(p)
        BY <1>4, <1>5, <2>1 DEF EchoPpt, Paired
    <2>6. \A q \in Ppts : Stale(q)' = Stale(q)
        BY <1>1, <2>2 DEF Stale, Differs
    <2>7. HeldUp(p) => HeldUp(p)'
        <3>1. CASE m.done
            BY <2>5, <2>6, <3>1 DEF HeldUp
        <3>2. CASE ~m.done /\ m.reply = "monitor"
            BY <2>3, <3>2 DEF HeldUp
        <3>3. CASE ~m.done /\ m.reply = "setter"
            <4>1. monitor' = monitor /\ awaited'["monitor"] = awaited["monitor"]
                BY <2>3, <3>3 DEF TypeOK, Coroutine
            <4> QED
                BY <2>6, <4>1 DEF HeldUp
        <3> QED
            BY <2>1, <3>1, <3>2, <3>3 DEF Coroutine
    <2>8. Paired(updates'[p], frames.value, Stale(p))
        BY <1>2, <1>3, <1>4, <1>5, <2>1, TakenPaired DEF EchoPpt
    <2>9. EchoPpt(p)'
        BY <1>1, <1>5, <2>6, <2>7, <2>8 DEF EchoPpt
    <2>10. ASSUME NEW q \in Ppts \ {p} PROVE EchoPpt(q)'
        <3>1. HeldUp(q) => HeldUp(q)'
            BY <2>4, <2>6 DEF HeldUp
        <3> QED
            BY <1>1, <1>3, <2>2, <3>1, OthersPaired
    <2> QED
        BY <2>9, <2>10
<1> QED
    BY <1>6, <1>7

\* Writes that cross nothing find neither writes nor replies nor echoes.
LEMMA SettingEchoes ==
    ASSUME TypeOK, EchoInv, NEW c \in Coroutine, NEW v \in Values,
           SetManyRemote(c, v), frames'.value = v, UNCHANGED <<proxy, updates>>,
           \A p \in Ppts : HeldUp(p)'
    PROVE  EchoInv'
<1> SUFFICES ASSUME ~crossed', NEW p \in Ppts PROVE EchoPpt(p)'
    BY DEF EchoInv
<1>1. EchoPpt(p) /\ ~UnderWay
    BY SentWrites DEF EchoInv
<1>2. updates[p] \in Seq(Message) /\ Len(updates[p]) \in Nat /\ Len(writes[p]) \in Nat
    BY Typed
<1>3. /\ writes[p] = <<>>
      /\ \A i \in 1 .. Len(updates[p]) : ~IsReply(updates[p][i])
    BY <1>1, <1>2 DEF UnderWay, IsReply
<1>4. Longer(writes[p], writes'[p], [value |-> v, from |-> c]) /\ Len(writes[p]) = 0
    BY <1>3, SentWrites
<1>5. \A i \in 1 .. Len(writes'[p]) : writes'[p][i].value = v
    BY <1>4 DEF Longer
<1>6. \A i \in 1 .. Len(updates[p]) : ~(IsUpdate(updates[p][i]) /\ updates[p][i].update.by = "write")
    BY <1>1, <1>3 DEF EchoPpt, Paired
<1>7. Paired(updates[p], v, Stale(p)')
    BY <1>3, <1>6 DEF Paired
<1> QED
    BY <1>5, <1>7 DEF EchoPpt

LEMMA CoroutineEchoes ==
    ASSUME TypeOK, AgreeInv, EchoInv,
           \/ MonitorAdopts \/ MonitorWaits \/ MonitorWrote \/ SetterEnds
           \/ \E v \in Values : FramesToSend(v)
    PROVE  EchoInv'
<1>1. ASSUME NEW v \in Values, FramesToSend(v) PROVE EchoInv'
    <2>1. frames'.value = v /\ frames'.time = clock + 1
        BY <1>1, Stamping DEF FramesToSend
    <2>2. /\ SetManyRemote("setter", v) /\ "setter" \in Coroutine
          /\ UNCHANGED <<proxy, updates>>
        BY <1>1 DEF FramesToSend, Coroutine
    <2>3. ASSUME NEW p \in Ppts PROVE HeldUp(p)'
        <3>1. proxy[p].time <= clock /\ proxy[p].time \in Nat /\ clock \in Nat
            BY Typed DEF AgreeInv, AgreePpt, Stamps, Stamped
        <3> QED
            BY <2>1, <2>2, <3>1 DEF HeldUp, Stale, Differs
    <2> QED
        BY <2>1, <2>2, <2>3, SettingEchoes
<1>2. CASE MonitorAdopts
    <2>1. PICK p \in Ppts : frames' = proxy[p]
        BY <1>2 DEF MonitorAdopts, Newer
    <2>2. /\ SetManyRemote("monitor", frames'.value) /\ "monitor" \in Coroutine
          /\ UNCHANGED <<proxy, updates>> /\ monitor' = "writing"
        BY <1>2 DEF MonitorAdopts, Coroutine
    <2>3. frames'.value \in Values
        BY <2>1, Typed DEF Stamped
    <2>4. awaited'["monitor"] = Ppts
        BY <2>2, <2>3, SentWrites DEF TypeOK
    <2>5. \A q \in Ppts : HeldUp(q)'
        BY <2>2, <2>4 DEF HeldUp
    <2> QED
        BY <2>2, <2>3, <2>5, SettingEchoes
<1>3. CASE MonitorWaits \/ MonitorWrote \/ SetterEnds
    <2>1. UNCHANGED <<proxy, writes, updates, frames, awaited, crossed>>
        BY <1>3 DEF MonitorWaits, MonitorWrote, SetterEnds, wires, control
    <2>2. ASSUME NEW p \in Ppts PROVE HeldUp(p) => HeldUp(p)'
        <3>1. \/ monitor' = monitor
              \/ monitor = "writing" /\ awaited["monitor"] = {}
            BY <1>3 DEF MonitorWaits, MonitorWrote, SetterEnds, control
        <3> QED
            BY <2>1, <3>1 DEF HeldUp, Stale, Differs
    <2>3. ASSUME ~crossed', NEW p \in Ppts PROVE EchoPpt(p)'
        BY <2>1, <2>2, <2>3, OthersPaired
    <2> QED
        BY <2>3 DEF EchoInv
<1> QED
    BY <1>1, <1>2, <1>3

\* As long as its writes do not cross, the device adopts what operators set and
\* never the echo of a write of its own.
THEOREM AdoptsByHand == Spec => AdoptsOperators
<1>1. Init => EchoInv
    <2> SUFFICES ASSUME Init, NEW p \in Ppts PROVE EchoPpt(p)
        BY DEF EchoInv
    <2>1. updates[p] = <<>> /\ writes[p] = <<>> /\ proxy[p].by = "operator"
        BY DEF Init
    <2> QED
        BY <2>1 DEF EchoPpt, Paired, HeldUp, Stale
<1>2. TypeOK /\ AgreeInv /\ EchoInv /\ [Next]_vars => EchoInv'
    <2> SUFFICES ASSUME TypeOK, AgreeInv, EchoInv, [Next]_vars PROVE EchoInv'
        OBVIOUS
    <2>1. CASE Next
        BY <2>1, PptEchoes, ReceiveEchoes, CoroutineEchoes DEF Next, Moves
    <2>2. CASE UNCHANGED vars
        BY <2>2 DEF vars, wires, control, EchoInv, EchoPpt, HeldUp, Stale, Differs
    <2> QED
        BY <2>1, <2>2
<1>3. TypeOK /\ EchoInv /\ [Next]_vars => [frames' # frames /\ ~crossed => frames'.by = "operator"]_vars
    <2> SUFFICES ASSUME TypeOK, EchoInv, Next, frames' # frames, ~crossed
                 PROVE  frames'.by = "operator"
        BY DEF vars, control
    <2>1. CASE \E v \in Values : FramesToSend(v)
        BY <2>1, Stamping DEF FramesToSend
    <2>2. CASE MonitorAdopts
        <3>1. PICK p \in Newer : frames' = proxy[p]
            BY <2>2 DEF MonitorAdopts
        <3>2. p \in Ppts /\ Differs(p) /\ monitor = "waiting"
            BY <2>2, <3>1 DEF MonitorAdopts, Newer, Differs
        <3>3. proxy[p].by # "write"
            BY <3>2 DEF EchoInv, EchoPpt, HeldUp, Stale
        <3>4. proxy[p].by \in {"operator", "write"}
            BY <3>2, Typed DEF Stamped
        <3> QED
            BY <3>1, <3>3, <3>4
    <2>3. CASE MonitorWaits \/ MonitorWrote \/ SetterEnds
        BY <2>3 DEF MonitorWaits, MonitorWrote, SetterEnds, control
    <2>4. CASE \E p \in Ppts : \/ ReceiveUpdate(p) \/ ReceiveReply(p) \/ PptSets(p)
                               \/ PptRefuses(p) \/ \E v \in Values : OperatorSets(p, v)
        BY <2>4 DEF ReceiveUpdate, ReceiveReply, PptSets, PptRefuses, OperatorSets, control
    <2> QED
        BY <2>1, <2>2, <2>3, <2>4 DEF Next, Moves
<1> QED
    BY <1>1, <1>2, <1>3, AgreeHolds, PTL DEF Spec, AdoptsOperators

=============================================================================
