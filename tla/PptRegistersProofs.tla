-------------------------- MODULE PptRegistersProofs --------------------------
(***************************************************************************)
(* Proofs about the registers of DsscPpt, for any modules, values, files   *)
(* and number of operations.                                               *)
(***************************************************************************)
EXTENDS PptRegisters, SequenceTheorems, WellFoundedInduction, TLAPS

-----------------------------------------------------------------------------
(* Programs *)

PlainLoop == [op : {"for"}, kind : {"ready", "failed", "show"}, todo : SUBSET Modules]
EntryLoop == [op : {"for"}, kind : {"entry"}, hash : Content, todo : SUBSET Modules]

\* All but those of updateConfigFromHash.
Quiet ==
    [op : {"fetch", "probe"}] \cup PlainLoop
    \cup [op : {"set"}, module : Modules, locked : BOOLEAN]
    \cup [op : {"put"}, module : Modules \cup {None}, value : Values]
    \cup [op : {"use", "peek"}, module : Modules \cup {None}, values : SUBSET Values]
    \cup [op : {"check"}, module : Modules, skip : Nat]
    \cup [op : {"load"}, file : Files]
    \cup [op : {"show"}, module : Modules]

EntryPut == [op : {"entry"}, module : Modules, value : Values]

Instruction == Quiet \cup [op : {"compare"}] \cup EntryPut \cup EntryLoop

\* What is known of an instruction by its name.
LEMMA Fields ==
    ASSUME NEW i \in Instruction
    PROVE  /\ i.op = "set"     => i.module \in Modules
           /\ i.op = "check"   => i.module \in Modules /\ i.skip \in Nat
           /\ i.op = "put"     => i.module \in Modules \cup {None} /\ i.value \in Values
           /\ i.op = "entry"   => i.module \in Modules /\ i.value \in Values
           /\ i.op \in {"use", "peek"} => i.module \in Modules \cup {None} /\ i.values \subseteq Values
           /\ i.op = "load"    => i.file \in Files
           /\ i.op = "show"    => i.module \in Modules
           /\ i.op = "for"     => i \in PlainLoop \/ i \in EntryLoop
           /\ i.op \in {"compare", "entry"} => i \notin Quiet
           /\ i.op = "for" /\ i.kind = "entry" => i \notin Quiet
BY DEF Instruction, Quiet, PlainLoop, EntryLoop, EntryPut

LEMMA LoopFields ==
    ASSUME NEW i \in PlainLoop \cup EntryLoop
    PROVE  /\ i.op = "for" /\ i.todo \subseteq Modules
           /\ i \in EntryLoop => i.kind = "entry" /\ i.hash \in Content
           /\ i \in PlainLoop => i.kind \in {"ready", "failed", "show"} /\ i \in Quiet
BY DEF PlainLoop, EntryLoop, Quiet

\* The loop after a turn of it.
LEMMA LoopOn ==
    ASSUME NEW i, NEW m
    PROVE  /\ i \in PlainLoop => [i EXCEPT !.todo = @ \ {m}] \in PlainLoop
           /\ i \in EntryLoop => /\ [i EXCEPT !.todo = @ \ {m}] \in EntryLoop
                                 /\ [i EXCEPT !.todo = @ \ {m}].hash = i.hash
                                 /\ [i EXCEPT !.todo = @ \ {m}].todo = i.todo \ {m}
<1>1. ASSUME i \in PlainLoop PROVE [i EXCEPT !.todo = @ \ {m}] \in PlainLoop
    BY <1>1 DEF PlainLoop
<1>2. ASSUME i \in EntryLoop
      PROVE  /\ [i EXCEPT !.todo = @ \ {m}] \in EntryLoop
             /\ [i EXCEPT !.todo = @ \ {m}].hash = i.hash
             /\ [i EXCEPT !.todo = @ \ {m}].todo = i.todo \ {m}
    BY <1>2 DEF EntryLoop
<1> QED
    BY <1>1, <1>2

\* The first instruction of a program and what comes after it.
LEMMA Cons ==
    ASSUME NEW S, NEW i \in S, NEW q \in Seq(S)
    PROVE  /\ <<i>> \o q \in Seq(S) /\ <<i>> \o q # <<>>
           /\ Head(<<i>> \o q) = i /\ Tail(<<i>> \o q) = q
           /\ Len(<<i>> \o q) = Len(q) + 1
<1> DEFINE p == <<i>> \o q
<1>1. <<i>> \in Seq(S) /\ Len(<<i>>) = 1 /\ <<i>>[1] = i
    OBVIOUS
<1>2. p \in Seq(S) /\ Len(p) = 1 + Len(q) /\ p[1] = i
      /\ \A k \in 2 .. Len(p) : p[k] = q[k - 1]
    BY <1>1, ConcatProperties
<1> HIDE DEF p
<1>3. p # <<>>
    BY <1>2
<1>4. /\ Head(p) = i /\ Tail(p) \in Seq(S) /\ Len(Tail(p)) = Len(q)
      /\ \A k \in 1 .. Len(q) : Tail(p)[k] = p[k + 1]
    BY <1>2, <1>3, HeadTailProperties
<1>5. \A k \in 1 .. Len(q) : Tail(p)[k] = q[k]
    BY <1>2, <1>4
<1>6. Tail(p) = q
    BY <1>4, <1>5, SeqEqual
<1> QED
    BY <1>2, <1>3, <1>4, <1>6 DEF p

LEMMA Alone ==
    ASSUME NEW S, NEW i \in S
    PROVE  /\ <<i>> \in Seq(S) /\ <<i>> # <<>> /\ Len(<<i>>) = 1
           /\ Head(<<i>>) = i /\ Tail(<<i>>) = <<>> /\ <<i>> = <<i>> \o <<>>
OBVIOUS

LEMMA Joined ==
    ASSUME NEW S, NEW p \in Seq(S), NEW q \in Seq(S)
    PROVE  p \o q \in Seq(S) /\ Len(p \o q) = Len(p) + Len(q)
BY ConcatProperties

LEMMA Regroup ==
    ASSUME NEW S, NEW p \in Seq(S), NEW q \in Seq(S), NEW r \in Seq(S)
    PROVE  (p \o q) \o r = p \o (q \o r)
BY ConcatAssociative

\* Without the first instructions.
LEMMA Skipped ==
    ASSUME NEW S, NEW p \in Seq(S), NEW r \in Seq(S)
    PROVE  SubSeq(p \o r, Len(p) + 1, Len(p \o r)) = r
<1> DEFINE q == p \o r
           s == SubSeq(q, Len(p) + 1, Len(q))
<1>1. /\ q \in Seq(S) /\ Len(q) = Len(p) + Len(r) /\ Len(p) \in Nat /\ Len(r) \in Nat
      /\ \A k \in 1 .. Len(q) : q[k] = IF k <= Len(p) THEN p[k] ELSE r[k - Len(p)]
    BY ConcatProperties
<1> HIDE DEF q
<1>2. /\ s \in Seq(S) /\ Len(s) = Len(r)
      /\ \A k \in 1 .. Len(r) : s[k] = q[Len(p) + k]
    <2>1. Len(p) + 1 \in 1 .. Len(q) + 1 /\ Len(q) \in Len(p) .. Len(q)
        BY <1>1
    <2>2. /\ s \in Seq(S)
          /\ Len(s) = IF Len(p) + 1 <= Len(q) THEN Len(q) - (Len(p) + 1) + 1 ELSE 0
          /\ \A k \in 1 .. Len(q) - (Len(p) + 1) + 1 : s[k] = q[(Len(p) + 1) + k - 1]
        BY <1>1, <2>1, SubSeqProperties
    <2> QED
        BY <1>1, <2>2
<1> HIDE DEF s
<1>3. ASSUME NEW k \in 1 .. Len(r) PROVE s[k] = r[k]
    <2>1. /\ Len(p) + k \in 1 .. Len(q) /\ ~(Len(p) + k <= Len(p))
          /\ (Len(p) + k) - Len(p) = k
        BY <1>1
    <2> QED
        BY <1>1, <1>2, <2>1
<1>4. s = r
    BY <1>2, <1>3, SeqEqual
<1> QED
    BY <1>4 DEF s, q

LEMMA SeqFrom ==
    ASSUME NEW S, NEW q \in Seq(S), NEW n \in Nat
    PROVE  SubSeq(q, n + 1, Len(q)) \in Seq(S)
<1>1. \A k \in n + 1 .. Len(q) : q[k] \in S
    BY ElementOfSeq, LenProperties
<1> QED
    BY <1>1, LenProperties, SubSeqProperties

LEMMA TailFrom ==
    ASSUME NEW S, NEW p \in Seq(S), p # <<>>, NEW n \in Nat
    PROVE  SubSeq(Tail(p), n + 1, Len(Tail(p))) = SubSeq(p, n + 2, Len(p))
<1> DEFINE q == Tail(p)
           a == SubSeq(q, n + 1, Len(q))
           b == SubSeq(p, n + 2, Len(p))
<1>1. /\ q \in Seq(S) /\ Len(q) = Len(p) - 1 /\ Len(p) \in Nat
      /\ \A k \in 1 .. Len(q) : q[k] = p[k + 1]
    BY HeadTailProperties, LenProperties
<1>2. (\A k \in n + 1 .. Len(q) : q[k] \in S) /\ (\A k \in n + 2 .. Len(p) : p[k] \in S)
    BY <1>1, ElementOfSeq
<1> HIDE DEF q
<1>3. /\ a \in Seq(S) /\ Len(a) = IF n + 1 <= Len(q) THEN Len(q) - (n + 1) + 1 ELSE 0
      /\ \A k \in 1 .. Len(q) - (n + 1) + 1 : a[k] = q[(n + 1) + k - 1]
    BY <1>1, <1>2, SubSeqProperties
<1>4. /\ b \in Seq(S) /\ Len(b) = IF n + 2 <= Len(p) THEN Len(p) - (n + 2) + 1 ELSE 0
      /\ \A k \in 1 .. Len(p) - (n + 2) + 1 : b[k] = p[(n + 2) + k - 1]
    BY <1>1, <1>2, SubSeqProperties
<1> HIDE DEF a, b
<1>5. Len(a) = Len(b)
    BY <1>1, <1>3, <1>4
<1>6. ASSUME NEW k \in 1 .. Len(a) PROVE a[k] = b[k]
    <2>1. /\ k \in 1 .. Len(q) - (n + 1) + 1 /\ k \in 1 .. Len(p) - (n + 2) + 1
          /\ (n + 1) + k - 1 = n + k /\ (n + 2) + k - 1 = (n + k) + 1
          /\ n + k \in 1 .. Len(q)
        BY <1>1, <1>3, <1>4, <1>5
    <2> QED
        BY <1>1, <1>3, <1>4, <2>1
<1>7. a = b
    BY <1>3, <1>4, <1>5, <1>6, SeqEqual
<1> QED
    BY <1>7 DEF a, b, q

-----------------------------------------------------------------------------
(* What the operations are made of is programs *)

LEMMA Basic ==
    ASSUME NEW m \in Modules, NEW v \in Values, NEW vs \in SUBSET Values, NEW file \in Files,
           NEW i \in Quiet
    PROVE  /\ Set(m) \in Seq(Quiet) /\ LockSet(m) \in Seq(Quiet) /\ Fetch \in Seq(Quiet)
           /\ Put(m, v) \in Seq(Quiet) /\ Use(m, vs) \in Seq(Quiet) /\ Peek(m) \in Seq(Quiet)
           /\ UseAny \in Seq(Quiet) /\ Entry(m, v) \in Seq(Instruction) /\ <<i>> \in Seq(Quiet)
           /\ <<[op |-> "load", file |-> file]>> \in Seq(Quiet)
           /\ <<[op |-> "probe"]>> \in Seq(Quiet)
           /\ <<[op |-> "show", module |-> m]>> \in Seq(Quiet)
<1>1. /\ [op |-> "set", module |-> m, locked |-> FALSE] \in Quiet
      /\ [op |-> "set", module |-> m, locked |-> TRUE] \in Quiet
      /\ [op |-> "fetch"] \in Quiet /\ [op |-> "probe"] \in Quiet
    BY DEF Quiet
<1>2. /\ [op |-> "put", module |-> m, value |-> v] \in Quiet
      /\ [op |-> "use", module |-> m, values |-> vs] \in Quiet
      /\ [op |-> "peek", module |-> m, values |-> Values] \in Quiet
      /\ [op |-> "use", module |-> None, values |-> Values] \in Quiet
    BY DEF Quiet
<1>3. /\ [op |-> "load", file |-> file] \in Quiet /\ [op |-> "show", module |-> m] \in Quiet
      /\ [op |-> "entry", module |-> m, value |-> v] \in Instruction
    BY DEF Quiet, Instruction, EntryPut
<1> QED
    BY <1>1, <1>2, <1>3, Alone DEF Set, LockSet, Fetch, Put, Use, Peek, UseAny, Entry

LEMMA QuietIs ==
    ASSUME NEW p \in Seq(Quiet)
    PROVE  p \in Seq(Instruction)
<1>1. Quiet \subseteq Instruction
    BY DEF Instruction
<1> QED
    BY <1>1, SeqMonotonic

LEMMA Loops ==
    ASSUME NEW ms \in SUBSET Modules, NEW kind \in {"ready", "failed", "show"}
    PROVE  For(kind, ms) \in Seq(Quiet)
<1>1. [op |-> "for", kind |-> kind, todo |-> ms] \in PlainLoop
    BY DEF PlainLoop
<1> QED
    BY <1>1, Alone DEF For, Quiet

\* What is checked for is a module.
LEMMA Checks ==
    ASSUME NEW m \in Modules, NEW S, Quiet \subseteq S, NEW p \in Seq(S)
    PROVE  Check(m, p) \in Seq(S)
<1>1. [op |-> "check", module |-> m, skip |-> Len(p)] \in S
    BY LenProperties DEF Quiet
<1> QED
    BY <1>1, Cons DEF Check

LEMMA Operations ==
    ASSUME NEW m \in Modules, NEW v \in Values
    PROVE  /\ SetActiveModule(m) \in Seq(Quiet) /\ ProgramJTAG(m) \in Seq(Quiet)
           /\ CheckIOBAuroraReady(m) \in Seq(Quiet) /\ GetIOBSpecialParams(m) \in Seq(Quiet)
           /\ CheckIOBReady(m) \in Seq(Quiet) /\ ResetAurora(m) \in Seq(Quiet)
           /\ Set(m) \o Use(m, {v}) \in Seq(Quiet)
           /\ LockSet(m) \o Use(m, Values) \in Seq(Quiet)
           /\ Check(m, Set(m) \o Use(m, {v})) \in Seq(Quiet)
<1>1. /\ Set(m) \in Seq(Quiet) /\ LockSet(m) \in Seq(Quiet) /\ Use(m, Values) \in Seq(Quiet)
      /\ Use(m, {v}) \in Seq(Quiet) /\ Peek(m) \in Seq(Quiet)
    <2>1. [op |-> "probe"] \in Quiet /\ Values \in SUBSET Values /\ {v} \in SUBSET Values
        BY DEF Quiet
    <2>2. PICK file \in Files : TRUE
        BY RegistersAssumption
    <2> QED
        BY <2>1, <2>2, Basic
<1>2. /\ CheckIOBAuroraReady(m) \in Seq(Quiet) /\ Set(m) \o Use(m, {v}) \in Seq(Quiet)
      /\ LockSet(m) \o Use(m, Values) \in Seq(Quiet) /\ Set(m) \o Use(m, Values) \in Seq(Quiet)
    BY <1>1, Joined DEF CheckIOBAuroraReady
<1>3. GetIOBSpecialParams(m) \in Seq(Quiet)
    BY <1>1, <1>2, Joined DEF GetIOBSpecialParams
<1>4. /\ GetIOBSpecialParams(m) \o CheckIOBAuroraReady(m) \in Seq(Quiet)
      /\ (Set(m) \o Use(m, Values)) \o CheckIOBAuroraReady(m) \in Seq(Quiet)
    BY <1>2, <1>3, Joined
<1> QED
    BY <1>1, <1>2, <1>3, <1>4, Checks
    DEF SetActiveModule, ProgramJTAG, CheckIOBReady, ResetAurora

-----------------------------------------------------------------------------
(* The inductive invariant of RightModule: what is known at every point of a  *)
(* program, as long as no other thread has disturbed the one that runs it     *)

Ends  == {<<>>, UseAny}
Rests == Ends \cup {<<i>> \o e : i \in PlainLoop, e \in Ends} \cup {<<i>> : i \in EntryLoop}

\* What needs no module to be active.
After == Rests \cup {CheckIOBAuroraReady(m) \o r : m \in Modules, r \in Rests}

\* What comes after an entry: the loop that it is one of.
EntryEnds(m, v) ==
    {Use(m, {v}) \o <<i>> : i \in {j \in EntryLoop : m \notin j.todo /\ j.hash[m] = v}}

\* What comes after a value has been written.
SelEnds(m, v) == {<<>>, Check(m, Set(m) \o Use(m, {v}))}
PutEnds(m, v) == SelEnds(m, v) \cup {Use(m, {v})}

\* The values an instruction's sense depends on.
View(t) == [sure |-> t \notin disturbed \cup misled, own |-> own[t], fetched |-> fetched[t],
            regs |-> regs, available |-> available]

Written(k, m, v) == k.own.wrote = m /\ m \in Modules /\ k.regs[m] = v

\* After `m` has been made active; `sure` of what was written to it.
SetTail(k, m, q, sure) ==
    \/ \E a \in After : q = Use(m, Values) \o a
    \/ \E a \in After : q = Use(m, Values) \o (Peek(m) \o a)
    \/ \E v \in Values : q = Use(m, {v}) /\ (sure => Written(k, m, v))
    \/ \E v \in Values : \E e \in SelEnds(m, v) \cup {Use(m, {v})} :
          q = Fetch \o (Put(m, v) \o e)
    \/ \E v \in Values : \E e \in EntryEnds(m, v) :
          q = Entry(m, v) \o e /\ k.fetched \in Modules

\* Where it has not been made active, as there is no IOB.
SkipTail(k, m, q) ==
    \/ \E v \in Values : \E e \in SelEnds(m, v) : q = Fetch \o (Put(m, v) \o e)
    \/ \E v \in Values : \E e \in EntryEnds(m, v) :
          q = Entry(m, v) \o e /\ k.fetched \in Modules
    \/ q \in Rests

\* If there is an IOB, its module is made active; if not, that is left out.
CheckTail(k, m, skip, q) ==
    /\ q # <<>>
    /\ Head(q) = [op |-> "set", module |-> m, locked |-> FALSE]
    /\ SetTail(k, m, Tail(q), k.sure /\ m \in k.available)
    /\ SkipTail(k, m, SubSeq(q, skip + 1, Len(q)))

\* What is to be written to the registers of `on`, if that is certain: those of
\* `m`, or those of no module in particular.
PutTail(k, m, v, e, on) ==
    \/ m = None /\ \E n \in Modules : e = ProgramJTAG(n)
    \/ /\ m \in Modules /\ e \in PutEnds(m, v)
       /\ k.sure => \/ on = m /\ k.own.at = m
                    \/ e \in SelEnds(m, v) /\ m \notin k.available

FetchTail(k, q) ==
    \/ \E m \in Modules, v \in Values : q = Put(None, v) \o ProgramJTAG(m)
    \/ \E m \in Modules, v \in Values : \E e \in PutEnds(m, v) :
          q = Put(m, v) \o e /\ PutTail(k, m, v, e, k.own.at)
    \/ \E m \in Modules, v \in Values : \E e \in EntryEnds(m, v) :
          q = Check(m, Set(m)) \o (Entry(m, v) \o e)

\* A module that is meant is the one made active, with what was written to it.
Meant(k, i) ==
    /\ i.module = None => i.values = Values
    /\ k.sure /\ i.module # None =>
          /\ k.own.at = i.module
          /\ i.values = Values \/ \E v \in i.values : Written(k, i.module, v)

\* The instruction, and what comes after it.
Stage(k, i, q) ==
    /\ i.op = "set"     => SetTail(k, i.module, q, k.sure)
    /\ i.op = "check"   => CheckTail(k, i.module, i.skip, q)
    /\ i.op = "fetch"   => FetchTail(k, q)
    /\ i.op = "put"     => k.fetched \in Modules /\ PutTail(k, i.module, i.value, q, k.fetched)
    /\ i.op = "entry"   => /\ k.fetched \in Modules /\ q \in EntryEnds(i.module, i.value)
                           /\ k.sure /\ i.module \in k.available => k.own.at = i.module
    /\ i.op = "use"     => /\ Meant(k, i)
                           /\ q \in After \/ \E a \in After : /\ q = Peek(i.module) \o a
                                                              /\ i.module \in Modules
    /\ i.op = "peek"    => Meant(k, i) /\ q \in After
    /\ i.op = "probe"   => q \in {For("ready", Modules) \o e : e \in Ends}
    /\ i.op = "load"    => q = UseAny
    /\ i.op = "compare" => q = <<>>
    /\ i.op = "show"    => q \in Rests
    /\ i.op = "for"     => q \in Ends /\ (i \in EntryLoop => q = <<>>)

Staged(k, p) == p # <<>> => Stage(k, Head(p), Tail(p))

StageInv ==
    /\ \A t \in Thread : Staged(View(t), prog[t])
    /\ \A t \in Thread \ disturbed : own[t].at \in {None, active}

Programs ==
    /\ prog \in [Thread -> Seq(Instruction)]
    /\ \A t \in Thread \ {"slot"} : prog[t] \in Seq(Quiet)

-----------------------------------------------------------------------------
(* The inductive invariant of BaselineTrue: which entries are still to be     *)
(* written where updateConfigFromHash is                                      *)

\* The modules that count.
Followed == Modules \ (loose \cup misfiled)

\* The registers hold the new values of all modules but those of `todo`.
Reached(hash, todo) ==
    \A m \in Followed : regs[m] = IF m \in todo THEN last[m] ELSE hash[m]

Entering(m, v, i) ==
    LET rest == Entry(m, v) \o (Use(m, {v}) \o <<i>>)
    IN  {Fetch \o (Check(m, Set(m)) \o rest), Check(m, Set(m)) \o rest, Set(m) \o rest, rest}

BaseInv ==
    \/ /\ prog["slot"] \in Seq(Quiet) \/ \E c \in [op : {"compare"}] : prog["slot"] = <<c>>
       /\ Reached(regs, Modules)
    \/ \E i \in EntryLoop : prog["slot"] = <<i>> /\ Reached(i.hash, i.todo)
    \/ \E i \in EntryLoop, m \in Modules :
          /\ m \notin i.todo
          /\ prog["slot"] = Use(m, {i.hash[m]}) \o <<i>> /\ Reached(i.hash, i.todo)
    \/ \E i \in EntryLoop, m \in Modules :
          /\ m \notin i.todo
          /\ prog["slot"] \in Entering(m, i.hash[m], i)
          /\ Reached(i.hash, i.todo \cup {m})

-----------------------------------------------------------------------------
(* Where a program begins with a given instruction *)

LEMMA RestsOf ==
    /\ \A r : r \in Rests <=> \/ r \in Ends
                              \/ \E i \in PlainLoop, e \in Ends : r = <<i>> \o e
                              \/ \E i \in EntryLoop : r = <<i>>
    /\ \A a : a \in After <=> \/ a \in Rests
                              \/ \E m \in Modules, r \in Rests : a = CheckIOBAuroraReady(m) \o r
<1>1. ASSUME NEW r
      PROVE  r \in Rests <=> \/ r \in Ends
                             \/ \E i \in PlainLoop, e \in Ends : r = <<i>> \o e
                             \/ \E i \in EntryLoop : r = <<i>>
    BY SMT DEF Rests
<1>2. ASSUME NEW a
      PROVE  a \in After <=> \/ a \in Rests
                             \/ \E m \in Modules, r \in Rests : a = CheckIOBAuroraReady(m) \o r
    BY SMT DEF After
<1> QED
    BY <1>1, <1>2

LEMMA RestsAre ==
    /\ Ends \subseteq Seq(Quiet) /\ Rests \subseteq Seq(Instruction)
    /\ After \subseteq Seq(Instruction)
    /\ \A m \in Modules, v \in Values :
          /\ EntryEnds(m, v) \subseteq Seq(Instruction)
          /\ PutEnds(m, v) \subseteq Seq(Quiet) /\ SelEnds(m, v) \subseteq Seq(Quiet)
<1>1. <<>> \in Seq(Quiet) /\ UseAny \in Seq(Quiet)
    <2>1. [op |-> "use", module |-> None, values |-> Values] \in Quiet
        BY DEF Quiet
    <2> QED
        BY <2>1, Alone, EmptySeq DEF UseAny, Use
<1>2. Ends \subseteq Seq(Quiet)
    BY <1>1 DEF Ends
<1>3. ASSUME NEW r \in Rests PROVE r \in Seq(Instruction)
    <2>1. CASE r \in Ends
        BY <1>2, <2>1, QuietIs
    <2>2. ASSUME NEW i \in PlainLoop, NEW e \in Ends, r = <<i>> \o e PROVE r \in Seq(Quiet)
        BY <1>2, <2>2, Cons DEF Quiet
    <2>3. ASSUME NEW i \in EntryLoop, r = <<i>> PROVE r \in Seq(Instruction)
        BY <2>3, Alone DEF Instruction
    <2>4. r \in Seq(Quiet) => r \in Seq(Instruction)
        BY QuietIs
    <2> QED
        BY <1>3, <2>1, <2>2, <2>3, <2>4, RestsOf
<1>4. ASSUME NEW m \in Modules, NEW r \in Rests
      PROVE  CheckIOBAuroraReady(m) \o r \in Seq(Instruction)
    <2>1. CheckIOBAuroraReady(m) \in Seq(Instruction)
        <3>1. PICK v \in Values : TRUE
            BY RegistersAssumption
        <3> QED
            BY <3>1, Operations, QuietIs
    <2> QED
        BY <1>3, <2>1, Joined
<1>5. After \subseteq Seq(Instruction)
    BY <1>3, <1>4, RestsOf
<1>6. ASSUME NEW m \in Modules, NEW v \in Values
      PROVE  EntryEnds(m, v) \subseteq Seq(Instruction)
    <2>1. ASSUME NEW i \in EntryLoop PROVE Use(m, {v}) \o <<i>> \in Seq(Instruction)
        <3>1. [op |-> "use", module |-> m, values |-> {v}] \in Quiet
            BY DEF Quiet
        <3>2. Use(m, {v}) \in Seq(Instruction) /\ <<i>> \in Seq(Instruction)
            BY <3>1, Alone DEF Use, Instruction
        <3> QED
            BY <3>2, Joined
    <2> QED
        BY <2>1 DEF EntryEnds
<1>7. ASSUME NEW m \in Modules, NEW v \in Values
      PROVE  PutEnds(m, v) \subseteq Seq(Quiet) /\ SelEnds(m, v) \subseteq Seq(Quiet)
    <2>1. [op |-> "use", module |-> m, values |-> {v}] \in Quiet
        BY DEF Quiet
    <2>2. Use(m, {v}) \in Seq(Quiet)
        BY <2>1, Alone DEF Use
    <2> QED
        BY <1>1, <2>2, Operations DEF PutEnds, SelEnds
<1> QED
    BY <1>2, <1>3, <1>5, <1>6, <1>7

LEMMA AtSet ==
    ASSUME NEW k, NEW m \in Modules, NEW q \in Seq(Instruction), SetTail(k, m, q, k.sure)
    PROVE  Staged(k, Set(m) \o q) /\ Staged(k, LockSet(m) \o q)
<1>1. ASSUME NEW b \in BOOLEAN
      PROVE  Staged(k, <<[op |-> "set", module |-> m, locked |-> b]>> \o q)
    <2> DEFINE i == [op |-> "set", module |-> m, locked |-> b]
    <2>1. i \in Instruction /\ i.op = "set" /\ i.module = m
        BY DEF Instruction, Quiet
    <2> HIDE DEF i
    <2>2. Head(<<i>> \o q) = i /\ Tail(<<i>> \o q) = q
        BY <2>1, Cons
    <2>3. Stage(k, i, q)
        BY <2>1 DEF Stage
    <2> QED
        BY <2>2, <2>3 DEF Staged, i
<1> QED
    BY <1>1 DEF Set, LockSet

LEMMA AtFetch ==
    ASSUME NEW k, NEW q \in Seq(Instruction), FetchTail(k, q)
    PROVE  Staged(k, Fetch \o q)
<1> DEFINE i == [op |-> "fetch"]
<1>1. i \in Instruction /\ i.op = "fetch"
    BY DEF Instruction, Quiet
<1> HIDE DEF i
<1>2. Head(<<i>> \o q) = i /\ Tail(<<i>> \o q) = q
    BY <1>1, Cons
<1>3. Stage(k, i, q)
    BY <1>1 DEF Stage
<1> QED
    BY <1>2, <1>3 DEF Staged, Fetch, i

LEMMA AtPut ==
    ASSUME NEW k, NEW m \in Modules \cup {None}, NEW v \in Values, NEW q \in Seq(Instruction),
           k.fetched \in Modules, PutTail(k, m, v, q, k.fetched)
    PROVE  Staged(k, Put(m, v) \o q)
<1> DEFINE i == [op |-> "put", module |-> m, value |-> v]
<1>1. i \in Instruction /\ i.op = "put" /\ i.module = m /\ i.value = v
    BY DEF Instruction, Quiet
<1> HIDE DEF i
<1>2. Head(<<i>> \o q) = i /\ Tail(<<i>> \o q) = q
    BY <1>1, Cons
<1>3. Stage(k, i, q)
    BY <1>1 DEF Stage
<1> QED
    BY <1>2, <1>3 DEF Staged, Put, i

LEMMA AtEntry ==
    ASSUME NEW k, NEW m \in Modules, NEW v \in Values, NEW q \in EntryEnds(m, v),
           k.fetched \in Modules, k.sure /\ m \in k.available => k.own.at = m
    PROVE  Staged(k, Entry(m, v) \o q)
<1> DEFINE i == [op |-> "entry", module |-> m, value |-> v]
<1>1. i \in Instruction /\ i.op = "entry" /\ i.module = m /\ i.value = v
    BY DEF Instruction, EntryPut
<1>0. q \in Seq(Instruction)
    BY RestsAre
<1> HIDE DEF i
<1>2. Head(<<i>> \o q) = i /\ Tail(<<i>> \o q) = q
    BY <1>0, <1>1, Cons
<1>3. Stage(k, i, q)
    BY <1>1 DEF Stage
<1> QED
    BY <1>2, <1>3 DEF Staged, Entry, i

LEMMA AtUse ==
    ASSUME NEW k, NEW m \in Modules \cup {None}, NEW vs \in SUBSET Values,
           NEW q \in Seq(Instruction), Meant(k, [op |-> "use", module |-> m, values |-> vs]),
           q \in After \/ \E a \in After : q = Peek(m) \o a /\ m \in Modules
    PROVE  Staged(k, Use(m, vs) \o q)
<1> DEFINE i == [op |-> "use", module |-> m, values |-> vs]
<1>1. i \in Instruction /\ i.op = "use" /\ i.module = m
    BY DEF Instruction, Quiet
<1> HIDE DEF i
<1>2. Head(<<i>> \o q) = i /\ Tail(<<i>> \o q) = q
    BY <1>1, Cons
<1>3. Meant(k, i)
    BY DEF i
<1>4. Stage(k, i, q)
    BY <1>1, <1>3 DEF Stage
<1> QED
    BY <1>2, <1>4 DEF Staged, Use, i

LEMMA AtPeek ==
    ASSUME NEW k, NEW m \in Modules, NEW q \in After,
           Meant(k, [op |-> "peek", module |-> m, values |-> Values])
    PROVE  Staged(k, Peek(m) \o q)
<1> DEFINE i == [op |-> "peek", module |-> m, values |-> Values]
<1>1. i \in Instruction /\ i.op = "peek"
    BY DEF Instruction, Quiet
<1> HIDE DEF i
<1>2. Head(<<i>> \o q) = i /\ Tail(<<i>> \o q) = q
    BY <1>1, Cons, RestsAre
<1>3. Meant(k, i)
    BY DEF i
<1>4. Stage(k, i, q)
    BY <1>1, <1>3 DEF Stage
<1> QED
    BY <1>2, <1>4 DEF Staged, Peek, i

\* A check that `b` is left out after, and `r` not.
LEMMA AtCheck ==
    ASSUME NEW k, NEW m \in Modules, NEW b \in Seq(Instruction), NEW r \in Seq(Instruction),
           SetTail(k, m, b \o r, k.sure /\ m \in k.available), SkipTail(k, m, r)
    PROVE  /\ Staged(k, Check(m, Set(m) \o b) \o r)
           /\ Check(m, Set(m) \o b) \o r \in Seq(Instruction)
<1> DEFINE s == Set(m) \o b
           q == Set(m) \o (b \o r)
           i == [op |-> "check", module |-> m, skip |-> Len(s)]
           x == [op |-> "set", module |-> m, locked |-> FALSE]
<1>1. x \in Instruction /\ Set(m) = <<x>> /\ Set(m) \in Seq(Instruction)
    BY Alone DEF Set, Instruction, Quiet
<1>2. s \in Seq(Instruction) /\ b \o r \in Seq(Instruction) /\ Len(s) \in Nat
    BY <1>1, Joined, LenProperties
<1>3. q = s \o r
    BY <1>1, Regroup
<1>4. q \in Seq(Instruction) /\ q # <<>> /\ Head(q) = x /\ Tail(q) = b \o r
    BY <1>1, <1>2, Cons
<1>5. SubSeq(q, Len(s) + 1, Len(q)) = r
    BY <1>2, <1>3, Skipped
<1>6. i \in Instruction /\ i.op = "check" /\ i.module = m /\ i.skip = Len(s)
    BY <1>2 DEF Instruction, Quiet
<1> HIDE DEF s, q, i
<1>7. CheckTail(k, m, Len(s), q)
    BY <1>4, <1>5 DEF CheckTail
<1>8. Stage(k, i, q)
    BY <1>6, <1>7 DEF Stage
<1>9. Check(m, s) \o r = <<i>> \o q
    <2>1. <<i>> \in Seq(Instruction) /\ Check(m, s) = <<i>> \o s
        BY <1>6, Alone DEF Check, i
    <2>2. (<<i>> \o s) \o r = <<i>> \o (s \o r)
        BY <1>2, <2>1, Regroup
    <2> QED
        BY <1>3, <2>1, <2>2
<1>10. Head(<<i>> \o q) = i /\ Tail(<<i>> \o q) = q /\ <<i>> \o q \in Seq(Instruction)
    BY <1>4, <1>6, Cons
<1> QED
    BY <1>8, <1>9, <1>10 DEF Staged, s

\* The end of what is done with a module.
LEMMA AtRests ==
    ASSUME NEW k, NEW q \in Rests
    PROVE  Staged(k, q)
<1>1. CASE q = <<>>
    BY <1>1 DEF Staged
<1>2. CASE q = UseAny
    <2>1. <<>> \in After /\ <<>> \in Seq(Instruction) /\ Values \in SUBSET Values
        BY EmptySeq DEF After, Rests, Ends
    <2>2. Meant(k, [op |-> "use", module |-> None, values |-> Values])
        BY DEF Meant
    <2>3. Staged(k, Use(None, Values) \o <<>>)
        BY <2>1, <2>2, AtUse
    <2>4. Use(None, Values) \o <<>> = UseAny
        BY Alone DEF Use, UseAny
    <2> QED
        BY <1>2, <2>3, <2>4
<1>3. ASSUME NEW i \in PlainLoop, NEW e \in Ends, q = <<i>> \o e
      PROVE  Staged(k, q)
    <2>1. i \in Instruction /\ i.op = "for" /\ i \notin EntryLoop /\ e \in Seq(Instruction)
        BY LoopFields, RestsAre, QuietIs DEF Instruction, PlainLoop, EntryLoop
    <2>2. Head(q) = i /\ Tail(q) = e
        BY <1>3, <2>1, Cons
    <2>3. Stage(k, i, e)
        BY <2>1 DEF Stage
    <2> QED
        BY <2>2, <2>3 DEF Staged
<1>4. ASSUME NEW i \in EntryLoop, q = <<i>>
      PROVE  Staged(k, q)
    <2>1. i \in Instruction /\ i.op = "for" /\ <<>> \in Ends
        BY LoopFields DEF Instruction, Ends
    <2>2. Head(q) = i /\ Tail(q) = <<>>
        BY <1>4, Alone
    <2>3. Stage(k, i, <<>>)
        BY <2>1 DEF Stage
    <2> QED
        BY <2>2, <2>3 DEF Staged
<1> QED
    BY <1>1, <1>2, <1>3, <1>4, RestsOf DEF Ends

LEMMA AtAfter ==
    ASSUME NEW k, NEW q \in After
    PROVE  Staged(k, q)
<1>1. ASSUME NEW m \in Modules, NEW r \in Rests, q = CheckIOBAuroraReady(m) \o r
      PROVE  Staged(k, q)
    <2>1. Values \in SUBSET Values /\ r \in After /\ r \in Seq(Instruction)
        BY RestsAre DEF After
    <2>2. Set(m) \in Seq(Instruction) /\ Use(m, Values) \in Seq(Instruction)
        BY Alone DEF Set, Use, Instruction, Quiet
    <2>3. Use(m, Values) \o r \in Seq(Instruction)
        BY <2>1, <2>2, Joined
    <2>4. q = Set(m) \o (Use(m, Values) \o r)
        BY <1>1, <2>1, <2>2, Regroup DEF CheckIOBAuroraReady
    <2>5. SetTail(k, m, Use(m, Values) \o r, k.sure)
        BY <2>1 DEF SetTail
    <2> QED
        BY <2>3, <2>4, <2>5, AtSet
<1> QED
    BY <1>1, AtRests, RestsOf

-----------------------------------------------------------------------------
(* Where a program is after a step: `k` is known before it and `j` after it *)

\* What another thread does that disturbs no one changes nothing.
LEMMA Undisturbed ==
    ASSUME NEW k, NEW j, NEW p, Staged(k, p), j.own = k.own, j.fetched = k.fetched,
           j.sure => /\ k.sure
                     /\ p # <<>> => j.available = k.available
                     /\ k.own.wrote \in Modules => j.regs[k.own.wrote] = k.regs[k.own.wrote]
    PROVE  Staged(j, p)
<1> SUFFICES ASSUME p # <<>> PROVE Staged(j, p)
    BY DEF Staged
<1> DEFINE i == Head(p)
           q == Tail(p)
<1>1. Stage(k, i, q)
    BY DEF Staged
<1>2. \A m, v : j.sure /\ Written(k, m, v) => Written(j, m, v)
    BY DEF Written
<1>3. \A m, r : SkipTail(k, m, r) => SkipTail(j, m, r)
    BY DEF SkipTail
<1>4. \A m, r : SetTail(k, m, r, k.sure) => SetTail(j, m, r, j.sure)
    BY <1>2 DEF SetTail
<1>5. \A m, r : SetTail(k, m, r, k.sure /\ m \in k.available)
                => SetTail(j, m, r, j.sure /\ m \in j.available)
    BY <1>2 DEF SetTail
<1>6. \A m, n, r : CheckTail(k, m, n, r) => CheckTail(j, m, n, r)
    BY <1>3, <1>5 DEF CheckTail
<1>7. \A m, v, e, on : PutTail(k, m, v, e, on) => PutTail(j, m, v, e, on)
    BY DEF PutTail
<1>8. \A r : FetchTail(k, r) => FetchTail(j, r)
    BY <1>7 DEF FetchTail
<1>9. Meant(k, i) => Meant(j, i)
    BY <1>2 DEF Meant
<1>11. \A m : j.sure /\ m \in j.available => k.sure /\ m \in k.available
    OBVIOUS
<1> HIDE DEF i, q
<1>10. Stage(j, i, q)
    BY <1>1, <1>4, <1>6, <1>7, <1>8, <1>9, <1>11 DEF Stage
<1> QED
    BY <1>10 DEF Staged, i, q

LEMMA AfterSet ==
    ASSUME NEW k, NEW j, NEW m \in Modules, NEW q \in Seq(Instruction),
           SetTail(k, m, q, k.sure), j.sure = k.sure, j.regs = k.regs,
           j.fetched = k.fetched, q # <<>> => j.own.at = m /\ j.own.wrote = k.own.wrote
    PROVE  Staged(j, q)
<1> SUFFICES ASSUME q # <<>> PROVE Staged(j, q)
    BY DEF Staged
<1>1. \A v : Written(k, m, v) => Written(j, m, v)
    BY DEF Written
<1>2. m # None /\ m \in Modules \cup {None} /\ Values \in SUBSET Values
    BY RegistersAssumption
<1>3. Meant(j, [op |-> "use", module |-> m, values |-> Values])
    BY <1>2 DEF Meant
<1>4. ASSUME NEW a \in After, q = Use(m, Values) \o a PROVE Staged(j, q)
    BY <1>2, <1>3, <1>4, AtUse, RestsAre
<1>5. ASSUME NEW a \in After, q = Use(m, Values) \o (Peek(m) \o a) PROVE Staged(j, q)
    <2>1. Peek(m) \o a \in Seq(Instruction)
        <3>1. Peek(m) \in Seq(Instruction)
            BY Alone DEF Peek, Instruction, Quiet
        <3> QED
            BY <3>1, Joined, RestsAre
    <2> QED
        BY <1>2, <1>3, <1>5, <2>1, AtUse
<1>6. ASSUME NEW v \in Values, q = Use(m, {v}), k.sure => Written(k, m, v)
      PROVE  Staged(j, q)
    <2>1. Meant(j, [op |-> "use", module |-> m, values |-> {v}])
        BY <1>1, <1>2, <1>6 DEF Meant
    <2>2. <<>> \in After /\ <<>> \in Seq(Instruction) /\ {v} \in SUBSET Values
        BY EmptySeq DEF After, Rests, Ends
    <2>3. Use(m, {v}) \o <<>> = q
        BY <1>6, Alone DEF Use
    <2>4. Staged(j, Use(m, {v}) \o <<>>)
        BY <1>2, <2>1, <2>2, AtUse
    <2> QED
        BY <2>3, <2>4
<1>7. ASSUME NEW v \in Values, NEW e \in SelEnds(m, v) \cup {Use(m, {v})},
             q = Fetch \o (Put(m, v) \o e)
      PROVE  Staged(j, q)
    <2>1. e \in PutEnds(m, v) /\ PutTail(j, m, v, e, j.own.at)
        BY DEF PutEnds, PutTail
    <2>2. FetchTail(j, Put(m, v) \o e)
        BY <2>1 DEF FetchTail
    <2>3. Put(m, v) \o e \in Seq(Instruction)
        <3>1. Put(m, v) \in Seq(Instruction)
            BY Alone DEF Put, Instruction, Quiet
        <3> QED
            BY <2>1, <3>1, Joined, RestsAre, QuietIs
    <2> QED
        BY <1>7, <2>2, <2>3, AtFetch
<1>8. ASSUME NEW v \in Values, NEW e \in EntryEnds(m, v), q = Entry(m, v) \o e,
             k.fetched \in Modules
      PROVE  Staged(j, q)
    BY <1>8, AtEntry
<1> QED
    BY <1>4, <1>5, <1>6, <1>7, <1>8 DEF SetTail

LEMMA AfterSkip ==
    ASSUME NEW k, NEW j, NEW m \in Modules, NEW q,
           SkipTail(k, m, q), m \notin j.available, j.fetched = k.fetched
    PROVE  Staged(j, q)
<1>1. ASSUME NEW v \in Values, NEW e \in SelEnds(m, v), q = Fetch \o (Put(m, v) \o e)
      PROVE  Staged(j, q)
    <2>1. PutTail(j, m, v, e, j.own.at) /\ e \in PutEnds(m, v)
        BY DEF PutEnds, PutTail
    <2>2. FetchTail(j, Put(m, v) \o e)
        BY <2>1 DEF FetchTail
    <2>3. Put(m, v) \o e \in Seq(Instruction)
        <3>1. Put(m, v) \in Seq(Instruction)
            BY Alone DEF Put, Instruction, Quiet
        <3> QED
            BY <2>1, <3>1, Joined, RestsAre, QuietIs
    <2> QED
        BY <1>1, <2>2, <2>3, AtFetch
<1>2. ASSUME NEW v \in Values, NEW e \in EntryEnds(m, v), q = Entry(m, v) \o e,
             k.fetched \in Modules
      PROVE  Staged(j, q)
    BY <1>2, AtEntry
<1> QED
    BY <1>1, <1>2, AtRests DEF SkipTail

\* `on` is the active module.
LEMMA AfterFetch ==
    ASSUME NEW k, NEW j, NEW q, NEW on \in Modules, FetchTail(k, q),
           j.sure = k.sure, j.own = k.own, j.available = k.available, j.fetched = on,
           k.sure => k.own.at \in {None, on}
    PROVE  Staged(j, q)
<1>1. ASSUME NEW m \in Modules, NEW v \in Values, NEW e \in PutEnds(m, v),
             q = Put(m, v) \o e, PutTail(k, m, v, e, k.own.at)
      PROVE  Staged(j, q)
    <2>1. PutTail(j, m, v, e, on)
        BY <1>1, RegistersAssumption DEF PutTail
    <2> QED
        BY <1>1, <2>1, AtPut, RestsAre, QuietIs
<1>3. ASSUME NEW m \in Modules, NEW v \in Values, q = Put(None, v) \o ProgramJTAG(m)
      PROVE  Staged(j, q)
    <2>1. PutTail(j, None, v, ProgramJTAG(m), on)
        BY DEF PutTail
    <2>2. ProgramJTAG(m) \in Seq(Instruction)
        BY Operations, QuietIs
    <2> QED
        BY <1>3, <2>1, <2>2, AtPut
<1>2. ASSUME NEW m \in Modules, NEW v \in Values, NEW e \in EntryEnds(m, v),
             q = Check(m, Set(m)) \o (Entry(m, v) \o e)
      PROVE  Staged(j, q)
    <2> DEFINE r == Entry(m, v) \o e
    <2>1. r \in Seq(Instruction) /\ Set(m) \in Seq(Instruction) /\ <<>> \in Seq(Instruction)
        <3>1. Entry(m, v) \in Seq(Instruction) /\ Set(m) \in Seq(Instruction)
            BY Alone DEF Entry, Set, Instruction, Quiet, EntryPut
        <3> QED
            BY <3>1, Joined, RestsAre, EmptySeq
    <2>2. <<>> \o r = r /\ Set(m) \o <<>> = Set(m)
        BY <2>1, ConcatEmptySeq
    <2>3. SetTail(j, m, r, j.sure /\ m \in j.available) /\ SkipTail(j, m, r)
        BY DEF SetTail, SkipTail
    <2> HIDE DEF r
    <2>4. Staged(j, Check(m, Set(m) \o <<>>) \o r)
        BY <2>1, <2>2, <2>3, AtCheck
    <2> QED
        BY <1>2, <2>2, <2>4 DEF r
<1> QED
    BY <1>1, <1>2, <1>3 DEF FetchTail

LEMMA AfterPut ==
    ASSUME NEW k, NEW j, NEW m \in Modules \cup {None}, NEW v \in Values, NEW q,
           k.fetched \in Modules, PutTail(k, m, v, q, k.fetched),
           j.sure = k.sure, j.available = k.available, j.regs[k.fetched] = v,
           q # <<>> => j.own.at = k.own.at /\ j.own.wrote = k.fetched
    PROVE  Staged(j, q)
<1>1. CASE q = <<>>
    BY <1>1 DEF Staged
<1>2. ASSUME q # <<>>, NEW n \in Modules, NEW vs \in {Values, {v}},
             q = Check(n, Set(n) \o Use(n, vs)),
             j.sure /\ n \in j.available => vs = Values \/ Written(j, n, v)
      PROVE  Staged(j, q)
    <2> DEFINE b == Use(n, vs)
    <2>1. b \in Seq(Instruction) /\ <<>> \in Seq(Instruction) /\ <<>> \in After
        BY Alone, EmptySeq DEF Use, Instruction, Quiet, After, Rests, Ends
    <2>2. b \o <<>> = b
        BY <2>1, ConcatEmptySeq
    <2>3. SetTail(j, n, b, j.sure /\ n \in j.available)
        BY <1>2, <2>1, <2>2 DEF SetTail
    <2>4. SkipTail(j, n, <<>>)
        BY DEF SkipTail, Rests, Ends
    <2> HIDE DEF b
    <2>5. /\ Staged(j, Check(n, Set(n) \o b) \o <<>>)
          /\ Check(n, Set(n) \o b) \o <<>> \in Seq(Instruction)
        BY <2>1, <2>2, <2>3, <2>4, AtCheck
    <2>6. Check(n, Set(n) \o b) \o <<>> = q
        <3>1. Set(n) \o b \in Seq(Instruction)
            BY <2>1, Alone, Joined DEF Set, Instruction, Quiet
        <3>2. Check(n, Set(n) \o b) \in Seq(Instruction)
            BY <3>1, Checks DEF Instruction
        <3> QED
            BY <1>2, <3>2, ConcatEmptySeq DEF b
    <2> QED
        BY <2>5, <2>6
<1>3. ASSUME NEW n \in Modules, q = ProgramJTAG(n) PROVE Staged(j, q)
    BY <1>1, <1>2, <1>3 DEF ProgramJTAG
<1>4. CASE m \in Modules /\ q = Check(m, Set(m) \o Use(m, {v})) /\ q # <<>>
    <2>1. j.sure => k.fetched = m \/ m \notin j.available
        BY <1>4, RegistersAssumption DEF PutTail
    <2>2. j.sure /\ m \in j.available => Written(j, m, v)
        BY <1>4, <2>1 DEF Written
    <2> QED
        BY <1>2, <1>4, <2>2
<1>5. CASE m \in Modules /\ q = Use(m, {v})
    <2>1. q # <<>> /\ Head(q).op = "use"
        BY <1>5 DEF Use
    <2>2. \A b \in Seq(Quiet) : Head(Check(m, b)).op = "check"
        <3>1. ASSUME NEW b \in Seq(Quiet) PROVE Head(Check(m, b)).op = "check"
            <4>1. [op |-> "check", module |-> m, skip |-> Len(b)] \in Quiet
                BY <1>5, LenProperties DEF Quiet
            <4> QED
                BY <4>1, Cons DEF Check
        <3> QED
            BY <3>1
    <2>3. q \notin SelEnds(m, v)
        <3>1. Set(m) \o Use(m, {v}) \in Seq(Quiet)
            BY <1>5, Operations
        <3> QED
            BY <2>1, <2>2, <3>1 DEF SelEnds
    <2>4. k.sure => k.fetched = m /\ k.own.at = m
        BY <1>5, <2>3, RegistersAssumption DEF PutTail
    <2>5. Meant(j, [op |-> "use", module |-> m, values |-> {v}])
        BY <1>5, <2>1, <2>4, RegistersAssumption DEF Meant, Written
    <2>6. <<>> \in After /\ <<>> \in Seq(Instruction) /\ {v} \in SUBSET Values
        BY EmptySeq DEF After, Rests, Ends
    <2>7. Use(m, {v}) \o <<>> = q
        BY <1>5, Alone DEF Use
    <2>8. Staged(j, Use(m, {v}) \o <<>>)
        BY <2>5, <2>6, AtUse
    <2> QED
        BY <2>7, <2>8
<1> QED
    BY <1>1, <1>3, <1>4, <1>5 DEF PutTail, PutEnds, SelEnds

LEMMA AfterUse ==
    ASSUME NEW k, NEW j, NEW i \in Instruction, i.op \in {"use", "peek"}, NEW q,
           Stage(k, i, q), q # <<>> => j.own = k.own /\ j.sure = k.sure
    PROVE  Staged(j, q)
<1> SUFFICES ASSUME q # <<>> PROVE Staged(j, q)
    BY DEF Staged
<1>1. Meant(k, i) /\ (q \in After \/ \E a \in After : q = Peek(i.module) \o a /\ i.module \in Modules)
    BY DEF Stage
<1>2. ASSUME NEW a \in After, q = Peek(i.module) \o a, i.module \in Modules
      PROVE  Staged(j, q)
    <2>1. j.sure => j.own.at = i.module
        BY <1>1, <1>2, RegistersAssumption DEF Meant
    <2>2. Meant(j, [op |-> "peek", module |-> i.module, values |-> Values])
        BY <1>2, <2>1, RegistersAssumption DEF Meant
    <2> QED
        BY <1>2, <2>2, AtPeek
<1> QED
    BY <1>1, <1>2, AtAfter

LEMMA Nest ==
    ASSUME NEW p \in Seq(Instruction), NEW q \in Seq(Instruction), NEW r \in Seq(Instruction)
    PROVE  (p \o q) \o r = p \o (q \o r)
BY Regroup

\* The rest of the loop, after a turn of it.
LEMMA LoopLeft ==
    ASSUME NEW i \in PlainLoop \cup EntryLoop, NEW q \in Ends, i \in EntryLoop => q = <<>>
    PROVE  <<i>> \o q \in Rests /\ (i \in PlainLoop => <<i>> \o q \in Seq(Quiet))
<1>1. ASSUME i \in PlainLoop PROVE <<i>> \o q \in Rests /\ <<i>> \o q \in Seq(Quiet)
    <2>1. q \in Seq(Quiet) /\ i \in Quiet
        BY <1>1, RestsAre DEF Quiet
    <2> QED
        BY <1>1, <2>1, Cons, RestsOf
<1>2. ASSUME i \in EntryLoop PROVE <<i>> \o q \in Rests
    BY <1>2, Alone, RestsOf
<1>3. i \in EntryLoop => i \notin PlainLoop
    BY DEF PlainLoop, EntryLoop
<1> QED
    BY <1>1, <1>2, <1>3

\* A turn of a loop over modules that writes nothing back.
LEMMA PlainTurn ==
    ASSUME NEW k, NEW i \in PlainLoop, NEW m \in Modules, NEW r \in Rests
    PROVE  /\ Staged(k, Item(i, m) \o r) /\ Item(i, m) \in Seq(Quiet)
           /\ Item(i, m) \o r \in Seq(Instruction)
<1>1. /\ Set(m) \in Seq(Instruction) /\ Use(m, Values) \in Seq(Instruction)
      /\ Peek(m) \in Seq(Instruction) /\ LockSet(m) \in Seq(Instruction)
      /\ r \in Seq(Instruction) /\ r \in After
    BY Alone, RestsAre DEF Set, Use, Peek, LockSet, Instruction, Quiet, After
<1>2. PICK v \in Values : TRUE
    BY RegistersAssumption
<1>3. /\ CheckIOBAuroraReady(m) \in Seq(Quiet) /\ CheckIOBReady(m) \in Seq(Quiet)
      /\ LockSet(m) \o Use(m, Values) \in Seq(Quiet)
    BY <1>2, Operations
<1>4. CheckIOBAuroraReady(m) \in Seq(Instruction) /\ CheckIOBReady(m) \in Seq(Instruction)
    BY <1>3, QuietIs
<1>5. CASE i.kind = "ready"
    <2> DEFINE c == CheckIOBAuroraReady(m)
               b == Use(m, Values) \o (Peek(m) \o c)
    <2>1. c \in Seq(Instruction) /\ Peek(m) \o c \in Seq(Instruction) /\ b \in Seq(Instruction)
        BY <1>1, <1>4, Joined
    <2>2. c \o r \in After /\ c \o r \in Seq(Instruction)
          /\ Peek(m) \o (c \o r) \in Seq(Instruction)
        BY <1>1, <1>4, Joined, RestsOf
    <2> HIDE DEF c
    <2>3. b \o r = Use(m, Values) \o (Peek(m) \o (c \o r))
        <3>1. /\ Use(m, Values) \in Seq(Instruction) /\ Peek(m) \in Seq(Instruction)
              /\ c \in Seq(Instruction) /\ r \in Seq(Instruction)
            BY <1>1, <2>1
        <3>2. Peek(m) \o c \in Seq(Instruction)
            BY <2>1
        <3>3. b \o r = Use(m, Values) \o ((Peek(m) \o c) \o r)
            BY <3>1, <3>2, Nest, SMTT(30)
        <3>4. (Peek(m) \o c) \o r = Peek(m) \o (c \o r)
            BY <3>1, Nest
        <3> QED
            BY <3>3, <3>4
    <2>4. SetTail(k, m, b \o r, k.sure /\ m \in k.available) /\ SkipTail(k, m, r)
        BY <2>2, <2>3 DEF SetTail, SkipTail
    <2>5. GetIOBSpecialParams(m) \o c = Set(m) \o b
        <3>1. /\ Set(m) \in Seq(Instruction) /\ Use(m, Values) \in Seq(Instruction)
              /\ Peek(m) \in Seq(Instruction) /\ c \in Seq(Instruction)
            BY <1>1, <2>1
        <3>2. Set(m) \o Use(m, Values) \in Seq(Instruction) /\ Peek(m) \o c \in Seq(Instruction)
            BY <3>1, Joined
        <3>3. ((Set(m) \o Use(m, Values)) \o Peek(m)) \o c
              = (Set(m) \o Use(m, Values)) \o (Peek(m) \o c)
            BY <3>1, <3>2, Nest, SMTT(30)
        <3>4. (Set(m) \o Use(m, Values)) \o (Peek(m) \o c) = Set(m) \o b
            BY <3>1, <3>2, Nest, SMTT(30)
        <3> QED
            BY <3>3, <3>4 DEF GetIOBSpecialParams
    <2>6. Item(i, m) = Check(m, Set(m) \o b) /\ Item(i, m) = CheckIOBReady(m)
        BY <1>5, <2>5 DEF Item, CheckIOBReady, c
    <2> HIDE DEF b
    <2>7. Staged(k, Check(m, Set(m) \o b) \o r) /\ Check(m, Set(m) \o b) \o r \in Seq(Instruction)
        BY <1>1, <2>1, <2>4, AtCheck
    <2> QED
        BY <1>3, <2>6, <2>7
<1>6. CASE i.kind = "failed"
    <2>1. Item(i, m) = LockSet(m) \o Use(m, Values)
        BY <1>6 DEF Item
    <2>2. Item(i, m) \o r = LockSet(m) \o (Use(m, Values) \o r)
        <3>1. /\ LockSet(m) \in Seq(Instruction) /\ Use(m, Values) \in Seq(Instruction)
              /\ r \in Seq(Instruction)
            BY <1>1
        <3>2. (LockSet(m) \o Use(m, Values)) \o r = LockSet(m) \o (Use(m, Values) \o r)
            BY <3>1, Nest
        <3> QED
            BY <2>1, <3>2
    <2>3. Use(m, Values) \o r \in Seq(Instruction)
        BY <1>1, Joined
    <2>4. SetTail(k, m, Use(m, Values) \o r, k.sure)
        BY <1>1 DEF SetTail
    <2>5. LockSet(m) \o (Use(m, Values) \o r) \in Seq(Instruction)
        BY <1>1, <2>3, Joined
    <2> QED
        BY <1>3, <2>1, <2>2, <2>3, <2>4, <2>5, AtSet
<1>7. CASE i.kind = "show"
    <2> DEFINE x == [op |-> "show", module |-> m]
    <2>1. x \in Quiet /\ x.op = "show" /\ x \in Instruction
        BY DEF Quiet, Instruction
    <2>2. Item(i, m) = <<x>>
        BY <1>7 DEF Item
    <2> HIDE DEF x
    <2>3. Head(<<x>> \o r) = x /\ Tail(<<x>> \o r) = r /\ <<x>> \o r \in Seq(Instruction)
        BY <1>1, <2>1, Cons
    <2>4. Stage(k, x, r)
        BY <2>1 DEF Stage
    <2> QED
        BY <2>1, <2>2, <2>3, <2>4, Alone DEF Staged
<1> QED
    BY <1>5, <1>6, <1>7, LoopFields

\* A turn of the loop that writes the entries back.
LEMMA EntryTurn ==
    ASSUME NEW k, NEW i, NEW j \in EntryLoop, NEW m \in Modules, m \notin j.todo,
           i \in EntryLoop, i.hash = j.hash
    PROVE  LET r == Entry(m, j.hash[m]) \o (Use(m, {j.hash[m]}) \o <<j>>)
           IN  /\ Item(i, m) \o <<j>> = Fetch \o (Check(m, Set(m)) \o r)
               /\ r \in Seq(Instruction) /\ Check(m, Set(m)) \o r \in Seq(Instruction)
               /\ Staged(k, Item(i, m) \o <<j>>)
               /\ Item(i, m) \o <<j>> \in Seq(Instruction)
<1> DEFINE v == j.hash[m]
           u == Use(m, {v})
           e == u \o <<j>>
           r == Entry(m, v) \o e
           c == Check(m, Set(m))
<1>1. v \in Values /\ i.kind = "entry" /\ j \in Instruction
    BY LoopFields DEF Content, Instruction
<1>2. e \in EntryEnds(m, v)
    BY DEF EntryEnds
<1>3. /\ u \in Seq(Instruction) /\ Entry(m, v) \in Seq(Instruction)
      /\ Fetch \in Seq(Instruction) /\ Set(m) \in Seq(Instruction) /\ <<j>> \in Seq(Instruction)
    <2>1. [op |-> "use", module |-> m, values |-> {v}] \in Instruction
        BY <1>1 DEF Instruction, Quiet
    <2>2. [op |-> "entry", module |-> m, value |-> v] \in Instruction
        BY <1>1 DEF Instruction, EntryPut
    <2>3. [op |-> "fetch"] \in Instruction
          /\ [op |-> "set", module |-> m, locked |-> FALSE] \in Instruction
        BY DEF Instruction, Quiet
    <2> QED
        BY <1>1, <2>1, <2>2, <2>3, Alone DEF Use, Entry, Fetch, Set
<1>4. c \in Seq(Instruction)
    BY <1>3, Checks DEF Instruction
<1>5. e \in Seq(Instruction) /\ r \in Seq(Instruction) /\ c \o r \in Seq(Instruction)
      /\ Fetch \o (c \o r) \in Seq(Instruction)
    BY <1>3, <1>4, Joined
<1>6. Item(i, m) = ((Fetch \o c) \o Entry(m, v)) \o u
    BY <1>1 DEF Item, WriteEntry, SetActiveModule
<1> HIDE DEF v, c, u
<1>7. Item(i, m) \o <<j>> = Fetch \o (c \o r)
    <2> DEFINE w == Entry(m, v)
               x == w \o u
    <2>1. w \in Seq(Instruction) /\ x \in Seq(Instruction)
        BY <1>3, Joined
    <2>2. x \o <<j>> = r
        BY <1>3, Nest
    <2> HIDE DEF w, r, e
    <2>3. Fetch \o c \in Seq(Instruction) /\ c \o x \in Seq(Instruction)
        BY <1>3, <1>4, <2>1, Joined
    <2>4. ((Fetch \o c) \o w) \o u = (Fetch \o c) \o x
        BY <1>3, <2>1, <2>3, Nest, SMTT(30)
    <2> HIDE DEF x
    <2>5. (Fetch \o c) \o x = Fetch \o (c \o x)
        <3>1. Fetch \in Seq(Instruction) /\ c \in Seq(Instruction) /\ x \in Seq(Instruction)
            BY <1>3, <1>4, <2>1 DEF x
        <3> QED
            BY <3>1, Nest
    <2>6. (Fetch \o (c \o x)) \o <<j>> = Fetch \o ((c \o x) \o <<j>>)
        <3>1. Fetch \in Seq(Instruction) /\ c \o x \in Seq(Instruction)
              /\ <<j>> \in Seq(Instruction)
            BY <1>3, <2>3
        <3> QED
            BY <3>1, Nest
    <2>7. (c \o x) \o <<j>> = c \o (x \o <<j>>)
        <3>1. c \in Seq(Instruction) /\ x \in Seq(Instruction) /\ <<j>> \in Seq(Instruction)
            BY <1>3, <1>4, <2>1 DEF x
        <3> QED
            BY <3>1, Nest
    <2> QED
        BY <1>6, <2>2, <2>4, <2>5, <2>6, <2>7 DEF w
<1>8. FetchTail(k, c \o r)
    BY <1>1, <1>2 DEF FetchTail, c
<1> HIDE DEF r
<1>9. Staged(k, Fetch \o (c \o r))
    BY <1>5, <1>8, AtFetch
<1> QED
    BY <1>5, <1>7, <1>9 DEF v, r, c, u

\* The operations, each where it begins.
LEMMA SelBegins ==
    ASSUME NEW k, NEW m \in Modules, NEW v \in Values
    PROVE  /\ Staged(k, PreProgSelReg(m, v)) /\ PreProgSelReg(m, v) \in Seq(Quiet)
           /\ Staged(k, ProgSelReg(m, v)) /\ ProgSelReg(m, v) \in Seq(Quiet)
<1> DEFINE c == Check(m, Set(m))
           p == Put(m, v)
<1>1. /\ c \in Seq(Quiet) /\ Fetch \in Seq(Quiet) /\ p \in Seq(Quiet) /\ Set(m) \in Seq(Quiet)
    BY Alone, Operations DEF SetActiveModule, Fetch, Put, Set, Quiet
<1>2. /\ c \in Seq(Instruction) /\ Fetch \in Seq(Instruction) /\ p \in Seq(Instruction)
      /\ Set(m) \in Seq(Instruction)
    BY <1>1, QuietIs
<1> HIDE DEF p
<1>3. ASSUME NEW e \in SelEnds(m, v)
      PROVE  LET r == Fetch \o (p \o e) IN Staged(k, c \o r)
    <2> DEFINE r == Fetch \o (p \o e)
    <2>1. e \in Seq(Instruction) /\ <<>> \in Seq(Instruction)
        BY RestsAre, QuietIs, EmptySeq
    <2>2. r \in Seq(Instruction)
        BY <1>2, <2>1, Joined
    <2>3. SetTail(k, m, r, k.sure /\ m \in k.available) /\ SkipTail(k, m, r)
        BY DEF SetTail, SkipTail, p
    <2> HIDE DEF r
    <2>4. <<>> \o r = r /\ Set(m) \o <<>> = Set(m)
        BY <1>2, <2>2, ConcatEmptySeq
    <2>5. Staged(k, Check(m, Set(m) \o <<>>) \o r)
        BY <2>1, <2>2, <2>3, <2>4, AtCheck
    <2> QED
        BY <2>4, <2>5 DEF r
<1> HIDE DEF c
<1>4. PreProgSelReg(m, v) = (c \o Fetch) \o p
    BY DEF PreProgSelReg, SetActiveModule, c, p
<1>5. (c \o Fetch) \o p = c \o (Fetch \o p)
    BY <1>2, Nest
<1>6. c \o Fetch \in Seq(Quiet) /\ (c \o Fetch) \o p \in Seq(Quiet)
      /\ Fetch \o p \in Seq(Instruction)
    BY <1>1, <1>2, Joined
<1>7. Staged(k, c \o (Fetch \o p))
    <2>1. <<>> \in SelEnds(m, v) /\ p \o <<>> = p
        BY <1>2, ConcatEmptySeq DEF SelEnds
    <2> QED
        BY <1>3, <2>1
<1> DEFINE e == Check(m, Set(m) \o Use(m, {v}))
<1>8. e \in SelEnds(m, v) /\ e \in Seq(Quiet) /\ e \in Seq(Instruction)
    BY Operations, QuietIs DEF SelEnds
<1> HIDE DEF e
<1>9. (c \o (Fetch \o p)) \o e = c \o (Fetch \o (p \o e))
    <2>1. (c \o (Fetch \o p)) \o e = c \o ((Fetch \o p) \o e)
        BY <1>2, <1>6, <1>8, Nest, SMTT(30)
    <2>2. (Fetch \o p) \o e = Fetch \o (p \o e)
        BY <1>2, <1>8, Nest
    <2> QED
        BY <2>1, <2>2
<1>10. ProgSelReg(m, v) = ((c \o Fetch) \o p) \o e
    BY <1>4 DEF ProgSelReg, e
<1>11. ((c \o Fetch) \o p) \o e \in Seq(Quiet)
    BY <1>6, <1>8, Joined
<1>12. Staged(k, c \o (Fetch \o (p \o e)))
    BY <1>3, <1>8
<1> QED
    BY <1>4, <1>5, <1>6, <1>7, <1>9, <1>10, <1>11, <1>12

LEMMA UpdateBegins ==
    ASSUME NEW k, NEW m \in Modules, NEW v \in Values
    PROVE  /\ Staged(k, UpdateJTAGConfigSchema(m, v)) /\ UpdateJTAGConfigSchema(m, v) \in Seq(Quiet)
           /\ Staged(k, ReceiveConfigRegister(m, v)) /\ ReceiveConfigRegister(m, v) \in Seq(Quiet)
<1> DEFINE p == Put(m, v)
           a == Put(None, v)
           j == ProgramJTAG(m)
           u == Use(m, {v})
<1>1. /\ p \in Seq(Quiet) /\ a \in Seq(Quiet) /\ j \in Seq(Quiet) /\ u \in Seq(Quiet)
      /\ Set(m) \in Seq(Quiet) /\ Fetch \in Seq(Quiet)
    BY Alone, Operations DEF Fetch, Put, Set, Use, Quiet
<1>2. /\ p \in Seq(Instruction) /\ a \in Seq(Instruction) /\ j \in Seq(Instruction) /\ u \in Seq(Instruction)
      /\ Set(m) \in Seq(Instruction) /\ Fetch \in Seq(Instruction)
    BY <1>1, QuietIs
<1>3. FetchTail(k, a \o j)
    BY DEF FetchTail
<1>4. SetTail(k, m, Fetch \o (p \o u), k.sure)
    BY DEF SetTail
<1> HIDE DEF p, a, j, u
<1>5. UpdateJTAGConfigSchema(m, v) = (Fetch \o a) \o j
    BY DEF UpdateJTAGConfigSchema, a, j
<1>6. (Fetch \o a) \o j = Fetch \o (a \o j) /\ a \o j \in Seq(Instruction)
    BY <1>2, Nest, Joined
<1>7. (Fetch \o a) \o j \in Seq(Quiet)
    BY <1>1, Joined
<1>8. Staged(k, Fetch \o (a \o j))
    BY <1>3, <1>6, AtFetch
<1>9. ReceiveConfigRegister(m, v) = ((Set(m) \o Fetch) \o p) \o u
    BY DEF ReceiveConfigRegister, p, u
<1>10. ((Set(m) \o Fetch) \o p) \o u = Set(m) \o (Fetch \o (p \o u))
    <2> DEFINE s == Set(m)
               x == p \o u
    <2>1. s \in Seq(Instruction) /\ s \o Fetch \in Seq(Instruction) /\ x \in Seq(Instruction)
        BY <1>2, Joined
    <2> HIDE DEF s
    <2>2. ((s \o Fetch) \o p) \o u = (s \o Fetch) \o x
        BY <1>2, <2>1, Nest, SMTT(30)
    <2> HIDE DEF x
    <2>3. (s \o Fetch) \o x = s \o (Fetch \o x)
        BY <1>2, <2>1, Nest, SMTT(30)
    <2> QED
        BY <2>2, <2>3 DEF s, x
<1>11. ((Set(m) \o Fetch) \o p) \o u \in Seq(Quiet)
    BY <1>1, Joined
<1>12. Fetch \o (p \o u) \in Seq(Instruction)
    BY <1>2, Joined
<1>13. Staged(k, Set(m) \o (Fetch \o (p \o u)))
    BY <1>4, <1>12, AtSet
<1> QED
    BY <1>5, <1>6, <1>7, <1>8, <1>9, <1>10, <1>11, <1>13

LEMMA ModuleBegins ==
    ASSUME NEW k, NEW m \in Modules
    PROVE  /\ Staged(k, ProgramJTAG(m)) /\ ProgramJTAG(m) \in Seq(Quiet)
           /\ Staged(k, ProgramLMKOutput(m)) /\ ProgramLMKOutput(m) \in Seq(Quiet)
           /\ Staged(k, ResetAurora(m)) /\ ResetAurora(m) \in Seq(Quiet)
<1> DEFINE u == Use(m, Values)
           c == CheckIOBAuroraReady(m)
<1>0. PICK v \in Values : TRUE
    BY RegistersAssumption
<1>1. /\ ProgramJTAG(m) \in Seq(Quiet) /\ ProgramLMKOutput(m) \in Seq(Quiet)
      /\ ResetAurora(m) \in Seq(Quiet) /\ c \in Seq(Quiet)
    BY <1>0, Operations DEF ProgramLMKOutput
<1>2. u \in Seq(Instruction) /\ Set(m) \in Seq(Instruction) /\ LockSet(m) \in Seq(Instruction)
    BY Alone DEF Use, Set, LockSet, Instruction, Quiet
<1>3. c \in Seq(Instruction)
    BY <1>1, QuietIs
<1>4. <<>> \in After /\ <<>> \in Rests /\ <<>> \in Seq(Instruction)
    BY EmptySeq DEF After, Rests, Ends
<1>5. SkipTail(k, m, <<>>)
    BY <1>4 DEF SkipTail
<1>6. u \o <<>> = u /\ c \o <<>> = c
    BY <1>2, <1>3, ConcatEmptySeq
<1>7. c \in After
    BY <1>4, <1>6, RestsOf
<1>8. SetTail(k, m, u, k.sure) /\ SetTail(k, m, u, k.sure /\ m \in k.available)
    BY <1>4, <1>6 DEF SetTail
<1>9. SetTail(k, m, u \o c, k.sure /\ m \in k.available)
    BY <1>7 DEF SetTail
<1> HIDE DEF u, c
<1>10. ASSUME NEW b \in Seq(Instruction), SetTail(k, m, b, k.sure /\ m \in k.available)
       PROVE  Staged(k, Check(m, Set(m) \o b))
    <2>1. b \o <<>> = b
        BY ConcatEmptySeq
    <2>2. /\ Staged(k, Check(m, Set(m) \o b) \o <<>>)
          /\ Check(m, Set(m) \o b) \o <<>> \in Seq(Instruction)
        BY <1>4, <1>5, <1>10, <2>1, AtCheck
    <2>3. Set(m) \o b \in Seq(Instruction)
        BY <1>2, Joined
    <2>4. Check(m, Set(m) \o b) \in Seq(Instruction)
        BY <2>3, Checks DEF Instruction
    <2>5. Check(m, Set(m) \o b) \o <<>> = Check(m, Set(m) \o b)
        BY <2>4, ConcatEmptySeq
    <2> QED
        BY <2>2, <2>5
<1>11. Staged(k, ProgramJTAG(m))
    BY <1>2, <1>8, <1>10 DEF ProgramJTAG, u
<1>12. Staged(k, ProgramLMKOutput(m))
    BY <1>2, <1>8, AtSet DEF ProgramLMKOutput, u
<1>13. Staged(k, ResetAurora(m))
    <2>1. u \o c \in Seq(Instruction)
        BY <1>2, <1>3, Joined
    <2>2. (Set(m) \o u) \o c = Set(m) \o (u \o c)
        BY <1>2, <1>3, Nest
    <2>3. Staged(k, Check(m, Set(m) \o (u \o c)))
        BY <1>9, <1>10, <2>1
    <2> QED
        BY <2>2, <2>3 DEF ResetAurora, u, c
<1> QED
    BY <1>1, <1>11, <1>12, <1>13

\* The operations over all modules, and the ones on none.
LEMMA WideBegins ==
    ASSUME NEW k, NEW ms \in SUBSET Modules, NEW file \in Files,
           NEW kind \in {"ready", "failed", "show"}
    PROVE  /\ Staged(k, For(kind, ms)) /\ For(kind, ms) \in Seq(Quiet)
           /\ Staged(k, CheckAllIOBStatus) /\ CheckAllIOBStatus \in Seq(Quiet)
           /\ Staged(k, CheckAllIOBStatus \o UseAny) /\ CheckAllIOBStatus \o UseAny \in Seq(Quiet)
           /\ Staged(k, ReadFullConfigFile(file)) /\ ReadFullConfigFile(file) \in Seq(Quiet)
           /\ Staged(k, UpdateConfigFromHash) /\ UpdateConfigFromHash \in Seq(Instruction)
<1>1. /\ <<>> \in Ends /\ UseAny \in Ends /\ UseAny \in Seq(Quiet)
    BY RestsAre DEF Ends
<1>2. Staged(k, For(kind, ms)) /\ For(kind, ms) \in Seq(Quiet)
    <2> DEFINE i == [op |-> "for", kind |-> kind, todo |-> ms]
    <2>1. i \in PlainLoop
        BY DEF PlainLoop
    <2> HIDE DEF i
    <2>2. <<i>> \o <<>> \in Rests /\ <<i>> \o <<>> = <<i>>
        BY <1>1, <2>1, Alone, RestsOf
    <2>3. For(kind, ms) = <<i>>
        BY DEF For, i
    <2> QED
        BY <2>2, <2>3, AtRests, Loops
<1> DEFINE p == [op |-> "probe"]
           f == For("ready", Modules)
<1>3. p \in Quiet /\ p \in Instruction /\ p.op = "probe" /\ f \in Seq(Quiet)
    BY Loops DEF Quiet, Instruction
<1>4. CheckAllIOBStatus = <<p>> \o f
    BY DEF CheckAllIOBStatus
<1> HIDE DEF p, f
<1>5. ASSUME NEW e \in Ends
      PROVE  Staged(k, <<p>> \o (f \o e)) /\ <<p>> \o (f \o e) \in Seq(Quiet)
    <2>1. e \in Seq(Quiet) /\ f \o e \in Seq(Quiet)
        BY <1>3, RestsAre, Joined
    <2>2. Stage(k, p, f \o e)
        BY <1>3 DEF Stage, f
    <2>3. /\ Head(<<p>> \o (f \o e)) = p /\ Tail(<<p>> \o (f \o e)) = f \o e
          /\ <<p>> \o (f \o e) \in Seq(Quiet)
        BY <1>3, <2>1, Cons
    <2> QED
        BY <2>2, <2>3 DEF Staged
<1>6. f \o <<>> = f
    BY <1>3, ConcatEmptySeq
<1>7. (<<p>> \o f) \o UseAny = <<p>> \o (f \o UseAny)
    <2>1. <<p>> \in Seq(Quiet)
        BY <1>3, Alone
    <2> QED
        BY <1>1, <1>3, <2>1, Regroup
<1>8. Staged(k, ReadFullConfigFile(file)) /\ ReadFullConfigFile(file) \in Seq(Quiet)
    <2> DEFINE l == [op |-> "load", file |-> file]
    <2>1. l \in Quiet /\ l.op = "load"
        BY DEF Quiet
    <2> HIDE DEF l
    <2>2. Stage(k, l, UseAny)
        BY <2>1 DEF Stage
    <2>3. /\ Head(<<l>> \o UseAny) = l /\ Tail(<<l>> \o UseAny) = UseAny
          /\ <<l>> \o UseAny \in Seq(Quiet)
        BY <1>1, <2>1, Cons
    <2> QED
        BY <2>2, <2>3 DEF Staged, ReadFullConfigFile, l
<1>9. Staged(k, UpdateConfigFromHash) /\ UpdateConfigFromHash \in Seq(Instruction)
    <2> DEFINE c == [op |-> "compare"]
    <2>1. c \in Instruction /\ c.op = "compare"
        BY DEF Instruction
    <2> HIDE DEF c
    <2>2. Stage(k, c, <<>>)
        BY <2>1 DEF Stage
    <2> QED
        BY <2>1, <2>2, Alone DEF Staged, UpdateConfigFromHash, c
<1> QED
    BY <1>1, <1>2, <1>4, <1>5, <1>6, <1>7, <1>8, <1>9

LEMMA Bodies ==
    ASSUME NEW k, NEW t \in Thread, NEW body \in Body(t), available \subseteq Modules
    PROVE  /\ Staged(k, body) /\ body \in Seq(Instruction)
           /\ body \in Seq(Quiet) \/ (t = "slot" /\ body = UpdateConfigFromHash)
<1>1. PICK file \in Files : TRUE
    BY RegistersAssumption
<1>2. ASSUME NEW ms \in SUBSET Modules, NEW kind \in {"ready", "failed", "show"}
      PROVE  Staged(k, For(kind, ms)) /\ For(kind, ms) \in Seq(Quiet)
    BY <1>1, WideBegins
<1>3. /\ Staged(k, CheckAllIOBStatus) /\ CheckAllIOBStatus \in Seq(Quiet)
      /\ Staged(k, CheckAllIOBStatus \o UseAny) /\ CheckAllIOBStatus \o UseAny \in Seq(Quiet)
      /\ Staged(k, UpdateConfigFromHash) /\ UpdateConfigFromHash \in Seq(Instruction)
    BY <1>1, WideBegins
<1>4. ASSUME body \in SlotBody, t = "slot"
      PROVE  /\ Staged(k, body) /\ body \in Seq(Instruction)
             /\ body \in Seq(Quiet) \/ (t = "slot" /\ body = UpdateConfigFromHash)
    <2>1. \/ \E m \in Modules, v \in Values : body \in {ProgSelReg(m, v), PreProgSelReg(m, v),
                                                       UpdateJTAGConfigSchema(m, v)}
          \/ \E m \in Modules : body \in {ProgramJTAG(m), ProgramLMKOutput(m), ResetAurora(m)}
          \/ \E f \in Files : body = ReadFullConfigFile(f)
          \/ body \in {CheckAllIOBStatus, CheckDataFailed, UpdateConfigFromHash}
        <3> DEFINE A == {ProgSelReg(m, v) : m \in Modules, v \in Values}
                   B == {PreProgSelReg(m, v) : m \in Modules, v \in Values}
                   C == {UpdateJTAGConfigSchema(m, v) : m \in Modules, v \in Values}
                   D == UNION {{ProgramJTAG(m), ProgramLMKOutput(m), ResetAurora(m)} : m \in Modules}
                   E == {ReadFullConfigFile(f) : f \in Files}
                   F == {CheckAllIOBStatus, CheckDataFailed, UpdateConfigFromHash}
        <3>1. body \in A => \E m \in Modules, v \in Values : body = ProgSelReg(m, v)
            BY SMT
        <3>2. body \in B => \E m \in Modules, v \in Values : body = PreProgSelReg(m, v)
            BY SMT
        <3>3. body \in C => \E m \in Modules, v \in Values : body = UpdateJTAGConfigSchema(m, v)
            BY SMT
        <3>4. body \in D => \E m \in Modules : body \in {ProgramJTAG(m), ProgramLMKOutput(m), ResetAurora(m)}
            BY SMT
        <3>5. body \in E => \E f \in Files : body = ReadFullConfigFile(f)
            BY SMT
        <3>6. body \in A \/ body \in B \/ body \in C \/ body \in D \/ body \in E \/ body \in F
            BY <1>4 DEF SlotBody
        <3> QED
            BY <3>1, <3>2, <3>3, <3>4, <3>5, <3>6
    <2>2. ASSUME NEW m \in Modules, NEW v \in Values,
                 body \in {ProgSelReg(m, v), PreProgSelReg(m, v), UpdateJTAGConfigSchema(m, v)}
          PROVE  Staged(k, body) /\ body \in Seq(Quiet)
        BY <2>2, SelBegins, UpdateBegins
    <2>3. ASSUME NEW m \in Modules, body \in {ProgramJTAG(m), ProgramLMKOutput(m), ResetAurora(m)}
          PROVE  Staged(k, body) /\ body \in Seq(Quiet)
        BY <2>3, ModuleBegins
    <2>4. ASSUME NEW f \in Files, body = ReadFullConfigFile(f)
          PROVE  Staged(k, body) /\ body \in Seq(Quiet)
        <3>1. "show" \in {"ready", "failed", "show"} /\ {} \in SUBSET Modules
            OBVIOUS
        <3> QED
            BY <2>4, <3>1, WideBegins
    <2>5. CASE body = CheckDataFailed
        <3>1. Staged(k, body) /\ body \in Seq(Quiet)
            BY <1>2, <2>5 DEF CheckDataFailed
        <3> QED
            BY <3>1, QuietIs
    <2>6. body \in Seq(Quiet) => body \in Seq(Instruction)
        BY QuietIs
    <2> QED
        BY <1>3, <1>4, <2>1, <2>2, <2>3, <2>4, <2>5, <2>6
<1>5. ASSUME body \in TaskBody PROVE Staged(k, body) /\ body \in Seq(Quiet)
    BY <1>2, <1>3, <1>5 DEF TaskBody, UpdateConfigHash
<1>6. ASSUME body \in InputBody PROVE Staged(k, body) /\ body \in Seq(Quiet)
    BY <1>6, UpdateBegins DEF InputBody
<1>7. \/ t = "slot" /\ body \in SlotBody
      \/ t # "slot" /\ body \in TaskBody
      \/ t # "slot" /\ body \in InputBody
    BY DEF Body, Thread
<1>8. body \in Seq(Quiet) => body \in Seq(Instruction)
    BY QuietIs
<1> QED
    BY <1>4, <1>5, <1>6, <1>7, <1>8

-----------------------------------------------------------------------------
(* Every step keeps the invariant *)

IInv == TypeOK /\ Programs /\ RightModule /\ StageInv

Owner == [at : Modules \cup {None}, wrote : Modules \cup {None}]

LEMMA IdleOwner == Idle \in Owner /\ Idle.at = None /\ Idle.wrote = None
BY DEF Idle, Owner

LEMMA Running ==
    ASSUME Programs, NEW t \in Thread, prog[t] # <<>>
    PROVE  /\ Head(prog[t]) \in Instruction /\ Tail(prog[t]) \in Seq(Instruction)
           /\ t # "slot" => Head(prog[t]) \in Quiet /\ Tail(prog[t]) \in Seq(Quiet)
<1>1. prog[t] \in Seq(Instruction)
    BY DEF Programs
<1>2. Head(prog[t]) \in Instruction /\ Tail(prog[t]) \in Seq(Instruction)
    BY <1>1, HeadTailProperties
<1>3. ASSUME t # "slot" PROVE Head(prog[t]) \in Quiet /\ Tail(prog[t]) \in Seq(Quiet)
    <2>1. prog[t] \in Seq(Quiet)
        BY <1>3 DEF Programs
    <2> QED
        BY <2>1, HeadTailProperties
<1> QED
    BY <1>2, <1>3

LEMMA Rewritten ==
    ASSUME Programs, NEW t \in Thread, NEW r \in Seq(Instruction),
           t # "slot" => r \in Seq(Quiet), prog' = [prog EXCEPT ![t] = r]
    PROVE  /\ Programs' /\ prog'[t] = r
           /\ \A u \in Thread \ {t} : prog'[u] = prog[u]
BY DEF Programs

LEMMA Owned ==
    ASSUME own \in [Thread -> Owner], NEW t \in Thread, NEW o \in Owner, Owns(t, o)
    PROVE  /\ own' \in [Thread -> Owner]
           /\ own'[t] = IF prog'[t] = <<>> THEN Idle ELSE o
           /\ \A u \in Thread \ {t} : own'[u] = own[u]
<1>1. (IF prog'[t] = <<>> THEN Idle ELSE o) \in Owner
    BY IdleOwner
<1> QED
    BY <1>1 DEF Owns

\* The threads that do not move.
LEMMA Others ==
    ASSUME StageInv, NEW u \in Thread,
           prog'[u] = prog[u], own'[u] = own[u], fetched'[u] = fetched[u],
           u \in misled => u \in misled',
           u \notin disturbed' =>
              /\ u \notin disturbed /\ own[u].at \in {None, active'}
              /\ prog[u] # <<>> => available' = available
              /\ own[u].wrote \in Modules => regs'[own[u].wrote] = regs[own[u].wrote]
    PROVE  /\ Staged(View(u)', prog'[u])
           /\ u \notin disturbed' => own'[u].at \in {None, active'}
<1> DEFINE k == View(u)
           j == View(u)'
<1>1. Staged(k, prog[u])
    BY DEF StageInv
<1>2. j.own = k.own /\ j.fetched = k.fetched
    BY DEF View
<1>3. j.sure => /\ k.sure
                /\ prog[u] # <<>> => j.available = k.available
                /\ k.own.wrote \in Modules => j.regs[k.own.wrote] = k.regs[k.own.wrote]
    BY DEF View
<1> HIDE DEF k, j
<1>4. Staged(j, prog[u])
    BY <1>1, <1>2, <1>3, Undisturbed
<1> QED
    BY <1>4 DEF j

LEMMA Together ==
    ASSUME NEW t \in Thread, Staged(View(t)', prog'[t]),
           t \notin disturbed' => own'[t].at \in {None, active'},
           \A u \in Thread \ {t} :
              /\ Staged(View(u)', prog'[u])
              /\ u \notin disturbed' => own'[u].at \in {None, active'}
    PROVE  StageInv'
BY DEF StageInv

LEMMA SetKeeps ==
    ASSUME IInv, NEW t \in Thread, SetStep(t)
    PROVE  IInv'
<1> DEFINE i == Head(prog[t])
           q == Tail(prog[t])
           k == View(t)
           j == View(t)'
<1>1. /\ i \in Instruction /\ q \in Seq(Instruction) /\ (t # "slot" => q \in Seq(Quiet))
      /\ i.op = "set" /\ i.module \in Modules /\ prog[t] # <<>>
    BY Running, Fields DEF IInv, SetStep, Head1
<1> HIDE DEF i, q
<1>2. PICK m \in Modules : m = i.module
    BY <1>1
<1>3. Programs' /\ prog'[t] = q /\ \A u \in Thread \ {t} : prog'[u] = prog[u]
    BY <1>1, Rewritten DEF IInv, SetStep, Go, Continue, i, q
<1>4. own \in [Thread -> Owner] /\ own[t] \in Owner
    BY DEF IInv, TypeOK, Owner
<1>5. /\ [own[t] EXCEPT !.at = m] \in Owner
      /\ [own[t] EXCEPT !.at = m].at = m /\ [own[t] EXCEPT !.at = m].wrote = own[t].wrote
    BY <1>4 DEF Owner
<1>6. /\ own' \in [Thread -> Owner]
      /\ own'[t] = IF q = <<>> THEN Idle ELSE [own[t] EXCEPT !.at = m]
      /\ \A u \in Thread \ {t} : own'[u] = own[u]
    <2>1. Owns(t, [own[t] EXCEPT !.at = m])
        BY <1>2 DEF SetStep, i
    <2> QED
        BY <1>3, <1>4, <1>5, <2>1, Owned
<1>7. /\ active' = m /\ disturbed' = disturbed \cup {u \in Thread \ {t} : own[u].at \notin {None, m}}
      /\ UNCHANGED <<available, regs, shown, last, fetched, nops, misled, astray, loose, misfiled>>
      /\ lock' \in {lock, t}
    BY <1>2 DEF SetStep, Disturb, hashes, i
<1>8. Staged(j, q)
    <2>1. Stage(k, i, q)
        BY <1>1 DEF IInv, StageInv, Staged, i, q
    <2>2. SetTail(k, m, q, k.sure)
        BY <1>1, <1>2, <2>1 DEF Stage
    <2>3. /\ j.sure = k.sure /\ j.regs = k.regs /\ j.fetched = k.fetched
          /\ j.own = own'[t] /\ k.own = own[t]
        BY <1>7 DEF View
    <2>4. q # <<>> => j.own.at = m /\ j.own.wrote = k.own.wrote
        BY <1>5, <1>6, <2>3
    <2> HIDE DEF j, k
    <2> QED
        BY <1>1, <2>2, <2>3, <2>4, AfterSet
<1>9. StageInv'
    <2>1. t \notin disturbed' => own'[t].at \in {None, active'}
        BY <1>5, <1>6, <1>7, IdleOwner
    <2>2. ASSUME NEW u \in Thread \ {t}
          PROVE  /\ Staged(View(u)', prog'[u])
                 /\ u \notin disturbed' => own'[u].at \in {None, active'}
        BY <1>3, <1>6, <1>7, Others DEF IInv
    <2> QED
        BY <1>3, <1>8, <2>1, <2>2, Together
<1>10. TypeOK' /\ RightModule'
    BY <1>6, <1>7 DEF IInv, TypeOK, RightModule, Owner
<1> QED
    BY <1>3, <1>9, <1>10 DEF IInv

LEMMA CheckKeeps ==
    ASSUME IInv, NEW t \in Thread, CheckStep(t)
    PROVE  IInv'
<1> DEFINE i == Head(prog[t])
           q == Tail(prog[t])
           n == i.skip + 1
           s == SubSeq(q, n, Len(q))
           r == IF i.module \in available THEN q ELSE s
           k == View(t)
           j == View(t)'
<1>1. /\ i \in Instruction /\ q \in Seq(Instruction) /\ (t # "slot" => q \in Seq(Quiet))
      /\ i.op = "check" /\ i.module \in Modules /\ i.skip \in Nat /\ prog[t] # <<>>
    BY Running, Fields DEF IInv, CheckStep, Head1
<1>2. /\ s = SubSeq(prog[t], i.skip + 2, Len(prog[t]))
      /\ s \in Seq(Instruction) /\ (t # "slot" => s \in Seq(Quiet))
    <2>1. prog[t] \in Seq(Instruction)
        BY DEF IInv, Programs
    <2> HIDE DEF i
    <2>2. s = SubSeq(prog[t], i.skip + 2, Len(prog[t]))
        BY <1>1, <2>1, TailFrom
    <2>3. s \in Seq(Instruction)
        BY <1>1, SeqFrom
    <2>4. t # "slot" => s \in Seq(Quiet)
        BY <1>1, SeqFrom
    <2> QED
        BY <2>2, <2>3, <2>4
<1> HIDE DEF i, q, s
<1>3. r \in Seq(Instruction) /\ (t # "slot" => r \in Seq(Quiet))
    BY <1>1, <1>2
<1>4. /\ Programs' /\ prog'[t] = r /\ \A u \in Thread \ {t} : prog'[u] = prog[u]
    <2>1. prog' = [prog EXCEPT ![t] = r]
        BY <1>2 DEF CheckStep, Continue, i, q
    <2> HIDE DEF r
    <2> QED
        BY <1>3, <2>1, Rewritten DEF IInv
<1>5. own \in [Thread -> Owner] /\ own[t] \in Owner
    BY DEF IInv, TypeOK, Owner
<1> HIDE DEF r
<1>6. /\ own' \in [Thread -> Owner]
      /\ own'[t] = IF r = <<>> THEN Idle ELSE own[t]
      /\ \A u \in Thread \ {t} : own'[u] = own[u]
    BY <1>4, <1>5, Owned DEF CheckStep
<1>7. UNCHANGED <<available, active, regs, lock, shown, last, fetched, nops, disturbed, misled, astray, loose, misfiled>>
    BY DEF CheckStep, ppt, hashes
<1>8. Staged(j, r)
    <2>1. Stage(k, i, q)
        BY <1>1 DEF IInv, StageInv, Staged, i, q
    <2>2. CheckTail(k, i.module, i.skip, q)
        BY <1>1, <2>1 DEF Stage
    <2>3. /\ j.sure = k.sure /\ j.regs = k.regs /\ j.fetched = k.fetched
          /\ j.available = k.available /\ k.available = available
          /\ j.own = own'[t] /\ k.own = own[t]
        BY <1>7 DEF View
    <2> HIDE DEF j, k
    <2>4. CASE i.module \in available
        <3>1. /\ r = q /\ q # <<>>
              /\ Head(q) = [op |-> "set", module |-> i.module, locked |-> FALSE]
              /\ SetTail(k, i.module, Tail(q), k.sure /\ i.module \in available)
            BY <2>2, <2>3, <2>4 DEF CheckTail, r
        <3>2. SetTail(j, i.module, Tail(q), j.sure)
            BY <1>6, <2>3, <2>4, <3>1 DEF SetTail, Written
        <3>3. Stage(j, [op |-> "set", module |-> i.module, locked |-> FALSE], Tail(q))
            BY <3>2 DEF Stage
        <3> QED
            BY <3>1, <3>3 DEF Staged
    <2>5. CASE i.module \notin available
        <3>1. r = s /\ SkipTail(k, i.module, s)
            BY <2>2, <2>5 DEF CheckTail, r, s
        <3> QED
            BY <1>1, <2>3, <2>5, <3>1, AfterSkip
    <2> QED
        BY <2>4, <2>5
<1>9. StageInv'
    <2>1. t \notin disturbed' => own'[t].at \in {None, active'}
        BY <1>6, <1>7, IdleOwner DEF IInv, StageInv
    <2>2. ASSUME NEW u \in Thread \ {t}
          PROVE  /\ Staged(View(u)', prog'[u])
                 /\ u \notin disturbed' => own'[u].at \in {None, active'}
        <3>1. u \notin disturbed => own[u].at \in {None, active}
            BY DEF IInv, StageInv
        <3> QED
            BY <1>4, <1>6, <1>7, <3>1, Others DEF IInv
    <2> QED
        BY <1>4, <1>8, <2>1, <2>2, Together
<1>10. TypeOK' /\ RightModule'
    BY <1>6, <1>7 DEF IInv, TypeOK, RightModule, Owner
<1> QED
    BY <1>4, <1>9, <1>10 DEF IInv

LEMMA FetchKeeps ==
    ASSUME IInv, NEW t \in Thread, FetchStep(t)
    PROVE  IInv'
<1> DEFINE i == Head(prog[t])
           q == Tail(prog[t])
           k == View(t)
           j == View(t)'
<1>1. /\ i \in Instruction /\ q \in Seq(Instruction) /\ (t # "slot" => q \in Seq(Quiet))
      /\ i.op = "fetch" /\ prog[t] # <<>>
    BY Running DEF IInv, FetchStep, Head1
<1> HIDE DEF i, q
<1>2. Programs' /\ prog'[t] = q /\ \A u \in Thread \ {t} : prog'[u] = prog[u]
    BY <1>1, Rewritten DEF IInv, FetchStep, Go, Continue, q
<1>3. /\ active \in Modules /\ fetched \in [Thread -> Modules \cup {None}]
    BY DEF IInv, TypeOK
<1>4. /\ fetched' \in [Thread -> Modules \cup {None}] /\ fetched'[t] = active
      /\ \A u \in Thread \ {t} : fetched'[u] = fetched[u]
    BY <1>3 DEF FetchStep
<1>5. UNCHANGED <<available, active, regs, lock, shown, last, own, nops, disturbed, misled, astray, loose, misfiled>>
    BY DEF FetchStep, ppt, hashes, ghosts
<1>6. Staged(j, q)
    <2>1. Stage(k, i, q)
        BY <1>1 DEF IInv, StageInv, Staged, i, q
    <2>2. FetchTail(k, q)
        BY <1>1, <2>1 DEF Stage
    <2>3. /\ j.sure = k.sure /\ j.own = k.own /\ j.available = k.available
          /\ j.fetched = active /\ (k.sure => k.own.at \in {None, active})
        BY <1>4, <1>5 DEF View, IInv, StageInv
    <2> HIDE DEF j, k
    <2> QED
        BY <1>3, <2>2, <2>3, AfterFetch
<1>7. StageInv'
    <2>1. t \notin disturbed' => own'[t].at \in {None, active'}
        BY <1>5 DEF IInv, StageInv
    <2>2. ASSUME NEW u \in Thread \ {t}
          PROVE  /\ Staged(View(u)', prog'[u])
                 /\ u \notin disturbed' => own'[u].at \in {None, active'}
        <3>1. u \notin disturbed => own[u].at \in {None, active}
            BY DEF IInv, StageInv
        <3> QED
            BY <1>2, <1>4, <1>5, <3>1, Others DEF IInv
    <2> QED
        BY <1>2, <1>6, <2>1, <2>2, Together
<1>8. TypeOK' /\ RightModule'
    BY <1>4, <1>5 DEF IInv, TypeOK, RightModule
<1> QED
    BY <1>2, <1>7, <1>8 DEF IInv

\* A value is written to the registers fetched.
\* Whatever a thread knows after it stored `v`, the program `q` is right.
StoredFits(k, v, q, sure) ==
    \A j : /\ j.sure = sure /\ j.available = k.available /\ j.regs[k.fetched] = v
           /\ q # <<>> => j.own.at = k.own.at /\ j.own.wrote = k.fetched
           => Staged(j, q)

LEMMA StoreKeeps ==
    ASSUME IInv, NEW t \in Thread, NEW v \in Values, Store(t, v), prog[t] # <<>>,
           fetched[t] \in Modules, loose' \subseteq Modules, misfiled' \subseteq Modules,
           misled' \in {misled, misled \cup {t}}, astray' = FALSE,
           StoredFits(View(t), v, Tail(prog[t]), t \notin disturbed \cup misled')
    PROVE  IInv'
<1> DEFINE f == fetched[t]
           o == [own[t] EXCEPT !.wrote = f]
           k == View(t)
           q == Tail(prog[t])
           j == View(t)'
<1>1. q \in Seq(Instruction) /\ (t # "slot" => q \in Seq(Quiet))
    BY Running DEF IInv
<1>2. Programs' /\ prog'[t] = q /\ \A u \in Thread \ {t} : prog'[u] = prog[u]
    BY <1>1, Rewritten DEF IInv, Store, Go, Continue
<1>3. /\ own \in [Thread -> Owner] /\ own[t] \in Owner /\ regs \in Content
      /\ fetched \in [Thread -> Modules \cup {None}]
    BY DEF IInv, TypeOK, Owner
<1>4. o \in Owner /\ o.at = own[t].at /\ o.wrote = f
    BY <1>3 DEF Owner
<1>5. Owns(t, o)
    BY DEF Store
<1> HIDE DEF o
<1>6. /\ own' \in [Thread -> Owner] /\ own'[t] = IF q = <<>> THEN Idle ELSE o
      /\ \A u \in Thread \ {t} : own'[u] = own[u]
    BY <1>2, <1>3, <1>4, <1>5, Owned
<1>7. /\ regs' \in Content /\ regs'[f] = v /\ \A m \in Modules \ {f} : regs'[m] = regs[m]
      /\ fetched' \in [Thread -> Modules \cup {None}]
      /\ \A u \in Thread \ {t} : fetched'[u] = fetched[u]
    BY <1>3 DEF Store, Content
<1>8. /\ UNCHANGED <<available, active, lock, shown, last, nops>>
      /\ disturbed' = disturbed \cup {u \in Thread \ {t} : own[u].wrote = f}
    BY DEF Store, Disturb, hashes
<1>9. Staged(j, q)
    <2>1. /\ j.sure = (t \notin disturbed \cup misled')
          /\ j.available = k.available /\ j.regs = regs'
          /\ j.own = own'[t] /\ k.own = own[t] /\ k.fetched = f
        BY <1>8 DEF View
    <2> HIDE DEF j, f
    <2>2. q # <<>> => j.own.at = k.own.at /\ j.own.wrote = k.fetched
        BY <1>4, <1>6, <2>1
    <2>3. j.regs[k.fetched] = v
        BY <1>7, <2>1
    <2> HIDE DEF k, q
    <2>4. StoredFits(k, v, q, t \notin disturbed \cup misled')
        BY DEF k, q
    <2> QED
        BY <2>1, <2>2, <2>3, <2>4 DEF StoredFits
<1>10. StageInv'
    <2>1. t \notin disturbed' => own'[t].at \in {None, active'}
        BY <1>4, <1>6, <1>8, IdleOwner DEF IInv, StageInv
    <2>2. ASSUME NEW u \in Thread \ {t}
          PROVE  /\ Staged(View(u)', prog'[u])
                 /\ u \notin disturbed' => own'[u].at \in {None, active'}
        <3>1. u \notin disturbed => own[u].at \in {None, active}
            BY DEF IInv, StageInv
        <3>2. u \notin disturbed' => u \notin disturbed /\ own[u].wrote # f
            BY <1>8
        <3>3. u \notin disturbed' /\ own[u].wrote \in Modules
                => regs'[own[u].wrote] = regs[own[u].wrote]
            BY <1>7, <3>2
        <3> QED
            BY <1>2, <1>6, <1>7, <1>8, <3>1, <3>2, <3>3, Others DEF IInv
    <2> QED
        BY <1>2, <1>9, <2>1, <2>2, Together
<1>11. TypeOK' /\ RightModule'
    BY <1>6, <1>7, <1>8 DEF IInv, TypeOK, RightModule, Owner
<1> QED
    BY <1>2, <1>10, <1>11 DEF IInv

LEMMA PutKeeps ==
    ASSUME IInv, NEW t \in Thread, PutStep(t)
    PROVE  IInv'
<1> DEFINE i == Head(prog[t])
           q == Tail(prog[t])
           k == View(t)
<1>1. /\ i \in Instruction /\ i.op = "put" /\ i.module \in Modules \cup {None}
      /\ i.value \in Values /\ prog[t] # <<>>
    BY Running, Fields DEF IInv, PutStep, Head1
<1>2. Stage(k, i, q)
    BY <1>1 DEF IInv, StageInv, Staged
<1>3. /\ k.fetched = fetched[t] /\ k.available = available
      /\ k.sure = (t \notin disturbed \cup misled)
    BY DEF View
<1>4. /\ Store(t, i.value) /\ loose' = loose \cup {fetched[t]}
      /\ misled' = misled /\ misfiled' = misfiled
      /\ astray' = (astray \/ ~(\/ t \in disturbed \cup misled
                               \/ i.module \notin available
                               \/ fetched[t] = i.module))
    BY DEF PutStep, Excused
<1> HIDE DEF i, q, k
<1>5. k.fetched \in Modules /\ PutTail(k, i.module, i.value, q, k.fetched)
    BY <1>1, <1>2 DEF Stage
<1>6. /\ loose' \subseteq Modules /\ misfiled' \subseteq Modules
      /\ available \subseteq Modules /\ astray = FALSE
    BY <1>3, <1>4, <1>5 DEF IInv, TypeOK, RightModule
<1>11. astray' = FALSE
    <2>1. k.sure => i.module \notin available \/ fetched[t] = i.module
        BY <1>3, <1>5, <1>6, RegistersAssumption DEF PutTail
    <2> QED
        BY <1>3, <1>4, <1>6, <2>1
<1>7. ASSUME NEW j, j.sure = k.sure, j.available = k.available, j.regs[k.fetched] = i.value,
             q # <<>> => j.own.at = k.own.at /\ j.own.wrote = k.fetched
      PROVE  Staged(j, q)
    BY <1>1, <1>5, <1>7, AfterPut
<1>8. StoredFits(k, i.value, q, k.sure)
    BY <1>7 DEF StoredFits
<1>9. StoredFits(View(t), i.value, Tail(prog[t]), t \notin disturbed \cup misled')
    BY <1>3, <1>4, <1>8 DEF k, q
<1>10. fetched[t] \in Modules
    BY <1>3, <1>5
<1> QED
    BY <1>1, <1>4, <1>6, <1>9, <1>10, <1>11, StoreKeeps

\* An entry: its module is active, and programmed next, unless it was not
\* active when the registers were fetched.
LEMMA EntryKeeps ==
    ASSUME IInv, NEW t \in Thread, EntryStep(t)
    PROVE  IInv'
<1> DEFINE i == Head(prog[t])
           q == Tail(prog[t])
           k == View(t)
           sure == t \notin disturbed \cup misled'
<1>1. /\ i \in Instruction /\ i.op = "entry" /\ i.module \in Modules /\ i.value \in Values
      /\ prog[t] # <<>>
    BY Running, Fields DEF IInv, EntryStep, Head1
<1>2. Stage(k, i, q)
    BY <1>1 DEF IInv, StageInv, Staged
<1>3. /\ k.fetched = fetched[t] /\ k.available = available
      /\ k.sure = (t \notin disturbed \cup misled)
    BY DEF View
<1>4. /\ Store(t, i.value) /\ astray' = astray
      /\ loose' \subseteq loose \cup {fetched[t]}
      /\ misfiled' \subseteq misfiled \cup {i.module}
      /\ misled' = IF fetched[t] = i.module /\ i.module \in available
                   THEN misled ELSE misled \cup {t}
    BY DEF EntryStep
<1> HIDE DEF i, q, k
<1>5. /\ k.fetched \in Modules /\ q \in EntryEnds(i.module, i.value)
      /\ k.sure /\ i.module \in k.available => k.own.at = i.module
    BY <1>1, <1>2 DEF Stage
<1>6. loose' \subseteq Modules /\ misfiled' \subseteq Modules /\ astray' = FALSE
    BY <1>1, <1>3, <1>4, <1>5 DEF IInv, TypeOK, RightModule
<1>7. sure => k.own.at = i.module /\ k.fetched = i.module
    BY <1>3, <1>4, <1>5
<1>11. misled' \in {misled, misled \cup {t}}
    BY <1>4
<1> HIDE DEF sure
<1>12. ASSUME NEW j, j.sure = sure, j.regs[k.fetched] = i.value,
              q # <<>> => j.own.at = k.own.at /\ j.own.wrote = k.fetched
       PROVE  Staged(j, q)
    <2> SUFFICES ASSUME q # <<>> PROVE Staged(j, q)
        BY DEF Staged
    <2>1. PICK l \in EntryLoop : q = Use(i.module, {i.value}) \o <<l>>
        BY <1>5 DEF EntryEnds
    <2>2. <<l>> \in After /\ <<l>> \in Seq(Instruction) /\ {i.value} \in SUBSET Values
        BY <1>1, RestsOf, RestsAre
    <2>3. j.sure => j.own.at = i.module /\ Written(j, i.module, i.value)
        BY <1>1, <1>7, <1>12 DEF Written
    <2>4. Meant(j, [op |-> "use", module |-> i.module, values |-> {i.value}])
        BY <1>1, <2>3, RegistersAssumption DEF Meant
    <2> QED
        BY <1>1, <2>1, <2>2, <2>4, AtUse
<1>8. StoredFits(k, i.value, q, sure)
    BY <1>12 DEF StoredFits
<1>9. StoredFits(View(t), i.value, Tail(prog[t]), t \notin disturbed \cup misled')
    BY <1>8 DEF k, q, sure
<1>10. fetched[t] \in Modules
    BY <1>3, <1>5
<1> QED
    BY <1>1, <1>4, <1>6, <1>9, <1>10, <1>11, StoreKeeps

LEMMA UseKeeps ==
    ASSUME IInv, NEW t \in Thread, UseStep(t)
    PROVE  IInv'
<1> DEFINE i == Head(prog[t])
           q == Tail(prog[t])
           k == View(t)
           j == View(t)'
<1>1. /\ i \in Instruction /\ q \in Seq(Instruction) /\ (t # "slot" => q \in Seq(Quiet))
      /\ i.op \in {"use", "peek"} /\ i.module \in Modules \cup {None}
      /\ i.values \subseteq Values /\ prog[t] # <<>>
    BY Running, Fields DEF IInv, UseStep, Head1
<1>2. Stage(k, i, q)
    BY <1>1 DEF IInv, StageInv, Staged
<1>3. Meant(k, i)
    BY <1>1, <1>2 DEF Stage
<1>4. /\ prog' = [prog EXCEPT ![t] = q] /\ Owns(t, own[t])
      /\ astray' = (astray \/ ~(t \in disturbed \cup misled \/ Means(t)))
      /\ disturbed' = IF q = <<>> THEN disturbed \ {t} ELSE disturbed
      /\ lock' \in {lock, Nobody}
      /\ UNCHANGED <<available, active, regs, shown, last, fetched, nops, misled, loose, misfiled>>
    BY DEF UseStep, Go, Continue, Excused, hashes
<1>5. Means(t) <=> i.module = None \/ (i.module = active /\ regs[active] \in i.values)
    BY DEF Means
<1> HIDE DEF i, q
<1>6. Programs' /\ prog'[t] = q /\ \A u \in Thread \ {t} : prog'[u] = prog[u]
    BY <1>1, <1>4, Rewritten DEF IInv
<1>7. own \in [Thread -> Owner] /\ own[t] \in Owner /\ active \in Modules /\ regs[active] \in Values
    BY DEF IInv, TypeOK, Owner, Content
<1>8. /\ own' \in [Thread -> Owner] /\ own'[t] = IF q = <<>> THEN Idle ELSE own[t]
      /\ \A u \in Thread \ {t} : own'[u] = own[u]
    BY <1>4, <1>6, <1>7, Owned
<1>9. t \in disturbed \cup misled \/ Means(t)
    <2>1. ASSUME t \notin disturbed \cup misled, i.module # None
          PROVE  i.module = active /\ regs[active] \in i.values
        <3>1. own[t].at \in {None, active}
            BY <2>1 DEF IInv, StageInv
        <3>2. k.sure /\ k.own = own[t] /\ k.regs = regs
            BY <2>1 DEF View
        <3> HIDE DEF k
        <3>3. own[t].at = i.module /\ (i.values = Values \/ \E v \in i.values : Written(k, i.module, v))
            BY <1>3, <2>1, <3>2 DEF Meant
        <3> QED
            BY <1>7, <2>1, <3>1, <3>2, <3>3 DEF Written
    <2> QED
        BY <1>5, <2>1
<1>10. Staged(j, q)
    <2>1. q # <<>> => j.own = k.own /\ j.sure = k.sure
        BY <1>4, <1>8 DEF View
    <2> HIDE DEF j, k
    <2> QED
        BY <1>1, <1>2, <2>1, AfterUse
<1>11. StageInv'
    <2>1. t \notin disturbed' => own'[t].at \in {None, active'}
        BY <1>4, <1>8, IdleOwner DEF IInv, StageInv
    <2>2. ASSUME NEW u \in Thread \ {t}
          PROVE  /\ Staged(View(u)', prog'[u])
                 /\ u \notin disturbed' => own'[u].at \in {None, active'}
        <3>1. u \notin disturbed => own[u].at \in {None, active}
            BY DEF IInv, StageInv
        <3>2. u \notin disturbed' => u \notin disturbed
            BY <1>4
        <3> QED
            BY <1>4, <1>6, <1>8, <3>1, <3>2, Others DEF IInv
    <2> QED
        BY <1>6, <1>10, <2>1, <2>2, Together
<1>12. TypeOK' /\ RightModule'
    BY <1>4, <1>8, <1>9 DEF IInv, TypeOK, RightModule, Owner
<1> QED
    BY <1>6, <1>11, <1>12 DEF IInv

\* A step that neither writes nor makes a module active, and leaves `own` alone.
LEMMA GoKeeps ==
    ASSUME IInv, NEW t \in Thread, NEW r \in Seq(Instruction), t # "slot" => r \in Seq(Quiet),
           prog' = [prog EXCEPT ![t] = r], \A j : Staged(j, r),
           UNCHANGED <<active, lock, fetched, own, misled, astray, misfiled>>, nops' \in 0 .. MaxOps,
           available' \subseteq Modules, shown' \in Content, last' \in Content,
           regs' \in Content, loose' \subseteq Modules, disturbed' \subseteq Thread,
           t \in disturbed => t \in disturbed',
           \A u \in Thread \ {t} : u \notin disturbed' =>
              /\ u \notin disturbed
              /\ prog[u] # <<>> => available' = available
              /\ own[u].wrote \in Modules => regs' = regs
    PROVE  IInv'
<1>1. Programs' /\ prog'[t] = r /\ \A u \in Thread \ {t} : prog'[u] = prog[u]
    BY Rewritten DEF IInv
<1>2. t \notin disturbed' => own'[t].at \in {None, active'}
    BY DEF IInv, StageInv
<1>3. ASSUME NEW u \in Thread \ {t}
      PROVE  /\ Staged(View(u)', prog'[u])
             /\ u \notin disturbed' => own'[u].at \in {None, active'}
    <2>1. u \notin disturbed => own[u].at \in {None, active}
        BY DEF IInv, StageInv
    <2> QED
        BY <1>1, <2>1, Others DEF IInv
<1>4. StageInv'
    BY <1>1, <1>2, <1>3, Together
<1>5. TypeOK' /\ RightModule'
    BY DEF IInv, TypeOK, RightModule
<1> QED
    BY <1>1, <1>4, <1>5 DEF IInv

LEMMA ProbeKeeps ==
    ASSUME IInv, NEW t \in Thread, ProbeStep(t)
    PROVE  IInv'
<1> DEFINE i == Head(prog[t])
           q == Tail(prog[t])
<1>1. /\ i.op = "probe" /\ q \in Seq(Instruction) /\ (t # "slot" => q \in Seq(Quiet))
      /\ prog[t] # <<>>
    BY Running DEF IInv, ProbeStep, Head1
<1>2. Stage(View(t), i, q)
    BY <1>1 DEF IInv, StageInv, Staged
<1>3. PICK e \in Ends : q = For("ready", Modules) \o e
    BY <1>1, <1>2 DEF Stage
<1>4. q \in Rests
    <2> DEFINE l == [op |-> "for", kind |-> "ready", todo |-> Modules]
    <2>1. l \in PlainLoop
        BY DEF PlainLoop
    <2> QED
        BY <1>3, <2>1, RestsOf DEF For
<1>5. \A j : Staged(j, q)
    BY <1>4, AtRests
<1>6. /\ UNCHANGED <<active, lock, fetched, own, misled, astray, nops, regs, shown, last, loose, misfiled>>
      /\ available' \subseteq Modules /\ prog' = [prog EXCEPT ![t] = q]
      /\ disturbed' = disturbed \cup {u \in Thread \ {t} : available' # available /\ prog[u] # <<>>}
    BY DEF ProbeStep, Disturb, Go, Continue, hashes
<1>7. /\ nops \in 0 .. MaxOps /\ shown \in Content /\ last \in Content /\ regs \in Content
      /\ loose \subseteq Modules /\ disturbed \subseteq Thread
    BY DEF IInv, TypeOK
<1> HIDE DEF q
<1> QED
    BY <1>1, <1>5, <1>6, <1>7, GoKeeps

LEMMA LoadKeeps ==
    ASSUME IInv, NEW t \in Thread, LoadStep(t)
    PROVE  IInv'
<1> DEFINE i == Head(prog[t])
           q == Tail(prog[t])
<1>1. /\ i.op = "load" /\ q \in Seq(Instruction) /\ (t # "slot" => q \in Seq(Quiet))
      /\ i.file \in Files /\ prog[t] # <<>>
    BY Running, Fields DEF IInv, LoadStep, Head1
<1>2. Stage(View(t), i, q)
    BY <1>1 DEF IInv, StageInv, Staged
<1>3. q \in Rests
    BY <1>1, <1>2 DEF Stage, Rests, Ends
<1>4. \A j : Staged(j, q)
    BY <1>3, AtRests
<1>5. /\ UNCHANGED <<available, active, lock, fetched, own, misled, astray, nops, shown, last, misfiled>>
      /\ regs' = i.file /\ loose' = Modules /\ prog' = [prog EXCEPT ![t] = q]
      /\ disturbed' = disturbed \cup {u \in Thread \ {t} : own[u].wrote # None}
    BY DEF LoadStep, Disturb, Go, Continue, hashes
<1>6. /\ nops \in 0 .. MaxOps /\ shown \in Content /\ last \in Content /\ available \subseteq Modules
      /\ disturbed \subseteq Thread /\ regs' \in Content
    BY <1>1, <1>5, RegistersAssumption DEF IInv, TypeOK, Content
<1>7. \A u \in Thread \ {t} : u \notin disturbed' => u \notin disturbed /\ own[u].wrote \notin Modules
    BY <1>5, RegistersAssumption
<1> HIDE DEF q, i
<1> QED
    BY <1>1, <1>4, <1>5, <1>6, <1>7, GoKeeps

LEMMA CompareKeeps ==
    ASSUME IInv, NEW t \in Thread, CompareStep(t)
    PROVE  IInv'
<1> DEFINE i == [op |-> "for", kind |-> "entry", hash |-> shown,
                 todo |-> {m \in Modules : shown[m] # last[m]}]
           q == <<i>>
<1>1. prog[t] # <<>> /\ Head(prog[t]).op = "compare"
    BY DEF CompareStep, Head1
<1>2. t = "slot"
    BY <1>1, Running, Fields DEF IInv
<1>3. i \in EntryLoop
    BY DEF EntryLoop, IInv, TypeOK
<1>4. prog' = [prog EXCEPT ![t] = q]
    BY DEF CompareStep, Continue
<1>5. UNCHANGED <<available, active, regs, lock, shown, last, fetched, nops, own, disturbed, misled, astray, loose, misfiled>>
    BY DEF CompareStep, ppt, hashes, ghosts
<1> HIDE DEF i
<1>6. q \in Rests /\ q \in Seq(Instruction)
    BY <1>3, RestsOf, RestsAre
<1>7. \A j : Staged(j, q)
    BY <1>6, AtRests
<1>8. /\ nops \in 0 .. MaxOps /\ shown \in Content /\ last \in Content /\ available \subseteq Modules
      /\ disturbed \subseteq Thread /\ regs \in Content /\ loose \subseteq Modules
    BY DEF IInv, TypeOK
<1> HIDE DEF q
<1> QED
    BY <1>2, <1>4, <1>5, <1>6, <1>7, <1>8, GoKeeps

LEMMA EndKeeps ==
    ASSUME IInv, NEW t \in Thread, EndFor(t)
    PROVE  IInv'
<1> DEFINE i == Head(prog[t])
           q == Tail(prog[t])
<1>1. /\ i \in Instruction /\ i.op = "for" /\ q \in Seq(Instruction)
      /\ (t # "slot" => q \in Seq(Quiet)) /\ prog[t] # <<>>
    BY Running DEF IInv, EndFor, Head1
<1>2. Stage(View(t), i, q)
    BY <1>1 DEF IInv, StageInv, Staged
<1>3. q \in Rests
    BY <1>1, <1>2 DEF Stage, Rests
<1>4. \A j : Staged(j, q)
    BY <1>3, AtRests
<1>5. /\ UNCHANGED <<available, active, regs, lock, shown, fetched, nops, own, disturbed, misled, astray, loose, misfiled>>
      /\ last' = IF i.kind = "entry" THEN i.hash ELSE last
      /\ prog' = [prog EXCEPT ![t] = q]
    BY DEF EndFor, Baseline, Go, Continue, ppt, ghosts
<1>6. /\ nops \in 0 .. MaxOps /\ shown \in Content /\ last \in Content /\ available \subseteq Modules
      /\ disturbed \subseteq Thread /\ regs \in Content /\ loose \subseteq Modules
    BY DEF IInv, TypeOK
<1> HIDE DEF q, i
<1>7. i.kind = "entry" => i.hash \in Content
    BY <1>1, Fields, LoopFields DEF PlainLoop
<1>8. last' \in Content
    BY <1>5, <1>6, <1>7
<1> QED
    BY <1>1, <1>4, <1>5, <1>6, <1>8, GoKeeps

LEMMA ShowKeeps ==
    ASSUME IInv, NEW t \in Thread, ShowStep(t)
    PROVE  IInv'
<1> DEFINE i == Head(prog[t])
           q == Tail(prog[t])
<1>1. /\ i \in Instruction /\ i.op = "show" /\ q \in Seq(Instruction)
      /\ (t # "slot" => q \in Seq(Quiet)) /\ i.module \in Modules /\ prog[t] # <<>>
    BY Running, Fields DEF IInv, ShowStep, Head1
<1>2. Stage(View(t), i, q)
    BY <1>1 DEF IInv, StageInv, Staged
<1>3. q \in Rests
    BY <1>1, <1>2 DEF Stage
<1>4. \A j : Staged(j, q)
    BY <1>3, AtRests
<1>5. /\ UNCHANGED <<available, active, regs, lock, last, fetched, nops, own, disturbed, misled, astray, loose, misfiled>>
      /\ shown' = [shown EXCEPT ![i.module] = regs[i.module]]
      /\ prog' = [prog EXCEPT ![t] = q]
    BY DEF ShowStep, Go, Continue, ppt, ghosts
<1>6. /\ nops \in 0 .. MaxOps /\ shown \in Content /\ last \in Content /\ available \subseteq Modules
      /\ disturbed \subseteq Thread /\ regs \in Content /\ loose \subseteq Modules
    BY DEF IInv, TypeOK
<1> HIDE DEF q, i
<1>7. shown' \in Content
    BY <1>1, <1>5, <1>6 DEF Content
<1> QED
    BY <1>1, <1>4, <1>5, <1>6, <1>7, GoKeeps

\* A step after which nothing of an operation that is over matters.
LEMMA ForgetKeeps ==
    ASSUME IInv, NEW t \in Thread, NEW r \in Seq(Instruction), t # "slot" => r \in Seq(Quiet),
           prog' = [prog EXCEPT ![t] = r], \A j : Staged(j, r), Forget(t),
           UNCHANGED <<ppt, hashes, fetched, astray, loose, misfiled>>, nops' \in 0 .. MaxOps
    PROVE  IInv'
<1>1. Programs' /\ prog'[t] = r /\ \A u \in Thread \ {t} : prog'[u] = prog[u]
    BY Rewritten DEF IInv
<1>2. UNCHANGED <<available, active, regs, lock, shown, last, fetched, astray, loose, misfiled>>
    BY DEF ppt, hashes
<1>3. own \in [Thread -> Owner]
    BY DEF IInv, TypeOK, Owner
<1>4. /\ own' \in [Thread -> Owner] /\ own'[t] = Idle /\ disturbed' = disturbed \ {t}
      /\ misled' = misled \ {t}
      /\ \A u \in Thread \ {t} : own'[u] = own[u]
    BY <1>3, IdleOwner DEF Forget
<1>5. t \notin disturbed' => own'[t].at \in {None, active'}
    BY <1>4, IdleOwner
<1>6. ASSUME NEW u \in Thread \ {t}
      PROVE  /\ Staged(View(u)', prog'[u])
             /\ u \notin disturbed' => own'[u].at \in {None, active'}
    <2>1. u \notin disturbed => own[u].at \in {None, active}
        BY DEF IInv, StageInv
    <2>2. u \notin disturbed' => u \notin disturbed
        BY <1>4
    <2> QED
        BY <1>1, <1>2, <1>4, <2>1, <2>2, Others DEF IInv
<1>7. StageInv'
    BY <1>1, <1>5, <1>6, Together
<1>8. TypeOK' /\ RightModule'
    BY <1>2, <1>4 DEF IInv, TypeOK, RightModule, Owner
<1> QED
    BY <1>1, <1>7, <1>8 DEF IInv

LEMMA BeginKeeps ==
    ASSUME IInv, NEW t \in Thread, Begin(t)
    PROVE  IInv'
<1>1. PICK body \in Body(t) : prog' = [prog EXCEPT ![t] = body]
    BY DEF Begin, Continue
<1>2. /\ \A j : Staged(j, body)
      /\ body \in Seq(Instruction) /\ (t # "slot" => body \in Seq(Quiet))
    BY <1>1, Bodies DEF IInv, TypeOK
<1>3. /\ Forget(t) /\ UNCHANGED <<ppt, hashes, fetched, astray, loose, misfiled>>
      /\ nops' \in 0 .. MaxOps
    BY RegistersAssumption DEF Begin, IInv, TypeOK
<1> QED
    BY <1>1, <1>2, <1>3, ForgetKeeps

\* The least of some numbers.
LEMMA FirstOf ==
    ASSUME NEW ms \in SUBSET Modules, ms # {}
    PROVE  First(ms) \in ms
<1> DEFINE R == {s \in Nat \X Nat : s[1] < s[2]}
<1>1. IsWellFoundedOn(R, Nat)
    BY NatLessThanWellFounded DEF OpToRel
<1>2. ms \subseteq Nat
    BY RegistersAssumption
<1>3. \E m \in ms : \A n \in ms : <<n, m>> \notin R
    <2> HIDE DEF R
    <2> QED
        BY <1>1, <1>2, WFMin
<1>4. \A m, n \in ms : <<n, m>> \notin R => m <= n
    BY <1>2
<1>5. \E m \in ms : \A n \in ms : m <= n
    BY <1>3, <1>4
<1> QED
    BY <1>5 DEF First

LEMMA ForKeeps ==
    ASSUME IInv, NEW t \in Thread, ForStep(t)
    PROVE  IInv'
<1> DEFINE i == Head(prog[t])
           q == Tail(prog[t])
           m == First(i.todo)
           l == [i EXCEPT !.todo = @ \ {m}]
           r == Item(i, m) \o <<l>> \o q
<1>1. /\ i \in Instruction /\ i.op = "for" /\ q \in Seq(Instruction) /\ prog[t] # <<>>
      /\ (t # "slot" => i \in Quiet /\ q \in Seq(Quiet))
    BY Running DEF IInv, ForStep, Head1
<1>2. Stage(View(t), i, q)
    BY <1>1 DEF IInv, StageInv, Staged
<1>3. /\ i.todo # {} /\ prog' = [prog EXCEPT ![t] = r] /\ Forget(t)
      /\ UNCHANGED <<ppt, hashes, fetched, nops, astray, loose, misfiled>>
    BY DEF ForStep, Continue
<1> HIDE DEF i, q
<1>4. q \in Ends /\ (i \in EntryLoop => q = <<>>)
    BY <1>1, <1>2 DEF Stage
<1>5. i \in PlainLoop \/ i \in EntryLoop
    BY <1>1, Fields
<1>6. i.todo \subseteq Modules
    BY <1>5, LoopFields
<1>7. m \in i.todo /\ m \in Modules
    BY <1>3, <1>6, FirstOf
<1> HIDE DEF m
<1>8. /\ i \in PlainLoop => l \in PlainLoop
      /\ i \in EntryLoop => l \in EntryLoop /\ l.hash = i.hash /\ l.todo = i.todo \ {m}
    BY LoopOn
<1> HIDE DEF l
<1>9. /\ r \in Seq(Instruction) /\ (t # "slot" => r \in Seq(Quiet)) /\ \A j : Staged(j, r)
    <2>1. CASE i \in PlainLoop
        <3> DEFINE e == <<l>> \o q
        <3>1. e \in Rests /\ e \in Seq(Quiet)
            BY <1>4, <1>8, <2>1, LoopLeft DEF PlainLoop, EntryLoop
        <3>2. Item(i, m) \in Seq(Quiet)
            BY <1>7, <2>1, <3>1, PlainTurn
        <3>3. r = Item(i, m) \o e
            <4>1. <<l>> \in Seq(Quiet) /\ q \in Seq(Quiet)
                BY <1>4, <1>8, <2>1, Alone, RestsAre DEF Quiet
            <4> QED
                BY <3>2, <4>1, Regroup
        <3> HIDE DEF e
        <3>4. Item(i, m) \o e \in Seq(Quiet)
            BY <3>1, <3>2, Joined
        <3>5. \A j : Staged(j, Item(i, m) \o e)
            BY <1>7, <2>1, <3>1, PlainTurn
        <3> HIDE DEF r
        <3> QED
            BY <3>3, <3>4, <3>5, QuietIs
    <2>2. CASE i \in EntryLoop
        <3>1. m \notin l.todo /\ l \in EntryLoop /\ l.hash = i.hash /\ q = <<>>
            BY <1>4, <1>8, <2>2
        <3>2. /\ \A j : Staged(j, Item(i, m) \o <<l>>)
              /\ Item(i, m) \o <<l>> \in Seq(Instruction)
            BY <1>7, <2>2, <3>1, EntryTurn
        <3>3. r = Item(i, m) \o <<l>>
            BY <3>1, <3>2, ConcatEmptySeq
        <3>4. t = "slot"
            BY <1>1, <2>2, Fields, LoopFields
        <3> HIDE DEF r
        <3> QED
            BY <3>2, <3>3, <3>4
    <2> QED
        BY <1>5, <2>1, <2>2
<1>10. nops' \in 0 .. MaxOps
    BY <1>3 DEF IInv, TypeOK
<1> HIDE DEF r
<1> QED
    BY <1>3, <1>9, <1>10, ForgetKeeps

LEMMA ChangeKeeps ==
    ASSUME IInv, Change
    PROVE  IInv'
<1>1. /\ UNCHANGED <<available, active, regs, lock, last, prog, fetched, own, disturbed, misled, astray, loose, misfiled>>
      /\ shown' \in Content /\ nops' \in 0 .. MaxOps
    BY RegistersAssumption DEF Change, ppt, ghosts, IInv, TypeOK, Content
<1>2. \A u \in Thread : View(u)' = View(u)
    BY <1>1 DEF View
<1>3. StageInv'
    BY <1>1, <1>2 DEF IInv, StageInv
<1> QED
    BY <1>1, <1>3 DEF IInv, TypeOK, Programs, RightModule

LEMMA InvInit ==
    ASSUME Init
    PROVE  IInv
<1>1. TypeOK
    <2>1. regs \in Content /\ shown \in Content /\ last \in Content
        BY RegistersAssumption DEF Init, Content
    <2>2. own \in [Thread -> [at : Modules \cup {None}, wrote : Modules \cup {None}]]
        BY DEF Init, Idle
    <2>3. /\ fetched \in [Thread -> Modules \cup {None}] /\ nops \in 0 .. MaxOps
          /\ disturbed = {} /\ misled = {} /\ loose = {} /\ misfiled = {} /\ astray = FALSE
          /\ available \subseteq Modules /\ active \in Modules /\ lock = Nobody
        BY RegistersAssumption DEF Init
    <2> QED
        BY <2>1, <2>2, <2>3 DEF TypeOK
<1>2. Programs
    BY EmptySeq DEF Init, Programs
<1>3. StageInv
    BY DEF Init, StageInv, Staged, Idle
<1> QED
    BY <1>1, <1>2, <1>3 DEF Init, IInv, RightModule

LEMMA InvNext ==
    ASSUME IInv, [Next]_vars
    PROVE  IInv'
<1>1. ASSUME NEW t \in Thread, Step(t) PROVE IInv'
    BY <1>1, BeginKeeps, SetKeeps, CheckKeeps, FetchKeeps, PutKeeps, EntryKeeps, UseKeeps,
       ProbeKeeps, LoadKeeps, ForKeeps, CompareKeeps, EndKeeps, ShowKeeps DEF Step
<1>2. CASE UNCHANGED vars
    <2>1. UNCHANGED <<available, active, regs, shown, last, lock, prog, fetched, nops, own,
                      disturbed, misled, astray, loose, misfiled>>
        BY <1>2 DEF vars, ppt, hashes, ghosts
    <2>2. \A u \in Thread : View(u)' = View(u)
        BY <2>1 DEF View
    <2>3. StageInv'
        BY <2>1, <2>2 DEF IInv, StageInv
    <2> QED
        BY <2>1, <2>3 DEF IInv, TypeOK, Programs, RightModule
<1> QED
    BY <1>1, <1>2, ChangeKeeps DEF Next

LEMMA Invariant == Spec => []IInv
BY InvInit, InvNext, PTL DEF Spec

\* The types: the registers and the hashes have a value for every module, the
\* mutex has one holder, and no thread writes through registers it has not got.
THEOREM RegistersTyped == Spec => []TypeOK
<1>1. IInv => TypeOK
    BY DEF IInv
<1> QED
    BY <1>1, Invariant, PTL

\* Whoever is given a module writes, programs or reads that module with the
\* value it was given, for any modules, values and files.  The exceptions are
\* those of RightModule: an operation another thread came in between, what
\* preProgSelReg writes when there is no IOB, and the entries of a reconfiguration
\* for a module that was not active before or has no IOB.
THEOREM WorksOnRightModule == Spec => []RightModule
<1>1. IInv => RightModule
    BY DEF IInv
<1> QED
    BY <1>1, Invariant, PTL

-----------------------------------------------------------------------------
(* BaselineTrue *)

\* Which step it is, by the instruction.
LEMMA WhichStep ==
    ASSUME NEW t \in Thread, Step(t)
    PROVE  /\ prog[t] = <<>> => Begin(t)
           /\ prog[t] # <<>> =>
                 LET op == Head(prog[t]).op
                 IN  \/ op = "set" /\ SetStep(t)
                     \/ op = "check" /\ CheckStep(t)
                     \/ op = "fetch" /\ FetchStep(t)
                     \/ op = "put" /\ PutStep(t)
                     \/ op = "entry" /\ EntryStep(t)
                     \/ op \in {"use", "peek"} /\ UseStep(t)
                     \/ op = "probe" /\ ProbeStep(t)
                     \/ op = "load" /\ LoadStep(t)
                     \/ op = "for" /\ (ForStep(t) \/ EndFor(t))
                     \/ op = "compare" /\ CompareStep(t)
                     \/ op = "show" /\ ShowStep(t)
<1> DEFINE op == Head(prog[t]).op
<1>1. /\ SetStep(t) => prog[t] # <<>> /\ op = "set"
      /\ CheckStep(t) => prog[t] # <<>> /\ op = "check"
      /\ FetchStep(t) => prog[t] # <<>> /\ op = "fetch"
    BY DEF SetStep, CheckStep, FetchStep, Head1
<1>2. /\ PutStep(t) => prog[t] # <<>> /\ op = "put"
      /\ EntryStep(t) => prog[t] # <<>> /\ op = "entry"
      /\ UseStep(t) => prog[t] # <<>> /\ op \in {"use", "peek"}
    BY DEF PutStep, EntryStep, UseStep, Head1
<1>3. /\ ProbeStep(t) => prog[t] # <<>> /\ op = "probe"
      /\ LoadStep(t) => prog[t] # <<>> /\ op = "load"
      /\ ForStep(t) \/ EndFor(t) => prog[t] # <<>> /\ op = "for"
    BY DEF ProbeStep, LoadStep, ForStep, EndFor, Head1
<1>4. /\ CompareStep(t) => prog[t] # <<>> /\ op = "compare"
      /\ ShowStep(t) => prog[t] # <<>> /\ op = "show"
      /\ Begin(t) => prog[t] = <<>>
    BY DEF CompareStep, ShowStep, Begin, Head1
<1> HIDE DEF op
<1> QED
    BY <1>1, <1>2, <1>3, <1>4 DEF Step, op

\* What a program does that writes nothing back: it leaves the baseline alone,
\* and the registers of the modules that count.
LEMMA QuietStep ==
    ASSUME IInv, NEW t \in Thread, Step(t), prog[t] \in Seq(Quiet)
    PROVE  /\ last' = last
           /\ \A m \in Followed' : m \in Followed /\ regs'[m] = regs[m]
           /\ \A u \in Thread \ {t} : prog'[u] = prog[u]
           /\ prog'[t] \in Seq(Quiet) \/ (t = "slot" /\ prog'[t] = UpdateConfigFromHash)
<1> DEFINE Goal == /\ last' = last
                   /\ \A m \in Followed' : m \in Followed /\ regs'[m] = regs[m]
                   /\ \A u \in Thread \ {t} : prog'[u] = prog[u]
                   /\ prog'[t] \in Seq(Quiet) \/ (t = "slot" /\ prog'[t] = UpdateConfigFromHash)
<1>1. ASSUME NEW r \in Seq(Quiet), prog' = [prog EXCEPT ![t] = r], last' = last,
             \A m \in Followed' : m \in Followed /\ regs'[m] = regs[m]
      PROVE  Goal
    BY <1>1 DEF IInv, Programs
<1>2. CASE prog[t] = <<>>
    <2>1. Begin(t)
        BY <1>2, WhichStep
    <2>2. PICK body \in Body(t) : prog' = [prog EXCEPT ![t] = body]
        BY <2>1 DEF Begin, Continue
    <2>3. body \in Seq(Quiet) \/ (t = "slot" /\ body = UpdateConfigFromHash)
        BY Bodies DEF IInv, TypeOK
    <2>4. last' = last /\ regs' = regs /\ loose' = loose /\ misfiled' = misfiled
        BY <2>1 DEF Begin, ppt, hashes
    <2> QED
        BY <2>2, <2>3, <2>4 DEF IInv, Programs, Followed
<1>3. CASE prog[t] # <<>>
    <2> DEFINE i == Head(prog[t])
               q == Tail(prog[t])
    <2>1. i \in Quiet /\ q \in Seq(Quiet) /\ i \in Instruction
        <3>1. i \in Quiet /\ q \in Seq(Quiet)
            BY <1>3, HeadTailProperties
        <3> QED
            BY <3>1 DEF Instruction
    <2>2. ~(i.op \in {"compare", "entry"}) /\ ~(i.op = "for" /\ i.kind = "entry")
        BY <2>1, Fields
    <2> HIDE DEF Goal
    <2>3. ASSUME SetStep(t) \/ FetchStep(t) \/ UseStep(t) \/ ProbeStep(t) \/ ShowStep(t) PROVE Goal
        <3>1. /\ prog' = [prog EXCEPT ![t] = q] /\ last' = last /\ regs' = regs /\ loose' = loose /\ misfiled' = misfiled
            BY <2>3
               DEF SetStep, FetchStep, UseStep, ProbeStep, ShowStep, Go, Continue, ppt, hashes, ghosts
        <3> HIDE DEF q
        <3> QED
            BY <1>1, <2>1, <3>1 DEF Followed
    <2>4. ASSUME CheckStep(t) PROVE Goal
        <3> DEFINE s == SubSeq(prog[t], i.skip + 2, Len(prog[t]))
        <3>1. /\ \/ prog' = [prog EXCEPT ![t] = q]
                 \/ prog' = [prog EXCEPT ![t] = s]
              /\ last' = last /\ regs' = regs /\ loose' = loose /\ misfiled' = misfiled /\ i.op = "check"
            BY <2>4 DEF CheckStep, Head1, Continue, ppt, hashes
        <3>2. s \in Seq(Quiet)
            <4>1. i.skip \in Nat
                BY <2>1, <3>1, Fields
            <4> HIDE DEF i
            <4>2. s = SubSeq(q, i.skip + 1, Len(q))
                BY <1>3, <4>1, TailFrom
            <4> HIDE DEF q, s
            <4> QED
                BY <2>1, <4>1, <4>2, SeqFrom
        <3> HIDE DEF q, s
        <3> QED
            BY <1>1, <2>1, <3>1, <3>2 DEF Followed
    <2>5. ASSUME PutStep(t) PROVE Goal
        <3>1. /\ prog' = [prog EXCEPT ![t] = q] /\ last' = last
              /\ regs' = [regs EXCEPT ![fetched[t]] = i.value] /\ loose' = loose \cup {fetched[t]}
              /\ misfiled' = misfiled
            BY <2>5 DEF PutStep, Store, Go, Continue, hashes
        <3>2. \A m \in Followed' : m \in Followed /\ regs'[m] = regs[m]
            BY <3>1 DEF IInv, TypeOK, Content, Followed
        <3> HIDE DEF q
        <3> QED
            BY <1>1, <2>1, <3>1, <3>2 DEF Followed
    <2>6. ASSUME LoadStep(t) PROVE Goal
        <3>1. prog' = [prog EXCEPT ![t] = q] /\ last' = last /\ loose' = Modules
            BY <2>6 DEF LoadStep, Go, Continue, hashes
        <3> HIDE DEF q
        <3> QED
            BY <1>1, <2>1, <3>1 DEF Followed
    <2>7. ASSUME EndFor(t) PROVE Goal
        <3>1. i.op = "for" /\ i.kind # "entry"
            BY <2>2, <2>7 DEF EndFor, Head1
        <3>2. /\ prog' = [prog EXCEPT ![t] = q] /\ last' = last /\ regs' = regs /\ loose' = loose /\ misfiled' = misfiled
            BY <2>7, <3>1 DEF EndFor, Go, Continue, ppt, ghosts
        <3> HIDE DEF q
        <3> QED
            BY <1>1, <2>1, <3>2 DEF Followed
    <2>8. ASSUME ForStep(t) PROVE Goal
        <3> DEFINE m == First(i.todo)
                   l == [i EXCEPT !.todo = @ \ {m}]
                   r == Item(i, m) \o <<l>> \o q
        <3>1. /\ prog' = [prog EXCEPT ![t] = r] /\ i.todo # {} /\ i.op = "for"
              /\ last' = last /\ regs' = regs /\ loose' = loose /\ misfiled' = misfiled
            BY <2>8 DEF ForStep, Head1, Continue, ppt, hashes
        <3> HIDE DEF i, q
        <3>2. i \in PlainLoop
            <4>1. i \in PlainLoop \/ i \in EntryLoop
                BY <2>1, <3>1, Fields
            <4> QED
                BY <2>2, <3>1, <4>1, LoopFields
        <3>3. m \in Modules
            BY <3>1, <3>2, LoopFields, FirstOf
        <3> HIDE DEF m
        <3>4. l \in PlainLoop
            BY <3>2, LoopOn
        <3> HIDE DEF l
        <3>5. Item(i, m) \in Seq(Quiet)
            <4>1. <<>> \in Rests
                BY DEF Rests, Ends
            <4> QED
                BY <3>2, <3>3, <4>1, PlainTurn
        <3>6. <<l>> \in Seq(Quiet)
            BY <3>4, Alone DEF Quiet
        <3>7. r \in Seq(Quiet)
            BY <2>1, <3>5, <3>6, Joined
        <3> HIDE DEF r
        <3> QED
            BY <1>1, <3>1, <3>7 DEF Followed
    <2> QED
        BY <1>3, <2>2, <2>3, <2>4, <2>5, <2>6, <2>7, <2>8, WhichStep DEF Goal
<1> QED
    BY <1>2, <1>3

\* What neither moves the slot on nor changes what counts.
LEMMA BaseStays ==
    ASSUME BaseInv, prog'["slot"] = prog["slot"], last' = last,
           \A m \in Followed' : m \in Followed /\ regs'[m] = regs[m]
    PROVE  BaseInv'
<1>1. ASSUME NEW hash, NEW todo, Reached(hash, todo) PROVE Reached(hash, todo)'
    BY <1>1 DEF Reached, Followed
<1>2. ASSUME Reached(regs, Modules) PROVE Reached(regs, Modules)'
    BY <1>2 DEF Reached, Followed
<1>3. ASSUME NEW i \in EntryLoop, Reached(i.hash, i.todo),
             \/ prog["slot"] = <<i>>
             \/ \E m \in Modules : m \notin i.todo /\ prog["slot"] = Use(m, {i.hash[m]}) \o <<i>>
      PROVE  BaseInv'
    <2>1. Reached(i.hash, i.todo)'
        BY <1>1, <1>3
    <2> QED
        BY <1>3, <2>1 DEF BaseInv
<1>4. ASSUME NEW i \in EntryLoop, NEW m \in Modules, m \notin i.todo,
             prog["slot"] \in Entering(m, i.hash[m], i), Reached(i.hash, i.todo \cup {m})
      PROVE  BaseInv'
    <2>1. Reached(i.hash, i.todo \cup {m})'
        BY <1>1, <1>4
    <2> QED
        BY <1>4, <2>1 DEF BaseInv
<1>5. ASSUME prog["slot"] \in Seq(Quiet) \/ \E c \in [op : {"compare"}] : prog["slot"] = <<c>>,
             Reached(regs, Modules)
      PROVE  BaseInv'
    <2>1. Reached(regs, Modules)'
        BY <1>2, <1>5
    <2> QED
        BY <1>5, <2>1 DEF BaseInv
<1> QED
    BY <1>3, <1>4, <1>5 DEF BaseInv

\* The slot compares what is shown with the baseline.
LEMMA BaseCompared ==
    ASSUME IInv, CompareStep("slot"), Reached(regs, Modules)
    PROVE  BaseInv'
<1> DEFINE i == [op |-> "for", kind |-> "entry", hash |-> shown,
                 todo |-> {m \in Modules : shown[m] # last[m]}]
<1>1. i \in EntryLoop /\ i.hash = shown /\ i.todo = {m \in Modules : shown[m] # last[m]}
    BY DEF EntryLoop, IInv, TypeOK
<1>2. /\ prog' = [prog EXCEPT !["slot"] = <<i>>]
      /\ regs' = regs /\ loose' = loose /\ misfiled' = misfiled /\ last' = last
    BY DEF CompareStep, Continue, ppt, hashes, ghosts
<1> HIDE DEF i
<1>3. PICK j \in EntryLoop : j = i
    BY <1>1
<1>4. prog'["slot"] = <<j>>
    BY <1>2, <1>3 DEF IInv, Programs, Thread
<1>5. Reached(j.hash, j.todo)'
    BY <1>1, <1>2, <1>3 DEF Reached, Followed
<1> QED
    BY <1>4, <1>5 DEF BaseInv

\* A turn of the loop over the entries, or the end of it.
LEMMA BaseLoops ==
    ASSUME IInv, Step("slot"), NEW i \in EntryLoop, prog["slot"] = <<i>>,
           Reached(i.hash, i.todo)
    PROVE  BaseInv'
<1>1. /\ Head(prog["slot"]) = i /\ Tail(prog["slot"]) = <<>> /\ prog["slot"] # <<>>
      /\ i.op = "for" /\ i.kind = "entry" /\ i.todo \subseteq Modules /\ "slot" \in Thread
    BY LoopFields DEF Thread
<1>2. ForStep("slot") \/ EndFor("slot")
    <2>1. Head(prog["slot"]).op = "for"
        BY <1>1
    <2> QED
        BY <1>1, <2>1, WhichStep
<1>3. ASSUME EndFor("slot") PROVE BaseInv'
    <2>1. /\ prog' = [prog EXCEPT !["slot"] = <<>>] /\ i.todo = {} /\ last' = i.hash
          /\ regs' = regs /\ loose' = loose /\ misfiled' = misfiled
        BY <1>1, <1>3 DEF EndFor, Baseline, Go, Continue, ppt, ghosts
    <2>2. prog'["slot"] = <<>> /\ <<>> \in Seq(Quiet)
        BY <1>1, <2>1, EmptySeq DEF IInv, Programs
    <2>3. Reached(regs, Modules)'
        BY <2>1 DEF Reached, Followed
    <2> QED
        BY <2>2, <2>3 DEF BaseInv
<1>4. ASSUME ForStep("slot") PROVE BaseInv'
    <2> DEFINE m == First(i.todo)
               l == [i EXCEPT !.todo = @ \ {m}]
    <2>1. /\ prog' = [prog EXCEPT !["slot"] = Item(i, m) \o <<l>> \o <<>>] /\ i.todo # {}
          /\ last' = last /\ regs' = regs /\ loose' = loose /\ misfiled' = misfiled
        BY <1>1, <1>4 DEF ForStep, Continue, ppt, hashes
    <2>2. m \in i.todo /\ m \in Modules
        BY <1>1, <2>1, FirstOf
    <2> HIDE DEF m
    <2>3. l \in EntryLoop /\ l.hash = i.hash /\ l.todo = i.todo \ {m}
        BY LoopOn
    <2> HIDE DEF l
    <2> DEFINE r == Entry(m, l.hash[m]) \o (Use(m, {l.hash[m]}) \o <<l>>)
               x == Item(i, m) \o <<l>>
    <2>4. x = Fetch \o (Check(m, Set(m)) \o r) /\ x \in Seq(Instruction)
        BY <2>2, <2>3, EntryTurn
    <2>5. x \o <<>> = x
        BY <2>4, ConcatEmptySeq
    <2>6. prog'["slot"] = x
        BY <1>1, <2>1, <2>5 DEF IInv, Programs
    <2>7. prog'["slot"] \in Entering(m, l.hash[m], l)
        BY <2>4, <2>6 DEF Entering
    <2>8. l.todo \cup {m} = i.todo
        BY <2>2, <2>3
    <2>9. Reached(l.hash, l.todo \cup {m})'
        BY <2>1, <2>3, <2>8 DEF Reached, Followed
    <2> QED
        BY <2>2, <2>3, <2>7, <2>9 DEF BaseInv
<1> QED
    BY <1>2, <1>3, <1>4

\* The entry has been written.
LEMMA BaseUses ==
    ASSUME IInv, Step("slot"), NEW i \in EntryLoop, NEW m \in Modules,
           prog["slot"] = Use(m, {i.hash[m]}) \o <<i>>, Reached(i.hash, i.todo)
    PROVE  BaseInv'
<1> DEFINE u == [op |-> "use", module |-> m, values |-> {i.hash[m]}]
<1>0. i.hash[m] \in Values
    BY LoopFields DEF Content
<1>1. u \in Instruction /\ u.op = "use" /\ <<i>> \in Seq(Instruction)
    BY <1>0, Alone DEF Instruction, Quiet
<1>2. prog["slot"] = <<u>> \o <<i>>
    BY DEF Use
<1> HIDE DEF u
<1>3. Head(prog["slot"]) = u /\ Tail(prog["slot"]) = <<i>> /\ prog["slot"] # <<>>
    BY <1>1, <1>2, Cons
<1>4. UseStep("slot")
    <2>1. Head(prog["slot"]).op = "use" /\ "slot" \in Thread
        BY <1>1, <1>3 DEF Thread
    <2> QED
        BY <1>3, <2>1, WhichStep
<1>5. /\ prog' = [prog EXCEPT !["slot"] = <<i>>]
      /\ last' = last /\ regs' = regs /\ loose' = loose /\ misfiled' = misfiled
    BY <1>3, <1>4 DEF UseStep, Go, Continue, hashes
<1>6. prog'["slot"] = <<i>>
    BY <1>5 DEF IInv, Programs, Thread
<1>7. Reached(i.hash, i.todo)'
    BY <1>5 DEF Reached, Followed
<1> QED
    BY <1>6, <1>7 DEF BaseInv

\* An entry is to be written: its module counts as written from then on, if its
\* registers are the ones fetched.
LEMMA BaseEnters ==
    ASSUME IInv, Step("slot"), NEW i \in EntryLoop, NEW m \in Modules, m \notin i.todo,
           prog["slot"] \in Entering(m, i.hash[m], i), Reached(i.hash, i.todo \cup {m})
    PROVE  BaseInv'
<1> DEFINE v == i.hash[m]
           e == Use(m, {v}) \o <<i>>
           r == Entry(m, v) \o e
           c == Check(m, Set(m)) \o r
           s == Set(m) \o r
           fi == [op |-> "fetch"]
           ci == [op |-> "check", module |-> m, skip |-> Len(Set(m))]
           si == [op |-> "set", module |-> m, locked |-> FALSE]
           ei == [op |-> "entry", module |-> m, value |-> v]
           ui == [op |-> "use", module |-> m, values |-> {v}]
<1>0. "slot" \in Thread /\ prog \in [Thread -> Seq(Instruction)] /\ v \in Values
      /\ i \in Instruction
    BY LoopFields DEF Thread, IInv, Programs, Content, Instruction
<1>1. /\ fi \in Instruction /\ si \in Instruction /\ ei \in Instruction /\ ui \in Instruction
      /\ Len(Set(m)) = 1 /\ ci \in Instruction
    <2>1. Len(Set(m)) = 1
        BY DEF Set
    <2>2. fi \in Quiet /\ si \in Quiet /\ ui \in Quiet /\ ci \in Quiet
        BY <1>0, <2>1 DEF Quiet
    <2>3. ei \in EntryPut
        BY <1>0 DEF EntryPut
    <2> QED
        BY <2>1, <2>2, <2>3 DEF Instruction
<1>2. /\ fi.op = "fetch" /\ ci.op = "check" /\ ci.skip = 1 /\ ci.module = m
      /\ ei.op = "entry" /\ ei.module = m /\ ei.value = v /\ si.op = "set"
    BY <1>1
<1>3. /\ Fetch = <<fi>> /\ Set(m) = <<si>> /\ Entry(m, v) = <<ei>> /\ Use(m, {v}) = <<ui>>
      /\ Check(m, Set(m)) = <<ci>> \o Set(m)
    BY DEF Fetch, Set, Entry, Use, Check
<1> HIDE DEF v, fi, ci, si, ei, ui
<1>4. e \in Seq(Instruction)
    BY <1>0, <1>1, <1>3, Alone, Joined
<1> HIDE DEF e
<1>5. r \in Seq(Instruction) /\ Head(r) = ei /\ Tail(r) = e /\ r # <<>>
    BY <1>1, <1>3, <1>4, Cons
<1> HIDE DEF r
<1>6. s \in Seq(Instruction) /\ Head(s) = si /\ Tail(s) = r /\ s # <<>> /\ s = <<si>> \o r
    BY <1>1, <1>3, <1>5, Cons
<1> HIDE DEF s
<1>7. c = <<ci>> \o s
    <2>1. <<ci>> \in Seq(Instruction) /\ Set(m) \in Seq(Instruction)
        BY <1>1, <1>3, Alone
    <2>2. (<<ci>> \o Set(m)) \o r = <<ci>> \o (Set(m) \o r)
        BY <1>5, <2>1, Nest
    <2> QED
        BY <1>3, <2>2 DEF s
<1> HIDE DEF c
<1>8. c \in Seq(Instruction) /\ Head(c) = ci /\ Tail(c) = s /\ c # <<>>
    BY <1>1, <1>6, <1>7, Cons
<1>9. Head(Fetch \o c) = fi /\ Tail(Fetch \o c) = c /\ Fetch \o c # <<>>
    BY <1>1, <1>3, <1>8, Cons
<1>10. Entering(m, v, i) = {Fetch \o c, c, s, r}
    BY DEF Entering, c, s, r, e
<1>11. ASSUME prog'["slot"] \in {c, s, r}, last' = last, regs' = regs, loose' = loose, misfiled' = misfiled
       PROVE  BaseInv'
    <2>1. prog'["slot"] \in Entering(m, i.hash[m], i)
        BY <1>10, <1>11 DEF v
    <2>2. Reached(i.hash, i.todo \cup {m})'
        BY <1>11 DEF Reached, Followed
    <2> QED
        BY <2>1, <2>2 DEF BaseInv
<1>12. CASE prog["slot"] = Fetch \o c
    <2>1. FetchStep("slot")
        <3>1. Head(prog["slot"]).op = "fetch" /\ prog["slot"] # <<>>
            BY <1>2, <1>9, <1>12
        <3> QED
            BY <1>0, <3>1, WhichStep
    <2>2. prog' = [prog EXCEPT !["slot"] = c] /\ last' = last /\ regs' = regs
          /\ loose' = loose /\ misfiled' = misfiled
        BY <1>9, <1>12, <2>1 DEF FetchStep, Go, Continue, ppt, hashes, ghosts
    <2> QED
        BY <1>0, <1>11, <2>2
<1>13. CASE prog["slot"] = c
    <2>1. CheckStep("slot")
        <3>1. Head(prog["slot"]).op = "check" /\ prog["slot"] # <<>>
            BY <1>2, <1>8, <1>13
        <3> QED
            BY <1>0, <3>1, WhichStep
    <2>2. /\ \/ prog' = [prog EXCEPT !["slot"] = s]
             \/ prog' = [prog EXCEPT !["slot"] = SubSeq(c, 1 + 2, Len(c))]
          /\ last' = last /\ regs' = regs /\ loose' = loose /\ misfiled' = misfiled
        BY <1>2, <1>8, <1>13, <2>1 DEF CheckStep, Continue, ppt, hashes
    <2>3. SubSeq(c, 1 + 2, Len(c)) = r
        <3>1. SubSeq(Tail(c), 1 + 1, Len(Tail(c))) = SubSeq(c, 1 + 2, Len(c))
            BY <1>8, TailFrom
        <3>2. SubSeq(<<si>> \o r, Len(<<si>>) + 1, Len(<<si>> \o r)) = r
            BY <1>1, <1>5, Alone, Skipped
        <3>3. Len(<<si>>) = 1
            BY <1>1, Alone
        <3> QED
            BY <1>6, <1>8, <3>1, <3>2, <3>3
    <2> QED
        BY <1>0, <1>11, <2>2, <2>3
<1>14. CASE prog["slot"] = s
    <2>1. SetStep("slot")
        <3>1. Head(prog["slot"]).op = "set" /\ prog["slot"] # <<>>
            BY <1>2, <1>6, <1>14
        <3> QED
            BY <1>0, <3>1, WhichStep
    <2>2. prog' = [prog EXCEPT !["slot"] = r] /\ last' = last /\ regs' = regs
          /\ loose' = loose /\ misfiled' = misfiled
        BY <1>6, <1>14, <2>1 DEF SetStep, Go, Continue, hashes
    <2> QED
        BY <1>0, <1>11, <2>2
<1>15. CASE prog["slot"] = r
    <2> DEFINE f == fetched["slot"]
    <2>1. EntryStep("slot")
        <3>1. Head(prog["slot"]).op = "entry" /\ prog["slot"] # <<>>
            BY <1>2, <1>5, <1>15
        <3> QED
            BY <1>0, <3>1, WhichStep
    <2>2. /\ prog' = [prog EXCEPT !["slot"] = e] /\ last' = last
          /\ regs' = [regs EXCEPT ![f] = v]
          /\ loose' = IF f = m THEN loose \ {m} ELSE loose \cup {f}
          /\ misfiled' = IF f = m THEN misfiled \ {m} ELSE misfiled \cup {m}
        BY <1>2, <1>5, <1>15, <2>1 DEF EntryStep, Store, Go, Continue, hashes
    <2>3. prog'["slot"] = e
        BY <1>0, <2>2
    <2>4. regs \in Content
        BY DEF IInv, TypeOK
    <2> HIDE DEF f
    <2>5. ASSUME NEW n \in Followed'
          PROVE  regs'[n] = IF n \in i.todo THEN last'[n] ELSE i.hash[n]
        <3>1. CASE n = m
            <4>1. f = m
                BY <2>2, <3>1 DEF Followed
            <4> QED
                BY <2>2, <2>4, <3>1, <4>1 DEF v, Content
        <3>2. CASE n # m
            <4>1. n \in Followed /\ n # f
                BY <2>2, <3>2 DEF Followed
            <4>2. regs[n] = IF n \in i.todo \cup {m} THEN last[n] ELSE i.hash[n]
                BY <4>1 DEF Reached, Followed
            <4>3. regs'[n] = regs[n]
                BY <2>2, <2>4, <4>1 DEF Content, Followed
            <4> QED
                BY <2>2, <3>2, <4>2, <4>3
        <3> QED
            BY <3>1, <3>2
    <2>6. Reached(i.hash, i.todo)'
        BY <2>5 DEF Reached, Followed
    <2>7. prog'["slot"] = Use(m, {i.hash[m]}) \o <<i>>
        BY <2>3 DEF e, v
    <2> QED
        BY <2>6, <2>7 DEF BaseInv
<1> QED
    BY <1>10, <1>12, <1>13, <1>14, <1>15 DEF v

LEMMA BaseNext ==
    ASSUME IInv, BaseInv, [Next]_vars
    PROVE  BaseInv'
<1>1. ASSUME prog' = prog, regs' = regs, last' = last, loose' = loose, misfiled' = misfiled
      PROVE  BaseInv'
    <2>1. Followed' = Followed
        BY <1>1 DEF Followed
    <2> QED
        BY <1>1, <2>1, BaseStays
<1>2. CASE UNCHANGED vars
    BY <1>1, <1>2 DEF vars, ppt, hashes, ghosts
<1>3. CASE Change
    BY <1>1, <1>3 DEF Change, ppt, ghosts
<1>4. ASSUME NEW t \in Thread \ {"slot"}, Step(t) PROVE BaseInv'
    <2>1. prog[t] \in Seq(Quiet) /\ "slot" \in Thread
        BY DEF IInv, Programs, Thread
    <2> QED
        BY <1>4, <2>1, QuietStep, BaseStays
<1>5. ASSUME Step("slot") PROVE BaseInv'
    <2>0. "slot" \in Thread
        BY DEF Thread
    <2>1. ASSUME prog["slot"] \in Seq(Quiet), Reached(regs, Modules) PROVE BaseInv'
        <3>1. /\ last' = last /\ \A m \in Followed' : m \in Followed /\ regs'[m] = regs[m]
              /\ prog'["slot"] \in Seq(Quiet) \/ prog'["slot"] = UpdateConfigFromHash
            BY <1>5, <2>0, <2>1, QuietStep
        <3>2. Reached(regs, Modules)'
            BY <2>1, <3>1 DEF Reached, Followed
        <3>3. prog'["slot"] \in Seq(Quiet) \/ \E c \in [op : {"compare"}] : prog'["slot"] = <<c>>
            <4>1. [op |-> "compare"] \in [op : {"compare"}]
                OBVIOUS
            <4> QED
                BY <3>1, <4>1 DEF UpdateConfigFromHash
        <3> QED
            BY <3>2, <3>3 DEF BaseInv
    <2>2. ASSUME NEW c \in [op : {"compare"}], prog["slot"] = <<c>>, Reached(regs, Modules)
          PROVE  BaseInv'
        <3>1. Head(prog["slot"]).op = "compare" /\ prog["slot"] # <<>>
            BY <2>2
        <3>2. CompareStep("slot")
            BY <1>5, <2>0, <3>1, WhichStep
        <3> QED
            BY <2>2, <3>2, BaseCompared
    <2> QED
        BY <1>5, <2>1, <2>2, BaseLoops, BaseUses, BaseEnters DEF BaseInv
<1> QED
    BY <1>2, <1>3, <1>4, <1>5 DEF Next

LEMMA BaseInit ==
    ASSUME Init
    PROVE  BaseInv
<1>1. prog["slot"] = <<>> /\ <<>> \in Seq(Quiet)
    BY EmptySeq DEF Init, Thread
<1>2. Reached(regs, Modules)
    BY DEF Init, Reached
<1> QED
    BY <1>1, <1>2 DEF BaseInv

\* As long as there is an entry to be written, the loop is in the program.
LEMMA LoopIsThere ==
    ASSUME NEW i \in EntryLoop, NEW m \in Modules,
           prog["slot"] \in Entering(m, i.hash[m], i)
                              \cup {<<i>>, Use(m, {i.hash[m]}) \o <<i>>}
    PROVE  Writing
<1> DEFINE In(p) == \E n \in 1 .. Len(p) : p[n] = i
           u == Use(m, {i.hash[m]})
           w == Entry(m, i.hash[m])
           c == Check(m, Set(m))
<1>1. ASSUME NEW p \in Seq(Instruction), NEW q \in Seq(Instruction), In(q)
      PROVE  p \o q \in Seq(Instruction) /\ In(p \o q)
    <2>1. PICK n \in 1 .. Len(q) : q[n] = i
        BY <1>1
    <2>2. /\ p \o q \in Seq(Instruction) /\ Len(p \o q) = Len(p) + Len(q)
          /\ \A k \in 1 .. Len(p) + Len(q) : (p \o q)[k] = IF k <= Len(p) THEN p[k] ELSE q[k - Len(p)]
          /\ Len(p) \in Nat /\ Len(q) \in Nat
        BY ConcatProperties, LenProperties
    <2>3. Len(p) + n \in 1 .. Len(p) + Len(q) /\ ~(Len(p) + n <= Len(p))
          /\ (Len(p) + n) - Len(p) = n
        BY <2>2
    <2>4. (p \o q)[Len(p) + n] = i
        BY <2>1, <2>2, <2>3
    <2> QED
        BY <2>2, <2>3, <2>4
<1>2. i \in Instruction /\ i.op = "for" /\ i.kind = "entry"
    BY LoopFields DEF Instruction
<1>3. <<i>> \in Seq(Instruction) /\ In(<<i>>)
    BY <1>2
<1>4. /\ u \in Seq(Instruction) /\ w \in Seq(Instruction) /\ Fetch \in Seq(Instruction)
      /\ Set(m) \in Seq(Instruction) /\ c \in Seq(Instruction)
    <2>1. i.hash[m] \in Values
        BY LoopFields DEF Content
    <2>2. [op |-> "use", module |-> m, values |-> {i.hash[m]}] \in Instruction
        BY <2>1 DEF Instruction, Quiet
    <2>3. [op |-> "entry", module |-> m, value |-> i.hash[m]] \in Instruction
        BY <2>1 DEF Instruction, EntryPut
    <2>4. /\ [op |-> "fetch"] \in Instruction
          /\ [op |-> "set", module |-> m, locked |-> FALSE] \in Instruction
        BY DEF Instruction, Quiet
    <2>5. /\ u \in Seq(Instruction) /\ w \in Seq(Instruction) /\ Fetch \in Seq(Instruction)
          /\ Set(m) \in Seq(Instruction)
        BY <2>2, <2>3, <2>4, Alone DEF Use, Entry, Fetch, Set
    <2> QED
        BY <2>5, Checks DEF Instruction
<1> HIDE DEF In, u, w, c
<1>5. u \o <<i>> \in Seq(Instruction) /\ In(u \o <<i>>)
    BY <1>1, <1>3, <1>4
<1> DEFINE r == w \o (u \o <<i>>)
<1>6. r \in Seq(Instruction) /\ In(r)
    BY <1>1, <1>4, <1>5
<1> HIDE DEF r
<1>7. In(Set(m) \o r) /\ c \o r \in Seq(Instruction) /\ In(c \o r)
    BY <1>1, <1>4, <1>6
<1>8. In(Fetch \o (c \o r))
    BY <1>1, <1>4, <1>7
<1>9. Entering(m, i.hash[m], i) = {Fetch \o (c \o r), c \o r, Set(m) \o r, r}
    BY DEF Entering, r, w, u, c
<1>10. In(prog["slot"])
    BY <1>3, <1>5, <1>6, <1>7, <1>8, <1>9 DEF u
<1> QED
    BY <1>2, <1>10 DEF Writing, In

LEMMA BaseTrue ==
    ASSUME BaseInv
    PROVE  BaselineTrue
<1>1. ASSUME Reached(regs, Modules) PROVE BaselineTrue
    BY <1>1 DEF Reached, Followed, BaselineTrue
<1>2. ASSUME Writing PROVE BaselineTrue
    BY <1>2 DEF BaselineTrue
<1>3. ASSUME NEW i \in EntryLoop, prog["slot"] = <<i>> PROVE Writing
    <2>1. PICK m \in Modules : TRUE
        BY RegistersAssumption
    <2> QED
        BY <1>3, <2>1, LoopIsThere
<1>5. ASSUME NEW i \in EntryLoop, NEW m \in Modules, prog["slot"] = Use(m, {i.hash[m]}) \o <<i>>
      PROVE  Writing
    BY <1>5, LoopIsThere
<1>4. ASSUME NEW i \in EntryLoop, NEW m \in Modules, prog["slot"] \in Entering(m, i.hash[m], i)
      PROVE  Writing
    BY <1>4, LoopIsThere
<1> QED
    BY <1>1, <1>2, <1>3, <1>4, <1>5 DEF BaseInv

\* The hash that updateConfigFromHash compares with is what the registers hold,
\* between two writes, for every module that nothing else has written to - no
\* file, no received configuration and no entry of another module - and whose own
\* entry has not gone to another module: those the code leaves out from then on.
THEOREM BaselineHolds == Spec => []BaselineTrue
<1>1. Init => BaseInv
    BY BaseInit
<1>2. IInv /\ BaseInv /\ [Next]_vars => BaseInv'
    BY BaseNext
<1>3. BaseInv => BaselineTrue
    BY BaseTrue
<1> QED
    BY <1>1, <1>2, <1>3, Invariant, PTL DEF Spec

===============================================================================
