----------------------------- MODULE DsscPptProofs -----------------------------
(***************************************************************************)
(* Proofs about the PPT device, for any threads, slots, configurations,    *)
(* failures and posted tasks.                                              *)
(***************************************************************************)
EXTENDS DsscPpt, SequenceTheorems, WellFoundedInduction, FiniteSetTheorems, TLAPS

-----------------------------------------------------------------------------
(* Programs *)

\* What a property has to know of the instructions left is a mark at every point
\* between two of them, such as the number of keepers in scope; `moves` are the
\* triples of a mark, an instruction and the mark after it. A set of pairs of a
\* program and its mark leads to `b` if the program that does nothing is in it at
\* `b`, and with a program every one that is an instruction more.
Leading(marks, moves, b, T) ==
    /\ <<<<>>, b>> \in T
    /\ \A a, c \in marks : \A i, q :
          <<a, i, c>> \in moves /\ <<q, c>> \in T => <<<<i>> \o q, a>> \in T

\* The program can be marked from `a` to `b`: it is in the least of those sets.
Runs(marks, moves, p, a, b) == \A T : Leading(marks, moves, b, T) => <<p, a>> \in T

Moved(moves) == {m[2] : m \in moves}

LEMMA MovedOf ==
    ASSUME NEW moves, NEW a, NEW i, NEW c, <<a, i, c>> \in moves
    PROVE  i \in Moved(moves)
BY <<a, i, c>>[2] = i DEF Moved

\* The program that does nothing.
LEMMA RunsNothing ==
    ASSUME NEW marks, NEW moves, NEW a \in marks
    PROVE  Runs(marks, moves, <<>>, a, a)
BY DEF Runs, Leading

LEMMA RunsNowhere ==
    ASSUME NEW marks, NEW moves, NEW a, NEW b, Runs(marks, moves, <<>>, a, b)
    PROVE  a = b
<1> DEFINE T == {u \in Seq(Moved(moves)) \X (marks \cup {b}) : u[1] = <<>> => u[2] = b}
<1>1. <<<<>>, b>> \in T
    <2>1. <<>> \in Seq(Moved(moves))
        OBVIOUS
    <2> QED
        BY <2>1
<1>2. ASSUME NEW x \in marks, NEW y \in marks, NEW i, NEW q,
             <<x, i, y>> \in moves, <<q, y>> \in T
      PROVE  <<<<i>> \o q, x>> \in T
    <2>1. i \in Moved(moves) /\ q \in Seq(Moved(moves))
        BY <1>2, MovedOf
    <2>2. <<i>> \o q \in Seq(Moved(moves)) /\ <<i>> \o q # <<>>
        BY <2>1, ConcatProperties, EmptySeq
    <2> QED
        BY <2>2
<1> HIDE DEF T
<1>3. <<<<>>, a>> \in T
    BY <1>1, <1>2 DEF Runs, Leading
<1> QED
    BY <1>3 DEF T

\* An instruction more.
LEMMA RunsMore ==
    ASSUME NEW marks, NEW moves, NEW i, NEW q, NEW a \in marks, NEW b \in marks, NEW c,
           <<a, i, b>> \in moves, Runs(marks, moves, q, b, c)
    PROVE  Runs(marks, moves, <<i>> \o q, a, c)
BY DEF Runs, Leading

LEMMA RunsOne ==
    ASSUME NEW marks, NEW moves, NEW i, NEW a \in marks, NEW b \in marks,
           <<a, i, b>> \in moves
    PROVE  Runs(marks, moves, <<i>>, a, b)
<1>1. <<i>> \o <<>> = <<i>>
    OBVIOUS
<1> QED
    BY <1>1, RunsNothing, RunsMore

\* One program after the other.
LEMMA RunsBoth ==
    ASSUME NEW I, NEW p \in Seq(I), NEW q \in Seq(I), NEW marks, NEW moves,
           NEW a, NEW b, NEW c,
           Runs(marks, moves, p, a, b), Runs(marks, moves, q, b, c)
    PROVE  Runs(marks, moves, p \o q, a, c)
<1> DEFINE J == I \cup Moved(moves)
<1> SUFFICES ASSUME NEW T, Leading(marks, moves, c, T)
             PROVE  <<p \o q, a>> \in T
    BY DEF Runs
<1> DEFINE S == {u \in Seq(J) \X (marks \cup {b}) : <<u[1] \o q, u[2]>> \in T}
<1>0. \A r, x : <<r, x>> \in S <=> r \in Seq(J) /\ x \in marks \cup {b} /\ <<r \o q, x>> \in T
    OBVIOUS
<1> HIDE DEF S
<1>1. <<<<>>, b>> \in S
    <2>1. <<>> \o q = q /\ <<>> \in Seq(J)
        BY ConcatEmptySeq, EmptySeq
    <2>2. <<q, b>> \in T
        BY DEF Runs
    <2> QED
        BY <1>0, <2>1, <2>2
<1>2. ASSUME NEW x \in marks, NEW y \in marks, NEW i, NEW r,
             <<x, i, y>> \in moves, <<r, y>> \in S
      PROVE  <<<<i>> \o r, x>> \in S
    <2>1. i \in J /\ r \in Seq(J) /\ q \in Seq(J) /\ <<r \o q, y>> \in T
        <3>1. r \in Seq(J) /\ <<r \o q, y>> \in T
            BY <1>0, <1>2
        <3>2. i \in J /\ q \in Seq(J)
            BY <1>2, MovedOf
        <3> QED
            BY <3>1, <3>2
    <2>2. <<i>> \in Seq(J) /\ <<i>> \o r \in Seq(J)
        BY <2>1, ConcatProperties
    <2>3. (<<i>> \o r) \o q = <<i>> \o (r \o q)
        BY <2>1, <2>2, ConcatAssociative
    <2>4. <<<<i>> \o (r \o q), x>> \in T
        BY <1>2, <2>1 DEF Leading
    <2> QED
        BY <1>0, <2>2, <2>3, <2>4
<1>3. <<p, a>> \in S
    BY <1>1, <1>2 DEF Runs, Leading
<1> QED
    BY <1>0, <1>3

\* The first instruction.
LEMMA RunsOn ==
    ASSUME NEW I, NEW p \in Seq(I), p # <<>>, NEW marks, NEW moves, NEW a, NEW c,
           Runs(marks, moves, p, a, c)
    PROVE  /\ Head(p) \in I /\ Tail(p) \in Seq(I)
           /\ \E b \in marks : <<a, Head(p), b>> \in moves
                               /\ Runs(marks, moves, Tail(p), b, c)
<1> DEFINE J == Moved(moves)
           On(q, x) == \E b \in marks : <<x, Head(q), b>> \in moves
                                        /\ Runs(marks, moves, Tail(q), b, c)
           T == {u \in Seq(J) \X (marks \cup {c}) : IF u[1] = <<>> THEN u[2] = c ELSE On(u[1], u[2])}
<1> HIDE DEF On
<1>0. \A q, x : <<q, x>> \in T <=> /\ q \in Seq(J) /\ x \in marks \cup {c}
                                 /\ IF q = <<>> THEN x = c ELSE On(q, x)
    OBVIOUS
<1> HIDE DEF T
<1>1. <<<<>>, c>> \in T
    BY <1>0, EmptySeq
<1>2. ASSUME NEW x \in marks, NEW y \in marks, NEW i, NEW q,
             <<x, i, y>> \in moves, <<q, y>> \in T
      PROVE  <<<<i>> \o q, x>> \in T
    <2>1. i \in J /\ q \in Seq(J) /\ (IF q = <<>> THEN y = c ELSE On(q, y))
        BY <1>0, <1>2, MovedOf
    <2>2. <<i>> \o q \in Seq(J) /\ <<i>> \o q # <<>>
        BY <2>1, ConcatProperties, EmptySeq
    <2>3. Head(<<i>> \o q) = i /\ Tail(<<i>> \o q) = q
        BY <2>1
    <2>4. Runs(marks, moves, q, y, c)
        <3>1. CASE q = <<>>
            BY <1>2, <2>1, <3>1, RunsNothing
        <3>2. CASE q # <<>>
            <4>1. PICK b \in marks : <<y, Head(q), b>> \in moves
                                     /\ Runs(marks, moves, Tail(q), b, c)
                BY <2>1, <3>2 DEF On
            <4>2. Runs(marks, moves, <<Head(q)>> \o Tail(q), y, c)
                BY <4>1, RunsMore
            <4>3. <<Head(q)>> \o Tail(q) = q
                BY <2>1, <3>2
            <4> QED
                BY <4>2, <4>3
        <3> QED
            BY <3>1, <3>2
    <2>5. On(<<i>> \o q, x)
        BY <1>2, <2>3, <2>4 DEF On
    <2> QED
        BY <1>0, <2>2, <2>5
<1>3. <<p, a>> \in T
    BY <1>1, <1>2 DEF Runs, Leading
<1>4. On(p, a)
    BY <1>0, <1>3
<1>5. Head(p) \in I /\ Tail(p) \in Seq(I)
    BY HeadTailProperties
<1> QED
    BY <1>4, <1>5 DEF On

\* An instruction that takes one from the mark, as often as the mark says.
LEMMA RunsDown ==
    ASSUME NEW moves, NEW i, \A d \in Nat : <<d + 1, i, d>> \in moves, NEW n \in Nat
    PROVE  Runs(Nat, moves, [k \in 1 .. n |-> i], n, 0)
<1> DEFINE Row(d) == [k \in 1 .. d |-> i]
           Missing == {d \in Nat : ~Runs(Nat, moves, Row(d), d, 0)}
           Less == {s \in Nat \X Nat : s[1] < s[2]}
<1>1. Row(0) = <<>>
    OBVIOUS
<1>2. ASSUME NEW d \in Nat PROVE Row(d + 1) = <<i>> \o Row(d)
    <2>1. Row(d) \in Seq({i}) /\ Row(d + 1) \in Seq({i}) /\ <<i>> \in Seq({i})
        OBVIOUS
    <2>2. Len(Row(d)) = d /\ Len(Row(d + 1)) = d + 1 /\ Len(<<i>>) = 1
        OBVIOUS
    <2>3. /\ <<i>> \o Row(d) \in Seq({i})
          /\ Len(<<i>> \o Row(d)) = d + 1
        BY <2>1, <2>2, ConcatProperties
    <2>4. \A k \in 1 .. d + 1 : (<<i>> \o Row(d))[k] = i /\ Row(d + 1)[k] = i
        BY <2>3
    <2> HIDE DEF Row
    <2> QED
        BY <2>1, <2>2, <2>3, <2>4, SeqEqual
<1> HIDE DEF Row
<1>3. Missing = {}
    <2> SUFFICES ASSUME Missing # {} PROVE FALSE
        OBVIOUS
    <2>1. IsWellFoundedOn(Less, Nat)
        BY NatLessThanWellFounded DEF OpToRel
    <2>2. PICK d \in Missing : \A e \in Missing : <<e, d>> \notin Less
        <3> HIDE DEF Less
        <3> QED
            BY <2>1, WFMin
    <2>3. d # 0
        BY <1>1, RunsNothing
    <2>4. d \in Nat /\ d - 1 \in Nat /\ (d - 1) + 1 = d /\ <<d - 1, d>> \in Less
        BY <2>3
    <2>5. Runs(Nat, moves, Row(d - 1), d - 1, 0)
        BY <2>2, <2>4
    <2>6. Runs(Nat, moves, <<i>> \o Row(d - 1), d, 0)
        BY <2>4, <2>5, RunsMore
    <2> QED
        BY <1>2, <2>4, <2>6
<1> QED
    BY <1>3 DEF Row

-----------------------------------------------------------------------------
(* The inductive invariant *)

\* What an instruction does to the number of keepers in scope.
Nests(d, i, e) ==
    CASE i.op = "keep"               -> e = d + 1 /\ i.to # "CHANGING"
      [] i.op = "save"               -> e = d + 1
      [] i.op \in {"pause", "paused"} -> d = 0 /\ e = 1
      [] i.op = "drop"               -> d = e + 1
      [] i.op = "put"                -> e = d /\ (i.to = "CHANGING" => d > 0)
      [] OTHER                       -> e = d

Moves == {m \in Nat \X Instruction \X Nat : Nests(m[1], m[2], m[3])}

\* The program of a thread undoes the keepers it has in scope.
Nested(t) == Runs(Nat, Moves, prog[t], Len(frames[t]), 0)

\* A task is posted by the strand, as the last it does.
PostsLast(t) ==
    \A i \in 1 .. Len(prog[t]) :
        prog[t][i].op = "post" => t = "slot" /\ i = Len(prog[t]) /\ posts < MaxPosts

Pausing(t) == \E i \in 1 .. Len(prog[t]) : prog[t][i].op = "paused"
Keeping(t) == frames[t] # <<>> \/ Pausing(t)

\* As long as keepers of two threads have not overlapped, the state is CHANGING
\* only while there is one, and the outermost puts back another state.
Alone ==
    /\ \A t, u \in Threads : Keeping(t) /\ Keeping(u) => t = u
    /\ state = "CHANGING" => \E t \in Threads : frames[t] # <<>>
    /\ \A t \in Threads :
          /\ frames[t] # <<>> => frames[t][1].to # "CHANGING"
          /\ \A i \in 1 .. Len(prog[t]) :
                prog[t][i].op = "paused" => prog[t][i].to # "CHANGING"

KeeperInv ==
    /\ \A t \in Threads : Nested(t) /\ PostsLast(t)
    /\ ~overlapped => Alone

-----------------------------------------------------------------------------
(* Pieces of programs *)

\* Instructions that neither post nor pause.
Calm == {i \in Instruction : i.op \notin {"post", "pause", "paused"}}

Goes(p, d, e) == Runs(Nat, Moves, p, d, e)

Flat(p) == p \in Seq(Calm) /\ \A d \in Nat : Goes(p, d, d)
Up(p)   == p \in Seq(Calm) /\ \A d \in Nat : Goes(p, d, d + 1)
Down(p) == p \in Seq(Calm) /\ \A d \in Nat : Goes(p, d + 1, d)

LEMMA Move ==
    ASSUME NEW d \in Nat, NEW i \in Instruction, NEW e \in Nat
    PROVE  <<d, i, e>> \in Moves <=> Nests(d, i, e)
BY DEF Moves

LEMMA Single ==
    ASSUME NEW d \in Nat, NEW i \in Instruction, NEW e \in Nat, Nests(d, i, e)
    PROVE  Goes(<<i>>, d, e)
<1>1. <<d, i, e>> \in Moves
    BY Move
<1> QED
    BY <1>1, RunsOne DEF Goes

LEMMA Nothing == Flat(<<>>)
BY RunsNothing DEF Flat, Goes

LEMMA Joined ==
    ASSUME NEW p \in Seq(Calm), NEW q \in Seq(Calm), NEW a, NEW b, NEW c,
           Goes(p, a, b), Goes(q, b, c)
    PROVE  p \o q \in Seq(Calm) /\ Goes(p \o q, a, c)
BY RunsBoth, ConcatProperties DEF Goes

LEMMA Both ==
    ASSUME NEW p, NEW q
    PROVE  /\ Flat(p) /\ Flat(q) => Flat(p \o q)
           /\ Up(p) /\ Flat(q) => Up(p \o q)
           /\ Flat(p) /\ Up(q) => Up(p \o q)
           /\ Up(p) /\ Down(q) => Flat(p \o q)
<1>1. ASSUME p \in Seq(Calm), q \in Seq(Calm) PROVE p \o q \in Seq(Calm)
    BY <1>1, ConcatProperties
<1>2. ASSUME Flat(p), Flat(q), NEW d \in Nat PROVE Goes(p \o q, d, d)
    BY <1>2, Joined DEF Flat
<1>3. ASSUME Up(p), Flat(q), NEW d \in Nat PROVE Goes(p \o q, d, d + 1)
    <2>1. d + 1 \in Nat
        OBVIOUS
    <2> QED
        BY <1>3, <2>1, Joined DEF Flat, Up
<1>4. ASSUME Flat(p), Up(q), NEW d \in Nat PROVE Goes(p \o q, d, d + 1)
    BY <1>4, Joined DEF Flat, Up
<1>5. ASSUME Up(p), Down(q), NEW d \in Nat PROVE Goes(p \o q, d, d)
    BY <1>5, Joined DEF Up, Down
<1> QED
    BY <1>1, <1>2, <1>3, <1>4, <1>5 DEF Flat, Up, Down

LEMMA One ==
    ASSUME NEW i \in Calm, i.op \notin {"keep", "save", "drop"},
           i.op = "put" => i.to # "CHANGING"
    PROVE  Flat(<<i>>)
<1> SUFFICES ASSUME NEW d \in Nat PROVE Goes(<<i>>, d, d)
    BY DEF Flat
<1>1. Nests(d, i, d)
    BY DEF Nests, Calm
<1> QED
    BY <1>1, Single DEF Calm

LEMMA FlatOps ==
    \A name \in {"use", "startPolling", "spawn", "stopPolling", "join", "xfel", "trains",
                 "open", "connect", "setup", "disconnect"} : Flat(Op(name))
<1> SUFFICES ASSUME NEW name \in {"use", "startPolling", "spawn", "stopPolling", "join", "xfel",
                                  "trains", "open", "connect", "setup", "disconnect"}
             PROVE  Flat(Op(name))
    OBVIOUS
<1>1. [op |-> name] \in Calm /\ [op |-> name].op = name
    BY DEF Calm, Instruction
<1> QED
    BY <1>1, One DEF Op

LEMMA FlatUse == Flat(Use)
BY FlatOps DEF Use

LEMMA FlatPut ==
    ASSUME NEW s \in DeviceState, s # "CHANGING" PROVE Flat(Put(s))
<1>1. [op |-> "put", to |-> s] \in Calm
    BY DEF Calm, Instruction
<1> QED
    BY <1>1, One DEF Put

Assignment == UNION {[R -> BOOLEAN] : R \in SUBSET Register}

LEMMA FlatSetAll ==
    ASSUME NEW new \in Assignment PROVE Flat(SetAll(new))
<1>1. [op |-> "set", to |-> new] \in Calm
    BY DEF Calm, Instruction, Assignment
<1> QED
    BY <1>1, One DEF SetAll

LEMMA FlatSet ==
    ASSUME NEW reg \in Register, NEW b \in BOOLEAN PROVE Flat(Set(reg, b))
<1>1. [r \in {reg} |-> b] \in [{reg} -> BOOLEAN] /\ {reg} \in SUBSET Register
    OBVIOUS
<1> QED
    BY <1>1, FlatSetAll DEF Set, Assignment

LEMMA FlatBurst ==
    ASSUME NEW b \in BOOLEAN PROVE Flat(Burst(b))
<1>1. [op |-> "burst", to |-> b] \in Calm
    BY DEF Calm, Instruction
<1> QED
    BY <1>1, One DEF Burst

\* The keepers.
LEMMA UpKeep ==
    ASSUME NEW s \in DeviceState, s # "CHANGING" PROVE Up(Keep(s))
<1>1. [op |-> "keep", to |-> s] \in Calm
    BY DEF Calm, Instruction
<1> SUFFICES ASSUME NEW d \in Nat PROVE Goes(Keep(s), d, d + 1)
    BY <1>1 DEF Up, Keep
<1>2. Nests(d, [op |-> "keep", to |-> s], d + 1) /\ d + 1 \in Nat
    BY DEF Nests
<1> QED
    BY <1>1, <1>2, Single DEF Calm, Keep

LEMMA DownDrop == Down(Drop)
<1>1. [op |-> "drop"] \in Calm
    BY DEF Calm, Instruction
<1> SUFFICES ASSUME NEW d \in Nat PROVE Goes(Drop, d + 1, d)
    BY <1>1 DEF Down, Drop, Op
<1>2. Nests(d + 1, [op |-> "drop"], d) /\ d + 1 \in Nat
    BY DEF Nests
<1> QED
    BY <1>1, <1>2, Single DEF Calm, Drop, Op

LEMMA UpSave == Up(Save)
<1>1. [op |-> "save"] \in Calm /\ [op |-> "put", to |-> "CHANGING"] \in Calm
    BY DEF Calm, Instruction, DeviceState
<1>2. Op("save") \in Seq(Calm) /\ Put("CHANGING") \in Seq(Calm)
    BY <1>1 DEF Op, Put
<1>3. ASSUME NEW d \in Nat
      PROVE  Goes(Op("save"), d, d + 1) /\ Goes(Put("CHANGING"), d + 1, d + 1)
    <2>1. /\ Nests(d, [op |-> "save"], d + 1)
          /\ Nests(d + 1, [op |-> "put", to |-> "CHANGING"], d + 1)
          /\ d + 1 \in Nat
        BY DEF Nests
    <2> QED
        BY <1>1, <2>1, Single DEF Calm, Op, Put
<1>4. \A d \in Nat : Goes(Save, d, d + 1)
    BY <1>2, <1>3, Joined DEF Save
<1> QED
    BY <1>2, <1>4, ConcatProperties DEF Up, Save

-----------------------------------------------------------------------------
(* The functions of the device *)

LEMMA Pieces ==
    /\ \A run \in BOOLEAN : Flat(RunContMode(run)) /\ Flat(RunAcquisition(run))
    /\ Flat(Start) /\ Flat(StopAcquisition) /\ Flat(Stop)
    /\ Flat(StopPolling) /\ Flat(Close) /\ Flat(ResetAll) /\ Flat(Open)
    /\ Flat(Kept) /\ Flat(ProgramAllIOBFPGAs) /\ Flat(UpdateFlash)
    /\ \A h \in BOOLEAN : Flat(UpdateTestEnvironment(h))
<1> USE FlatUse, FlatOps, Both
<1>1. ASSUME NEW run \in BOOLEAN PROVE Flat(RunContMode(run))
    <2>1. Up(Keep(IF run THEN "STARTED" ELSE "ON"))
        BY UpKeep DEF DeviceState
    <2>2. Flat(Set("cont", run))
        BY FlatSet DEF Register
    <2> QED
        BY <2>1, <2>2, DownDrop DEF RunContMode
<1>2. ASSUME NEW run \in BOOLEAN PROVE Flat(RunAcquisition(run))
    <2>1. Up(Keep(IF run THEN "ACQUIRING" ELSE "STARTED"))
        BY UpKeep DEF DeviceState
    <2>2. Flat(Set("sending", TRUE))
        BY FlatSet DEF Register
    <2>3. Flat(IF run THEN StartPolling ELSE <<>>)
        BY Nothing DEF StartPolling
    <2> QED
        BY <2>1, <2>2, <2>3, DownDrop DEF RunAcquisition
<1>3. Flat(Start)
    BY <1>1, <1>2 DEF Start
<1>4. Flat(StopAcquisition)
    BY <1>2, FlatBurst DEF StopAcquisition
<1>5. Flat(Stop)
    BY <1>1, <1>4 DEF Stop
<1>6. Flat(StopPolling)
    BY DEF StopPolling
<1>7. Flat(Close)
    BY <1>6, FlatPut DEF Close, DeviceState
<1>8. Flat(ResetAll) /\ Flat(Open)
    BY <1>6 DEF ResetAll, Open
<1>9. Flat(Kept)
    BY UpSave, DownDrop DEF Kept
<1>10. Flat(ProgramAllIOBFPGAs)
    BY <1>9, UpSave, DownDrop DEF ProgramAllIOBFPGAs
<1>11. Flat(UpdateFlash)
    BY <1>6, UpSave, DownDrop DEF UpdateFlash
<1>12. ASSUME NEW h \in BOOLEAN PROVE Flat(UpdateTestEnvironment(h))
    BY FlatSet DEF UpdateTestEnvironment, Register
<1> QED
    BY <1>1, <1>2, <1>3, <1>4, <1>5, <1>6, <1>7, <1>8, <1>9, <1>10, <1>11, <1>12

-----------------------------------------------------------------------------
(* What threads begin *)

\* A program for a thread without keepers, that may post where `may` says so.
Whole(p, may) ==
    /\ p \in Seq(Instruction) /\ Goes(p, 0, 0)
    /\ \A i \in 1 .. Len(p) :
          p[i].op # "paused" /\ (p[i].op = "post" => i = Len(p) /\ may)

LEMMA CalmProgram ==
    ASSUME NEW p \in Seq(Calm)
    PROVE  /\ p \in Seq(Instruction)
           /\ \A i \in 1 .. Len(p) : p[i].op \notin {"post", "pause", "paused"}
<1>1. \A i \in 1 .. Len(p) : p[i] \in Calm
    OBVIOUS
<1>2. p \in Seq(Instruction)
    BY <1>1 DEF Calm
<1> QED
    BY <1>1, <1>2 DEF Calm

LEMMA FlatWhole ==
    ASSUME NEW p, Flat(p), NEW may PROVE Whole(p, may)
BY CalmProgram DEF Flat, Whole

LEMMA PostWhole ==
    ASSUME NEW task \in Task
    PROVE  Whole(Post(task), TRUE) /\ Whole(Burst(TRUE) \o Post(task), TRUE)
<1> DEFINE i == [op |-> "post", to |-> task]
<1>1. i \in Instruction /\ i.op = "post" /\ Nests(0, i, 0)
    BY DEF Instruction, Nests
<1>2. Post(task) = <<i>>
    BY DEF Post
<1> HIDE DEF i
<1>3. Goes(<<i>>, 0, 0)
    BY <1>1, Single
<1>4. Whole(Post(task), TRUE)
    BY <1>1, <1>2, <1>3 DEF Whole
<1> DEFINE j == [op |-> "burst", to |-> TRUE]
<1>5. j \in Instruction /\ j.op = "burst" /\ Burst(TRUE) = <<j>> /\ Nests(0, j, 0)
    BY DEF Instruction, Nests, Burst
<1> HIDE DEF j
<1>6. Goes(<<j>>, 0, 0)
    BY <1>5, Single
<1>7. <<j>> \in Seq(Instruction) /\ <<i>> \in Seq(Instruction)
    BY <1>1, <1>5
<1>8. Goes(<<j>> \o <<i>>, 0, 0)
    BY <1>3, <1>6, <1>7, RunsBoth DEF Goes
<1>9. /\ <<j>> \o <<i>> \in Seq(Instruction) /\ Len(<<j>> \o <<i>>) = 2
      /\ (<<j>> \o <<i>>)[1] = j /\ (<<j>> \o <<i>>)[2] = i
    BY <1>7, ConcatProperties
<1>10. Whole(<<j>> \o <<i>>, TRUE)
    BY <1>1, <1>5, <1>8, <1>9 DEF Whole
<1> QED
    BY <1>2, <1>4, <1>5, <1>10

LEMMA Regroup ==
    ASSUME NEW p \in Seq(Instruction), NEW q \in Seq(Instruction), NEW r \in Seq(Instruction)
    PROVE  (p \o q) \o r = p \o (q \o r)
BY ConcatAssociative

LEMMA PauseWhole == Whole(ReadFullConfigFile, FALSE)
<1> DEFINE i == [op |-> "pause"]
           q == Use \o Drop
<1>1. i \in Instruction /\ i.op = "pause" /\ Nests(0, i, 1)
    BY DEF Instruction, Nests
<1>2. Op("pause") = <<i>>
    BY DEF Op
<1> HIDE DEF i
<1>3. Goes(<<i>>, 0, 1) /\ <<i>> \in Seq(Instruction)
    BY <1>1, Single
<1>4. Use \in Seq(Calm) /\ Drop \in Seq(Calm) /\ Goes(Use, 1, 1) /\ Goes(Drop, 0 + 1, 0)
    BY FlatUse, DownDrop DEF Flat, Down
<1>5. q \in Seq(Calm) /\ Goes(q, 1, 0)
    BY <1>4, Joined
<1>6. q \in Seq(Instruction) /\ \A k \in 1 .. Len(q) : q[k].op \notin {"post", "pause", "paused"}
    BY <1>5, CalmProgram
<1>7. (Op("pause") \o Use) \o Drop = <<i>> \o q
    <2>1. Use \in Seq(Instruction) /\ Drop \in Seq(Instruction)
        BY <1>4, CalmProgram
    <2>2. (<<i>> \o Use) \o Drop = <<i>> \o q
        BY <1>3, <2>1, Regroup
    <2> QED
        BY <1>2, <2>2
<1> HIDE DEF q
<1>8. Goes(<<i>> \o q, 0, 0)
    BY <1>3, <1>5, <1>6, RunsBoth DEF Goes
<1>9. /\ <<i>> \o q \in Seq(Instruction) /\ Len(<<i>> \o q) = Len(q) + 1 /\ Len(q) \in Nat
      /\ (<<i>> \o q)[1] = i
      /\ \A k \in 2 .. Len(q) + 1 : (<<i>> \o q)[k] = q[k - 1]
    BY <1>3, <1>6, ConcatProperties
<1>10. ASSUME NEW k \in 1 .. Len(q) + 1 PROVE (<<i>> \o q)[k].op \notin {"post", "paused"}
    <2>1. CASE k = 1
        BY <1>1, <1>9, <2>1
    <2>2. CASE k # 1
        <3>1. k - 1 \in 1 .. Len(q) /\ k \in 2 .. Len(q) + 1
            BY <1>9, <2>2
        <3> QED
            BY <1>6, <1>9, <3>1
    <2> QED
        BY <2>1, <2>2
<1> QED
    BY <1>7, <1>8, <1>9, <1>10 DEF Whole, ReadFullConfigFile

\* Every slot and reconfiguration, posted task and configuration received.
LEMMA Bodies ==
    ASSUME NEW slot \in Slot
    PROVE  Whole(Body(slot), Posts(slot))
<1> USE Pieces, FlatUse, FlatWhole
<1>1. \/ slot \in CallSlots /\ Body(slot) = Use
      \/ slot \in KeptSlots /\ Body(slot) = Kept
      \/ slot \in RunSlots /\ Body(slot) = Run(slot)
      \/ slot \in InitSlots /\ Body(slot) = Initialise(slot)
      \/ slot \in ModeTags /\ Body(slot) = Reconfigure(slot)
    BY DEF Body, Slot
<1>2. ASSUME slot \in RunSlots PROVE Whole(Run(slot), Posts(slot))
    <2>1. CASE slot = "startBurstAcquisition"
        <3>1. Posts(slot) = TRUE
            BY <2>1 DEF Posts
        <3> QED
            BY <2>1, <3>1, PostWhole DEF Run, Task
    <2>2. CASE slot = "startSingleCycle"
        <3>1. [r \in {"cont", "sending"} |-> r = "sending"] \in Assignment
            <4>1. [r \in {"cont", "sending"} |-> r = "sending"] \in [{"cont", "sending"} -> BOOLEAN]
                BY Zenon
            <4>2. {"cont", "sending"} \in SUBSET Register
                BY DEF Register
            <4> QED
                BY <4>1, <4>2 DEF Assignment
        <3> QED
            BY <2>2, <3>1, FlatSetAll DEF Run
    <2>3. CASE slot \notin {"startBurstAcquisition", "startSingleCycle"}
        BY <1>2, <2>3, Both DEF Run, RunSlots
    <2> QED
        BY <2>1, <2>2, <2>3
<1>3. ASSUME slot \in InitSlots PROVE Whole(Initialise(slot), Posts(slot))
    <2>1. CASE slot \in Task
        <3>1. Posts(slot) = TRUE /\ Initialise(slot) = Post(slot)
            BY <2>1 DEF Posts, Task, Initialise
        <3> QED
            BY <2>1, <3>1, PostWhole
    <2>2. CASE slot = "fullConfigFileName"
        <3>1. Posts(slot) = FALSE
            BY <2>2 DEF Posts, Task
        <3> QED
            BY <2>2, <3>1, PauseWhole DEF Initialise, Task
    <2>3. CASE slot \in {"doFastInit", "initSingleModule"}
        <3>1. Up(Keep("ON"))
            BY UpKeep DEF DeviceState
        <3> QED
            BY <2>3, <3>1, Both, DownDrop DEF Initialise, Task
    <2>4. CASE slot = "setQuadrantSetup"
        <3>1. Flat(Set("hamburg", TRUE))
            BY FlatSet DEF Register
        <3> QED
            BY <2>4, <3>1, Both DEF Initialise, Task
    <2>5. CASE slot = "resetAllBtn"
        BY <2>5, Both, UpSave, DownDrop DEF Initialise, Task
    <2>6. CASE slot \in {"open", "close", "updateFirmwareFlash", "updateLinuxFlash",
                         "programAllIOBFPGAs"}
        BY <2>6 DEF Initialise, Task
    <2> QED
        BY <1>3, <2>1, <2>2, <2>3, <2>4, <2>5, <2>6 DEF InitSlots, Task
<1>4. ASSUME slot \in ModeTags PROVE Whole(Reconfigure(slot), Posts(slot))
    <2>1. \A reg \in Register : \A b \in BOOLEAN : Flat(Set(reg, b))
        BY FlatSet
    <2>2. Flat(Reconfigure(slot))
        BY <1>4, <2>1, Both DEF Reconfigure, ModeTags, Register
    <2> QED
        BY <2>2
<1> QED
    BY <1>1, <1>2, <1>3, <1>4

LEMMA TaskBodies ==
    ASSUME NEW task \in Task, NEW boards \in BOOLEAN PROVE Flat(TaskBody(task, boards))
<1> USE Pieces, FlatUse, FlatOps, Both
<1>1. CASE task = "initSystem"
    <2>1. Up(Keep("ON"))
        BY UpKeep DEF DeviceState
    <2>2. Flat(IF boards THEN <<>> ELSE ProgramAllIOBFPGAs \o Use)
        BY Nothing
    <2> QED
        BY <1>1, <2>1, <2>2, DownDrop DEF TaskBody
<1>2. CASE task = "updateIOBFirmware"
    BY <1>2 DEF TaskBody
<1>3. CASE task = "burst"
    BY <1>3 DEF TaskBody
<1> QED
    BY <1>1, <1>2, <1>3 DEF Task

LEMMA DataBodies ==
    ASSUME NEW regType \in RegTypes PROVE Flat(DataBody(regType))
<1>1. regType \in {"none", "register", "counters"}
    BY PptAssumption
<1>2. Flat(CASE regType = "none" -> <<>> [] regType = "register" -> Use
             [] regType = "counters" -> Kept)
    BY <1>1, Pieces, FlatUse, Nothing
<1> QED
    BY <1>2, Both, UpSave, DownDrop DEF DataBody


-----------------------------------------------------------------------------
(* The programs of a step *)

PostsOk(t, p) ==
    \A i \in 1 .. Len(p) :
        p[i].op = "post" => t = "slot" /\ i = Len(p) /\ posts < MaxPosts

\* What pauses in `p` does so in `q`.
PausesFrom(p, q) ==
    \A i \in 1 .. Len(p) : p[i].op = "paused" => \E j \in 1 .. Len(q) : q[j] = p[i]

\* `p` is a program for thread `t` with `n` keepers in scope, in place of `q`.
Fits(t, p, n, q) ==
    p \in Seq(Instruction) /\ Goes(p, n, 0) /\ PostsOk(t, p) /\ PausesFrom(p, q)

IInv == TypeOK /\ KeeperInv

LEMMA Before ==
    ASSUME NEW t, NEW b, NEW p, NEW q, NEW n \in Nat, Flat(b), Fits(t, p, n, q)
    PROVE  Fits(t, b \o p, n, q)
<1> DEFINE c == b \o p
           m == Len(b)
<1>1. /\ b \in Seq(Instruction) /\ Goes(b, n, n)
      /\ \A i \in 1 .. Len(b) : b[i].op \notin {"post", "pause", "paused"}
    BY CalmProgram DEF Flat
<1>2. p \in Seq(Instruction) /\ Goes(p, n, 0)
    BY DEF Fits
<1>3. c \in Seq(Instruction) /\ Goes(c, n, 0)
    BY <1>1, <1>2, RunsBoth, ConcatProperties DEF Goes
<1>4. /\ Len(c) = m + Len(p) /\ m \in Nat /\ Len(p) \in Nat
      /\ \A i \in 1 .. m : c[i] = b[i]
      /\ \A i \in m + 1 .. m + Len(p) : c[i] = p[i - m]
    BY <1>1, <1>2, ConcatProperties
<1> HIDE DEF c, m
<1>5. ASSUME NEW i \in 1 .. Len(c), c[i].op \in {"post", "paused"}
      PROVE  i - m \in 1 .. Len(p) /\ c[i] = p[i - m]
    <2>1. CASE i \in 1 .. m
        BY <1>1, <1>4, <1>5, <2>1 DEF m
    <2>2. CASE i \in m + 1 .. m + Len(p)
        BY <1>4, <2>2
    <2> QED
        BY <1>4, <2>1, <2>2
<1>6. PostsOk(t, c)
    <2> SUFFICES ASSUME NEW i \in 1 .. Len(c), c[i].op = "post"
                 PROVE  t = "slot" /\ i = Len(c) /\ posts < MaxPosts
        BY DEF PostsOk
    <2>1. i - m \in 1 .. Len(p) /\ p[i - m].op = "post"
        BY <1>5
    <2>2. t = "slot" /\ i - m = Len(p) /\ posts < MaxPosts
        BY <2>1 DEF Fits, PostsOk
    <2> QED
        BY <1>4, <2>2
<1>7. PausesFrom(c, q)
    <2> SUFFICES ASSUME NEW i \in 1 .. Len(c), c[i].op = "paused"
                 PROVE  \E j \in 1 .. Len(q) : q[j] = c[i]
        BY DEF PausesFrom
    <2>1. i - m \in 1 .. Len(p) /\ p[i - m] = c[i]
        BY <1>5
    <2> QED
        BY <2>1 DEF Fits, PausesFrom
<1> QED
    BY <1>3, <1>6, <1>7 DEF Fits, c

\* The program of a thread, and what is left after its first instruction.
LEMMA Itself ==
    ASSUME IInv, NEW t \in Threads
    PROVE  Len(frames[t]) \in Nat /\ Fits(t, prog[t], Len(frames[t]), prog[t])
<1>1. /\ prog[t] \in Seq(Instruction)
      /\ frames[t] \in Seq([kind : {"state", "cont", "destructor"}, to : DeviceState])
    BY DEF IInv, TypeOK
<1>2. Nested(t) /\ PostsLast(t)
    BY DEF IInv, KeeperInv
<1> QED
    BY <1>1, <1>2 DEF Fits, Goes, Nested, PostsLast, PostsOk, PausesFrom

LEMMA Rest ==
    ASSUME IInv, NEW t \in Threads, prog[t] # <<>>
    PROVE  LET i == Head(prog[t])
               p == Tail(prog[t])
           IN  /\ i \in Instruction /\ i = prog[t][1] /\ 1 \in 1 .. Len(prog[t])
               /\ \E n \in Nat : Nests(Len(frames[t]), i, n) /\ Fits(t, p, n, prog[t])
               /\ i.op = "post" => p = <<>> /\ t = "slot" /\ posts < MaxPosts
<1> DEFINE q == prog[t]
           i == Head(q)
           p == Tail(q)
           d == Len(frames[t])
<1>1. d \in Nat /\ Fits(t, q, d, q)
    BY Itself
<1>2. q \in Seq(Instruction) /\ Goes(q, d, 0)
    BY <1>1 DEF Fits
<1>3. /\ i \in Instruction /\ p \in Seq(Instruction)
      /\ \E n \in Nat : <<d, i, n>> \in Moves /\ Goes(p, n, 0)
    BY <1>2, RunsOn DEF Goes
<1>4. /\ Len(q) \in Nat \ {0} /\ i = q[1] /\ Len(p) = Len(q) - 1
      /\ \A k \in 1 .. Len(q) - 1 : p[k] = q[k + 1]
      /\ Len(q) = 1 => p = <<>>
    <2>1. Len(q) \in Nat \ {0} /\ i = q[1]
        BY <1>2, EmptySeq
    <2>2. Len(p) = Len(q) - 1
        BY <1>2, HeadTailProperties
    <2>3. \A k \in 1 .. Len(q) - 1 : p[k] = q[k + 1]
        BY <1>2, <2>1
    <2>4. Len(p) = 0 => p = <<>>
        BY <1>3, EmptySeq
    <2> QED
        BY <2>1, <2>2, <2>3, <2>4
<1> HIDE DEF q, i, p, d
<1>5. PostsOk(t, p) /\ PausesFrom(p, q)
    <2>1. ASSUME NEW k \in 1 .. Len(p) PROVE k + 1 \in 1 .. Len(q) /\ p[k] = q[k + 1]
        BY <1>4
    <2>2. PostsOk(t, p)
        <3> SUFFICES ASSUME NEW k \in 1 .. Len(p), p[k].op = "post"
                     PROVE  t = "slot" /\ k = Len(p) /\ posts < MaxPosts
            BY DEF PostsOk
        <3>1. t = "slot" /\ k + 1 = Len(q) /\ posts < MaxPosts
            BY <1>1, <2>1 DEF Fits, PostsOk
        <3> QED
            BY <1>4, <3>1
    <2> QED
        BY <2>1, <2>2 DEF PausesFrom
<1>6. \E n \in Nat : Nests(d, i, n) /\ Fits(t, p, n, q)
    BY <1>1, <1>3, <1>5, Move DEF Fits
<1>7. i.op = "post" => p = <<>> /\ t = "slot" /\ posts < MaxPosts
    <2>1. 1 \in 1 .. Len(q)
        BY <1>4
    <2> QED
        BY <1>1, <1>4, <2>1 DEF Fits, PostsOk
<1>8. 1 \in 1 .. Len(q)
    BY <1>4
<1> QED
    BY <1>3, <1>4, <1>6, <1>7, <1>8 DEF q, i, p, d

-----------------------------------------------------------------------------
(* What the steps have in common *)

Frames == [kind : {"state", "cont", "destructor"}, to : DeviceState]

LEMMA Typed ==
    ASSUME IInv
    PROVE  /\ prog \in [Threads -> Seq(Instruction)]
           /\ \A t \in Threads : prog[t] \in Seq(Instruction)
           /\ frames \in [Threads -> Seq(Frames)]
           /\ \A t \in Threads : frames[t] \in Seq(Frames) /\ Len(frames[t]) \in Nat
           /\ state \in DeviceState /\ overlapped \in BOOLEAN
<1>1. prog \in [Threads -> Seq(Instruction)]
    BY DEF IInv, TypeOK
<1>2. frames \in [Threads -> Seq(Frames)]
    BY DEF IInv, TypeOK, Frames
<1>3. state \in DeviceState /\ overlapped \in BOOLEAN
    BY DEF IInv, TypeOK
<1>4. \A t \in Threads : prog[t] \in Seq(Instruction)
    BY <1>1
<1>5. \A t \in Threads : frames[t] \in Seq(Frames) /\ Len(frames[t]) \in Nat
    BY <1>2
<1> QED
    BY <1>1, <1>2, <1>3, <1>4, <1>5

\* A thread goes on with another program; its keepers stay.
LEMMA Onward ==
    ASSUME IInv, NEW t \in Threads, NEW p,
           Fits(t, p, Len(frames[t]), prog[t]),
           prog' = [prog EXCEPT ![t] = p],
           UNCHANGED <<frames, overlapped>>,
           posts' = posts \/ (t = "slot" /\ p = <<>>),
           state' = "CHANGING" => state = "CHANGING" \/ frames[t] # <<>>
    PROVE  KeeperInv'
<1>1. /\ prog'[t] = p /\ \A u \in Threads \ {t} : prog'[u] = prog[u]
      /\ \A u \in Threads : frames'[u] = frames[u]
    BY Typed
<1>2. /\ Goes(p, Len(frames[t]), 0) /\ PostsOk(t, p) /\ PausesFrom(p, prog[t])
    BY DEF Fits
<1>3. ASSUME NEW u \in Threads PROVE Nested(u)' /\ PostsLast(u)'
    <2>0. Nested(u) /\ PostsLast(u)
        BY DEF IInv, KeeperInv
    <2>1. Nested(u)'
        <3>1. CASE u = t
            BY <1>1, <1>2, <3>1 DEF Nested, Goes
        <3>2. CASE u # t
            BY <1>1, <2>0, <3>2 DEF Nested
        <3> QED
            BY <3>1, <3>2
    <2>2. PostsLast(u)'
        <3>1. CASE u = t
            BY <1>1, <1>2, <3>1 DEF PostsLast, PostsOk
        <3>2. CASE u # t
            BY <1>1, <2>0, <3>2 DEF PostsLast
        <3> QED
            BY <3>1, <3>2
    <2> QED
        BY <2>1, <2>2
<1>4. ASSUME ~overlapped PROVE Alone'
    <2>0. Alone
        BY <1>4 DEF IInv, KeeperInv
    <2>1. ASSUME NEW u \in Threads, NEW i \in 1 .. Len(prog'[u]), prog'[u][i].op = "paused"
          PROVE  \E j \in 1 .. Len(prog[u]) : prog[u][j] = prog'[u][i]
        <3>1. CASE u = t
            BY <1>1, <1>2, <2>1, <3>1 DEF PausesFrom
        <3>2. CASE u # t
            BY <1>1, <2>1, <3>2
        <3> QED
            BY <3>1, <3>2
    <2>2. ASSUME NEW u \in Threads, Keeping(u)' PROVE Keeping(u)
        BY <1>1, <2>1, <2>2 DEF Keeping, Pausing
    <2>3. state' = "CHANGING" => \E u \in Threads : frames'[u] # <<>>
        BY <1>1, <2>0 DEF Alone
    <2>4. ASSUME NEW u \in Threads
          PROVE  /\ frames'[u] # <<>> => frames'[u][1].to # "CHANGING"
                 /\ \A i \in 1 .. Len(prog'[u]) :
                       prog'[u][i].op = "paused" => prog'[u][i].to # "CHANGING"
        BY <1>1, <2>0, <2>1 DEF Alone
    <2>5. \A u, v \in Threads : Keeping(u)' /\ Keeping(v)' => u = v
        BY <2>0, <2>2 DEF Alone
    <2> HIDE DEF Keeping
    <2> QED
        BY <2>3, <2>4, <2>5 DEF Alone
<1> QED
    BY <1>3, <1>4 DEF KeeperInv

LEMMA Two ==
    ASSUME NEW S \in SUBSET Threads, ~(Cardinality(S) > 1)
    PROVE  \A t, u \in S : t = u
<1> SUFFICES ASSUME NEW t \in S, NEW u \in S, t # u PROVE FALSE
    OBVIOUS
<1>1. IsFiniteSet(S)
    BY PptAssumption, FS_Subset
<1>2. IsFiniteSet({t, u}) /\ Cardinality({t, u}) = 2
    <2>1. IsFiniteSet({}) /\ Cardinality({}) = 0
        BY FS_EmptySet
    <2>2. IsFiniteSet({} \cup {t}) /\ Cardinality({} \cup {t}) = 1
        BY <2>1, FS_AddElement
    <2>3. /\ IsFiniteSet(({} \cup {t}) \cup {u})
          /\ Cardinality(({} \cup {t}) \cup {u}) = 2
        BY <2>2, FS_AddElement
    <2>4. ({} \cup {t}) \cup {u} = {t, u}
        OBVIOUS
    <2> QED
        BY <2>3, <2>4
<1>3. Cardinality({t, u}) <= Cardinality(S)
    BY <1>1, <1>2, FS_Subset
<1>4. Cardinality(S) \in Nat
    BY <1>1, FS_CardinalityType
<1> QED
    BY <1>2, <1>3, <1>4

\* Overlap looks at the threads that have keepers in scope, or nearly so.
LEMMA Apart ==
    ASSUME TypeOK', overlapped' = (overlapped \/ Overlap'), ~overlapped'
    PROVE  \A t, u \in Threads : Keeping(t)' /\ Keeping(u)' => t = u
<1> DEFINE S == {t \in Threads : \/ frames'[t] # <<>>
                                 \/ \E i \in DOMAIN prog'[t] : prog'[t][i].op = "paused"}
<1>1. ~(Cardinality(S) > 1)
    BY DEF Overlap
<1>2. \A t, u \in S : t = u
    BY <1>1, Two
<1>3. ASSUME NEW t \in Threads, Keeping(t)' PROVE t \in S
    <2>1. DOMAIN prog'[t] = 1 .. Len(prog'[t])
        BY DEF TypeOK
    <2> QED
        BY <1>3, <2>1 DEF Keeping, Pausing
<1> QED
    BY <1>2, <1>3

LEMMA Args ==
    ASSUME NEW i \in Instruction
    PROVE  /\ i.op \in {"put", "keep", "paused"} => i.to \in DeviceState
           /\ i.op = "post" => i.to \in Task
           /\ i.op = "burst" => i.to \in BOOLEAN
           /\ i.op = "set" => i.to \in Assignment
BY DEF Instruction, Assignment

\* The state of the device besides programs and frames.
OthersOK ==
    /\ registers \in BOOLEAN \X BOOLEAN \X BOOLEAN \X BOOLEAN \X BOOLEAN \X BOOLEAN
    /\ burst \in BOOLEAN
    /\ keep \in BOOLEAN /\ poller \in {"none", "running", "ended"}
    /\ posted \in Seq(Task) /\ posts \in 0 .. MaxPosts
    /\ terminated \in BOOLEAN

LEMMA Parts ==
    TypeOK <=> /\ OthersOK
               /\ state \in DeviceState /\ overlapped \in BOOLEAN
               /\ prog \in [Threads -> Seq(Instruction)]
               /\ frames \in [Threads -> Seq(Frames)]
BY DEF TypeOK, OthersOK, Frames

\* Instructions that enter or leave a scope, or are the last.
Scoped == {"keep", "save", "drop", "pause", "paused", "post"}

\* Steps that leave the keepers alone.
LEMMA ScopesKept ==
    ASSUME IInv, NEW t \in Threads, NEW p, Fits(t, p, Len(frames[t]), prog[t]),
           prog' = [prog EXCEPT ![t] = p],
           OthersOK', state' \in DeviceState, UNCHANGED scopes,
           posts' = posts \/ (t = "slot" /\ p = <<>>),
           state' = "CHANGING" => state = "CHANGING" \/ frames[t] # <<>>
    PROVE  IInv'
<1>1. KeeperInv'
    BY Onward DEF scopes
<1>2. prog' \in [Threads -> Seq(Instruction)]
    BY Typed DEF Fits
<1>3. frames' \in [Threads -> Seq(Frames)] /\ overlapped' \in BOOLEAN
    BY Typed DEF scopes
<1>4. TypeOK'
    BY <1>2, <1>3 DEF TypeOK, OthersOK, Frames
<1> QED
    BY <1>1, <1>4 DEF IInv

LEMMA Continuing ==
    ASSUME IInv, NEW t \in Threads, Running(t),
           Head(prog[t]).op \notin Scoped,
           NEW b, Flat(b), Continue(t, b),
           OthersOK', state' \in DeviceState, UNCHANGED scopes, posts' = posts,
           state' = "CHANGING" => state = "CHANGING" \/ frames[t] # <<>>
    PROVE  IInv'
<1>1. PICK n \in Nat : /\ Nests(Len(frames[t]), Head(prog[t]), n)
                       /\ Fits(t, Tail(prog[t]), n, prog[t])
    BY Rest DEF Running
<1>2. n = Len(frames[t])
    BY <1>1 DEF Nests, Scoped
<1>3. Fits(t, b \o Tail(prog[t]), Len(frames[t]), prog[t])
    BY <1>1, <1>2, Before
<1>4. PICK p : p = b \o Tail(prog[t])
    OBVIOUS
<1>5. Fits(t, p, Len(frames[t]), prog[t]) /\ prog' = [prog EXCEPT ![t] = p]
    BY <1>3, <1>4 DEF Continue, Goto
<1> QED
    BY <1>5, ScopesKept

\* The instructions whose steps touch neither keepers nor the device state.
LEMMA PlainSteps ==
    ASSUME IInv, NEW t \in Threads,
           \/ CallPpt(t) \/ SetBurst(t) \/ IfXfelMode(t) \/ BurstOver(t)
           \/ OpenConnection(t) \/ Connect(t) \/ ConnectFails(t) \/ Setup(t)
           \/ Disconnect(t) \/ DisconnectFails(t)
           \/ CheckPolling(t) \/ SpawnPoller(t) \/ ClearPolling(t) \/ JoinPoller(t)
    PROVE  IInv'
<1>1. OthersOK /\ state \in DeviceState
    BY Parts DEF IInv
<1>2. /\ Flat(<<>>) /\ Flat(RunContMode(FALSE)) /\ Flat(Op("spawn"))
      /\ Flat(Put("OPENING") \o Op("connect")) /\ Flat(Close \o Put("UNKNOWN"))
      /\ Flat(Put("ERROR"))
      /\ \A h \in BOOLEAN : Flat(ResetAll \o UpdateTestEnvironment(h) \o Put("OFF"))
    BY Nothing, Pieces, FlatOps, FlatPut, Both DEF DeviceState
<1>3. hamburg \in BOOLEAN
    BY <1>1 DEF OthersOK, registers
<1>4. CASE CallPpt(t)
    <2>1. Running(t) /\ Head(prog[t]).op \notin Scoped
        BY <1>4 DEF CallPpt, At, Running, Calls, Scoped
    <2>2. OthersOK'
        <3>1. At(t, "set") => Arg(t) \in Assignment
            BY Args, Rest DEF At, Running, Arg
        <3>2. \A reg : At(t, "set") /\ reg \in DOMAIN Arg(t) => Arg(t)[reg] \in BOOLEAN
            BY <3>1 DEF Assignment
        <3>3. /\ loaded \in BOOLEAN /\ open \in BOOLEAN /\ cont \in BOOLEAN
              /\ sending \in BOOLEAN /\ xfel \in BOOLEAN /\ hamburg \in BOOLEAN
            BY <1>1 DEF OthersOK, registers
        <3>4. /\ cont' \in BOOLEAN /\ sending' \in BOOLEAN
              /\ xfel' \in BOOLEAN /\ hamburg' \in BOOLEAN
            BY <1>4, <3>2, <3>3 DEF CallPpt
        <3>5. UNCHANGED <<loaded, open, burst, polling, tasks, terminated>>
            BY <1>4 DEF CallPpt
        <3> QED
            BY <1>1, <3>3, <3>4, <3>5 DEF OthersOK, registers, polling, tasks
    <2>3. Continue(t, <<>>)
        BY <1>4 DEF CallPpt, Advance
    <2>4. UNCHANGED <<state, scopes, posts>>
        BY <1>4 DEF CallPpt, tasks
    <2> QED
        BY <1>1, <1>2, <1>3, <2>1, <2>2, <2>3, <2>4, Continuing
<1>5. CASE SetBurst(t)
    <2>1. Running(t) /\ Head(prog[t]).op \notin Scoped
        BY <1>5 DEF SetBurst, At, Running, Scoped
    <2>2. OthersOK'
        <3>1. Arg(t) \in BOOLEAN
            BY <1>5, Args, Rest DEF SetBurst, At, Running, Arg
        <3> QED
            BY <1>1, <1>5, <3>1 DEF OthersOK, SetBurst, registers, polling, tasks
    <2>3. Continue(t, <<>>)
        BY <1>5 DEF SetBurst, Advance
    <2>4. UNCHANGED <<state, scopes, posts>>
        BY <1>5 DEF SetBurst, tasks
    <2> QED
        BY <1>1, <1>2, <1>3, <2>1, <2>2, <2>3, <2>4, Continuing
<1>6. CASE IfXfelMode(t)
    <2>1. Running(t) /\ Head(prog[t]).op \notin Scoped
        BY <1>6 DEF IfXfelMode, At, Running, Scoped
    <2>2. OthersOK'
        BY <1>1, <1>6 DEF OthersOK, IfXfelMode, registers, polling, tasks
    <2>3. Continue(t, IF xfel THEN RunContMode(FALSE) ELSE <<>>)
        BY <1>6 DEF IfXfelMode
    <2>4. UNCHANGED <<state, scopes, posts>>
        BY <1>6 DEF IfXfelMode, tasks
    <2> QED
        BY <1>1, <1>2, <1>3, <2>1, <2>2, <2>3, <2>4, Continuing
<1>7. CASE BurstOver(t)
    <2>1. Running(t) /\ Head(prog[t]).op \notin Scoped
        BY <1>7 DEF BurstOver, At, Running, Scoped
    <2>2. OthersOK'
        BY <1>1, <1>7 DEF OthersOK, BurstOver, registers, polling, tasks
    <2>3. Continue(t, <<>>)
        BY <1>7 DEF BurstOver, Advance
    <2>4. UNCHANGED <<state, scopes, posts>>
        BY <1>7 DEF BurstOver, tasks
    <2> QED
        BY <1>1, <1>2, <1>3, <2>1, <2>2, <2>3, <2>4, Continuing
<1>8. CASE OpenConnection(t)
    <2>1. Running(t) /\ Head(prog[t]).op \notin Scoped
        BY <1>8 DEF OpenConnection, At, Running, Scoped
    <2>2. OthersOK'
        BY <1>1, <1>8 DEF OthersOK, OpenConnection, registers, polling, tasks
    <2>3. Continue(t, IF open THEN <<>> ELSE Put("OPENING") \o Op("connect"))
        BY <1>8 DEF OpenConnection
    <2>4. UNCHANGED <<state, scopes, posts>>
        BY <1>8 DEF OpenConnection, tasks
    <2> QED
        BY <1>1, <1>2, <1>3, <2>1, <2>2, <2>3, <2>4, Continuing
<1>9. CASE Connect(t)
    <2>1. Running(t) /\ Head(prog[t]).op \notin Scoped
        BY <1>9 DEF Connect, At, Running, Scoped
    <2>2. OthersOK'
        BY <1>1, <1>9 DEF OthersOK, Connect, registers, polling, tasks
    <2>3. Continue(t, <<>>)
        BY <1>9 DEF Connect, Advance
    <2>4. UNCHANGED <<state, scopes, posts>>
        BY <1>9 DEF Connect, tasks
    <2> QED
        BY <1>1, <1>2, <1>3, <2>1, <2>2, <2>3, <2>4, Continuing
<1>10. CASE ConnectFails(t)
    <2>1. Running(t) /\ Head(prog[t]).op \notin Scoped
        BY <1>10 DEF ConnectFails, At, Running, Scoped
    <2>2. OthersOK'
        BY <1>1, <1>10 DEF OthersOK, ConnectFails, registers, polling, tasks
    <2>3. Continue(t, Close \o Put("UNKNOWN"))
        BY <1>10 DEF ConnectFails
    <2>4. UNCHANGED <<state, scopes, posts>>
        BY <1>10 DEF ConnectFails, tasks
    <2> QED
        BY <1>1, <1>2, <1>3, <2>1, <2>2, <2>3, <2>4, Continuing
<1>11. CASE Setup(t)
    <2>1. Running(t) /\ Head(prog[t]).op \notin Scoped
        BY <1>11 DEF Setup, At, Running, Scoped
    <2>2. OthersOK'
        BY <1>1, <1>11 DEF OthersOK, Setup, registers, polling, tasks
    <2>3. Continue(t, IF open THEN ResetAll \o UpdateTestEnvironment(hamburg) \o Put("OFF") ELSE <<>>)
        BY <1>11 DEF Setup
    <2>4. UNCHANGED <<state, scopes, posts>>
        BY <1>11 DEF Setup, tasks
    <2> QED
        BY <1>1, <1>2, <1>3, <2>1, <2>2, <2>3, <2>4, Continuing
<1>12. CASE Disconnect(t)
    <2>1. Running(t) /\ Head(prog[t]).op \notin Scoped
        BY <1>12 DEF Disconnect, At, Running, Scoped
    <2>2. OthersOK'
        BY <1>1, <1>12 DEF OthersOK, Disconnect, registers, polling, tasks
    <2>3. Continue(t, <<>>)
        BY <1>12 DEF Disconnect, Advance
    <2>4. UNCHANGED <<state, scopes, posts>>
        BY <1>12 DEF Disconnect, tasks
    <2> QED
        BY <1>1, <1>2, <1>3, <2>1, <2>2, <2>3, <2>4, Continuing
<1>13. CASE DisconnectFails(t)
    <2>1. Running(t) /\ Head(prog[t]).op \notin Scoped
        BY <1>13 DEF DisconnectFails, At, Running, Scoped
    <2>2. OthersOK'
        BY <1>1, <1>13 DEF OthersOK, DisconnectFails, registers, polling, tasks
    <2>3. Continue(t, Put("ERROR"))
        BY <1>13 DEF DisconnectFails
    <2>4. UNCHANGED <<state, scopes, posts>>
        BY <1>13 DEF DisconnectFails, tasks
    <2> QED
        BY <1>1, <1>2, <1>3, <2>1, <2>2, <2>3, <2>4, Continuing
<1>14. CASE CheckPolling(t)
    <2>1. Running(t) /\ Head(prog[t]).op \notin Scoped
        BY <1>14 DEF CheckPolling, At, Running, Scoped
    <2>2. OthersOK'
        BY <1>1, <1>14 DEF OthersOK, CheckPolling, registers, polling, tasks
    <2>3. Continue(t, IF keep THEN <<>> ELSE Op("spawn"))
        BY <1>14 DEF CheckPolling
    <2>4. UNCHANGED <<state, scopes, posts>>
        BY <1>14 DEF CheckPolling, tasks
    <2> QED
        BY <1>1, <1>2, <1>3, <2>1, <2>2, <2>3, <2>4, Continuing
<1>15. CASE SpawnPoller(t)
    <2>1. Running(t) /\ Head(prog[t]).op \notin Scoped
        BY <1>15 DEF SpawnPoller, At, Running, Scoped
    <2>2. OthersOK'
        BY <1>1, <1>15 DEF OthersOK, SpawnPoller, registers, polling, tasks
    <2>3. Continue(t, <<>>)
        BY <1>15 DEF SpawnPoller, Advance
    <2>4. UNCHANGED <<state, scopes, posts>>
        BY <1>15 DEF SpawnPoller, tasks
    <2> QED
        BY <1>1, <1>2, <1>3, <2>1, <2>2, <2>3, <2>4, Continuing
<1>16. CASE ClearPolling(t)
    <2>1. Running(t) /\ Head(prog[t]).op \notin Scoped
        BY <1>16 DEF ClearPolling, At, Running, Scoped
    <2>2. OthersOK'
        BY <1>1, <1>16 DEF OthersOK, ClearPolling, registers, polling, tasks
    <2>3. Continue(t, <<>>)
        BY <1>16 DEF ClearPolling, Advance
    <2>4. UNCHANGED <<state, scopes, posts>>
        BY <1>16 DEF ClearPolling, tasks
    <2> QED
        BY <1>1, <1>2, <1>3, <2>1, <2>2, <2>3, <2>4, Continuing
<1>17. CASE JoinPoller(t)
    <2>1. Running(t) /\ Head(prog[t]).op \notin Scoped
        BY <1>17 DEF JoinPoller, At, Running, Scoped
    <2>2. OthersOK'
        BY <1>1, <1>17 DEF OthersOK, JoinPoller, registers, polling, tasks
    <2>3. Continue(t, <<>>)
        BY <1>17 DEF JoinPoller, Advance
    <2>4. UNCHANGED <<state, scopes, posts>>
        BY <1>17 DEF JoinPoller, tasks
    <2> QED
        BY <1>1, <1>2, <1>3, <2>1, <2>2, <2>3, <2>4, Continuing
<1> QED
    BY <1>4, <1>5, <1>6, <1>7, <1>8, <1>9, <1>10, <1>11, <1>12, <1>13, <1>14, <1>15, <1>16, <1>17

\* The state is put CHANGING only where a keeper is in scope.
LEMMA PutSteps ==
    ASSUME IInv, NEW t \in Threads, PutState(t) PROVE IInv'
<1>1. /\ Running(t) /\ Head(prog[t]).op = "put" /\ state' = Head(prog[t]).to
      /\ Continue(t, <<>>) /\ UNCHANGED <<scopes, registers, burst, polling, tasks, terminated>>
    BY DEF PutState, At, Arg, Advance
<1>2. OthersOK
    BY Parts DEF IInv
<1>3. OthersOK' /\ posts' = posts
    BY <1>1, <1>2 DEF OthersOK, registers, polling, tasks
<1>4. state' \in DeviceState
    BY <1>1, Rest, Args DEF Running
<1>5. PICK n \in Nat : Nests(Len(frames[t]), Head(prog[t]), n)
    BY <1>1, Rest DEF Running
<1>6. state' = "CHANGING" => frames[t] # <<>>
    BY <1>1, <1>5 DEF Nests
<1>7. Head(prog[t]).op \notin Scoped
    BY <1>1 DEF Scoped
<1> QED
    BY <1>1, <1>3, <1>4, <1>6, <1>7, Nothing, Continuing

\* The last instruction of the strand.
LEMMA PostSteps ==
    ASSUME IInv, NEW t \in Threads, PostTask(t) PROVE IInv'
<1>1. /\ Running(t) /\ prog[t] # <<>> /\ Head(prog[t]).op = "post"
      /\ prog' = [prog EXCEPT ![t] = <<>> \o Tail(prog[t])]
      /\ posted' = Append(posted, Head(prog[t]).to) /\ posts' = posts + 1
      /\ UNCHANGED <<state, scopes, registers, burst, polling, terminated>>
    BY DEF PostTask, At, Arg, Advance, Continue, Goto, Running
<1>2. PICK n \in Nat : /\ Nests(Len(frames[t]), Head(prog[t]), n)
                       /\ Fits(t, Tail(prog[t]), n, prog[t])
    BY <1>1, Rest
<1>3. /\ Head(prog[t]).to \in Task /\ t = "slot" /\ posts < MaxPosts /\ Tail(prog[t]) = <<>>
    BY <1>1, Rest, Args
<1>4. n = Len(frames[t])
    BY <1>1, <1>2 DEF Nests
<1>5. Fits(t, <<>>, Len(frames[t]), prog[t]) /\ prog' = [prog EXCEPT ![t] = <<>>]
    <2>1. <<>> \o Tail(prog[t]) = <<>>
        BY <1>3
    <2> QED
        BY <1>1, <1>2, <1>3, <1>4, <2>1
<1>6. OthersOK /\ state \in DeviceState
    BY Parts DEF IInv
<1>7. OthersOK'
    <2>1. posted \in Seq(Task) /\ posts \in 0 .. MaxPosts /\ MaxPosts \in Nat
        BY <1>6, PptAssumption DEF OthersOK
    <2>2. posted' \in Seq(Task) /\ posts' \in 0 .. MaxPosts
        BY <1>1, <1>3, <2>1
    <2> QED
        BY <1>1, <1>6, <2>2 DEF OthersOK, registers, polling
<1> QED
    BY <1>1, <1>3, <1>5, <1>6, <1>7, ScopesKept

\* The loop of the burst stops the acquisition, then looks at its flag again.
LEMMA BurstSteps ==
    ASSUME IInv, NEW t \in Threads, BurstDone(t) PROVE IInv'
<1>1. PICK p : p = Stop \o prog[t]
    OBVIOUS
<1>2. Fits(t, p, Len(frames[t]), prog[t])
    BY <1>1, Itself, Before, Pieces
<1>3. /\ prog' = [prog EXCEPT ![t] = p] /\ burst' = FALSE
      /\ UNCHANGED <<state, scopes, registers, polling, tasks, terminated>>
    BY <1>1 DEF BurstDone, Goto
<1>4. OthersOK /\ state \in DeviceState
    BY Parts DEF IInv
<1>5. OthersOK' /\ posts' = posts
    BY <1>3, <1>4 DEF OthersOK, registers, polling, tasks
<1> QED
    BY <1>2, <1>3, <1>4, <1>5, ScopesKept

\* What an exception leaves: the end of every scope.
LEMMA Unwinds ==
    ASSUME NEW t, NEW n \in Nat, NEW q
    PROVE  Fits(t, [i \in 1 .. n |-> Drop[1]], n, q)
<1> DEFINE p == [i \in 1 .. n |-> Drop[1]]
<1>1. Drop[1] = [op |-> "drop"] /\ [op |-> "drop"] \in Instruction
    BY DEF Drop, Op, Instruction
<1>2. p \in Seq(Instruction) /\ Len(p) = n /\ \A i \in 1 .. n : p[i] = [op |-> "drop"]
    BY <1>1
<1>3. ASSUME NEW d \in Nat PROVE <<d + 1, Drop[1], d>> \in Moves
    <2>1. d + 1 \in Nat /\ Nests(d + 1, Drop[1], d)
        BY <1>1 DEF Nests
    <2> QED
        BY <1>1, <2>1, Move
<1>4. Runs(Nat, Moves, p, n, 0)
    BY <1>3, RunsDown
<1> HIDE DEF p
<1>5. Goes(p, n, 0)
    BY <1>4 DEF Goes
<1>6. PostsOk(t, p) /\ PausesFrom(p, q)
    BY <1>2 DEF PostsOk, PausesFrom
<1> QED
    BY <1>2, <1>5, <1>6 DEF Fits, p

\* Steps that raise an exception, or end the program.
LEMMA ThrowSteps ==
    ASSUME IInv, NEW t \in Threads, CallThrows(t) \/ CallNull(t) \/ JoinTwice(t)
    PROVE  IInv'
<1>1. OthersOK /\ state \in DeviceState
    BY Parts DEF IInv
<1>2. /\ UNCHANGED <<state, scopes, registers, burst, polling, tasks>>
      /\ Throw(t) \/ (terminated' = TRUE /\ UNCHANGED prog)
    BY DEF CallThrows, CallNull, JoinTwice
<1>3. OthersOK' /\ posts' = posts
    BY <1>1, <1>2 DEF OthersOK, registers, polling, tasks, Throw
<1>4. CASE UNCHANGED prog
    <2>1. prog' = [prog EXCEPT ![t] = prog[t]]
        BY <1>4, Typed
    <2> QED
        BY <1>1, <1>2, <1>3, <2>1, Itself, ScopesKept
<1>5. CASE prog' # prog
    <2>1. PICK p : p = [i \in 1 .. Len(frames[t]) |-> Drop[1]]
        OBVIOUS
    <2>2. DOMAIN frames[t] = 1 .. Len(frames[t])
        BY Typed
    <2>3. prog' = [prog EXCEPT ![t] = p]
        BY <1>2, <1>5, <2>1, <2>2 DEF Throw, Goto
    <2>4. Fits(t, p, Len(frames[t]), prog[t])
        BY <2>1, Typed, Unwinds
    <2> QED
        BY <1>1, <1>2, <1>3, <2>3, <2>4, ScopesKept
<1> QED
    BY <1>4, <1>5

-----------------------------------------------------------------------------
(* Keepers that enter a scope *)

\* The state is CHANGING where a thread begins to keep only in an overlap.
LEMMA FirstKeeper ==
    ASSUME IInv, TypeOK', NEW t \in Threads, Keeping(t)', state = "CHANGING",
           overlapped' = (overlapped \/ Overlap'), ~overlapped',
           \A u \in Threads \ {t} : frames'[u] = frames[u]
    PROVE  frames[t] # <<>>
<1>1. PICK u \in Threads : frames[u] # <<>>
    BY DEF IInv, KeeperInv, Alone
<1>2. CASE u # t
    <2>1. Keeping(u)'
        BY <1>1, <1>2 DEF Keeping
    <2> QED
        BY <1>2, <2>1, Apart
<1> QED
    BY <1>1, <1>2

LEMMA Pushed ==
    ASSUME IInv, TypeOK', NEW t \in Threads, Running(t), NEW f \in Frames,
           Nests(Len(frames[t]), Head(prog[t]), Len(frames[t]) + 1),
           prog' = [prog EXCEPT ![t] = Tail(prog[t])],
           frames' = [frames EXCEPT ![t] = Append(frames[t], f)],
           overlapped' = (overlapped \/ Overlap'), posts' = posts,
           f.to = "CHANGING" => overlapped \/ state = "CHANGING" \/ frames[t] # <<>>
    PROVE  KeeperInv'
<1> DEFINE d == Len(frames[t])
<1>1. /\ prog'[t] = Tail(prog[t]) /\ frames'[t] = Append(frames[t], f)
      /\ \A u \in Threads \ {t} : prog'[u] = prog[u] /\ frames'[u] = frames[u]
      /\ d \in Nat
    BY Typed
<1>2. /\ Len(frames'[t]) = d + 1 /\ frames'[t] # <<>>
      /\ frames'[t][1] = IF d = 0 THEN f ELSE frames[t][1]
    <2>1. frames[t] \in Seq(Frames)
        BY Typed
    <2>2. /\ Len(Append(frames[t], f)) = d + 1 /\ Append(frames[t], f)[d + 1] = f
          /\ \A i \in 1 .. d : Append(frames[t], f)[i] = frames[t][i]
        BY <2>1
    <2>3. d # 0 => 1 \in 1 .. d
        BY <1>1
    <2>4. Append(frames[t], f) # <<>>
        BY <2>1
    <2> QED
        BY <1>1, <2>2, <2>3, <2>4
<1>3. PICK n \in Nat : Nests(d, Head(prog[t]), n) /\ Fits(t, Tail(prog[t]), n, prog[t])
    BY Rest DEF Running
<1>4. n = d + 1
    BY <1>1, <1>3 DEF Nests
<1>5. /\ Goes(Tail(prog[t]), d + 1, 0) /\ PostsOk(t, Tail(prog[t]))
      /\ PausesFrom(Tail(prog[t]), prog[t])
    BY <1>3, <1>4 DEF Fits
<1> HIDE DEF d
<1>6. ASSUME NEW u \in Threads PROVE Nested(u)' /\ PostsLast(u)'
    <2>0. Nested(u) /\ PostsLast(u)
        BY DEF IInv, KeeperInv
    <2>1. CASE u = t
        <3>1. Nested(u)'
            BY <1>1, <1>2, <1>5, <2>1 DEF Nested, Goes
        <3>2. PostsLast(u)'
            BY <1>1, <1>5, <2>1 DEF PostsLast, PostsOk
        <3> QED
            BY <3>1, <3>2
    <2>2. CASE u # t
        BY <1>1, <2>0, <2>2 DEF Nested, PostsLast
    <2> QED
        BY <2>1, <2>2
<1>7. ASSUME ~overlapped' PROVE Alone'
    <2>0. Alone /\ ~overlapped
        BY <1>7 DEF IInv, KeeperInv
    <2>1. \A u, v \in Threads : Keeping(u)' /\ Keeping(v)' => u = v
        BY <1>7, Apart
    <2>2. f.to = "CHANGING" => frames[t] # <<>>
        <3>1. Keeping(t)'
            BY <1>2 DEF Keeping
        <3> QED
            BY <1>1, <1>7, <2>0, <3>1, FirstKeeper
    <2>3. frames[t] = <<>> <=> d = 0
        BY Typed, EmptySeq DEF d
    <2>4. frames'[t][1].to # "CHANGING"
        BY <1>2, <2>0, <2>2, <2>3 DEF Alone
    <2>5. ASSUME NEW i \in 1 .. Len(prog'[t]), prog'[t][i].op = "paused"
          PROVE  prog'[t][i].to # "CHANGING"
        BY <1>1, <1>5, <2>0, <2>5 DEF PausesFrom, Alone
    <2>6. ASSUME NEW u \in Threads
          PROVE  /\ frames'[u] # <<>> => frames'[u][1].to # "CHANGING"
                 /\ \A i \in 1 .. Len(prog'[u]) :
                       prog'[u][i].op = "paused" => prog'[u][i].to # "CHANGING"
        <3>1. CASE u = t
            BY <2>4, <2>5, <3>1
        <3>2. CASE u # t
            BY <1>1, <2>0, <3>2 DEF Alone
        <3> QED
            BY <3>1, <3>2
    <2>7. \E u \in Threads : frames'[u] # <<>>
        BY <1>2
    <2> QED
        BY <2>1, <2>6, <2>7 DEF Alone
<1> QED
    BY <1>6, <1>7 DEF KeeperInv

LEMMA PushSteps ==
    ASSUME IInv, NEW t \in Threads, KeepState(t) \/ SaveState(t) \/ Paused(t)
    PROVE  IInv'
<1>1. PICK f : /\ f = IF Head(prog[t]).op = "keep" THEN Frame("state", Arg(t))
                      ELSE IF Head(prog[t]).op = "save" THEN Frame("state", state)
                      ELSE Frame("cont", Arg(t))
    OBVIOUS
<1>2. /\ Running(t) /\ Head(prog[t]).op \in {"keep", "save", "paused"}
      /\ Advance(t) /\ Push(t, f) /\ state' \in {state, "CHANGING"}
      /\ UNCHANGED <<registers, burst, polling, tasks, terminated>>
    BY <1>1 DEF KeepState, SaveState, Paused, At
<1>3. PICK n \in Nat : /\ Nests(Len(frames[t]), Head(prog[t]), n)
                       /\ Fits(t, Tail(prog[t]), n, prog[t])
    BY <1>2, Rest DEF Running
<1>4. Nests(Len(frames[t]), Head(prog[t]), Len(frames[t]) + 1)
    BY <1>2, <1>3, Typed DEF Nests
<1>5. /\ prog' = [prog EXCEPT ![t] = Tail(prog[t])] /\ Tail(prog[t]) \in Seq(Instruction)
      /\ frames' = [frames EXCEPT ![t] = Append(frames[t], f)]
      /\ overlapped' = (overlapped \/ Overlap')
    <2>1. Tail(prog[t]) \in Seq(Instruction)
        BY <1>3 DEF Fits
    <2>2. <<>> \o Tail(prog[t]) = Tail(prog[t])
        BY <2>1
    <2> QED
        BY <1>2, <2>1, <2>2 DEF Advance, Continue, Goto, Push
<1>6. f \in Frames
    <2>1. Head(prog[t]).op \in {"keep", "paused"} => Arg(t) \in DeviceState
        BY <1>2, Rest, Args DEF Running, Arg
    <2> QED
        BY <1>1, <1>2, <2>1, Typed DEF Frame, Frames
<1>7. f.to = "CHANGING" => overlapped \/ state = "CHANGING" \/ frames[t] # <<>>
    <2>1. CASE Head(prog[t]).op = "keep"
        BY <1>1, <1>3, <2>1 DEF Nests, Frame, Arg
    <2>2. CASE Head(prog[t]).op = "save"
        BY <1>1, <2>2 DEF Frame
    <2>3. CASE Head(prog[t]).op = "paused"
        <3>1. Head(prog[t]) = prog[t][1] /\ 1 \in 1 .. Len(prog[t])
            BY <1>2, Rest DEF Running
        <3> QED
            BY <1>1, <2>3, <3>1 DEF Frame, Arg, IInv, KeeperInv, Alone
    <2> QED
        BY <1>2, <2>1, <2>2, <2>3
<1>8. OthersOK /\ state \in DeviceState
    BY Parts DEF IInv
<1>9. OthersOK' /\ posts' = posts
    BY <1>2, <1>8 DEF OthersOK, registers, polling, tasks
<1>10. TypeOK'
    <2>1. prog' \in [Threads -> Seq(Instruction)] /\ frames' \in [Threads -> Seq(Frames)]
        BY <1>5, <1>6, Typed
    <2>2. state' \in DeviceState /\ overlapped' \in BOOLEAN
        BY <1>2, <1>5, <1>8, Typed DEF DeviceState, Overlap
    <2> QED
        BY <1>9, <2>1, <2>2 DEF TypeOK, OthersOK, Frames
<1>11. KeeperInv'
    BY <1>2, <1>4, <1>5, <1>6, <1>7, <1>9, <1>10, Pushed
<1> QED
    BY <1>10, <1>11 DEF IInv

\* The constructor that stops the acquisition first: the keeper is yet to come.
LEMMA PauseSteps ==
    ASSUME IInv, NEW t \in Threads, Pause(t) PROVE IInv'
<1>1. PICK b : b = (IF state = "ACQUIRING" THEN RunAcquisition(FALSE) ELSE <<>>)
                   \o (IF state \in Acquisition THEN RunContMode(FALSE) ELSE <<>>)
    OBVIOUS
<1>2. PICK i : i = [op |-> "paused", to |-> state]
    OBVIOUS
<1>3. Flat(b)
    BY <1>1, Pieces, Nothing, Both
<1>4. state \in DeviceState /\ OthersOK
    BY Parts DEF IInv
<1>5. i \in Instruction /\ i.op = "paused" /\ i.to = state /\ Nests(0, i, 1)
    BY <1>2, <1>4 DEF Instruction, Nests
<1>6. /\ Running(t) /\ Head(prog[t]).op = "pause" /\ prog' = [prog EXCEPT ![t] = (b \o <<i>>) \o Tail(prog[t])]
      /\ UNCHANGED <<state, frames, registers, burst, polling, tasks, terminated>>
      /\ overlapped' = (overlapped \/ Overlap')
    BY <1>1, <1>2 DEF Pause, At, Continue, Goto
<1>7. PICK n \in Nat : /\ Nests(Len(frames[t]), Head(prog[t]), n)
                       /\ Fits(t, Tail(prog[t]), n, prog[t])
    BY <1>6, Rest DEF Running
<1>8. Len(frames[t]) = 0 /\ n = 1
    BY <1>6, <1>7 DEF Nests
<1>9. PICK r : r = <<i>> \o Tail(prog[t])
    OBVIOUS
<1>10. /\ r \in Seq(Instruction) /\ Len(r) = Len(Tail(prog[t])) + 1 /\ r[1] = i
       /\ \A k \in 2 .. Len(r) : k - 1 \in 1 .. Len(Tail(prog[t])) /\ r[k] = Tail(prog[t])[k - 1]
       /\ Len(Tail(prog[t])) \in Nat
    <2>1. <<i>> \in Seq(Instruction) /\ Tail(prog[t]) \in Seq(Instruction)
        BY <1>5, <1>7 DEF Fits
    <2> QED
        BY <1>9, <2>1, ConcatProperties
<1>11. Fits(t, r, 0, r)
    <2>1. Goes(r, 0, 0)
        <3>1. Goes(<<i>>, 0, 1) /\ <<i>> \in Seq(Instruction)
            BY <1>5, Single
        <3>2. Goes(Tail(prog[t]), 1, 0) /\ Tail(prog[t]) \in Seq(Instruction)
            BY <1>7, <1>8 DEF Fits
        <3> QED
            BY <1>9, <3>1, <3>2, RunsBoth DEF Goes
    <2>2. ASSUME NEW k \in 1 .. Len(r), r[k].op = "post"
          PROVE  t = "slot" /\ k = Len(r) /\ posts < MaxPosts
        <3>1. k \in 2 .. Len(r)
            BY <1>5, <1>10, <2>2
        <3> QED
            BY <1>7, <1>10, <2>2, <3>1 DEF Fits, PostsOk
    <2> QED
        BY <1>10, <2>1, <2>2 DEF Fits, PostsOk, PausesFrom
<1>12. PICK p : p = b \o r
    OBVIOUS
<1>13. Fits(t, p, 0, r)
    BY <1>3, <1>11, <1>12, Before
<1>14. prog' = [prog EXCEPT ![t] = p]
    <2>1. b \in Seq(Instruction) /\ <<i>> \in Seq(Instruction) /\ Tail(prog[t]) \in Seq(Instruction)
        BY <1>3, <1>5, <1>7, CalmProgram DEF Flat, Fits
    <2>2. (b \o <<i>>) \o Tail(prog[t]) = p
        BY <1>9, <1>12, <2>1, Regroup
    <2> QED
        BY <1>6, <2>2
<1>15. /\ prog'[t] = p /\ frames' = frames /\ posts' = posts
       /\ \A u \in Threads \ {t} : prog'[u] = prog[u]
    BY <1>6, <1>14, Typed DEF tasks
<1>16. TypeOK'
    <2>1. OthersOK'
        BY <1>4, <1>6 DEF OthersOK, registers, polling, tasks
    <2>2. prog' \in [Threads -> Seq(Instruction)] /\ frames' \in [Threads -> Seq(Frames)]
        BY <1>6, <1>13, <1>14, Typed DEF Fits
    <2>3. state' \in DeviceState /\ overlapped' \in BOOLEAN
        BY <1>4, <1>6, Typed DEF Overlap
    <2> QED
        BY <2>1, <2>2, <2>3 DEF TypeOK, OthersOK, Frames
<1>17. ASSUME NEW u \in Threads PROVE Nested(u)' /\ PostsLast(u)'
    <2>0. Nested(u) /\ PostsLast(u)
        BY DEF IInv, KeeperInv
    <2>1. CASE u = t
        BY <1>8, <1>13, <1>15, <2>1 DEF Nested, PostsLast, Fits, Goes, PostsOk
    <2>2. CASE u # t
        BY <1>15, <2>0, <2>2 DEF Nested, PostsLast
    <2> QED
        BY <2>1, <2>2
<1>18. Keeping(t)'
    <2>1. Len(b) \in Nat /\ b \in Seq(Instruction)
        BY <1>3, CalmProgram DEF Flat
    <2>2. Len(b) + 1 \in 1 .. Len(p) /\ p[Len(b) + 1] = i
        BY <1>10, <1>12, <2>1, ConcatProperties
    <2> QED
        BY <1>5, <1>15, <2>2 DEF Keeping, Pausing
<1>19. ASSUME ~overlapped' PROVE Alone'
    <2>0. Alone /\ ~overlapped
        BY <1>6, <1>19 DEF IInv, KeeperInv
    <2>1. \A u, v \in Threads : Keeping(u)' /\ Keeping(v)' => u = v
        BY <1>6, <1>16, <1>19, Apart
    <2>2. frames[t] = <<>>
        BY <1>8, Typed, EmptySeq
    <2>3. state # "CHANGING"
        BY <1>6, <1>15, <1>16, <1>18, <1>19, <2>2, FirstKeeper
    <2>4. ASSUME NEW k \in 1 .. Len(p), p[k].op = "paused" PROVE p[k].to # "CHANGING"
        <3>1. PICK j \in 1 .. Len(r) : r[j] = p[k]
            BY <1>13, <2>4 DEF Fits, PausesFrom
        <3>2. CASE j = 1
            BY <1>5, <1>10, <2>3, <3>1, <3>2
        <3>3. CASE j # 1
            <4>1. j - 1 \in 1 .. Len(Tail(prog[t])) /\ Tail(prog[t])[j - 1] = p[k]
                BY <1>10, <3>1, <3>3
            <4> QED
                BY <1>7, <2>0, <2>4, <4>1 DEF Fits, PausesFrom, Alone
        <3> QED
            BY <3>2, <3>3
    <2>5. ASSUME NEW u \in Threads
          PROVE  /\ frames'[u] # <<>> => frames'[u][1].to # "CHANGING"
                 /\ \A k \in 1 .. Len(prog'[u]) :
                       prog'[u][k].op = "paused" => prog'[u][k].to # "CHANGING"
        <3>1. CASE u = t
            BY <1>15, <2>0, <2>4, <3>1 DEF Alone
        <3>2. CASE u # t
            BY <1>15, <2>0, <3>2 DEF Alone
        <3> QED
            BY <3>1, <3>2
    <2> QED
        BY <1>6, <2>1, <2>3, <2>5 DEF Alone
<1>20. KeeperInv'
    BY <1>17, <1>19 DEF KeeperInv
<1> QED
    BY <1>16, <1>20 DEF IInv

-----------------------------------------------------------------------------
(* Keepers that leave it *)

\* A drop has a keeper to drop.
LEMMA Innermost ==
    ASSUME IInv, NEW t \in Threads, At(t, "drop")
    PROVE  LET d == Len(frames[t])
           IN  /\ d \in Nat \ {0} /\ frames[t] # <<>> /\ Top(t) \in Frames
               /\ Popped(t) \in Seq(Frames) /\ Len(Popped(t)) = d - 1
               /\ \A i \in 1 .. d - 1 : Popped(t)[i] = frames[t][i]
               /\ Fits(t, Tail(prog[t]), d - 1, prog[t])
<1> DEFINE d == Len(frames[t])
<1>1. Running(t) /\ Head(prog[t]).op = "drop"
    BY DEF At
<1>2. PICK n \in Nat : Nests(d, Head(prog[t]), n) /\ Fits(t, Tail(prog[t]), n, prog[t])
    BY <1>1, Rest DEF Running
<1>3. d = n + 1
    BY <1>1, <1>2 DEF Nests
<1>4. frames[t] \in Seq(Frames) /\ d \in Nat
    BY Typed
<1>5. frames[t] # <<>> /\ Top(t) \in Frames
    BY <1>3, <1>4 DEF Top
<1>6. /\ Popped(t) \in Seq(Frames) /\ Len(Popped(t)) = d - 1
      /\ \A i \in 1 .. d - 1 : Popped(t)[i] = frames[t][i]
    <2>1. d - 1 \in 1 - 1 .. Len(frames[t])
        BY <1>3, <1>4
    <2>2. /\ SubSeq(frames[t], 1, d - 1) \in Seq(Frames)
          /\ Len(SubSeq(frames[t], 1, d - 1)) = IF 1 <= d - 1 THEN (d - 1) - 1 + 1 ELSE 0
          /\ \A i \in 1 .. (d - 1) - 1 + 1 : SubSeq(frames[t], 1, d - 1)[i] = frames[t][1 + i - 1]
        BY <1>4, <2>1, SubSeqProperties
    <2> HIDE DEF d
    <2>3. Len(SubSeq(frames[t], 1, d - 1)) = d - 1 /\ (d - 1) - 1 + 1 = d - 1
        BY <1>2, <1>3, <2>2
    <2>4. \A i \in 1 .. d - 1 : 1 + i - 1 = i
        BY <1>4
    <2> QED
        BY <2>2, <2>3, <2>4 DEF Popped, d
<1> QED
    BY <1>2, <1>3, <1>4, <1>5, <1>6

\* Of the frames the outermost stays the same as long as there is one.
LEMMA Unstacked ==
    ASSUME IInv, NEW t \in Threads, NEW p, NEW g \in Seq(Frames),
           Fits(t, p, Len(g), prog[t]),
           prog' = [prog EXCEPT ![t] = p], frames' = [frames EXCEPT ![t] = g],
           UNCHANGED overlapped, posts' = posts,
           g # <<>> => frames[t] # <<>> /\ g[1].to = frames[t][1].to,
           state' = "CHANGING" => overlapped \/ g # <<>>
    PROVE  KeeperInv'
<1>1. /\ prog'[t] = p /\ frames'[t] = g
      /\ \A u \in Threads \ {t} : prog'[u] = prog[u] /\ frames'[u] = frames[u]
    BY Typed
<1>2. ASSUME NEW u \in Threads PROVE Nested(u)' /\ PostsLast(u)'
    <2>0. Nested(u) /\ PostsLast(u)
        BY DEF IInv, KeeperInv
    <2>1. CASE u = t
        BY <1>1, <2>1 DEF Nested, PostsLast, Fits, Goes, PostsOk
    <2>2. CASE u # t
        BY <1>1, <2>0, <2>2 DEF Nested, PostsLast
    <2> QED
        BY <2>1, <2>2
<1>3. ASSUME ~overlapped' PROVE Alone'
    <2>0. Alone
        BY <1>3 DEF IInv, KeeperInv
    <2>1. ASSUME NEW i \in 1 .. Len(p), p[i].op = "paused"
          PROVE  \E j \in 1 .. Len(prog[t]) : prog[t][j] = p[i]
        BY <2>1 DEF Fits, PausesFrom
    <2>2. ASSUME NEW u \in Threads, Keeping(u)' PROVE Keeping(u)
        <3>1. CASE u = t
            BY <1>1, <2>1, <2>2, <3>1 DEF Keeping, Pausing
        <3>2. CASE u # t
            BY <1>1, <2>2, <3>2 DEF Keeping, Pausing
        <3> QED
            BY <3>1, <3>2
    <2>3. \A u, v \in Threads : Keeping(u)' /\ Keeping(v)' => u = v
        BY <2>0, <2>2 DEF Alone
    <2>4. state' = "CHANGING" => \E u \in Threads : frames'[u] # <<>>
        BY <1>1, <1>3
    <2>5. ASSUME NEW u \in Threads
          PROVE  /\ frames'[u] # <<>> => frames'[u][1].to # "CHANGING"
                 /\ \A k \in 1 .. Len(prog'[u]) :
                       prog'[u][k].op = "paused" => prog'[u][k].to # "CHANGING"
        <3>1. CASE u = t
            BY <1>1, <2>0, <2>1, <3>1 DEF Alone
        <3>2. CASE u # t
            BY <1>1, <2>0, <3>2 DEF Alone
        <3> QED
            BY <3>1, <3>2
    <2> QED
        BY <2>3, <2>4, <2>5 DEF Alone
<1> QED
    BY <1>2, <1>3 DEF KeeperInv

LEMMA DropSteps ==
    ASSUME IInv, NEW t \in Threads, DropState(t) PROVE IInv'
<1> DEFINE d == Len(frames[t])
<1>1. /\ At(t, "drop") /\ Running(t) /\ state' = Top(t).to /\ frames' = [frames EXCEPT ![t] = Popped(t)]
      /\ prog' = [prog EXCEPT ![t] = <<>> \o Tail(prog[t])]
      /\ UNCHANGED <<overlapped, registers, burst, polling, tasks, terminated>>
    BY DEF DropState, Advance, Continue, Goto, At
<1>2. /\ d \in Nat \ {0} /\ frames[t] # <<>> /\ Top(t) \in Frames
      /\ Popped(t) \in Seq(Frames) /\ Len(Popped(t)) = d - 1
      /\ \A i \in 1 .. d - 1 : Popped(t)[i] = frames[t][i]
      /\ Fits(t, Tail(prog[t]), d - 1, prog[t])
    BY <1>1, Innermost
<1>3. PICK p, g : p = Tail(prog[t]) /\ g = Popped(t)
    OBVIOUS
<1> HIDE DEF d
<1>4. /\ g \in Seq(Frames) /\ Len(g) = d - 1 /\ \A i \in 1 .. d - 1 : g[i] = frames[t][i]
      /\ Fits(t, p, Len(g), prog[t]) /\ p \in Seq(Instruction)
    BY <1>2, <1>3 DEF Fits
<1>5. prog' = [prog EXCEPT ![t] = p] /\ frames' = [frames EXCEPT ![t] = g]
    <2>1. <<>> \o p = p
        BY <1>4
    <2> QED
        BY <1>1, <1>3, <2>1
<1>6. g # <<>> => g[1].to = frames[t][1].to
    <2>1. g # <<>> => 1 \in 1 .. d - 1
        BY <1>2, <1>4, EmptySeq
    <2> QED
        BY <1>4, <2>1
<1>7. state' = "CHANGING" => overlapped \/ g # <<>>
    <2> SUFFICES ASSUME ~overlapped, g = <<>> PROVE state' # "CHANGING"
        OBVIOUS
    <2>1. d = 1
        BY <1>2, <1>4, EmptySeq
    <2>2. Top(t) = frames[t][1]
        BY <2>1 DEF Top, d
    <2> QED
        BY <1>1, <1>2, <2>2 DEF IInv, KeeperInv, Alone
<1>8. OthersOK
    BY Parts DEF IInv
<1>9. OthersOK' /\ posts' = posts
    BY <1>1, <1>8 DEF OthersOK, registers, polling, tasks
<1>10. TypeOK'
    <2>1. prog' \in [Threads -> Seq(Instruction)] /\ frames' \in [Threads -> Seq(Frames)]
        BY <1>4, <1>5, Typed
    <2>2. state' \in DeviceState /\ overlapped' \in BOOLEAN
        BY <1>1, <1>2, Typed DEF Frames
    <2> QED
        BY <1>9, <2>1, <2>2 DEF TypeOK, OthersOK, Frames
<1>11. KeeperInv'
    BY <1>1, <1>2, <1>4, <1>5, <1>6, <1>7, <1>9, Unstacked
<1> QED
    BY <1>10, <1>11 DEF IInv

LEMMA ResumeSteps ==
    ASSUME IInv, NEW t \in Threads, Resume(t) PROVE IInv'
<1> DEFINE d == Len(frames[t])
<1>1. PICK b : b = (IF Top(t).to \in Acquisition THEN RunContMode(TRUE) ELSE <<>>)
                   \o (IF Top(t).to = "ACQUIRING" THEN RunAcquisition(TRUE) ELSE <<>>)
    OBVIOUS
<1>2. PICK f : f = Frame("destructor", Top(t).to)
    OBVIOUS
<1>3. PICK p, g : p = b \o prog[t] /\ g = Append(Popped(t), f)
    OBVIOUS
<1>4. /\ At(t, "drop") /\ frames' = [frames EXCEPT ![t] = g] /\ prog' = [prog EXCEPT ![t] = p]
      /\ UNCHANGED <<overlapped, state, registers, burst, polling, tasks, terminated>>
    BY <1>1, <1>2, <1>3 DEF Resume, Goto
<1>5. /\ d \in Nat \ {0} /\ frames[t] # <<>> /\ Top(t) \in Frames
      /\ Popped(t) \in Seq(Frames) /\ Len(Popped(t)) = d - 1
      /\ \A i \in 1 .. d - 1 : Popped(t)[i] = frames[t][i]
    BY <1>4, Innermost
<1>6. f \in Frames /\ f.to = Top(t).to
    BY <1>2, <1>5 DEF Frame, Frames
<1> HIDE DEF d
<1>7. /\ g \in Seq(Frames) /\ Len(g) = d /\ g # <<>> /\ g[d] = f
      /\ \A i \in 1 .. d - 1 : g[i] = frames[t][i]
    <2>1. PICK h \in Seq(Frames) : h = Popped(t)
        BY <1>5
    <2>2. Len(h) = d - 1 /\ g = Append(h, f)
        BY <1>3, <1>5, <2>1
    <2>3. /\ g \in Seq(Frames) /\ Len(g) = Len(h) + 1 /\ g[Len(h) + 1] = f /\ g # <<>>
          /\ \A i \in 1 .. Len(h) : g[i] = h[i]
        BY <1>6, <2>2
    <2>4. Len(h) + 1 = d /\ 1 .. Len(h) = 1 .. d - 1
        BY <1>5, <2>2
    <2> QED
        BY <1>5, <2>1, <2>3, <2>4
<1>8. Fits(t, p, d, prog[t])
    <2>1. Flat(b)
        BY <1>1, Pieces, Nothing, Both
    <2> QED
        BY <1>3, <2>1, Itself, Before DEF d
<1>9. g[1].to = frames[t][1].to
    <2>1. CASE d = 1
        BY <1>6, <1>7, <2>1 DEF Top, d
    <2>2. CASE d # 1
        <3>1. 1 \in 1 .. d - 1
            BY <1>5, <2>2
        <3> QED
            BY <1>7, <3>1
    <2> QED
        BY <2>1, <2>2
<1>10. OthersOK
    BY Parts DEF IInv
<1>11. OthersOK' /\ posts' = posts
    BY <1>4, <1>10 DEF OthersOK, registers, polling, tasks
<1>12. TypeOK'
    <2>1. prog' \in [Threads -> Seq(Instruction)] /\ frames' \in [Threads -> Seq(Frames)]
        BY <1>4, <1>7, <1>8, Typed DEF Fits
    <2>2. state' \in DeviceState /\ overlapped' \in BOOLEAN
        BY <1>4, Typed
    <2> QED
        BY <1>11, <2>1, <2>2 DEF TypeOK, OthersOK, Frames
<1>13. KeeperInv'
    BY <1>4, <1>5, <1>7, <1>8, <1>9, <1>11, Unstacked
<1> QED
    BY <1>12, <1>13 DEF IInv

-----------------------------------------------------------------------------
(* Callers, and the theorems *)

LEMMA PollerSteps ==
    ASSUME IInv, PollerEnds \/ PollerThrows PROVE IInv'
<1>1. /\ poller' = "ended"
      /\ UNCHANGED <<state, prog, scopes, registers, burst, keep, tasks, terminated>>
    BY DEF PollerEnds, PollerThrows
<1>2. OthersOK /\ state \in DeviceState
    BY Parts DEF IInv
<1>3. OthersOK' /\ posts' = posts
    BY <1>1, <1>2 DEF OthersOK, registers, tasks
<1>4. PICK t \in Threads : t = "slot"
    BY PptAssumption
<1>5. prog' = [prog EXCEPT ![t] = prog[t]]
    BY <1>1, Typed
<1> QED
    BY <1>1, <1>2, <1>3, <1>5, Itself, ScopesKept

\* A thread that has done all begins something.
LEMMA Begins ==
    ASSUME IInv, NEW t \in Threads, prog[t] = <<>>, NEW p,
           NEW may, may => t = "slot" /\ posts < MaxPosts, Whole(p, may)
    PROVE  Fits(t, p, Len(frames[t]), prog[t])
<1>1. Nested(t)
    BY DEF IInv, KeeperInv
<1>2. Len(frames[t]) = 0
    BY <1>1, RunsNowhere DEF Nested
<1>3. p \in Seq(Instruction) /\ Goes(p, 0, 0)
    BY DEF Whole
<1>4. PostsOk(t, p) /\ PausesFrom(p, prog[t])
    BY DEF Whole, PostsOk, PausesFrom
<1> QED
    BY <1>2, <1>3, <1>4 DEF Fits

LEMMA CallerSteps ==
    ASSUME IInv,
           \/ \E slot \in Slots : Call(slot)
           \/ Receive
           \/ \E w \in Workers : BeginTask(w)
    PROVE  IInv'
<1>0. OthersOK /\ state \in DeviceState
    BY Parts DEF IInv
<1>1. ASSUME NEW slot \in Slots, Call(slot) PROVE IInv'
    <2>1. PICK t \in Threads : t = "slot"
        BY PptAssumption
    <2>2. PICK p : p = Body(slot)
        OBVIOUS
    <2>3. PICK may : may = Posts(slot)
        OBVIOUS
    <2>4. Whole(p, may)
        BY <2>2, <2>3, Bodies, SlotsAssumption
    <2>5. /\ prog[t] = <<>> /\ prog' = [prog EXCEPT ![t] = p] /\ (may => posts < MaxPosts)
          /\ UNCHANGED <<state, scopes, registers, burst, polling, tasks, terminated>>
        BY <1>1, <2>1, <2>2, <2>3 DEF Call, Goto
    <2>6. Fits(t, p, Len(frames[t]), prog[t])
        BY <2>1, <2>4, <2>5, Begins
    <2>7. OthersOK' /\ posts' = posts
        BY <1>0, <2>5 DEF OthersOK, registers, polling, tasks
    <2> QED
        BY <1>0, <2>5, <2>6, <2>7, ScopesKept
<1>2. ASSUME Receive PROVE IInv'
    <2>1. PICK t \in Threads : t = "data"
        BY <1>2 DEF Receive
    <2>2. PICK regType \in RegTypes : Goto("data", DataBody(regType))
        BY <1>2 DEF Receive
    <2>3. PICK p : p = DataBody(regType)
        OBVIOUS
    <2>4. Whole(p, FALSE)
        BY <2>3, DataBodies, FlatWhole
    <2>5. /\ prog[t] = <<>> /\ prog' = [prog EXCEPT ![t] = p]
          /\ UNCHANGED <<state, scopes, registers, burst, polling, tasks, terminated>>
        BY <1>2, <2>1, <2>2, <2>3 DEF Receive, Goto
    <2>6. Fits(t, p, Len(frames[t]), prog[t])
        BY <2>4, <2>5, Begins
    <2>7. OthersOK' /\ posts' = posts
        BY <1>0, <2>5 DEF OthersOK, registers, polling, tasks
    <2> QED
        BY <1>0, <2>5, <2>6, <2>7, ScopesKept
<1>3. ASSUME NEW t \in Workers, BeginTask(t) PROVE IInv'
    <2>1. posted \in Seq(Task) /\ posted # <<>> /\ t \in Threads
        BY <1>0, <1>3 DEF OthersOK, BeginTask, Workers
    <2>2. Head(posted) \in Task /\ Tail(posted) \in Seq(Task)
        BY <2>1
    <2>3. PICK boards \in BOOLEAN : Goto(t, TaskBody(Head(posted), boards))
        BY <1>3 DEF BeginTask
    <2>4. PICK p : p = TaskBody(Head(posted), boards)
        OBVIOUS
    <2>5. Whole(p, FALSE)
        BY <2>2, <2>4, TaskBodies, FlatWhole
    <2>6. /\ prog[t] = <<>> /\ prog' = [prog EXCEPT ![t] = p] /\ posted' = Tail(posted)
          /\ UNCHANGED <<state, scopes, registers, burst, polling, posts, terminated>>
        BY <1>3, <2>3, <2>4 DEF BeginTask, Goto
    <2>7. Fits(t, p, Len(frames[t]), prog[t])
        BY <2>1, <2>5, <2>6, Begins
    <2>8. OthersOK'
        BY <1>0, <2>2, <2>6 DEF OthersOK, registers, polling
    <2> QED
        BY <1>0, <2>1, <2>6, <2>7, <2>8, ScopesKept
<1> QED
    BY <1>1, <1>2, <1>3

LEMMA InitInv == Init => IInv
<1> SUFFICES ASSUME Init PROVE IInv
    OBVIOUS
<1>1. Flat(Open) /\ Flat(Put("ERROR")) /\ Flat(<<>>)
    BY Pieces, FlatPut, Nothing DEF DeviceState
<1>2. ASSUME NEW t \in Threads
      PROVE  frames[t] = <<>> /\ Flat(prog[t])
    BY <1>1 DEF Init
<1>3. ASSUME NEW t \in Threads
      PROVE  /\ prog[t] \in Seq(Instruction) /\ Goes(prog[t], 0, 0)
             /\ \A i \in 1 .. Len(prog[t]) : prog[t][i].op \notin {"post", "pause", "paused"}
    BY <1>2, CalmProgram DEF Flat
<1>4. OthersOK
    <2>1. loaded \in BOOLEAN
        BY DEF Init
    <2>2. hamburg \in BOOLEAN
        BY PptAssumption DEF Init
    <2>3. posts \in 0 .. MaxPosts
        BY PptAssumption DEF Init
    <2>4. open \in BOOLEAN /\ cont \in BOOLEAN /\ sending \in BOOLEAN /\ xfel \in BOOLEAN
        BY DEF Init
    <2>5. burst \in BOOLEAN /\ keep \in BOOLEAN /\ terminated \in BOOLEAN
        BY DEF Init
    <2>6. poller \in {"none", "running", "ended"} /\ posted \in Seq(Task)
        BY DEF Init
    <2> QED
        BY <2>1, <2>2, <2>3, <2>4, <2>5, <2>6 DEF OthersOK, registers
<1>5. TypeOK
    <2>1. prog \in [Threads -> Seq(Instruction)]
        <3>1. prog = [t \in Threads |-> prog[t]]
            BY DEF Init
        <3> QED
            BY <1>3, <3>1
    <2>2. frames \in [Threads -> Seq(Frames)]
        BY DEF Init
    <2>3. state \in DeviceState /\ overlapped \in BOOLEAN
        BY DEF Init, DeviceState
    <2> QED
        BY <1>4, <2>1, <2>2, <2>3 DEF TypeOK, OthersOK, Frames
<1>6. \A t \in Threads : Nested(t) /\ PostsLast(t) /\ ~Keeping(t)
    BY <1>2, <1>3 DEF Nested, Goes, PostsLast, Keeping, Pausing
<1>7. state # "CHANGING"
    BY DEF Init
<1>8. Alone
    BY <1>2, <1>3, <1>6, <1>7 DEF Alone
<1> QED
    BY <1>5, <1>6, <1>8 DEF IInv, KeeperInv

LEMMA NextInv == IInv /\ [Next]_vars => IInv'
<1> SUFFICES ASSUME IInv, [Next]_vars PROVE IInv'
    OBVIOUS
<1>1. ASSUME NEW t \in Threads, Step(t) PROVE IInv'
    BY <1>1, PlainSteps, PutSteps, PostSteps, BurstSteps, ThrowSteps, PushSteps, PauseSteps,
       DropSteps, ResumeSteps DEF Step
<1>2. CASE UNCHANGED vars
    <2>1. OthersOK'
        <3>1. OthersOK
            BY Parts DEF IInv
        <3> QED
            BY <1>2, <3>1 DEF vars, OthersOK, registers, polling, tasks
    <2>2. PICK t \in Threads : t = "slot"
        BY PptAssumption
    <2>3. prog' = [prog EXCEPT ![t] = prog[t]] /\ UNCHANGED <<state, scopes, posts>>
        BY <1>2, Typed DEF vars, tasks
    <2> QED
        BY <2>1, <2>3, Itself, Typed, ScopesKept
<1> QED
    BY <1>1, <1>2, PollerSteps, CallerSteps DEF Next

\* The device never runs a destructor without its keeper, nor anything but the
\* instructions of its functions: the type invariant, for any threads, slots
\* and failures (DsscPpt.cc).
THEOREM TypeInvariant == Spec => []TypeOK
<1>1. Init => IInv
    BY InitInv
<1>2. IInv /\ [Next]_vars => IInv'
    BY NextInv
<1>3. IInv => TypeOK
    BY DEF IInv
<1> QED
    BY <1>1, <1>2, <1>3, PTL DEF Spec

\* However slots, tasks and configurations end, their keepers are gone with
\* them, and an idle device is CHANGING only after keepers have overlapped
\* (StateChangeKeeper, ContModeKeeper).
THEOREM Unwinding == Spec => []KeepersUnwind
<1>1. Init => IInv
    BY InitInv
<1>2. IInv /\ [Next]_vars => IInv'
    BY NextInv
<1>3. IInv => KeepersUnwind
    <2> SUFFICES ASSUME IInv PROVE KeepersUnwind
        OBVIOUS
    <2>1. ASSUME NEW t \in Threads, prog[t] = <<>> PROVE frames[t] = <<>>
        <3>1. Nested(t)
            BY DEF IInv, KeeperInv
        <3>2. Len(frames[t]) = 0
            BY <2>1, <3>1, RunsNowhere DEF Nested
        <3> QED
            BY <3>2, Typed, EmptySeq
    <2>2. ASSUME Idle, state = "CHANGING", ~overlapped PROVE FALSE
        <3>1. PICK t \in Threads : frames[t] # <<>>
            BY <2>2 DEF IInv, KeeperInv, Alone
        <3> QED
            BY <2>1, <2>2, <3>1 DEF Idle
    <2>3. overlapped \in BOOLEAN
        BY Typed
    <2> QED
        BY <2>1, <2>2, <2>3 DEF KeepersUnwind
<1> QED
    BY <1>1, <1>2, <1>3, PTL DEF Spec

-----------------------------------------------------------------------------
(* Slots and tasks that name the state to end with *)

\* The slots whose keepers name a state, and that leave the connection alone.
NamingSlots == CallSlots \cup RunSlots \cup ModeTags
                   \cup {"initSystem", "initSingleModule", "doFastInit", "setQuadrantSetup"}
NamingTasks == {"initSystem", "burst"}

Rests == {"UNKNOWN", "OFF", "ON", "STARTED", "ACQUIRING"}

\* An instruction with `d` keepers in scope: a state that no keeper will put
\* back is one to rest in.
Names(d, i, e) ==
    CASE i.op = "keep" -> e = d + 1 /\ i.to \in Rests
      [] i.op = "save" -> e = d + 1 /\ d > 0
      [] i.op = "drop" -> d = e + 1
      [] i.op = "put"  -> e = d /\ d > 0
      [] i.op = "post" -> e = d /\ i.to \in NamingTasks
      [] i.op \in {"use", "set", "burst", "xfel", "trains", "startPolling", "spawn",
                   "stopPolling", "join"} -> e = d
      [] OTHER -> FALSE

NameMoves == {m \in Nat \X Instruction \X Nat : Names(m[1], m[2], m[3])}

Naming(p, d, e) == p \in Seq(Instruction) /\ Runs(Nat, NameMoves, p, d, e)
Level(p) == \A d \in Nat : Naming(p, d, d)

\* The way of the initial open: the connection is looked at in "opened", where
\* it is there or the state is that after a failure.
Way == {"opening", "opened", "ended"}

Opens(a, i, b) ==
    CASE i.op = "put" -> a = "opening" /\ (b = "opening" \/ i.to \in Rests)
      [] i.op \in {"open", "connect"} -> a = "opening" /\ b = "opened"
      [] i.op = "setup" -> a = "opened" /\ b = "ended"
      [] i.op \in {"use", "set", "stopPolling", "join", "disconnect"} -> a = "opening" /\ b = a
      [] OTHER -> FALSE

OpenMoves == {m \in Way \X Instruction \X Way : Opens(m[1], m[2], m[3])}

Opening(p, a, b) == p \in Seq(Instruction) /\ Runs(Way, OpenMoves, p, a, b)

Reached(a) == CASE a = "opening" -> TRUE
                [] a = "opened"  -> open \/ state \in Rests
                [] a = "ended"   -> state \in Rests

\* The strand connects; there is nothing else yet.
Initial ==
    /\ \A t \in Threads : frames[t] = <<>> /\ (t # "slot" => prog[t] = <<>>)
    /\ posted = <<>>
    /\ \E a \in Way : Reached(a) /\ Opening(prog["slot"], a, "ended")

Started ==
    /\ state \in Rests \/ \E t \in Threads : frames[t] # <<>>
    /\ posted \in Seq(NamingTasks)
    /\ \A t \in Threads : /\ Naming(prog[t], Len(frames[t]), 0)
                          /\ frames[t] # <<>> => frames[t][1].to \in Rests

LEMMA NameMove ==
    ASSUME NEW d \in Nat, NEW i \in Instruction, NEW e \in Nat
    PROVE  <<d, i, e>> \in NameMoves <=> Names(d, i, e)
BY DEF NameMoves

LEMMA OpenMove ==
    ASSUME NEW a \in Way, NEW i \in Instruction, NEW b \in Way
    PROVE  <<a, i, b>> \in OpenMoves <=> Opens(a, i, b)
BY DEF OpenMoves

LEMMA NamingOne ==
    ASSUME NEW d \in Nat, NEW i \in Instruction, NEW e \in Nat, Names(d, i, e)
    PROVE  Naming(<<i>>, d, e)
<1>1. <<d, i, e>> \in NameMoves
    BY NameMove
<1> QED
    BY <1>1, RunsOne DEF Naming

LEMMA OpeningOne ==
    ASSUME NEW a \in Way, NEW i \in Instruction, NEW b \in Way, Opens(a, i, b)
    PROVE  Opening(<<i>>, a, b)
<1>1. <<a, i, b>> \in OpenMoves
    BY OpenMove
<1> QED
    BY <1>1, RunsOne DEF Opening

LEMMA NamingBoth ==
    ASSUME NEW p, NEW q, NEW a, NEW b, NEW c, Naming(p, a, b), Naming(q, b, c)
    PROVE  Naming(p \o q, a, c)
BY RunsBoth, ConcatProperties DEF Naming

LEMMA OpeningBoth ==
    ASSUME NEW p, NEW q, NEW a, NEW b, NEW c, Opening(p, a, b), Opening(q, b, c)
    PROVE  Opening(p \o q, a, c)
BY RunsBoth, ConcatProperties DEF Opening

LEMMA LevelNothing == Level(<<>>)
BY RunsNothing DEF Level, Naming

LEMMA LevelBoth ==
    ASSUME NEW p, NEW q, Level(p), Level(q) PROVE Level(p \o q)
BY NamingBoth DEF Level

LEMMA LevelOne ==
    ASSUME NEW i \in Instruction,
           i.op \in {"use", "set", "burst", "xfel", "trains", "startPolling", "spawn",
                     "stopPolling", "join"}
               \/ (i.op = "post" /\ i.to \in NamingTasks)
    PROVE  Level(<<i>>)
<1> SUFFICES ASSUME NEW d \in Nat PROVE Naming(<<i>>, d, d)
    BY DEF Level
<1>1. Names(d, i, d)
    BY DEF Names
<1> QED
    BY <1>1, NamingOne

\* What may stand within the scope of a keeper.
Inside(p) == \A d \in Nat \ {0} : Naming(p, d, d)

\* A keeper's scope.
LEMMA LevelKeep ==
    ASSUME NEW s \in Rests, NEW p, Inside(p) PROVE Level((Keep(s) \o p) \o Drop)
<1> SUFFICES ASSUME NEW d \in Nat PROVE Naming((Keep(s) \o p) \o Drop, d, d)
    BY DEF Level
<1>1. /\ [op |-> "keep", to |-> s] \in Instruction /\ [op |-> "drop"] \in Instruction
      /\ d + 1 \in Nat \ {0} /\ d + 1 \in Nat
      /\ Names(d, [op |-> "keep", to |-> s], d + 1) /\ Names(d + 1, [op |-> "drop"], d)
    BY DEF Names, Instruction, Rests, DeviceState
<1>2. Naming(Keep(s), d, d + 1) /\ Naming(Drop, d + 1, d)
    BY <1>1, NamingOne DEF Keep, Drop, Op
<1>3. Naming(p, d + 1, d + 1)
    BY <1>1 DEF Inside
<1>4. Naming(Keep(s) \o p, d, d + 1)
    BY <1>2, <1>3, NamingBoth
<1> QED
    BY <1>2, <1>4, NamingBoth

\* A keeper that saves the state.
LEMMA InsideSave ==
    ASSUME NEW p, Inside(p) PROVE Inside((Save \o p) \o Drop)
<1> SUFFICES ASSUME NEW d \in Nat \ {0} PROVE Naming((Save \o p) \o Drop, d, d)
    BY DEF Inside
<1>1. /\ [op |-> "save"] \in Instruction /\ [op |-> "drop"] \in Instruction
      /\ [op |-> "put", to |-> "CHANGING"] \in Instruction
      /\ d \in Nat /\ d + 1 \in Nat \ {0}
      /\ Names(d, [op |-> "save"], d + 1) /\ Names(d + 1, [op |-> "drop"], d)
      /\ Names(d + 1, [op |-> "put", to |-> "CHANGING"], d + 1)
    BY DEF Names, Instruction, DeviceState
<1>2. /\ Naming(Op("save"), d, d + 1) /\ Naming(Put("CHANGING"), d + 1, d + 1)
      /\ Naming(Drop, d + 1, d)
    BY <1>1, NamingOne DEF Put, Drop, Op
<1>3. Naming(Save, d, d + 1)
    BY <1>2, NamingBoth DEF Save
<1>4. Naming(p, d + 1, d + 1)
    BY <1>1 DEF Inside
<1>5. Naming(Save \o p, d, d + 1)
    BY <1>3, <1>4, NamingBoth
<1> QED
    BY <1>2, <1>5, NamingBoth

LEMMA InsideBoth ==
    ASSUME NEW p, NEW q, Inside(p), Inside(q) PROVE Inside(p \o q)
BY NamingBoth DEF Inside

LEMMA LevelInside ==
    ASSUME NEW p, Level(p) PROVE Inside(p)
BY DEF Level, Inside

LEMMA LevelSets ==
    /\ \A new \in Assignment : Level(SetAll(new))
    /\ \A reg \in Register : \A b \in BOOLEAN : Level(Set(reg, b))
    /\ \A b \in BOOLEAN : Level(Burst(b))
    /\ \A task \in NamingTasks : Level(Post(task))
<1>1. ASSUME NEW new \in Assignment PROVE Level(SetAll(new))
    <2>1. [op |-> "set", to |-> new] \in Instruction
        BY DEF Instruction, Assignment
    <2> QED
        BY <2>1, LevelOne DEF SetAll
<1>2. ASSUME NEW reg \in Register, NEW b \in BOOLEAN PROVE Level(Set(reg, b))
    <2>1. [r \in {reg} |-> b] \in [{reg} -> BOOLEAN] /\ {reg} \in SUBSET Register
        OBVIOUS
    <2> QED
        BY <1>1, <2>1 DEF Set, Assignment
<1>3. ASSUME NEW b \in BOOLEAN PROVE Level(Burst(b))
    <2>1. [op |-> "burst", to |-> b] \in Instruction
        BY DEF Instruction
    <2> QED
        BY <2>1, LevelOne DEF Burst
<1>4. ASSUME NEW task \in NamingTasks PROVE Level(Post(task))
    <2>1. [op |-> "post", to |-> task] \in Instruction
        BY DEF Instruction, NamingTasks, Task
    <2> QED
        BY <2>1, LevelOne DEF Post
<1> QED
    BY <1>1, <1>2, <1>3, <1>4

LEMMA LevelOps ==
    \A name \in {"use", "xfel", "trains", "startPolling", "spawn", "stopPolling", "join"} :
        Level(Op(name))
<1> SUFFICES ASSUME NEW name \in {"use", "xfel", "trains", "startPolling", "spawn",
                                  "stopPolling", "join"}
             PROVE  Level(Op(name))
    OBVIOUS
<1>1. [op |-> name] \in Instruction
    BY DEF Instruction
<1> QED
    BY <1>1, LevelOne DEF Op

LEMMA LevelPieces ==
    /\ \A run \in BOOLEAN : Level(RunContMode(run)) /\ Level(RunAcquisition(run))
    /\ Level(Start) /\ Level(StopAcquisition) /\ Level(Stop)
    /\ Level(Use) /\ Level(ResetAll) /\ Inside(ProgramAllIOBFPGAs)
    /\ \A h \in BOOLEAN : Level(UpdateTestEnvironment(h))
<1>0. Level(Use) /\ Level(StartPolling) /\ Level(StopPolling)
    BY LevelOps, LevelBoth DEF Use, StartPolling, StopPolling
<1>1. ASSUME NEW run \in BOOLEAN PROVE Level(RunContMode(run))
    <2>1. (IF run THEN "STARTED" ELSE "ON") \in Rests
        BY DEF Rests
    <2>2. Level(Set("cont", run))
        BY LevelSets DEF Register
    <2> QED
        BY <2>1, <2>2, LevelInside, LevelKeep DEF RunContMode
<1>2. ASSUME NEW run \in BOOLEAN PROVE Level(RunAcquisition(run))
    <2>1. (IF run THEN "ACQUIRING" ELSE "STARTED") \in Rests
        BY DEF Rests
    <2>2. Level(Set("sending", TRUE))
        BY LevelSets DEF Register
    <2>3. Level(IF run THEN StartPolling ELSE <<>>)
        BY <1>0, LevelNothing
    <2>4. Level(Set("sending", TRUE) \o (IF run THEN StartPolling ELSE <<>>))
        BY <2>2, <2>3, LevelBoth
    <2>5. (Keep(IF run THEN "ACQUIRING" ELSE "STARTED") \o Set("sending", TRUE))
              \o (IF run THEN StartPolling ELSE <<>>)
          = Keep(IF run THEN "ACQUIRING" ELSE "STARTED")
              \o (Set("sending", TRUE) \o (IF run THEN StartPolling ELSE <<>>))
        <3>1. Keep(IF run THEN "ACQUIRING" ELSE "STARTED") \in Seq(Instruction)
            BY DEF Keep, Instruction, DeviceState
        <3>2. Set("sending", TRUE) \in Seq(Instruction)
              /\ (IF run THEN StartPolling ELSE <<>>) \in Seq(Instruction)
            BY <2>2, <2>3 DEF Level, Naming
        <3> QED
            BY <3>1, <3>2, Regroup
    <2> QED
        BY <2>1, <2>4, <2>5, LevelInside, LevelKeep DEF RunAcquisition
<1>3. Level(Start)
    BY <1>1, <1>2, LevelBoth DEF Start
<1>4. Level(StopAcquisition)
    BY <1>0, <1>2, LevelBoth, LevelSets, LevelOps DEF StopAcquisition
<1>5. Level(Stop)
    BY <1>1, <1>4, LevelBoth DEF Stop
<1>6. Level(ResetAll)
    BY <1>0, LevelBoth DEF ResetAll
<1>7. Inside(ProgramAllIOBFPGAs)
    <2>1. Inside(Use)
        BY <1>0, LevelInside
    <2>2. Inside(Kept)
        BY <2>1, InsideSave DEF Kept
    <2>3. Inside(Use \o Kept)
        BY <2>1, <2>2, InsideBoth
    <2>4. (Save \o Use) \o Kept = Save \o (Use \o Kept)
        <3>1. Save \in Seq(Instruction)
            BY UpSave, CalmProgram DEF Up
        <3>2. Use \in Seq(Instruction) /\ Kept \in Seq(Instruction)
            BY FlatUse, Pieces, CalmProgram DEF Flat
        <3> QED
            BY <3>1, <3>2, Regroup
    <2> QED
        BY <2>3, <2>4, InsideSave DEF ProgramAllIOBFPGAs
<1>8. ASSUME NEW h \in BOOLEAN PROVE Level(UpdateTestEnvironment(h))
    BY <1>0, LevelBoth, LevelSets DEF UpdateTestEnvironment, Register
<1> QED
    BY <1>0, <1>1, <1>2, <1>3, <1>4, <1>5, <1>6, <1>7, <1>8


\* What the slots and tasks do.
LEMMA SlotNames ==
    ASSUME NEW slot \in NamingSlots PROVE Naming(Body(slot), 0, 0)
<1> USE LevelPieces, LevelBoth, LevelSets
<1>1. \/ slot \in CallSlots /\ Body(slot) = Use
      \/ slot \in KeptSlots /\ Body(slot) = Kept
      \/ slot \in RunSlots /\ Body(slot) = Run(slot)
      \/ slot \in InitSlots /\ Body(slot) = Initialise(slot)
      \/ slot \in ModeTags /\ Body(slot) = Reconfigure(slot)
    <2>1. slot \in CallSlots \/ slot \in RunSlots \/ slot \in ModeTags \/ slot \in InitSlots
        BY DEF NamingSlots, InitSlots
    <2> QED
        BY <2>1 DEF Body
<1>2. /\ slot \notin KeptSlots
      /\ slot \in InitSlots =>
            slot \in {"initSystem", "initSingleModule", "doFastInit", "setQuadrantSetup"}
    BY DEF NamingSlots, RunSlots, InitSlots, ModeTags, CallSlots, KeptSlots, ResetSlots,
       BoardSlots, LinkSlots, ChainSlots, ManualSlots, SelRegSlots, EPCSlots, ConfigSlots,
       GuiSlots, ClockSlots, StoreSlots, SaveSlots, CheckSlots, ParamSlots, HashSlots,
       RegisterTags, BoardTags, PathTags, OtherTags, InjectionSlots, PixelSlots, CounterSlots
<1>3. ASSUME slot \in RunSlots PROVE Level(Run(slot))
    <2>1. CASE slot = "startSingleCycle"
        <3>1. [r \in {"cont", "sending"} |-> r = "sending"] \in [{"cont", "sending"} -> BOOLEAN]
            BY Zenon
        <3>2. {"cont", "sending"} \in SUBSET Register
            BY DEF Register
        <3>3. [r \in {"cont", "sending"} |-> r = "sending"] \in Assignment
            BY <3>1, <3>2 DEF Assignment
        <3> QED
            BY <2>1, <3>3 DEF Run
    <2>2. CASE slot = "startBurstAcquisition"
        <3>1. Level(Burst(TRUE)) /\ Level(Post("burst"))
            BY DEF NamingTasks
        <3> QED
            BY <2>2, <3>1 DEF Run
    <2>3. CASE slot \notin {"startSingleCycle", "startBurstAcquisition"}
        BY <1>3, <2>3 DEF Run, RunSlots
    <2> QED
        BY <2>1, <2>2, <2>3
<1>4. ASSUME slot \in ModeTags PROVE Level(Reconfigure(slot))
    BY <1>4 DEF Reconfigure, ModeTags, Register
<1>5. ASSUME slot \in InitSlots PROVE Level(Initialise(slot))
    <2>1. Level((Keep("ON") \o Use) \o Drop)
        BY LevelKeep, LevelInside DEF Rests
    <2>2. Level(Set("hamburg", TRUE) \o UpdateTestEnvironment(TRUE))
        BY DEF Register
    <2>3. Level(Post("initSystem"))
        BY DEF NamingTasks
    <2> QED
        BY <1>2, <1>5, <2>1, <2>2, <2>3 DEF Initialise, Task
<1> QED
    BY <1>1, <1>2, <1>3, <1>4, <1>5 DEF Level

LEMMA TaskNames ==
    ASSUME NEW task \in NamingTasks, NEW boards \in BOOLEAN
    PROVE  Naming(TaskBody(task, boards), 0, 0)
<1>1. CASE task = "initSystem"
    <2> DEFINE b == IF boards THEN <<>> ELSE ProgramAllIOBFPGAs \o Use
    <2>1. Inside(<<>>) /\ Inside(Use) /\ Inside(ResetAll)
        BY LevelPieces, LevelNothing, LevelInside
    <2>2. Inside(b)
        BY <2>1, LevelPieces, InsideBoth
    <2>3. Inside(ResetAll \o b)
        BY <2>1, <2>2, InsideBoth
    <2>4. (Keep("ON") \o ResetAll) \o b = Keep("ON") \o (ResetAll \o b)
        <3>1. Keep("ON") \in Seq(Instruction)
            BY DEF Keep, Instruction, DeviceState
        <3>2. ResetAll \in Seq(Instruction) /\ b \in Seq(Instruction)
            BY <2>1, <2>2 DEF Inside, Naming
        <3> HIDE DEF b
        <3> QED
            BY <3>1, <3>2, Regroup
    <2>5. Level((Keep("ON") \o (ResetAll \o b)) \o Drop)
        BY <2>3, LevelKeep DEF Rests
    <2> QED
        BY <1>1, <2>4, <2>5 DEF TaskBody, Level
<1>2. CASE task = "burst"
    <2>1. Level((Start \o Use) \o Op("trains"))
        BY LevelPieces, LevelBoth, LevelOps
    <2> QED
        BY <1>2, <2>1 DEF TaskBody, Level
<1> QED
    BY <1>1, <1>2 DEF NamingTasks

\* The next instruction, and what is left after it.
LEMMA NextName ==
    ASSUME IInv, Started, NEW t \in Threads, prog[t] # <<>>
    PROVE  LET d == Len(frames[t])
               i == Head(prog[t])
           IN  /\ d \in Nat /\ i \in Instruction
               /\ \E e \in Nat : Names(d, i, e) /\ Naming(Tail(prog[t]), e, 0)
<1> DEFINE d == Len(frames[t])
           i == Head(prog[t])
<1>1. d \in Nat /\ prog[t] \in Seq(Instruction) /\ Runs(Nat, NameMoves, prog[t], d, 0)
    BY Typed DEF Started, Naming
<1>2. /\ i \in Instruction /\ Tail(prog[t]) \in Seq(Instruction)
      /\ \E e \in Nat : <<d, i, e>> \in NameMoves /\ Runs(Nat, NameMoves, Tail(prog[t]), e, 0)
    BY <1>1, RunsOn
<1> QED
    BY <1>1, <1>2, NameMove DEF Naming

\* A thread with other keepers and another program.
LEMMA StartedStep ==
    ASSUME IInv, Started, NEW t \in Threads, NEW p, NEW g \in Seq(Frames),
           Naming(p, Len(g), 0),
           prog' = [prog EXCEPT ![t] = p], frames' = [frames EXCEPT ![t] = g],
           posted' \in Seq(NamingTasks),
           g # <<>> => g[1].to \in Rests,
           g # <<>> \/ state' \in Rests \/ (state' = state /\ frames[t] = <<>>)
    PROVE  Started'
<1>1. /\ prog'[t] = p /\ frames'[t] = g
      /\ \A u \in Threads \ {t} : prog'[u] = prog[u] /\ frames'[u] = frames[u]
    BY Typed
<1>2. state' \in Rests \/ \E u \in Threads : frames'[u] # <<>>
    BY <1>1 DEF Started
<1>3. ASSUME NEW u \in Threads
      PROVE  /\ Naming(prog'[u], Len(frames'[u]), 0)
             /\ frames'[u] # <<>> => frames'[u][1].to \in Rests
    BY <1>1 DEF Started
<1> QED
    BY <1>2, <1>3 DEF Started

\* The keepers stay.
LEMMA StartedOn ==
    ASSUME IInv, Started, NEW t \in Threads, NEW p, Naming(p, Len(frames[t]), 0),
           prog' = [prog EXCEPT ![t] = p], UNCHANGED frames,
           posted' \in Seq(NamingTasks),
           state' = state \/ frames[t] # <<>>
    PROVE  Started'
<1>1. frames' = [frames EXCEPT ![t] = frames[t]] /\ frames[t] \in Seq(Frames)
    BY Typed
<1>2. frames[t] # <<>> => frames[t][1].to \in Rests
    BY DEF Started
<1> QED
    BY <1>1, <1>2, StartedStep

LEMMA StartedContinue ==
    ASSUME IInv, Started, NEW t \in Threads, Running(t), NEW b, Level(b), Continue(t, b),
           Names(Len(frames[t]), Head(prog[t]), Len(frames[t])),
           UNCHANGED frames, posted' \in Seq(NamingTasks),
           state' = state \/ frames[t] # <<>>
    PROVE  Started'
<1> DEFINE d == Len(frames[t])
           i == Head(prog[t])
<1>1. PICK e \in Nat : Names(d, i, e) /\ Naming(Tail(prog[t]), e, 0)
    BY NextName DEF Running
<1>2. d \in Nat
    BY Typed
<1>3. e = d
    BY <1>1, <1>2 DEF Names
<1>4. Naming(b \o Tail(prog[t]), d, 0)
    BY <1>1, <1>2, <1>3, NamingBoth DEF Level
<1>5. PICK p : p = b \o Tail(prog[t])
    OBVIOUS
<1>6. Naming(p, d, 0) /\ prog' = [prog EXCEPT ![t] = p]
    BY <1>4, <1>5 DEF Continue, Goto
<1> QED
    BY <1>6, StartedOn


\* The steps of a device that has started.
LEMMA StartedPlain ==
    ASSUME IInv, Started, NEW t \in Threads,
           \/ CallPpt(t) \/ SetBurst(t) \/ IfXfelMode(t) \/ BurstOver(t)
           \/ CheckPolling(t) \/ SpawnPoller(t) \/ ClearPolling(t) \/ JoinPoller(t)
           \/ PutState(t)
    PROVE  Started'
<1>1. /\ Running(t) /\ UNCHANGED <<frames, posted>> /\ posted' \in Seq(NamingTasks)
      /\ Head(prog[t]).op \in {"put", "use", "set", "burst", "xfel", "trains", "startPolling",
                               "spawn", "stopPolling", "join"}
      /\ Head(prog[t]).op # "put" => state' = state
    BY DEF CallPpt, SetBurst, IfXfelMode, BurstOver, CheckPolling, SpawnPoller, ClearPolling,
           JoinPoller, PutState, Calls, At, scopes, tasks, Started
<1>2. PICK b : Level(b) /\ Continue(t, b)
    <2>1. Level(<<>>) /\ Level(RunContMode(FALSE)) /\ Level(Op("spawn"))
        BY LevelNothing, LevelPieces, LevelOps
    <2> QED
        BY <2>1 DEF CallPpt, SetBurst, IfXfelMode, BurstOver, CheckPolling, SpawnPoller,
           ClearPolling, JoinPoller, PutState, Advance
<1>3. PICK e \in Nat : Names(Len(frames[t]), Head(prog[t]), e)
    BY <1>1, NextName DEF Running
<1>4. Names(Len(frames[t]), Head(prog[t]), Len(frames[t]))
    BY <1>1, <1>3 DEF Names
<1>5. state' = state \/ frames[t] # <<>>
    BY <1>1, <1>3 DEF Names
<1> QED
    BY <1>1, <1>2, <1>4, <1>5, StartedContinue

LEMMA StartedPost ==
    ASSUME IInv, Started, NEW t \in Threads, PostTask(t) PROVE Started'
<1>1. /\ Running(t) /\ Head(prog[t]).op = "post" /\ Continue(t, <<>>)
      /\ posted' = Append(posted, Head(prog[t]).to) /\ UNCHANGED <<state, frames>>
    BY DEF PostTask, At, Arg, Advance, scopes
<1>2. PICK e \in Nat : Names(Len(frames[t]), Head(prog[t]), e)
    BY <1>1, NextName DEF Running
<1>3. /\ Names(Len(frames[t]), Head(prog[t]), Len(frames[t]))
      /\ Head(prog[t]).to \in NamingTasks
    BY <1>1, <1>2 DEF Names
<1>4. posted' \in Seq(NamingTasks)
    BY <1>1, <1>3 DEF Started
<1> QED
    BY <1>1, <1>3, <1>4, LevelNothing, StartedContinue

LEMMA StartedBurst ==
    ASSUME IInv, Started, NEW t \in Threads, BurstDone(t) PROVE Started'
<1>1. PICK p : p = Stop \o prog[t]
    OBVIOUS
<1>2. Naming(p, Len(frames[t]), 0)
    BY <1>1, LevelPieces, NamingBoth, Typed DEF Level, Started
<1>3. /\ prog' = [prog EXCEPT ![t] = p]
      /\ UNCHANGED <<state, frames, posted>> /\ posted' \in Seq(NamingTasks)
    BY <1>1 DEF BurstDone, Goto, scopes, tasks, Started
<1> QED
    BY <1>2, <1>3, StartedOn

LEMMA StartedPush ==
    ASSUME IInv, Started, NEW t \in Threads, KeepState(t) \/ SaveState(t) PROVE Started'
<1>1. PICK f : f = IF Head(prog[t]).op = "keep" THEN Frame("state", Arg(t))
                                                ELSE Frame("state", state)
    OBVIOUS
<1>2. /\ Running(t) /\ Head(prog[t]).op \in {"keep", "save"} /\ Continue(t, <<>>)
      /\ frames' = [frames EXCEPT ![t] = Append(frames[t], f)]
      /\ posted' \in Seq(NamingTasks)
    BY <1>1 DEF KeepState, SaveState, Push, Advance, At, tasks, Started
<1> DEFINE d == Len(frames[t])
<1>3. PICK e \in Nat : Names(d, Head(prog[t]), e) /\ Naming(Tail(prog[t]), e, 0)
    BY <1>2, NextName DEF Running
<1>4. e = d + 1 /\ d \in Nat /\ frames[t] \in Seq(Frames)
    BY <1>2, <1>3, Typed DEF Names
<1>5. f \in Frames /\ (d = 0 => f.to \in Rests)
    <2>1. Head(prog[t]).op = "keep" => Arg(t) \in DeviceState
        BY <1>2, Rest, Args DEF Running, Arg
    <2> QED
        BY <1>1, <1>2, <1>3, <1>4, <2>1, Typed DEF Names, Frame, Frames, Arg
<1>6. PICK g, p : g = Append(frames[t], f) /\ p = <<>> \o Tail(prog[t])
    OBVIOUS
<1> HIDE DEF d
<1>7. /\ g \in Seq(Frames) /\ Len(g) = d + 1 /\ g # <<>>
      /\ g[1] = IF d = 0 THEN f ELSE frames[t][1]
    <2>1. /\ g \in Seq(Frames) /\ Len(g) = d + 1 /\ g[d + 1] = f /\ g # <<>>
          /\ \A k \in 1 .. d : g[k] = frames[t][k]
        BY <1>4, <1>5, <1>6 DEF d
    <2>2. d # 0 => 1 \in 1 .. d
        BY <1>4
    <2> QED
        BY <2>1, <2>2
<1>8. g[1].to \in Rests
    <2>1. d # 0 => frames[t] # <<>>
        BY DEF d
    <2> QED
        BY <1>5, <1>7, <2>1 DEF Started
<1>9. Naming(p, Len(g), 0)
    <2>1. p = Tail(prog[t])
        BY <1>3, <1>6 DEF Naming
    <2> QED
        BY <1>3, <1>4, <1>7, <2>1
<1>10. prog' = [prog EXCEPT ![t] = p] /\ frames' = [frames EXCEPT ![t] = g]
    BY <1>2, <1>6 DEF Continue, Goto
<1> QED
    BY <1>2, <1>7, <1>8, <1>9, <1>10, StartedStep

LEMMA StartedDrop ==
    ASSUME IInv, Started, NEW t \in Threads, DropState(t) PROVE Started'
<1> DEFINE d == Len(frames[t])
<1>1. /\ At(t, "drop") /\ Running(t) /\ Head(prog[t]).op = "drop" /\ state' = Top(t).to
      /\ frames' = [frames EXCEPT ![t] = Popped(t)]
      /\ prog' = [prog EXCEPT ![t] = <<>> \o Tail(prog[t])]
      /\ posted' \in Seq(NamingTasks)
    BY DEF DropState, Advance, Continue, Goto, At, tasks, Started
<1>2. /\ d \in Nat \ {0} /\ frames[t] # <<>>
      /\ Popped(t) \in Seq(Frames) /\ Len(Popped(t)) = d - 1
      /\ \A k \in 1 .. d - 1 : Popped(t)[k] = frames[t][k]
    BY <1>1, Innermost
<1>3. PICK e \in Nat : Names(d, Head(prog[t]), e) /\ Naming(Tail(prog[t]), e, 0)
    BY <1>1, NextName DEF Running
<1>4. d = e + 1
    BY <1>1, <1>3 DEF Names
<1>5. PICK p, g : p = <<>> \o Tail(prog[t]) /\ g = Popped(t)
    OBVIOUS
<1> HIDE DEF d
<1>6. /\ g \in Seq(Frames) /\ Len(g) = e /\ Naming(p, e, 0)
    <2>1. p = Tail(prog[t])
        BY <1>3, <1>5 DEF Naming
    <2> QED
        BY <1>2, <1>3, <1>4, <1>5, <2>1
<1>7. frames[t][1].to \in Rests
    BY <1>2 DEF Started
<1>8. g # <<>> => g[1].to \in Rests
    <2>1. g # <<>> => 1 \in 1 .. d - 1
        BY <1>2, <1>4, <1>6, EmptySeq
    <2> QED
        BY <1>2, <1>5, <1>7, <2>1
<1>9. g = <<>> => state' \in Rests
    <2>1. g = <<>> => d = 1
        BY <1>4, <1>6, EmptySeq
    <2> QED
        BY <1>1, <1>7, <2>1 DEF Top, d
<1>10. prog' = [prog EXCEPT ![t] = p] /\ frames' = [frames EXCEPT ![t] = g]
    BY <1>1, <1>5
<1> QED
    BY <1>1, <1>6, <1>8, <1>9, <1>10, StartedStep

LEMMA StartedResume ==
    ASSUME IInv, Started, NEW t \in Threads, Resume(t) PROVE Started'
<1> DEFINE d == Len(frames[t])
<1>1. PICK b : b = (IF Top(t).to \in Acquisition THEN RunContMode(TRUE) ELSE <<>>)
                   \o (IF Top(t).to = "ACQUIRING" THEN RunAcquisition(TRUE) ELSE <<>>)
    OBVIOUS
<1>2. PICK f : f = Frame("destructor", Top(t).to)
    OBVIOUS
<1>3. PICK p, g : p = b \o prog[t] /\ g = Append(Popped(t), f)
    OBVIOUS
<1>4. /\ At(t, "drop") /\ frames' = [frames EXCEPT ![t] = g] /\ prog' = [prog EXCEPT ![t] = p]
      /\ posted' \in Seq(NamingTasks)
    BY <1>1, <1>2, <1>3 DEF Resume, Goto, tasks, Started
<1>5. /\ d \in Nat \ {0} /\ frames[t] # <<>> /\ Top(t) \in Frames
      /\ Popped(t) \in Seq(Frames) /\ Len(Popped(t)) = d - 1
      /\ \A k \in 1 .. d - 1 : Popped(t)[k] = frames[t][k]
    BY <1>4, Innermost
<1>6. f \in Frames /\ f.to = Top(t).to
    BY <1>2, <1>5 DEF Frame, Frames
<1> HIDE DEF d
<1>7. /\ g \in Seq(Frames) /\ Len(g) = d /\ g # <<>> /\ g[d] = f
      /\ \A k \in 1 .. d - 1 : g[k] = frames[t][k]
    <2>1. PICK h \in Seq(Frames) : h = Popped(t)
        BY <1>5
    <2>2. Len(h) = d - 1 /\ g = Append(h, f)
        BY <1>3, <1>5, <2>1
    <2>3. /\ g \in Seq(Frames) /\ Len(g) = Len(h) + 1 /\ g[Len(h) + 1] = f /\ g # <<>>
          /\ \A k \in 1 .. Len(h) : g[k] = h[k]
        BY <1>6, <2>2
    <2>4. Len(h) + 1 = d /\ 1 .. Len(h) = 1 .. d - 1
        BY <1>5, <2>2
    <2> QED
        BY <1>5, <2>1, <2>3, <2>4
<1>8. Naming(p, d, 0)
    <2>1. Level(b)
        BY <1>1, LevelPieces, LevelNothing, LevelBoth
    <2>2. Naming(prog[t], d, 0)
        BY DEF Started, d
    <2> QED
        BY <1>3, <1>5, <2>1, <2>2, NamingBoth DEF Level
<1>9. g[1].to \in Rests
    <2>1. frames[t][1].to \in Rests
        BY <1>5 DEF Started
    <2>2. CASE d = 1
        BY <1>6, <1>7, <2>1, <2>2 DEF Top, d
    <2>3. CASE d # 1
        <3>1. 1 \in 1 .. d - 1
            BY <1>5, <2>3
        <3> QED
            BY <1>7, <2>1, <3>1
    <2> QED
        BY <2>2, <2>3
<1> QED
    BY <1>4, <1>7, <1>8, <1>9, StartedStep

\* An exception, where another thread joins the poll thread too.
LEMMA StartedThrow ==
    ASSUME IInv, Started, NEW t \in Threads, JoinTwice(t) \/ CallNull(t) PROVE Started'
<1>1. /\ UNCHANGED <<state, frames>> /\ posted' \in Seq(NamingTasks)
      /\ Throw(t) \/ UNCHANGED prog
    BY DEF JoinTwice, CallNull, scopes, tasks, Started
<1>2. CASE UNCHANGED prog
    BY <1>1, <1>2 DEF Started
<1>3. CASE prog' # prog
    <2> DEFINE n == Len(frames[t])
    <2>1. PICK p : p = [k \in 1 .. n |-> Drop[1]]
        OBVIOUS
    <2>2. n \in Nat /\ DOMAIN frames[t] = 1 .. n
        BY Typed
    <2>3. prog' = [prog EXCEPT ![t] = p]
        BY <1>1, <1>3, <2>1, <2>2 DEF Throw, Goto
    <2>4. Drop[1] = [op |-> "drop"] /\ [op |-> "drop"] \in Instruction
        BY DEF Drop, Op, Instruction
    <2> HIDE DEF n
    <2>5. p \in Seq(Instruction)
        BY <2>1, <2>2, <2>4
    <2>6. ASSUME NEW d \in Nat PROVE <<d + 1, Drop[1], d>> \in NameMoves
        <3>1. d + 1 \in Nat /\ Names(d + 1, Drop[1], d)
            BY <2>4 DEF Names
        <3> QED
            BY <2>4, <3>1, NameMove
    <2>7. Runs(Nat, NameMoves, p, n, 0)
        BY <2>1, <2>2, <2>6, RunsDown
    <2>8. Naming(p, n, 0)
        BY <2>5, <2>7 DEF Naming
    <2> QED
        BY <1>1, <2>3, <2>8, StartedOn DEF n
<1> QED
    BY <1>2, <1>3

LEMMA StartedSteps ==
    ASSUME IInv, Started, "call" \notin Faults, NEW t \in Threads, Step(t)
    PROVE  Started'
<1>1. CASE \/ Pause(t) \/ Paused(t) \/ OpenConnection(t) \/ Connect(t) \/ ConnectFails(t)
           \/ Setup(t) \/ Disconnect(t) \/ DisconnectFails(t)
    <2>1. /\ prog[t] # <<>>
          /\ Head(prog[t]).op \in {"pause", "paused", "open", "connect", "setup", "disconnect"}
        BY <1>1 DEF Pause, Paused, OpenConnection, Connect, ConnectFails, Setup, Disconnect,
                    DisconnectFails, At, Running
    <2> QED
        BY <2>1, NextName DEF Names
<1>2. ~CallThrows(t)
    BY DEF CallThrows
<1> QED
    BY <1>1, <1>2, StartedPlain, StartedPost, StartedBurst, StartedPush, StartedDrop,
       StartedResume, StartedThrow DEF Step


\* The initial open.
LEMMA OpenPieces ==
    /\ Opening(Open, "opening", "ended")
    /\ Opening(Put("OPENING") \o Op("connect"), "opening", "opened")
    /\ Opening(Put("ERROR"), "opening", "opening")
    /\ Opening(Close \o Put("UNKNOWN"), "opening", "opened")
    /\ \A h \in BOOLEAN :
          Opening(ResetAll \o UpdateTestEnvironment(h) \o Put("OFF"), "opening", "ended")
<1> DEFINE plain == {"use", "stopPolling", "join", "disconnect"}
<1>0. Way = {"opening", "opened", "ended"} /\ \A a \in Way : a \in Way
    BY DEF Way
<1>1. ASSUME NEW s \in DeviceState PROVE Opening(Put(s), "opening", "opening")
    <2>1. [op |-> "put", to |-> s] \in Instruction
        BY DEF Instruction
    <2>2. Opens("opening", [op |-> "put", to |-> s], "opening")
        BY DEF Opens
    <2> QED
        BY <1>0, <2>1, <2>2, OpeningOne DEF Put
<1>2. ASSUME NEW s \in Rests, NEW b \in {"opened", "ended"} PROVE Opening(Put(s), "opening", b)
    <2>1. [op |-> "put", to |-> s] \in Instruction
        BY DEF Instruction, Rests, DeviceState
    <2>2. Opens("opening", [op |-> "put", to |-> s], b)
        BY DEF Opens
    <2> QED
        BY <1>0, <2>1, <2>2, OpeningOne DEF Put
<1>3. ASSUME NEW name \in plain PROVE Opening(Op(name), "opening", "opening")
    <2>1. [op |-> name] \in Instruction
        BY DEF Instruction
    <2>2. Opens("opening", [op |-> name], "opening")
        BY DEF Opens
    <2> QED
        BY <1>0, <2>1, <2>2, OpeningOne DEF Op
<1>4. ASSUME NEW name \in {"open", "connect"} PROVE Opening(Op(name), "opening", "opened")
    <2>1. [op |-> name] \in Instruction
        BY DEF Instruction
    <2>2. Opens("opening", [op |-> name], "opened")
        BY DEF Opens
    <2> QED
        BY <1>0, <2>1, <2>2, OpeningOne DEF Op
<1>5. Opening(Op("setup"), "opened", "ended")
    <2>1. [op |-> "setup"] \in Instruction
        BY DEF Instruction
    <2>2. Opens("opened", [op |-> "setup"], "ended")
        BY DEF Opens
    <2> QED
        BY <1>0, <2>1, <2>2, OpeningOne DEF Op
<1>6. ASSUME NEW h \in BOOLEAN PROVE Opening(Set("xfel", h), "opening", "opening")
    <2>1. [r \in {"xfel"} |-> h] \in [{"xfel"} -> BOOLEAN] /\ {"xfel"} \in SUBSET Register
        BY DEF Register
    <2>2. [op |-> "set", to |-> [r \in {"xfel"} |-> h]] \in Instruction
        BY <2>1 DEF Instruction
    <2>3. Opens("opening", [op |-> "set", to |-> [r \in {"xfel"} |-> h]], "opening")
        BY DEF Opens
    <2> QED
        BY <1>0, <2>2, <2>3, OpeningOne DEF Set, SetAll
<1>7. Opening(StopPolling, "opening", "opening") /\ Opening(Use, "opening", "opening")
    BY <1>3, OpeningBoth DEF StopPolling, Use
<1>8. ASSUME NEW h \in BOOLEAN
      PROVE  Opening(ResetAll \o UpdateTestEnvironment(h) \o Put("OFF"), "opening", "ended")
    <2>1. Opening(ResetAll, "opening", "opening")
        BY <1>7, OpeningBoth DEF ResetAll
    <2>2. Opening(UpdateTestEnvironment(h), "opening", "opening")
        BY <1>6, <1>7, OpeningBoth DEF UpdateTestEnvironment
    <2>3. Opening(Put("OFF"), "opening", "ended")
        BY <1>2 DEF Rests
    <2> QED
        BY <2>1, <2>2, <2>3, OpeningBoth
<1>9. Opening(Close \o Put("UNKNOWN"), "opening", "opened")
    <2>1. Opening(Put("CLOSING"), "opening", "opening") /\ Opening(Put("UNKNOWN"), "opening", "opening")
        BY <1>1 DEF DeviceState
    <2>2. Opening(Op("disconnect"), "opening", "opening")
        BY <1>3
    <2>3. Opening(Put("UNKNOWN"), "opening", "opened")
        BY <1>2 DEF Rests
    <2>4. Opening(Close, "opening", "opening")
        BY <1>7, <2>1, <2>2, OpeningBoth DEF Close
    <2> QED
        BY <2>3, <2>4, OpeningBoth
<1>10. Opening(Put("OPENING") \o Op("connect"), "opening", "opened")
    BY <1>1, <1>4, OpeningBoth DEF DeviceState
<1>11. Opening(Open, "opening", "ended")
    BY <1>4, <1>5, OpeningBoth DEF Open
<1> QED
    BY <1>1, <1>8, <1>9, <1>10, <1>11 DEF DeviceState

LEMMA InitialOn ==
    ASSUME IInv, Initial, NEW t \in Threads, t = "slot", NEW p, NEW a \in Way,
           Opening(p, a, "ended"), Reached(a)',
           prog' = [prog EXCEPT ![t] = p], UNCHANGED <<frames, posted>>
    PROVE  Initial'
<1>1. prog'["slot"] = p /\ \A u \in Threads : u # "slot" => prog'[u] = prog[u]
    BY Typed
<1> QED
    BY <1>1 DEF Initial

\* The steps of the initial open are those of the strand alone.
LEMMA InitialSteps ==
    ASSUME IInv, Initial, "call" \notin Faults, NEW t \in Threads, Step(t)
    PROVE  Initial'
<1>1. CASE UNCHANGED <<state, prog, frames, open, posted>>
    BY <1>1 DEF Initial, Reached
<1>2. CASE CallNull(t)
    BY <1>1, <1>2 DEF CallNull, scopes, registers, tasks
<1> SUFFICES ASSUME ~CallNull(t) PROVE Initial'
    BY <1>2
<1>3. Running(t) /\ prog[t] # <<>>
    BY DEF Step, PutState, KeepState, SaveState, DropState, Pause, Paused, Resume, CallPpt,
           CallThrows, SetBurst, IfXfelMode, PostTask, BurstDone, BurstOver, OpenConnection,
           Connect, ConnectFails, Setup, Disconnect, DisconnectFails, CheckPolling, SpawnPoller,
           ClearPolling, JoinPoller, JoinTwice, Calls, At, Running
<1>4. t = "slot"
    BY <1>3 DEF Initial
<1>5. PICK a \in Way : Reached(a) /\ Opening(prog[t], a, "ended")
    BY <1>4 DEF Initial
<1> DEFINE i == Head(prog[t])
           rest == Tail(prog[t])
<1>6. /\ i \in Instruction
      /\ \E b \in Way : Opens(a, i, b) /\ Opening(rest, b, "ended")
    <2>1. prog[t] \in Seq(Instruction) /\ Runs(Way, OpenMoves, prog[t], a, "ended")
        BY <1>5 DEF Opening
    <2>2. /\ i \in Instruction /\ rest \in Seq(Instruction)
          /\ \E b \in Way : <<a, i, b>> \in OpenMoves /\ Runs(Way, OpenMoves, rest, b, "ended")
        BY <1>3, <2>1, RunsOn
    <2> QED
        BY <2>2, OpenMove DEF Opening
<1>7. PICK b \in Way : Opens(a, i, b) /\ Opening(rest, b, "ended")
    BY <1>6
<1>8. ASSUME NEW p, NEW c \in Way, Opening(p, c, b), Reached(c)', Continue(t, p),
             UNCHANGED <<frames, posted>>
      PROVE  Initial'
    <2>1. PICK q : q = p \o rest
        OBVIOUS
    <2>2. Opening(q, c, "ended") /\ prog' = [prog EXCEPT ![t] = q]
        BY <1>7, <1>8, <2>1, OpeningBoth DEF Continue, Goto
    <2> QED
        BY <1>4, <1>8, <2>2, InitialOn
<1>9. ASSUME Reached(b)', Continue(t, <<>>), UNCHANGED <<frames, posted>> PROVE Initial'
    <2>1. Opening(<<>>, b, b)
        BY RunsNothing DEF Opening
    <2> QED
        BY <1>8, <1>9, <2>1
<1>10. "opening" \in Way /\ Reached("opening")'
    BY DEF Way, Reached
<1>11. CASE PutState(t)
    <2>1. /\ i.op = "put" /\ state' = i.to /\ Continue(t, <<>>) /\ UNCHANGED <<frames, posted>>
        BY <1>11 DEF PutState, At, Arg, Advance, scopes, tasks
    <2>2. Reached(b)'
        BY <1>7, <2>1 DEF Opens, Reached, Way
    <2> QED
        BY <1>9, <2>1, <2>2
<1>12. CASE CallPpt(t) \/ ClearPolling(t) \/ JoinPoller(t) \/ Disconnect(t)
    <2>1. /\ i.op \in {"use", "set", "stopPolling", "join", "disconnect"}
          /\ Continue(t, <<>>) /\ UNCHANGED <<frames, posted>>
        BY <1>12 DEF CallPpt, ClearPolling, JoinPoller, Disconnect, Calls, At, Advance, scopes, tasks
    <2>2. b = "opening"
        BY <1>7, <2>1 DEF Opens
    <2> QED
        BY <1>9, <1>10, <2>1, <2>2
<1>13. CASE DisconnectFails(t)
    <2>1. i.op = "disconnect" /\ Continue(t, Put("ERROR")) /\ UNCHANGED <<frames, posted>>
        BY <1>13 DEF DisconnectFails, At, scopes, tasks
    <2>2. b = "opening"
        BY <1>7, <2>1 DEF Opens
    <2> QED
        BY <1>8, <1>10, <2>1, <2>2, OpenPieces
<1>14. CASE OpenConnection(t)
    <2>1. /\ i.op = "open" /\ UNCHANGED <<frames, posted, open>>
          /\ Continue(t, IF open THEN <<>> ELSE Put("OPENING") \o Op("connect"))
        BY <1>14 DEF OpenConnection, At, scopes, tasks, registers
    <2>2. b = "opened"
        BY <1>7, <2>1 DEF Opens
    <2>3. CASE open
        BY <1>9, <2>1, <2>2, <2>3 DEF Reached
    <2>4. CASE ~open
        BY <1>8, <1>10, <2>1, <2>2, <2>4, OpenPieces
    <2> QED
        BY <2>3, <2>4
<1>15. CASE Connect(t)
    <2>1. i.op = "connect" /\ open' /\ Continue(t, <<>>) /\ UNCHANGED <<frames, posted>>
        BY <1>15 DEF Connect, At, Advance, scopes, tasks
    <2>2. b = "opened"
        BY <1>7, <2>1 DEF Opens
    <2> QED
        BY <1>9, <2>1, <2>2 DEF Reached
<1>16. CASE ConnectFails(t)
    <2>1. i.op = "connect" /\ Continue(t, Close \o Put("UNKNOWN")) /\ UNCHANGED <<frames, posted>>
        BY <1>16 DEF ConnectFails, At, scopes, tasks
    <2>2. b = "opened"
        BY <1>7, <2>1 DEF Opens
    <2> QED
        BY <1>8, <1>10, <2>1, <2>2, OpenPieces
<1>17. CASE Setup(t)
    <2>1. /\ i.op = "setup" /\ UNCHANGED <<state, frames, posted>>
          /\ Continue(t, IF open THEN ResetAll \o UpdateTestEnvironment(hamburg) \o Put("OFF")
                                 ELSE <<>>)
        BY <1>17 DEF Setup, At, scopes, tasks
    <2>2. a = "opened" /\ b = "ended" /\ hamburg \in BOOLEAN
        <3>1. OthersOK
            BY Parts DEF IInv
        <3> QED
            BY <1>7, <2>1, <3>1 DEF Opens, OthersOK, registers
    <2>3. CASE open
        BY <1>8, <1>10, <2>1, <2>2, <2>3, OpenPieces
    <2>4. CASE ~open
        <3>1. Reached(b)'
            BY <1>5, <2>1, <2>2, <2>4 DEF Reached
        <3> QED
            BY <1>9, <2>1, <2>4, <3>1
    <2> QED
        BY <2>3, <2>4
<1>18. CASE JoinTwice(t)
    <2>1. PICK u \in Threads \ {t} : prog[u] # <<>>
        BY <1>18 DEF JoinTwice, At, Running
    <2> QED
        BY <1>4, <2>1 DEF Initial
<1>19. CASE \/ KeepState(t) \/ SaveState(t) \/ DropState(t) \/ Pause(t) \/ Paused(t) \/ Resume(t)
            \/ SetBurst(t) \/ IfXfelMode(t) \/ PostTask(t) \/ BurstDone(t) \/ BurstOver(t)
            \/ CheckPolling(t) \/ SpawnPoller(t)
    <2>1. i.op \in {"keep", "save", "drop", "pause", "paused", "burst", "xfel", "post", "trains",
                    "startPolling", "spawn"}
        BY <1>19 DEF KeepState, SaveState, DropState, Pause, Paused, Resume, SetBurst, IfXfelMode,
                     PostTask, BurstDone, BurstOver, CheckPolling, SpawnPoller, At
    <2> QED
        BY <1>7, <2>1 DEF Opens
<1>20. ~CallThrows(t)
    BY DEF CallThrows
<1> QED
    BY <1>11, <1>12, <1>13, <1>14, <1>15, <1>16, <1>17, <1>18, <1>19, <1>20 DEF Step

\* The open has ended.
LEMMA InitialEnds ==
    ASSUME IInv, Initial, prog["slot"] = <<>> PROVE Started
<1>1. state \in Rests
    <2>1. PICK a \in Way : Reached(a) /\ Opening(prog["slot"], a, "ended")
        BY DEF Initial
    <2>2. a = "ended"
        BY <2>1, RunsNowhere DEF Opening
    <2> QED
        BY <2>1, <2>2 DEF Reached
<1>2. ASSUME NEW t \in Threads PROVE frames[t] = <<>> /\ Naming(prog[t], Len(frames[t]), 0)
    <2>1. frames[t] = <<>> /\ prog[t] = <<>>
        BY DEF Initial
    <2>2. Naming(<<>>, 0, 0)
        BY LevelNothing DEF Level
    <2> QED
        BY <2>1, <2>2
<1>3. posted \in Seq(NamingTasks)
    BY DEF Initial
<1> QED
    BY <1>1, <1>2, <1>3 DEF Started

LEMMA StartedCalls ==
    ASSUME IInv, Started, Slots \subseteq NamingSlots, RegTypes = {},
           \/ \E slot \in Slots : Call(slot)
           \/ Receive
           \/ \E w \in Workers : BeginTask(w)
    PROVE  Started'
<1>1. ASSUME NEW t \in Threads, prog[t] = <<>> PROVE Len(frames[t]) = 0
    <2>1. Nested(t)
        BY DEF IInv, KeeperInv
    <2> QED
        BY <1>1, <2>1, RunsNowhere DEF Nested
<1>2. ASSUME NEW slot \in Slots, Call(slot) PROVE Started'
    <2>1. PICK t \in Threads : t = "slot"
        BY PptAssumption
    <2>2. PICK p : p = Body(slot)
        OBVIOUS
    <2>3. Naming(p, 0, 0)
        BY <2>2, SlotNames
    <2>4. /\ prog[t] = <<>> /\ prog' = [prog EXCEPT ![t] = p]
          /\ UNCHANGED <<state, frames, posted>> /\ posted' \in Seq(NamingTasks)
        BY <1>2, <2>1, <2>2 DEF Call, Goto, scopes, tasks, Started
    <2> QED
        BY <1>1, <2>3, <2>4, StartedOn
<1>3. ~Receive
    BY DEF Receive
<1>4. ASSUME NEW w \in Workers, BeginTask(w) PROVE Started'
    <2>1. /\ posted \in Seq(NamingTasks) /\ posted # <<>> /\ w \in Threads /\ prog[w] = <<>>
          /\ posted' = Tail(posted) /\ UNCHANGED <<state, frames>>
        BY <1>4 DEF BeginTask, Workers, scopes, Started
    <2>2. Head(posted) \in NamingTasks /\ posted' \in Seq(NamingTasks)
        BY <2>1
    <2>3. PICK boards \in BOOLEAN : Goto(w, TaskBody(Head(posted), boards))
        BY <1>4 DEF BeginTask
    <2>4. PICK p : p = TaskBody(Head(posted), boards)
        OBVIOUS
    <2>5. Naming(p, 0, 0) /\ prog' = [prog EXCEPT ![w] = p]
        BY <2>2, <2>3, <2>4, TaskNames DEF Goto
    <2> QED
        BY <1>1, <2>1, <2>2, <2>5, StartedOn
<1> QED
    BY <1>2, <1>3, <1>4

\* A device whose slots name the states to end with is always left in a state
\* to call slots in, for any number of threads and of posted tasks, where the
\* configuration file is valid and no call fails: connections may, and joins.
THEOREM Released ==
    Slots \subseteq NamingSlots /\ RegTypes = {} /\ Faults \cap {"config", "call"} = {}
        => (Spec => []NeverStuck)
<1> SUFFICES ASSUME Slots \subseteq NamingSlots, RegTypes = {},
                    Faults \cap {"config", "call"} = {}
             PROVE  Spec => []NeverStuck
    OBVIOUS
<1> DEFINE Inv == IInv /\ (Initial \/ Started)
<1>1. Init => Inv
    <2> SUFFICES ASSUME Init PROVE Initial
        BY InitInv
    <2>1. loaded /\ "slot" \in Threads
        BY PptAssumption DEF Init
    <2>2. prog["slot"] = Open /\ \A t \in Threads : t # "slot" => prog[t] = <<>>
        BY <2>1 DEF Init
    <2>3. "opening" \in Way /\ Reached("opening")
        BY DEF Way, Reached
    <2> QED
        BY <2>2, <2>3, OpenPieces DEF Init, Initial
<1>2. Inv /\ [Next]_vars => Inv'
    <2> SUFFICES ASSUME Inv, [Next]_vars PROVE Initial' \/ Started'
        BY NextInv
    <2>1. "call" \notin Faults
        OBVIOUS
    <2>2. ASSUME NEW t \in Threads, Step(t) PROVE Initial' \/ Started'
        BY <2>1, <2>2, InitialSteps, StartedSteps
    <2>3. CASE UNCHANGED <<state, prog, frames, open, posted>>
        BY <2>3 DEF Initial, Reached, Started
    <2>4. ASSUME \/ \E slot \in Slots : Call(slot)
                 \/ Receive
                 \/ \E w \in Workers : BeginTask(w)
          PROVE  Started'
        <3>1. Initial => prog["slot"] = <<>>
            <4>1. Initial => posted = <<>>
                BY DEF Initial
            <4> QED
                BY <2>4, <4>1 DEF Call, Receive, BeginTask
        <3> QED
            BY <2>4, <3>1, InitialEnds, StartedCalls
    <2>5. PollerEnds \/ PollerThrows \/ UNCHANGED vars
              => UNCHANGED <<state, prog, frames, open, posted>>
        BY DEF PollerEnds, PollerThrows, vars, scopes, registers, tasks
    <2> QED
        BY <2>2, <2>3, <2>4, <2>5 DEF Next
<1>3. Inv => NeverStuck
    <2> SUFFICES ASSUME Inv, Idle PROVE state \in Rests
        BY DEF NeverStuck, Rests
    <2>1. prog["slot"] = <<>> /\ \A t \in Threads : prog[t] = <<>>
        BY PptAssumption DEF Idle
    <2>2. Started
        BY <2>1, InitialEnds
    <2>3. ASSUME NEW t \in Threads PROVE frames[t] = <<>>
        <3>1. Nested(t)
            BY DEF IInv, KeeperInv
        <3>2. Len(frames[t]) = 0
            BY <2>1, <3>1, RunsNowhere DEF Nested
        <3> QED
            BY <3>2, Typed, EmptySeq
    <2> QED
        BY <2>2, <2>3 DEF Started
<1> QED
    BY <1>1, <1>2, <1>3, PTL DEF Spec

-----------------------------------------------------------------------------
(* The strand alone *)

\* All slots but the three that change the mode behind the device state.
StrandSlots == Slot \ {"continuous_mode on", "continuous_mode off", "disable_sending on"}

StrandAlone == /\ Threads = {"slot"} /\ Slots \subseteq StrandSlots
               /\ Faults \cap {"config", "call"} = {}

\* What the strand finds: the poll thread ends some time after it is told to.
Poll == IF keep THEN IF poller = "running" THEN "on" ELSE "lost"
                ELSE IF poller = "none" THEN "off" ELSE "ending"

View == [state : DeviceState, frames : Seq(Frames), cont : BOOLEAN, sending : BOOLEAN,
         poll : {"on", "off", "ending", "lost"}, open : BOOLEAN]

Now == [state |-> state, frames |-> frames["slot"], cont |-> cont, sending |-> sending,
        poll |-> Poll, open |-> open]

\* What the PPT is like when the device rests in `s`.
Suits(v, s) ==
    /\ v.cont = (s \in Acquisition)
    /\ v.poll \in {"on", "off"}
    /\ s = "ACQUIRING" => v.poll = "on" /\ v.sending
    /\ IF s = "UNKNOWN" THEN v.poll = "off" ELSE v.open

\* In state `s` and the scopes of `f`, with a PPT that suits the state `r`.
In(f, s, r) == {v \in View : v.state = s /\ v.frames = f /\ Suits(v, r)}
RestIn(s)   == In(<<>>, s, s)

RestAny     == UNION {RestIn(s) : s \in Rests}

\* The connection is there, or the attempt has ended in UNKNOWN.
OpenedIn == {v \in View : /\ v.frames = <<>> /\ ~v.cont /\ v.poll = "off"
                          /\ v.state \in (IF v.open THEN {"OPENING", "UNKNOWN"}
                                                    ELSE {"UNKNOWN"})}

\* In the keeper that has stopped an acquisition: the PPT is in no mode.
Calmed(r)  == IF r \in Acquisition THEN "ON" ELSE r
PausedIn(r) == In(<<Frame("cont", r)>>, "CHANGING", Calmed(r))

\* One updateState in the chain of PptStates.
InChain(a, b) == b = a \/ b \in P!Succ(a)

Enters(v, s, f)  == [v EXCEPT !.state = s, !.frames = Append(v.frames, f)]
LastOf(f)        == f[Len(f)]
ButLast(f)       == SubSeq(f, 1, Len(f) - 1)

\* What a call makes of a view.
Written(v, new) ==
    [v EXCEPT !.cont = IF "cont" \in DOMAIN new THEN new["cont"] ELSE v.cont,
              !.sending = IF "sending" \in DOMAIN new THEN new["sending"] ELSE v.sending]

\* The instruction `i`, with all that it puts before the next one, takes what
\* looks like `v` to one of `B`.
Does(i, v, B) ==
    CASE i.op = "put" -> InChain(v.state, i.to) /\ [v EXCEPT !.state = i.to] \in B
      [] i.op = "keep" -> /\ InChain(v.state, "CHANGING")
                          /\ Enters(v, "CHANGING", Frame("state", i.to)) \in B
      [] i.op = "save" -> Enters(v, v.state, Frame("state", v.state)) \in B
      [] i.op = "paused" -> /\ InChain(v.state, "CHANGING")
                            /\ Enters(v, "CHANGING", Frame("cont", i.to)) \in B
      [] i.op = "drop" ->
             /\ v.frames # <<>>
             /\ IF LastOf(v.frames).kind = "cont"
                THEN \E r \in Rests : v \in PausedIn(r) /\ RestIn(r) \subseteq B
                ELSE /\ InChain(v.state, LastOf(v.frames).to)
                     /\ [v EXCEPT !.state = LastOf(v.frames).to,
                                  !.frames = ButLast(v.frames)] \in B
      [] i.op = "set" -> Written(v, i.to) \in B
      [] i.op \in {"use", "burst", "post"} -> v \in B
      [] i.op = "stopPolling" ->
             /\ v.poll # "lost"
             /\ [v EXCEPT !.poll = IF v.poll = "off" THEN "off" ELSE "ending"] \in B
      [] i.op = "join" -> v.poll \in {"off", "ending"} /\ [v EXCEPT !.poll = "off"] \in B
      [] i.op = "startPolling" ->
             v.poll \in {"on", "off"} /\ v.open /\ [v EXCEPT !.poll = "on"] \in B
      [] i.op = "spawn" -> v.poll = "off" /\ v.open /\ [v EXCEPT !.poll = "on"] \in B
      [] i.op = "xfel" -> v \in RestIn("STARTED") /\ v \in B /\ RestIn("ON") \subseteq B
      [] i.op = "pause" -> \E r \in Rests : v \in RestIn(r) /\ PausedIn(r) \subseteq B
      [] i.op = "open" -> IF v.open THEN v \in B
                          ELSE /\ v.state \in {"INIT", "UNKNOWN"} /\ v.frames = <<>>
                               /\ ~v.cont /\ v.poll = "off" /\ OpenedIn \subseteq B
      [] i.op = "connect" -> /\ v.state = "OPENING" /\ v.frames = <<>> /\ ~v.open
                             /\ ~v.cont /\ v.poll = "off" /\ OpenedIn \subseteq B
      [] i.op = "setup" -> v \in OpenedIn /\ RestIn("OFF") \cup RestIn("UNKNOWN") \subseteq B
      [] i.op = "disconnect" ->
             /\ v.state = "CLOSING" /\ v.poll = "off"
             /\ [v EXCEPT !.open = FALSE] \in B
             /\ [v EXCEPT !.state = "ERROR"] \in B
             /\ [v EXCEPT !.state = "ERROR", !.open = FALSE] \in B
      [] OTHER -> FALSE

ViewMoves == {m \in (SUBSET View) \X Instruction \X (SUBSET View) :
                  \A v \in m[1] : Does(m[2], v, m[3])}

Reaches(p, A, B) == p \in Seq(Instruction) /\ Runs(SUBSET View, ViewMoves, p, A, B)

\* The program takes all that is in `A` to `B`.
Takes(A, p, B) ==
    /\ A \in SUBSET View /\ B \in SUBSET View
    /\ \A C, D \in SUBSET View : C \subseteq A /\ B \subseteq D => Reaches(p, C, D)

LEMMA DoesMore ==
    ASSUME NEW i, NEW v, NEW B, NEW D, Does(i, v, B), B \subseteq D
    PROVE  Does(i, v, D)
BY DEF Does

LEMMA TakesOne ==
    ASSUME NEW i \in Instruction, NEW A \in SUBSET View, NEW B \in SUBSET View,
           \A v \in A : Does(i, v, B)
    PROVE  Takes(A, <<i>>, B)
<1> SUFFICES ASSUME NEW C \in SUBSET View, NEW D \in SUBSET View, C \subseteq A, B \subseteq D
             PROVE  Reaches(<<i>>, C, D)
    BY DEF Takes
<1>1. \A v \in C : Does(i, v, D)
    BY DoesMore
<1>2. <<C, i, D>> \in ViewMoves
    BY <1>1 DEF ViewMoves
<1> QED
    BY <1>2, RunsOne DEF Reaches

LEMMA TakesBoth ==
    ASSUME NEW A, NEW B, NEW C, NEW p, NEW q, Takes(A, p, B), Takes(B, q, C)
    PROVE  Takes(A, p \o q, C)
<1> SUFFICES ASSUME NEW S \in SUBSET View, NEW T \in SUBSET View, S \subseteq A, C \subseteq T
             PROVE  Reaches(p \o q, S, T)
    BY DEF Takes
<1>1. Reaches(p, S, B) /\ Reaches(q, B, T)
    BY DEF Takes
<1> QED
    BY <1>1, RunsBoth, ConcatProperties DEF Reaches

LEMMA TakesLess ==
    ASSUME NEW A, NEW B, NEW p, Takes(A, p, B),
           NEW S \in SUBSET View, NEW T \in SUBSET View, S \subseteq A, B \subseteq T
    PROVE  Takes(S, p, T)
BY DEF Takes

LEMMA Sets ==
    /\ \A f, s, r : In(f, s, r) \in SUBSET View
    /\ OpenedIn \in SUBSET View /\ RestAny \in SUBSET View
    /\ \A r : PausedIn(r) \in SUBSET View /\ RestIn(r) \in SUBSET View
    /\ \A r \in Rests : RestIn(r) \subseteq RestAny
BY DEF In, OpenedIn, RestAny, RestIn, PausedIn

\* A scope that is entered and left.
LEMMA PopPush ==
    ASSUME NEW f \in Seq(Frames), NEW x \in Frames
    PROVE  /\ Append(f, x) \in Seq(Frames) /\ Append(f, x) # <<>>
           /\ LastOf(Append(f, x)) = x /\ ButLast(Append(f, x)) = f
<1> DEFINE g == Append(f, x)
           n == Len(f)
<1>1. /\ g \in Seq(Frames) /\ Len(g) = n + 1 /\ g[n + 1] = x /\ g # <<>> /\ n \in Nat
      /\ \A k \in 1 .. n : g[k] = f[k]
    OBVIOUS
<1> HIDE DEF g, n
<1>2. LastOf(g) = x
    BY <1>1 DEF LastOf
<1>3. /\ ButLast(g) \in Seq(Frames) /\ Len(ButLast(g)) = n
      /\ \A k \in 1 .. n : ButLast(g)[k] = g[k]
    <2>1. (n + 1) - 1 = n /\ n \in 1 - 1 .. Len(g)
        BY <1>1
    <2>2. /\ SubSeq(g, 1, n) \in Seq(Frames)
          /\ Len(SubSeq(g, 1, n)) = IF 1 <= n THEN n - 1 + 1 ELSE 0
          /\ \A k \in 1 .. n - 1 + 1 : SubSeq(g, 1, n)[k] = g[1 + k - 1]
        BY <1>1, <2>1, SubSeqProperties
    <2>3. Len(SubSeq(g, 1, n)) = n /\ n - 1 + 1 = n /\ \A k \in 1 .. n : 1 + k - 1 = k
        BY <1>1, <2>2
    <2>4. ButLast(g) = SubSeq(g, 1, n)
        BY <1>1, <2>1 DEF ButLast
    <2> QED
        BY <2>2, <2>3, <2>4
<1>4. ButLast(g) = f
    <2>1. f \in Seq(Frames) /\ Len(f) = n
        BY DEF n
    <2>2. \A k \in 1 .. n : ButLast(g)[k] = f[k]
        BY <1>1, <1>3
    <2> QED
        BY <1>3, <2>1, <2>2, SeqEqual
<1> QED
    BY <1>1, <1>2, <1>4 DEF g

-----------------------------------------------------------------------------
(* Pieces of programs *)

LEMMA InView ==
    ASSUME NEW f, NEW s, NEW r, NEW v
    PROVE  v \in In(f, s, r) <=> /\ v \in View /\ v.state = s /\ v.frames = f /\ Suits(v, r)
BY DEF In

LEMMA TakesUse ==
    ASSUME NEW A \in SUBSET View PROVE Takes(A, Use, A)
<1>1. [op |-> "use"] \in Instruction
    BY DEF Instruction
<1>2. \A v \in A : Does([op |-> "use"], v, A)
    BY DEF Does
<1> QED
    BY <1>1, <1>2, TakesOne DEF Use, Op

LEMMA TakesBurst ==
    ASSUME NEW A \in SUBSET View, NEW b \in BOOLEAN PROVE Takes(A, Burst(b), A)
<1>1. [op |-> "burst", to |-> b] \in Instruction
    BY DEF Instruction
<1>2. \A v \in A : Does([op |-> "burst", to |-> b], v, A)
    BY DEF Does
<1> QED
    BY <1>1, <1>2, TakesOne DEF Burst

LEMMA TakesPost ==
    ASSUME NEW A \in SUBSET View, NEW task \in Task PROVE Takes(A, Post(task), A)
<1>1. [op |-> "post", to |-> task] \in Instruction
    BY DEF Instruction
<1>2. \A v \in A : Does([op |-> "post", to |-> task], v, A)
    BY DEF Does
<1> QED
    BY <1>1, <1>2, TakesOne DEF Post

LEMMA TakesPut ==
    ASSUME NEW f, NEW s, NEW r, NEW t \in DeviceState, InChain(s, t)
    PROVE  Takes(In(f, s, r), Put(t), In(f, t, r))
<1> DEFINE i == [op |-> "put", to |-> t]
<1>1. i \in Instruction
    BY DEF Instruction
<1>2. ASSUME NEW v \in In(f, s, r) PROVE Does(i, v, In(f, t, r))
    <2>1. [v EXCEPT !.state = t] \in In(f, t, r)
        BY DEF In, View, Suits
    <2> QED
        BY <2>1 DEF Does, In
<1> QED
    BY <1>1, <1>2, TakesOne, Sets DEF Put

LEMMA TakesKeep ==
    ASSUME NEW f \in Seq(Frames), NEW s, NEW r, NEW t \in DeviceState, InChain(s, "CHANGING")
    PROVE  Takes(In(f, s, r), Keep(t), In(Append(f, Frame("state", t)), "CHANGING", r))
<1> DEFINE i == [op |-> "keep", to |-> t]
           x == Frame("state", t)
<1>1. i \in Instruction
    BY DEF Instruction
<1>2. ASSUME NEW v \in In(f, s, r) PROVE Does(i, v, In(Append(f, x), "CHANGING", r))
    <2>1. Append(f, x) \in Seq(Frames)
        BY DEF Frames, Frame
    <2>2. Enters(v, "CHANGING", x) \in In(Append(f, x), "CHANGING", r)
        BY <2>1 DEF In, View, Suits, Enters, DeviceState
    <2> QED
        BY <2>2 DEF Does, In
<1> QED
    BY <1>1, <1>2, TakesOne, Sets DEF Keep

LEMMA TakesSave ==
    ASSUME NEW f \in Seq(Frames), NEW s \in DeviceState, NEW r, InChain(s, "CHANGING")
    PROVE  Takes(In(f, s, r), Save, In(Append(f, Frame("state", s)), "CHANGING", r))
<1> DEFINE i == [op |-> "save"]
           x == Frame("state", s)
<1>1. i \in Instruction
    BY DEF Instruction
<1>2. ASSUME NEW v \in In(f, s, r) PROVE Does(i, v, In(Append(f, x), s, r))
    <2>1. Append(f, x) \in Seq(Frames)
        BY DEF Frames, Frame
    <2>2. Enters(v, s, x) \in In(Append(f, x), s, r)
        BY <2>1 DEF In, View, Suits, Enters
    <2> QED
        BY <2>2 DEF Does, In
<1>3. Takes(In(f, s, r), <<i>>, In(Append(f, x), s, r))
    BY <1>1, <1>2, TakesOne, Sets
<1>4. "CHANGING" \in DeviceState
    BY DEF DeviceState
<1>5. Takes(In(Append(f, x), s, r), Put("CHANGING"), In(Append(f, x), "CHANGING", r))
    BY <1>4, TakesPut
<1> QED
    BY <1>3, <1>5, TakesBoth DEF Save, Op

LEMMA TakesDrop ==
    ASSUME NEW f \in Seq(Frames), NEW s, NEW r, NEW t \in DeviceState, InChain(s, t),
           NEW kind \in {"state", "destructor"}
    PROVE  Takes(In(Append(f, Frame(kind, t)), s, r), Drop, In(f, t, r))
<1> DEFINE i == [op |-> "drop"]
           x == Frame(kind, t)
<1>1. i \in Instruction
    BY DEF Instruction
<1>2. ASSUME NEW v \in In(Append(f, x), s, r) PROVE Does(i, v, In(f, t, r))
    <2>1. x \in Frames /\ x.kind # "cont" /\ x.to = t
        BY DEF Frames, Frame
    <2>2. v.frames = Append(f, x) /\ v.state = s
        BY DEF In
    <2>3. v.frames # <<>> /\ LastOf(v.frames) = x /\ ButLast(v.frames) = f
        BY <2>1, <2>2, PopPush
    <2>4. [v EXCEPT !.state = t, !.frames = f] \in In(f, t, r)
        BY DEF In, View, Suits
    <2> QED
        BY <2>1, <2>2, <2>3, <2>4 DEF Does
<1> QED
    BY <1>1, <1>2, TakesOne, Sets DEF Drop, Op

LEMMA TakesSetAll ==
    ASSUME NEW R \in SUBSET Register, NEW new \in [R -> BOOLEAN],
           NEW A \in SUBSET View, NEW B \in SUBSET View, \A v \in A : Written(v, new) \in B
    PROVE  Takes(A, SetAll(new), B)
<1> DEFINE i == [op |-> "set", to |-> new]
<1>1. i \in Instruction
    BY DEF Instruction
<1>2. \A v \in A : Does(i, v, B)
    BY DEF Does
<1> QED
    BY <1>1, <1>2, TakesOne DEF SetAll

\* A register that the view has not.
LEMMA TakesOther ==
    ASSUME NEW reg \in {"xfel", "hamburg"}, NEW b \in BOOLEAN, NEW A \in SUBSET View
    PROVE  Takes(A, Set(reg, b), A)
<1> DEFINE new == [q \in {reg} |-> b]
<1>1. {reg} \in SUBSET Register /\ new \in [{reg} -> BOOLEAN] /\ DOMAIN new = {reg}
    BY DEF Register
<1>2. \A v \in A : Written(v, new) = v
    BY <1>1 DEF View, Written
<1> HIDE DEF new
<1>3. Takes(A, SetAll(new), A)
    BY <1>1, <1>2, TakesSetAll
<1> QED
    BY <1>3 DEF Set, new

LEMMA TakesSending ==
    ASSUME NEW f, NEW s, NEW r
    PROVE  Takes(In(f, s, r), Set("sending", TRUE), {v \in In(f, s, r) : v.sending})
<1> DEFINE new == [q \in {"sending"} |-> TRUE]
           B == {v \in In(f, s, r) : v.sending}
<1>1. {"sending"} \in SUBSET Register /\ new \in [{"sending"} -> BOOLEAN] /\ B \in SUBSET View
    BY Sets DEF Register
<1>2. \A v \in In(f, s, r) : Written(v, new) \in B
    BY DEF In, Suits, View, Written
<1> HIDE DEF new, B
<1>3. Takes(In(f, s, r), SetAll(new), B)
    BY <1>1, <1>2, TakesSetAll, Sets
<1> QED
    BY <1>3 DEF Set, new, B

\* Continuous mode is what the state to come tells.
LEMMA TakesCont ==
    ASSUME NEW f, NEW s, NEW r \in {"OFF", "ON", "STARTED"}, NEW b \in BOOLEAN
    PROVE  Takes(In(f, s, r), Set("cont", b), In(f, s, IF b THEN "STARTED" ELSE "ON"))
<1> DEFINE new == [q \in {"cont"} |-> b]
           B == In(f, s, IF b THEN "STARTED" ELSE "ON")
<1>1. {"cont"} \in SUBSET Register /\ new \in [{"cont"} -> BOOLEAN] /\ B \in SUBSET View
    BY Sets DEF Register
<1>2. ASSUME NEW v \in In(f, s, r) PROVE Written(v, new) \in B
    <2>1. Written(v, new) = [v EXCEPT !.cont = b, !.sending = v.sending]
        BY DEF Written
    <2>2. v \in View /\ v.state = s /\ v.frames = f /\ v.poll \in {"on", "off"} /\ v.open
        BY DEF In, Suits
    <2>3. /\ Written(v, new) \in View
          /\ Written(v, new).state = s /\ Written(v, new).frames = f
          /\ Written(v, new).poll = v.poll /\ Written(v, new).open = v.open
          /\ Written(v, new).cont = b
        BY <2>1, <2>2 DEF View
    <2> HIDE DEF new
    <2>4. Suits(Written(v, new), IF b THEN "STARTED" ELSE "ON")
        BY <2>2, <2>3 DEF Suits, Acquisition
    <2> QED
        BY <2>3, <2>4 DEF In, B
<1> HIDE DEF new, B
<1>3. Takes(In(f, s, r), SetAll(new), B)
    BY <1>1, <1>2, TakesSetAll, Sets
<1> QED
    BY <1>3 DEF Set, new, B

LEMMA TakesStopPolling ==
    ASSUME NEW A \in SUBSET View, NEW B \in SUBSET View,
           \A v \in A : v.poll # "lost" /\ [v EXCEPT !.poll = "off"] \in B
    PROVE  Takes(A, StopPolling, B)
<1> DEFINE C == {v \in View : v.poll \in {"off", "ending"} /\ [v EXCEPT !.poll = "off"] \in B}
<1>1. [op |-> "stopPolling"] \in Instruction /\ [op |-> "join"] \in Instruction
    BY DEF Instruction
<1>2. ASSUME NEW v \in A PROVE Does([op |-> "stopPolling"], v, C)
    <2>1. v \in View /\ v.poll # "lost" /\ [v EXCEPT !.poll = "off"] \in B
        OBVIOUS
    <2>2. [v EXCEPT !.poll = IF v.poll = "off" THEN "off" ELSE "ending"] \in C
        BY <2>1 DEF View
    <2> QED
        BY <2>1, <2>2 DEF Does
<1>3. \A v \in C : Does([op |-> "join"], v, B)
    BY DEF Does
<1>4. Takes(A, <<[op |-> "stopPolling"]>>, C) /\ C \in SUBSET View
    BY <1>1, <1>2, TakesOne
<1>5. Takes(C, <<[op |-> "join"]>>, B)
    BY <1>1, <1>3, <1>4, TakesOne
<1> QED
    BY <1>4, <1>5, TakesBoth DEF StopPolling, Op

\* Nobody needs the poll thread but a device that acquires.
LEMMA TakesResetAll ==
    ASSUME NEW f, NEW s, NEW r \in {"UNKNOWN", "OFF", "ON", "STARTED"}
    PROVE  /\ Takes(In(f, s, r), StopPolling, In(f, s, r))
           /\ Takes(In(f, s, r), ResetAll, In(f, s, r))
<1>1. ASSUME NEW v \in In(f, s, r)
      PROVE  v.poll # "lost" /\ [v EXCEPT !.poll = "off"] \in In(f, s, r)
    BY DEF In, View, Suits
<1>2. Takes(In(f, s, r), StopPolling, In(f, s, r))
    BY <1>1, TakesStopPolling, Sets
<1> QED
    BY <1>2, TakesBoth, TakesUse, Sets DEF ResetAll

\* The poll thread is there where the PPT is made ready for ACQUIRING.
LEMMA TakesStartPolling ==
    ASSUME NEW f, NEW s
    PROVE  Takes({v \in In(f, s, "STARTED") : v.sending}, StartPolling, In(f, s, "ACQUIRING"))
<1> DEFINE A == {v \in In(f, s, "STARTED") : v.sending}
           i == [op |-> "startPolling"]
<1>1. i \in Instruction /\ A \in SUBSET View
    BY Sets DEF Instruction
<1>2. ASSUME NEW v \in A PROVE Does(i, v, In(f, s, "ACQUIRING"))
    <2>1. [v EXCEPT !.poll = "on"] \in In(f, s, "ACQUIRING")
        BY DEF In, View, Suits, Acquisition
    <2> QED
        BY <2>1 DEF Does, In, Suits
<1> QED
    BY <1>1, <1>2, TakesOne, Sets DEF StartPolling, Op

-----------------------------------------------------------------------------
(* Functions *)

LEMMA Chained ==
    /\ InChain("CHANGING", "CHANGING")
    /\ \A s \in Rests : InChain(s, "CHANGING") /\ InChain("CHANGING", s)
    /\ Rests \subseteq DeviceState /\ "CHANGING" \in DeviceState
BY DEF InChain, P!Succ, P!Resting, Rests, DeviceState

\* What a function can start from: a state to rest in, or within a keeper.
Sources == Rests \cup {"CHANGING"}

LEMMA Framed ==
    ASSUME NEW f \in Seq(Frames), NEW t \in DeviceState,
           NEW kind \in {"state", "cont", "destructor"}
    PROVE  Append(f, Frame(kind, t)) \in Seq(Frames)
BY DEF Frames, Frame

\* In a keeper of the present state.
LEMMA TakesKept ==
    ASSUME NEW f \in Seq(Frames), NEW s \in Sources, NEW r, NEW p, NEW q,
           LET g == Append(f, Frame("state", s))
           IN  Takes(In(g, "CHANGING", r), p, In(g, "CHANGING", q))
    PROVE  Takes(In(f, s, r), Save \o p \o Drop, In(f, s, q))
<1> DEFINE g == Append(f, Frame("state", s))
<1>1. s \in DeviceState /\ InChain(s, "CHANGING") /\ InChain("CHANGING", s)
    BY Chained DEF Sources
<1>2. Takes(In(f, s, r), Save, In(g, "CHANGING", r))
    BY <1>1, TakesSave
<1>3. Takes(In(g, "CHANGING", q), Drop, In(f, s, q))
    BY <1>1, TakesDrop
<1> HIDE DEF g
<1>4. Takes(In(f, s, r), Save \o p, In(g, "CHANGING", q))
    BY <1>2, TakesBoth DEF g
<1> QED
    BY <1>3, <1>4, TakesBoth

\* In a keeper that names the state to end with.
LEMMA TakesNamed ==
    ASSUME NEW f \in Seq(Frames), NEW s \in Sources, NEW r, NEW p, NEW q, NEW t \in Rests,
           LET g == Append(f, Frame("state", t))
           IN  Takes(In(g, "CHANGING", r), p, In(g, "CHANGING", q))
    PROVE  Takes(In(f, s, r), Keep(t) \o p \o Drop, In(f, t, q))
<1> DEFINE g == Append(f, Frame("state", t))
<1>1. t \in DeviceState /\ InChain(s, "CHANGING") /\ InChain("CHANGING", t)
    BY Chained DEF Sources
<1>2. Takes(In(f, s, r), Keep(t), In(g, "CHANGING", r))
    BY <1>1, TakesKeep
<1>3. Takes(In(g, "CHANGING", q), Drop, In(f, t, q))
    BY <1>1, TakesDrop
<1> HIDE DEF g
<1>4. Takes(In(f, s, r), Keep(t) \o p, In(g, "CHANGING", q))
    BY <1>2, TakesBoth DEF g
<1> QED
    BY <1>3, <1>4, TakesBoth

LEMMA TakesRunCont ==
    ASSUME NEW f \in Seq(Frames), NEW s \in Sources, NEW r \in {"OFF", "ON", "STARTED"},
           NEW run \in BOOLEAN
    PROVE  LET t == IF run THEN "STARTED" ELSE "ON"
           IN  Takes(In(f, s, r), RunContMode(run), In(f, t, t))
<1> DEFINE t == IF run THEN "STARTED" ELSE "ON"
           g == Append(f, Frame("state", t))
<1>1. t \in Rests
    BY DEF Rests
<1>2. Takes(In(g, "CHANGING", r), Set("cont", run), In(g, "CHANGING", t))
    BY TakesCont
<1>3. RunContMode(run) = Keep(t) \o Set("cont", run) \o Drop
    BY DEF RunContMode
<1> HIDE DEF t
<1> QED
    BY <1>1, <1>2, <1>3, TakesNamed DEF t

LEMMA TakesRunAcquisition ==
    ASSUME NEW f \in Seq(Frames), NEW s \in Sources, NEW r \in Acquisition,
           NEW run \in BOOLEAN
    PROVE  LET t == IF run THEN "ACQUIRING" ELSE "STARTED"
           IN  Takes(In(f, s, r), RunAcquisition(run), In(f, t, t))
<1> DEFINE t == IF run THEN "ACQUIRING" ELSE "STARTED"
           g == Append(f, Frame("state", t))
<1>1. t \in Rests
    BY DEF Rests
<1>2. In(g, "CHANGING", r) \subseteq In(g, "CHANGING", "STARTED")
    BY DEF In, Suits, Acquisition
<1>3. Takes(In(g, "CHANGING", "STARTED"), Set("sending", TRUE),
            {v \in In(g, "CHANGING", "STARTED") : v.sending})
    BY TakesSending
<1>4. CASE run
    <2>1. Takes({v \in In(g, "CHANGING", "STARTED") : v.sending}, StartPolling,
                In(g, "CHANGING", "ACQUIRING"))
        BY TakesStartPolling
    <2>2. Takes(In(g, "CHANGING", "STARTED"), Set("sending", TRUE) \o StartPolling,
                In(g, "CHANGING", "ACQUIRING"))
        BY <1>3, <2>1, TakesBoth
    <2>3. Takes(In(g, "CHANGING", r), Set("sending", TRUE) \o StartPolling, In(g, "CHANGING", t))
        BY <1>2, <1>4, <2>2, TakesLess, Sets
    <2>4. Takes(In(f, s, r), Keep(t) \o (Set("sending", TRUE) \o StartPolling) \o Drop, In(f, t, t))
        BY <1>1, <2>3, TakesNamed
    <2>5. RunAcquisition(run) = Keep(t) \o (Set("sending", TRUE) \o StartPolling) \o Drop
        BY <1>4 DEF RunAcquisition, Keep, Set, SetAll, StartPolling, Op, Drop
    <2> QED
        BY <2>4, <2>5
<1>5. CASE ~run
    <2>0. {v \in In(g, "CHANGING", "STARTED") : v.sending} \subseteq In(g, "CHANGING", t)
        BY <1>5
    <2>1. Takes(In(g, "CHANGING", r), Set("sending", TRUE), In(g, "CHANGING", t))
        <3> HIDE DEF g, t
        <3> QED
            BY <1>2, <1>3, <2>0, TakesLess, Sets
    <2>2. Takes(In(f, s, r), Keep(t) \o Set("sending", TRUE) \o Drop, In(f, t, t))
        BY <1>1, <2>1, TakesNamed
    <2>3. RunAcquisition(run) = Keep(t) \o Set("sending", TRUE) \o Drop
        BY <1>5 DEF RunAcquisition, Keep, Set, SetAll, Drop, Op
    <2> QED
        BY <2>2, <2>3
<1> QED
    BY <1>4, <1>5

-----------------------------------------------------------------------------
(* The connection *)

\* The connection is closed, or about to be.
CanClose == {v \in View : /\ v.frames = <<>> /\ ~v.cont /\ v.poll # "lost"
                          /\ v.state \in {"OFF", "ON", "OPENING"}}
Closing  == {v \in View : v.frames = <<>> /\ ~v.cont /\ v.poll # "lost" /\ v.state = "CLOSING"}
Closed(s) == {v \in View : v.frames = <<>> /\ ~v.cont /\ v.poll = "off" /\ v.state = s}

LEMMA ClosedRests == Closed("UNKNOWN") = RestIn("UNKNOWN")
<1>1. ASSUME NEW v \in View
      PROVE  v \in Closed("UNKNOWN") <=> v \in RestIn("UNKNOWN")
    BY DEF Closed, RestIn, In, Suits, Acquisition, View
<1> QED
    BY <1>1, Sets DEF Closed

LEMMA TakesClose == Takes(CanClose, Close, RestIn("UNKNOWN"))
<1> DEFINE Gone == Closed("CLOSING") \cup Closed("ERROR")
<1>1. /\ CanClose \in SUBSET View /\ Closing \in SUBSET View
      /\ \A s : Closed(s) \in SUBSET View
      /\ Gone \in SUBSET View
    BY DEF CanClose, Closing, Closed
<1>2. Takes(CanClose, Put("CLOSING"), Closing)
    <2> DEFINE i == [op |-> "put", to |-> "CLOSING"]
    <2>1. i \in Instruction
        BY DEF Instruction, DeviceState
    <2>2. ASSUME NEW v \in CanClose PROVE Does(i, v, Closing)
        <3>1. [v EXCEPT !.state = "CLOSING"] \in Closing
            BY DEF CanClose, Closing, View, DeviceState
        <3>2. InChain(v.state, "CLOSING")
            BY DEF CanClose, InChain, P!Succ
        <3> QED
            BY <3>1, <3>2 DEF Does
    <2> QED
        BY <1>1, <2>1, <2>2, TakesOne DEF Put
<1>3. Takes(Closing, StopPolling, Closed("CLOSING"))
    <2>1. ASSUME NEW v \in Closing
          PROVE  v.poll # "lost" /\ [v EXCEPT !.poll = "off"] \in Closed("CLOSING")
        BY DEF Closing, Closed, View
    <2> QED
        BY <1>1, <2>1, TakesStopPolling
<1>4. Takes(Closed("CLOSING"), Op("disconnect"), Gone)
    <2> DEFINE i == [op |-> "disconnect"]
    <2>1. i \in Instruction
        BY DEF Instruction
    <2>2. ASSUME NEW v \in Closed("CLOSING") PROVE Does(i, v, Gone)
        <3>1. /\ [v EXCEPT !.open = FALSE] \in Closed("CLOSING")
              /\ [v EXCEPT !.state = "ERROR"] \in Closed("ERROR")
              /\ [v EXCEPT !.state = "ERROR", !.open = FALSE] \in Closed("ERROR")
            BY DEF Closed, View, DeviceState
        <3>2. v.state = "CLOSING" /\ v.poll = "off"
            BY DEF Closed
        <3> QED
            BY <3>1, <3>2 DEF Does
    <2> QED
        BY <1>1, <2>1, <2>2, TakesOne DEF Op
<1>5. Takes(Gone, Put("UNKNOWN"), Closed("UNKNOWN"))
    <2> DEFINE i == [op |-> "put", to |-> "UNKNOWN"]
    <2>1. i \in Instruction
        BY DEF Instruction, DeviceState
    <2>2. ASSUME NEW v \in Gone PROVE Does(i, v, Closed("UNKNOWN"))
        <3>1. [v EXCEPT !.state = "UNKNOWN"] \in Closed("UNKNOWN")
            BY DEF Closed, View, DeviceState
        <3>2. InChain(v.state, "UNKNOWN")
            BY DEF Closed, InChain, P!Succ
        <3> QED
            BY <3>1, <3>2 DEF Does
    <2> QED
        BY <1>1, <2>1, <2>2, TakesOne DEF Put
<1> HIDE DEF Gone
<1>6. Takes(CanClose, Put("CLOSING") \o StopPolling, Closed("CLOSING"))
    BY <1>2, <1>3, TakesBoth
<1>7. Takes(CanClose, Put("CLOSING") \o StopPolling \o Op("disconnect"), Gone)
    BY <1>4, <1>6, TakesBoth
<1> QED
    BY <1>5, <1>7, ClosedRests, TakesBoth DEF Close

\* After a failure the state has been put to UNKNOWN already.
LEMMA TakesCloseAgain ==
    Takes({v \in View : v.state = "OPENING" /\ v.frames = <<>> /\ ~v.cont /\ v.poll = "off"},
          Close \o Put("UNKNOWN"), OpenedIn)
<1> DEFINE A == {v \in View : v.state = "OPENING" /\ v.frames = <<>> /\ ~v.cont /\ v.poll = "off"}
<1>1. A \subseteq CanClose /\ A \in SUBSET View
    BY DEF CanClose
<1>2. InChain("UNKNOWN", "UNKNOWN") /\ "UNKNOWN" \in DeviceState
    BY DEF InChain, DeviceState
<1>3. Takes(RestIn("UNKNOWN"), Put("UNKNOWN"), RestIn("UNKNOWN"))
    BY <1>2, TakesPut DEF RestIn
<1>4. RestIn("UNKNOWN") \subseteq OpenedIn
    <2>1. Closed("UNKNOWN") \subseteq OpenedIn
        BY DEF Closed, OpenedIn
    <2> QED
        BY <2>1, ClosedRests
<1>5. Takes(CanClose, Close \o Put("UNKNOWN"), RestIn("UNKNOWN"))
    BY <1>3, TakesClose, TakesBoth
<1> QED
    BY <1>1, <1>4, <1>5, TakesLess, Sets

\* The device that has not connected, from its start on.
Unconnected == {v \in View : /\ v.frames = <<>> /\ ~v.cont /\ v.poll = "off"
                             /\ v.state \in (IF v.open THEN {"UNKNOWN"} ELSE {"INIT", "UNKNOWN"})}

LEMMA TakesOpen == Takes(Unconnected, Open, RestIn("OFF") \cup RestIn("UNKNOWN"))
<1> DEFINE B == RestIn("OFF") \cup RestIn("UNKNOWN")
<1>1. Unconnected \in SUBSET View /\ OpenedIn \in SUBSET View /\ B \in SUBSET View
    BY Sets DEF Unconnected
<1>2. Takes(Unconnected, Op("open"), OpenedIn)
    <2>1. [op |-> "open"] \in Instruction
        BY DEF Instruction
    <2>2. ASSUME NEW v \in Unconnected PROVE Does([op |-> "open"], v, OpenedIn)
        BY DEF Does, Unconnected, OpenedIn
    <2> QED
        BY <1>1, <2>1, <2>2, TakesOne DEF Op
<1>3. Takes(OpenedIn, Op("setup"), B)
    <2>1. [op |-> "setup"] \in Instruction
        BY DEF Instruction
    <2>2. ASSUME NEW v \in OpenedIn PROVE Does([op |-> "setup"], v, B)
        BY DEF Does
    <2> QED
        BY <1>1, <2>1, <2>2, TakesOne DEF Op
<1> QED
    BY <1>2, <1>3, TakesBoth DEF Open

\* What `open` goes on with when it is not.
LEMMA TakesConnect ==
    Takes({v \in Unconnected : ~v.open}, Put("OPENING") \o Op("connect"), OpenedIn)
<1> DEFINE A == {v \in Unconnected : ~v.open}
           B == {v \in View : /\ v.state = "OPENING" /\ v.frames = <<>> /\ ~v.open
                              /\ ~v.cont /\ v.poll = "off"}
<1>1. A \in SUBSET View /\ B \in SUBSET View /\ OpenedIn \in SUBSET View
    BY DEF Unconnected, OpenedIn
<1>2. [op |-> "connect"] \in Instruction /\ [op |-> "put", to |-> "OPENING"] \in Instruction
    BY DEF Instruction, DeviceState
<1>3. ASSUME NEW v \in A PROVE Does([op |-> "put", to |-> "OPENING"], v, B)
    <2>1. [v EXCEPT !.state = "OPENING"] \in B
        BY DEF Unconnected, View, DeviceState
    <2>2. InChain(v.state, "OPENING")
        BY DEF Unconnected, InChain, P!Succ
    <2> QED
        BY <2>1, <2>2 DEF Does
<1>4. \A v \in B : Does([op |-> "connect"], v, OpenedIn)
    BY DEF Does
<1> HIDE DEF A, B
<1>5. Takes(A, Put("OPENING"), B)
    BY <1>1, <1>2, <1>3, TakesOne DEF Put
<1>6. Takes(B, Op("connect"), OpenedIn)
    BY <1>1, <1>2, <1>4, TakesOne DEF Op
<1> QED
    BY <1>5, <1>6, TakesBoth DEF A

\* What `setup` goes on with when the connection is there.
LEMMA TakesSetup ==
    ASSUME NEW h \in BOOLEAN
    PROVE  Takes({v \in OpenedIn : v.open}, ResetAll \o UpdateTestEnvironment(h) \o Put("OFF"),
                 RestIn("OFF"))
<1> DEFINE A == {v \in OpenedIn : v.open}
           i == [op |-> "put", to |-> "OFF"]
<1>1. A \in SUBSET View
    BY Sets
<1>2. Takes(A, StopPolling, A)
    <2>1. ASSUME NEW v \in A PROVE v.poll # "lost" /\ [v EXCEPT !.poll = "off"] \in A
        BY DEF OpenedIn, View
    <2> QED
        BY <1>1, <2>1, TakesStopPolling
<1>3. Takes(A, ResetAll, A)
    BY <1>1, <1>2, TakesUse, TakesBoth DEF ResetAll
<1>4. Takes(A, UpdateTestEnvironment(h), A)
    BY <1>1, TakesUse, TakesOther, TakesBoth DEF UpdateTestEnvironment
<1>5. Takes(A, Put("OFF"), RestIn("OFF"))
    <2>1. i \in Instruction
        BY DEF Instruction, DeviceState
    <2>2. ASSUME NEW v \in A PROVE Does(i, v, RestIn("OFF"))
        <3>1. [v EXCEPT !.state = "OFF"] \in RestIn("OFF")
            BY DEF RestIn, In, OpenedIn, View, DeviceState, Suits, Acquisition
        <3>2. InChain(v.state, "OFF")
            BY DEF OpenedIn, InChain, P!Succ
        <3> QED
            BY <3>1, <3>2 DEF Does
    <2> QED
        BY <1>1, <2>1, <2>2, TakesOne, Sets DEF Put
<1> HIDE DEF A
<1> QED
    BY <1>3, <1>4, <1>5, TakesBoth DEF A

-----------------------------------------------------------------------------
(* The keeper that stops an acquisition *)

LEMMA TakesPaused ==
    ASSUME NEW r \in Rests
    PROVE  Takes(In(<<>>, IF r \in Acquisition THEN "ON" ELSE r, Calmed(r)),
                 <<[op |-> "paused", to |-> r]>>, PausedIn(r))
<1> DEFINE i == [op |-> "paused", to |-> r]
           s == IF r \in Acquisition THEN "ON" ELSE r
<1>1. i \in Instruction /\ InChain(s, "CHANGING") /\ s \in Rests
    BY Chained DEF Instruction, Rests, Acquisition
<1>2. ASSUME NEW v \in In(<<>>, s, Calmed(r)) PROVE Does(i, v, PausedIn(r))
    <2>1. Append(<<>>, Frame("cont", r)) = <<Frame("cont", r)>>
        OBVIOUS
    <2>2. <<>> \in Seq(Frames) /\ r \in DeviceState
        BY Chained
    <2>3. <<Frame("cont", r)>> \in Seq(Frames)
        BY <2>1, <2>2, Framed
    <2>4. Enters(v, "CHANGING", Frame("cont", r)) \in PausedIn(r)
        BY <2>1, <2>3 DEF PausedIn, In, View, Suits, Enters, DeviceState
    <2> HIDE DEF s
    <2> QED
        BY <1>1, <2>4 DEF Does, In
<1> QED
    BY <1>1, <1>2, TakesOne, Sets

\* What its constructor does.
LEMMA TakesPausing ==
    ASSUME NEW r \in Rests
    PROVE  Takes(RestIn(r),
                 (IF r = "ACQUIRING" THEN RunAcquisition(FALSE) ELSE <<>>)
                     \o (IF r \in Acquisition THEN RunContMode(FALSE) ELSE <<>>)
                     \o <<[op |-> "paused", to |-> r]>>,
                 PausedIn(r))
<1> DEFINE i == [op |-> "paused", to |-> r]
<1>0. <<>> \in Seq(Frames) /\ i \in Instruction /\ {"STARTED", "ON"} \subseteq Sources
    BY Chained DEF Sources, Rests, Instruction
<1>1. Takes(RestIn("STARTED"), RunContMode(FALSE), RestIn("ON"))
    BY <1>0, TakesRunCont DEF RestIn
<1>2. CASE r = "ACQUIRING"
    <2>1. Takes(RestIn(r), RunAcquisition(FALSE), RestIn("STARTED"))
        BY <1>0, <1>2, TakesRunAcquisition DEF RestIn, Acquisition, Sources
    <2>2. Takes(RestIn("ON"), <<i>>, PausedIn(r))
        BY <1>2, TakesPaused DEF RestIn, Calmed, Acquisition
    <2> HIDE DEF i
    <2>3. Takes(RestIn(r), RunAcquisition(FALSE) \o RunContMode(FALSE), RestIn("ON"))
        BY <1>1, <2>1, TakesBoth
    <2>4. Takes(RestIn(r), RunAcquisition(FALSE) \o RunContMode(FALSE) \o <<i>>, PausedIn(r))
        BY <2>2, <2>3, TakesBoth
    <2> QED
        BY <1>2, <2>4 DEF Acquisition, i
<1>3. CASE r = "STARTED"
    <2>1. Takes(RestIn("ON"), <<i>>, PausedIn(r))
        BY <1>3, TakesPaused DEF RestIn, Calmed, Acquisition
    <2>2. Takes(RestIn(r), RunContMode(FALSE) \o <<i>>, PausedIn(r))
        BY <1>1, <1>3, <2>1, TakesBoth
    <2>3. <<>> \o RunContMode(FALSE) = RunContMode(FALSE)
        BY DEF RunContMode, Keep, Set, SetAll, Drop, Op
    <2> QED
        BY <1>3, <2>2, <2>3 DEF Acquisition
<1>4. CASE r \notin Acquisition
    <2>1. Takes(RestIn(r), <<i>>, PausedIn(r))
        BY <1>4, TakesPaused DEF RestIn, Calmed
    <2>2. <<>> \o <<>> \o <<i>> = <<i>>
        OBVIOUS
    <2>3. r # "ACQUIRING"
        BY <1>4 DEF Acquisition
    <2> QED
        BY <1>4, <2>1, <2>2, <2>3
<1> QED
    BY <1>2, <1>3, <1>4 DEF Acquisition

\* What its destructor does.
LEMMA TakesResuming ==
    ASSUME NEW r \in Rests
    PROVE  Takes(In(<<Frame("destructor", r)>>, "CHANGING", Calmed(r)),
                 (IF r \in Acquisition THEN RunContMode(TRUE) ELSE <<>>)
                     \o (IF r = "ACQUIRING" THEN RunAcquisition(TRUE) ELSE <<>>)
                     \o Drop,
                 RestIn(r))
<1> DEFINE f == <<Frame("destructor", r)>>
<1>0. /\ f = Append(<<>>, Frame("destructor", r))
      /\ <<>> \in Seq(Frames) /\ r \in DeviceState
      /\ f \in Seq(Frames) /\ {"CHANGING", "STARTED", "ACQUIRING"} \subseteq Sources
    <2>1. f = Append(<<>>, Frame("destructor", r)) /\ <<>> \in Seq(Frames) /\ r \in DeviceState
        BY Chained
    <2>2. f \in Seq(Frames)
        BY <2>1, Framed
    <2>3. {"CHANGING", "STARTED", "ACQUIRING"} \subseteq Sources
        BY DEF Sources, Rests
    <2> QED
        BY <2>1, <2>2, <2>3
<1>1. ASSUME NEW s, InChain(s, r) PROVE Takes(In(f, s, r), Drop, RestIn(r))
    BY <1>0, <1>1, TakesDrop DEF RestIn
<1> HIDE DEF f
<1>2. Takes(In(f, "CHANGING", "ON"), RunContMode(TRUE), In(f, "STARTED", "STARTED"))
    BY <1>0, TakesRunCont
<1>3. InChain(r, r) /\ InChain("CHANGING", r)
    BY Chained DEF InChain
<1>4. CASE r = "ACQUIRING"
    <2>1. Takes(In(f, "STARTED", "STARTED"), RunAcquisition(TRUE), In(f, r, r))
        BY <1>0, <1>4, TakesRunAcquisition DEF Acquisition
    <2>2. Takes(In(f, "CHANGING", "ON"), RunContMode(TRUE) \o RunAcquisition(TRUE) \o Drop, RestIn(r))
        BY <1>1, <1>2, <1>3, <2>1, TakesBoth
    <2> QED
        BY <1>4, <2>2 DEF Acquisition, Calmed, f
<1>5. CASE r = "STARTED"
    <2>1. Takes(In(f, "CHANGING", "ON"), RunContMode(TRUE) \o Drop, RestIn(r))
        BY <1>1, <1>2, <1>3, <1>5, TakesBoth
    <2>2. RunContMode(TRUE) \o <<>> = RunContMode(TRUE)
        BY DEF RunContMode, Keep, Set, SetAll, Drop, Op
    <2> QED
        BY <1>5, <2>1, <2>2 DEF Acquisition, Calmed, f
<1>6. CASE r \notin Acquisition
    <2>1. Takes(In(f, "CHANGING", r), Drop, RestIn(r))
        BY <1>1, <1>3
    <2>2. <<>> \o <<>> \o Drop = Drop
        BY DEF Drop, Op
    <2>3. r # "ACQUIRING"
        BY <1>6 DEF Acquisition
    <2> QED
        BY <1>6, <2>1, <2>2, <2>3 DEF Calmed, f
<1> QED
    BY <1>4, <1>5, <1>6 DEF Acquisition

LEMMA TakesConfigFile ==
    ASSUME NEW r \in Rests
    PROVE  Takes(RestIn(r), ReadFullConfigFile, RestIn(r))
<1>1. [op |-> "pause"] \in Instruction /\ [op |-> "drop"] \in Instruction
    BY DEF Instruction
<1>2. \A v \in RestIn(r) : Does([op |-> "pause"], v, PausedIn(r))
    BY DEF Does
<1>3. ASSUME NEW v \in PausedIn(r) PROVE Does([op |-> "drop"], v, RestIn(r))
    <2>1. v.frames = <<Frame("cont", r)>>
        BY DEF PausedIn, In
    <2>2. v.frames # <<>> /\ LastOf(v.frames).kind = "cont"
        BY <2>1 DEF LastOf, Frame
    <2> QED
        BY <2>2 DEF Does
<1>4. Takes(RestIn(r), Op("pause"), PausedIn(r))
    BY <1>1, <1>2, TakesOne, Sets DEF Op
<1>5. Takes(PausedIn(r), Drop, RestIn(r))
    BY <1>1, <1>3, TakesOne, Sets DEF Op, Drop
<1>6. Takes(PausedIn(r), Use, PausedIn(r))
    BY TakesUse, Sets
<1> QED
    BY <1>4, <1>5, <1>6, TakesBoth DEF ReadFullConfigFile

-----------------------------------------------------------------------------
(* The slots *)

\* From rest to rest; what is not named here may be called anywhere.
Rested(p, s) == Takes(RestIn(s), p, RestAny)

LEMMA RestedOne ==
    ASSUME NEW s, NEW t \in Rests, NEW p, Takes(RestIn(s), p, RestIn(t))
    PROVE  Rested(p, s)
BY TakesLess, Sets DEF Rested

LEMMA AllowedStates ==
    ASSUME NEW slot
    PROVE  /\ slot = "open" => Allowed(slot) = {"UNKNOWN"}
           /\ slot \in {"updateFirmwareFlash", "updateLinuxFlash"} => Allowed(slot) = {"OFF"}
           /\ slot \in {"runXFEL", "runStandAlone"} => Allowed(slot) = {"ON"}
           /\ slot \in {"close", "startAllChannelsDummyData", "initSingleModule", "doFastInit",
                        "startSingleCycle", "resetAllBtn"} => Allowed(slot) = {"OFF", "ON"}
           /\ slot \in {"stopStandalone", "startAcquisition"} => Allowed(slot) = {"STARTED"}
           /\ slot = "stopAcquisition" => Allowed(slot) = {"ACQUIRING"}
<1> USE DEF Allowed, BoardSlots, LinkSlots, ChainSlots, ManualSlots, ResetSlots, SelRegSlots,
       EPCSlots, CounterSlots, GuiSlots, ClockSlots, InjectionSlots, PixelSlots, StoreSlots,
       Connected
<1>1. slot = "open" => Allowed(slot) = {"UNKNOWN"}
    OBVIOUS
<1>2. slot \in {"updateFirmwareFlash", "updateLinuxFlash"} => Allowed(slot) = {"OFF"}
    OBVIOUS
<1>3. slot \in {"runXFEL", "runStandAlone"} => Allowed(slot) = {"ON"}
    OBVIOUS
<1>4. slot \in {"close", "startAllChannelsDummyData", "initSingleModule", "doFastInit",
                "startSingleCycle", "resetAllBtn"} => Allowed(slot) = {"OFF", "ON"}
    OBVIOUS
<1>5. slot \in {"stopStandalone", "startAcquisition"} => Allowed(slot) = {"STARTED"}
    OBVIOUS
<1>6. slot = "stopAcquisition" => Allowed(slot) = {"ACQUIRING"}
    OBVIOUS
<1> QED
    BY <1>1, <1>2, <1>3, <1>4, <1>5, <1>6

LEMMA RestedStart == Rested(Start, "OFF") /\ Rested(Start, "ON")
<1> SUFFICES ASSUME NEW s \in {"OFF", "ON"} PROVE Rested(Start, s)
    OBVIOUS
<1>1. <<>> \in Seq(Frames) /\ s \in Sources /\ "STARTED" \in Sources /\ "ACQUIRING" \in Rests
    BY DEF Sources, Rests
<1>2. Takes(RestIn(s), RunContMode(TRUE), RestIn("STARTED"))
    BY <1>1, TakesRunCont DEF RestIn
<1>3. Takes(RestIn("STARTED"), RunAcquisition(TRUE), RestIn("ACQUIRING"))
    BY <1>1, TakesRunAcquisition DEF RestIn, Acquisition
<1> QED
    BY <1>1, <1>2, <1>3, TakesBoth, RestedOne DEF Start

LEMMA RestedStop == Rested(StopAcquisition, "ACQUIRING")
<1> DEFINE i == [op |-> "xfel"]
           B == RestIn("STARTED") \cup RestIn("ON")
<1>1. <<>> \in Seq(Frames) /\ {"ACQUIRING", "STARTED", "ON"} \subseteq Sources /\ B \in SUBSET View
    BY Sets DEF Sources, Rests
<1>2. Takes(RestIn("ACQUIRING"), Burst(FALSE), RestIn("ACQUIRING"))
    BY TakesBurst, Sets
<1>3. Takes(RestIn("ACQUIRING"), RunAcquisition(FALSE), RestIn("STARTED"))
    BY <1>1, TakesRunAcquisition DEF RestIn, Acquisition
<1>4. Takes(RestIn("STARTED"), Op("xfel"), B)
    <2>1. i \in Instruction
        BY DEF Instruction
    <2>2. \A v \in RestIn("STARTED") : Does(i, v, B)
        BY DEF Does
    <2> QED
        BY <1>1, <2>1, <2>2, TakesOne, Sets DEF Op
<1> HIDE DEF B
<1>5. Takes(B, Use, B)
    BY <1>1, TakesUse
<1>6. B \subseteq RestAny
    BY Sets DEF B, Rests
<1>7. Takes(RestIn("ACQUIRING"), Burst(FALSE) \o RunAcquisition(FALSE), RestIn("STARTED"))
    BY <1>2, <1>3, TakesBoth
<1>8. Takes(RestIn("ACQUIRING"), Burst(FALSE) \o RunAcquisition(FALSE) \o Op("xfel"), B)
    BY <1>4, <1>7, TakesBoth
<1>9. Takes(RestIn("ACQUIRING"), Burst(FALSE) \o RunAcquisition(FALSE) \o Op("xfel") \o Use, B)
    BY <1>5, <1>8, TakesBoth
<1> QED
    BY <1>6, <1>9, TakesLess, Sets DEF StopAcquisition, Rested

LEMMA RestedRun ==
    ASSUME NEW slot \in RunSlots, NEW s \in Rests \cap Allowed(slot)
    PROVE  Rested(Run(slot), s)
<1>0. <<>> \in Seq(Frames) /\ {"OFF", "ON", "STARTED", "ACQUIRING"} \subseteq Sources \cap Rests
    BY DEF Sources, Rests
<1>1. CASE slot = "startAllChannelsDummyData"
    <2>1. s \in {"OFF", "ON"}
        BY <1>1, AllowedStates
    <2>2. Takes(RestIn(s), Use, RestIn(s)) /\ Rested(Start, s)
        BY <2>1, TakesUse, Sets, RestedStart
    <2> QED
        BY <1>1, <2>2, TakesBoth DEF Run, Rested
<1>2. CASE slot \in {"runXFEL", "runStandAlone"}
    BY <1>2, AllowedStates, RestedStart DEF Run
<1>3. CASE slot = "stopStandalone"
    <2>1. Takes(RestIn("STARTED"), RunAcquisition(FALSE), RestIn("STARTED"))
        BY <1>0, TakesRunAcquisition DEF RestIn, Acquisition
    <2>2. Takes(RestIn("STARTED"), RunContMode(FALSE), RestIn("ON"))
        BY <1>0, TakesRunCont DEF RestIn
    <2>3. Takes(RestIn("STARTED"), RunAcquisition(FALSE) \o RunContMode(FALSE), RestIn("ON"))
        BY <2>1, <2>2, TakesBoth
    <2>4. s = "STARTED"
        BY <1>3, AllowedStates
    <2> QED
        BY <1>0, <1>3, <2>3, <2>4, RestedOne DEF Run
<1>4. CASE slot = "startAcquisition"
    <2>1. Takes(RestIn("STARTED"), RunAcquisition(TRUE), RestIn("ACQUIRING"))
        BY <1>0, TakesRunAcquisition DEF RestIn, Acquisition
    <2>2. s = "STARTED"
        BY <1>4, AllowedStates
    <2> QED
        BY <1>0, <1>4, <2>1, <2>2, RestedOne DEF Run
<1>5. CASE slot = "stopAcquisition"
    BY <1>5, AllowedStates, RestedStop DEF Run
<1>6. CASE slot = "startBurstAcquisition"
    <2>1. Takes(RestIn(s), Burst(TRUE), RestIn(s)) /\ Takes(RestIn(s), Post("burst"), RestIn(s))
        BY TakesBurst, TakesPost, Sets DEF Task
    <2> QED
        BY <1>6, <2>1, TakesBoth, RestedOne DEF Run
<1>7. CASE slot = "startSingleCycle"
    <2> DEFINE new == [r \in {"cont", "sending"} |-> r = "sending"]
    <2>1. /\ {"cont", "sending"} \in SUBSET Register
          /\ new \in [{"cont", "sending"} -> BOOLEAN] /\ DOMAIN new = {"cont", "sending"}
          /\ new["cont"] = FALSE /\ new["sending"] = TRUE
        BY Zenon DEF Register
    <2>2. s \in {"OFF", "ON"}
        BY <1>7, AllowedStates
    <2> HIDE DEF new
    <2>3. ASSUME NEW v \in RestIn(s) PROVE Written(v, new) \in RestIn(s)
        <3>1. Written(v, new) = [v EXCEPT !.cont = FALSE, !.sending = TRUE]
            BY <2>1 DEF Written
        <3> QED
            BY <2>2, <3>1 DEF RestIn, In, View, Suits, Acquisition
    <2>4. Takes(RestIn(s), SetAll(new), RestIn(s))
        BY <2>1, <2>3, TakesSetAll, Sets
    <2> QED
        BY <1>7, <2>4, RestedOne DEF Run, new
<1> QED
    BY <1>1, <1>2, <1>3, <1>4, <1>5, <1>6, <1>7 DEF RunSlots

LEMMA RestedInitialise ==
    ASSUME NEW slot \in InitSlots, NEW s \in Rests \cap Allowed(slot)
    PROVE  Rested(Initialise(slot), s)
<1>0. <<>> \in Seq(Frames) /\ s \in Sources /\ {"OFF", "ON", "UNKNOWN"} \subseteq Rests
    BY DEF Sources, Rests
<1>1. CASE slot = "open"
    <2>1. RestIn("UNKNOWN") \subseteq Unconnected
        <3>1. Closed("UNKNOWN") \subseteq Unconnected
            BY DEF Closed, Unconnected
        <3> QED
            BY <3>1, ClosedRests
    <2>2. RestIn("OFF") \cup RestIn("UNKNOWN") \subseteq RestAny
        BY <1>0, Sets
    <2>3. Takes(RestIn("UNKNOWN"), Open, RestAny)
        BY <2>1, <2>2, TakesOpen, TakesLess, Sets
    <2>4. s = "UNKNOWN"
        BY <1>1, AllowedStates
    <2> QED
        BY <1>1, <2>3, <2>4 DEF Initialise, Rested, Task
<1>2. CASE slot = "close"
    <2>1. s \in {"OFF", "ON"}
        BY <1>2, AllowedStates
    <2>2. RestIn(s) \subseteq CanClose
        BY <2>1 DEF RestIn, In, Suits, CanClose, Acquisition
    <2>3. Takes(RestIn(s), Close, RestIn("UNKNOWN"))
        BY <2>2, TakesClose, TakesLess, Sets
    <2> QED
        BY <1>0, <1>2, <2>3, RestedOne DEF Initialise, Task
<1>3. CASE slot \in Task
    <2>1. Takes(RestIn(s), Post(slot), RestIn(s))
        BY <1>3, TakesPost, Sets
    <2> QED
        BY <1>3, <2>1, RestedOne DEF Initialise, Task
<1>4. CASE slot \in {"doFastInit", "initSingleModule"}
    <2>1. s \in {"OFF", "ON"}
        BY <1>4, AllowedStates
    <2> DEFINE g == Append(<<>>, Frame("state", "ON"))
    <2>2. In(g, "CHANGING", s) \subseteq In(g, "CHANGING", "ON")
        BY <2>1 DEF In, Suits, Acquisition
    <2>3. Takes(In(g, "CHANGING", "ON"), Use, In(g, "CHANGING", "ON"))
        BY TakesUse, Sets
    <2> HIDE DEF g
    <2>4. Takes(In(g, "CHANGING", s), Use, In(g, "CHANGING", "ON"))
        BY <2>2, <2>3, TakesLess, Sets
    <2>5. Takes(RestIn(s), Keep("ON") \o Use \o Drop, RestIn("ON"))
        BY <1>0, <2>4, TakesNamed DEF g, RestIn
    <2>6. Initialise(slot) = Keep("ON") \o Use \o Drop
        BY <1>4 DEF Initialise, Task
    <2> QED
        BY <1>0, <2>5, <2>6, RestedOne
<1>5. CASE slot = "resetAllBtn"
    <2>1. s \in {"OFF", "ON"}
        BY <1>5, AllowedStates
    <2>2. Takes(RestIn(s), Save \o ResetAll \o Drop, RestIn(s))
        BY <1>0, <2>1, TakesResetAll, TakesKept DEF RestIn
    <2>3. Initialise(slot) = Save \o ResetAll \o Drop
        BY <1>5 DEF Initialise, Task
    <2> QED
        BY <2>2, <2>3, RestedOne
<1>6. CASE slot \in {"updateFirmwareFlash", "updateLinuxFlash"}
    <2>1. s = "OFF"
        BY <1>6, AllowedStates
    <2> DEFINE g == Append(<<>>, Frame("state", "OFF"))
    <2>2. Takes(In(g, "CHANGING", "OFF"), StopPolling, In(g, "CHANGING", "OFF"))
        BY TakesResetAll
    <2>3. Takes(In(g, "CHANGING", "OFF"), Use, In(g, "CHANGING", "OFF"))
        BY TakesUse, Sets
    <2> HIDE DEF g
    <2>4. Takes(In(g, "CHANGING", "OFF"), StopPolling \o Use, In(g, "CHANGING", "OFF"))
        BY <2>2, <2>3, TakesBoth
    <2>5. Takes(RestIn(s), Save \o (StopPolling \o Use) \o Drop, RestIn(s))
        BY <1>0, <2>1, <2>4, TakesKept DEF g, RestIn
    <2>6. Initialise(slot) = Save \o (StopPolling \o Use) \o Drop
        <3>1. /\ Save \in Seq(Instruction) /\ StopPolling \in Seq(Instruction)
              /\ Use \in Seq(Instruction)
            BY DEF Save, StopPolling, Use, Op, Put, Instruction, DeviceState
        <3>2. (Save \o StopPolling) \o Use = Save \o (StopPolling \o Use)
            BY <3>1, Regroup
        <3> QED
            BY <1>6, <3>2 DEF Initialise, Task, UpdateFlash
    <2> QED
        BY <2>5, <2>6, RestedOne
<1>7. CASE slot = "programAllIOBFPGAs"
    <2> DEFINE g == Append(<<>>, Frame("state", s))
    <2>1. g \in Seq(Frames) /\ "CHANGING" \in Sources
        BY <1>0, Chained, Framed DEF Sources
    <2> HIDE DEF g
    <2>2. Takes(In(g, "CHANGING", s), Kept, In(g, "CHANGING", s))
        BY <2>1, TakesUse, Sets, TakesKept DEF Kept
    <2>3. Takes(In(g, "CHANGING", s), Use, In(g, "CHANGING", s))
        BY TakesUse, Sets
    <2>4. Takes(In(g, "CHANGING", s), Use \o Kept, In(g, "CHANGING", s))
        BY <2>2, <2>3, TakesBoth
    <2>5. Takes(RestIn(s), Save \o (Use \o Kept) \o Drop, RestIn(s))
        BY <1>0, <2>4, TakesKept DEF g, RestIn
    <2>6. Initialise(slot) = Save \o (Use \o Kept) \o Drop
        BY <1>7 DEF Initialise, Task, ProgramAllIOBFPGAs, Kept, Save, Use, Drop, Op, Put
    <2> QED
        BY <2>5, <2>6, RestedOne
<1>8. CASE slot = "setQuadrantSetup"
    <2>1. /\ Takes(RestIn(s), Set("hamburg", TRUE), RestIn(s))
          /\ Takes(RestIn(s), UpdateTestEnvironment(TRUE), RestIn(s))
        BY TakesOther, TakesUse, TakesBoth, Sets DEF UpdateTestEnvironment
    <2>2. Takes(RestIn(s), Set("hamburg", TRUE) \o UpdateTestEnvironment(TRUE), RestIn(s))
        BY <2>1, TakesBoth
    <2> QED
        BY <1>8, <2>2, RestedOne DEF Initialise, Task
<1>9. CASE slot = "fullConfigFileName"
    <2>1. Initialise(slot) = ReadFullConfigFile
        BY <1>9 DEF Initialise, Task
    <2> QED
        BY <2>1, TakesConfigFile, RestedOne
<1> QED
    BY <1>1, <1>2, <1>3, <1>4, <1>5, <1>6, <1>7, <1>8, <1>9 DEF InitSlots, Task

LEMMA RestedTag ==
    ASSUME NEW slot \in ModeTags \cap StrandSlots, NEW s \in Rests
    PROVE  Rested(Reconfigure(slot), s)
<1>1. /\ \A reg \in {"xfel", "hamburg"} : \A b \in BOOLEAN :
            Takes(RestIn(s), Set(reg, b), RestIn(s))
      /\ \A b \in BOOLEAN : Takes(RestIn(s), UpdateTestEnvironment(b), RestIn(s))
    BY TakesOther, TakesUse, TakesBoth, Sets DEF UpdateTestEnvironment
<1>2. CASE slot = "disable_sending off"
    <2>1. {v \in RestIn(s) : v.sending} \subseteq RestIn(s)
        OBVIOUS
    <2>2. Takes(RestIn(s), Set("sending", TRUE), RestIn(s))
        BY <2>1, TakesSending, TakesLess, Sets DEF RestIn
    <2> QED
        BY <1>2, <2>2, RestedOne DEF Reconfigure
<1>3. CASE slot \in {"xfelMode on", "xfelMode off"}
    BY <1>1, <1>3, RestedOne DEF Reconfigure
<1>4. CASE slot = "HAMBURG"
    <2>1. Takes(RestIn(s), UpdateTestEnvironment(TRUE) \o Set("hamburg", TRUE), RestIn(s))
        BY <1>1, TakesBoth
    <2> QED
        BY <1>4, <2>1, RestedOne DEF Reconfigure
<1>5. CASE slot = "MANNHEIM"
    <2>1. Takes(RestIn(s), UpdateTestEnvironment(FALSE) \o Set("hamburg", FALSE), RestIn(s))
        BY <1>1, TakesBoth
    <2> QED
        BY <1>5, <2>1, RestedOne DEF Reconfigure
<1> QED
    BY <1>2, <1>3, <1>4, <1>5 DEF ModeTags, StrandSlots

\* Every slot, where it may be called, leads back to rest.
LEMMA RestedBody ==
    ASSUME NEW slot \in StrandSlots, NEW s \in Rests \cap Allowed(slot)
    PROVE  Rested(Body(slot), s)
<1>1. \/ slot \in CallSlots /\ Body(slot) = Use
      \/ slot \in KeptSlots /\ Body(slot) = Kept
      \/ slot \in RunSlots /\ Body(slot) = Run(slot)
      \/ slot \in InitSlots /\ Body(slot) = Initialise(slot)
      \/ slot \in ModeTags /\ Body(slot) = Reconfigure(slot)
    <2>1. slot \in Slot
        BY DEF StrandSlots
    <2> QED
        BY <2>1 DEF Body, Slot
<1>2. Rested(Use, s)
    BY TakesUse, Sets, RestedOne
<1>3. Rested(Kept, s)
    <2> DEFINE g == Append(<<>>, Frame("state", s))
    <2>1. <<>> \in Seq(Frames) /\ s \in Sources
        BY DEF Sources
    <2>2. Takes(In(g, "CHANGING", s), Use, In(g, "CHANGING", s))
        BY TakesUse, Sets
    <2> HIDE DEF g
    <2>3. Takes(RestIn(s), Kept, RestIn(s))
        BY <2>1, <2>2, TakesKept DEF g, RestIn, Kept
    <2> QED
        BY <2>3, RestedOne
<1> QED
    BY <1>1, <1>2, <1>3, RestedRun, RestedInitialise, RestedTag

-----------------------------------------------------------------------------
(* The steps of the strand *)

\* Nothing has terminated the device, and what is left of the program leads to
\* rest.
ToRest(v, p) == \E A, B \in SUBSET View : v \in A /\ Reaches(p, A, B) /\ B \subseteq RestAny

StrandInv ==
    /\ ~terminated /\ loaded
    /\ poller = "running" => open
    /\ ToRest(Now, prog["slot"])

LEMMA Viewed ==
    ASSUME NEW s \in DeviceState, NEW f \in Seq(Frames), NEW c \in BOOLEAN, NEW d \in BOOLEAN,
           NEW p \in {"on", "off", "ending", "lost"}, NEW o \in BOOLEAN
    PROVE  [state |-> s, frames |-> f, cont |-> c, sending |-> d, poll |-> p, open |-> o] \in View
BY DEF View

LEMMA NowView == ASSUME IInv PROVE Now \in View
<1>1. frames["slot"] \in Seq(Frames) /\ state \in DeviceState
    BY PptAssumption DEF IInv, TypeOK, Frames
<1>2. cont \in BOOLEAN /\ sending \in BOOLEAN /\ open \in BOOLEAN
    BY DEF IInv, TypeOK, registers
<1>3. Poll \in {"on", "off", "ending", "lost"}
    BY DEF Poll
<1> QED
    BY <1>1, <1>2, <1>3, Viewed DEF Now

LEMMA NextView == ASSUME IInv' PROVE Now' \in View
<1>1. frames'["slot"] \in Seq(Frames) /\ state' \in DeviceState
    BY PptAssumption DEF IInv, TypeOK, Frames
<1>2. cont' \in BOOLEAN /\ sending' \in BOOLEAN /\ open' \in BOOLEAN
    BY DEF IInv, TypeOK, registers
<1>3. Poll' \in {"on", "off", "ending", "lost"}
    BY DEF Poll
<1> QED
    BY <1>1, <1>2, <1>3, Viewed DEF Now

\* The next instruction.
LEMMA Ahead ==
    ASSUME IInv, StrandInv, prog["slot"] # <<>>
    PROVE  \E C, B \in SUBSET View :
              /\ Head(prog["slot"]) \in Instruction
              /\ Does(Head(prog["slot"]), Now, C)
              /\ Reaches(Tail(prog["slot"]), C, B) /\ B \subseteq RestAny
<1>1. PICK A, B \in SUBSET View :
          Now \in A /\ Reaches(prog["slot"], A, B) /\ B \subseteq RestAny
    BY DEF StrandInv, ToRest
<1>2. /\ Head(prog["slot"]) \in Instruction /\ Tail(prog["slot"]) \in Seq(Instruction)
      /\ \E C \in SUBSET View : /\ <<A, Head(prog["slot"]), C>> \in ViewMoves
                                /\ Runs(SUBSET View, ViewMoves, Tail(prog["slot"]), C, B)
    BY <1>1, RunsOn DEF Reaches
<1>3. PICK C \in SUBSET View : /\ <<A, Head(prog["slot"]), C>> \in ViewMoves
                               /\ Runs(SUBSET View, ViewMoves, Tail(prog["slot"]), C, B)
    BY <1>2
<1>4. Does(Head(prog["slot"]), Now, C)
    BY <1>1, <1>3 DEF ViewMoves
<1> QED
    BY <1>1, <1>2, <1>3, <1>4 DEF Reaches

\* What is put before the rest of the program.
LEMMA GoesOn ==
    ASSUME NEW v, NEW p, NEW q, NEW C, NEW B \in SUBSET View, B \subseteq RestAny,
           Reaches(q, C, B), NEW A, Takes(A, p, C), v \in A
    PROVE  ToRest(v, p \o q)
<1>1. Reaches(p, A, C) /\ A \in SUBSET View
    BY DEF Takes
<1>2. Reaches(p \o q, A, B)
    BY <1>1, RunsBoth, ConcatProperties DEF Reaches
<1> QED
    BY <1>1, <1>2 DEF ToRest

LEMMA Passes ==
    ASSUME NEW v, NEW q, NEW C \in SUBSET View, NEW B \in SUBSET View, B \subseteq RestAny,
           Reaches(q, C, B), v \in C
    PROVE  ToRest(v, q)
BY DEF ToRest

LEMMA Program ==
    ASSUME IInv, NEW p, prog' = [prog EXCEPT !["slot"] = p]
    PROVE  prog'["slot"] = p
BY Typed, PptAssumption

\* A step of the strand that puts `p` in the place of its instruction.
LEMMA Continued ==
    ASSUME IInv, StrandInv, NEW p, Continue("slot", p),
           NEW C \in SUBSET View, NEW B \in SUBSET View, B \subseteq RestAny,
           Reaches(Tail(prog["slot"]), C, B),
           \/ p = <<>> /\ Now' \in C
           \/ \E A : Takes(A, p, C) /\ Now' \in A,
           UNCHANGED <<loaded, terminated>>, (poller = "running" => open)'
    PROVE  StrandInv'
<1>1. prog'["slot"] = p \o Tail(prog["slot"])
    BY Program DEF Continue, Goto
<1>2. ToRest(Now', p \o Tail(prog["slot"]))
    <2>1. CASE p = <<>> /\ Now' \in C
        <3>1. p \o Tail(prog["slot"]) = Tail(prog["slot"])
            BY <2>1, ConcatEmptySeq DEF Reaches
        <3> QED
            BY <2>1, <3>1, Passes
    <2>2. ASSUME NEW A, Takes(A, p, C), Now' \in A PROVE ToRest(Now', p \o Tail(prog["slot"]))
        BY <2>2, GoesOn
    <2> QED
        BY <2>1, <2>2
<1> QED
    BY <1>1, <1>2 DEF StrandInv, ToRest

\* A step of the strand keeps the invariant, and the chain of states.
Strands == StrandInv' /\ InChain(state, state')

\* What the instruction at the head of the program says of the next view.
LEMMA StrandHead ==
    ASSUME IInv, StrandInv, NEW op, At("slot", op)
    PROVE  /\ prog["slot"] # <<>> /\ Head(prog["slot"]).op = op
           /\ Now.state = state /\ Now.frames = frames["slot"] /\ Now.cont = cont
           /\ Now.sending = sending /\ Now.poll = Poll /\ Now.open = open
           /\ Now \in View
BY NowView DEF At, Running, Now

\* A step that leaves the PPT alone.
LEMMA SameMode ==
    ASSUME IInv, IInv', UNCHANGED <<cont, sending, open, keep, poller>>
    PROVE  Now' = [Now EXCEPT !.state = state', !.frames = frames'["slot"]]
<1>1. Poll' = Poll /\ cont' = cont /\ sending' = sending /\ open' = open
    BY DEF Poll
<1>2. Now \in View /\ Now' \in View
    BY NowView, NextView
<1>3. /\ Now'.state = state' /\ Now'.frames = frames'["slot"] /\ Now'.cont = Now.cont
      /\ Now'.sending = Now.sending /\ Now'.poll = Now.poll /\ Now'.open = Now.open
    BY <1>1 DEF Now
<1> QED
    BY <1>2, <1>3 DEF View

LEMMA Stays == \A s : InChain(s, s)
BY DEF InChain

\* The steps that only take the instruction.
LEMMA StrandStates ==
    ASSUME IInv, IInv', StrandInv, PutState("slot") \/ KeepState("slot") \/ Paused("slot")
    PROVE  Strands
<1>1. PICK C, B \in SUBSET View :
          /\ Head(prog["slot"]) \in Instruction
          /\ Does(Head(prog["slot"]), Now, C)
          /\ Reaches(Tail(prog["slot"]), C, B) /\ B \subseteq RestAny
    BY Ahead DEF PutState, KeepState, Paused, At, Running
<1>2. UNCHANGED <<loaded, terminated>> /\ (poller = "running" => open)'
    BY DEF StrandInv, PutState, KeepState, Paused, registers, polling
<1>3. UNCHANGED <<cont, sending, open, keep, poller>>
    BY DEF PutState, KeepState, Paused, registers, polling
<1>4. "slot" \in Threads /\ frames \in [Threads -> Seq(Frames)]
    BY PptAssumption, Typed
<1>5. ASSUME NEW op, At("slot", op),
             Continue("slot", <<>>), Now' \in C, InChain(state, state')
      PROVE  Strands
    <2>1. StrandInv'
        BY <1>1, <1>2, <1>5, Continued
    <2> QED
        BY <1>5, <2>1 DEF Strands
<1>6. Now' = [Now EXCEPT !.state = state', !.frames = frames'["slot"]]
    BY <1>3, SameMode
<1>7. CASE PutState("slot")
    <2>1. At("slot", "put") /\ Continue("slot", <<>>) /\ state' = Arg("slot")
          /\ frames' = frames
        BY <1>7 DEF PutState, Advance, scopes
    <2>2. InChain(state, state') /\ [Now EXCEPT !.state = state'] \in C
        BY <1>1, <2>1, StrandHead DEF Does, Arg
    <2>3. Now' = [Now EXCEPT !.state = state']
        <3>1. Now.frames = frames'["slot"] /\ Now \in View
            BY <2>1, NowView DEF Now
        <3>2. [Now EXCEPT !.state = state', !.frames = frames'["slot"]] = [Now EXCEPT !.state = state']
            BY <3>1 DEF View
        <3> QED
            BY <1>6, <3>2
    <2> QED
        BY <1>5, <2>1, <2>2, <2>3
<1>8. CASE KeepState("slot")
    <2>1. At("slot", "keep") /\ Continue("slot", <<>>) /\ state' = "CHANGING"
          /\ frames'["slot"] = Append(frames["slot"], Frame("state", Arg("slot")))
        BY <1>4, <1>8 DEF KeepState, Advance, Push
    <2>2. InChain(state, state') /\ Enters(Now, state', Frame("state", Arg("slot"))) \in C
        BY <1>1, <2>1, StrandHead DEF Does, Arg
    <2>3. Now' = Enters(Now, state', Frame("state", Arg("slot")))
        BY <1>6, <2>1 DEF Now, Enters
    <2> QED
        BY <1>5, <2>1, <2>2, <2>3
<1>9. CASE Paused("slot")
    <2>1. At("slot", "paused") /\ Continue("slot", <<>>) /\ state' = "CHANGING"
          /\ frames'["slot"] = Append(frames["slot"], Frame("cont", Arg("slot")))
        BY <1>4, <1>9 DEF Paused, Advance, Push
    <2>2. InChain(state, state') /\ Enters(Now, state', Frame("cont", Arg("slot"))) \in C
        BY <1>1, <2>1, StrandHead DEF Does, Arg
    <2>3. Now' = Enters(Now, state', Frame("cont", Arg("slot")))
        BY <1>6, <2>1 DEF Now, Enters
    <2> QED
        BY <1>5, <2>1, <2>2, <2>3
<1> QED
    BY <1>7, <1>8, <1>9

LEMMA StrandSave ==
    ASSUME IInv, IInv', StrandInv, SaveState("slot") PROVE Strands
<1>1. PICK C, B \in SUBSET View :
          /\ Head(prog["slot"]) \in Instruction
          /\ Does(Head(prog["slot"]), Now, C)
          /\ Reaches(Tail(prog["slot"]), C, B) /\ B \subseteq RestAny
    BY Ahead DEF SaveState, At, Running
<1>2. /\ At("slot", "save") /\ Continue("slot", <<>>) /\ state' = state
      /\ frames'["slot"] = Append(frames["slot"], Frame("state", state))
      /\ UNCHANGED <<loaded, terminated, cont, sending, open, keep, poller>>
    BY PptAssumption, Typed DEF SaveState, Advance, Push, registers, polling
<1>3. Enters(Now, state, Frame("state", state)) \in C
    BY <1>1, <1>2, StrandHead DEF Does
<1>4. Now' = Enters(Now, state, Frame("state", state))
    <2>1. Now' = [Now EXCEPT !.state = state', !.frames = frames'["slot"]]
        BY <1>2, SameMode
    <2>2. Now.frames = frames["slot"]
        BY DEF Now
    <2> QED
        BY <1>2, <2>1, <2>2 DEF Enters
<1>5. (poller = "running" => open)'
    BY <1>2 DEF StrandInv
<1>6. StrandInv'
    BY <1>1, <1>2, <1>3, <1>4, <1>5, Continued
<1> QED
    BY <1>2, <1>6, Stays DEF Strands

LEMMA StrandDrop ==
    ASSUME IInv, IInv', StrandInv, DropState("slot") PROVE Strands
<1>1. PICK C, B \in SUBSET View :
          /\ Head(prog["slot"]) \in Instruction
          /\ Does(Head(prog["slot"]), Now, C)
          /\ Reaches(Tail(prog["slot"]), C, B) /\ B \subseteq RestAny
    BY Ahead DEF DropState, At, Running
<1>2. /\ At("slot", "drop") /\ Continue("slot", <<>>) /\ state' = Top("slot").to
      /\ frames'["slot"] = Popped("slot") /\ Top("slot").kind # "cont"
      /\ UNCHANGED <<loaded, terminated, cont, sending, open, keep, poller>>
    BY PptAssumption, Typed DEF DropState, Advance, registers, polling
<1>3. Top("slot") = LastOf(Now.frames) /\ Popped("slot") = ButLast(Now.frames)
    BY DEF Now, Top, Popped, LastOf, ButLast
<1>4. /\ InChain(state, state')
      /\ [Now EXCEPT !.state = state', !.frames = ButLast(Now.frames)] \in C
    <2>1. Head(prog["slot"]).op = "drop" /\ Now.state = state
        BY <1>2, StrandHead
    <2>2. LastOf(Now.frames).kind # "cont" /\ LastOf(Now.frames).to = state'
        BY <1>2, <1>3
    <2> QED
        BY <1>1, <2>1, <2>2 DEF Does
<1>5. Now' = [Now EXCEPT !.state = state', !.frames = ButLast(Now.frames)]
    BY <1>2, <1>3, SameMode
<1>6. (poller = "running" => open)'
    BY <1>2 DEF StrandInv
<1>7. StrandInv'
    BY <1>1, <1>2, <1>4, <1>5, <1>6, Continued
<1> QED
    BY <1>4, <1>7 DEF Strands

\* Those that leave state and keepers alone.
LEMMA StrandPlain ==
    ASSUME IInv, StrandInv, NEW op, At("slot", op), NEW p, Continue("slot", p),
           UNCHANGED <<state, frames, loaded, terminated>>, (poller = "running" => open)',
           \A C \in SUBSET View :
               Does(Head(prog["slot"]), Now, C)
                   => \/ p = <<>> /\ Now' \in C
                      \/ \E A : Takes(A, p, C) /\ Now' \in A
    PROVE  Strands
<1>1. PICK C, B \in SUBSET View :
          /\ Head(prog["slot"]) \in Instruction
          /\ Does(Head(prog["slot"]), Now, C)
          /\ Reaches(Tail(prog["slot"]), C, B) /\ B \subseteq RestAny
    BY Ahead DEF At, Running
<1>2. StrandInv'
    BY <1>1, Continued
<1> QED
    BY <1>2, Stays DEF Strands

LEMMA NextIs ==
    ASSUME IInv', NEW w \in View, w.state = state', w.frames = frames'["slot"], w.cont = cont',
           w.sending = sending', w.poll = Poll', w.open = open'
    PROVE  Now' = w
<1>1. /\ Now' \in View
      /\ Now'.state = state' /\ Now'.frames = frames'["slot"] /\ Now'.cont = cont'
      /\ Now'.sending = sending' /\ Now'.poll = Poll' /\ Now'.open = open'
    BY NextView DEF Now
<1> QED
    BY <1>1 DEF View

LEMMA StrandCalls ==
    ASSUME IInv, IInv', StrandInv,
           CallPpt("slot") \/ SetBurst("slot") \/ PostTask("slot")
    PROVE  Strands
<1>1. /\ Continue("slot", <<>>)
      /\ UNCHANGED <<state, frames, loaded, terminated, open, keep, poller>>
    BY DEF CallPpt, SetBurst, PostTask, Advance, scopes, registers, polling
<1>2. (poller = "running" => open)' /\ Poll' = Poll
    BY <1>1 DEF StrandInv, Poll
<1>3. CASE CallPpt("slot") /\ At("slot", "set")
    <2>1. cont' = Written(Now, Arg("slot")).cont /\ sending' = Written(Now, Arg("slot")).sending
        <3>1. /\ cont' = IF "cont" \in DOMAIN Arg("slot") THEN Arg("slot")["cont"] ELSE cont
              /\ sending' = IF "sending" \in DOMAIN Arg("slot") THEN Arg("slot")["sending"] ELSE sending
            BY <1>3 DEF CallPpt
        <3>2. Now \in View /\ Now.cont = cont /\ Now.sending = sending
            BY NowView DEF Now
        <3>3. Written(Now, Arg("slot")).cont = (IF "cont" \in DOMAIN Arg("slot") THEN Arg("slot")["cont"] ELSE cont)
            BY <3>2 DEF Written, View
        <3>4. Written(Now, Arg("slot")).sending = (IF "sending" \in DOMAIN Arg("slot") THEN Arg("slot")["sending"] ELSE sending)
            BY <3>2 DEF Written, View
        <3> QED
            BY <3>1, <3>3, <3>4
    <2>2. ASSUME NEW C \in SUBSET View, Does(Head(prog["slot"]), Now, C) PROVE Now' \in C
        <3>1. Written(Now, Arg("slot")) \in C
            BY <1>3, <2>2, StrandHead DEF Does, Arg
        <3>2. /\ Written(Now, Arg("slot")).state = state
              /\ Written(Now, Arg("slot")).frames = frames["slot"]
              /\ Written(Now, Arg("slot")).poll = Poll /\ Written(Now, Arg("slot")).open = open
            BY <1>3, StrandHead DEF Written, View
        <3> QED
            BY <1>1, <1>2, <2>1, <3>1, <3>2, NextIs
    <2> QED
        BY <1>1, <1>2, <1>3, <2>2, StrandPlain
<1>4. ASSUME NEW op \in {"use", "burst", "post"}, At("slot", op), UNCHANGED <<cont, sending>>
      PROVE  Strands
    <2>1. Now' = Now
        BY <1>1, <1>2, <1>4, StrandHead, NextIs
    <2>2. \A C \in SUBSET View : Does(Head(prog["slot"]), Now, C) => Now' \in C
        BY <1>4, <2>1, StrandHead DEF Does
    <2> QED
        BY <1>1, <1>2, <1>4, <2>2, StrandPlain
<1>5. CASE CallPpt("slot") /\ At("slot", "use")
    <2>1. ~At("slot", "set")
        BY <1>5 DEF At
    <2>2. cont' = cont /\ sending' = sending
        BY <1>5, <2>1 DEF CallPpt
    <2> QED
        BY <1>4, <1>5, <2>2
<1>6. CASE SetBurst("slot") \/ PostTask("slot")
    BY <1>4, <1>6 DEF SetBurst, PostTask, registers
<1> QED
    BY <1>3, <1>5, <1>6 DEF CallPpt, Calls

LEMMA StrandPolling ==
    ASSUME IInv, IInv', StrandInv,
           \/ ClearPolling("slot") \/ JoinPoller("slot")
           \/ CheckPolling("slot") \/ SpawnPoller("slot")
    PROVE  Strands
<1>1. UNCHANGED <<state, frames, loaded, cont, sending, open>>
    BY DEF ClearPolling, JoinPoller, CheckPolling, SpawnPoller, scopes, registers
<1>2. Now \in View /\ (poller = "running" => open) /\ ~terminated
    BY NowView DEF StrandInv
<1>3. ASSUME NEW q \in {"on", "off", "ending", "lost"}, Poll' = q
      PROVE  Now' = [Now EXCEPT !.poll = q]
    <2>1. /\ Now.state = state /\ Now.frames = frames["slot"] /\ Now.cont = cont
          /\ Now.sending = sending /\ Now.open = open
        BY DEF Now
    <2>2. [Now EXCEPT !.poll = q] \in View
        BY <1>2 DEF View
    <2>3. /\ [Now EXCEPT !.poll = q].state = state' /\ [Now EXCEPT !.poll = q].frames = frames'["slot"]
          /\ [Now EXCEPT !.poll = q].cont = cont' /\ [Now EXCEPT !.poll = q].sending = sending'
          /\ [Now EXCEPT !.poll = q].poll = q /\ [Now EXCEPT !.poll = q].open = open'
        BY <1>1, <1>2, <2>1 DEF View
    <2> QED
        BY <1>3, <2>2, <2>3, NextIs
<1>4. CASE ClearPolling("slot")
    <2>1. /\ At("slot", "stopPolling") /\ Continue("slot", <<>>) /\ keep' = FALSE
          /\ UNCHANGED <<poller, terminated>>
        BY <1>4 DEF ClearPolling, Advance
    <2>2. Poll' = IF poller = "none" THEN "off" ELSE "ending"
        BY <2>1 DEF Poll
    <2>3. ASSUME NEW C \in SUBSET View, Does(Head(prog["slot"]), Now, C) PROVE Now' \in C
        <3>1. /\ Poll # "lost"
              /\ [Now EXCEPT !.poll = IF Poll = "off" THEN "off" ELSE "ending"] \in C
            BY <2>1, <2>3, StrandHead DEF Does
        <3>2. Poll' = IF Poll = "off" THEN "off" ELSE "ending"
            BY <2>2, <3>1 DEF Poll
        <3> QED
            BY <1>3, <3>1, <3>2
    <2> QED
        BY <1>1, <1>2, <2>1, <2>3, StrandPlain
<1>5. CASE JoinPoller("slot")
    <2>1. /\ At("slot", "join") /\ Continue("slot", <<>>) /\ poller' = "none"
          /\ UNCHANGED <<keep, terminated>>
        BY <1>5 DEF JoinPoller, Advance
    <2>2. ASSUME NEW C \in SUBSET View, Does(Head(prog["slot"]), Now, C) PROVE Now' \in C
        <3>1. Poll \in {"off", "ending"} /\ [Now EXCEPT !.poll = "off"] \in C
            BY <2>1, <2>2, StrandHead DEF Does
        <3>2. Poll' = "off"
            BY <2>1, <3>1 DEF Poll
        <3> QED
            BY <1>3, <3>1, <3>2
    <2> QED
        BY <1>1, <1>2, <2>1, <2>2, StrandPlain
<1>6. CASE CheckPolling("slot")
    <2>1. /\ At("slot", "startPolling") /\ Continue("slot", IF keep THEN <<>> ELSE Op("spawn"))
          /\ UNCHANGED <<keep, poller, terminated>>
        BY <1>6 DEF CheckPolling, polling
    <2>2. Poll' = Poll
        BY <2>1 DEF Poll
    <2>3. ASSUME NEW C \in SUBSET View, Does(Head(prog["slot"]), Now, C)
          PROVE  IF keep THEN Now' \in C ELSE Takes({Now}, Op("spawn"), C) /\ Now' = Now
        <3>1. Poll \in {"on", "off"} /\ open /\ [Now EXCEPT !.poll = "on"] \in C
            BY <2>1, <2>3, StrandHead DEF Does
        <3>2. CASE keep
            <4>1. Poll' = "on"
                BY <2>2, <3>1, <3>2 DEF Poll
            <4> QED
                BY <1>3, <3>1, <3>2, <4>1
        <3>3. CASE ~keep
            <4>1. Poll = "off"
                BY <3>1, <3>3 DEF Poll
            <4>2. Now' = Now
                BY <1>1, <2>2, StrandHead, <2>1, NextIs
            <4>3. Does([op |-> "spawn"], Now, C)
                BY <3>1, <4>1, <2>1, StrandHead DEF Does
            <4>4. [op |-> "spawn"] \in Instruction
                BY DEF Instruction
            <4> QED
                BY <1>2, <3>3, <4>2, <4>3, <4>4, TakesOne DEF Op
        <3> QED
            BY <3>2, <3>3
    <2>4. CASE keep
        BY <1>1, <1>2, <2>1, <2>3, <2>4, StrandPlain
    <2>5. CASE ~keep
        <3>1. \A C \in SUBSET View :
                  Does(Head(prog["slot"]), Now, C) => Takes({Now}, Op("spawn"), C) /\ Now' \in {Now}
            BY <2>3, <2>5
        <3>2. Continue("slot", Op("spawn"))
            BY <2>1, <2>5
        <3> QED
            BY <1>1, <1>2, <2>1, <3>1, <3>2, StrandPlain
    <2> QED
        BY <2>4, <2>5
<1>7. CASE SpawnPoller("slot")
    <2>1. At("slot", "spawn") /\ Continue("slot", <<>>) /\ keep' = TRUE
        BY <1>7 DEF SpawnPoller, Advance
    <2>2. PICK C \in SUBSET View : Does(Head(prog["slot"]), Now, C)
        BY <2>1, Ahead, StrandHead
    <2>3. Poll = "off" /\ open
        BY <2>1, <2>2, StrandHead DEF Does
    <2>4. poller' = "running" /\ UNCHANGED terminated
        BY <1>7, <2>3 DEF SpawnPoller, Poll
    <2>5. Poll' = "on"
        BY <2>1, <2>4 DEF Poll
    <2>6. \A D \in SUBSET View : Does(Head(prog["slot"]), Now, D) => [Now EXCEPT !.poll = "on"] \in D
        BY <2>1, StrandHead DEF Does
    <2>7. \A D \in SUBSET View : Does(Head(prog["slot"]), Now, D) => Now' \in D
        BY <1>3, <2>5, <2>6
    <2> QED
        BY <1>1, <2>1, <2>3, <2>4, <2>7, StrandPlain
<1> QED
    BY <1>4, <1>5, <1>6, <1>7

\* The steps that change nothing of the view and put more before the rest.
LEMMA StrandExpands ==
    ASSUME IInv, IInv', StrandInv,
           \/ Pause("slot") \/ IfXfelMode("slot")
           \/ OpenConnection("slot") \/ ConnectFails("slot") \/ Setup("slot")
    PROVE  Strands
<1>1. UNCHANGED <<state, frames, loaded, terminated, cont, sending, open, keep, poller>>
    BY DEF Pause, IfXfelMode, OpenConnection, ConnectFails, Setup, scopes, registers, polling
<1>2. (poller = "running" => open)' /\ Poll' = Poll /\ Now \in View
    BY <1>1, NowView DEF StrandInv, Poll
<1>3. /\ Now.state = state /\ Now.frames = frames["slot"] /\ Now.cont = cont
      /\ Now.sending = sending /\ Now.poll = Poll /\ Now.open = open
    BY DEF Now
<1>4. Now' = Now
    BY <1>1, <1>2, <1>3, NextIs
<1>5. ASSUME NEW op, At("slot", op), NEW p, Continue("slot", p),
             \A C \in SUBSET View :
                 Does(Head(prog["slot"]), Now, C)
                     => \/ p = <<>> /\ Now \in C
                        \/ \E A : Takes(A, p, C) /\ Now \in A
      PROVE  Strands
    BY <1>1, <1>2, <1>4, <1>5, StrandPlain
<1>6. CASE Pause("slot")
    <2> DEFINE p == (IF state = "ACQUIRING" THEN RunAcquisition(FALSE) ELSE <<>>)
                        \o (IF state \in Acquisition THEN RunContMode(FALSE) ELSE <<>>)
                        \o <<[op |-> "paused", to |-> state]>>
    <2>1. At("slot", "pause") /\ Continue("slot", p)
        BY <1>6 DEF Pause
    <2> HIDE DEF p
    <2>2. ASSUME NEW C \in SUBSET View, Does(Head(prog["slot"]), Now, C)
          PROVE  Takes(RestIn(state), p, C) /\ Now \in RestIn(state)
        <3>1. \E r \in Rests : Now \in RestIn(r) /\ PausedIn(r) \subseteq C
            BY <2>1, <2>2, StrandHead DEF Does
        <3>2. PICK r \in Rests : Now \in RestIn(r) /\ PausedIn(r) \subseteq C
            BY <3>1
        <3>3. r = state
            BY <1>3, <3>2 DEF RestIn, In
        <3>4. Takes(RestIn(state), p, PausedIn(state))
            BY <3>3, TakesPausing DEF p
        <3> QED
            BY <3>2, <3>3, <3>4, TakesLess, Sets
    <2> QED
        BY <1>5, <2>1, <2>2
<1>7. CASE IfXfelMode("slot")
    <2>1. At("slot", "xfel") /\ Continue("slot", IF xfel THEN RunContMode(FALSE) ELSE <<>>)
        BY <1>7 DEF IfXfelMode
    <2>0. <<>> \in Seq(Frames) /\ "STARTED" \in Sources
        BY DEF Sources, Rests
    <2>2. Takes(RestIn("STARTED"), RunContMode(FALSE), RestIn("ON"))
        BY <2>0, TakesRunCont DEF RestIn
    <2>3. ASSUME NEW C \in SUBSET View, Does(Head(prog["slot"]), Now, C)
          PROVE  Now \in C /\ Takes(RestIn("STARTED"), RunContMode(FALSE), C) /\ Now \in RestIn("STARTED")
        <3>1. Now \in RestIn("STARTED") /\ Now \in C /\ RestIn("ON") \subseteq C
            BY <2>1, <2>3, StrandHead DEF Does
        <3> QED
            BY <2>2, <3>1, TakesLess, Sets
    <2> HIDE DEF Now
    <2>4. CASE xfel
        BY <1>5, <2>1, <2>3, <2>4
    <2>5. CASE ~xfel
        BY <1>5, <2>1, <2>3, <2>5
    <2> QED
        BY <2>4, <2>5
<1>8. CASE OpenConnection("slot")
    <2>1. At("slot", "open") /\ Continue("slot", IF open THEN <<>> ELSE Put("OPENING") \o Op("connect"))
        BY <1>8 DEF OpenConnection
    <2>2. CASE open
        <3>1. \A C \in SUBSET View : Does(Head(prog["slot"]), Now, C) => Now \in C
            BY <1>3, <2>1, <2>2, StrandHead DEF Does
        <3> QED
            BY <1>5, <2>1, <2>2, <3>1
    <2>3. CASE ~open
        <3>1. ASSUME NEW C \in SUBSET View, Does(Head(prog["slot"]), Now, C)
              PROVE  /\ Takes({v \in Unconnected : ~v.open}, Put("OPENING") \o Op("connect"), C)
                     /\ Now \in {v \in Unconnected : ~v.open}
            <4>1. /\ Now.state \in {"INIT", "UNKNOWN"} /\ Now.frames = <<>>
                  /\ ~Now.cont /\ Now.poll = "off" /\ OpenedIn \subseteq C
                BY <1>3, <2>1, <2>3, <3>1, StrandHead DEF Does
            <4>2. Now \in {v \in Unconnected : ~v.open}
                BY <1>2, <1>3, <2>3, <4>1 DEF Unconnected
            <4>3. {v \in Unconnected : ~v.open} \in SUBSET View
                BY DEF Unconnected
            <4> QED
                BY <4>1, <4>2, <4>3, TakesConnect, TakesLess
        <3> QED
            BY <1>5, <2>1, <2>3, <3>1
    <2> QED
        BY <2>2, <2>3
<1>9. CASE ConnectFails("slot")
    <2> DEFINE A == {v \in View : v.state = "OPENING" /\ v.frames = <<>> /\ ~v.cont /\ v.poll = "off"}
    <2>1. At("slot", "connect") /\ Continue("slot", Close \o Put("UNKNOWN"))
        BY <1>9 DEF ConnectFails
    <2>2. ASSUME NEW C \in SUBSET View, Does(Head(prog["slot"]), Now, C)
          PROVE  Takes(A, Close \o Put("UNKNOWN"), C) /\ Now \in A
        <3>1. /\ Now.state = "OPENING" /\ Now.frames = <<>> /\ ~Now.cont /\ Now.poll = "off"
              /\ OpenedIn \subseteq C
            BY <2>1, <2>2, StrandHead DEF Does
        <3> QED
            BY <1>2, <3>1, TakesCloseAgain, TakesLess
    <2> QED
        BY <1>5, <2>1, <2>2
<1>10. CASE Setup("slot")
    <2> DEFINE p == ResetAll \o UpdateTestEnvironment(hamburg) \o Put("OFF")
    <2>1. At("slot", "setup") /\ Continue("slot", IF open THEN p ELSE <<>>) /\ hamburg \in BOOLEAN
        BY <1>10 DEF Setup, IInv, TypeOK, registers
    <2>2. Takes({v \in OpenedIn : v.open}, p, RestIn("OFF"))
        BY <2>1, TakesSetup
    <2> HIDE DEF p
    <2>3. ASSUME NEW C \in SUBSET View, Does(Head(prog["slot"]), Now, C)
          PROVE  Now \in OpenedIn /\ RestIn("OFF") \subseteq C /\ RestIn("UNKNOWN") \subseteq C
        BY <2>1, <2>3, StrandHead DEF Does
    <2>4. CASE open
        <3>1. ASSUME NEW C \in SUBSET View, Does(Head(prog["slot"]), Now, C)
              PROVE  Takes({v \in OpenedIn : v.open}, p, C) /\ Now \in {v \in OpenedIn : v.open}
            <4>1. {v \in OpenedIn : v.open} \in SUBSET View
                BY Sets
            <4> QED
                BY <1>3, <2>2, <2>3, <2>4, <3>1, <4>1, TakesLess
        <3> QED
            BY <1>5, <2>1, <2>4, <3>1
    <2>5. CASE ~open
        <3>1. ASSUME NEW C \in SUBSET View, Does(Head(prog["slot"]), Now, C) PROVE Now \in C
            <4>1. Now \in OpenedIn /\ RestIn("UNKNOWN") \subseteq C
                BY <2>3, <3>1
            <4>2. Now \in Closed("UNKNOWN")
                BY <1>2, <1>3, <2>5, <4>1 DEF OpenedIn, Closed
            <4> QED
                BY <4>1, <4>2, ClosedRests
        <3> QED
            BY <1>5, <2>1, <2>5, <3>1
    <2> QED
        BY <2>4, <2>5
<1> QED
    BY <1>6, <1>7, <1>8, <1>9, <1>10

\* The destructor that restarts the acquisition.
LEMMA StrandResume ==
    ASSUME IInv, IInv', StrandInv, Resume("slot") PROVE Strands
<1> DEFINE q == Tail(prog["slot"])
           X(r) == IF r \in Acquisition THEN RunContMode(TRUE) ELSE <<>>
           Y(r) == IF r = "ACQUIRING" THEN RunAcquisition(TRUE) ELSE <<>>
<1>1. PICK C, B \in SUBSET View :
          /\ Head(prog["slot"]) \in Instruction
          /\ Does(Head(prog["slot"]), Now, C)
          /\ Reaches(q, C, B) /\ B \subseteq RestAny
    BY Ahead DEF Resume, At, Running
<1>2. /\ At("slot", "drop") /\ Top("slot").kind = "cont"
      /\ frames' = [frames EXCEPT !["slot"]
                        = Append(Popped("slot"), Frame("destructor", Top("slot").to))]
      /\ prog' = [prog EXCEPT !["slot"]
                        = X(Top("slot").to) \o Y(Top("slot").to) \o prog["slot"]]
      /\ UNCHANGED <<state, loaded, terminated, cont, sending, open, keep, poller>>
    BY DEF Resume, Goto, registers, polling
<1>3. Top("slot") = LastOf(Now.frames) /\ Popped("slot") = ButLast(Now.frames)
    BY DEF Now, Top, Popped, LastOf, ButLast
<1> HIDE DEF q
<1>4. PICK r \in Rests : Now \in PausedIn(r) /\ RestIn(r) \subseteq C
    <2>1. Head(prog["slot"]).op = "drop" /\ LastOf(Now.frames).kind = "cont"
        BY <1>2, <1>3, StrandHead
    <2> QED
        BY <1>1, <2>1 DEF Does
<1>5. /\ Now \in View /\ Now.state = "CHANGING" /\ Suits(Now, Calmed(r))
      /\ Now.frames = Append(<<>>, Frame("cont", r))
    BY <1>4 DEF PausedIn, In
<1>6. Top("slot").to = r /\ Popped("slot") = <<>>
    <2>1. <<>> \in Seq(Frames) /\ Frame("cont", r) \in Frames
        BY Chained DEF Frames, Frame
    <2>2. LastOf(Now.frames) = Frame("cont", r) /\ ButLast(Now.frames) = <<>>
        BY <1>5, <2>1, PopPush
    <2> QED
        BY <1>3, <2>2 DEF Frame
<1>7. frames'["slot"] = <<Frame("destructor", r)>>
    <2>1. frames'["slot"] = Append(Popped("slot"), Frame("destructor", Top("slot").to))
        BY <1>2, Typed, PptAssumption
    <2>2. Append(<<>>, Frame("destructor", r)) = <<Frame("destructor", r)>>
        OBVIOUS
    <2> QED
        BY <1>6, <2>1, <2>2
<1>8. Now' \in In(<<Frame("destructor", r)>>, "CHANGING", Calmed(r))
    <2>1. Now' = [Now EXCEPT !.state = state', !.frames = frames'["slot"]]
        BY <1>2, SameMode
    <2>2. state' = "CHANGING" /\ Now' \in View
        BY <1>2, <1>5, NextView DEF Now
    <2>3. /\ Now'.state = "CHANGING" /\ Now'.frames = <<Frame("destructor", r)>>
          /\ Now'.cont = Now.cont /\ Now'.sending = Now.sending
          /\ Now'.poll = Now.poll /\ Now'.open = Now.open
        BY <1>5, <1>7, <2>1, <2>2 DEF View
    <2>4. Suits(Now', Calmed(r))
        BY <1>5, <2>3 DEF Suits
    <2> QED
        BY <2>2, <2>3, <2>4 DEF In
<1>9. Takes(In(<<Frame("destructor", r)>>, "CHANGING", Calmed(r)), X(r) \o Y(r) \o Drop, C)
    <2>1. Takes(In(<<Frame("destructor", r)>>, "CHANGING", Calmed(r)), X(r) \o Y(r) \o Drop, RestIn(r))
        BY TakesResuming
    <2> HIDE DEF X, Y
    <2> QED
        BY <1>4, <2>1, TakesLess, Sets
<1>10. prog'["slot"] = (X(r) \o Y(r) \o Drop) \o q
    <2>1. /\ prog["slot"] \in Seq(Instruction) /\ prog["slot"] # <<>>
          /\ Head(prog["slot"]).op = "drop"
        BY <1>2, StrandHead, Typed, PptAssumption
    <2>2. Head(prog["slot"]) = [op |-> "drop"]
        BY <1>1, <2>1 DEF Instruction
    <2>3. prog["slot"] = Drop \o q /\ q \in Seq(Instruction)
        BY <2>1, <2>2 DEF Drop, Op, q
    <2>4. X(r) \o Y(r) \in Seq(Instruction)
        <3>1. Flat(X(r)) /\ Flat(Y(r))
            BY Pieces, Nothing
        <3> QED
            BY <3>1, Both, CalmProgram DEF Flat
    <2>5. Drop \in Seq(Instruction)
        BY DownDrop, CalmProgram DEF Down
    <2>6. prog'["slot"] = (X(r) \o Y(r)) \o (Drop \o q)
        BY <1>2, <1>6, <2>3, Program
    <2>7. PICK b : b = X(r) \o Y(r)
        OBVIOUS
    <2> HIDE DEF X, Y
    <2>8. b \o (Drop \o q) = (b \o Drop) \o q
        BY <2>3, <2>4, <2>5, <2>7, Regroup
    <2> QED
        BY <2>6, <2>7, <2>8
<1>11. ToRest(Now', prog'["slot"])
    BY <1>1, <1>8, <1>9, <1>10, GoesOn
<1>12. StrandInv'
    BY <1>2, <1>11 DEF StrandInv, ToRest
<1> QED
    BY <1>2, <1>12, Stays DEF Strands

LEMMA StrandConnection ==
    ASSUME IInv, IInv', StrandInv,
           Connect("slot") \/ Disconnect("slot") \/ DisconnectFails("slot")
    PROVE  Strands
<1>1. /\ UNCHANGED <<state, frames, loaded, cont, sending, keep, poller, terminated>>
      /\ Now \in View /\ Poll' = Poll
    <2>1. UNCHANGED <<state, frames, loaded, cont, sending, keep, poller, terminated>>
        BY DEF Connect, Disconnect, DisconnectFails, scopes, polling
    <2> QED
        BY <2>1, NowView DEF Poll
<1>2. ASSUME NEW o \in BOOLEAN, open' = o PROVE Now' = [Now EXCEPT !.open = o]
    <2>1. /\ Now.state = state /\ Now.frames = frames["slot"] /\ Now.cont = cont
          /\ Now.sending = sending /\ Now.poll = Poll
        BY DEF Now
    <2>2. [Now EXCEPT !.open = o] \in View
        BY <1>1 DEF View
    <2>3. /\ [Now EXCEPT !.open = o].state = state' /\ [Now EXCEPT !.open = o].frames = frames'["slot"]
          /\ [Now EXCEPT !.open = o].cont = cont' /\ [Now EXCEPT !.open = o].sending = sending'
          /\ [Now EXCEPT !.open = o].poll = Poll' /\ [Now EXCEPT !.open = o].open = open'
        BY <1>1, <1>2, <2>1 DEF View
    <2> QED
        BY <2>2, <2>3, NextIs
<1>3. CASE Connect("slot")
    <2>1. At("slot", "connect") /\ Continue("slot", <<>>) /\ open' = TRUE
        BY <1>3 DEF Connect, Advance
    <2>2. Now' = [Now EXCEPT !.open = TRUE]
        BY <1>2, <2>1
    <2>3. ASSUME NEW C \in SUBSET View, Does(Head(prog["slot"]), Now, C) PROVE Now' \in C
        <3>1. /\ Now.state = "OPENING" /\ Now.frames = <<>> /\ ~Now.cont /\ Now.poll = "off"
              /\ OpenedIn \subseteq C
            BY <2>1, <2>3, StrandHead DEF Does
        <3>2. Now' \in OpenedIn
            BY <1>1, <2>2, <3>1 DEF OpenedIn, View
        <3> QED
            BY <3>1, <3>2
    <2> QED
        BY <1>1, <2>1, <2>3, StrandPlain
<1>4. ASSUME At("slot", "disconnect") PROVE (poller = "running" => open)'
    <2>1. PICK C \in SUBSET View : Does(Head(prog["slot"]), Now, C)
        BY <1>4, Ahead, StrandHead
    <2>2. Poll = "off"
        BY <1>4, <2>1, StrandHead DEF Does
    <2> QED
        BY <1>1, <2>2 DEF Poll
<1>5. CASE Disconnect("slot")
    <2>1. At("slot", "disconnect") /\ Continue("slot", <<>>) /\ open' = FALSE
        BY <1>5 DEF Disconnect, Advance
    <2>2. Now' = [Now EXCEPT !.open = FALSE]
        BY <1>2, <2>1
    <2>3. \A C \in SUBSET View : Does(Head(prog["slot"]), Now, C) => Now' \in C
        BY <2>1, <2>2, StrandHead DEF Does
    <2> QED
        BY <1>1, <1>4, <2>1, <2>3, StrandPlain
<1>6. CASE DisconnectFails("slot")
    <2> DEFINE i == [op |-> "put", to |-> "ERROR"]
    <2>1. /\ At("slot", "disconnect") /\ Continue("slot", Put("ERROR"))
          /\ open' \in {open, FALSE} /\ open \in BOOLEAN
        BY <1>6 DEF DisconnectFails, IInv, TypeOK, registers
    <2>2. Now' = [Now EXCEPT !.open = open'] /\ open' \in BOOLEAN
        BY <1>2, <2>1
    <2>3. ASSUME NEW C \in SUBSET View, Does(Head(prog["slot"]), Now, C)
          PROVE  Takes({Now'}, Put("ERROR"), C)
        <3>1. /\ Now.state = "CLOSING"
              /\ [Now EXCEPT !.state = "ERROR"] \in C
              /\ [Now EXCEPT !.state = "ERROR", !.open = FALSE] \in C
            BY <2>1, <2>3, StrandHead DEF Does
        <3>2. Now' \in View /\ Now'.state = "CLOSING"
            BY <1>1, <2>2, <3>1 DEF View
        <3>3. [Now' EXCEPT !.state = "ERROR"] \in C
            <4>1. CASE open' = FALSE
                <5>1. [Now' EXCEPT !.state = "ERROR"] = [Now EXCEPT !.state = "ERROR", !.open = FALSE]
                    BY <1>1, <2>2, <4>1 DEF View
                <5> QED
                    BY <3>1, <5>1
            <4>2. CASE open' = open
                <5>1. Now' = Now
                    BY <1>1, <2>2, <4>2, StrandHead, <2>1 DEF View
                <5> QED
                    BY <3>1, <5>1
            <4> QED
                BY <2>1, <4>1, <4>2
        <3>4. InChain("CLOSING", "ERROR")
            BY DEF InChain, P!Succ
        <3>5. i \in Instruction
            BY DEF Instruction, DeviceState
        <3>6. Does(i, Now', C)
            BY <3>2, <3>3, <3>4 DEF Does
        <3> QED
            BY <3>2, <3>5, <3>6, TakesOne DEF Put
    <2>4. \A C \in SUBSET View : Does(Head(prog["slot"]), Now, C)
              => Takes({Now'}, Put("ERROR"), C) /\ Now' \in {Now'}
        BY <2>3
    <2> QED
        BY <1>1, <1>4, <2>1, <2>4, StrandPlain
<1> QED
    BY <1>3, <1>5, <1>6

\* What only a fault, a second thread or an invalid file makes possible.
LEMMA StrandNever ==
    ASSUME IInv, StrandInv, StrandAlone
    PROVE  /\ ~CallThrows("slot") /\ ~CallNull("slot")
           /\ ~BurstDone("slot") /\ ~BurstOver("slot") /\ ~JoinTwice("slot")
           /\ ~Receive /\ ~PollerThrows /\ \A w \in Workers : ~BeginTask(w)
<1>1. "call" \notin Faults /\ loaded /\ Threads = {"slot"} /\ Workers = {}
    BY DEF StrandAlone, StrandInv, Workers
<1>2. ~At("slot", "trains")
    <2> SUFFICES ASSUME At("slot", "trains") PROVE FALSE
        OBVIOUS
    <2>1. PICK C \in SUBSET View : Does(Head(prog["slot"]), Now, C)
        BY Ahead, StrandHead
    <2> QED
        BY <2>1, StrandHead DEF Does
<1> QED
    BY <1>1, <1>2 DEF CallThrows, CallNull, BurstDone, BurstOver, JoinTwice, Receive,
                      PollerThrows

LEMMA StrandSteps ==
    ASSUME IInv, IInv', StrandInv, StrandAlone, Step("slot") PROVE Strands
BY StrandStates, StrandSave, StrandDrop, StrandResume, StrandCalls, StrandPolling,
   StrandExpands, StrandConnection, StrandNever DEF Step

\* The poll thread ends when it has been told to.
LEMMA StrandPoller ==
    ASSUME IInv, IInv', StrandInv, PollerEnds PROVE Strands
<1>1. /\ UNCHANGED <<state, prog, frames, loaded, cont, sending, open, keep, terminated>>
      /\ poller = "running" /\ poller' = "ended" /\ ~keep
    BY DEF PollerEnds, scopes, registers
<1>2. Poll' = Poll
    BY <1>1 DEF Poll
<1>3. /\ Now \in View /\ Now.state = state /\ Now.frames = frames["slot"] /\ Now.cont = cont
      /\ Now.sending = sending /\ Now.poll = Poll /\ Now.open = open
    BY NowView DEF Now
<1>4. Now' = Now
    BY <1>1, <1>2, <1>3, NextIs
<1>5. StrandInv'
    BY <1>1, <1>4 DEF StrandInv, ToRest
<1> QED
    BY <1>1, <1>5, Stays DEF Strands

\* The strand is free: the device rests in its state.
LEMMA StrandFree ==
    ASSUME IInv, StrandInv, prog["slot"] = <<>>
    PROVE  state \in Rests /\ Now \in RestIn(state)
<1>1. PICK A, B \in SUBSET View :
          Now \in A /\ Reaches(prog["slot"], A, B) /\ B \subseteq RestAny
    BY DEF StrandInv, ToRest
<1>2. A = B
    BY <1>1, RunsNowhere DEF Reaches
<1>3. PICK s \in Rests : Now \in RestIn(s)
    BY <1>1, <1>2 DEF RestAny
<1>4. s = state
    BY <1>3 DEF RestIn, In, Now
<1> QED
    BY <1>3, <1>4

LEMMA StrandCall ==
    ASSUME IInv, IInv', StrandInv, StrandAlone, NEW slot \in Slots, Call(slot)
    PROVE  Strands
<1>1. /\ UNCHANGED <<state, frames, loaded, cont, sending, open, keep, poller, terminated>>
      /\ prog["slot"] = <<>> /\ state \in Allowed(slot)
      /\ prog' = [prog EXCEPT !["slot"] = Body(slot)]
    BY DEF Call, Goto, scopes, registers, polling
<1>2. Poll' = Poll /\ Now \in View
    BY <1>1, NowView DEF Poll
<1>3. /\ Now.state = state /\ Now.frames = frames["slot"] /\ Now.cont = cont
      /\ Now.sending = sending /\ Now.poll = Poll /\ Now.open = open
    BY DEF Now
<1>4. Now' = Now
    BY <1>1, <1>2, <1>3, NextIs
<1>5. Takes(RestIn(state), Body(slot), RestAny) /\ Now' \in RestIn(state)
    <2>1. state \in Rests /\ Now \in RestIn(state) /\ slot \in StrandSlots
        BY <1>1, StrandFree DEF StrandAlone
    <2> QED
        BY <1>1, <1>4, <2>1, RestedBody DEF Rested
<1>6. Reaches(Body(slot), RestIn(state), RestAny) /\ prog'["slot"] = Body(slot)
    BY <1>1, <1>5, Program DEF Takes
<1>7. ToRest(Now', prog'["slot"])
    BY <1>5, <1>6, Sets DEF ToRest
<1>8. StrandInv'
    BY <1>1, <1>7 DEF StrandInv, ToRest
<1> QED
    BY <1>1, <1>8, Stays DEF Strands

LEMMA StrandInit ==
    ASSUME Init, StrandAlone PROVE IInv /\ StrandInv
<1>1. IInv
    BY InitInv
<1>2. /\ state = "INIT" /\ loaded /\ prog["slot"] = Open /\ frames["slot"] = <<>>
      /\ ~open /\ ~cont /\ Poll = "off" /\ ~terminated /\ poller = "none"
    BY PptAssumption DEF Init, StrandAlone, Poll
<1>3. Now \in Unconnected
    <2>1. /\ Now \in View /\ Now.state = state /\ Now.frames = frames["slot"] /\ Now.cont = cont
          /\ Now.poll = Poll /\ Now.open = open
        BY <1>1, NowView DEF Now
    <2> QED
        BY <1>2, <2>1 DEF Unconnected
<1>4. RestIn("OFF") \cup RestIn("UNKNOWN") \subseteq RestAny
    BY Sets DEF Rests
<1>5. Unconnected \in SUBSET View
    BY DEF Unconnected
<1>6. Takes(Unconnected, Open, RestAny)
    BY <1>4, <1>5, TakesOpen, TakesLess, Sets
<1>7. ToRest(Now, Open)
    BY <1>3, <1>5, <1>6, Sets DEF ToRest, Takes
<1> QED
    BY <1>1, <1>2, <1>7 DEF StrandInv

LEMMA StrandNext ==
    ASSUME IInv, StrandInv, StrandAlone, [Next]_vars
    PROVE  IInv' /\ Strands
<1>1. IInv'
    BY NextInv
<1>2. CASE Next
    <2>1. ASSUME NEW t \in Threads, Step(t) PROVE Strands
        BY <1>1, <2>1, StrandSteps DEF StrandAlone
    <2> QED
        BY <1>1, <1>2, <2>1, StrandPoller, StrandCall, StrandNever DEF Next
<1>3. CASE UNCHANGED vars
    <2>1. UNCHANGED <<state, prog, frames, loaded, cont, sending, open, keep, poller, terminated>>
        BY <1>3 DEF vars, scopes, registers, polling
    <2>2. Poll' = Poll
        BY <2>1 DEF Poll
    <2>3. /\ Now \in View /\ Now.state = state /\ Now.frames = frames["slot"] /\ Now.cont = cont
          /\ Now.sending = sending /\ Now.poll = Poll /\ Now.open = open
        BY NowView DEF Now
    <2>4. Now' = Now
        BY <1>1, <2>1, <2>2, <2>3, NextIs
    <2>5. StrandInv'
        BY <2>1, <2>4 DEF StrandInv, ToRest
    <2> QED
        BY <1>1, <2>1, <2>5, Stays DEF Strands
<1> QED
    BY <1>1, <1>2, <1>3

\* The strand alone, whatever sequence of these slots it executes and however often
\* connecting and disconnecting fail: between slot calls the device state tells
\* whether the PPT is in continuous mode.
THEOREM ModeTold == StrandAlone => (Spec => []StateTellsMode)
<1> SUFFICES ASSUME StrandAlone PROVE Spec => []StateTellsMode
    OBVIOUS
<1>1. Init => IInv /\ StrandInv
    BY StrandInit
<1>2. IInv /\ StrandInv /\ [Next]_vars => (IInv /\ StrandInv)'
    BY StrandNext DEF Strands
<1>3. IInv /\ StrandInv => StateTellsMode
    <2> SUFFICES ASSUME IInv, StrandInv, Idle PROVE cont <=> state \in Acquisition
        BY DEF StateTellsMode
    <2>1. Now \in RestIn(state)
        BY PptAssumption, StrandFree DEF Idle
    <2> QED
        BY <2>1 DEF RestIn, In, Suits, Now
<1> QED
    BY <1>1, <1>2, <1>3, PTL DEF Spec

\* The strand alone, likewise: a device that acquires is polled and sends, and
\* the hardware is never polled without a connection.
THEOREM PollingTold == StrandAlone => (Spec => []PollingFollows)
<1> SUFFICES ASSUME StrandAlone PROVE Spec => []PollingFollows
    OBVIOUS
<1>1. Init => IInv /\ StrandInv
    BY StrandInit
<1>2. IInv /\ StrandInv /\ [Next]_vars => (IInv /\ StrandInv)'
    BY StrandNext DEF Strands
<1>3. IInv /\ StrandInv => PollingFollows
    <2> SUFFICES ASSUME IInv, StrandInv, Idle, state = "ACQUIRING" PROVE keep /\ sending
        BY DEF PollingFollows, StrandInv
    <2>1. Now \in RestIn("ACQUIRING")
        BY PptAssumption, StrandFree DEF Idle
    <2>2. Poll = "on" /\ sending
        BY <2>1 DEF RestIn, In, Suits, Now
    <2> QED
        BY <2>2 DEF Poll
<1> QED
    BY <1>1, <1>2, <1>3, PTL DEF Spec

\* The strand alone, likewise: the thread object of the poll thread is never
\* replaced unjoined, and no exception leaves a destructor.
THEOREM NeverTerminates == StrandAlone => (Spec => []NoTerminate)
<1> SUFFICES ASSUME StrandAlone PROVE Spec => []NoTerminate
    OBVIOUS
<1>1. Init => IInv /\ StrandInv
    BY StrandInit
<1>2. IInv /\ StrandInv /\ [Next]_vars => (IInv /\ StrandInv)'
    BY StrandNext DEF Strands
<1>3. StrandInv => NoTerminate
    BY DEF StrandInv, NoTerminate
<1> QED
    BY <1>1, <1>2, <1>3, PTL DEF Spec

\* The strand alone, likewise: the device shows its clients the chain of states
\* of PptStates. The initial states map to its initial state, every step of the
\* device to one of the chain or to none.
THEOREM Chain == StrandAlone => (Spec => StateChain)
<1> SUFFICES ASSUME StrandAlone PROVE Spec => StateChain
    OBVIOUS
<1>1. Init => IInv /\ StrandInv
    BY StrandInit
<1>2. IInv /\ StrandInv /\ [Next]_vars => (IInv /\ StrandInv)'
    BY StrandNext DEF Strands
<1>3. Init => P!Init
    BY DEF Init, P!Init
<1>4. IInv /\ StrandInv /\ [Next]_vars => [P!Next]_state
    BY StrandNext DEF Strands, InChain, P!Next
<1> QED
    BY <1>1, <1>2, <1>3, <1>4, PTL DEF Spec, StateChain, P!Spec

===============================================================================
