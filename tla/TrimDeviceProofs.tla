--------------------------- MODULE TrimDeviceProofs ---------------------------
(***************************************************************************)
(* Proofs about the slots of DsscLadderParameterTrimming, for any slots,   *)
(* settings, tries and failures.                                           *)
(***************************************************************************)
EXTENDS TrimDevice, SequenceTheorems, WellFoundedInduction, TLAPS

-----------------------------------------------------------------------------
(* Programs *)

\* What a property has to know of the instructions left is a mark at every point
\* between two of them, such as the number of keepers in scope; `moves` are the
\* triples of a mark, an instruction and the mark after it. Runs says that a
\* program can be marked from `a` to `b`.
Marking(marks, moves, p, a, b, f) ==
    /\ f \in [1 .. Len(p) + 1 -> marks]
    /\ f[1] = a /\ f[Len(p) + 1] = b
    /\ \A i \in 1 .. Len(p) : <<f[i], p[i], f[i + 1]>> \in moves

Runs(marks, moves, p, a, b) ==
    \E f \in [1 .. Len(p) + 1 -> marks] : Marking(marks, moves, p, a, b, f)

\* The program that does nothing.
LEMMA RunsNothing ==
    ASSUME NEW marks, NEW moves, NEW a \in marks
    PROVE  Runs(marks, moves, <<>>, a, a)
<1> DEFINE f == [i \in 1 .. Len(<<>>) + 1 |-> a]
<1>1. Marking(marks, moves, <<>>, a, a, f)
    BY DEF Marking
<1>2. f \in [1 .. Len(<<>>) + 1 -> marks]
    OBVIOUS
<1> QED
    BY <1>1, <1>2 DEF Runs

LEMMA RunsNowhere ==
    ASSUME NEW marks, NEW moves, NEW a, NEW b, Runs(marks, moves, <<>>, a, b)
    PROVE  a = b
BY DEF Runs, Marking

\* One instruction.
LEMMA RunsOne ==
    ASSUME NEW marks, NEW moves, NEW i, NEW a \in marks, NEW b \in marks,
           <<a, i, b>> \in moves
    PROVE  Runs(marks, moves, <<i>>, a, b)
<1> DEFINE f == [k \in 1 .. Len(<<i>>) + 1 |-> IF k = 1 THEN a ELSE b]
<1>0. Len(<<i>>) = 1 /\ <<i>>[1] = i
    OBVIOUS
<1>1. f \in [1 .. Len(<<i>>) + 1 -> marks]
    OBVIOUS
<1>2. f[1] = a /\ f[2] = b
    OBVIOUS
<1> HIDE DEF f
<1>3. Marking(marks, moves, <<i>>, a, b, f)
    BY <1>0, <1>1, <1>2 DEF Marking
<1> QED
    BY <1>1, <1>3 DEF Runs

\* Instructions that leave the mark alone.
LEMMA RunsSame ==
    ASSUME NEW marks, NEW moves, NEW p, Len(p) \in Nat, NEW a \in marks,
           \A i \in 1 .. Len(p) : <<a, p[i], a>> \in moves
    PROVE  Runs(marks, moves, p, a, a)
<1> DEFINE f == [k \in 1 .. Len(p) + 1 |-> a]
<1>1. Marking(marks, moves, p, a, a, f)
    BY DEF Marking
<1>2. f \in [1 .. Len(p) + 1 -> marks]
    OBVIOUS
<1> QED
    BY <1>1, <1>2 DEF Runs

\* One program after the other.
LEMMA RunsBoth ==
    ASSUME NEW I, NEW p \in Seq(I), NEW q \in Seq(I), NEW marks, NEW moves,
           NEW a, NEW b, NEW c,
           Runs(marks, moves, p, a, b), Runs(marks, moves, q, b, c)
    PROVE  Runs(marks, moves, p \o q, a, c)
<1>1. PICK f \in [1 .. Len(p) + 1 -> marks] : Marking(marks, moves, p, a, b, f)
    BY DEF Runs
<1>2. PICK g \in [1 .. Len(q) + 1 -> marks] : Marking(marks, moves, q, b, c, g)
    BY DEF Runs
<1> DEFINE m == Len(p)
           n == Len(q)
           h == [k \in 1 .. m + n + 1 |-> IF k <= m THEN f[k] ELSE g[k - m]]
<1>3. Len(p \o q) = m + n
    BY ConcatProperties
<1>4. \A k \in 1 .. m : (p \o q)[k] = p[k]
    BY ConcatProperties
<1>5. \A k \in m + 1 .. m + n : (p \o q)[k] = q[k - m]
    BY ConcatProperties
<1>6. m \in Nat /\ n \in Nat /\ f \in [1 .. m + 1 -> marks] /\ g \in [1 .. n + 1 -> marks]
    OBVIOUS
<1> HIDE DEF m, n
<1>7. ASSUME NEW k \in 1 .. m PROVE k \in 1 .. m + n + 1 /\ h[k] = f[k] /\ h[k] \in marks
    BY <1>6
<1>8. ASSUME NEW k \in m + 1 .. m + n + 1
      PROVE  k \in 1 .. m + n + 1 /\ h[k] = g[k - m] /\ h[k] \in marks
    <2>1. k \in 1 .. m + n + 1 /\ ~(k <= m) /\ k - m \in 1 .. n + 1
        BY <1>6
    <2>2. h[k] = g[k - m]
        BY <2>1
    <2> QED
        BY <1>6, <2>1, <2>2
<1>9. h \in [1 .. m + n + 1 -> marks]
    <2>1. ASSUME NEW k \in 1 .. m + n + 1 PROVE (IF k <= m THEN f[k] ELSE g[k - m]) \in marks
        <3>1. CASE k <= m
            BY <1>6, <3>1
        <3>2. CASE ~(k <= m)
            <4>1. k - m \in 1 .. n + 1
                BY <1>6, <3>2
            <4> QED
                BY <1>6, <3>2, <4>1
        <3> QED
            BY <3>1, <3>2
    <2> QED
        BY <2>1
<1> HIDE DEF h
<1>10. f[m + 1] = g[1] /\ h[m + 1] = g[1]
    <2>1. f[m + 1] = b /\ g[1] = b
        BY <1>1, <1>2 DEF Marking, m
    <2>2. m + 1 \in m + 1 .. m + n + 1 /\ (m + 1) - m = 1
        BY <1>6
    <2> QED
        BY <1>8, <2>1, <2>2
<1>11. h[1] = a
    <2>1. f[1] = a
        BY <1>1 DEF Marking
    <2>2. CASE m = 0
        BY <1>10, <2>1, <2>2
    <2>3. CASE m # 0
        BY <1>6, <1>7, <2>1, <2>3
    <2> QED
        BY <2>2, <2>3
<1>12. h[m + n + 1] = c
    <2>1. g[n + 1] = c
        BY <1>2 DEF Marking, n
    <2>2. m + n + 1 \in m + 1 .. m + n + 1 /\ (m + n + 1) - m = n + 1
        BY <1>6
    <2> QED
        BY <1>8, <2>1, <2>2
<1>13. ASSUME NEW k \in 1 .. m + n
       PROVE  <<h[k], (p \o q)[k], h[k + 1]>> \in moves
    <2>1. CASE k \in 1 .. m
        <3>1. h[k + 1] = f[k + 1]
            <4>1. CASE k = m
                BY <1>10, <4>1
            <4>2. CASE k # m
                <5>1. k + 1 \in 1 .. m
                    BY <1>6, <2>1, <4>2
                <5> QED
                    BY <1>7, <5>1
            <4> QED
                BY <4>1, <4>2
        <3>2. <<f[k], p[k], f[k + 1]>> \in moves
            BY <1>1, <2>1 DEF Marking, m
        <3> QED
            BY <1>4, <1>7, <2>1, <3>1, <3>2
    <2>2. CASE k \in m + 1 .. m + n
        <3>1. /\ k - m \in 1 .. n /\ (k - m) + 1 = (k + 1) - m
              /\ k \in m + 1 .. m + n + 1 /\ k + 1 \in m + 1 .. m + n + 1
            BY <1>6, <2>2
        <3>2. <<g[k - m], q[k - m], g[(k - m) + 1]>> \in moves
            BY <1>2, <3>1 DEF Marking, n
        <3>3. h[k] = g[k - m] /\ h[k + 1] = g[(k - m) + 1]
            BY <1>8, <3>1
        <3> QED
            BY <1>5, <2>2, <3>2, <3>3
    <2>3. k \in 1 .. m \/ k \in m + 1 .. m + n
        BY <1>6
    <2> QED
        BY <2>1, <2>2, <2>3
<1>14. Marking(marks, moves, p \o q, a, c, h)
    BY <1>3, <1>11, <1>12, <1>13, <1>9 DEF Marking
<1> QED
    BY <1>3, <1>14, <1>9 DEF Runs

\* What is left from a point on.
LEMMA RunsFrom ==
    ASSUME NEW I, NEW p \in Seq(I), NEW marks, NEW moves, NEW a, NEW c,
           NEW f \in [1 .. Len(p) + 1 -> marks], Marking(marks, moves, p, a, c, f),
           NEW k \in 1 .. Len(p) + 1
    PROVE  /\ SubSeq(p, k, Len(p)) \in Seq(I)
           /\ Runs(marks, moves, SubSeq(p, k, Len(p)), f[k], c)
<1> DEFINE q == SubSeq(p, k, Len(p))
           n == Len(p)
           g == [i \in 1 .. (n - k + 1) + 1 |-> f[i + k - 1]]
<1>1. n \in Nat /\ k \in 1 .. n + 1
    OBVIOUS
<1>2. /\ q \in Seq(I) /\ Len(q) = n - k + 1
      /\ \A i \in 1 .. n - k + 1 : q[i] = p[i + k - 1]
    <2>1. n \in k - 1 .. n
        BY <1>1
    <2>2. /\ q \in Seq(I)
          /\ Len(q) = IF k <= n THEN n - k + 1 ELSE 0
          /\ \A i \in 1 .. n - k + 1 : q[i] = p[k + i - 1]
        BY <1>1, SubSeqProperties
    <2> QED
        BY <1>1, <2>2
<1> HIDE DEF q
<1>3. g \in [1 .. Len(q) + 1 -> marks]
    BY <1>1, <1>2
<1>4. \A i \in 1 .. Len(q) + 1 : g[i] = f[i + k - 1]
    BY <1>1, <1>2
<1>5. g[1] = f[k] /\ g[Len(q) + 1] = f[n + 1]
    BY <1>1, <1>2, <1>4
<1> HIDE DEF g
<1>6. ASSUME NEW i \in 1 .. Len(q) PROVE <<g[i], q[i], g[i + 1]>> \in moves
    <2>1. i + k - 1 \in 1 .. n /\ (i + k - 1) + 1 = (i + 1) + k - 1
        BY <1>1, <1>2
    <2>2. <<f[i + k - 1], p[i + k - 1], f[(i + k - 1) + 1]>> \in moves
        BY <2>1 DEF Marking
    <2>3. g[i] = f[i + k - 1] /\ g[i + 1] = f[(i + k - 1) + 1] /\ q[i] = p[i + k - 1]
        BY <1>1, <1>2, <1>4, <2>1
    <2> QED
        BY <2>2, <2>3
<1>7. f[n + 1] = c
    BY DEF Marking
<1>8. Marking(marks, moves, q, f[k], c, g)
    BY <1>3, <1>5, <1>6, <1>7 DEF Marking
<1> QED
    BY <1>2, <1>3, <1>8 DEF Runs, q

\* The first instruction.
LEMMA RunsOn ==
    ASSUME NEW I, NEW p \in Seq(I), p # <<>>, NEW marks, NEW moves, NEW a, NEW c,
           Runs(marks, moves, p, a, c)
    PROVE  /\ Head(p) \in I /\ Tail(p) \in Seq(I)
           /\ \E b \in marks : <<a, Head(p), b>> \in moves
                               /\ Runs(marks, moves, Tail(p), b, c)
<1>1. PICK f \in [1 .. Len(p) + 1 -> marks] : Marking(marks, moves, p, a, c, f)
    BY DEF Runs
<1>2. /\ Len(p) \in Nat \ {0} /\ Head(p) \in I /\ Tail(p) \in Seq(I)
      /\ Head(p) = p[1] /\ Tail(p) = SubSeq(p, 2, Len(p))
    <2>1. Len(p) \in Nat \ {0}
        BY EmptySeq
    <2>2. Tail(p) \in Seq(I) /\ Head(p) \in I
        BY HeadTailProperties
    <2>3. SubSeq(p, 2, Len(p)) = Tail(p)
        BY HeadTailProperties
    <2> QED
        BY <2>1, <2>2, <2>3
<1>3. 2 \in 1 .. Len(p) + 1 /\ f[2] \in marks
    BY <1>2
<1>4. Runs(marks, moves, SubSeq(p, 2, Len(p)), f[2], c)
    BY <1>1, <1>3, RunsFrom
<1>5. <<a, Head(p), f[2]>> \in moves
    BY <1>1, <1>2 DEF Marking
<1> QED
    BY <1>2, <1>3, <1>4, <1>5

\* The least of some numbers.
LEMMA Smallest ==
    ASSUME NEW T \in SUBSET Nat, T # {}
    PROVE  \E x \in T : \A y \in T : x <= y
<1> DEFINE R == {s \in Nat \X Nat : s[1] < s[2]}
<1>1. IsWellFoundedOn(R, Nat)
    BY NatLessThanWellFounded DEF OpToRel
<1>2. \E x \in T : \A y \in T : <<y, x>> \notin R
    <2> HIDE DEF R
    <2> QED
        BY <1>1, WFMin
<1>3. ASSUME NEW x \in T, NEW y \in T, <<y, x>> \notin R PROVE x <= y
    <2>1. ~(y < x)
        BY <1>3
    <2> QED
        BY <2>1
<1> QED
    BY <1>2, <1>3

\* Only the instructions of K lead out of the marks of Z.
Leads(I, marks, moves, Z, K) ==
    \A x, y \in marks : \A i \in I : <<x, i, y>> \in moves /\ x \in Z /\ i \notin K => y \in Z

\* There is none of K before s.
NoneBefore(p, s, K) == \A j \in 1 .. s - 1 : p[j] \notin K

\* If the program ends out of Z, one of K is to come; the marks up to the first
\* are of Z.
LEMMA RunsUntil ==
    ASSUME NEW I, NEW p \in Seq(I), NEW marks, NEW moves, NEW a, NEW c,
           NEW f \in [1 .. Len(p) + 1 -> marks], Marking(marks, moves, p, a, c, f),
           NEW Z, NEW K, NEW s \in 1 .. Len(p) + 1, f[s] \in Z, c \notin Z,
           Leads(I, marks, moves, Z, K), NoneBefore(p, s, K)
    PROVE  \E k \in s .. Len(p) : p[k] \in K /\ f[k] \in Z /\ NoneBefore(p, k, K)
<1> DEFINE n == Len(p)
           Outside == {k \in s .. n + 1 : f[k] \notin Z}
           Exits   == {k \in s .. n : p[k] \in K}
<1>1. n \in Nat /\ s \in Nat /\ f[n + 1] = c
    BY DEF Marking
<1>2. \A k \in 1 .. n : <<f[k], p[k], f[k + 1]>> \in moves /\ p[k] \in I
    BY DEF Marking
<1> HIDE DEF n
<1>3. n + 1 \in Outside /\ Outside \in SUBSET Nat
    BY <1>1 DEF n
<1>4. PICK k \in Outside : \A j \in Outside : k <= j
    <2> HIDE DEF Outside
    <2> QED
        BY <1>3, Smallest
<1>5. k - 1 \in s .. n /\ f[k - 1] \in Z /\ f[k] \notin Z /\ (k - 1) + 1 = k
    <2>1. k \in s .. n + 1 /\ f[k] \notin Z /\ k # s
        BY <1>4
    <2>2. k - 1 \in s .. n + 1 /\ ~(k <= k - 1)
        BY <1>1, <2>1
    <2>3. f[k - 1] \in Z
        BY <1>4, <2>2
    <2> QED
        BY <1>1, <2>1, <2>2, <2>3
<1>6. p[k - 1] \in K
    <2>1. k - 1 \in 1 .. n /\ k - 1 \in 1 .. n + 1 /\ k \in 1 .. n + 1
        BY <1>1, <1>5
    <2>2. f[k - 1] \in marks /\ f[k] \in marks
        BY <2>1 DEF n
    <2> QED
        BY <1>2, <1>5, <2>1, <2>2 DEF Leads
<1>7. k - 1 \in Exits /\ Exits \in SUBSET Nat
    BY <1>1, <1>5, <1>6
<1>8. PICK e \in Exits : \A j \in Exits : e <= j
    <2> HIDE DEF Exits
    <2> QED
        BY <1>7, Smallest
<1>9. e \in s .. n /\ p[e] \in K /\ e <= k - 1
    BY <1>7, <1>8
<1>10. f[e] \in Z
    <2>1. e \in s .. n + 1 /\ ~(k <= e)
        BY <1>1, <1>5, <1>9
    <2> QED
        BY <1>4, <2>1
<1>11. ASSUME NEW j \in 1 .. e - 1 PROVE p[j] \notin K
    <2>1. j \in 1 .. s - 1 \/ (j \in s .. n /\ ~(e <= j))
        BY <1>1, <1>9
    <2> QED
        BY <1>8, <2>1 DEF NoneBefore
<1> QED
    BY <1>9, <1>10, <1>11 DEF n, NoneBefore

-----------------------------------------------------------------------------
(* Instructions *)

Function == {"open", "initSystem", "runStandAlone", "startAcquisition",
             "stopAcquisition", "stopStandalone", "fillSramAndReadout"}

\* What a function that looks at the PPT first may go on with.
Inner == [op : {"use", "acquire"}]
    \cup [op : {"call"}, to : Function]
    \cup [op : {"ifPpt"}, to : [is : PptState, call : Function]]
    \cup [op : {"trigger", "changing"}, to : [from : PptState, call : Function, times : Nat \ {0}]]

Plain == {"keep", "drop", "require", "record", "initRaw", "finishRaw", "newTrimmer", "range",
          "forget", "instance", "acquires", "receivers", "load", "inject"}

Instruction == Inner
    \cup [op : Plain]
    \cup [op : {"put"}, to : DeviceState]
    \cup [op : {"trim"}, to : Nat]
    \cup [op : {"available", "complete"}, to : BOOLEAN]
    \cup [op : {"tell", "own"}, to : InjectionMode]
    \cup [op : {"exists", "fill"}, to : Seq(Inner)]

-----------------------------------------------------------------------------
(* Marks *)

\* What the instructions left have to do: put back `depth` states, forget the
\* trimmer, end the recording and the saving of raw data, note the mode `own`,
\* come to a verdict, and set OFF at the end of `initialization`.
Mark == [depth : 0 .. 2, forget : BOOLEAN, record : BOOLEAN, raw : BOOLEAN,
         own : InjectionMode \cup {"none"}, check : BOOLEAN, begin : BOOLEAN]

\* A slot may be left by `return`.
MayLeave(m) == ~m.forget /\ ~m.record /\ ~m.raw /\ ~m.begin

Quiet == {"use", "call", "trigger", "changing", "ifPpt"}

\* What an instruction does to the mark.
Marks(m, i, n) ==
    \/ m.own = "none" /\ i.op \in Quiet /\ n = m
    \/ m.own = "none" /\ i.op \in {"instance", "acquires", "receivers"} /\ n = [m EXCEPT !.check = TRUE]
    \/ /\ m.own = "none" /\ m.check /\ i.op \in {"available", "complete"} /\ n = [m EXCEPT !.check = FALSE]
       /\ i.op = "available" => MayLeave(m)
    \/ i.op = "own" /\ ~m.check /\ i.to = m.own /\ n = [m EXCEPT !.own = "none"]
    \/ /\ m.own = "none" /\ ~m.check
       /\ \/ i.op = "keep" /\ ~m.begin /\ m.depth < 2 /\ n = [m EXCEPT !.depth = m.depth + 1]
          \/ i.op = "drop" /\ m.depth > 0 /\ n = [m EXCEPT !.depth = m.depth - 1]
          \/ i.op = "put" /\ m.depth > 0 /\ n = m
          \/ i.op = "put" /\ m.depth = 0 /\ i.to = "OFF" /\ n = [m EXCEPT !.begin = FALSE]
          \/ i.op = "require" /\ MayLeave(m) /\ n = m
          \/ i.op = "record" /\ n = [m EXCEPT !.record = TRUE]
          \/ i.op = "acquire" /\ n = [m EXCEPT !.record = FALSE]
          \/ i.op = "initRaw" /\ ~m.record /\ n = [m EXCEPT !.raw = TRUE]
          \/ i.op = "finishRaw" /\ ~m.record /\ n = [m EXCEPT !.raw = FALSE]
          \/ i.op = "newTrimmer" /\ n = m
          \/ i.op = "range" /\ ~m.forget /\ ~m.record /\ ~m.begin /\ n = [m EXCEPT !.forget = TRUE]
          \/ i.op = "forget" /\ n = [m EXCEPT !.forget = FALSE]
          \/ i.op \in {"trim", "exists", "fill"} /\ ~m.record /\ n = m
          \/ i.op = "load" /\ ~m.forget /\ ~m.record /\ ~m.raw /\ n = m
          \/ i.op = "inject" /\ n = m
          \/ i.op = "tell" /\ n = [m EXCEPT !.own = i.to]

Moves == {x \in Mark \X Instruction \X Mark : Marks(x[1], x[2], x[3])}

Goes(p, m, n) == p \in Seq(Instruction) /\ Runs(Mark, Moves, p, m, n)

Level(d, forget, raw) ==
    [depth |-> d, forget |-> forget, record |-> FALSE, raw |-> raw, own |-> "none",
     check |-> FALSE, begin |-> FALSE]

Depth(d) == Level(d, FALSE, FALSE)
Done     == Depth(0)

-----------------------------------------------------------------------------
(* Pieces of programs *)

LEMMA Move ==
    ASSUME NEW m \in Mark, NEW i \in Instruction, NEW n \in Mark
    PROVE  <<m, i, n>> \in Moves <=> Marks(m, i, n)
BY DEF Moves

LEMMA Single ==
    ASSUME NEW m \in Mark, NEW i \in Instruction, NEW n \in Mark, Marks(m, i, n)
    PROVE  Goes(<<i>>, m, n)
<1>1. <<m, i, n>> \in Moves
    BY Move
<1> QED
    BY <1>1, RunsOne DEF Goes

LEMMA Nothing ==
    ASSUME NEW m \in Mark PROVE Goes(<<>>, m, m)
BY RunsNothing DEF Goes

LEMMA Joined ==
    ASSUME NEW p, NEW q, NEW a, NEW b, NEW c, Goes(p, a, b), Goes(q, b, c)
    PROVE  Goes(p \o q, a, c)
<1>1. p \in Seq(Instruction) /\ q \in Seq(Instruction)
    BY DEF Goes
<1>2. p \o q \in Seq(Instruction)
    BY <1>1, ConcatProperties
<1>3. Runs(Mark, Moves, p \o q, a, c)
    BY <1>1, RunsBoth DEF Goes
<1> QED
    BY <1>2, <1>3 DEF Goes

LEMMA OpGoes ==
    ASSUME NEW name \in Plain \cup {"use", "acquire"}, NEW m \in Mark, NEW n \in Mark,
           Marks(m, [op |-> name], n)
    PROVE  Goes(Op(name), m, n)
<1>1. [op |-> name] \in Instruction
    BY DEF Instruction, Inner
<1> QED
    BY <1>1, Single DEF Op

LEMMA WithGoes ==
    ASSUME NEW name, NEW to, [op |-> name, to |-> to] \in Instruction,
           NEW m \in Mark, NEW n \in Mark, Marks(m, [op |-> name, to |-> to], n)
    PROVE  Goes(With(name, to), m, n)
BY Single DEF With

\* Marks a program without keepers leaves alone: anywhere but between the two
\* instructions that change the mode; and where nothing is recorded or checked.
Still == {m \in Mark : m.own = "none"}
Base  == {m \in Still : ~m.check /\ ~m.record}

Keeps(p, S) == \A m \in S : Goes(p, m, m)

LEMMA KeepsBoth ==
    ASSUME NEW p, NEW q, NEW S, Keeps(p, S), Keeps(q, S) PROVE Keeps(p \o q, S)
BY Joined DEF Keeps

LEMMA StillBase == ASSUME NEW p, Keeps(p, Still) PROVE Keeps(p, Base)
BY DEF Keeps, Base

LEMMA UseKeeps == Keeps(Use, Still)
<1> SUFFICES ASSUME NEW m \in Still PROVE Goes(Use, m, m)
    BY DEF Keeps
<1>1. m \in Mark /\ Marks(m, [op |-> "use"], m)
    BY DEF Still, Marks, Quiet
<1> QED
    BY <1>1, OpGoes DEF Use

LEMMA CallKeeps == ASSUME NEW f \in Function PROVE Keeps(Call(f), Still)
<1> SUFFICES ASSUME NEW m \in Still PROVE Goes(Call(f), m, m)
    BY DEF Keeps
<1>1. [op |-> "call", to |-> f] \in Instruction
    BY DEF Instruction, Inner
<1>2. m \in Mark /\ Marks(m, [op |-> "call", to |-> f], m)
    BY DEF Still, Marks, Quiet
<1> QED
    BY <1>1, <1>2, WithGoes DEF Call

LEMMA LoopKeeps ==
    ASSUME NEW op \in {"trigger", "changing"},
           NEW to \in [from : PptState, call : Function, times : Nat \ {0}]
    PROVE  Keeps(With(op, to), Still)
<1> SUFFICES ASSUME NEW m \in Still PROVE Goes(With(op, to), m, m)
    BY DEF Keeps
<1>1. [op |-> op, to |-> to] \in Instruction
    BY DEF Instruction, Inner
<1>2. m \in Mark /\ Marks(m, [op |-> op, to |-> to], m)
    BY DEF Still, Marks, Quiet
<1> QED
    BY <1>1, <1>2, WithGoes

LEMMA TriggerKeeps ==
    ASSUME NEW from \in PptState, NEW f \in Function, NEW times \in Nat \ {0}
    PROVE  Keeps(Trigger(from, f, times), Still)
<1> DEFINE to == [from |-> from, call |-> f, times |-> times]
<1>1. to \in [from : PptState, call : Function, times : Nat \ {0}]
    OBVIOUS
<1> HIDE DEF to
<1>2. Keeps(With("trigger", to), Still)
    BY <1>1, LoopKeeps
<1> QED
    BY <1>2 DEF Trigger, to

LEMMA IfPptKeeps ==
    ASSUME NEW is \in PptState, NEW f \in Function
    PROVE  Keeps(With("ifPpt", [is |-> is, call |-> f]), Still)
<1> SUFFICES ASSUME NEW m \in Still PROVE Goes(With("ifPpt", [is |-> is, call |-> f]), m, m)
    BY DEF Keeps
<1> DEFINE to == [is |-> is, call |-> f]
<1>1. to \in [is : PptState, call : Function]
    OBVIOUS
<1> HIDE DEF to
<1>2. [op |-> "ifPpt", to |-> to] \in Instruction
    BY <1>1 DEF Instruction, Inner
<1>3. m \in Mark /\ Marks(m, [op |-> "ifPpt", to |-> to], m)
    BY DEF Still, Marks, Quiet
<1> QED
    BY <1>2, <1>3, WithGoes DEF to

LEMMA StopKeeps == Keeps(StopPpt, Still)
<1>1. Keeps(With("ifPpt", [is |-> "ACQUIRING", call |-> "stopAcquisition"]), Still)
    BY IfPptKeeps DEF PptState, Function
<1>2. Keeps(With("ifPpt", [is |-> "STARTED", call |-> "stopStandalone"]), Still)
    BY IfPptKeeps DEF PptState, Function
<1> QED
    BY <1>1, <1>2, KeepsBoth DEF StopPpt

LEMMA StartKeeps == Keeps(StartPptDevice, Still)
<1>1. Keeps(Trigger("ERROR", "open", 1), Still)
    BY TriggerKeeps DEF PptState, Function
<1>2. Keeps(Trigger("UNKNOWN", "open", 1), Still)
    BY TriggerKeeps DEF PptState, Function
<1>3. Keeps(Trigger("OFF", "initSystem", Tries), Still)
    BY TriggerKeeps, TrimAssumption DEF PptState, Function
<1>4. Keeps(Trigger("ON", "runStandAlone", Tries), Still)
    BY TriggerKeeps, TrimAssumption DEF PptState, Function
<1>5. Keeps(Trigger("STARTED", "startAcquisition", Tries), Still)
    BY TriggerKeeps, TrimAssumption DEF PptState, Function
<1> QED
    BY <1>1, <1>2, <1>3, <1>4, <1>5, KeepsBoth DEF StartPptDevice

LEMMA AcquireKeeps == Keeps(Acquire, Base)
<1> SUFFICES ASSUME NEW m \in Base PROVE Goes(Acquire, m, m)
    BY DEF Keeps
<1>1. m \in Mark /\ m = [m EXCEPT !.record = FALSE]
    BY DEF Base, Still, Mark
<1>2. Marks(m, [op |-> "acquire"], m)
    BY <1>1 DEF Base, Still, Marks
<1> QED
    BY <1>1, <1>2, OpGoes DEF Acquire

LEMMA PixelKeeps == Keeps(PixelData, Base)
BY UseKeeps, StillBase, AcquireKeeps, KeepsBoth DEF PixelData

LEMMA BurstKeeps == Keeps(BurstData, Base)
<1> SUFFICES ASSUME NEW m \in Base PROVE Goes(BurstData, m, m)
    BY DEF Keeps
<1> DEFINE n == [m EXCEPT !.record = TRUE]
<1>1. m \in Mark /\ n \in Mark /\ n.own = "none" /\ ~n.check /\ m = [n EXCEPT !.record = FALSE]
    BY DEF Base, Still, Mark
<1>2. Marks(m, [op |-> "record"], n) /\ n \in Still
    BY <1>1 DEF Base, Still, Marks
<1> HIDE DEF n
<1>3. Marks(n, [op |-> "acquire"], m)
    BY <1>1 DEF Marks
<1>4. Goes(Op("record"), m, n)
    BY <1>1, <1>2, OpGoes DEF Plain
<1>5. Goes(Use, n, n)
    BY <1>2, UseKeeps DEF Keeps
<1>6. Goes(Acquire, n, m)
    BY <1>1, <1>3, OpGoes DEF Acquire
<1>7. Goes(Op("record") \o Use, m, n)
    BY <1>4, <1>5, Joined
<1> QED
    BY <1>6, <1>7, Joined DEF BurstData

-----------------------------------------------------------------------------
(* The functions that look at the PPT first *)

LEMMA InnerPieces ==
    /\ StopPpt \in Seq(Inner) /\ StartPptDevice \in Seq(Inner)
    /\ Use \in Seq(Inner) /\ Acquire \in Seq(Inner)
    /\ \A f \in Function : Call(f) \in Seq(Inner)
<1>1. \A i \in Inner : <<i>> \in Seq(Inner)
    OBVIOUS
<1>2. \A p, q \in Seq(Inner) : p \o q \in Seq(Inner)
    BY ConcatProperties
<1>3. ASSUME NEW from \in PptState, NEW f \in Function, NEW times \in Nat \ {0}
      PROVE  Trigger(from, f, times) \in Seq(Inner)
    <2> DEFINE to == [from |-> from, call |-> f, times |-> times]
    <2>1. to \in [from : PptState, call : Function, times : Nat \ {0}]
        OBVIOUS
    <2> HIDE DEF to
    <2>2. [op |-> "trigger", to |-> to] \in Inner
        BY <2>1 DEF Inner
    <2> QED
        BY <1>1, <2>2 DEF Trigger, With, to
<1>4. ASSUME NEW is \in PptState, NEW f \in Function
      PROVE  With("ifPpt", [is |-> is, call |-> f]) \in Seq(Inner)
    <2> DEFINE to == [is |-> is, call |-> f]
    <2>1. to \in [is : PptState, call : Function]
        OBVIOUS
    <2> HIDE DEF to
    <2>2. [op |-> "ifPpt", to |-> to] \in Inner
        BY <2>1 DEF Inner
    <2> QED
        BY <1>1, <2>2 DEF With, to
<1>5. ASSUME NEW f \in Function PROVE Call(f) \in Seq(Inner)
    <2>1. [op |-> "call", to |-> f] \in Inner
        BY DEF Inner
    <2> QED
        BY <1>1, <2>1 DEF Call, With
<1>6. Use \in Seq(Inner) /\ Acquire \in Seq(Inner)
    <2>1. [op |-> "use"] \in Inner /\ [op |-> "acquire"] \in Inner
        BY DEF Inner
    <2> QED
        BY <1>1, <2>1 DEF Use, Acquire, Op
<1>7. StopPpt \in Seq(Inner)
    <2>1. With("ifPpt", [is |-> "ACQUIRING", call |-> "stopAcquisition"]) \in Seq(Inner)
        BY <1>4 DEF PptState, Function
    <2>2. With("ifPpt", [is |-> "STARTED", call |-> "stopStandalone"]) \in Seq(Inner)
        BY <1>4 DEF PptState, Function
    <2> QED
        BY <1>2, <2>1, <2>2 DEF StopPpt
<1>8. StartPptDevice \in Seq(Inner)
    <2>1. Trigger("ERROR", "open", 1) \in Seq(Inner)
        BY <1>3 DEF PptState, Function
    <2>2. Trigger("UNKNOWN", "open", 1) \in Seq(Inner)
        BY <1>3 DEF PptState, Function
    <2>3. Trigger("OFF", "initSystem", Tries) \in Seq(Inner)
        BY <1>3, TrimAssumption DEF PptState, Function
    <2>4. Trigger("ON", "runStandAlone", Tries) \in Seq(Inner)
        BY <1>3, TrimAssumption DEF PptState, Function
    <2>5. Trigger("STARTED", "startAcquisition", Tries) \in Seq(Inner)
        BY <1>3, TrimAssumption DEF PptState, Function
    <2>6. Trigger("ERROR", "open", 1) \o Trigger("UNKNOWN", "open", 1) \in Seq(Inner)
        BY <1>2, <2>1, <2>2
    <2>7. (Trigger("ERROR", "open", 1) \o Trigger("UNKNOWN", "open", 1))
              \o Trigger("OFF", "initSystem", Tries) \in Seq(Inner)
        BY <1>2, <2>3, <2>6
    <2>8. ((Trigger("ERROR", "open", 1) \o Trigger("UNKNOWN", "open", 1))
              \o Trigger("OFF", "initSystem", Tries)) \o Trigger("ON", "runStandAlone", Tries) \in Seq(Inner)
        BY <1>2, <2>4, <2>7
    <2> QED
        BY <1>2, <2>5, <2>8 DEF StartPptDevice
<1> QED
    BY <1>5, <1>6, <1>7, <1>8

\* What the PPT is told where it is idle: read back a pattern, or stop, be
\* changed and start.
LEMMA IdlePrograms ==
    ASSUME NEW name \in {"exists", "fill"}, NEW p \in Seq(Inner)
    PROVE  Keeps(With(name, p), Base) /\ Keeps(p, Base)
<1>1. Keeps(With(name, p), Base)
    <2> SUFFICES ASSUME NEW m \in Base PROVE Goes(With(name, p), m, m)
        BY DEF Keeps
    <2>1. [op |-> name, to |-> p] \in Instruction
        BY DEF Instruction
    <2>2. m \in Mark /\ Marks(m, [op |-> name, to |-> p], m)
        BY DEF Base, Still, Marks
    <2> QED
        BY <2>1, <2>2, WithGoes
<1>2. Keeps(p, Base)
    <2> SUFFICES ASSUME NEW m \in Base PROVE Goes(p, m, m)
        BY DEF Keeps
    <2>1. Len(p) \in Nat /\ \A i \in 1 .. Len(p) : p[i] \in Inner
        OBVIOUS
    <2>2. m \in Mark /\ m.own = "none" /\ ~m.check /\ m = [m EXCEPT !.record = FALSE]
        BY DEF Base, Still, Mark
    <2>3. ASSUME NEW i \in Inner PROVE <<m, i, m>> \in Moves
        <3>1. i \in Instruction /\ i.op \in Quiet \cup {"acquire"}
            BY DEF Instruction, Inner, Quiet
        <3>2. Marks(m, i, m)
            BY <2>2, <3>1 DEF Marks
        <3> QED
            BY <2>2, <3>1, <3>2, Move
    <2>4. Runs(Mark, Moves, p, m, m)
        BY <2>1, <2>2, <2>3, RunsSame
    <2>5. p \in Seq(Instruction)
        <3>1. Inner \subseteq Instruction
            BY DEF Instruction
        <3> QED
            BY <2>1, <3>1
    <2> QED
        BY <2>4, <2>5 DEF Goes
<1> QED
    BY <1>1, <1>2

LEMMA FillKeeps == Keeps(FillSramAndReadout, Base)
<1>1. Call("fillSramAndReadout") \in Seq(Inner)
    BY InnerPieces DEF Function
<1>2. \A p, q \in Seq(Inner) : p \o q \in Seq(Inner)
    BY ConcatProperties
<1>3. (((StopPpt \o Call("fillSramAndReadout")) \o StopPpt) \o Call("fillSramAndReadout")) \o Acquire
        \in Seq(Inner)
    BY <1>1, <1>2, InnerPieces
<1> QED
    BY <1>3, IdlePrograms DEF FillSramAndReadout

LEMMA RunKeeps ==
    ASSUME NEW run \in BOOLEAN
    PROVE  RunContinuousMode(run) \in Seq(Inner)
BY InnerPieces DEF RunContinuousMode

LEMMA FramesKeeps == Keeps(Reconfigure("numFramesToReceive"), Base)
<1>1. \A p, q \in Seq(Inner) : p \o q \in Seq(Inner)
    BY ConcatProperties
<1>2. (RunContinuousMode(FALSE) \o Use) \o RunContinuousMode(TRUE) \in Seq(Inner)
    BY <1>1, RunKeeps, InnerPieces
<1>3. Keeps(With("exists", (RunContinuousMode(FALSE) \o Use) \o RunContinuousMode(TRUE)), Base)
    BY <1>2, IdlePrograms
<1> QED
    BY <1>3, UseKeeps, StillBase, KeepsBoth DEF Reconfigure

-----------------------------------------------------------------------------
(* The availability of the other devices, the injection mode and the trimmers *)

LEMMA ChecksGo ==
    ASSUME NEW m \in Base
    PROVE  /\ Goes(AllDevicesAvailable, m, [m EXCEPT !.check = TRUE])
           /\ MayLeave(m) => Goes(Available, [m EXCEPT !.check = TRUE], m)
           /\ Goes(With("complete", TRUE), [m EXCEPT !.check = TRUE], m)
<1> DEFINE n == [m EXCEPT !.check = TRUE]
<1>1. /\ m \in Mark /\ n \in Mark /\ n \in Still /\ m.own = "none" /\ n.own = "none"
      /\ n.check /\ n = [n EXCEPT !.check = TRUE] /\ m = [n EXCEPT !.check = FALSE]
      /\ MayLeave(m) => MayLeave(n)
    BY DEF Base, Still, Mark, MayLeave
<1>2. n = [m EXCEPT !.check = TRUE]
    OBVIOUS
<1> HIDE DEF n
<1>3. ASSUME NEW name \in {"instance", "acquires", "receivers"}
      PROVE  Goes(Op(name), m, n) /\ Goes(Op(name), n, n)
    <2>1. Marks(m, [op |-> name], n) /\ Marks(n, [op |-> name], n)
        BY <1>1, <1>2 DEF Marks
    <2> QED
        BY <1>1, <2>1, OpGoes DEF Plain
<1>4. Goes(StartPptDevice, n, n)
    BY <1>1, StartKeeps DEF Keeps
<1>5. Goes(PptAvailable, m, n) /\ Goes(PptAvailable, n, n)
    BY <1>3, <1>4, Joined DEF PptAvailable
<1>6. Goes(AllDevicesAvailable, m, n)
    BY <1>3, <1>5, Joined DEF AllDevicesAvailable
<1>7. ASSUME NEW name \in {"available", "complete"}, name = "available" => MayLeave(m)
      PROVE  Goes(With(name, TRUE), n, m)
    <2>1. [op |-> name, to |-> TRUE] \in Instruction
        BY DEF Instruction
    <2>2. Marks(n, [op |-> name, to |-> TRUE], m)
        BY <1>1, <1>7 DEF Marks
    <2> QED
        BY <1>1, <2>1, <2>2, WithGoes
<1> QED
    BY <1>2, <1>6, <1>7 DEF Available

LEMMA Levels ==
    ASSUME NEW d \in 0 .. 2, NEW forget \in BOOLEAN, NEW raw \in BOOLEAN
    PROVE  /\ Level(d, forget, raw) \in Base /\ Level(d, forget, raw) \in Still
           /\ Level(d, forget, raw) \in Mark
BY DEF Level, Base, Still, Mark

LEMMA SameMark ==
    ASSUME NEW m \in Mark, NEW n \in Mark, m.depth = n.depth, m.forget = n.forget,
           m.record = n.record, m.raw = n.raw, m.own = n.own, m.check = n.check, m.begin = n.begin
    PROVE  m = n
BY DEF Mark

LEMMA Depths ==
    ASSUME NEW d \in 0 .. 2
    PROVE  Depth(d) \in Base /\ Depth(d) \in Still /\ Depth(d) \in Mark
BY Levels DEF Depth

LEMMA Deeper ==
    ASSUME NEW d \in 0 .. 1
    PROVE  /\ d + 1 \in 0 .. 2 /\ d \in 0 .. 2
           /\ Depth(d + 1) = [Depth(d) EXCEPT !.depth = d + 1]
           /\ Depth(d) = [Depth(d + 1) EXCEPT !.depth = d]
<1>1. d + 1 \in 0 .. 2 /\ d \in 0 .. 2
    OBVIOUS
<1>2. Depth(d) \in Mark /\ Depth(d + 1) \in Mark
    BY <1>1, Depths
<1>3. /\ [Depth(d) EXCEPT !.depth = d + 1] \in Mark
      /\ [Depth(d + 1) EXCEPT !.depth = d] \in Mark
    BY <1>1, <1>2 DEF Mark
<1>4. Depth(d + 1) = [Depth(d) EXCEPT !.depth = d + 1]
    BY <1>2, <1>3, SameMark DEF Depth, Level
<1>5. Depth(d) = [Depth(d + 1) EXCEPT !.depth = d]
    BY <1>2, <1>3, SameMark DEF Depth, Level
<1> QED
    BY <1>1, <1>4, <1>5

\* What is done in a scope of its own.
LEMMA KeptGoes ==
    ASSUME NEW d \in 0 .. 1, NEW body, Goes(body, Depth(d + 1), Depth(d + 1))
    PROVE  Goes(Kept(body), Depth(d), Depth(d))
<1>1. Depth(d) \in Mark /\ Depth(d + 1) \in Mark
    BY Deeper, Depths
<1>2. Marks(Depth(d), [op |-> "keep"], Depth(d + 1))
      /\ Marks(Depth(d + 1), [op |-> "drop"], Depth(d))
    <2>1. /\ Depth(d).depth = d /\ Depth(d + 1).depth = d + 1 /\ (d + 1) - 1 = d
          /\ \A e : Depth(e).own = "none" /\ ~Depth(e).check /\ ~Depth(e).begin
        BY DEF Depth, Level
    <2> QED
        BY <2>1, Deeper DEF Marks
<1>3. Goes(Op("keep"), Depth(d), Depth(d + 1)) /\ Goes(Op("drop"), Depth(d + 1), Depth(d))
    BY <1>1, <1>2, OpGoes DEF Plain
<1> QED
    BY <1>3, Joined DEF Kept

LEMMA InjectGoes ==
    ASSUME NEW d \in 0 .. 1
    PROVE  /\ Goes(SetSelectedInjectionMode, Depth(d), Depth(d))
           /\ Goes(InitTrimming, Depth(d), Depth(d))
<1>1. Depth(d) \in Still /\ Depth(d + 1) \in Still /\ Depth(d + 1) \in Mark
    BY Deeper, Depths
<1>2. Goes(SetActiveModule, Depth(d), Depth(d)) /\ Goes(SetActiveModule, Depth(d + 1), Depth(d + 1))
    BY <1>1, UseKeeps DEF SetActiveModule, Keeps
<1>3. Marks(Depth(d + 1), [op |-> "inject"], Depth(d + 1))
    BY DEF Marks, Depth, Level
<1>4. Goes(Op("inject"), Depth(d + 1), Depth(d + 1))
    BY <1>1, <1>3, OpGoes DEF Plain
<1>5. Goes(SetActiveModule \o Op("inject"), Depth(d + 1), Depth(d + 1))
    BY <1>2, <1>4, Joined
<1>6. Goes(SetSelectedInjectionMode, Depth(d), Depth(d))
    BY <1>5, KeptGoes DEF SetSelectedInjectionMode
<1> QED
    BY <1>2, <1>6, Joined DEF InitTrimming

\* A trimmer in the scope of a slot, from raw data wanted or not to the same.
LEMMA TrimmingGoes ==
    ASSUME NEW raw \in BOOLEAN, NEW rest \in BOOLEAN, NEW after,
           Goes(after, Level(1, TRUE, raw), Level(1, TRUE, rest))
    PROVE  Goes(Trimming(after), Level(1, FALSE, raw), Level(1, FALSE, rest))
<1> DEFINE a == Level(1, FALSE, raw)
           b == Level(1, TRUE, raw)
           c == Level(1, TRUE, rest)
           e == Level(1, FALSE, rest)
<1>1. a \in Mark /\ b \in Mark /\ c \in Mark /\ e \in Mark /\ a \in Still
    <2>1. 1 \in 0 .. 2 /\ TRUE \in BOOLEAN /\ FALSE \in BOOLEAN
        OBVIOUS
    <2> HIDE DEF a, b, c, e
    <2> QED
        BY <2>1, Levels DEF a, b, c, e
<1>2. /\ Marks(a, [op |-> "newTrimmer"], a) /\ Marks(a, [op |-> "range"], b)
      /\ Marks(b, [op |-> "trim", to |-> Settings], b) /\ Marks(c, [op |-> "forget"], e)
    <2>0. [a EXCEPT !.forget = TRUE] \in Mark /\ [c EXCEPT !.forget = FALSE] \in Mark
        <3> HIDE DEF a, b, c, e
        <3> QED
            BY <1>1 DEF Mark
    <2>1. b = [a EXCEPT !.forget = TRUE] /\ e = [c EXCEPT !.forget = FALSE]
        BY <1>1, <2>0, SameMark DEF Level
    <2>2. /\ a.own = "none" /\ ~a.check /\ ~a.forget /\ ~a.record /\ ~a.begin
          /\ b.own = "none" /\ ~b.check /\ ~b.record /\ c.own = "none" /\ ~c.check
        BY DEF Level
    <2> HIDE DEF a, b, c, e
    <2> QED
        BY <2>1, <2>2 DEF Marks
<1>3. [op |-> "trim", to |-> Settings] \in Instruction
    BY TrimAssumption DEF Instruction
<1> HIDE DEF a, b, c, e
<1>4. Goes(Op("newTrimmer"), a, a) /\ Goes(Op("range"), a, b) /\ Goes(Op("forget"), c, e)
    BY <1>1, <1>2, OpGoes DEF Plain
<1>5. Goes(With("trim", Settings), b, b)
    BY <1>1, <1>2, <1>3, WithGoes
<1>6. Goes(Use, a, a)
    BY <1>1, UseKeeps DEF Keeps
<1>7. Goes(GetNewChipTrimmer, a, b)
    BY <1>4, <1>6, Joined DEF GetNewChipTrimmer
<1>8. Goes(GetNewChipTrimmer \o With("trim", Settings), a, b)
    BY <1>5, <1>7, Joined
<1>9. Goes((GetNewChipTrimmer \o With("trim", Settings)) \o after, a, c)
    BY <1>8, Joined DEF b, c
<1>10. Goes(Trimming(after), a, e)
    BY <1>4, <1>9, Joined DEF Trimming
<1> QED
    BY <1>10 DEF a, e

-----------------------------------------------------------------------------
(* The slots *)

\* What there is to say of every level of scopes.
LEMMA Anywhere ==
    ASSUME NEW d \in 0 .. 2
    PROVE  /\ Goes(Use, Depth(d), Depth(d)) /\ Goes(PixelData, Depth(d), Depth(d))
           /\ Goes(BurstData, Depth(d), Depth(d)) /\ Goes(<<>>, Depth(d), Depth(d))
           /\ Goes(StopPpt, Depth(d), Depth(d)) /\ Goes(FillSramAndReadout, Depth(d), Depth(d))
           /\ Goes(AllDevicesAvailable \o Available, Depth(d), Depth(d))
           /\ Goes(Op("require"), Depth(d), Depth(d))
<1>1. Depth(d) \in Base /\ Depth(d) \in Still /\ Depth(d) \in Mark
    BY Depths
<1>2. MayLeave(Depth(d)) /\ Depth(d).own = "none" /\ ~Depth(d).check
    BY DEF MayLeave, Depth, Level
<1>3. Goes(AllDevicesAvailable \o Available, Depth(d), Depth(d))
    BY <1>1, <1>2, ChecksGo, Joined
<1>4. Goes(Op("require"), Depth(d), Depth(d))
    <2>1. Marks(Depth(d), [op |-> "require"], Depth(d))
        BY <1>2 DEF Marks
    <2> QED
        BY <1>1, <2>1, OpGoes DEF Plain
<1> QED
    BY <1>1, <1>3, <1>4, Nothing, UseKeeps, PixelKeeps, BurstKeeps, StopKeeps, FillKeeps DEF Keeps

LEMMA AcquiringGoes == Goes(Put("ACQUIRING"), Depth(1), Depth(1))
<1>1. [op |-> "put", to |-> "ACQUIRING"] \in Instruction
    BY DEF Instruction, DeviceState
<1>2. Depth(1) \in Mark
    BY Depths
<1>3. Marks(Depth(1), [op |-> "put", to |-> "ACQUIRING"], Depth(1))
    BY DEF Marks, Depth, Level
<1> QED
    BY <1>1, <1>2, <1>3, WithGoes DEF Put

\* initRaw and finishRaw around a trimmer.
LEMMA RawGoes ==
    /\ Goes(Op("initRaw"), Level(1, FALSE, FALSE), Level(1, FALSE, TRUE))
    /\ Goes(Op("finishRaw"), Level(1, TRUE, TRUE), Level(1, TRUE, FALSE))
<1>1. 1 \in 0 .. 2 /\ TRUE \in BOOLEAN /\ FALSE \in BOOLEAN
    OBVIOUS
<1>2. \A forget, raw \in BOOLEAN : Level(1, forget, raw) \in Mark
    BY <1>1, Levels
<1>3. ASSUME NEW forget \in BOOLEAN, NEW raw \in BOOLEAN, NEW rest \in BOOLEAN
      PROVE  Level(1, forget, rest) = [Level(1, forget, raw) EXCEPT !.raw = rest]
    <2>1. Level(1, forget, raw) \in Mark /\ Level(1, forget, rest) \in Mark
        BY <1>2
    <2>2. [Level(1, forget, raw) EXCEPT !.raw = rest] \in Mark
        BY <2>1 DEF Mark
    <2> QED
        BY <2>1, <2>2, SameMark DEF Level
<1>4. \A forget, raw : /\ Level(1, forget, raw).own = "none" /\ ~Level(1, forget, raw).check
                       /\ ~Level(1, forget, raw).record
    BY DEF Level
<1>5. Marks(Level(1, FALSE, FALSE), [op |-> "initRaw"], Level(1, FALSE, TRUE))
    <2>1. Level(1, FALSE, TRUE) = [Level(1, FALSE, FALSE) EXCEPT !.raw = TRUE]
        BY <1>3
    <2> QED
        BY <1>4, <2>1 DEF Marks
<1>6. Marks(Level(1, TRUE, TRUE), [op |-> "finishRaw"], Level(1, TRUE, FALSE))
    <2>1. Level(1, TRUE, FALSE) = [Level(1, TRUE, TRUE) EXCEPT !.raw = FALSE]
        BY <1>3
    <2> QED
        BY <1>4, <2>1 DEF Marks
<1> QED
    BY <1>2, <1>5, <1>6, OpGoes DEF Plain

LEMMA TrimBodies == \A s \in TrimSlots : Goes(Body(s), Done, Done)
<1>0. /\ 0 \in 0 .. 1 /\ 1 \in 0 .. 1 /\ 1 \in 0 .. 2 /\ 0 + 1 = 1
      /\ TRUE \in BOOLEAN /\ FALSE \in BOOLEAN
      /\ Level(1, FALSE, FALSE) = Depth(1)
    BY DEF Depth
<1>1. ASSUME NEW body, Goes(body, Depth(1), Depth(1)) PROVE Goes(Kept(body), Done, Done)
    BY <1>0, <1>1, KeptGoes DEF Done
<1>2. Goes(Use, Level(1, TRUE, FALSE), Level(1, TRUE, FALSE))
      /\ Goes(<<>>, Level(1, TRUE, FALSE), Level(1, TRUE, FALSE))
    <2>1. Level(1, TRUE, FALSE) \in Still /\ Level(1, TRUE, FALSE) \in Mark
        BY <1>0, Levels
    <2> QED
        BY <2>1, UseKeeps, Nothing DEF Keeps
<1>3. Goes(Trimming(Use), Depth(1), Depth(1)) /\ Goes(Trimming(<<>>), Depth(1), Depth(1))
    BY <1>0, <1>2, TrimmingGoes
<1>4. Goes(Use, Depth(1), Depth(1)) /\ Goes(PixelData, Depth(1), Depth(1))
      /\ Goes(Op("require"), Depth(1), Depth(1))
    BY <1>0, Anywhere
<1>5. Goes(SetSelectedInjectionMode, Depth(1), Depth(1)) /\ Goes(InitTrimming, Depth(1), Depth(1))
    BY <1>0, InjectGoes
<1>6. PICK c : Goes(AllDevicesAvailable, Depth(1), c) /\ Goes(Available, c, Depth(1))
    <2>1. Depth(1) \in Base /\ MayLeave(Depth(1))
        BY <1>0, Depths DEF MayLeave, Depth, Level
    <2> QED
        BY <2>1, ChecksGo
<1>7. Goes(RunPixelDelayTrimming, Done, Done)
    <2>1. Goes(((AllDevicesAvailable \o Available) \o InitTrimming) \o PixelData, Depth(1), Depth(1))
        BY <1>4, <1>5, <1>6, Joined
    <2> QED
        BY <1>1, <2>1 DEF RunPixelDelayTrimming
<1>8. Goes(RunGainTrimming, Done, Done)
    <2>1. Goes((Put("ACQUIRING") \o Use) \o AllDevicesAvailable, Depth(1), c)
        BY <1>4, <1>6, AcquiringGoes, Joined
    <2>2. Goes((((Put("ACQUIRING") \o Use) \o AllDevicesAvailable) \o Available) \o InitTrimming,
               Depth(1), Depth(1))
        BY <1>5, <1>6, <2>1, Joined
    <2>3. Goes(((((Put("ACQUIRING") \o Use) \o AllDevicesAvailable) \o Available) \o InitTrimming)
                   \o Trimming(<<>>), Depth(1), Depth(1))
        BY <1>3, <2>2, Joined
    <2> QED
        BY <1>1, <2>3 DEF RunGainTrimming
<1>9. Goes(MeasureInjectionSweepSlopes, Done, Done)
    <2>1. Goes((Op("require") \o SetSelectedInjectionMode) \o Trimming(Use), Depth(1), Depth(1))
        BY <1>3, <1>4, <1>5, Joined
    <2> QED
        BY <1>1, <2>1 DEF MeasureInjectionSweepSlopes
<1>10. Goes(MeasureADCGainMap, Done, Done)
    <2>1. Goes(Trimming(Op("finishRaw")), Level(1, FALSE, TRUE), Depth(1))
        BY <1>0, RawGoes, TrimmingGoes
    <2>2. Goes(Op("initRaw"), Depth(1), Level(1, FALSE, TRUE))
        BY <1>0, RawGoes
    <2>3. Goes(Op("initRaw") \o Trimming(Op("finishRaw")), Depth(1), Depth(1))
        BY <2>1, <2>2, Joined
    <2> QED
        BY <1>1, <2>3 DEF MeasureADCGainMap
<1>11. Goes(MeasureBinningInformation, Done, Done)
    <2>1. Goes(Put("ACQUIRING") \o Trimming(Use), Depth(1), Depth(1))
        BY <1>3, AcquiringGoes, Joined
    <2> QED
        BY <1>1, <2>1 DEF MeasureBinningInformation
<1>12. \A s \in TrimSlots : Body(s) \in {RunPixelDelayTrimming, RunGainTrimming, MeasureInjectionSweepSlopes,
                                        MeasureADCGainMap, MeasureBinningInformation}
    BY DEF TrimSlots, Body, ProgramSlots, FileSlots, Tags
<1> QED
    BY <1>7, <1>8, <1>9, <1>10, <1>11, <1>12

\* The configuration file, from a device that is being made or one that is
\* configured anew.
LEMMA LoadsGo ==
    ASSUME NEW m \in Base, ~m.forget, ~m.raw,
           NEW n, NEW after, Goes(after, m, n)
    PROVE  Goes(InitMultiModuleInterface(after), m, n)
<1>1. m \in Mark /\ m \in Still /\ Marks(m, [op |-> "load"], m)
    BY DEF Base, Still, Marks
<1>2. Goes(Op("load"), m, m)
    BY <1>1, OpGoes DEF Plain
<1>3. PICK c : Goes(AllDevicesAvailable, m, c) /\ Goes(With("complete", TRUE), c, m)
    BY ChecksGo
<1>4. Goes(Use, m, m) /\ Goes(SetActiveModule, m, m)
    BY <1>1, UseKeeps DEF Keeps, SetActiveModule
<1>5. Goes((Op("load") \o AllDevicesAvailable) \o With("complete", TRUE), m, m)
    BY <1>2, <1>3, Joined
<1>6. Goes((((Op("load") \o AllDevicesAvailable) \o With("complete", TRUE)) \o Use) \o SetActiveModule, m, m)
    BY <1>4, <1>5, Joined
<1> QED
    BY <1>6, Joined DEF InitMultiModuleInterface

LEMMA Bodies == \A s \in Slot : Goes(Body(s), Done, Done)
<1>0. 0 \in 0 .. 1 /\ 0 \in 0 .. 2 /\ 1 \in 0 .. 2 /\ 0 + 1 = 1
    OBVIOUS
<1>1. ASSUME NEW body, Goes(body, Depth(1), Depth(1)) PROVE Goes(Kept(body), Done, Done)
    BY <1>0, <1>1, KeptGoes DEF Done
<1>2. /\ Goes(Use, Done, Done) /\ Goes(<<>>, Done, Done) /\ Goes(PixelData, Done, Done)
      /\ Goes(BurstData, Done, Done) /\ Goes(StopPpt, Done, Done) /\ Goes(FillSramAndReadout, Done, Done)
    BY <1>0, Anywhere DEF Done
<1>3. /\ Goes(Use, Depth(1), Depth(1)) /\ Goes(PixelData, Depth(1), Depth(1))
      /\ Goes(BurstData, Depth(1), Depth(1)) /\ Goes(Op("require"), Depth(1), Depth(1))
    BY <1>0, Anywhere
<1>4. Goes(Kept(Use), Done, Done) /\ Goes(Kept(PixelData), Done, Done)
      /\ Goes(Kept(BurstData), Done, Done)
      /\ Goes(Kept(Op("require") \o PixelData), Done, Done) /\ Goes(Kept(Op("require") \o BurstData), Done, Done)
    BY <1>1, <1>3, Joined
<1>5. Goes(SetSelectedInjectionMode, Done, Done)
    BY <1>0, InjectGoes DEF Done
<1>6. ASSUME NEW tag \in Tags PROVE Goes(Reconfigure(tag), Done, Done)
    <2>1. Done \in Base /\ ~Done.forget /\ ~Done.raw
        BY <1>0, Depths DEF Done, Depth, Level
    <2>2. Goes(InitMultiModuleInterface(<<>>), Done, Done)
        BY <1>2, <2>1, LoadsGo
    <2>3. Goes(Reconfigure("numFramesToReceive"), Done, Done)
        BY <2>1, FramesKeeps DEF Keeps
    <2>4. tag # "numFramesToReceive" => Reconfigure(tag) \in {Use, InitMultiModuleInterface(<<>>)}
        BY DEF Tags, Reconfigure, SetActiveModule
    <2> QED
        BY <1>2, <2>2, <2>3, <2>4
<1>7. ASSUME NEW s \in MeasureSlots PROVE Goes(Body(s), Done, Done)
    <2>1. Goes(AcquireDisplayData, Done, Done) /\ Goes(AcquireImage, Done, Done)
          /\ Goes(MeasureMeanSramContent, Done, Done) /\ Goes(MeasureMeanSramContentAllPix, Done, Done)
          /\ Goes(MeasureBurstOffsetSweep, Done, Done)
        BY <1>2, <1>4, Joined DEF AcquireDisplayData, AcquireImage, MeasureMeanSramContent,
                                  MeasureMeanSramContentAllPix, MeasureBurstOffsetSweep
    <2>2. Goes(GenerateSramBlacklist, Done, Done)
        BY <1>2, <2>1, Joined DEF GenerateSramBlacklist
    <2>3. Goes(MatrixSRAMTest, Done, Done)
        BY <1>2, Joined DEF MatrixSRAMTest
    <2>4. Body(s) \in {Kept(BurstData), MeasureBurstOffsetSweep, BurstData, MeasureMeanSramContent,
                       MeasureMeanSramContentAllPix, GenerateSramBlacklist, AcquireImage,
                       AcquireDisplayData, PixelData, MatrixSRAMTest, FillSramAndReadout}
        BY DEF MeasureSlots, Body, ProgramSlots, FileSlots, Tags
    <2> QED
        BY <1>2, <1>4, <2>1, <2>2, <2>3, <2>4
<1>8. ASSUME NEW s \in ProgramSlots \cup FileSlots \cup {"setSelectedInjectionMode"}
      PROVE  Body(s) \in {Kept(Use), Use, <<>>, SetSelectedInjectionMode}
    BY DEF Body, ProgramSlots, FileSlots, Tags
<1>9. \A tag \in Tags : Body(tag) = Reconfigure(tag)
    BY DEF Body, ProgramSlots, FileSlots, Tags
<1> QED
    BY <1>2, <1>4, <1>5, <1>6, <1>7, <1>8, <1>9, TrimBodies DEF Slot

-----------------------------------------------------------------------------
(* The inductive invariant *)

\* What a slot may leave behind, in `state` or in the outermost keeper.
Resting(s) == s \in {"OFF", "ERROR", "STOPPING"} \/ (s = "STARTING" /\ "begin" \in left)

KeepersHold(m) ==
    /\ m.depth = Len(frames)
    /\ m.begin => m.depth = 0
    /\ frames = <<>> => Resting(state) \/ (m.begin /\ state = "STARTING")
    /\ frames # <<>> => Resting(frames[1])

MeasuresHold(m) ==
    /\ trimmer /\ "trimmer" \notin left => m.forget
    /\ recording /\ "recording" \notin left => m.record /\ saveRaw
    /\ saveRaw /\ "raw" \notin left => m.raw

ModeHolds(m) ==
    /\ m.own = "none" => ppt = "gone" \/ injection = told \/ unsure
    /\ m.own # "none" => told = m.own \/ unsure

Holds(m) == KeepersHold(m) /\ MeasuresHold(m) /\ ModeHolds(m)

IInv == TypeOK /\ \E m \in Mark : Goes(prog, m, Done) /\ Holds(m)

LEMMA Short ==
    ASSUME NEW S, NEW q \in Seq(S)
    PROVE  Len(q) <= 2 <=> Len(q) \in 0 .. 2
<1>1. \A n \in Nat : n <= 2 <=> n \in 0 .. 2
    OBVIOUS
<1>2. Len(q) \in Nat
    OBVIOUS
<1> QED
    BY <1>1, <1>2, Zenon

LEMMA Typed ==
    ASSUME TypeOK
    PROVE  /\ state \in DeviceState /\ frames \in Seq(DeviceState) /\ Len(frames) \in 0 .. 2
           /\ saveRaw \in BOOLEAN /\ trimmer \in BOOLEAN /\ runTrimming \in BOOLEAN
           /\ injection \in InjectionMode /\ recording \in BOOLEAN /\ ppt \in PptState
           /\ told \in InjectionMode /\ posted \in 0 .. Tries /\ nfaults \in 0 .. MaxFaults
           /\ left \subseteq Leavings /\ alone \in BOOLEAN /\ unsure \in BOOLEAN
<1>1. members \in BOOLEAN \X BOOLEAN \X BOOLEAN \X InjectionMode
    BY DEF TypeOK
<1>2. /\ saveRaw \in BOOLEAN /\ trimmer \in BOOLEAN /\ runTrimming \in BOOLEAN
      /\ injection \in InjectionMode
    BY <1>1 DEF members
<1>3. frames \in Seq(DeviceState) /\ Len(frames) <= 2
    BY DEF TypeOK
<1>4. Len(frames) \in 0 .. 2
    BY <1>3, Short, Zenon
<1> QED
    BY <1>2, <1>3, <1>4 DEF TypeOK

\* The other way, for the state after a step that goes on in the program.
LEMMA TypedAgain ==
    ASSUME TypeOK, Running, NEW p, Goto(p),
           state' \in DeviceState, frames' \in Seq(DeviceState), Len(frames') \in 0 .. 2,
           saveRaw' \in BOOLEAN, trimmer' \in BOOLEAN, runTrimming' \in BOOLEAN,
           injection' \in InjectionMode, recording' \in BOOLEAN, ppt' \in PptState,
           told' \in InjectionMode, posted' \in 0 .. Tries, nfaults' \in 0 .. MaxFaults,
           left' \subseteq Leavings, alone' \in BOOLEAN, unsure' \in BOOLEAN
    PROVE  TypeOK'
<1>1. members' \in BOOLEAN \X BOOLEAN \X BOOLEAN \X InjectionMode
    BY DEF members
<1>2. doing' \in Slot \cup {"none", "initialization"} /\ (doing' = "none" <=> prog' = <<>>)
    BY DEF TypeOK, Running, Goto
<1>3. Len(frames') <= 2
    BY Short, Zenon
<1> QED
    BY <1>1, <1>2, <1>3 DEF TypeOK

\* The first instruction, and what there is to do after it.
LEMMA First ==
    ASSUME IInv, Running
    PROVE  /\ Head(prog) \in Instruction /\ Tail(prog) \in Seq(Instruction) /\ prog \in Seq(Instruction)
           /\ \E m, n \in Mark : /\ Holds(m) /\ Goes(prog, m, Done)
                               /\ Marks(m, Head(prog), n) /\ Goes(Tail(prog), n, Done)
<1>1. PICK m \in Mark : Goes(prog, m, Done) /\ Holds(m)
    BY DEF IInv
<1>2. prog \in Seq(Instruction) /\ Runs(Mark, Moves, prog, m, Done) /\ prog # <<>>
    BY <1>1 DEF Goes, Running
<1>3. /\ Head(prog) \in Instruction /\ Tail(prog) \in Seq(Instruction)
      /\ \E n \in Mark : <<m, Head(prog), n>> \in Moves /\ Runs(Mark, Moves, Tail(prog), n, Done)
    BY <1>2, RunsOn
<1>4. PICK n \in Mark : <<m, Head(prog), n>> \in Moves /\ Runs(Mark, Moves, Tail(prog), n, Done)
    BY <1>3
<1>5. Marks(m, Head(prog), n)
    BY <1>3, <1>4, Move
<1>6. Goes(Tail(prog), n, Done)
    BY <1>3, <1>4 DEF Goes
<1> QED
    BY <1>1, <1>2, <1>3, <1>5, <1>6

LEMMA Continued ==
    ASSUME NEW k \in Mark, NEW n \in Mark, NEW before, Goes(before, k, n), Goes(Tail(prog), n, Done),
           Continue(before)
    PROVE  Goes(prog', k, Done)
<1>1. Goes(before \o Tail(prog), k, Done)
    BY Joined
<1> QED
    BY <1>1 DEF Continue, Goto

LEMMA Advanced ==
    ASSUME NEW n \in Mark, Goes(Tail(prog), n, Done), Advance
    PROVE  Goes(prog', n, Done)
BY Continued, Nothing DEF Advance

\* What the instructions carry.
LEMMA Args ==
    ASSUME NEW i \in Instruction
    PROVE  /\ i.op = "put" => i.to \in DeviceState
           /\ i.op = "call" => i.to \in Function
           /\ i.op = "ifPpt" => i.to \in [is : PptState, call : Function]
           /\ i.op \in {"trigger", "changing"} => i.to \in [from : PptState, call : Function, times : Nat \ {0}]
           /\ i.op = "trim" => i.to \in Nat
           /\ i.op \in {"available", "complete"} => i.to \in BOOLEAN
           /\ i.op \in {"tell", "own"} => i.to \in InjectionMode
           /\ i.op \in {"exists", "fill"} => i.to \in Seq(Inner)
BY DEF Instruction, Inner, Plain

-----------------------------------------------------------------------------
(* Steps that only go on in the program *)

\* Marks that differ in the verdict only.
Alike(m, n) ==
    /\ m.depth = n.depth /\ m.forget = n.forget /\ m.record = n.record /\ m.raw = n.raw
    /\ m.own = n.own /\ m.begin = n.begin

Calm == UNCHANGED <<state, frames, members, others, ghosts>>

LEMMA CalmStep ==
    ASSUME IInv, Running, NEW p, Goto(p), Calm,
           NEW m \in Mark, Holds(m), NEW n \in Mark, Alike(m, n), Goes(prog', n, Done)
    PROVE  IInv'
<1>1. TypeOK
    BY DEF IInv
<1>2. TypeOK'
    <2>1. UNCHANGED <<state, frames, saveRaw, trimmer, runTrimming, injection, recording, ppt, told,
                      posted, nfaults, left, alone, unsure>>
        BY DEF Calm, members, others, ghosts
    <2> QED
        BY <1>1, <2>1, Typed, TypedAgain
<1>3. Holds(n)'
    BY DEF Calm, members, others, ghosts, Alike, Holds, KeepersHold, MeasuresHold, ModeHolds, Resting
<1> QED
    BY <1>2, <1>3 DEF IInv

LEMMA CalmContinue ==
    ASSUME IInv, Running, Calm, NEW before, Continue(before),
           NEW m \in Mark, Holds(m), NEW k \in Mark, Alike(m, k),
           NEW n \in Mark, Goes(before, k, n), Goes(Tail(prog), n, Done)
    PROVE  IInv'
<1>1. Goes(prog', k, Done)
    BY Continued
<1>2. Goto(before \o Tail(prog))
    BY DEF Continue
<1> QED
    BY <1>1, <1>2, CalmStep

LEMMA CalmAdvance ==
    ASSUME IInv, Running, Calm, Advance, NEW m \in Mark, Holds(m),
           NEW n \in Mark, Alike(m, n), Goes(Tail(prog), n, Done)
    PROVE  IInv'
BY CalmContinue, Nothing DEF Advance

\* Instructions that look, and those of the PPT that only begin.
LEMMA LookSteps ==
    ASSUME IInv, UseRemote \/ TrimEnds \/ Instance \/ (At("require") /\ Advance /\ Calm)
                 \/ (Running /\ Head(prog).op \in {"acquires", "receivers"} /\ Advance /\ Calm)
    PROVE  IInv'
<1>1. /\ Running /\ Advance /\ Calm
      /\ Head(prog).op \in {"use", "trim", "instance", "require", "acquires", "receivers"}
    BY DEF UseRemote, TrimEnds, Instance, At, Calm
<1>2. PICK m, n \in Mark : Holds(m) /\ Marks(m, Head(prog), n) /\ Goes(Tail(prog), n, Done)
    BY <1>1, First
<1>3. n = m \/ n = [m EXCEPT !.check = TRUE]
    BY <1>1, <1>2 DEF Marks, Quiet
<1>4. Alike(m, n)
    BY <1>3 DEF Alike, Mark
<1> QED
    BY <1>1, <1>2, <1>4, CalmAdvance

\* A verdict that all is there.
LEMMA VerdictStep ==
    ASSUME IInv, Verdict, Arg
    PROVE  IInv'
<1>1. /\ Running /\ Advance /\ Calm /\ Head(prog).op \in {"available", "complete"}
    BY DEF Verdict, Calm
<1>2. PICK m, n \in Mark : Holds(m) /\ Marks(m, Head(prog), n) /\ Goes(Tail(prog), n, Done)
    BY <1>1, First
<1>3. n = [m EXCEPT !.check = FALSE]
    BY <1>1, <1>2 DEF Marks, Quiet
<1>4. Alike(m, n)
    BY <1>3 DEF Alike, Mark
<1> QED
    BY <1>1, <1>2, <1>4, CalmAdvance

LEMMA TrimStep ==
    ASSUME IInv, TrimSetting
    PROVE  IInv'
<1>1. /\ Running /\ Calm /\ Head(prog).op = "trim" /\ Arg > 0
      /\ Goto(BurstData \o With("trim", Arg - 1) \o Tail(prog))
    BY DEF TrimSetting, At, Calm
<1>2. PICK m, n \in Mark : Holds(m) /\ Marks(m, Head(prog), n) /\ Goes(Tail(prog), n, Done)
    BY <1>1, First
<1>3. n = m /\ m \in Base /\ Marks(m, [op |-> "trim", to |-> Arg - 1], m)
    BY <1>1, <1>2 DEF Marks, Quiet, Base, Still
<1>4. Arg - 1 \in Nat
    <2>1. Arg \in Nat
        BY <1>1, First, Args DEF Arg
    <2> QED
        BY <1>1, <2>1
<1>5. Goes(With("trim", Arg - 1), m, m)
    <2>1. [op |-> "trim", to |-> Arg - 1] \in Instruction
        BY <1>4 DEF Instruction
    <2> QED
        BY <1>3, <2>1, WithGoes
<1>6. Goes(BurstData, m, m)
    BY <1>3, BurstKeeps DEF Keeps
<1>7. Goes(prog', m, Done)
    <2>1. Goes(BurstData \o With("trim", Arg - 1), m, m)
        BY <1>5, <1>6, Joined
    <2>2. Goes(BurstData \o With("trim", Arg - 1) \o Tail(prog), m, Done)
        BY <1>2, <1>3, <2>1, Joined
    <2> QED
        BY <1>1, <2>2 DEF Goto
<1>8. Alike(m, m)
    BY DEF Alike
<1> QED
    BY <1>1, <1>2, <1>7, <1>8, CalmStep

\* The loops and the conditions around a call of the PPT.
LEMMA PptSteps ==
    ASSUME IInv, Triggers \/ Changing \/ IfPpt
    PROVE  IInv'
<1>1. Running /\ Calm /\ Head(prog).op \in {"trigger", "changing", "ifPpt"}
    BY DEF Triggers, Changing, IfPpt, At, Calm
<1>2. PICK m, n \in Mark : Holds(m) /\ Marks(m, Head(prog), n) /\ Goes(Tail(prog), n, Done)
    BY <1>1, First
<1>3. n = m /\ m \in Still /\ Alike(m, m)
    BY <1>1, <1>2 DEF Marks, Quiet, Still, Alike
<1>4. Goes(<<>>, m, m)
    BY Nothing
<1>5. ASSUME NEW f \in Function PROVE Goes(Call(f), m, m)
    BY <1>3, CallKeeps DEF Keeps
<1>6. CASE IfPpt
    <2>1. Continue(IF Seen = Arg.is THEN Call(Arg.call) ELSE <<>>) /\ Head(prog).op = "ifPpt"
        BY <1>6 DEF IfPpt, At
    <2>2. Arg.call \in Function
        <3>1. Arg \in [is : PptState, call : Function]
            BY <1>1, <2>1, First, Args DEF Arg
        <3> QED
            BY <3>1
    <2>3. Goes(IF Seen = Arg.is THEN Call(Arg.call) ELSE <<>>, m, m)
        BY <1>4, <1>5, <2>2
    <2> QED
        BY <1>1, <1>2, <1>3, <2>1, <2>3, CalmContinue
<1>7. CASE Triggers \/ Changing
    <2>1. /\ Head(prog).op \in {"trigger", "changing"}
          /\ \/ Continue(Again) \/ Continue(<<>>) \/ Continue(With("changing", Arg))
        BY <1>7 DEF Triggers, Changing, At
    <2>2. Arg \in [from : PptState, call : Function, times : Nat \ {0}]
        BY <1>1, <2>1, First, Args DEF Arg
    <2>3. Arg.from \in PptState /\ Arg.call \in Function /\ Arg.times \in Nat \ {0}
        BY <2>2
    <2> DEFINE again == IF Arg.times = 1 THEN <<>> ELSE Trigger(Arg.from, Arg.call, OneLess(Arg.times))
    <2>4. Goes(again, m, m)
        <3>1. CASE Arg.times = 1
            BY <1>4, <3>1
        <3>2. CASE Arg.times # 1
            <4>1. Arg.times - 1 \in Nat \ {0}
                BY <2>3, <3>2
            <4>2. Goes(Trigger(Arg.from, Arg.call, OneLess(Arg.times)), m, m)
                BY <1>3, <2>3, <4>1, TriggerKeeps DEF Keeps, OneLess
            <4> QED
                BY <3>2, <4>2
        <3> QED
            BY <3>1, <3>2
    <2>5. Again = Call(Arg.call) \o again
        BY DEF Again
    <2> HIDE DEF again
    <2>6. Goes(Again, m, m)
        BY <1>5, <2>3, <2>4, <2>5, Joined
    <2>7. Goes(With("changing", Arg), m, m)
        BY <1>3, <2>2, LoopKeeps DEF Keeps
    <2> QED
        BY <1>1, <1>2, <1>3, <1>4, <2>1, <2>6, <2>7, CalmContinue
<1> QED
    BY <1>6, <1>7

\* The functions that look at the PPT first.
LEMMA IdleSteps ==
    ASSUME IInv, Exists \/ Fill
    PROVE  IInv'
<1>1. Running /\ Calm /\ Head(prog).op \in {"exists", "fill"} /\ (Continue(Arg) \/ Continue(<<>>))
    BY DEF Exists, Fill, At, Calm
<1>2. PICK m, n \in Mark : Holds(m) /\ Marks(m, Head(prog), n) /\ Goes(Tail(prog), n, Done)
    BY <1>1, First
<1>3. n = m /\ m \in Base /\ Alike(m, m)
    BY <1>1, <1>2 DEF Marks, Quiet, Base, Still, Alike
<1>4. Arg \in Seq(Inner)
    BY <1>1, First, Args DEF Arg
<1>5. Goes(Arg, m, m) /\ Goes(<<>>, m, m)
    BY <1>3, <1>4, IdlePrograms, Nothing DEF Keeps
<1> QED
    BY <1>1, <1>2, <1>3, <1>5, CalmContinue

\* The PPT is to be told, and then the mode noted, or nothing is to be done.
LEMMA InjectStep ==
    ASSUME IInv, Inject
    PROVE  IInv'
<1>1. Running /\ Calm /\ Head(prog).op = "inject"
    BY DEF Inject, At, Calm
<1>2. PICK mode \in InjectionMode :
          Continue(IF mode = injection THEN <<>> ELSE With("tell", mode) \o With("own", mode))
    BY DEF Inject
<1>3. PICK m, n \in Mark : Holds(m) /\ Marks(m, Head(prog), n) /\ Goes(Tail(prog), n, Done)
    BY <1>1, First
<1>4. n = m /\ m.own = "none" /\ ~m.check /\ Alike(m, m)
    BY <1>1, <1>3 DEF Marks, Quiet, Alike
<1> DEFINE k == [m EXCEPT !.own = mode]
<1>5. k \in Mark /\ k.own = mode /\ ~k.check /\ m = [k EXCEPT !.own = "none"]
    BY <1>4 DEF Mark
<1>6. Marks(m, [op |-> "tell", to |-> mode], k) /\ Marks(k, [op |-> "own", to |-> mode], m)
    BY <1>4, <1>5 DEF Marks
<1> HIDE DEF k
<1>7. Goes(With("tell", mode), m, k) /\ Goes(With("own", mode), k, m)
    <2>1. [op |-> "tell", to |-> mode] \in Instruction
          /\ [op |-> "own", to |-> mode] \in Instruction
        BY DEF Instruction
    <2> QED
        BY <1>5, <1>6, <2>1, WithGoes
<1>8. Goes(IF mode = injection THEN <<>> ELSE With("tell", mode) \o With("own", mode), m, m)
    BY <1>7, Joined, Nothing
<1> QED
    BY <1>1, <1>2, <1>3, <1>4, <1>8, CalmContinue

-----------------------------------------------------------------------------
(* Leaving a slot *)

\* What a return or an exception leaves: the destructors of the keepers.
LEMMA Unwinds ==
    ASSUME NEW d \in 0 .. 2
    PROVE  Goes([i \in 1 .. d |-> Op("drop")[1]], Depth(d), Done)
<1> DEFINE p == [i \in 1 .. d |-> Op("drop")[1]]
           f == [i \in 1 .. d + 1 |-> Depth(d + 1 - i)]
<1>1. Op("drop")[1] = [op |-> "drop"] /\ [op |-> "drop"] \in Instruction
    BY DEF Op, Instruction, Plain
<1>2. p \in Seq(Instruction) /\ Len(p) = d /\ \A i \in 1 .. d : p[i] = [op |-> "drop"]
    BY <1>1
<1> HIDE DEF p
<1>3. f \in [1 .. d + 1 -> Mark] /\ f[1] = Depth(d) /\ f[d + 1] = Done
    <2>1. ASSUME NEW i \in 1 .. d + 1 PROVE Depth(d + 1 - i) \in Mark
        <3>1. d + 1 - i \in 0 .. 2
            OBVIOUS
        <3> QED
            BY <3>1, Depths
    <2>2. 1 \in 1 .. d + 1 /\ d + 1 \in 1 .. d + 1 /\ d + 1 - 1 = d /\ d + 1 - (d + 1) = 0
        OBVIOUS
    <2> QED
        BY <2>1, <2>2 DEF Done
<1>4. ASSUME NEW i \in 1 .. d PROVE <<f[i], p[i], f[i + 1]>> \in Moves
    <2> DEFINE e == d - i
    <2>1. e \in 0 .. 1 /\ i \in 1 .. d + 1 /\ i + 1 \in 1 .. d + 1 /\ d + 1 - i = e + 1
          /\ d + 1 - (i + 1) = e
        OBVIOUS
    <2> HIDE DEF e
    <2>2. f[i] = Depth(e + 1) /\ f[i + 1] = Depth(e)
        BY <2>1
    <2>3. Depth(e + 1) \in Mark /\ Depth(e) \in Mark /\ Depth(e) = [Depth(e + 1) EXCEPT !.depth = e]
        BY <2>1, Deeper, Depths
    <2>4. Marks(Depth(e + 1), [op |-> "drop"], Depth(e))
        <3>1. /\ Depth(e + 1).depth = e + 1 /\ (e + 1) - 1 = e /\ e + 1 > 0
              /\ Depth(e + 1).own = "none" /\ ~Depth(e + 1).check
            BY <2>1 DEF Depth, Level
        <3> QED
            BY <2>3, <3>1 DEF Marks
    <2> QED
        BY <1>1, <1>2, <2>2, <2>3, <2>4, Move
<1> HIDE DEF f
<1>5. Goes(p, Depth(d), Done)
    BY <1>2, <1>3, <1>4 DEF Goes, Runs, Marking
<1> QED
    BY <1>5 DEF p

LEMMA Left ==
    ASSUME IInv, Leave
    PROVE  \E d \in 0 .. 2 : d = Len(frames) /\ Depth(d) \in Mark /\ Goes(prog', Depth(d), Done)
<1>1. frames \in Seq(DeviceState) /\ Len(frames) \in 0 .. 2
    BY Typed DEF IInv
<1>2. PICK d \in 0 .. 2 : d = Len(frames)
    BY <1>1
<1>3. DOMAIN frames = 1 .. d
    BY <1>1, <1>2
<1>4. prog' = [i \in 1 .. d |-> Op("drop")[1]]
    BY <1>3 DEF Leave, Goto
<1> QED
    BY <1>2, <1>4, Depths, Unwinds

\* The keepers, when a slot is left.
LEMMA KeepersLeft ==
    ASSUME NEW m \in Mark, KeepersHold(m), NEW d \in 0 .. 2, d = Len(frames),
           frames' = frames, "begin" \in left => "begin" \in left',
           \/ state' = "ERROR"
           \/ state' = state /\ (~m.begin \/ (state = "STARTING" => "begin" \in left'))
    PROVE  KeepersHold(Depth(d))'
<1>1. Depth(d).depth = d /\ ~Depth(d).begin
    BY DEF Depth, Level
<1> QED
    BY <1>1 DEF KeepersHold, Resting


LEMMA LeaveTyped ==
    ASSUME TypeOK, Running, Leave, state' \in DeviceState, left' \subseteq Leavings,
           nfaults' \in 0 .. MaxFaults, told' \in InjectionMode, alone' \in BOOLEAN,
           unsure' \in BOOLEAN, UNCHANGED <<frames, members, recording, ppt, posted>>
    PROVE  TypeOK'
<1>1. UNCHANGED <<frames, saveRaw, trimmer, runTrimming, injection, recording, ppt, posted>>
    BY DEF members
<1>2. Goto([i \in DOMAIN frames |-> Op("drop")[1]])
    BY DEF Leave
<1> QED
    BY <1>1, <1>2, Typed, TypedAgain

\* An exception.
LEMMA ThrowSteps ==
    ASSUME IInv, RemoteThrows \/ ToldInVain \/ PptRefuses
    PROVE  IInv'
<1>1. TypeOK
    BY DEF IInv
<1>2. /\ Running /\ Leave /\ left' = left \cup Behind
      /\ Head(prog).op \in {"use", "acquire", "call", "tell", "receivers"}
      /\ UNCHANGED <<state, frames, members, recording, ppt, posted>>
      /\ UNCHANGED <<told, unsure>> \/ (Head(prog).op = "tell" /\ told' = Arg /\ unsure' = TRUE)
      /\ alone' = FALSE \/ alone' = alone
    BY DEF RemoteThrows, ToldInVain, PptRefuses, Remote, At, Throws, Fails
<1>3. nfaults' \in 0 .. MaxFaults
    <2>1. nfaults' = nfaults \/ (nfaults' = nfaults + 1 /\ nfaults < MaxFaults)
        BY DEF RemoteThrows, ToldInVain, PptRefuses, Fails
    <2>2. nfaults \in 0 .. MaxFaults /\ MaxFaults \in Nat
        BY <1>1, Typed, TrimAssumption
    <2> QED
        BY <2>1, <2>2
<1>4. Head(prog).op = "tell" => Arg \in InjectionMode
    BY <1>2, First, Args DEF Arg
<1>5. TypeOK'
    <2>1. state' \in DeviceState /\ told' \in InjectionMode /\ unsure' \in BOOLEAN
          /\ alone' \in BOOLEAN
        BY <1>1, <1>2, <1>4, Typed
    <2>2. left' \subseteq Leavings
        BY <1>1, <1>2, Typed DEF Behind
    <2> QED
        BY <1>1, <1>2, <1>3, <2>1, <2>2, LeaveTyped
<1>6. PICK m, n \in Mark : Holds(m) /\ Marks(m, Head(prog), n)
    BY <1>2, First
<1>7. m.own = "none"
    BY <1>2, <1>6 DEF Marks
<1>8. PICK d \in 0 .. 2 : d = Len(frames) /\ Depth(d) \in Mark /\ Goes(prog', Depth(d), Done)
    BY <1>2, Left
<1>9. KeepersHold(Depth(d))'
    <2>1. state = "STARTING" => "begin" \in left'
        BY <1>2 DEF Behind, Leavings
    <2>2. "begin" \in left => "begin" \in left'
        BY <1>2
    <2> QED
        BY <1>2, <1>6, <1>8, <2>1, <2>2, KeepersLeft DEF Holds
<1>10. MeasuresHold(Depth(d))'
    BY <1>2 DEF MeasuresHold, Behind, Leavings, members
<1>11. ModeHolds(Depth(d))'
    <2>1. Depth(d).own = "none"
        BY DEF Depth, Level
    <2>2. ppt = "gone" \/ injection = told \/ unsure
        BY <1>6, <1>7 DEF Holds, ModeHolds
    <2> QED
        BY <1>2, <2>1, <2>2 DEF ModeHolds, members
<1> QED
    BY <1>5, <1>8, <1>9, <1>10, <1>11 DEF IInv, Holds

\* A return: nothing is left to be forgotten, recorded or noted.
LEMMA ReturnStep ==
    ASSUME IInv, Running, Leave, UNCHANGED <<frames, members, others, nfaults, alone, unsure>>,
           NEW m \in Mark, Holds(m), m.own = "none", ~m.forget, ~m.record,
           (left' = left /\ ~m.raw) \/ LeftEarly,
           \/ state' = "ERROR"
           \/ state' = state /\ ~m.begin
    PROVE  IInv'
<1>1. TypeOK
    BY DEF IInv
<1>2. /\ left' \subseteq Leavings /\ left \subseteq left' /\ left' \ {"raw"} = left \ {"raw"}
      /\ saveRaw /\ "raw" \notin left' => "raw" \notin left /\ ~m.raw
    BY <1>1, Typed DEF LeftEarly, Leavings
<1>3. state' \in DeviceState /\ nfaults' \in 0 .. MaxFaults
    <2>1. nfaults' = nfaults
        OBVIOUS
    <2> QED
        BY <1>1, <2>1, Typed DEF DeviceState
<1>4. TypeOK'
    <2>1. UNCHANGED <<frames, members, recording, ppt, told, posted, alone, unsure>>
        BY DEF others
    <2> QED
        BY <1>1, <1>2, <1>3, <2>1, Typed, LeaveTyped
<1>5. PICK d \in 0 .. 2 : d = Len(frames) /\ Depth(d) \in Mark /\ Goes(prog', Depth(d), Done)
    BY Left
<1>6. KeepersHold(Depth(d))'
    BY <1>2, <1>5, KeepersLeft DEF Holds
<1>7. /\ trimmer' => "trimmer" \in left'
      /\ recording' => "recording" \in left'
      /\ saveRaw' => "raw" \in left'
      /\ ModeHolds(Depth(d))'
    <2>1. UNCHANGED <<saveRaw, trimmer, injection, recording, ppt, told, unsure>>
        BY DEF members, others
    <2>2. Depth(d).own = "none"
        BY DEF Depth, Level
    <2>3. ppt = "gone" \/ injection = told \/ unsure
        BY DEF Holds, ModeHolds
    <2>4. /\ trimmer => "trimmer" \in left
          /\ recording => "recording" \in left
          /\ saveRaw => "raw" \in left'
        BY <1>2 DEF Holds, MeasuresHold
    <2> QED
        BY <1>2, <2>1, <2>2, <2>3, <2>4 DEF ModeHolds
<1>8. Holds(Depth(d))'
    BY <1>6, <1>7 DEF Holds, MeasuresHold, ModeHolds, Depth, Level
<1> QED
    BY <1>4, <1>5, <1>8 DEF IInv

LEMMA ReturnSteps ==
    ASSUME IInv, BadRange \/ (Require /\ Leave) \/ (Verdict /\ ~Arg)
    PROVE  IInv'
<1>1. CASE BadRange
    <2>1. Running /\ Leave /\ Head(prog).op = "range" /\ LeftEarly /\ state' = state
          /\ UNCHANGED <<frames, members, others, nfaults, alone, unsure>>
        BY <1>1 DEF BadRange, At
    <2>2. PICK m, n \in Mark : Holds(m) /\ Marks(m, Head(prog), n)
        BY <2>1, First
    <2>3. m.own = "none" /\ ~m.forget /\ ~m.record /\ ~m.begin
        BY <2>1, <2>2 DEF Marks, Quiet
    <2> QED
        BY <2>1, <2>2, <2>3, ReturnStep
<1>2. CASE Require /\ Leave
    <2>1. Running /\ Leave /\ Head(prog).op = "require" /\ left' = left /\ state' = state
          /\ UNCHANGED <<frames, members, others, nfaults, alone, unsure>>
        BY <1>2 DEF Require, At, ghosts
    <2>2. PICK m, n \in Mark : Holds(m) /\ Marks(m, Head(prog), n)
        BY <2>1, First
    <2>3. m.own = "none" /\ MayLeave(m)
        BY <2>1, <2>2 DEF Marks, Quiet
    <2> QED
        BY <2>1, <2>2, <2>3, ReturnStep DEF MayLeave
<1>3. CASE Verdict /\ ~Arg /\ Head(prog).op = "available"
    <2>1. Running /\ Leave /\ Head(prog).op = "available" /\ left' = left /\ state' = state
          /\ UNCHANGED <<frames, members, others, nfaults, alone, unsure>>
        BY <1>3 DEF Verdict, ghosts
    <2>2. PICK m, n \in Mark : Holds(m) /\ Marks(m, Head(prog), n)
        BY <2>1, First
    <2>3. m.own = "none" /\ MayLeave(m)
        BY <2>1, <2>2 DEF Marks, Quiet
    <2> QED
        BY <2>1, <2>2, <2>3, ReturnStep DEF MayLeave
<1>4. CASE Verdict /\ ~Arg /\ Head(prog).op = "complete"
    <2>1. /\ Running /\ Advance /\ Head(prog).op = "complete" /\ state' = "ERROR"
          /\ UNCHANGED <<frames, members, others, ghosts>>
        BY <1>4 DEF Verdict
    <2>2. PICK m, n \in Mark : Holds(m) /\ Marks(m, Head(prog), n) /\ Goes(Tail(prog), n, Done)
        BY <2>1, First
    <2>3. Goes(prog', n, Done)
        BY <2>1, <2>2, Advanced
    <2>4. n = [m EXCEPT !.check = FALSE]
        BY <2>1, <2>2 DEF Marks, Quiet
    <2>5. Alike(m, n)
        BY <2>4 DEF Alike, Mark
    <2>6. UNCHANGED <<frames, saveRaw, trimmer, runTrimming, injection, recording, ppt, told,
                      posted, nfaults, left, alone, unsure>>
        BY <2>1 DEF members, others, ghosts
    <2>7. TypeOK'
        <3>1. Goto(<<>> \o Tail(prog))
            BY <2>1 DEF Advance, Continue
        <3>2. TypeOK /\ state' \in DeviceState
            BY <2>1 DEF IInv, DeviceState
        <3> QED
            BY <2>1, <2>6, <3>1, <3>2, Typed, TypedAgain
    <2>8. Holds(n)'
        BY <2>1, <2>2, <2>5, <2>6 DEF Alike, Holds, KeepersHold, MeasuresHold, ModeHolds, Resting
    <2> QED
        BY <2>3, <2>7, <2>8 DEF IInv
<1>5. Verdict => Head(prog).op \in {"available", "complete"}
    BY DEF Verdict
<1> QED
    BY <1>1, <1>2, <1>3, <1>4, <1>5

-----------------------------------------------------------------------------
(* The way to a verdict *)

Verdicts == {i \in Instruction : i.op \in {"available", "complete"}}

Looks == Running /\ Head(prog).op \in {"instance", "acquires", "receivers"}

\* From a look at another device a verdict is to come, and nothing else is
\* decided on the way.
LEMMA VerdictComes ==
    ASSUME IInv, Looks
    PROVE  \E m, n, c \in Mark : \E v \in 2 .. Len(prog) :
               /\ Holds(m) /\ m.own = "none" /\ n = [m EXCEPT !.check = TRUE]
               /\ prog[v] \in Verdicts /\ NoneBefore(prog, v, Verdicts)
               /\ Marks(n, prog[v], c) /\ Goes(SubSeq(prog, v + 1, Len(prog)), c, Done)
<1>1. PICK m \in Mark : Holds(m) /\ Goes(prog, m, Done)
    BY First DEF Looks
<1>2. PICK f \in [1 .. Len(prog) + 1 -> Mark] : Marking(Mark, Moves, prog, m, Done, f)
    BY <1>1 DEF Goes, Runs
<1>3. prog \in Seq(Instruction) /\ Len(prog) \in Nat \ {0} /\ Head(prog) = prog[1]
    <2>1. prog \in Seq(Instruction) /\ prog # <<>>
        BY <1>1 DEF Goes, Looks, Running
    <2>2. Len(prog) \in Nat \ {0}
        BY <2>1, EmptySeq
    <2> QED
        BY <2>1, <2>2
<1>4. \A i \in 1 .. Len(prog) : /\ prog[i] \in Instruction /\ f[i] \in Mark /\ f[i + 1] \in Mark
                                /\ Marks(f[i], prog[i], f[i + 1])
    <2> TAKE i \in 1 .. Len(prog)
    <2>1. i \in 1 .. Len(prog) + 1 /\ i + 1 \in 1 .. Len(prog) + 1
        BY <1>3
    <2>2. prog[i] \in Instruction /\ <<f[i], prog[i], f[i + 1]>> \in Moves
        BY <1>2, <1>3 DEF Marking
    <2> QED
        BY <2>1, <2>2, Move
<1> DEFINE n == [m EXCEPT !.check = TRUE]
<1>5. f[2] = n /\ m.own = "none"
    <2>1. f[1] = m /\ Marks(f[1], Head(prog), f[2])
        BY <1>2, <1>3, <1>4 DEF Marking
    <2> QED
        BY <2>1 DEF Marks, Quiet, Looks
<1>6. n \in Mark /\ n # Done /\ n.check
    <2>1. n \in Mark /\ n.check
        BY DEF Mark
    <2>2. ~Done.check
        BY DEF Done, Depth, Level
    <2> QED
        BY <2>1, <2>2
<1>7. Leads(Instruction, Mark, Moves, {n}, Verdicts)
    <2> SUFFICES ASSUME NEW y \in Mark, NEW i \in Instruction, <<n, i, y>> \in Moves, i \notin Verdicts
                 PROVE  y = n
        BY DEF Leads
    <2>1. Marks(n, i, y) /\ i.op \notin {"available", "complete"}
        BY <1>6, Move DEF Verdicts
    <2>2. n = [n EXCEPT !.check = TRUE]
        BY <1>6 DEF Mark
    <2> HIDE DEF n
    <2> QED
        BY <1>6, <2>1, <2>2 DEF Marks
<1>8. 2 \in 1 .. Len(prog) + 1 /\ NoneBefore(prog, 2, Verdicts)
    <2>1. prog[1] \notin Verdicts
        BY <1>3 DEF Verdicts, Looks
    <2> QED
        BY <1>3, <2>1 DEF NoneBefore
<1> HIDE DEF n
<1>9. PICK v \in 2 .. Len(prog) :
          prog[v] \in Verdicts /\ f[v] = n /\ NoneBefore(prog, v, Verdicts)
    <2> DEFINE Z == {n}
    <2>1. \A x : x \in Z <=> x = n
        OBVIOUS
    <2>2. Leads(Instruction, Mark, Moves, Z, Verdicts)
        BY <1>7
    <2> HIDE DEF Z
    <2>3. f[2] \in Z /\ Done \notin Z
        BY <1>5, <1>6, <2>1
    <2>4. \E v \in 2 .. Len(prog) :
              prog[v] \in Verdicts /\ f[v] \in Z /\ NoneBefore(prog, v, Verdicts)
        BY <1>2, <1>3, <1>8, <2>2, <2>3, RunsUntil
    <2> QED
        BY <2>1, <2>4
<1>10. v \in 1 .. Len(prog) /\ v + 1 \in 1 .. Len(prog) + 1
    BY <1>3
<1>11. Goes(SubSeq(prog, v + 1, Len(prog)), f[v + 1], Done)
    BY <1>2, <1>3, <1>10, RunsFrom DEF Goes
<1>12. f[v + 1] \in Mark /\ Marks(n, prog[v], f[v + 1])
    BY <1>4, <1>9, <1>10
<1> QED
    BY <1>1, <1>5, <1>6, <1>9, <1>11, <1>12 DEF n

LEMMA UnavailableGoes ==
    ASSUME IInv, Looks, Unavailable
    PROVE  /\ \E m, n \in Mark : Holds(m) /\ m.own = "none" /\ Alike(m, n) /\ Goes(prog', n, Done)
           /\ \E p : Goto(p)
<1>1. PICK m, n, c \in Mark : \E v \in 2 .. Len(prog) :
               /\ Holds(m) /\ m.own = "none" /\ n = [m EXCEPT !.check = TRUE]
               /\ prog[v] \in Verdicts /\ NoneBefore(prog, v, Verdicts)
               /\ Marks(n, prog[v], c) /\ Goes(SubSeq(prog, v + 1, Len(prog)), c, Done)
    BY VerdictComes
<1>2. PICK v \in 2 .. Len(prog) :
               /\ Holds(m) /\ m.own = "none" /\ n = [m EXCEPT !.check = TRUE]
               /\ prog[v] \in Verdicts /\ NoneBefore(prog, v, Verdicts)
               /\ Marks(n, prog[v], c) /\ Goes(SubSeq(prog, v + 1, Len(prog)), c, Done)
    BY <1>1
<1>3. prog \in Seq(Instruction)
    BY First DEF Looks
<1> DEFINE IsVerdict(k) == /\ prog[k].op \in {"available", "complete"}
                           /\ \A j \in 1 .. k - 1 : prog[j].op \notin {"available", "complete"}
           w == CHOOSE k \in DOMAIN prog : IsVerdict(k)
<1>4. v \in DOMAIN prog /\ v \in Nat /\ DOMAIN prog = 1 .. Len(prog) /\ Len(prog) \in Nat
    BY <1>3
<1>5. \A j \in DOMAIN prog : prog[j] \in Verdicts <=> prog[j].op \in {"available", "complete"}
    BY <1>3 DEF Verdicts
<1>6. IsVerdict(v)
    <2>1. \A j \in 1 .. v - 1 : j \in DOMAIN prog
        BY <1>4
    <2> QED
        BY <1>2, <1>4, <1>5, <2>1 DEF NoneBefore
<1>7. w \in DOMAIN prog /\ IsVerdict(w)
    <2> HIDE DEF IsVerdict
    <2> QED
        BY <1>4, <1>6
<1>8. w = v
    <2>1. ~(w < v) /\ ~(v < w)
        <3> HIDE DEF w
        <3>1. w < v => w \in 1 .. v - 1
            BY <1>4, <1>7
        <3>2. v < w => v \in 1 .. w - 1
            BY <1>4, <1>7
        <3> QED
            BY <1>6, <1>7, <3>1, <3>2
    <2>2. w \in Nat /\ v \in Nat
        BY <1>4, <1>7
    <2> HIDE DEF w
    <2> QED
        BY <2>1, <2>2
<1>9. Goto(With(prog[v].op, FALSE) \o SubSeq(prog, v + 1, Len(prog)))
    <2>1. Goto(With(prog[w].op, FALSE) \o SubSeq(prog, w + 1, Len(prog)))
        BY DEF Unavailable
    <2> HIDE DEF w
    <2> QED
        BY <1>8, <2>1
<1>10. prog[v].op \in {"available", "complete"} /\ [op |-> prog[v].op, to |-> FALSE] \in Instruction
    BY <1>2 DEF Verdicts, Instruction
<1>11. Marks(n, [op |-> prog[v].op, to |-> FALSE], c)
    <2>1. prog[v].op \in {"available", "complete"} /\ Marks(n, prog[v], c)
        BY <1>2, <1>10
    <2> QED
        BY <2>1 DEF Marks, Quiet
<1>12. Goes(With(prog[v].op, FALSE), n, c)
    BY <1>10, <1>11, WithGoes
<1>13. Goes(prog', n, Done)
    BY <1>2, <1>9, <1>12, Joined DEF Goto
<1>14. Alike(m, n)
    BY <1>2 DEF Alike, Mark
<1> QED
    BY <1>2, <1>9, <1>13, <1>14

LEMMA UnavailableSteps ==
    ASSUME IInv, Looks, Unavailable, Calm
    PROVE  IInv'
<1>1. PICK m, n \in Mark : Holds(m) /\ Alike(m, n) /\ Goes(prog', n, Done)
    BY UnavailableGoes
<1>2. PICK p : Goto(p)
    BY UnavailableGoes
<1>3. Running
    BY DEF Looks
<1> QED
    BY <1>1, <1>2, <1>3, CalmStep

-----------------------------------------------------------------------------
(* Keepers *)

LEMMA Pushed ==
    ASSUME NEW S, NEW q \in Seq(S), NEW x \in S
    PROVE  /\ Append(q, x) \in Seq(S) /\ Append(q, x) # <<>> /\ Len(Append(q, x)) = Len(q) + 1
           /\ q = <<>> => Append(q, x)[1] = x
           /\ q # <<>> => Append(q, x)[1] = q[1]
<1>1. /\ Append(q, x) \in Seq(S) /\ Len(Append(q, x)) = Len(q) + 1
      /\ Append(q, x)[Len(q) + 1] = x /\ \A i \in 1 .. Len(q) : Append(q, x)[i] = q[i]
    BY AppendProperties
<1>2. Append(q, x) # <<>>
    BY AppendProperties
<1>3. q = <<>> => Append(q, x)[1] = x
    OBVIOUS
<1>4. q # <<>> => 1 \in 1 .. Len(q)
    OBVIOUS
<1> QED
    BY <1>1, <1>2, <1>3, <1>4

LEMMA Popped ==
    ASSUME NEW S, NEW q \in Seq(S), q # <<>>
    PROVE  /\ SubSeq(q, 1, Len(q) - 1) \in Seq(S) /\ q[Len(q)] \in S /\ q[1] \in S
           /\ Len(SubSeq(q, 1, Len(q) - 1)) = Len(q) - 1
           /\ SubSeq(q, 1, Len(q) - 1) = <<>> => q[Len(q)] = q[1]
           /\ SubSeq(q, 1, Len(q) - 1) # <<>> => SubSeq(q, 1, Len(q) - 1)[1] = q[1]
<1> DEFINE r == SubSeq(q, 1, Len(q) - 1)
<1>1. Len(q) \in Nat \ {0}
    BY EmptySeq
<1>2. PICK n \in Nat : n = Len(q) - 1 /\ Len(q) = n + 1
    BY <1>1
<1>3. q[1] \in S /\ q[Len(q)] \in S
    BY <1>1
<1>4. r \in Seq(S) /\ Len(r) = n /\ \A i \in 1 .. n : r[i] = q[i]
    <2>1. r = SubSeq(q, 1, n)
        BY <1>2
    <2> QED
        BY <1>2, <2>1
<1> HIDE DEF r
<1>5. r = <<>> => Len(q) = 1
    <2>1. r = <<>> => n = 0
        BY <1>4, EmptySeq
    <2>2. n = 0 => n + 1 = 1
        OBVIOUS
    <2> QED
        BY <1>2, <2>1, <2>2
<1>6. r # <<>> => 1 \in 1 .. n
    BY <1>4, EmptySeq
<1> QED
    BY <1>2, <1>3, <1>4, <1>5, <1>6 DEF r

LEMMA AdvanceGoesTo == Advance => Goto(<<>> \o Tail(prog))
BY DEF Advance, Continue

LEMMA KeeperSteps ==
    ASSUME IInv, PutState \/ KeepState \/ DropState
    PROVE  IInv'
<1>1. /\ Running /\ Advance /\ Head(prog).op \in {"put", "keep", "drop"}
      /\ UNCHANGED <<members, others, ghosts>>
    BY DEF PutState, KeepState, DropState, At
<1>2. PICK m, n \in Mark : Holds(m) /\ Marks(m, Head(prog), n) /\ Goes(Tail(prog), n, Done)
    BY <1>1, First
<1>3. Goes(prog', n, Done)
    BY <1>1, <1>2, Advanced
<1>4. UNCHANGED <<saveRaw, trimmer, runTrimming, injection, recording, ppt, told,
                  posted, nfaults, left, alone, unsure>>
    BY <1>1 DEF members, others, ghosts
<1>5. TypeOK /\ frames \in Seq(DeviceState) /\ state \in DeviceState
      /\ m.depth = Len(frames) /\ m.depth \in 0 .. 2
    BY <1>2, Typed DEF IInv, Holds, KeepersHold, Mark
<1>6. ASSUME state' \in DeviceState, frames' \in Seq(DeviceState), Len(frames') \in 0 .. 2,
             KeepersHold(n)', m.forget = n.forget, m.record = n.record, m.raw = n.raw, m.own = n.own
      PROVE  IInv'
    <2>1. TypeOK'
        BY <1>1, <1>4, <1>5, <1>6, AdvanceGoesTo, Typed, TypedAgain
    <2>2. Holds(n)'
        BY <1>2, <1>4, <1>6 DEF Holds, MeasuresHold, ModeHolds
    <2> QED
        BY <1>3, <2>1, <2>2 DEF IInv
<1>7. CASE PutState
    <2>1. Head(prog).op = "put" /\ state' = Arg /\ frames' = frames
        BY <1>7 DEF PutState, At
    <2>2. Arg \in DeviceState
        BY <1>1, <2>1, First, Args DEF Arg
    <2>3. \/ m.depth > 0 /\ n = m
          \/ m.depth = 0 /\ Arg = "OFF" /\ n = [m EXCEPT !.begin = FALSE]
        BY <1>2, <2>1 DEF Marks, Quiet, Arg
    <2>4. n.depth = m.depth /\ (n.begin => m.begin) /\ m.forget = n.forget /\ m.record = n.record
          /\ m.raw = n.raw /\ m.own = n.own
        BY <2>3 DEF Mark
    <2>5. frames = <<>> => state' = "OFF"
        BY <1>5, <2>1, <2>3
    <2>6. KeepersHold(n)'
        BY <1>2, <1>4, <2>1, <2>4, <2>5 DEF Holds, KeepersHold, Resting
    <2>7. Len(frames') \in 0 .. 2
        BY <1>5, <2>1, Typed
    <2> QED
        BY <1>5, <1>6, <2>1, <2>2, <2>4, <2>6, <2>7
<1>8. CASE KeepState
    <2>1. Head(prog).op = "keep" /\ state' = "CHANGING" /\ frames' = Append(frames, state)
        BY <1>8 DEF KeepState, At
    <2>2. ~m.begin /\ m.depth < 2 /\ n = [m EXCEPT !.depth = m.depth + 1]
        BY <1>2, <2>1 DEF Marks, Quiet
    <2>3. n.depth = m.depth + 1 /\ ~n.begin /\ m.forget = n.forget /\ m.record = n.record
          /\ m.raw = n.raw /\ m.own = n.own
        BY <2>2 DEF Mark
    <2>4. /\ frames' \in Seq(DeviceState) /\ frames' # <<>> /\ Len(frames') = Len(frames) + 1
          /\ frames = <<>> => frames'[1] = state
          /\ frames # <<>> => frames'[1] = frames[1]
        BY <1>5, <2>1, Pushed
    <2>5. KeepersHold(n)'
        BY <1>2, <1>4, <2>2, <2>3, <2>4 DEF Holds, KeepersHold, Resting
    <2>6. Len(frames') \in 0 .. 2
        <3>1. Len(frames') = m.depth + 1 /\ m.depth + 1 \in 0 .. 2
            BY <1>5, <2>2, <2>4
        <3> QED
            BY <3>1
    <2> QED
        BY <1>6, <2>1, <2>3, <2>4, <2>5, <2>6 DEF DeviceState
<1>9. CASE DropState
    <2>1. /\ Head(prog).op = "drop" /\ state' = frames[Len(frames)]
          /\ frames' = SubSeq(frames, 1, Len(frames) - 1)
        BY <1>9 DEF DropState, At
    <2>2. m.depth > 0 /\ n = [m EXCEPT !.depth = m.depth - 1]
        BY <1>2, <2>1 DEF Marks, Quiet
    <2>3. n.depth = m.depth - 1 /\ n.begin = m.begin /\ m.forget = n.forget /\ m.record = n.record
          /\ m.raw = n.raw /\ m.own = n.own
        BY <2>2 DEF Mark
    <2>4. frames # <<>>
        BY <1>5, <2>2
    <2>5. /\ frames' \in Seq(DeviceState) /\ state' \in DeviceState /\ Len(frames') = Len(frames) - 1
          /\ frames' = <<>> => state' = frames[1]
          /\ frames' # <<>> => frames'[1] = frames[1]
        BY <1>5, <2>1, <2>4, Popped
    <2>6. ~m.begin
        BY <1>2, <2>2 DEF Holds, KeepersHold
    <2>7. KeepersHold(n)'
        <3>1. Resting(frames[1])
            BY <1>2, <2>4 DEF Holds, KeepersHold
        <3> QED
            BY <1>4, <1>5, <2>3, <2>5, <2>6, <3>1 DEF KeepersHold, Resting
    <2>8. Len(frames') \in 0 .. 2
        <3>1. Len(frames') = m.depth - 1 /\ m.depth - 1 \in 0 .. 2
            BY <1>5, <2>2, <2>5
        <3> QED
            BY <3>1
    <2> QED
        BY <1>6, <2>3, <2>5, <2>7, <2>8
<1> QED
    BY <1>7, <1>8, <1>9

-----------------------------------------------------------------------------
(* Measurements *)

\* The state and the keepers are left alone.
LEMMA KeepersAlone ==
    ASSUME NEW m \in Mark, NEW n \in Mark, KeepersHold(m), m.depth = n.depth, m.begin = n.begin,
           UNCHANGED <<state, frames>>, "begin" \in left => "begin" \in left'
    PROVE  KeepersHold(n)'
BY DEF KeepersHold, Resting

LEMMA ModeAlone ==
    ASSUME NEW m \in Mark, NEW n \in Mark, ModeHolds(m), m.own = n.own,
           UNCHANGED <<injection, ppt, told, unsure>>
    PROVE  ModeHolds(n)'
BY DEF ModeHolds

LEMMA RecordSteps ==
    ASSUME IInv, Record \/ AcquireData
    PROVE  IInv'
<1>1. /\ Running /\ Advance /\ Head(prog).op \in {"record", "acquire"}
      /\ UNCHANGED <<state, frames, members, ppt, told, posted, nfaults, alone, unsure>>
      /\ Head(prog).op = "record" => recording' = (recording \/ saveRaw) /\ left' = left
      /\ Head(prog).op = "acquire" =>
             /\ recording' = (recording /\ ~saveRaw)
             /\ left' = IF saveRaw THEN left \ {"recording"} ELSE left
    BY DEF Record, AcquireData, At, ghosts
<1>2. PICK m, n \in Mark : Holds(m) /\ Marks(m, Head(prog), n) /\ Goes(Tail(prog), n, Done)
    BY <1>1, First
<1>3. Goes(prog', n, Done)
    BY <1>1, <1>2, Advanced
<1>4. UNCHANGED <<state, frames, saveRaw, trimmer, runTrimming, injection, ppt, told,
                  posted, nfaults, alone, unsure>>
    BY <1>1 DEF members
<1>5. n \in {[m EXCEPT !.record = TRUE], [m EXCEPT !.record = FALSE]}
      /\ (Head(prog).op = "record" => n = [m EXCEPT !.record = TRUE])
    BY <1>1, <1>2 DEF Marks, Quiet
<1>6. /\ n.depth = m.depth /\ n.begin = m.begin /\ n.forget = m.forget /\ n.raw = m.raw /\ n.own = m.own
      /\ Head(prog).op = "record" => n.record
    BY <1>5 DEF Mark
<1>7. TypeOK'
    <2>1. TypeOK
        BY DEF IInv
    <2>2. recording' \in BOOLEAN /\ left' \subseteq Leavings
        BY <1>1, <2>1, Typed
    <2> QED
        BY <1>1, <1>4, <2>1, <2>2, AdvanceGoesTo, Typed, TypedAgain
<1>8. KeepersHold(n)' /\ ModeHolds(n)'
    BY <1>1, <1>2, <1>4, <1>6, KeepersAlone, ModeAlone DEF Holds
<1>9. MeasuresHold(n)'
    BY <1>1, <1>2, <1>4, <1>6 DEF Holds, MeasuresHold
<1> QED
    BY <1>3, <1>7, <1>8, <1>9 DEF IInv, Holds

LEMMA RawSteps ==
    ASSUME IInv, InitRaw \/ FinishRaw
    PROVE  IInv'
<1>1. /\ Running /\ Head(prog).op \in {"initRaw", "finishRaw"} /\ (Advance \/ Continue(Use))
      /\ UNCHANGED <<state, frames, trimmer, runTrimming, injection, others, nfaults, alone, unsure>>
    BY DEF InitRaw, FinishRaw, At, ghosts
<1>2. PICK m, n \in Mark : Holds(m) /\ Marks(m, Head(prog), n) /\ Goes(Tail(prog), n, Done)
    BY <1>1, First
<1>3. /\ ~m.record /\ m.own = "none"
      /\ Head(prog).op = "initRaw" => n = [m EXCEPT !.raw = TRUE]
      /\ Head(prog).op = "finishRaw" => n = [m EXCEPT !.raw = FALSE]
    BY <1>1, <1>2 DEF Marks, Quiet
<1>4. /\ n.depth = m.depth /\ n.begin = m.begin /\ n.forget = m.forget /\ n.record = m.record /\ n.own = m.own
      /\ Head(prog).op = "initRaw" => n.raw
    BY <1>1, <1>3 DEF Mark
<1>5. Goes(prog', n, Done)
    <2>1. n \in Still
        BY <1>3, <1>4 DEF Still
    <2>2. Goes(Use, n, n)
        BY <2>1, UseKeeps DEF Keeps
    <2> QED
        BY <1>1, <1>2, <2>2, Advanced, Continued
<1>6. UNCHANGED <<state, frames, trimmer, runTrimming, injection, recording, ppt, told,
                  posted, nfaults, alone, unsure>>
    BY <1>1 DEF others
<1>7. TypeOK
    BY DEF IInv
<1>8. /\ saveRaw' \in BOOLEAN /\ left' \subseteq Leavings
      /\ left' \ {"raw"} = left \ {"raw"}
      /\ saveRaw' /\ "raw" \notin left' => Head(prog).op = "initRaw"
      /\ UNCHANGED <<trimmer, recording>>
    <2>1. CASE InitRaw
        <3>1. /\ saveRaw' \in {TRUE, FALSE, saveRaw} /\ left' \in {left, left \ {"raw"}}
              /\ Head(prog).op = "initRaw"
            BY <2>1 DEF InitRaw, At
        <3> QED
            BY <1>6, <1>7, <3>1, Typed
    <2>2. CASE FinishRaw
        <3>1. \/ saveRaw' = FALSE /\ left' = left \ {"raw"}
              \/ saveRaw' = saveRaw /\ left' = left \cup {w \in {"raw"} : saveRaw}
            BY <2>2 DEF FinishRaw, LeftEarly
        <3>2. left' \in {left \ {"raw"}, left \cup {w \in {"raw"} : saveRaw}}
              /\ left \subseteq Leavings
            BY <1>7, <3>1, Typed
        <3>3. left' \subseteq Leavings /\ left' \ {"raw"} = left \ {"raw"}
            BY <3>2 DEF Leavings
        <3>4. saveRaw' \in BOOLEAN /\ (saveRaw' => "raw" \in left')
            <4>1. saveRaw \in BOOLEAN
                BY <1>7, Typed
            <4>2. saveRaw' = saveRaw /\ left' = left \cup {w \in {"raw"} : saveRaw}
                      => (saveRaw' => "raw" \in left')
                OBVIOUS
            <4> QED
                BY <3>1, <4>1, <4>2
        <3> QED
            BY <1>6, <3>3, <3>4
    <2> QED
        BY <2>1, <2>2
<1>9. TypeOK'
    <2>1. \E p : Goto(p)
        BY <1>1, AdvanceGoesTo DEF Continue
    <2> QED
        BY <1>1, <1>6, <1>7, <1>8, <2>1, Typed, TypedAgain
<1>10. KeepersHold(n)' /\ ModeHolds(n)'
    <2>1. "begin" \in left => "begin" \in left'
        BY <1>8
    <2> QED
        BY <2>1, <1>2, <1>4, <1>6, <1>8, KeepersAlone, ModeAlone DEF Holds
<1>11. MeasuresHold(n)'
    <2>1. /\ "trimmer" \notin left' => "trimmer" \notin left
          /\ "recording" \notin left' => "recording" \notin left
        BY <1>8
    <2>2. recording' /\ "recording" \notin left' => FALSE
        BY <1>2, <1>3, <1>8, <2>1 DEF Holds, MeasuresHold
    <2> QED
        BY <1>2, <1>4, <1>8, <2>1, <2>2 DEF Holds, MeasuresHold
<1> QED
    BY <1>5, <1>9, <1>10, <1>11 DEF IInv, Holds

LEMMA TrimmerSteps ==
    ASSUME IInv, NewTrimmer \/ GoodRange \/ Forget
    PROVE  IInv'
<1>1. /\ Running /\ Advance /\ Head(prog).op \in {"newTrimmer", "range", "forget"}
      /\ UNCHANGED <<state, frames, saveRaw, injection, others, nfaults, alone, unsure>>
      /\ left' = IF Head(prog).op = "range" THEN left \ {"trimmer"} ELSE left
      /\ trimmer' \in BOOLEAN \cup {trimmer} /\ runTrimming' \in BOOLEAN \cup {runTrimming}
      /\ Head(prog).op = "newTrimmer" => trimmer' = trimmer
      /\ Head(prog).op = "forget" => ~trimmer'
    BY DEF NewTrimmer, GoodRange, Forget, At, ghosts
<1>2. PICK m, n \in Mark : Holds(m) /\ Marks(m, Head(prog), n) /\ Goes(Tail(prog), n, Done)
    BY <1>1, First
<1>3. Goes(prog', n, Done)
    BY <1>1, <1>2, Advanced
<1>4. UNCHANGED <<state, frames, saveRaw, injection, recording, ppt, told,
                  posted, nfaults, alone, unsure>>
    BY <1>1 DEF others
<1>5. /\ Head(prog).op = "newTrimmer" => n = m
      /\ Head(prog).op = "range" => n = [m EXCEPT !.forget = TRUE]
      /\ Head(prog).op = "forget" => n = [m EXCEPT !.forget = FALSE]
    BY <1>1, <1>2 DEF Marks, Quiet
<1>6. /\ n.depth = m.depth /\ n.begin = m.begin /\ n.record = m.record /\ n.raw = m.raw /\ n.own = m.own
      /\ Head(prog).op = "range" => n.forget
      /\ Head(prog).op = "newTrimmer" => n.forget = m.forget
    BY <1>1, <1>5 DEF Mark
<1>7. TypeOK'
    <2>1. TypeOK
        BY DEF IInv
    <2>2. trimmer' \in BOOLEAN /\ runTrimming' \in BOOLEAN /\ left' \subseteq Leavings
        BY <1>1, <2>1, Typed
    <2> QED
        BY <1>1, <1>4, <2>1, <2>2, AdvanceGoesTo, Typed, TypedAgain
<1>8. KeepersHold(n)' /\ ModeHolds(n)'
    BY <1>1, <1>2, <1>4, <1>6, KeepersAlone, ModeAlone DEF Holds
<1>9. MeasuresHold(n)'
    BY <1>1, <1>2, <1>4, <1>6 DEF Holds, MeasuresHold
<1> QED
    BY <1>3, <1>7, <1>8, <1>9 DEF IInv, Holds

-----------------------------------------------------------------------------
(* The PPT and the injection mode *)

\* What a step holds that changes neither the scopes nor a measurement.
LEMMA MeasuresAlone ==
    ASSUME NEW m \in Mark, NEW n \in Mark, MeasuresHold(m), m.forget = n.forget, m.record = n.record,
           m.raw = n.raw, UNCHANGED <<saveRaw, trimmer, recording, left>>
    PROVE  MeasuresHold(n)'
BY DEF MeasuresHold

LEMMA CallStep ==
    ASSUME IInv, CallPpt
    PROVE  IInv'
<1>1. /\ Running /\ Advance /\ Head(prog).op = "call" /\ ppt \in Accepts(Arg) /\ ppt' \in Ends(Arg)
      /\ Arg = "initSystem" => posted < Tries
      /\ posted' = IF Arg = "initSystem" THEN posted + 1 ELSE posted
      /\ UNCHANGED <<state, frames, members, recording, told, ghosts>>
    BY DEF CallPpt, At
<1>2. PICK m, n \in Mark : Holds(m) /\ Marks(m, Head(prog), n) /\ Goes(Tail(prog), n, Done)
    BY <1>1, First
<1>3. Goes(prog', n, Done) /\ n = m
    BY <1>1, <1>2, Advanced DEF Marks, Quiet
<1>4. UNCHANGED <<state, frames, saveRaw, trimmer, runTrimming, injection, recording, told,
                  nfaults, left, alone, unsure>>
    BY <1>1 DEF members, ghosts
<1>5. TypeOK
    BY DEF IInv
<1>6. ppt # "gone" /\ ppt' \in PptState
    <2>1. Arg \in Function
        BY <1>1, First, Args DEF Arg
    <2>2. ppt # "gone"
        BY <1>1, <2>1 DEF Accepts, Function
    <2>3. Ends(Arg) \subseteq PptState
        BY <1>5, <2>1, Typed DEF Ends, Function, PptState
    <2> QED
        BY <1>1, <2>2, <2>3
<1>7. posted' \in 0 .. Tries
    <2>1. posted \in 0 .. Tries /\ Tries \in Nat
        BY <1>5, Typed, TrimAssumption
    <2> QED
        BY <1>1, <2>1
<1>8. TypeOK'
    BY <1>1, <1>4, <1>5, <1>6, <1>7, AdvanceGoesTo, Typed, TypedAgain
<1>9. KeepersHold(m)' /\ MeasuresHold(m)'
    BY <1>2, <1>4, KeepersAlone, MeasuresAlone DEF Holds
<1>10. ModeHolds(m)'
    BY <1>2, <1>4, <1>6 DEF Holds, ModeHolds
<1> QED
    BY <1>3, <1>8, <1>9, <1>10 DEF IInv, Holds

\* A PPT in place of another, or a new interface: the modes agree or are known
\* to be parted.
LEMMA ModeAnew ==
    ASSUME TypeOK, NEW m \in Mark, NEW n \in Mark, ModeHolds(m), m.own = n.own, Anew,
           m.own # "none" => At("own"), left' = left, injection' = injection
    PROVE  ModeHolds(n)' /\ told' \in InjectionMode /\ unsure' \in BOOLEAN
<1>1. told' = "NORM" /\ (unsure' <=> injection # "NORM" \/ At("own")) /\ unsure' \in BOOLEAN
    BY DEF Anew, At, Running
<1> QED
    BY <1>1 DEF ModeHolds, InjectionMode

LEMMA NewInstanceStep ==
    ASSUME IInv, NewInstance
    PROVE  IInv'
<1>1. /\ Looks /\ Running /\ Head(prog).op = "instance"
      /\ UNCHANGED <<state, frames, members, recording, posted, nfaults, left, alone>>
      /\ \/ ppt' \in {"OFF", "UNKNOWN", "ERROR"} /\ Anew /\ Advance
         \/ Unavailable /\ UNCHANGED <<ppt, told, unsure>>
    BY DEF NewInstance, At, Looks
<1>2. CASE Unavailable /\ UNCHANGED <<ppt, told, unsure>>
    BY <1>1, <1>2, UnavailableSteps DEF Calm, others, ghosts
<1>3. CASE ppt' \in {"OFF", "UNKNOWN", "ERROR"} /\ Anew /\ Advance
    <2>1. PICK m, n \in Mark : Holds(m) /\ Marks(m, Head(prog), n) /\ Goes(Tail(prog), n, Done)
        BY <1>1, First
    <2>2. Goes(prog', n, Done) /\ n = [m EXCEPT !.check = TRUE] /\ m.own = "none"
        BY <1>1, <1>3, <2>1, Advanced DEF Marks, Quiet
    <2>3. Alike(m, n)
        BY <2>2 DEF Alike, Mark
    <2>4. UNCHANGED <<state, frames, saveRaw, trimmer, runTrimming, injection, recording,
                      posted, nfaults, left, alone>>
        BY <1>1 DEF members
    <2>5. TypeOK
        BY DEF IInv
    <2>6. ModeHolds(n)' /\ told' \in InjectionMode /\ unsure' \in BOOLEAN
        BY <1>3, <2>1, <2>2, <2>3, <2>4, <2>5, ModeAnew DEF Holds, Alike
    <2>7. ppt' \in PptState
        BY <1>3 DEF PptState
    <2>8. TypeOK'
        BY <1>1, <1>3, <2>4, <2>5, <2>6, <2>7, AdvanceGoesTo, Typed, TypedAgain
    <2>9. KeepersHold(n)' /\ MeasuresHold(n)'
        BY <2>1, <2>3, <2>4, KeepersAlone, MeasuresAlone DEF Holds, Alike
    <2> QED
        BY <2>2, <2>6, <2>8, <2>9 DEF IInv, Holds
<1> QED
    BY <1>1, <1>2, <1>3

LEMMA LoadStep ==
    ASSUME IInv, Load
    PROVE  IInv'
<1>1. /\ Running /\ Head(prog).op = "load"
      /\ UNCHANGED <<frames, saveRaw, trimmer, runTrimming, others, nfaults, left, alone>>
    BY DEF Load, At
<1>2. PICK m, n \in Mark : Holds(m) /\ Marks(m, Head(prog), n) /\ Goes(Tail(prog), n, Done)
    BY <1>1, First
<1>3. n = m /\ m.own = "none" /\ ~m.forget /\ ~m.record /\ ~m.raw
    BY <1>1, <1>2 DEF Marks, Quiet
<1>4. CASE injection' = "NORM" /\ unsure' = (told # "NORM") /\ Advance /\ state' = state
    <2>1. Goes(prog', m, Done)
        BY <1>2, <1>3, <1>4, Advanced
    <2>2. UNCHANGED <<state, frames, saveRaw, trimmer, runTrimming, recording, ppt, told,
                      posted, nfaults, left, alone>>
        BY <1>1, <1>4 DEF others
    <2>3. TypeOK'
        <3>1. TypeOK /\ injection' \in InjectionMode /\ unsure' \in BOOLEAN
            BY <1>4 DEF IInv, InjectionMode
        <3> QED
            BY <1>1, <1>4, <2>2, <3>1, AdvanceGoesTo, Typed, TypedAgain
    <2>4. KeepersHold(m)' /\ MeasuresHold(m)'
        BY <1>2, <2>2, KeepersAlone, MeasuresAlone DEF Holds
    <2>5. ModeHolds(m)'
        BY <1>3, <1>4, <2>2 DEF ModeHolds
    <2> QED
        BY <2>1, <2>3, <2>4, <2>5 DEF IInv, Holds
<1>5. CASE state' = "ERROR" /\ Leave /\ UNCHANGED <<injection, unsure>>
    BY <1>1, <1>2, <1>3, <1>5, ReturnStep DEF members
<1> QED
    BY <1>4, <1>5 DEF Load

LEMMA ModeSteps ==
    ASSUME IInv, Tell \/ Own
    PROVE  IInv'
<1>1. /\ Running /\ Advance /\ Head(prog).op \in {"tell", "own"}
      /\ UNCHANGED <<state, frames, saveRaw, trimmer, runTrimming, recording, ppt, posted,
                     nfaults, left, alone>>
    BY DEF Tell, Own, At, members, others
<1>2. PICK m, n \in Mark : Holds(m) /\ Marks(m, Head(prog), n) /\ Goes(Tail(prog), n, Done)
    BY <1>1, First
<1>3. Goes(prog', n, Done)
    BY <1>1, <1>2, Advanced
<1>4. Arg \in InjectionMode /\ TypeOK
    BY <1>1, First, Args DEF Arg, IInv
<1>5. /\ Head(prog).op = "tell" => m.own = "none" /\ n = [m EXCEPT !.own = Arg]
      /\ Head(prog).op = "own" => m.own = Arg /\ n = [m EXCEPT !.own = "none"]
    BY <1>1, <1>2 DEF Marks, Quiet, Arg
<1>6. /\ n.depth = m.depth /\ n.begin = m.begin /\ n.forget = m.forget /\ n.record = m.record /\ n.raw = m.raw
      /\ Head(prog).op = "tell" => n.own = Arg
      /\ Head(prog).op = "own" => n.own = "none"
    BY <1>1, <1>5 DEF Mark
<1>7. Arg # "none"
    BY <1>4 DEF InjectionMode
<1>8. injection' \in InjectionMode /\ told' \in InjectionMode /\ unsure' \in BOOLEAN
      /\ ModeHolds(n)'
    <2>1. CASE Tell
        <3>1. /\ Head(prog).op = "tell" /\ injection' = injection
              /\ \/ unsure' = (told # Arg) /\ told' = told
                 \/ told' = Arg /\ unsure' = unsure
            BY <2>1 DEF Tell, At, members
        <3>2. n.own = Arg
            BY <1>6, <3>1
        <3>3. injection' \in InjectionMode /\ told' \in InjectionMode /\ unsure' \in BOOLEAN
            BY <1>4, <3>1, Typed
        <3> QED
            BY <1>4, <1>7, <3>1, <3>2, <3>3 DEF ModeHolds
    <2>2. CASE Own
        <3>1. Head(prog).op = "own" /\ injection' = Arg /\ unsure' = (unsure /\ told # Arg)
              /\ told' = told
            BY <2>2 DEF Own, At, others
        <3>2. n.own = "none" /\ m.own = Arg
            BY <1>5, <1>6, <3>1
        <3>3. injection' \in InjectionMode /\ told' \in InjectionMode /\ unsure' \in BOOLEAN
            BY <1>4, <3>1, Typed
        <3>4. told = Arg \/ unsure
            BY <1>2, <1>7, <3>2 DEF Holds, ModeHolds
        <3>5. left' = left
            BY <1>1
        <3>6. injection' = told' \/ unsure'
            BY <3>1, <3>4, <3>5
        <3> QED
            BY <3>2, <3>3, <3>6 DEF ModeHolds
    <2> QED
        BY <2>1, <2>2
<1>9. TypeOK'
    BY <1>1, <1>4, <1>8, AdvanceGoesTo, Typed, TypedAgain
<1>10. KeepersHold(n)' /\ MeasuresHold(n)'
    BY <1>1, <1>2, <1>6, KeepersAlone, MeasuresAlone DEF Holds
<1> QED
    BY <1>3, <1>8, <1>9, <1>10 DEF IInv, Holds

-----------------------------------------------------------------------------
(* Clients and the PPT of itself *)

\* Between the two instructions that change the mode there are no others.
LEMMA OwnComes ==
    ASSUME IInv, NEW m \in Mark, Goes(prog, m, Done), m.own # "none"
    PROVE  At("own")
<1>1. prog # <<>>
    <2>1. Done.own = "none"
        BY DEF Done, Depth, Level
    <2> QED
        BY <2>1, RunsNowhere DEF Goes
<1>2. PICK n \in Mark : <<m, Head(prog), n>> \in Moves
    BY <1>1, RunsOn DEF Goes
<1>3. Head(prog) \in Instruction
    BY <1>1, RunsOn DEF Goes
<1>4. Marks(m, Head(prog), n)
    BY <1>2, <1>3, Move
<1>5. Head(prog).op = "own"
    BY <1>4 DEF Marks
<1> QED
    BY <1>1, <1>5 DEF At, Running

LEMMA SlotStep ==
    ASSUME IInv, NEW s \in Slots, CallSlot(s)
    PROVE  IInv'
<1>1. /\ prog = <<>> /\ prog' = Body(s) /\ doing' = IF Body(s) = <<>> THEN "none" ELSE s
      /\ UNCHANGED <<state, frames, saveRaw, trimmer, runTrimming, injection, recording, ppt, told,
                     posted, nfaults, left, unsure>>
      /\ alone' \in BOOLEAN
    BY DEF CallSlot, Running, members, others
<1>2. s \in Slot /\ s # "none"
    BY TrimAssumption DEF Slot, ProgramSlots, FileSlots, MeasureSlots, TrimSlots, Tags
<1>3. PICK m \in Mark : Goes(prog, m, Done) /\ Holds(m)
    BY DEF IInv
<1>4. m = Done
    BY <1>1, <1>3, RunsNowhere DEF Goes
<1>5. Goes(prog', m, Done)
    BY <1>1, <1>2, <1>4, Bodies
<1>6. TypeOK'
    <2>1. doing' \in Slot \cup {"none", "initialization"} /\ (doing' = "none" <=> prog' = <<>>)
        BY <1>1, <1>2
    <2>2. members' = members /\ alone' \in BOOLEAN
        BY <1>1 DEF members
    <2> QED
        BY <1>1, <2>1, <2>2 DEF IInv, TypeOK
<1>7. Holds(m)'
    BY <1>1, <1>3 DEF Holds, KeepersHold, MeasuresHold, ModeHolds, Resting
<1> QED
    BY <1>5, <1>6, <1>7 DEF IInv

LEMMA StopStep ==
    ASSUME IInv, StopTrimming
    PROVE  IInv'
<1>1. /\ runTrimming' = FALSE /\ state' = "STOPPING"
      /\ UNCHANGED <<doing, prog, frames, saveRaw, trimmer, injection, recording, ppt, told, posted,
                     nfaults, left, alone, unsure>>
    BY DEF StopTrimming, slot, others, ghosts
<1>2. PICK m \in Mark : Goes(prog, m, Done) /\ Holds(m)
    BY DEF IInv
<1>3. TypeOK'
    <2>1. TypeOK
        BY DEF IInv
    <2>2. members' \in BOOLEAN \X BOOLEAN \X BOOLEAN \X InjectionMode
        BY <1>1, <2>1, Typed DEF members
    <2>3. state' \in DeviceState
        BY <1>1 DEF DeviceState
    <2> QED
        BY <1>1, <2>1, <2>2, <2>3 DEF TypeOK
<1>4. Goes(prog', m, Done)
    BY <1>1, <1>2
<1>5. Holds(m)'
    BY <1>1, <1>2 DEF Holds, KeepersHold, MeasuresHold, ModeHolds, Resting
<1> QED
    BY <1>3, <1>4, <1>5 DEF IInv

LEMMA PptMoves ==
    ASSUME IInv, Ppt \/ PptMeddles
    PROVE  IInv'
<1>1. UNCHANGED <<state, doing, prog, frames, saveRaw, trimmer, runTrimming, injection, recording, left>>
    BY DEF Ppt, TaskBegins, TaskEnds, PptMeddles, slot, members
<1>2. PICK m \in Mark : Goes(prog, m, Done) /\ Holds(m)
    BY DEF IInv
<1>3. TypeOK
    BY DEF IInv
<1>4. Goes(prog', m, Done)
    BY <1>1, <1>2
<1>5. KeepersHold(m)' /\ MeasuresHold(m)'
    BY <1>1, <1>2, KeepersAlone, MeasuresAlone DEF Holds
<1>6. alone' \in BOOLEAN
    BY DEF Ppt, TaskBegins, TaskEnds, PptMeddles, Moved
<1>7. ASSUME ppt' \in PptState, told' \in InjectionMode, unsure' \in BOOLEAN, posted' \in 0 .. Tries,
             nfaults' \in 0 .. MaxFaults, ModeHolds(m)'
      PROVE  IInv'
    <2>1. members' = members
        BY <1>1 DEF members
    <2>2. TypeOK'
        BY <1>1, <1>3, <1>6, <1>7, <2>1 DEF TypeOK
    <2> QED
        BY <1>4, <1>5, <1>7, <2>2 DEF IInv, Holds
<1>8. CASE Ppt
    <2>1. /\ ppt # "gone" /\ ppt' \in {"CHANGING", "ON"}
          /\ posted' = posted \/ (posted' = posted - 1 /\ posted > 0)
          /\ UNCHANGED <<told, unsure, nfaults>>
        BY <1>8 DEF Ppt, TaskBegins, TaskEnds
    <2>2. posted' \in 0 .. Tries
        <3>1. posted \in 0 .. Tries /\ Tries \in Nat
            BY <1>3, Typed, TrimAssumption
        <3> QED
            BY <2>1, <3>1
    <2>3. ModeHolds(m)'
        BY <1>1, <1>2, <2>1 DEF Holds, ModeHolds
    <2>4. ppt' \in PptState /\ told' \in InjectionMode /\ unsure' \in BOOLEAN
          /\ nfaults' \in 0 .. MaxFaults
        BY <1>3, <2>1, Typed DEF PptState
    <2> QED
        BY <1>7, <2>2, <2>3, <2>4
<1>9. CASE PptMeddles
    <2>1. /\ nfaults < MaxFaults /\ nfaults' = nfaults + 1 /\ ppt' \in PptState
          /\ IF "gone" \in {ppt, ppt'} THEN Anew /\ posted' = 0 ELSE UNCHANGED <<told, unsure, posted>>
        BY <1>9 DEF PptMeddles
    <2>2. nfaults' \in 0 .. MaxFaults
        <3>1. nfaults \in 0 .. MaxFaults /\ MaxFaults \in Nat
            BY <1>3, Typed, TrimAssumption
        <3> QED
            BY <2>1, <3>1
    <2>3. CASE Anew /\ posted' = 0
        <3>1. posted' \in 0 .. Tries
            BY <2>3, TrimAssumption
        <3>2. ModeHolds(m)' /\ told' \in InjectionMode /\ unsure' \in BOOLEAN
            BY <1>1, <1>2, <1>3, <2>3, OwnComes, ModeAnew DEF Holds
        <3> QED
            BY <1>7, <2>1, <2>2, <3>1, <3>2
    <2>4. CASE ppt # "gone" /\ UNCHANGED <<told, unsure, posted>>
        <3>1. ModeHolds(m)'
            BY <1>1, <1>2, <2>4 DEF Holds, ModeHolds
        <3>2. told' \in InjectionMode /\ unsure' \in BOOLEAN /\ posted' \in 0 .. Tries
            BY <1>3, <2>4, Typed
        <3> QED
            BY <1>7, <2>1, <2>2, <3>1, <3>2
    <2> QED
        BY <2>1, <2>3, <2>4
<1> QED
    BY <1>8, <1>9

-----------------------------------------------------------------------------
(* The invariant *)

LEMMA StepInv ==
    ASSUME IInv, Step
    PROVE  IInv'
<1>1. CASE PutState \/ KeepState \/ DropState
    BY <1>1, KeeperSteps
<1>2. CASE UseRemote \/ TrimEnds \/ Instance
    BY <1>2, LookSteps
<1>3. CASE RemoteThrows \/ ToldInVain \/ PptRefuses
    BY <1>3, ThrowSteps
<1>4. CASE Require
    BY <1>4, LookSteps, ReturnSteps DEF Require, Calm
<1>5. CASE Record \/ AcquireData
    BY <1>5, RecordSteps
<1>6. CASE InitRaw \/ FinishRaw
    BY <1>6, RawSteps
<1>7. CASE NewTrimmer \/ GoodRange \/ Forget
    BY <1>7, TrimmerSteps
<1>8. CASE BadRange
    BY <1>8, ReturnSteps
<1>9. CASE TrimSetting
    BY <1>9, TrimStep
<1>10. CASE Triggers \/ Changing \/ IfPpt
    BY <1>10, PptSteps
<1>11. CASE Exists \/ Fill
    BY <1>11, IdleSteps
<1>12. CASE CallPpt
    BY <1>12, CallStep
<1>13. CASE NewInstance
    BY <1>13, NewInstanceStep
<1>14. CASE Acquires \/ Receivers
    <2>1. Looks /\ Calm /\ Running /\ Head(prog).op \in {"acquires", "receivers"} /\ (Advance \/ Unavailable)
        BY <1>14 DEF Acquires, Receivers, At, Looks, Calm
    <2> QED
        BY <2>1, LookSteps, UnavailableSteps
<1>15. CASE Verdict
    BY <1>15, VerdictStep, ReturnSteps
<1>16. CASE Load
    BY <1>16, LoadStep
<1>17. CASE Inject
    BY <1>17, InjectStep
<1>18. CASE Tell \/ Own
    BY <1>18, ModeSteps
<1> QED
    BY <1>1, <1>2, <1>3, <1>4, <1>5, <1>6, <1>7, <1>8, <1>9, <1>10, <1>11, <1>12, <1>13, <1>14,
       <1>15, <1>16, <1>17, <1>18 DEF Step

LEMMA InitInv == Init => IInv
<1> SUFFICES ASSUME Init PROVE IInv
    OBVIOUS
<1> DEFINE m == [Done EXCEPT !.begin = TRUE]
<1>1. m \in Base /\ m \in Mark /\ ~m.forget /\ ~m.raw /\ ~m.record /\ m.depth = 0 /\ m.own = "none"
      /\ m.begin /\ ~m.check
    <2>1. Done \in Base /\ Done \in Mark /\ 0 \in 0 .. 2
        BY Depths DEF Done
    <2>2. ~Done.forget /\ ~Done.raw /\ ~Done.record /\ Done.depth = 0 /\ Done.own = "none"
          /\ ~Done.check
        BY DEF Done, Depth, Level
    <2>3. /\ m \in Mark /\ m.forget = Done.forget /\ m.raw = Done.raw /\ m.record = Done.record
          /\ m.depth = Done.depth /\ m.own = Done.own /\ m.check = Done.check /\ m.begin
        BY <2>1 DEF Mark
    <2> HIDE DEF m
    <2> QED
        BY <2>2, <2>3 DEF Base, Still
<1>2. Done \in Mark /\ Done = [m EXCEPT !.begin = FALSE]
    <2>1. Done \in Mark /\ Done.begin = FALSE
        BY Depths DEF Done, Depth, Level
    <2> QED
        BY <2>1 DEF Mark
<1> HIDE DEF m
<1>3. Goes(Put("OFF"), m, Done)
    <2>1. [op |-> "put", to |-> "OFF"] \in Instruction
        BY DEF Instruction, DeviceState
    <2>2. Marks(m, [op |-> "put", to |-> "OFF"], Done)
        BY <1>1, <1>2 DEF Marks
    <2> QED
        BY <1>1, <1>2, <2>1, <2>2, WithGoes DEF Put
<1>4. Goes(prog, m, Done)
    BY <1>1, <1>3, LoadsGo DEF Init
<1>5. frames = <<>> /\ Len(frames) = 0 /\ frames \in Seq(DeviceState) /\ Len(frames) <= 2
    BY EmptySeq DEF Init
<1>6. prog # <<>>
    <2>1. m # Done
        BY <1>1 DEF Done, Depth, Level
    <2> QED
        BY <1>4, <2>1, RunsNowhere DEF Goes
<1>7. TypeOK
    <2>1. doing \in Slot \cup {"none", "initialization"} /\ (doing = "none" <=> prog = <<>>)
        BY <1>6 DEF Init
    <2>2. members \in BOOLEAN \X BOOLEAN \X BOOLEAN \X InjectionMode
        BY DEF Init, members, InjectionMode
    <2>3. posted \in 0 .. Tries /\ nfaults \in 0 .. MaxFaults
        BY TrimAssumption DEF Init
    <2> QED
        BY <1>5, <2>1, <2>2, <2>3 DEF Init, TypeOK, DeviceState, PptState, InjectionMode
<1>8. Holds(m)
    BY <1>1, <1>5 DEF Init, Holds, KeepersHold, MeasuresHold, ModeHolds
<1> QED
    BY <1>1, <1>4, <1>7, <1>8 DEF IInv

LEMMA NextInv == IInv /\ [Next]_vars => IInv'
<1> SUFFICES ASSUME IInv, [Next]_vars PROVE IInv'
    OBVIOUS
<1>1. CASE Step
    BY <1>1, StepInv
<1>2. CASE Ppt \/ PptMeddles
    BY <1>2, PptMoves
<1>3. CASE StopTrimming
    BY <1>3, StopStep
<1>4. CASE \E s \in Slots : CallSlot(s)
    BY <1>4, SlotStep
<1>5. CASE UNCHANGED vars
    <2>1. UNCHANGED <<state, doing, prog, frames, saveRaw, trimmer, runTrimming, injection, recording, ppt,
                      told, posted, nfaults, left, alone, unsure>>
        BY <1>5 DEF vars, slot, members, others, ghosts
    <2>2. PICK m \in Mark : Goes(prog, m, Done) /\ Holds(m)
        BY DEF IInv
    <2>3. Holds(m)' /\ Goes(prog', m, Done)
        BY <2>1, <2>2 DEF Holds, KeepersHold, MeasuresHold, ModeHolds, Resting
    <2>4. TypeOK'
        BY <2>1 DEF IInv, TypeOK, members
    <2> QED
        BY <2>3, <2>4 DEF IInv
<1> QED
    BY <1>1, <1>2, <1>3, <1>4, <1>5 DEF Next

-----------------------------------------------------------------------------
(* The theorems *)

\* Every variable holds what TypeOK says, for any slots and bounds.
THEOREM TypeInvariant == Spec => []TypeOK
<1>1. IInv => TypeOK
    BY DEF IInv
<1> QED
    BY <1>1, InitInv, NextInv, PTL DEF Spec

\* However slots end, by return, exception or abort, their keepers put back
\* what they found (StateChangeKeeper).
THEOREM Returns == Spec => []StateReturns
<1>1. IInv => StateReturns
    <2> SUFFICES ASSUME IInv, ~Running
                 PROVE  frames = <<>> /\ Resting(state)
        BY DEF StateReturns, Resting
    <2>1. PICK m \in Mark : Goes(prog, m, Done) /\ Holds(m)
        BY DEF IInv
    <2>2. m = Done /\ Done.depth = 0 /\ ~Done.begin
        BY <2>1, RunsNowhere DEF Goes, Running, Done, Depth, Level
    <2>3. frames = <<>>
        <3>1. frames \in Seq(DeviceState)
            BY Typed DEF IInv
        <3>2. Len(frames) = 0
            BY <2>1, <2>2 DEF Holds, KeepersHold
        <3> QED
            BY <3>1, <3>2, EmptySeq
    <2> QED
        BY <2>1, <2>2, <2>3 DEF Holds, KeepersHold
<1> QED
    BY <1>1, InitInv, NextInv, PTL DEF Spec

\* What only the instruction `name` ends is ended by one that is to come.
LEMMA EndComes ==
    ASSUME NEW m \in Mark, Goes(prog, m, Done), NEW Z, m \in Z, Done \notin Z, NEW name,
           Leads(Instruction, Mark, Moves, Z, {i \in Instruction : i.op = name})
    PROVE  \E i \in DOMAIN prog : prog[i].op = name
<1> DEFINE K == {i \in Instruction : i.op = name}
<1>1. PICK f \in [1 .. Len(prog) + 1 -> Mark] : Marking(Mark, Moves, prog, m, Done, f)
    BY DEF Goes, Runs
<1>2. prog \in Seq(Instruction) /\ Len(prog) \in Nat /\ DOMAIN prog = 1 .. Len(prog)
    BY DEF Goes
<1>3. 1 \in 1 .. Len(prog) + 1 /\ f[1] \in Z
    BY <1>1, <1>2 DEF Marking
<1>4. NoneBefore(prog, 1, K)
    BY DEF NoneBefore
<1>5. \A i \in K : i.op = name
    OBVIOUS
<1>6. Leads(Instruction, Mark, Moves, Z, K)
    OBVIOUS
<1> HIDE DEF K
<1>7. PICK k \in 1 .. Len(prog) : prog[k] \in K /\ f[k] \in Z /\ NoneBefore(prog, k, K)
    BY <1>1, <1>2, <1>3, <1>4, <1>6, RunsUntil
<1> QED
    BY <1>2, <1>5, <1>7

\* stopTrimming finds a trimmer that is in scope (m_currentTrimmer).
THEOREM InScope == Spec => []TrimmerInScope
<1>1. IInv => TrimmerInScope
    <2> SUFFICES ASSUME IInv, trimmer, "trimmer" \notin left
                 PROVE  \E i \in DOMAIN prog : prog[i].op = "forget"
        BY DEF TrimmerInScope
    <2>1. PICK m \in Mark : Goes(prog, m, Done) /\ Holds(m)
        BY DEF IInv
    <2> DEFINE Z == {x \in Mark : x.forget}
    <2>2. m \in Z /\ Done \notin Z
        BY <2>1 DEF Holds, MeasuresHold, Done, Depth, Level
    <2>3. Leads(Instruction, Mark, Moves, Z, {i \in Instruction : i.op = "forget"})
        <3> SUFFICES ASSUME NEW x \in Mark, NEW y \in Mark, NEW i \in Instruction, <<x, i, y>> \in Moves,
                            x.forget, i.op # "forget"
                     PROVE  y.forget
            BY DEF Leads
        <3>1. Marks(x, i, y)
            BY Move
        <3> QED
            BY <3>1 DEF Marks, Mark
    <2> HIDE DEF Z
    <2> QED
        BY <2>1, <2>2, <2>3, EndComes
<1> QED
    BY <1>1, InitInv, NextInv, PTL DEF Spec

\* Recording ends with the measurement, and raw data are wanted by nobody after
\* a slot that was not left early (saveToHDF5, m_saveRawData).
THEOREM RawEnds == Spec => []RawDataEnds
<1>1. IInv => RawDataEnds
    <2> SUFFICES ASSUME IInv PROVE RawDataEnds
        OBVIOUS
    <2>1. PICK m \in Mark : Goes(prog, m, Done) /\ Holds(m)
        BY DEF IInv
    <2>2. ASSUME recording, "recording" \notin left
          PROVE  \E i \in DOMAIN prog : prog[i].op = "acquire"
        <3> DEFINE Z == {x \in Mark : x.record}
        <3>1. m \in Z /\ Done \notin Z
            BY <2>1, <2>2 DEF Holds, MeasuresHold, Done, Depth, Level
        <3>2. Leads(Instruction, Mark, Moves, Z, {i \in Instruction : i.op = "acquire"})
            <4> SUFFICES ASSUME NEW x \in Mark, NEW y \in Mark, NEW i \in Instruction, <<x, i, y>> \in Moves,
                                x.record, i.op # "acquire"
                         PROVE  y.record
                BY DEF Leads
            <4>1. Marks(x, i, y)
                BY Move
            <4> QED
                BY <4>1 DEF Marks, Mark
        <3> HIDE DEF Z
        <3> QED
            BY <2>1, <3>1, <3>2, EndComes
    <2>3. ~Running /\ saveRaw => "raw" \in left
        <3>1. ~Done.raw
            BY DEF Done, Depth, Level
        <3> QED
            BY <2>1, <3>1, RunsNowhere DEF Goes, Running, Holds, MeasuresHold
    <2> QED
        BY <2>2, <2>3 DEF RawDataEnds
<1> QED
    BY <1>1, InitInv, NextInv, PTL DEF Spec

\* The device and the PPT agree on the injection mode wherever the device takes
\* them to (setActiveInjectionMode).
THEOREM Told == Spec => []InjectionTold
<1>1. IInv => InjectionTold
    <2> SUFFICES ASSUME IInv, ppt # "gone", injection # told, ~At("own")
                 PROVE  unsure
        BY DEF InjectionTold
    <2>1. PICK m \in Mark : Goes(prog, m, Done) /\ Holds(m)
        BY DEF IInv
    <2>2. m.own = "none"
        BY <2>1, OwnComes
    <2> QED
        BY <2>1, <2>2 DEF Holds, ModeHolds
<1> QED
    BY <1>1, InitInv, NextInv, PTL DEF Spec

-----------------------------------------------------------------------------
(* The PPT is started again.  While the number of frames is changed, nobody     *)
(* else moves the PPT and no remote call fails, a mark says what its state is   *)
(* not.                                                                         *)

FramesProgram == RunContinuousMode(FALSE) \o Use \o RunContinuousMode(TRUE)

Wait == {"any", "notOn", "notStarted", "neither"}

IsNot(m) == CASE m = "any" -> {} [] m = "notOn" -> {"ON"} [] m = "notStarted" -> {"STARTED"}
              [] m = "neither" -> {"ON", "STARTED"}

\* The mark where a slot of the PPT is called: if that is refused, the PPT is not
\* in a state in which it is stopped.
Ready(f) == CASE f \in {"initSystem", "runStandAlone", "fillSramAndReadout"} -> "notStarted"
              [] f \in {"startAcquisition", "stopStandalone"} -> "notOn"
              [] f \in {"open", "stopAcquisition"} -> "neither"

\* The call is one for the state it is made in.
Fits(from, f) == from \in {"ON", "STARTED"} => from \in Accepts(f)

Loop == [from : PptState, call : Function, times : Nat \ {0}]

\* What a loop makes of the state.
LoopBrings(from, f, m, n) ==
    /\ Fits(from, f)
    /\ \/ m = "any" /\ n = "any"
       \/ from = "ON" /\ f = "runStandAlone" /\ m \in {"any", "notOn"} /\ n = "notOn"
       \/ from = "STARTED" /\ f = "startAcquisition" /\ m \in {"notOn", "neither"} /\ n = "neither"

\* What an instruction makes of it.
Brings(m, i, n) ==
    \/ i.op = "use" /\ n = m
    \/ i.op = "ifPpt" /\ Fits(i.to.is, i.to.call) /\ m = "any" /\ n = "any"
    \/ i.op = "call" /\ m = Ready(i.to) /\ (n = "any" \/ i.to \in {"runStandAlone", "startAcquisition"})
    \/ i.op = "trigger" /\ LoopBrings(i.to.from, i.to.call, m, n)
    \/ i.op = "changing" /\ LoopBrings(i.to.from, i.to.call, m, n) /\ m = n
    \/ i.op = "exists" /\ i.to = FramesProgram /\ m = "any" /\ n = "neither"

WaitMoves == {x \in Wait \X Instruction \X Wait : Brings(x[1], x[2], x[3])}

Waits(p, m, n) == p \in Seq(Instruction) /\ Runs(Wait, WaitMoves, p, m, n)

FramesInv ==
    alone => frames = <<>> /\ \E m \in Wait : Waits(prog, m, "neither") /\ ppt \notin IsNot(m)

LEMMA Readiness ==
    ASSUME NEW f \in Function
    PROVE  Ready(f) \in Wait /\ IsNot(Ready(f)) = {"ON", "STARTED"} \ Accepts(f)
BY DEF Function, Ready, Wait, IsNot, Accepts

LEMMA WaitMove ==
    ASSUME NEW m \in Wait, NEW i \in Instruction, NEW n \in Wait
    PROVE  <<m, i, n>> \in WaitMoves <=> Brings(m, i, n)
BY DEF WaitMoves

LEMMA WaitsOne ==
    ASSUME NEW m \in Wait, NEW i \in Instruction, NEW n \in Wait, Brings(m, i, n)
    PROVE  Waits(<<i>>, m, n)
<1>1. <<m, i, n>> \in WaitMoves
    BY WaitMove
<1> QED
    BY <1>1, RunsOne DEF Waits

LEMMA WaitsNothing ==
    ASSUME NEW m \in Wait PROVE Waits(<<>>, m, m)
BY RunsNothing DEF Waits

LEMMA WaitsBoth ==
    ASSUME NEW p, NEW q, NEW a, NEW b, NEW c, Waits(p, a, b), Waits(q, b, c)
    PROVE  Waits(p \o q, a, c)
<1>1. p \in Seq(Instruction) /\ q \in Seq(Instruction)
    BY DEF Waits
<1>2. p \o q \in Seq(Instruction)
    BY <1>1, ConcatProperties
<1>3. Runs(Wait, WaitMoves, p \o q, a, c)
    BY <1>1, RunsBoth DEF Waits
<1> QED
    BY <1>2, <1>3 DEF Waits

LEMMA WaitsCall ==
    ASSUME NEW f \in Function, NEW n \in Wait, n = "any" \/ f \in {"runStandAlone", "startAcquisition"}
    PROVE  Waits(Call(f), Ready(f), n)
<1>1. [op |-> "call", to |-> f] \in Instruction
    BY DEF Instruction, Inner
<1>2. Brings(Ready(f), [op |-> "call", to |-> f], n)
    BY DEF Brings
<1> QED
    BY <1>1, <1>2, Readiness, WaitsOne DEF Call, With

LEMMA WaitsTrigger ==
    ASSUME NEW from \in PptState, NEW f \in Function, NEW times \in Nat \ {0},
           NEW m \in Wait, NEW n \in Wait, LoopBrings(from, f, m, n)
    PROVE  Waits(Trigger(from, f, times), m, n)
<1> DEFINE to == [from |-> from, call |-> f, times |-> times]
<1>1. to \in Loop /\ to.from = from /\ to.call = f
    BY DEF Loop
<1> HIDE DEF to
<1>2. [op |-> "trigger", to |-> to] \in Instruction
    BY <1>1 DEF Instruction, Inner, Loop
<1>3. Brings(m, [op |-> "trigger", to |-> to], n)
    BY <1>1 DEF Brings
<1> QED
    BY <1>2, <1>3, WaitsOne DEF Trigger, With, to

LEMMA WaitsChanging ==
    ASSUME NEW to \in Loop, NEW m \in Wait, LoopBrings(to.from, to.call, m, m)
    PROVE  Waits(With("changing", to), m, m)
<1>1. [op |-> "changing", to |-> to] \in Instruction
    BY DEF Instruction, Inner, Loop
<1>2. Brings(m, [op |-> "changing", to |-> to], m)
    BY DEF Brings
<1> QED
    BY <1>1, <1>2, WaitsOne DEF With

LEMMA WaitsUse == \A m \in Wait : Waits(Use, m, m)
<1> TAKE m \in Wait
<1>1. [op |-> "use"] \in Instruction /\ Brings(m, [op |-> "use"], m)
    BY DEF Instruction, Inner, Brings
<1> QED
    BY <1>1, WaitsOne DEF Use, Op

LEMMA FramesWait ==
    /\ Waits(FramesProgram, "any", "neither")
    /\ Waits(Reconfigure("numFramesToReceive"), "any", "neither")
<1>0. /\ "any" \in Wait /\ "notOn" \in Wait /\ "neither" \in Wait
      /\ LoopBrings("ERROR", "open", "any", "any") /\ LoopBrings("UNKNOWN", "open", "any", "any")
      /\ LoopBrings("OFF", "initSystem", "any", "any") /\ LoopBrings("ON", "runStandAlone", "any", "notOn")
      /\ LoopBrings("STARTED", "startAcquisition", "notOn", "neither")
    BY DEF Wait, LoopBrings, Fits, Accepts
<1>1. Waits(StopPpt, "any", "any")
    <2>1. ASSUME NEW is \in PptState, NEW f \in Function, Fits(is, f)
          PROVE  Waits(With("ifPpt", [is |-> is, call |-> f]), "any", "any")
        <3> DEFINE to == [is |-> is, call |-> f]
        <3>1. to \in [is : PptState, call : Function] /\ to.is = is /\ to.call = f
            OBVIOUS
        <3> HIDE DEF to
        <3>2. [op |-> "ifPpt", to |-> to] \in Instruction
              /\ Brings("any", [op |-> "ifPpt", to |-> to], "any")
            BY <2>1, <3>1 DEF Instruction, Inner, Brings
        <3> QED
            BY <1>0, <3>2, WaitsOne DEF With, to
    <2>2. Waits(With("ifPpt", [is |-> "ACQUIRING", call |-> "stopAcquisition"]), "any", "any")
        BY <2>1 DEF PptState, Function, Fits
    <2>3. Waits(With("ifPpt", [is |-> "STARTED", call |-> "stopStandalone"]), "any", "any")
        BY <2>1 DEF PptState, Function, Fits, Accepts
    <2> QED
        BY <2>2, <2>3, WaitsBoth DEF StopPpt
<1>2. Waits(StartPptDevice, "any", "neither")
    <2>1. Waits(Trigger("ERROR", "open", 1), "any", "any")
        BY <1>0, WaitsTrigger DEF PptState, Function
    <2>2. Waits(Trigger("UNKNOWN", "open", 1), "any", "any")
        BY <1>0, WaitsTrigger DEF PptState, Function
    <2>3. Waits(Trigger("OFF", "initSystem", Tries), "any", "any")
        BY <1>0, TrimAssumption, WaitsTrigger DEF PptState, Function
    <2>4. Waits(Trigger("ON", "runStandAlone", Tries), "any", "notOn")
        BY <1>0, TrimAssumption, WaitsTrigger DEF PptState, Function
    <2>5. Waits(Trigger("STARTED", "startAcquisition", Tries), "notOn", "neither")
        BY <1>0, TrimAssumption, WaitsTrigger DEF PptState, Function
    <2>6. Waits((Trigger("ERROR", "open", 1) \o Trigger("UNKNOWN", "open", 1))
                    \o Trigger("OFF", "initSystem", Tries), "any", "any")
        BY <2>1, <2>2, <2>3, WaitsBoth
    <2>7. Waits(((Trigger("ERROR", "open", 1) \o Trigger("UNKNOWN", "open", 1))
                    \o Trigger("OFF", "initSystem", Tries)) \o Trigger("ON", "runStandAlone", Tries),
                "any", "notOn")
        BY <2>4, <2>6, WaitsBoth
    <2> QED
        BY <2>5, <2>7, WaitsBoth DEF StartPptDevice
<1>3. Waits(FramesProgram, "any", "neither")
    <2>1. Waits(RunContinuousMode(FALSE) \o Use, "any", "any")
        BY <1>0, <1>1, WaitsUse, WaitsBoth DEF RunContinuousMode
    <2>2. RunContinuousMode(TRUE) = StartPptDevice
        BY DEF RunContinuousMode
    <2> QED
        BY <1>2, <2>1, <2>2, WaitsBoth DEF FramesProgram
<1>4. Waits(With("exists", FramesProgram), "any", "neither")
    <2>1. FramesProgram \in Seq(Inner)
        <3>1. \A p, q \in Seq(Inner) : p \o q \in Seq(Inner)
            BY ConcatProperties
        <3> QED
            BY <3>1, RunKeeps, InnerPieces DEF FramesProgram
    <2>2. [op |-> "exists", to |-> FramesProgram] \in Instruction
        BY <2>1 DEF Instruction
    <2>3. Brings("any", [op |-> "exists", to |-> FramesProgram], "neither")
        BY DEF Brings
    <2> QED
        BY <1>0, <2>2, <2>3, WaitsOne DEF With
<1>5. Reconfigure("numFramesToReceive") = With("exists", FramesProgram) \o Use
    BY DEF Reconfigure, FramesProgram
<1> QED
    BY <1>0, <1>3, <1>4, <1>5, WaitsUse, WaitsBoth

LEMMA LeftEmpty ==
    ASSUME frames = <<>>, Leave
    PROVE  prog' = <<>> /\ doing' = "none"
<1> DEFINE p == [i \in 1 .. 0 |-> Op("drop")[1]]
<1>1. p \in Seq({Op("drop")[1]}) /\ Len(p) = 0
    OBVIOUS
<1>2. p = <<>>
    <2> HIDE DEF p
    <2> QED
        BY <1>1, EmptySeq
<1>3. DOMAIN frames = 1 .. 0
    OBVIOUS
<1> QED
    BY <1>2, <1>3 DEF Leave, Goto

LEMMA WaitsContinued ==
    ASSUME NEW m \in Wait, NEW n \in Wait, NEW k \in Wait, NEW before, Waits(before, k, n),
           Waits(Tail(prog), n, "neither"), Continue(before), frames' = <<>>, ppt' \notin IsNot(k)
    PROVE  FramesInv'
<1>1. Waits(before \o Tail(prog), k, "neither")
    BY WaitsBoth
<1>2. Waits(prog', k, "neither")
    BY <1>1 DEF Continue, Goto
<1> QED
    BY <1>2 DEF FramesInv

LEMMA FramesStep ==
    ASSUME IInv, FramesInv, Step
    PROVE  FramesInv'
<1> SUFFICES ASSUME alone' PROVE FramesInv'
    BY DEF FramesInv
<1>1. Running /\ alone
    <2>1. CASE PutState \/ KeepState \/ DropState \/ UseRemote \/ RemoteThrows \/ ToldInVain \/ Require
        BY <2>1
           DEF PutState, KeepState, DropState, UseRemote, RemoteThrows, ToldInVain, Fails, Remote,
                    Require, At, ghosts
    <2>2. CASE Record \/ AcquireData \/ InitRaw \/ FinishRaw \/ NewTrimmer \/ GoodRange \/ BadRange
        BY <2>2
           DEF Record, AcquireData, InitRaw, FinishRaw, NewTrimmer, GoodRange, BadRange, At, ghosts
    <2>3. CASE TrimSetting \/ TrimEnds \/ Forget \/ Triggers \/ Changing \/ IfPpt \/ Exists \/ CallPpt
               \/ PptRefuses
        BY <2>3
           DEF TrimSetting, TrimEnds, Forget, Triggers, Changing, IfPpt, Exists, CallPpt, PptRefuses,
                    At, ghosts
    <2>4. CASE Instance \/ NewInstance \/ Acquires \/ Receivers \/ Verdict
        BY <2>4 DEF Instance, NewInstance, Acquires, Receivers, Verdict, At, ghosts
    <2>5. CASE Load \/ Inject \/ Tell \/ Own \/ Fill
        BY <2>5 DEF Load, Inject, Tell, Own, Fill, At, ghosts
    <2> QED
        BY <2>1, <2>2, <2>3, <2>4, <2>5 DEF Step
<1>2. PICK m \in Wait : Waits(prog, m, "neither") /\ ppt \notin IsNot(m) /\ frames = <<>>
    BY <1>1 DEF FramesInv
<1>3. /\ Head(prog) \in Instruction /\ Tail(prog) \in Seq(Instruction)
      /\ \E n \in Wait : <<m, Head(prog), n>> \in WaitMoves /\ Runs(Wait, WaitMoves, Tail(prog), n, "neither")
    BY <1>1, <1>2, RunsOn DEF Waits, Running
<1>4. PICK n \in Wait : Brings(m, Head(prog), n) /\ Waits(Tail(prog), n, "neither")
    BY <1>3, WaitMove DEF Waits
<1>5. Head(prog).op \in {"use", "ifPpt", "call", "trigger", "changing", "exists"}
    BY <1>4 DEF Brings
<1>6. UseRemote \/ Triggers \/ Changing \/ IfPpt \/ Exists \/ CallPpt \/ PptRefuses
    <2>1. ~(PutState \/ KeepState \/ DropState \/ Require \/ Record \/ AcquireData \/ InitRaw \/ FinishRaw)
        BY <1>5
           DEF PutState, KeepState, DropState, Require, Record, AcquireData, InitRaw, FinishRaw, At
    <2>2. ~(NewTrimmer \/ GoodRange \/ BadRange \/ TrimSetting \/ TrimEnds \/ Forget)
        BY <1>5 DEF NewTrimmer, GoodRange, BadRange, TrimSetting, TrimEnds, Forget, At
    <2>3. ~(Instance \/ NewInstance \/ Acquires \/ Receivers \/ Verdict)
        BY <1>5 DEF Instance, NewInstance, Acquires, Receivers, Verdict, At
    <2>4. ~(Load \/ Inject \/ Tell \/ Own \/ Fill)
        BY <1>5 DEF Load, Inject, Tell, Own, Fill, At
    <2>5. ~(RemoteThrows \/ ToldInVain)
        BY DEF RemoteThrows, ToldInVain, Fails
    <2> QED
        BY <2>1, <2>2, <2>3, <2>4, <2>5 DEF Step
<1>7. /\ "any" \in Wait /\ "notOn" \in Wait /\ "neither" \in Wait
      /\ \A k \in Wait : IsNot(k) \subseteq {"ON", "STARTED"}
    BY DEF Wait, IsNot
<1>8. CASE PptRefuses
    <2>1. Leave /\ frames' = frames /\ ppt' = ppt /\ Head(prog).op = "call"
          /\ ppt \notin Accepts(Arg)
        BY <1>8 DEF PptRefuses, Throws, At
    <2>2. prog' = <<>>
        BY <1>2, <2>1, LeftEmpty
    <2>3. Arg \in Function /\ m = Ready(Arg)
        BY <1>3, <1>4, <2>1, Args DEF Brings, Arg
    <2>4. ppt' \notin IsNot("neither")
        BY <1>2, <2>1, <2>3, Readiness DEF IsNot
    <2> QED
        BY <1>2, <1>7, <2>1, <2>2, <2>4, WaitsNothing DEF FramesInv
<1>9. CASE UseRemote
    <2>1. Continue(<<>>) /\ n = m /\ UNCHANGED <<frames, ppt>>
        BY <1>4, <1>9 DEF UseRemote, At, Advance, Brings, others
    <2> QED
        BY <1>2, <1>4, <2>1, WaitsNothing, WaitsContinued
<1>10. CASE IfPpt
    <2>1. /\ Continue(IF Seen = Arg.is THEN Call(Arg.call) ELSE <<>>) /\ UNCHANGED <<frames, ppt>>
          /\ Head(prog).op = "ifPpt"
        BY <1>10 DEF IfPpt, At, others
    <2>2. m = "any" /\ n = "any" /\ Fits(Arg.is, Arg.call)
        BY <1>4, <2>1 DEF Brings, Arg
    <2>3. Arg.call \in Function
        <3>1. Arg \in [is : PptState, call : Function]
            BY <1>3, <2>1, Args DEF Arg
        <3> QED
            BY <3>1
    <2>4. CASE Seen = Arg.is
        <3>1. ppt \in {"ON", "STARTED"} => ppt \in Accepts(Arg.call)
            BY <2>2, <2>4 DEF Seen, Fits
        <3>2. ppt' \notin IsNot(Ready(Arg.call))
            BY <2>1, <2>3, <3>1, Readiness
        <3>3. Waits(Call(Arg.call), Ready(Arg.call), n)
            BY <2>2, <2>3, WaitsCall
        <3> QED
            BY <1>2, <1>4, <2>1, <2>3, <2>4, <3>2, <3>3, Readiness, WaitsContinued
    <2>5. CASE Seen # Arg.is
        BY <1>2, <1>4, <2>1, <2>2, <2>5, WaitsNothing, WaitsContinued
    <2> QED
        BY <2>4, <2>5
<1>11. CASE Exists
    <2>1. /\ Continue(IF ppt = "gone" THEN <<>> ELSE Arg) /\ UNCHANGED <<frames, ppt>>
          /\ Head(prog).op = "exists"
        BY <1>11 DEF Exists, At, others
    <2>2. Arg = FramesProgram /\ m = "any" /\ n = "neither"
        BY <1>4, <2>1 DEF Brings, Arg
    <2>3. CASE ppt = "gone"
        <3>1. ppt' \notin IsNot(n)
            BY <2>1, <2>2, <2>3 DEF IsNot
        <3> QED
            BY <1>2, <1>4, <2>1, <2>3, <3>1, WaitsNothing, WaitsContinued
    <2>4. CASE ppt # "gone"
        BY <1>2, <1>4, <2>1, <2>2, <2>4, FramesWait, WaitsContinued
    <2> QED
        BY <2>3, <2>4
<1>12. CASE CallPpt
    <2>1. /\ Continue(<<>>) /\ frames' = frames /\ ppt' \in Ends(Arg) /\ Head(prog).op = "call"
        BY <1>12 DEF CallPpt, At, Advance
    <2>2. n = "any" \/ Arg \in {"runStandAlone", "startAcquisition"}
        BY <1>4, <2>1 DEF Brings, Arg
    <2>3. Arg \in {"runStandAlone", "startAcquisition"} => ppt' = "ACQUIRING"
        BY <2>1 DEF Ends
    <2>4. ppt' \notin IsNot(n)
        BY <1>7, <2>2, <2>3 DEF IsNot
    <2> QED
        BY <1>2, <1>4, <2>1, <2>4, WaitsNothing, WaitsContinued
<1>13. CASE Triggers \/ Changing
    <2>1. Head(prog).op \in {"trigger", "changing"} /\ UNCHANGED <<frames, ppt>>
        BY <1>13 DEF Triggers, Changing, At, others
    <2>2. Arg \in Loop
        BY <1>3, <2>1, Args DEF Arg, Loop
    <2>3. Arg.from \in PptState /\ Arg.call \in Function /\ Arg.times \in Nat \ {0}
        BY <2>2 DEF Loop
    <2>4. /\ LoopBrings(Arg.from, Arg.call, m, n)
          /\ Head(prog).op = "changing" => m = n
        BY <1>4, <2>1 DEF Brings, Arg
    <2>5. LoopBrings(Arg.from, Arg.call, n, n)
        BY <2>4 DEF LoopBrings
    <2> DEFINE again == IF Arg.times = 1 THEN <<>> ELSE Trigger(Arg.from, Arg.call, OneLess(Arg.times))
    <2>6. Waits(again, n, n)
        <3>1. CASE Arg.times = 1
            BY <3>1, WaitsNothing
        <3>2. CASE Arg.times # 1
            <4>1. Arg.times - 1 \in Nat \ {0}
                BY <2>3, <3>2
            <4>2. Waits(Trigger(Arg.from, Arg.call, OneLess(Arg.times)), n, n)
                BY <2>3, <2>5, <4>1, WaitsTrigger DEF OneLess
            <4> QED
                BY <3>2, <4>2
        <3> QED
            BY <3>1, <3>2
    <2>7. Again = Call(Arg.call) \o again
        BY DEF Again
    <2> HIDE DEF again
    <2>8. Waits(Again, Ready(Arg.call), n)
        <3>1. n = "any" \/ Arg.call \in {"runStandAlone", "startAcquisition"}
            BY <2>4 DEF LoopBrings
        <3>2. Waits(Call(Arg.call), Ready(Arg.call), n)
            BY <2>3, <3>1, WaitsCall
        <3> QED
            BY <2>6, <2>7, <3>2, WaitsBoth
    <2>9. ASSUME Continue(Again), ppt \in {"ON", "STARTED"} => ppt = Arg.from PROVE FramesInv'
        <3>1. ppt \in {"ON", "STARTED"} => ppt \in Accepts(Arg.call)
            BY <2>4, <2>9 DEF LoopBrings, Fits
        <3>2. ppt' \notin IsNot(Ready(Arg.call))
            BY <2>1, <2>3, <3>1, Readiness
        <3> QED
            BY <1>2, <1>4, <2>1, <2>3, <2>8, <2>9, <3>2, Readiness, WaitsContinued
    <2>10. CASE Triggers /\ Seen = Arg.from
        <3>1. Continue(Again)
            BY <2>10 DEF Triggers
        <3>2. ppt \in {"ON", "STARTED"} => ppt = Arg.from
            BY <2>10 DEF Seen
        <3> QED
            BY <2>9, <3>1, <3>2
    <2>11. CASE Triggers /\ Seen # Arg.from
        <3>1. Continue(With("changing", Arg))
            BY <2>11 DEF Triggers
        <3>2. ppt = Arg.from => Arg.from \notin {"ON", "STARTED"}
            BY <2>11 DEF Seen
        <3>3. ppt' \notin IsNot(n)
            BY <1>2, <2>1, <2>4, <3>2 DEF IsNot, LoopBrings
        <3>4. Waits(With("changing", Arg), n, n)
            BY <2>2, <2>5, WaitsChanging
        <3> QED
            BY <1>2, <1>4, <2>1, <3>1, <3>3, <3>4, WaitsContinued
    <2>12. CASE Changing /\ Seen = "CHANGING"
        <3>1. Continue(Again)
            BY <2>12 DEF Changing
        <3>2. ppt \notin {"ON", "STARTED"}
            BY <2>12 DEF Seen
        <3> QED
            BY <2>9, <3>1, <3>2
    <2>13. CASE Changing /\ Seen # "CHANGING"
        <3>1. Continue(<<>>) /\ m = n
            BY <2>4, <2>13 DEF Changing, At
        <3> QED
            BY <1>2, <1>4, <2>1, <3>1, WaitsNothing, WaitsContinued
    <2> QED
        BY <1>13, <2>10, <2>11, <2>12, <2>13
<1> QED
    BY <1>6, <1>8, <1>9, <1>10, <1>11, <1>12, <1>13

LEMMA FramesNext ==
    ASSUME IInv, FramesInv, [Next]_vars
    PROVE  FramesInv'
<1>1. CASE Step
    BY <1>1, FramesStep
<1>2. CASE Ppt \/ PptMeddles
    <2>1. ~alone'
        BY <1>2 DEF Ppt, TaskBegins, TaskEnds, PptMeddles, Moved
    <2> QED
        BY <2>1 DEF FramesInv
<1>3. CASE StopTrimming \/ UNCHANGED vars
    <2>1. UNCHANGED <<prog, frames, ppt, alone>>
        BY <1>3 DEF StopTrimming, vars, slot, others, ghosts
    <2> QED
        BY <2>1 DEF FramesInv
<1>4. CASE \E s \in Slots : CallSlot(s)
    <2>1. PICK s \in Slots : CallSlot(s)
        BY <1>4
    <2>2. /\ prog = <<>> /\ prog' = Body(s) /\ alone' = (s = "numFramesToReceive")
          /\ UNCHANGED <<frames, ppt>>
        BY <2>1 DEF CallSlot, Running, others
    <2>3. CASE s = "numFramesToReceive"
        <3>1. Body(s) = Reconfigure("numFramesToReceive")
            BY <2>3 DEF Body, ProgramSlots, FileSlots, Tags
        <3>2. frames = <<>>
            <4>1. ~Running
                BY <2>2 DEF Running
            <4>2. PICK m \in Mark : Goes(prog, m, Done) /\ Holds(m)
                BY DEF IInv
            <4>3. m = Done /\ Done.depth = 0
                BY <2>2, <4>2, RunsNowhere DEF Goes, Done, Depth, Level
            <4>4. frames \in Seq(DeviceState) /\ Len(frames) = 0
                BY <4>2, <4>3, Typed DEF IInv, Holds, KeepersHold
            <4> QED
                BY <4>4, EmptySeq
        <3>3. Waits(prog', "any", "neither")
            BY <2>2, <3>1, FramesWait
        <3>4. ppt' \notin IsNot("any") /\ "any" \in Wait
            BY DEF IsNot, Wait
        <3> QED
            BY <2>2, <3>2, <3>3, <3>4 DEF FramesInv
    <2>4. CASE s # "numFramesToReceive"
        BY <2>2, <2>4 DEF FramesInv
    <2> QED
        BY <2>3, <2>4
<1> QED
    BY <1>1, <1>2, <1>3, <1>4 DEF Next

\* A new number of frames does not leave the PPT stopped, however the slot ends,
\* unless somebody else moves it or a remote call fails (setNumFramesToSend,
\* runContinuousMode).
THEOREM StartsAgain == Spec => []AcquiresAgain
<1>1. Init => IInv /\ FramesInv
    BY InitInv DEF Init, FramesInv
<1>2. IInv /\ FramesInv /\ [Next]_vars => IInv' /\ FramesInv'
    BY NextInv, FramesNext
<1>3. IInv /\ FramesInv => AcquiresAgain
    <2> SUFFICES ASSUME FramesInv, alone, ~Running \/ prog = Use
                 PROVE  ppt \notin {"ON", "STARTED"}
        BY DEF AcquiresAgain
    <2>1. PICK m \in Wait : Waits(prog, m, "neither") /\ ppt \notin IsNot(m)
        BY DEF FramesInv
    <2>2. CASE ~Running
        <3>1. m = "neither"
            BY <2>1, <2>2, RunsNowhere DEF Waits, Running
        <3> QED
            BY <2>1, <3>1 DEF IsNot
    <2>3. CASE prog = Use
        <3>1. prog = <<[op |-> "use"]>> /\ prog # <<>> /\ Head(prog) = [op |-> "use"]
              /\ Tail(prog) = <<>>
            BY <2>3 DEF Use, Op
        <3>2. PICK n \in Wait : /\ <<m, Head(prog), n>> \in WaitMoves
                                /\ Runs(Wait, WaitMoves, Tail(prog), n, "neither")
            BY <2>1, <3>1, RunsOn DEF Waits
        <3>3. n = "neither"
            BY <3>1, <3>2, RunsNowhere
        <3>4. [op |-> "use"] \in Instruction
            BY DEF Instruction, Inner
        <3>5. Brings(m, [op |-> "use"], n)
            BY <3>1, <3>2, <3>4, WaitMove
        <3>6. m = "neither"
            BY <3>3, <3>5 DEF Brings
        <3> QED
            BY <2>1, <3>6 DEF IsNot
    <2> QED
        BY <2>2, <2>3
<1> QED
    BY <1>1, <1>2, <1>3, PTL DEF Spec

===============================================================================
