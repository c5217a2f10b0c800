-------------------------- MODULE ConfiguratorProofs --------------------------
(***************************************************************************)
(* Proofs about DsscConfigurator, for any PPTs and configuration files.    *)
(***************************************************************************)
EXTENDS Configurator, TLAPS

\* A PPT named for the lookup is one, and so is the first configuration.
LEMMA Firsts == FirstPpt \in Ppts /\ FirstKnown \in Known
BY ConfiguratorAssumption DEF FirstPpt, FirstKnown

\* The operations of clients are bounded.
LEMMA Counted ==
    /\ 0 \in 0 .. MaxOps
    /\ nops \in 0 .. MaxOps /\ nops < MaxOps => nops + 1 \in 0 .. MaxOps
<1>1. MaxOps \in Nat
    BY ConfiguratorAssumption
<1> QED
    BY <1>1

-----------------------------------------------------------------------------
(* Types *)

\* connect_to_proxies and monitor_configs.
LEMMA LoopType == ASSUME TypeOK, Connect \/ ReleaseLock \/ MonitorStep PROVE TypeOK'
<1> USE DEF TypeOK, Alive
<1>1. CASE Connect
    <2>1. PICK found \in SUBSET Alive :
             /\ ppts' = found
             /\ seen' = [q \in Ppts |-> IF q \in found
                                        THEN [file |-> file[q], init |-> life[q] = "init"]
                                        ELSE seen[q]]
             /\ IF found = Ppts THEN connect' = "sleeping" /\ state' = "ACTIVE"
                ELSE UNCHANGED <<connect, state>>
        BY <1>1 DEF Connect
    <2>2. seen' \in [Ppts -> [file : Files \cup {NoFile}, init : BOOLEAN]]
        BY <2>1
    <2>3. ppts' \subseteq Ppts /\ connect = "trying"
        BY <1>1, <2>1 DEF Connect
    <2>4. UNCHANGED <<target, gains, monitor, tasks, devices, nops, ghosts>>
        BY <1>1 DEF Connect
    <2> QED
        BY <2>1, <2>2, <2>3, <2>4 DEF gains, tasks, devices, ghosts
<1>2. CASE ReleaseLock
    BY <1>2 DEF ReleaseLock, gains, tasks, devices, ghosts
<1>3. ASSUME NEW f \in Known \cup {"different"}, Evaluate(f) PROVE TypeOK'
    BY <1>3 DEF Evaluate, links, tasks, devices, ghosts
<1>4. CASE MonitorDies \/ MonitorTimesOut
    BY <1>4 DEF MonitorDies, MonitorTimesOut, gains, links, tasks, devices, ghosts
<1> QED
    BY <1>1, <1>2, <1>3, <1>4 DEF MonitorStep, MonitorDiffers, MonitorKnows

\* The tasks of apply.
LEMMA ApplyType ==
    ASSUME TypeOK, NEW a \in Applies, Apply(a) \/ ApplyStep(a) PROVE TypeOK'
<1> USE DEF TypeOK, Alive
<1>1. CASE Begin(a)
    <2>1. state' = "CHANGING" /\ failed' \in [Applies -> BOOLEAN]
        BY <1>1 DEF Begin
    <2>2. refused' \in BOOLEAN /\ touched' \in BOOLEAN
        BY <1>1 DEF Begin, Initialising
    <2>3. /\ apply' \in [Applies -> {"idle", "posted", "shutdown", "sleep", "start"}]
          /\ waiting' \in [Applies -> SUBSET Ppts]
          /\ \A b \in Applies : apply'[b] \in {"idle", "posted", "sleep"} => waiting'[b] = {}
        <3>1. CASE Goto(a, "start", Ppts) \/ Goto(a, "shutdown", Alive) \/ Goto(a, "idle", {})
            BY ZenonT(60), <3>1 DEF Goto
        <3> QED
            BY <1>1, <3>1 DEF Begin
    <2>4. dying' \subseteq Alive
        BY <1>1 DEF Begin
    <2>5. UNCHANGED <<target, gains, links, monitor, life, file, nops>>
        BY <1>1 DEF Begin
    <2> QED
        BY <2>1, <2>2, <2>3, <2>4, <2>5 DEF gains, links
<1>6. CASE Apply(a)
    <2>1. nops' \in 0 .. MaxOps
        BY <1>6, Counted DEF Apply
    <2>2. /\ apply' \in [Applies -> {"idle", "posted", "shutdown", "sleep", "start"}]
          /\ waiting' \in [Applies -> SUBSET Ppts]
          /\ \A b \in Applies : apply'[b] \in {"idle", "posted", "sleep"} => waiting'[b] = {}
        BY <1>6 DEF Apply, Goto
    <2>3. UNCHANGED <<state, target, gains, links, monitor, failed, devices, ghosts>>
        BY <1>6 DEF Apply
    <2> QED
        BY <2>1, <2>2, <2>3 DEF gains, links, devices, ghosts
<1>2. ASSUME NEW q \in Ppts, ShutdownTimesOut(a, q) PROVE TypeOK'
    <2>1. waiting' \in [Applies -> SUBSET Ppts] /\ failed' \in [Applies -> BOOLEAN]
        BY <1>2 DEF ShutdownTimesOut, Answered
    <2>2. \A b \in Applies : waiting'[b] \subseteq waiting[b]
        BY <1>2 DEF ShutdownTimesOut, Answered
    <2>3. UNCHANGED <<state, target, gains, links, monitor, apply, devices, nops, ghosts>>
        BY <1>2 DEF ShutdownTimesOut
    <2> QED
        BY <2>1, <2>2, <2>3 DEF gains, links, devices, ghosts
<1>3. ASSUME NEW q \in Ppts, Instantiate(a, q) PROVE TypeOK'
    <2>1. PICK ok \in {life[q] = "down", FALSE} :
             /\ Answered(a, q, ok)
             /\ life' = IF ok THEN [life EXCEPT ![q] = "init"] ELSE life
             /\ file' = IF ok THEN [file EXCEPT ![q] = Default[q]] ELSE file
        BY <1>3 DEF Instantiate
    <2>2. waiting' \in [Applies -> SUBSET Ppts] /\ failed' \in [Applies -> BOOLEAN]
        BY <2>1 DEF Answered
    <2>3. \A b \in Applies : waiting'[b] \subseteq waiting[b]
        BY <2>1 DEF Answered
    <2>4. /\ life' \in [Ppts -> {"down", "init", "up"}]
          /\ file' \in [Ppts -> Files \cup {NoFile}]
          /\ \A p \in Ppts : life[p] # "down" => life'[p] # "down"
        BY <2>1, ConfiguratorAssumption
    <2>5. UNCHANGED <<state, target, gains, links, monitor, apply, dying, nops, ghosts>>
        BY <1>3 DEF Instantiate
    <2> QED
        BY <2>2, <2>3, <2>4, <2>5 DEF gains, links, ghosts
<1>4. CASE AllCompleted(a)
    <2>1. Goto(a, "sleep", {}) \/ Goto(a, "idle", {})
        BY <1>4 DEF AllCompleted
    <2>2. /\ apply' \in [Applies -> {"idle", "posted", "shutdown", "sleep", "start"}]
          /\ waiting' \in [Applies -> SUBSET Ppts]
          /\ \A b \in Applies : apply'[b] \in {"idle", "posted", "sleep"} => waiting'[b] = {}
        BY <2>1 DEF Goto
    <2>3. state' \in {"INIT", "ACTIVE", "CHANGING", "ERROR"}
        BY <1>4 DEF AllCompleted, Outcome
    <2>4. UNCHANGED <<target, gains, links, monitor, failed, devices, nops, ghosts>>
        BY <1>4 DEF AllCompleted
    <2> QED
        BY <2>2, <2>3, <2>4 DEF gains, links, devices, ghosts
<1>5. CASE ApplySlept(a)
    <2>1. /\ apply' \in [Applies -> {"idle", "posted", "shutdown", "sleep", "start"}]
          /\ waiting' \in [Applies -> SUBSET Ppts]
          /\ \A b \in Applies : apply'[b] \in {"idle", "posted", "sleep"} => waiting'[b] = {}
        BY <1>5 DEF ApplySlept, Goto
    <2>2. UNCHANGED <<state, target, gains, links, monitor, failed, devices, nops, ghosts>>
        BY <1>5 DEF ApplySlept
    <2> QED
        BY <2>1, <2>2 DEF gains, links, devices, ghosts
<1> QED
    BY <1>1, <1>2, <1>3, <1>4, <1>5, <1>6 DEF ApplyStep

\* The PPTs, what comes from them, and the clients.
LEMMA PptType ==
    ASSUME TypeOK, NEW q \in Ppts,
           PptStep(q) \/ Deliver(q) \/ SetTarget \/ SetFile(q)
    PROVE  TypeOK'
<1> USE DEF TypeOK, Alive
<1>1. CASE GoDown(q)
    <2>1. waiting' \in [Applies -> SUBSET Ppts]
        BY <1>1 DEF GoDown
    <2>2. \A a \in Applies : waiting'[a] \subseteq waiting[a]
        BY <1>1 DEF GoDown
    <2>3. /\ life' \in [Ppts -> {"down", "init", "up"}]
          /\ dying' \subseteq {p \in Ppts : life'[p] # "down"}
        BY <1>1 DEF GoDown
    <2>4. UNCHANGED <<state, target, gains, links, monitor, apply, failed, file, nops, ghosts>>
        BY <1>1 DEF GoDown
    <2> QED
        BY <2>1, <2>2, <2>3, <2>4 DEF gains, links, ghosts
<1>2. CASE GetConfiguration(q)
    <2>1. file' \in [Ppts -> Files \cup {NoFile}]
        BY <1>2 DEF GetConfiguration, Files
    <2> QED
        BY <1>2, <2>1 DEF GetConfiguration, gains, links, tasks, ghosts
<1>3. CASE Initialised(q)
    <2>1. /\ life' \in [Ppts -> {"down", "init", "up"}]
          /\ \A p \in Ppts : life[p] # "down" => life'[p] # "down"
        BY <1>3 DEF Initialised
    <2> QED
        BY <1>3, <2>1 DEF Initialised, gains, links, tasks, ghosts
<1>4. CASE Deliver(q)
    <2>1. seen' \in [Ppts -> [file : Files \cup {NoFile}, init : BOOLEAN]]
        BY <1>4 DEF Deliver
    <2>2. monitor' \in {"evaluate", monitor}
        BY <1>4 DEF Deliver
    <2> QED
        BY <1>4, <2>1, <2>2 DEF Deliver, gains, tasks, devices, ghosts
<1>5. CASE SetTarget
    <2>1. nops' \in 0 .. MaxOps /\ target' \in Known
        BY <1>5, Counted DEF SetTarget, Operation
    <2>2. touched' \in BOOLEAN
        BY <1>5 DEF SetTarget
    <2> QED
        BY <1>5, <2>1, <2>2 DEF SetTarget, gains, links, tasks, devices
<1>6. CASE SetFile(q)
    <2>1. nops' \in 0 .. MaxOps /\ file' \in [Ppts -> Files \cup {NoFile}]
        BY <1>6, Counted DEF SetFile, Operation, Files
    <2>2. touched' \in BOOLEAN
        BY <1>6 DEF SetFile
    <2> QED
        BY <1>6, <2>1, <2>2 DEF SetFile, gains, links, tasks
<1> QED
    BY <1>1, <1>2, <1>3, <1>4, <1>5, <1>6 DEF PptStep

\* The types; a PPT that is to go is alive.
THEOREM TypeInvariant == Spec => []TypeOK
<1>1. Init => TypeOK
    <2> SUFFICES ASSUME Init PROVE TypeOK
        OBVIOUS
    <2>1. seen \in [Ppts -> [file : Files \cup {NoFile}, init : BOOLEAN]]
        BY DEF Init
    <2>2. file \in [Ppts -> Files \cup {NoFile}] /\ target \in Known
        BY Firsts DEF Init, Files
    <2>3. nops \in 0 .. MaxOps
        BY Counted DEF Init
    <2> QED
        BY <2>1, <2>2, <2>3 DEF Init, TypeOK, Alive
<1>2. TypeOK /\ [Next]_vars => TypeOK'
    <2> SUFFICES ASSUME TypeOK, [Next]_vars PROVE TypeOK'
        OBVIOUS
    <2>1. CASE Next
        BY <2>1, LoopType, ApplyType, PptType, Firsts DEF Next, Clients
    <2>2. CASE UNCHANGED vars
        BY <2>2 DEF vars, gains, links, tasks, devices, ghosts, TypeOK, Alive
    <2> QED
        BY <2>1, <2>2
<1> QED
    BY <1>1, <1>2, PTL DEF Spec

-----------------------------------------------------------------------------
(* What the monitor shows *)

\* What has been shown is what the proxies have, until one of them has another
\* file, which wakes the monitor.
ShownInv == monitor = "wait" => (gain = "ON" <=> Identical)

LEMMA ShownStep == ASSUME TypeOK, ShownInv, [Next]_vars PROVE ShownInv'
<1> USE DEF ShownInv
<1>1. ASSUME NEW f \in Known \cup {"different"}, Evaluate(f) PROVE ShownInv'
    <2>1. Identical <=> f # "different"
        BY <1>1 DEF Evaluate, Identical
    <2>2. gain' = "ON" <=> f # "different"
        BY <1>1 DEF Evaluate
    <2>3. UNCHANGED <<ppts, seen>>
        BY <1>1 DEF Evaluate, links
    <2> QED
        BY <2>1, <2>2, <2>3 DEF Identical, SeenName
<1>2. ASSUME NEW q \in Ppts, Deliver(q) PROVE ShownInv'
    <2>1. UNCHANGED <<gain, ppts>>
        BY <1>2 DEF Deliver, gains
    <2>2. CASE monitor' = "wait"
        <3>1. monitor = "wait" /\ seen[q].file = file[q]
            BY <1>2, <2>2 DEF Deliver
        <3>2. \A p \in Ppts : seen'[p].file = seen[p].file
            BY <1>2, <3>1 DEF Deliver, TypeOK
        <3>3. \A p \in Ppts : SeenName(p)' = SeenName(p)
            BY <3>2 DEF SeenName
        <3>4. ppts' = ppts /\ ppts \subseteq Ppts
            BY <2>1 DEF TypeOK
        <3>5. Identical' <=> Identical
            BY <3>3, <3>4 DEF Identical
        <3> QED
            BY <2>1, <3>1, <3>5
    <2> QED
        BY <2>2
<1>3. CASE Connect
    BY <1>3 DEF Connect, TypeOK
<1>4. CASE MonitorDies \/ MonitorTimesOut
    BY <1>4 DEF MonitorDies, MonitorTimesOut
<1>5. CASE ReleaseLock \/ Clients \/ UNCHANGED vars
           \/ (\E a \in Applies : ApplyStep(a)) \/ \E q \in Ppts : PptStep(q)
    <2>1. UNCHANGED <<monitor, gain, ppts, seen>>
        BY <1>5 DEF ReleaseLock, Clients, Apply, SetTarget, SetFile, ApplyStep, AllCompleted,
            ApplySlept, Begin, ShutdownTimesOut, Instantiate, PptStep, GoDown, GetConfiguration,
            Initialised, vars, gains, links
    <2> QED
        BY <2>1 DEF Identical, SeenName
<1> QED
    BY <1>1, <1>2, <1>3, <1>4, <1>5 DEF Next, MonitorStep, MonitorDiffers, MonitorKnows

\* While the monitor waits, the state of the gain configuration is that of the
\* files, whenever the proxies are up to date.
THEOREM Shows == Spec => []ShowsFiles
<1>1. Init => ShownInv
    BY DEF Init, ShownInv
<1>2. TypeOK /\ ShownInv => ShowsFiles
    <2> SUFFICES ASSUME TypeOK, ShownInv, monitor = "wait",
                        \A q \in Ppts : seen[q].file = file[q]
                 PROVE  (gain = "ON") = SameNames
        BY DEF ShowsFiles
    <2>1. ppts = Ppts
        BY DEF TypeOK
    <2>2. Identical <=> SameNames
        BY <2>1 DEF Identical, SameNames, SeenName
    <2>3. gain = "ON" <=> SameNames
        BY <2>2 DEF ShownInv
    <2>4. SameNames \in BOOLEAN
        BY DEF SameNames
    <2> QED
        BY <2>3, <2>4
<1> QED
    BY <1>1, <1>2, ShownStep, TypeInvariant, PTL DEF Spec

-----------------------------------------------------------------------------
(* What a restart leaves *)

\* The PPTs that `a` has started, or is about to, when no call has failed.
Started(a) ==
    \A q \in Ppts :
        IF q \in waiting[a] THEN life[q] = "down"
        ELSE life[q] # "down" /\ file[q] \in Intended(q)

AllDown == dying = {} /\ \A q \in Ppts : life[q] = "down"

\* While nobody interferes there is one apply: as long as its calls succeed, the
\* PPTs that live are those it waits for, then none lives, then those it has
\* started.
ApplyInv ==
    ~touched =>
        /\ \A a, b \in Applies : Runs(a) /\ Runs(b) => a = b
        /\ \A a \in Applies : ~failed[a] =>
              /\ apply[a] = "shutdown" =>
                    dying = waiting[a] /\ \A q \in Ppts \ dying : life[q] = "down"
              /\ apply[a] = "sleep" => AllDown
              /\ apply[a] = "start" => dying = {} /\ Started(a)

\* A client asks for an apply, or interferes.
LEMMA ClientsApply == ASSUME TypeOK, ApplyInv, Clients PROVE ApplyInv'
<1>1. CASE SetTarget \/ \E q \in Ppts : SetFile(q)
    BY <1>1 DEF SetTarget, SetFile, ApplyInv
<1>2. ASSUME NEW a \in Applies, Apply(a) PROVE ApplyInv'
    <2>1. UNCHANGED <<target, failed, devices, ghosts>> /\ apply[a] = "idle"
        BY <1>2 DEF Apply
    <2>2. /\ apply'[a] = "posted"
          /\ \A b \in Applies : b # a => apply'[b] = apply[b] /\ waiting'[b] = waiting[b]
        BY <1>2 DEF Apply, Goto, TypeOK
    <2>3. \A b \in Applies : Runs(b)' <=> Runs(b)
        BY <2>1, <2>2 DEF Runs
    <2> QED
        BY <2>1, <2>2, <2>3 DEF ApplyInv, AllDown, Started, Intended, devices, ghosts
<1> QED
    BY <1>1, <1>2 DEF Clients

\* An apply begins.
LEMMA BeginApply ==
    ASSUME TypeOK, ApplyInv, NEW a \in Applies, Begin(a) PROVE ApplyInv'
<1>1. CASE touched'
    BY <1>1 DEF ApplyInv
<1>2. CASE ~touched'
    <2>1. \A b \in Applies : ~Runs(b)
        BY <1>2 DEF Begin
    <2>2. CASE Initialising
        <3>1. apply'[a] = "idle" /\ \A b \in Applies : b # a => apply'[b] = apply[b]
            BY <2>2 DEF Begin, Goto, TypeOK
        <3>2. \A b \in Applies : ~Runs(b)'
            BY <2>1, <3>1 DEF Runs
        <3> QED
            BY <3>2 DEF ApplyInv, Runs
    <2>3. CASE ~Initialising /\ Alive = {}
        <3>1. Goto(a, "start", Ppts) /\ dying' = {} /\ UNCHANGED life
            BY <2>3 DEF Begin, TypeOK
        <3>2. apply'[a] = "start" /\ \A b \in Applies : b # a => apply'[b] \in {"idle", "posted"}
            BY <2>1, <3>1 DEF Goto, TypeOK, Runs
        <3>3. waiting'[a] = Ppts
            BY <3>1 DEF Goto, TypeOK
        <3>4. \A q \in Ppts : life'[q] = "down"
            BY <2>3, <3>1 DEF Alive
        <3> QED
            BY <3>1, <3>2, <3>3, <3>4 DEF ApplyInv, Started, Runs
    <2>4. CASE ~Initialising /\ Alive # {}
        <3>1. Goto(a, "shutdown", Alive) /\ dying' = Alive /\ UNCHANGED life
            BY <2>4 DEF Begin, TypeOK
        <3>2. apply'[a] = "shutdown"
              /\ \A b \in Applies : b # a => apply'[b] \in {"idle", "posted"}
            BY <2>1, <3>1 DEF Goto, TypeOK, Runs
        <3>3. waiting'[a] = Alive
            BY <3>1 DEF Goto, TypeOK
        <3>4. \A q \in Ppts \ dying' : life'[q] = "down"
            BY <3>1 DEF Alive
        <3> QED
            BY <3>1, <3>2, <3>3, <3>4 DEF ApplyInv, Runs
    <2> QED
        BY <2>2, <2>3, <2>4
<1> QED
    BY <1>1, <1>2

\* A step of apply.
LEMMA TasksApply ==
    ASSUME TypeOK, ApplyInv, NEW a \in Applies, ApplyStep(a), ~Begin(a), ~touched PROVE ApplyInv'
<1>1. Runs(a) /\ \A b \in Applies : b # a => ~Runs(b)
    BY DEF ApplyInv, ApplyStep, AllCompleted, ApplySlept, ShutdownTimesOut, Instantiate, Runs
<1>2. \A b \in Applies : b # a => ~Runs(b)' /\ apply'[b] \in {"idle", "posted"}
    BY <1>1 DEF ApplyStep, AllCompleted, ApplySlept, ShutdownTimesOut, Instantiate, Goto, TypeOK,
        Runs
<1>3. SUFFICES ASSUME ~failed'[a]
               PROVE  /\ apply'[a] = "shutdown" =>
                            dying' = waiting'[a] /\ \A q \in Ppts \ dying' : life'[q] = "down"
                      /\ apply'[a] = "sleep" => AllDown'
                      /\ apply'[a] = "start" => dying' = {} /\ Started(a)'
    BY <1>2, <1>3 DEF ApplyInv
<1>4. CASE AllCompleted(a)
    <2>1. UNCHANGED <<failed, devices>>
        BY <1>4 DEF AllCompleted
    <2>2. CASE apply[a] = "shutdown"
        <3>1. apply'[a] = "sleep" /\ waiting[a] = {}
            BY <1>3, <1>4, <2>1, <2>2 DEF AllCompleted, Goto, TypeOK
        <3> QED
            BY <1>3, <2>1, <2>2, <3>1 DEF ApplyInv, AllDown, devices
    <2>3. CASE apply[a] # "shutdown"
        <3>1. apply'[a] = "idle"
            BY <1>4, <2>3 DEF AllCompleted, Goto, TypeOK
        <3> QED
            BY <3>1
    <2> QED
        BY <2>2, <2>3
<1>5. CASE ApplySlept(a)
    <2>1. /\ UNCHANGED <<failed, devices, target>> /\ apply[a] = "sleep"
          /\ apply'[a] = "start" /\ waiting'[a] = Ppts
        BY <1>5 DEF ApplySlept, Goto, TypeOK
    <2>2. AllDown
        BY <1>3, <2>1 DEF ApplyInv
    <2> QED
        BY <2>1, <2>2 DEF AllDown, Started, devices
<1>6. ASSUME NEW q \in Ppts, ShutdownTimesOut(a, q) PROVE failed'[a]
    BY <1>6 DEF ShutdownTimesOut, Answered, TypeOK
<1>7. ASSUME NEW q \in Ppts, Instantiate(a, q)
      PROVE  apply'[a] = "start" /\ dying' = {} /\ Started(a)'
    <2>1. PICK ok \in {life[q] = "down", FALSE} :
             /\ Answered(a, q, ok)
             /\ life' = IF ok THEN [life EXCEPT ![q] = "init"] ELSE life
             /\ file' = IF ok THEN [file EXCEPT ![q] = Default[q]] ELSE file
        BY <1>7 DEF Instantiate
    <2>2. ok /\ ~failed[a] /\ waiting'[a] = waiting[a] \ {q}
        BY <1>3, <2>1 DEF Answered, TypeOK
    <2>3. UNCHANGED <<apply, target, dying>> /\ apply[a] = "start"
        BY <1>7 DEF Instantiate
    <2>4. dying = {} /\ Started(a)
        BY <2>2, <2>3 DEF ApplyInv
    <2>5. \A p \in Ppts : /\ life'[p] = IF p = q THEN "init" ELSE life[p]
                          /\ file'[p] = IF p = q THEN Default[q] ELSE file[p]
        BY <2>1, <2>2 DEF TypeOK
    <2> QED
        BY <2>2, <2>3, <2>4, <2>5 DEF Started, Intended
<1> QED
    BY <1>3, <1>4, <1>5, <1>6, <1>7 DEF ApplyStep

\* A step of a PPT.
LEMMA PptsApply ==
    ASSUME TypeOK, ApplyInv, NEW q \in Ppts, PptStep(q), ~touched PROVE ApplyInv'
<1>1. UNCHANGED <<apply, failed, target, touched>>
    BY DEF PptStep, GoDown, GetConfiguration, Initialised, tasks, ghosts
<1>2. SUFFICES ASSUME NEW a \in Applies, ~failed[a]
               PROVE  /\ apply[a] = "shutdown" =>
                            dying' = waiting'[a] /\ \A p \in Ppts \ dying' : life'[p] = "down"
                      /\ apply[a] = "sleep" => AllDown'
                      /\ apply[a] = "start" => dying' = {} /\ Started(a)'
    BY <1>1 DEF ApplyInv, Runs
<1>3. CASE GoDown(q)
    <2>1. q \in dying /\ dying' = dying \ {q}
          /\ \A p \in Ppts : life'[p] = IF p = q THEN "down" ELSE life[p]
        BY <1>3 DEF GoDown, TypeOK
    <2>2. /\ apply[a] = "shutdown" =>
                dying = waiting[a] /\ \A p \in Ppts \ dying : life[p] = "down"
          /\ apply[a] \notin {"sleep", "start"}
        BY <1>2, <2>1 DEF ApplyInv, AllDown, TypeOK
    <2>3. apply[a] = "shutdown" => waiting'[a] = waiting[a] \ {q}
        BY <1>3 DEF GoDown
    <2> QED
        BY <2>1, <2>2, <2>3
<1>4. CASE GetConfiguration(q)
    <2>1. UNCHANGED <<life, dying, waiting>>
          /\ \A p \in Ppts : file'[p] = IF p = q THEN target ELSE file[p]
        BY <1>4 DEF GetConfiguration, tasks, TypeOK
    <2>2. ASSUME NEW p \in Ppts, file[p] \in Intended(p) PROVE file'[p] \in Intended(p)'
        <3>1. file[q] = NoFile /\ target' = target
            BY <1>1, <1>4 DEF GetConfiguration
        <3> QED
            BY <2>1, <2>2, <3>1 DEF Intended
    <2> QED
        BY <1>1, <1>2, <2>1, <2>2 DEF ApplyInv, AllDown, Started
<1>5. CASE Initialised(q)
    <2>1. UNCHANGED <<file, dying, waiting>> /\ life[q] = "init"
          /\ \A p \in Ppts : life'[p] = IF p = q THEN "up" ELSE life[p]
        BY <1>5 DEF Initialised, tasks, TypeOK
    <2>2. apply[a] = "shutdown" => dying = waiting[a] /\ \A p \in Ppts \ dying : life[p] = "down"
        BY <1>2 DEF ApplyInv
    <2>3. apply[a] # "sleep"
        BY <1>2, <2>1 DEF ApplyInv, AllDown
    <2>4. apply[a] = "start" => dying = {} /\ Started(a)
        BY <1>2 DEF ApplyInv
    <2> QED
        BY <1>1, <2>1, <2>2, <2>3, <2>4 DEF Started, Intended
<1> QED
    BY <1>3, <1>4, <1>5 DEF PptStep

LEMMA ApplyHolds == Spec => [](TypeOK /\ ApplyInv)
<1>1. Init => ApplyInv
    BY DEF Init, ApplyInv
<1>2. TypeOK /\ ApplyInv /\ [Next]_vars => ApplyInv'
    <2> SUFFICES ASSUME TypeOK, ApplyInv, [Next]_vars PROVE ApplyInv'
        OBVIOUS
    <2>1. CASE Clients
        BY <2>1, ClientsApply
    <2>2. ASSUME NEW a \in Applies, ApplyStep(a) PROVE ApplyInv'
        <3>1. CASE Begin(a)
            BY <3>1, BeginApply
        <3>2. CASE ~Begin(a)
            <4>1. touched' = touched
                BY <2>2, <3>2 DEF ApplyStep, AllCompleted, ApplySlept, ShutdownTimesOut,
                    Instantiate, ghosts
            <4> QED
                BY <2>2, <3>2, <4>1, TasksApply DEF ApplyInv
        <3> QED
            BY <3>1, <3>2
    <2>3. ASSUME NEW q \in Ppts, PptStep(q) PROVE ApplyInv'
        <3>1. touched' = touched
            BY <2>3 DEF PptStep, GoDown, GetConfiguration, Initialised, ghosts
        <3> QED
            BY <2>3, <3>1, PptsApply DEF ApplyInv
    <2>4. CASE Connect \/ ReleaseLock \/ MonitorStep \/ UNCHANGED vars
               \/ \E q \in Ppts : Deliver(q)
        <3>1. UNCHANGED <<tasks, devices, target, ghosts>>
            BY <2>4 DEF Connect, ReleaseLock, MonitorStep, MonitorDiffers, MonitorKnows, Evaluate,
                MonitorDies, MonitorTimesOut, Deliver, vars
        <3> QED
            BY <3>1 DEF tasks, devices, ghosts, ApplyInv, AllDown, Started, Runs, Intended
    <2> QED
        BY <2>1, <2>2, <2>3, <2>4 DEF Next
<1> QED
    BY <1>1, <1>2, TypeInvariant, PTL DEF Spec

\* An apply that ends in ACTIVE leaves every PPT alive and on the file it was to
\* have - none, if its question was not answered - for any number of PPTs, unless
\* a client has set the target or a file or a second apply has run beside it.
THEOREM RestartsOnTarget == Spec => RestartedOnTarget
<1> DEFINE Restarted ==
        \A a \in Applies :
          /\ Runs(a) /\ apply'[a] = "idle" /\ state' = "ACTIVE" /\ ~touched
          => \A q \in Ppts : life[q] # "down" /\ file[q] \in Intended(q)
<1>1. TypeOK /\ ApplyInv /\ [Next]_vars => [Restarted]_vars
    <2> SUFFICES ASSUME TypeOK, ApplyInv, [Next]_vars, NEW a \in Applies,
                        Runs(a), apply'[a] = "idle", state' = "ACTIVE", ~touched
                 PROVE  \A q \in Ppts : life[q] # "down" /\ file[q] \in Intended(q)
        OBVIOUS
    <2>1. CASE AllCompleted(a)
        <3>1. ~failed[a] /\ apply[a] = "start" /\ waiting[a] = {}
            BY <2>1 DEF AllCompleted, Goto, Outcome, TypeOK
        <3>2. Started(a)
            BY <3>1 DEF ApplyInv
        <3> QED
            BY <3>1, <3>2 DEF Started
    <2>2. ASSUME ~AllCompleted(a) PROVE apply'[a] # "idle"
        <3>0. apply[a] \notin {"idle", "posted"}
            BY DEF Runs
        <3>1. CASE \E b \in Applies : Apply(b) \/ Begin(b)
            <4>1. PICK b \in Applies : Apply(b) \/ Begin(b)
                BY <3>1
            <4>2. a # b
                BY <3>0, <4>1 DEF Apply, Begin
            <4> QED
                BY <3>0, <4>1, <4>2 DEF Apply, Begin, Goto, TypeOK
        <3>2. CASE \E b \in Applies : ApplyStep(b) /\ ~Begin(b)
            BY ZenonT(60), <2>2, <3>0, <3>2 DEF ApplyStep, AllCompleted, ApplySlept,
                ShutdownTimesOut, Instantiate, Goto, TypeOK
        <3>3. CASE ~\E b \in Applies : Apply(b) \/ ApplyStep(b)
            <4>1. UNCHANGED apply
                BY <3>3 DEF Next, vars, Clients, SetTarget, SetFile, Connect, ReleaseLock,
                    MonitorStep, MonitorDiffers, MonitorKnows, Evaluate, MonitorDies,
                    MonitorTimesOut, Deliver, PptStep, GoDown, GetConfiguration, Initialised, tasks
            <4> QED
                BY <3>0, <4>1
        <3> QED
            BY <3>1, <3>2, <3>3
    <2> QED
        BY <2>1, <2>2
<1> QED
    BY <1>1, ApplyHolds, PTL DEF Spec, RestartedOnTarget

================================================================================
