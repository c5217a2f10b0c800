----------------------------- MODULE Configurator -----------------------------
(***************************************************************************)
(* DsscConfigurator and the PPTs it restarts: `apply` shuts the PPTs down  *)
(* and instantiates them again; a PPT that starts without a configuration  *)
(* file asks the configurator for the target configuration.  Meanwhile the *)
(* configurator connects to the PPTs and watches the files they run with.  *)
(*                                                                         *)
(* The configurator is one asyncio loop: an action is what a coroutine     *)
(* does from one `await` to the next.                                      *)
(***************************************************************************)
EXTENDS Naturals, FiniteSets

CONSTANTS
    Ppts,      \* the PPTs in use
    Known,     \* the files in availableGainConfigurations
    Unknown,   \* other files PPTs may be given
    NameOf,    \* the name of a file, without its directory and quadrant
    Default,   \* the file in the configuration "default" of a PPT, if any
    MaxOps     \* bound on what clients do

VARIABLES
    state,     \* the device state
    target,    \* targetGainConfiguration
    gain,      \* gainConfigurationState
    actual,    \* actualGainConfiguration: a file, "different" or ""
    connect,   \* connect_to_proxies; it holds the lock until it is done
    ppts,      \* self.ppts: the PPTs with a proxy
    monitor,   \* monitor_configs
    apply,     \* the tasks _apply, by number: where they are,
    waiting,   \* the PPTs they wait for,
    failed,    \* and whether a call has failed
    life,      \* of a PPT: down, init, or up
    file,      \* fullConfigFileName of a PPT
    dying,     \* PPTs told to shut down
    seen,      \* the copies in the proxies, of the file and of the state INIT
    nops,      \* operations of clients so far
    \* not in the code
    refused,   \* the last apply has been told to try later
    touched    \* since then a client has interfered: the target or a file
               \* has been set, or there are two applies

gains   == <<gain, actual>>
tasks   == <<apply, waiting, failed>>
devices == <<life, file, dying>>
links   == <<connect, ppts, seen>>
ghosts  == <<refused, touched>>
vars    == <<state, target, gains, links, monitor, tasks, devices, nops, ghosts>>

Files == Known \cup Unknown
NoFile == "none"

\* connect_to_proxies may set ACTIVE while one _apply runs, so that there are
\* two.
Applies == {1, 2}

ASSUME ConfiguratorAssumption ==
    /\ Ppts # {} /\ IsFiniteSet(Ppts)
    /\ Known # {} /\ Known \cap Unknown = {}
    /\ {"none", "different"} \cap Files = {}
    /\ DOMAIN NameOf = Files \cup {NoFile}
    /\ Default \in [Ppts -> Files \cup {NoFile}]
    /\ MaxOps \in Nat

-----------------------------------------------------------------------------
(* connect_to_proxies *)

Alive == {q \in Ppts : life[q] # "down"}

\* Every attempt lasts until each device is connected or ten seconds are over.
Connect ==
    /\ connect = "trying"
    /\ \E found \in SUBSET Alive :
         /\ ppts' = found
         /\ seen' = [q \in Ppts |-> IF q \in found
                                    THEN [file |-> file[q], init |-> life[q] = "init"]
                                    ELSE seen[q]]
         /\ IF found = Ppts
            THEN connect' = "sleeping" /\ state' = "ACTIVE"
            ELSE UNCHANGED <<connect, state>>
    /\ UNCHANGED <<target, gains, monitor, tasks, devices, nops, ghosts>>

ReleaseLock ==
    /\ connect = "sleeping"
    /\ connect' = "done"
    /\ UNCHANGED <<state, target, gains, ppts, seen, monitor, tasks, devices, nops, ghosts>>

-----------------------------------------------------------------------------
(* monitor_configs *)

SeenName(q) == NameOf[seen[q].file]
Identical   == \A p, q \in ppts : SeenName(p) = SeenName(q)

\* The PPT whose file is looked up; which one that is is not settled.
FirstPpt == CHOOSE q \in Ppts : TRUE

\* The lock is free once connect_to_proxies is over.
Evaluate(file1) ==
    /\ monitor = "evaluate" /\ connect = "done"
    /\ Identical = (file1 # "different")
    /\ actual' = file1
    /\ gain' = IF file1 = "different" THEN "ERROR" ELSE "ON"
    /\ monitor' = "wait"
    /\ UNCHANGED <<state, target, links, tasks, devices, nops, ghosts>>

MonitorDiffers == Evaluate("different")

MonitorKnows == seen[FirstPpt].file \in Known /\ Evaluate(seen[FirstPpt].file)

\* desc is a plain string then: .value raises, outside any try.
MonitorDies ==
    /\ monitor = "evaluate" /\ connect = "done"
    /\ Identical /\ seen[FirstPpt].file \notin Known
    /\ monitor' = "dead"
    /\ UNCHANGED <<state, target, gains, links, tasks, devices, nops, ghosts>>

\* After five seconds without an update.
MonitorTimesOut ==
    /\ monitor = "wait"
    /\ monitor' = "evaluate"
    /\ UNCHANGED <<state, target, gains, links, tasks, devices, nops, ghosts>>

\* Variant: nothing wakes the monitor before its timeout.
DeliverQuietly(q) ==
    LET now == [file |-> file[q], init |-> life[q] = "init"]
    IN  /\ q \in ppts /\ life[q] # "down" /\ seen[q] # now
        /\ seen' = [seen EXCEPT ![q] = now]
        /\ UNCHANGED <<state, target, gains, connect, ppts, monitor, tasks, devices, nops, ghosts>>

\* An update reaches a proxy and wakes the monitor if it waits for one.
Deliver(q) ==
    LET now == [file |-> file[q], init |-> life[q] = "init"]
    IN  /\ q \in ppts /\ life[q] # "down" /\ seen[q] # now
        /\ seen' = [seen EXCEPT ![q] = now]
        /\ monitor' = IF monitor = "wait" /\ seen[q].file # file[q] THEN "evaluate" ELSE monitor
        /\ UNCHANGED <<state, target, gains, connect, ppts, tasks, devices, nops, ghosts>>

-----------------------------------------------------------------------------
(* apply *)

Initialising == \E q \in ppts : seen[q].init

Goto(a, pc, for) ==
    /\ apply' = [apply EXCEPT ![a] = pc]
    /\ waiting' = [waiting EXCEPT ![a] = for]

Runs(a) == apply[a] \notin {"idle", "posted"}

\* The slot only posts the task, and the state stays what it was: another apply
\* may be posted as well.
Apply(a) ==
    /\ state \in {"ACTIVE", "INIT"} /\ nops < MaxOps /\ apply[a] = "idle"
    /\ \A b \in Applies : b < a => apply[b] # "idle"
    /\ nops' = nops + 1
    /\ Goto(a, "posted", {})
    /\ UNCHANGED <<state, target, gains, links, monitor, failed, devices, ghosts>>

\* _apply goes on until the first await.
Begin(a) ==
    /\ apply[a] = "posted"
    /\ state' = "CHANGING"
    /\ failed' = [failed EXCEPT ![a] = FALSE]
    /\ refused' = Initialising
    /\ touched' = \E b \in Applies : Runs(b)
    /\ IF Initialising THEN Goto(a, "idle", {}) /\ UNCHANGED dying
       ELSE /\ IF Alive = {} THEN Goto(a, "start", Ppts) ELSE Goto(a, "shutdown", Alive)
            /\ dying' = dying \cup Alive
    /\ UNCHANGED <<target, gains, links, monitor, life, file, nops>>

Answered(a, q, ok) ==
    /\ waiting' = [waiting EXCEPT ![a] = @ \ {q}]
    /\ failed' = [failed EXCEPT ![a] = @ \/ ~ok]

\* wait_for(shutdown(did), 10); the PPT may go down later.
ShutdownTimesOut(a, q) ==
    /\ apply[a] = "shutdown" /\ q \in waiting[a]
    /\ Answered(a, q, FALSE)
    /\ UNCHANGED <<state, target, gains, links, monitor, apply, devices, nops, ghosts>>

\* With the configuration "default"; fails, here or when the second call finds
\* the device there.
Instantiate(a, q) ==
    /\ apply[a] = "start" /\ q \in waiting[a]
    /\ \E ok \in {life[q] = "down", FALSE} :
         /\ Answered(a, q, ok)
         /\ life' = IF ok THEN [life EXCEPT ![q] = "init"] ELSE life
         /\ file' = IF ok THEN [file EXCEPT ![q] = Default[q]] ELSE file
    /\ UNCHANGED <<state, target, gains, links, monitor, apply, dying, nops, ghosts>>

\* Variant: a PPT that could not be restarted is not noticed.
OutcomeOfCalls(a) == "ACTIVE"

\* Variant: after a failure the state stays, as where PPTs are initialising.
OutcomeForgotten(a) == IF failed[a] THEN "CHANGING" ELSE "ACTIVE"

Outcome(a) == IF failed[a] THEN "ERROR" ELSE "ACTIVE"

\* All calls of a step are over.
AllCompleted(a) ==
    /\ apply[a] \in {"shutdown", "start"} /\ waiting[a] = {}
    /\ IF apply[a] = "shutdown" /\ ~failed[a]
       THEN Goto(a, "sleep", {}) /\ UNCHANGED state
       ELSE Goto(a, "idle", {}) /\ state' = Outcome(a)
    /\ UNCHANGED <<target, gains, links, monitor, failed, devices, nops, ghosts>>

\* sleep(1.5), to give the PPTs time to shut down.
ApplySlept(a) ==
    /\ apply[a] = "sleep"
    /\ Goto(a, "start", Ppts)
    /\ UNCHANGED <<state, target, gains, links, monitor, failed, devices, nops, ghosts>>

-----------------------------------------------------------------------------
(* The PPTs, and the clients of both *)

\* A PPT told to shut down goes, sooner or later.
GoDown(q) ==
    /\ q \in dying
    /\ dying' = dying \ {q}
    /\ life' = [life EXCEPT ![q] = "down"]
    /\ waiting' = [a \in Applies |-> IF apply[a] = "shutdown" THEN waiting[a] \ {q}
                                     ELSE waiting[a]]
    /\ UNCHANGED <<state, target, gains, links, monitor, apply, failed, file, nops, ghosts>>

\* requestConfiguration, answered between two awaits of the configurator.
GetConfiguration(q) ==
    /\ life[q] = "init" /\ file[q] = NoFile
    /\ file' = [file EXCEPT ![q] = target]
    /\ UNCHANGED <<state, target, gains, links, monitor, tasks, life, dying, nops, ghosts>>

\* The end of initialize, with no file if the answer took over a second.
Initialised(q) ==
    /\ life[q] = "init"
    /\ life' = [life EXCEPT ![q] = "up"]
    /\ UNCHANGED <<state, target, gains, links, monitor, tasks, file, dying, nops, ghosts>>

Operation == nops < MaxOps /\ nops' = nops + 1

SetTarget ==
    /\ Operation
    /\ \E c \in Known \ {target} : target' = c
    /\ touched' = TRUE
    /\ UNCHANGED <<state, gains, links, monitor, tasks, devices, refused>>

SetFile(q) ==
    /\ Operation /\ life[q] = "up"
    /\ \E f \in Files \ {file[q]} : file' = [file EXCEPT ![q] = f]
    /\ touched' = TRUE
    /\ UNCHANGED <<state, target, gains, links, monitor, tasks, life, dying, refused>>

-----------------------------------------------------------------------------

\* configs[0]
FirstKnown == CHOOSE c \in Known : TRUE

\* The configurator may be there before its PPTs.
Init ==
    /\ state = "INIT" /\ gain = "ERROR" /\ actual = ""
    /\ target = FirstKnown
    /\ connect = "trying" /\ ppts = {} /\ monitor = "evaluate"
    /\ apply = [a \in Applies |-> "idle"]
    /\ waiting = [a \in Applies |-> {}]
    /\ failed = [a \in Applies |-> FALSE]
    /\ life \in [Ppts -> {"down", "up"}]
    /\ file \in [Ppts -> {NoFile} \cup Known]
    /\ \A q \in Ppts : (life[q] = "down") = (file[q] = NoFile)
    /\ dying = {}
    /\ seen = [q \in Ppts |-> [file |-> NoFile, init |-> FALSE]]
    /\ nops = 0
    /\ refused = FALSE /\ touched = TRUE

PptStep(q) == GoDown(q) \/ GetConfiguration(q) \/ Initialised(q)

ApplyStep(a) ==
    \/ Begin(a) \/ AllCompleted(a) \/ ApplySlept(a)
    \/ \E q \in Ppts : ShutdownTimesOut(a, q) \/ Instantiate(a, q)

MonitorStep == MonitorDiffers \/ MonitorKnows \/ MonitorDies \/ MonitorTimesOut

Clients == SetTarget \/ (\E a \in Applies : Apply(a)) \/ (\E q \in Ppts : SetFile(q))

Next ==
    \/ Connect \/ ReleaseLock \/ MonitorStep \/ Clients
    \/ \E a \in Applies : ApplyStep(a)
    \/ \E q \in Ppts : PptStep(q) \/ Deliver(q)

Spec == Init /\ [][Next]_vars

\* The event loop goes on, calls and updates come back, what is told to shut
\* down does; an attempt to connect succeeds when all PPTs stay.
Fairness ==
    /\ WF_vars(Connect /\ connect' # "trying") /\ WF_vars(ReleaseLock) /\ WF_vars(MonitorStep)
    /\ \A a \in Applies : WF_vars(ApplyStep(a))
    /\ \A q \in Ppts : WF_vars(GoDown(q)) /\ WF_vars(Initialised(q)) /\ WF_vars(Deliver(q))

FairSpec == Spec /\ Fairness

-----------------------------------------------------------------------------
(* Properties *)

\* The lock keeps the monitor off proxies that are not there, and a PPT that is
\* to go is still alive.
TypeOK ==
    /\ state \in {"INIT", "ACTIVE", "CHANGING", "ERROR"}
    /\ target \in Known /\ actual \in Known \cup {"different", ""} /\ gain \in {"ON", "ERROR"}
    /\ connect \in {"trying", "sleeping", "done"} /\ ppts \subseteq Ppts
    /\ connect # "trying" => ppts = Ppts
    /\ monitor \in {"evaluate", "wait", "dead"} /\ (monitor # "evaluate" => connect = "done")
    /\ apply \in [Applies -> {"idle", "posted", "shutdown", "sleep", "start"}]
    /\ waiting \in [Applies -> SUBSET Ppts] /\ failed \in [Applies -> BOOLEAN]
    /\ \A a \in Applies : apply[a] \in {"idle", "posted", "sleep"} => waiting[a] = {}
    /\ life \in [Ppts -> {"down", "init", "up"}] /\ file \in [Ppts -> Files \cup {NoFile}]
    /\ dying \subseteq Alive
    /\ seen \in [Ppts -> [file : Files \cup {NoFile}, init : BOOLEAN]]
    /\ nops \in 0..MaxOps
    /\ refused \in BOOLEAN /\ touched \in BOOLEAN

\* What a PPT that has been restarted may run with: the file of its default
\* configuration; otherwise the target or, if it has not been answered in time,
\* none.
Intended(q) == IF Default[q] = NoFile THEN {target, NoFile} ELSE {Default[q]}

\* "PPTs restarted": when apply ends in ACTIVE, then every PPT runs, with the
\* file it was to have.  Not so if a client has set the target or a file since
\* apply began, or if two applies run beside each other.
RestartedOnTarget ==
    [][ \A a \in Applies :
          /\ Runs(a) /\ apply'[a] = "idle" /\ state' = "ACTIVE" /\ ~touched
          => \A q \in Ppts : life[q] # "down" /\ file[q] \in Intended(q) ]_vars

\* Every apply that is not told to try later comes to an end: the state does
\* not stay at CHANGING.  One that is told so leaves it there (lines 244-246).
ApplyEnds == (state = "CHANGING" /\ ~refused) ~> (state # "CHANGING" \/ refused)

SameNames == \A p, q \in Ppts : NameOf[file[p]] = NameOf[file[q]]

\* While monitor_configs waits, gainConfigurationState tells whether the files of
\* the PPTs, as far as their proxies have them, have the same name.
ShowsFiles ==
    /\ monitor = "wait"
    /\ \A q \in Ppts : seen[q].file = file[q]
    => (gain = "ON") = SameNames

=============================================================================
