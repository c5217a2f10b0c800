----------------------------- MODULE PptRegisters -----------------------------
(***************************************************************************)
(* The registers of DsscPpt: the JTAG registers of the modules, the one    *)
(* active module m_ppt works on, the attributes that show the registers    *)
(* and the hash they are compared with when they are written back.         *)
(*                                                                         *)
(* A slot, the handler of the input channel and a task run at the same     *)
(* time.  m_accessToPptMutex is held while something is programmed or      *)
(* read, but the active module is mostly set before it is taken.  m_ppt is *)
(* a library: that getRegisters and what programs or reads mean the active *)
(* module is seen from the code that uses it (lines 1376-1378, 2825-2826). *)
(***************************************************************************)
EXTENDS Naturals, Sequences

CONSTANTS
    Modules,  \* the modules, each with an IOB
    Values,   \* what the registers of a module hold
    Files,    \* the contents of the configuration files
    MaxOps    \* bound on the operations that begin

VARIABLES
    available,  \* the IOBs that answered last
    active,     \* the active module
    regs,       \* the JTAG registers of the modules
    shown,      \* the attributes under s_dsscConfBaseNode
    last,       \* m_last_config_hash
    lock,       \* who holds m_accessToPptMutex
    prog,       \* the instructions a thread has left
    fetched,    \* the module whose registers a thread has got and not yet used
    nops,       \* operations that have begun
    \* not in the code
    own,        \* the module a thread has made active, the one it has written to
    disturbed,  \* threads whose module or registers another thread has changed
    misled,     \* threads whose entry was for another module than the one active
                \* when its registers were fetched, or for one without an IOB
    astray,     \* something else has been written, programmed or read than was to be
    loose,      \* modules whose registers were written past updateConfigFromHash
    misfiled    \* modules whose entry has gone to the registers of another one

ppt    == <<available, active, regs, lock>>
hashes == <<shown, last>>
ghosts == <<own, disturbed, misled, astray, loose, misfiled>>
vars   == <<ppt, hashes, prog, fetched, nops, ghosts>>

Thread  == {"slot", "input", "task"}
Content == [Modules -> Values]
Nobody  == "nobody"
None    == 0
Idle    == [at |-> None, wrote |-> None]

ASSUME RegistersAssumption ==
    /\ Modules \subseteq Nat \ {None} /\ Modules # {}
    /\ Files # {} /\ Files \subseteq [Modules -> Values]
    /\ MaxOps \in Nat

First(ms) == CHOOSE m \in ms : \A n \in ms : m <= n

-----------------------------------------------------------------------------
(* Operations and the instructions they are made of *)

Set(m)      == <<[op |-> "set", module |-> m, locked |-> FALSE]>>
LockSet(m)  == <<[op |-> "set", module |-> m, locked |-> TRUE]>>
Fetch       == <<[op |-> "fetch"]>>         \* m_ppt->getRegisters
Put(m, v)   == <<[op |-> "put", module |-> m, value |-> v]>>
Entry(m, v) == <<[op |-> "entry", module |-> m, value |-> v]>>

\* Programs or reads: the module it means, and the values it means to find.
Use(m, vs) == <<[op |-> "use", module |-> m, values |-> vs]>>
Peek(m)    == <<[op |-> "peek", module |-> m, values |-> Values]>>
UseAny     == Use(None, Values)

\* if (!check_iob(m)) return
Check(m, rest) == <<[op |-> "check", module |-> m, skip |-> Len(rest)]>> \o rest

For(kind, ms) == <<[op |-> "for", kind |-> kind, todo |-> ms]>>

SetActiveModule(m) == Check(m, Set(m))

\* Variant: the registers are fetched before the module is active.
PreProgSelRegEarly(m, v) == Fetch \o SetActiveModule(m) \o Put(m, v)

\* Goes on without the IOB.
PreProgSelReg(m, v) == SetActiveModule(m) \o Fetch \o Put(m, v)

ProgSelReg(m, v) == PreProgSelReg(m, v) \o Check(m, Set(m) \o Use(m, {v}))

\* Also programLMK, checkPRBs, readbackConfigIOB and, with another check, the
\* pixel registers.
ProgramJTAG(m) == Check(m, Set(m) \o Use(m, Values))

\* programLMKOutput: with the mutex.
ProgramLMKOutput(m) == LockSet(m) \o Use(m, Values)

CheckIOBAuroraReady(m) == Set(m) \o Use(m, Values)

ResetAurora(m) == Check(m, Set(m) \o Use(m, Values) \o CheckIOBAuroraReady(m))

\* setASICChannelReadoutFailure reads without the mutex.
GetIOBSpecialParams(m) == Set(m) \o Use(m, Values) \o Peek(m)

CheckIOBReady(m) == Check(m, GetIOBSpecialParams(m) \o CheckIOBAuroraReady(m))

CheckAllIOBStatus == <<[op |-> "probe"]>> \o For("ready", Modules)

\* checkIOBDataFailed and checkPPTDataFailed: over the active IOBs.
CheckDataFailed == For("failed", available)

\* The file is read into the registers of whichever module is active,
\* programJTAG programs the one of the attribute activeModule.
UpdateJTAGConfigSchema(m, v) == Fetch \o Put(None, v) \o ProgramJTAG(m)

\* loadFullConfig, and initChip in the states it is done in.
ReadFullConfigFile(file) == <<[op |-> "load", file |-> file]>> \o UseAny

UpdateConfigHash == For("show", Modules)

UpdateConfigFromHash == <<[op |-> "compare"]>>

\* The registers are fetched before the module is active, and programmed
\* without a look at what setActiveModule returned.
WriteEntry(m, v) == Fetch \o SetActiveModule(m) \o Entry(m, v) \o Use(m, {v})

ReceiveConfigRegister(m, v) == Set(m) \o Fetch \o Put(m, v) \o Use(m, {v})

SlotBody ==
    {ProgSelReg(m, v) : m \in Modules, v \in Values}
        \cup {PreProgSelReg(m, v) : m \in Modules, v \in Values}
        \cup {UpdateJTAGConfigSchema(m, v) : m \in Modules, v \in Values}
        \cup (UNION {{ProgramJTAG(m), ProgramLMKOutput(m), ResetAurora(m)} : m \in Modules})
        \cup {ReadFullConfigFile(file) : file \in Files}
        \cup {CheckAllIOBStatus, CheckDataFailed, UpdateConfigFromHash}

\* initSystem_impl as far as it goes through the modules one by one.
TaskBody == {UpdateConfigHash, CheckAllIOBStatus \o UseAny}

InputBody == {ReceiveConfigRegister(m, v) : m \in Modules, v \in Values}

Body(t) == CASE t = "slot" -> SlotBody [] t = "task" -> TaskBody [] t = "input" -> InputBody

-----------------------------------------------------------------------------
(* Steps *)

Head1(t, op) == prog[t] # <<>> /\ Head(prog[t]).op = op

Continue(t, rest) == prog' = [prog EXCEPT ![t] = rest]

Go(t) == Continue(t, Tail(prog[t]))

\* Nothing of an operation that is over matters any more.
Owns(t, o) == own' = [own EXCEPT ![t] = IF prog'[t] = <<>> THEN Idle ELSE o]

Forget(t) ==
    /\ own' = [own EXCEPT ![t] = Idle]
    /\ disturbed' = disturbed \ {t} /\ misled' = misled \ {t}

\* What a thread does then is not of its own making.
Excused(t) == t \in disturbed \cup misled

\* The threads, other than t, for which that matters.
Disturb(t, matters(_)) == disturbed' = disturbed \cup {u \in Thread \ {t} : matters(u)}

Writing == \E i \in 1..Len(prog["slot"]) :
              prog["slot"][i].op = "for" /\ prog["slot"][i].kind = "entry"

Begin(t) ==
    /\ prog[t] = <<>> /\ nops < MaxOps
    /\ \E body \in Body(t) : Continue(t, body)
    /\ nops' = nops + 1
    /\ Forget(t)
    /\ UNCHANGED <<ppt, hashes, fetched, astray, loose, misfiled>>

\* m_ppt->setActiveModule, mostly without the mutex.
SetStep(t) ==
    /\ Head1(t, "set")
    /\ LET i == Head(prog[t])
       IN  /\ i.locked => lock = Nobody
           /\ lock' = IF i.locked THEN t ELSE lock
           /\ active' = i.module
           /\ Go(t)
           /\ Owns(t, [own[t] EXCEPT !.at = i.module])
           /\ Disturb(t, LAMBDA u : own[u].at \notin {None, i.module})
    /\ UNCHANGED <<available, regs, hashes, fetched, nops, misled, astray, loose, misfiled>>

CheckStep(t) ==
    /\ Head1(t, "check")
    /\ lock = Nobody
    /\ LET i == Head(prog[t])
       IN  Continue(t, IF i.module \in available THEN Tail(prog[t])
                       ELSE SubSeq(prog[t], i.skip + 2, Len(prog[t])))
    /\ Owns(t, own[t])
    /\ UNCHANGED <<ppt, hashes, fetched, nops, disturbed, misled, astray, loose, misfiled>>

FetchStep(t) ==
    /\ Head1(t, "fetch")
    /\ fetched' = [fetched EXCEPT ![t] = active]
    /\ Go(t)
    /\ UNCHANGED <<ppt, hashes, nops, ghosts>>

\* setSignalValue on the registers fetched.
Store(t, v) ==
    /\ regs' = [regs EXCEPT ![fetched[t]] = v]
    /\ fetched' = [fetched EXCEPT ![t] = None]
    /\ Go(t)
    /\ Owns(t, [own[t] EXCEPT !.wrote = fetched[t]])
    /\ Disturb(t, LAMBDA u : own[u].wrote = fetched[t])
    /\ UNCHANGED <<available, active, lock, hashes, nops>>

\* If the module has an IOB, its registers are meant.
PutStep(t) ==
    /\ Head1(t, "put")
    /\ LET i == Head(prog[t])
       IN  /\ Store(t, i.value)
           /\ astray' = (astray \/ ~(\/ Excused(t)
                                   \/ i.module \notin available
                                   \/ fetched[t] = i.module))
    /\ loose' = loose \cup {fetched[t]}
    /\ UNCHANGED <<misled, misfiled>>

EntryStep(t) ==
    /\ Head1(t, "entry")
    /\ Store(t, Head(prog[t]).value)
    /\ LET m == Head(prog[t]).module
           f == fetched[t]
       IN  /\ loose'    = IF f = m THEN loose \ {m} ELSE loose \cup {f}
           /\ misfiled' = IF f = m THEN misfiled \ {m} ELSE misfiled \cup {m}
           /\ misled'   = IF f = m /\ m \in available THEN misled ELSE misled \cup {t}
    /\ UNCHANGED astray

Means(t) ==
    LET i == Head(prog[t])
    IN  i.module = None \/ (i.module = active /\ regs[active] \in i.values)

\* Programming and reading, with the mutex; a section ends with it.
UseStep(t) ==
    /\ Head1(t, "use") \/ Head1(t, "peek")
    /\ Head(prog[t]).op = "use" => lock \in {Nobody, t}
    /\ lock' = IF lock = t THEN Nobody ELSE lock
    /\ astray' = (astray \/ ~(Excused(t) \/ Means(t)))
    /\ Go(t)
    /\ Owns(t, own[t])
    /\ disturbed' = IF Tail(prog[t]) = <<>> THEN disturbed \ {t} ELSE disturbed
    /\ UNCHANGED <<available, active, regs, hashes, fetched, nops, misled, loose, misfiled>>

\* getAvailableIOBoards
ProbeStep(t) ==
    /\ Head1(t, "probe")
    /\ lock = Nobody
    /\ available' \in SUBSET Modules
    /\ Disturb(t, LAMBDA u : available' # available /\ prog[u] # <<>>)
    /\ Go(t)
    /\ UNCHANGED <<active, regs, lock, hashes, fetched, nops, own, misled, astray, loose, misfiled>>

LoadStep(t) ==
    /\ Head1(t, "load")
    /\ regs' = Head(prog[t]).file
    /\ Disturb(t, LAMBDA u : own[u].wrote # None)
    /\ loose' = Modules
    /\ Go(t)
    /\ UNCHANGED <<available, active, lock, hashes, fetched, nops, own, misled, astray, misfiled>>

Item(i, m) ==
    CASE i.kind = "ready"  -> CheckIOBReady(m)
      [] i.kind = "failed" -> LockSet(m) \o Use(m, Values)
      [] i.kind = "entry"  -> WriteEntry(m, i.hash[m])
      [] i.kind = "show"   -> <<[op |-> "show", module |-> m]>>

\* One turn of a loop over modules; each is an operation of its own.
ForStep(t) ==
    /\ Head1(t, "for")
    /\ LET i == Head(prog[t])
           m == First(i.todo)
       IN  /\ i.todo # {}
           /\ Continue(t, Item(i, m) \o <<[i EXCEPT !.todo = @ \ {m}]>> \o Tail(prog[t]))
    /\ Forget(t)
    /\ UNCHANGED <<ppt, hashes, fetched, nops, astray, loose, misfiled>>

\* What has changed since `last`, to be written entry after entry.
CompareStep(t) ==
    /\ Head1(t, "compare")
    /\ Continue(t, <<[op |-> "for", kind |-> "entry", hash |-> shown,
                      todo |-> {m \in Modules : shown[m] # last[m]}]>>)
    /\ UNCHANGED <<ppt, hashes, fetched, nops, ghosts>>

\* Variant: the baseline is what the attributes show by now.
BaselineOfNow(hash) == shown

\* read_config_hash, taken before the first entry was written.
Baseline(hash) == hash

EndFor(t) ==
    /\ Head1(t, "for")
    /\ LET i == Head(prog[t])
       IN  /\ i.todo = {}
           /\ last' = IF i.kind = "entry" THEN Baseline(i.hash) ELSE last
    /\ Go(t)
    /\ UNCHANGED <<ppt, shown, fetched, nops, ghosts>>

\* updateDetRegistryGui; it leaves `last` alone.
ShowStep(t) ==
    /\ Head1(t, "show")
    /\ LET m == Head(prog[t]).module IN shown' = [shown EXCEPT ![m] = regs[m]]
    /\ Go(t)
    /\ UNCHANGED <<ppt, last, fetched, nops, ghosts>>

\* A client changes an attribute.
Change ==
    /\ prog["slot"] = <<>> /\ nops < MaxOps
    /\ \E m \in Modules, v \in Values : v # shown[m] /\ shown' = [shown EXCEPT ![m] = v]
    /\ nops' = nops + 1
    /\ UNCHANGED <<ppt, last, prog, fetched, ghosts>>

-----------------------------------------------------------------------------

\* The device has been initialised: the first updateConfigHash, posted before
\* the connection is opened, has shown the registers and noted them.
Init ==
    /\ available \in SUBSET Modules
    /\ active \in Modules
    /\ regs \in Files
    /\ shown = regs /\ last = regs
    /\ lock = Nobody
    /\ prog = [t \in Thread |-> <<>>]
    /\ fetched = [t \in Thread |-> None]
    /\ nops = 0
    /\ own = [t \in Thread |-> Idle]
    /\ disturbed = {} /\ misled = {} /\ astray = FALSE /\ loose = {} /\ misfiled = {}

Step(t) ==
    \/ Begin(t) \/ SetStep(t) \/ CheckStep(t) \/ FetchStep(t) \/ PutStep(t)
    \/ EntryStep(t) \/ UseStep(t) \/ ProbeStep(t) \/ LoadStep(t) \/ ForStep(t)
    \/ CompareStep(t) \/ EndFor(t) \/ ShowStep(t)

Next == Change \/ \E t \in Thread : Step(t)

Spec == Init /\ [][Next]_vars

-----------------------------------------------------------------------------

\* The active module is one there is, and only who works under it has the mutex.
TypeOK ==
    /\ available \subseteq Modules
    /\ active \in Modules
    /\ {regs, shown, last} \subseteq Content
    /\ lock \in Thread \cup {Nobody}
    /\ fetched \in [Thread -> Modules \cup {None}]
    /\ nops \in 0..MaxOps
    /\ own \in [Thread -> [at : Modules \cup {None}, wrote : Modules \cup {None}]]
    /\ disturbed \subseteq Thread /\ misled \subseteq Thread
    /\ astray \in BOOLEAN
    /\ loose \subseteq Modules /\ misfiled \subseteq Modules

\* Whoever is given a module writes, programs or reads that module, with the
\* value it was given (progSelReg, receiveConfigRegister, updateConfigFromHash,
\* checkIOBDataFailed, ...), except where
\*   - another thread has made another module active after it, has written to
\*     the registers it wrote to, or the IOBs have been counted anew;
\*   - preProgSelReg is given a module without an IOB: its value goes to the
\*     module active before (line 2825), which is then not programmed;
\*   - an entry is for a module that was not active when its registers were
\*     fetched, or has no IOB: then updateConfigFromHash writes and programs
\*     something else all by itself (lines 2301-2307).
\* An entry for the active module is written and programmed as it should be.
RightModule == ~astray

\* The hash updateConfigFromHash compares with is what the registers hold
\* (lines 2259 and 2316): between two writes it differs only for modules whose
\* registers something else has written to - a file, a received configuration,
\* an entry of another module - and for modules whose own entry went to another
\* one (lines 2301-2304): those count as written and are left out from then on.
\* Nothing that tasks show meanwhile makes it differ.
BaselineTrue == ~Writing => \A m \in Modules \ (loose \cup misfiled) : last[m] = regs[m]

=============================================================================
