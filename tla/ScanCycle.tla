------------------------------ MODULE ScanCycle ------------------------------
(***************************************************************************)
(* The scan cycle of the host runtime: plcc_hal::scan::ScanCycle driving a *)
(* compiled Application on the simulator Platform                          *)
(* (crates/plcc-hal/src/{scan,app,simulator}.rs).                          *)
(*                                                                         *)
(* One Step latches the inputs, finds the due tasks, runs them in priority *)
(* order and flushes the outputs; a runtime fault in the middle stops the  *)
(* PLC.  The step is one synchronous call on one thread, so it is one      *)
(* action.  Between steps anyone who holds the Platform may change an      *)
(* input, stop and start tasks, save or clear the retain data, call start  *)
(* again, or cut the power.                                                *)
(*                                                                         *)
(* What a compiled program does is data: a run may leave any value in %Q   *)
(* and in the RETAIN variables, or fault.  What it may not touch is        *)
(* control: the schedule and the platform's scheduler are the cycle's own. *)
(***************************************************************************)
EXTENDS Integers, FiniteSets

CONSTANTS
    NTasks,       \* length of the module's task table
    Interval,     \* cycle time of each task; 0 = event-only or free-running
    Priority,     \* IEC priority: 0 is the most urgent
    HasSingle,    \* does the task have a SINGLE input
    OutValues,    \* values of the %Q area; 0 is the safe state
    NRegions,     \* number of RETAIN regions of the program
    RetainValues, \* values of one RETAIN region; 0 is what .bss holds
    RetainInit,   \* the declared initial value of a RETAIN region
    Signatures,   \* layout signatures of the programs that may be loaded
    MaxTime       \* bound: the clock stops here

Tasks   == 1..NTasks
Regions == 1..NRegions

ASSUME TasksAssumption ==
    /\ NTasks \in Nat \ {0}
    /\ Interval \in [Tasks -> Nat]
    /\ Priority \in [Tasks -> Nat]
    /\ HasSingle \in [Tasks -> BOOLEAN]

ASSUME DataAssumption ==
    /\ 0 \in OutValues
    /\ NRegions \in Nat
    /\ {0, RetainInit} \subseteq RetainValues
    /\ Signatures # {}
    /\ MaxTime \in Nat

VARIABLES
    started,    \* has start() been called (directly or by the first step)
    fault,      \* what stopped the cycle: NoFault, InitFault or a task
    running,    \* the platform scheduler's running flag of each task
    nextDue,    \* next activation of each periodic task, or Unscheduled
    prevSingle, \* SINGLE as the last evaluation of the task saw it
    now,        \* the platform clock
    field,      \* the field inputs; each drives the SINGLE of one task
    inputs,     \* the program's %I area, latched from the field
    q,          \* the program's %Q area
    out,        \* the platform's outputs
    retain,     \* the program's RETAIN regions
    sig,        \* the loaded program's retain signature
    storage,    \* the retain file
    ran         \* the tasks the last step ran (StepReport.ran)

(***************************************************************************)
(* History variables: no code reads them, the properties do.               *)
(***************************************************************************)
VARIABLES
    origin,     \* first activation of the task's current schedule
    slots,      \* grid slots since then: run, held by SINGLE, or skipped
    lastRun,    \* time of the last run a grid slot caused
    held,       \* tasks whose SINGLE stayed TRUE since they ran on its edge
    lastSave    \* the last snapshot that reached the file whole

platVars  == <<running, now, field, out, storage>>
progVars  == <<inputs, q, retain, sig>>
cycleVars == <<started, fault, nextDue, prevSingle, ran>>
gridVars  == <<nextDue, prevSingle, origin, slots, lastRun, held>>
vars == <<platVars, progVars, cycleVars, origin, slots, lastRun, held, lastSave>>

NoFault     == 0
InitFault   == NTasks + 1
Unscheduled == -1

AllStopped == [i \in Tasks |-> FALSE]
AllRunning == [i \in Tasks |-> TRUE]
NoInputs   == [i \in Tasks |-> FALSE]
Contents   == [Regions -> RetainValues]
Zeroed     == [r \in Regions |-> 0]
Initial    == [r \in Regions |-> RetainInit]

\* A retain file: the snapshot's signature, its regions, and how many of them
\* are whole (-1: there is no file).
Files  == [sig: Signatures, len: -1..NRegions, vals: Contents]
NoFile == [sig |-> CHOOSE s \in Signatures: TRUE, len |-> -1, vals |-> Zeroed]

TypeOK ==
    /\ started \in BOOLEAN
    /\ fault \in NoFault..InitFault
    /\ running \in [Tasks -> BOOLEAN]
    /\ nextDue \in [Tasks -> Nat \cup {Unscheduled}]
    /\ prevSingle \in [Tasks -> BOOLEAN]
    /\ now \in Nat
    /\ field \in [Tasks -> BOOLEAN]
    /\ inputs \in [Tasks -> BOOLEAN]
    /\ q \in OutValues
    /\ out \in OutValues
    /\ retain \in Contents
    /\ sig \in Signatures
    /\ storage \in Files
    /\ ran \subseteq Tasks
    /\ origin \in [Tasks -> Nat \cup {Unscheduled}]
    /\ slots \in [Tasks -> Nat]
    /\ lastRun \in [Tasks -> Nat \cup {Unscheduled}]
    /\ held \subseteq Tasks
    /\ lastSave \subseteq [sig: Signatures, vals: Contents]

-----------------------------------------------------------------------------
\* ScanCycle::new on a freshly loaded module and a new platform: every task is
\* created and started, .bss is zero and nothing is scheduled yet.
NoSchedule == [i \in Tasks |-> Unscheduled]

Init ==
    /\ started = FALSE
    /\ fault = NoFault
    /\ running = AllRunning
    /\ nextDue = NoSchedule
    /\ prevSingle = NoInputs
    /\ now = 0
    /\ field = NoInputs
    /\ inputs = NoInputs
    /\ q = 0
    /\ out = 0
    /\ retain = Zeroed
    /\ sig \in Signatures
    /\ storage = NoFile
    /\ ran = {}
    /\ origin = NoSchedule
    /\ slots = [i \in Tasks |-> 0]
    /\ lastRun = NoSchedule
    /\ held = {}
    /\ lastSave = {}

-----------------------------------------------------------------------------
\* An operator whose name ends in _Mut is a wrong form of the definition that
\* follows it.  No specification uses one: it shows which slip a property
\* catches.

StopOnFault_Mut(f) ==   \* forgets to flush the cleared image
    /\ running' = AllStopped
    /\ q' = 0
    /\ out' = out
    /\ fault' = f

\* stop_on_fault: stop every task, clear %Q and flush it.
StopOnFault(f) ==
    /\ running' = AllStopped
    /\ q' = 0
    /\ out' = 0
    /\ fault' = f

Restored_Mut ==         \* copies each region before it has seen them all
    [r \in Regions |->
        IF storage.sig = sig /\ r <= storage.len
        THEN storage.vals[r]
        ELSE RetainInit]

\* restore_retain: the whole file is validated before anything is written, so
\* the regions hold either the file's snapshot or the initial values.
Restored ==
    IF storage.len = NRegions /\ storage.sig = sig
    THEN storage.vals
    ELSE Initial

\* A fault in an initial value interrupts plcc_init part-way.
PartlyInitialised ==
    {v \in Contents: \A r \in Regions: v[r] \in {retain[r], RetainInit}}

\* try_init failed: the cycle is started and faulted, nothing was restored.
InitFaults ==
    /\ started' = TRUE
    /\ StopOnFault(InitFault)
    /\ retain' \in PartlyInitialised

\* start() clears the schedule only when it clears a fault.
ForgetSchedule ==
    /\ nextDue' = NoSchedule
    /\ prevSingle' = NoInputs
    /\ origin' = NoSchedule
    /\ slots' = [i \in Tasks |-> 0]
    /\ lastRun' = NoSchedule
    /\ held' = {}

ResetSchedule ==
    IF fault # NoFault THEN ForgetSchedule ELSE UNCHANGED gridVars

\* start(): after a fault this is the restart.
Start ==
    /\ ResetSchedule
    /\ \/ InitFaults
       \/ /\ started' = TRUE
          /\ fault' = NoFault
          /\ running' = IF fault # NoFault THEN AllRunning ELSE running
          /\ q' \in OutValues
          /\ retain' = Restored
          /\ out' = out
    /\ ran' = {}
    /\ UNCHANGED <<now, field, inputs, sig, storage, lastSave>>

-----------------------------------------------------------------------------

\* Readiness (IEC 61131-3 6.8.2), evaluated on the inputs just latched.
Single(i)  == HasSingle[i] /\ inputs'[i]
Rising(i)  == Single(i) /\ ~prevSingle[i]
Due0(i)    == IF nextDue[i] = Unscheduled THEN now ELSE nextDue[i]

SlotReached_Mut(i) ==   \* SINGLE does not consume the slots it holds back
    running[i] /\ ~Single(i) /\ Interval[i] > 0 /\ now >= Due0(i)

\* A running periodic task without a rising edge whose activation has come.
SlotReached(i) ==
    running[i] /\ ~Rising(i) /\ Interval[i] > 0 /\ now >= Due0(i)

DueTasks_Mut ==         \* the interval runs the task while SINGLE is TRUE
    {i \in Tasks:
        /\ running[i]
        /\ \/ Rising(i)
           \/ SlotReached(i)
           \/ Interval[i] = 0 /\ ~HasSingle[i]}

DueTasks ==
    {i \in Tasks:
        /\ running[i]
        /\ \/ Rising(i)
           \/ SlotReached(i) /\ ~Single(i)
           \/ Interval[i] = 0 /\ ~HasSingle[i]}

\* Activations a late task missed besides the one it has now.
Missed(i) == (now - Due0(i)) \div Interval[i]

NextSlot_Mut(i) ==      \* a late task starts a new phase
    LET n == Due0(i) + Interval[i]
    IN  IF n > now THEN n ELSE now + Interval[i]

\* next_due stays on the grid of the first activation.
NextSlot(i) == Due0(i) + (1 + Missed(i)) * Interval[i]

Evaluated(i) == running[i] /\ HasSingle[i]
Scheduled(i) == running[i] /\ ~Rising(i) /\ Interval[i] > 0

Readiness ==
    /\ inputs' = field
    /\ prevSingle' = [i \in Tasks |->
                        IF Evaluated(i) THEN inputs'[i] ELSE prevSingle[i]]
    /\ nextDue' = [i \in Tasks |->
                        IF SlotReached(i) THEN NextSlot(i)
                        ELSE IF Scheduled(i) THEN Due0(i) ELSE nextDue[i]]
    /\ origin' = [i \in Tasks |->
                        IF Scheduled(i) /\ nextDue[i] = Unscheduled
                        THEN now ELSE origin[i]]
    /\ slots' = [i \in Tasks |->
                        IF SlotReached(i) THEN slots[i] + 1 + Missed(i)
                        ELSE slots[i]]

\* due.sort_by_key(priority, index)
Before(i, j) ==
    \/ Priority[i] < Priority[j]
    \/ Priority[i] = Priority[j] /\ i < j

NoteRuns ==
    /\ lastRun' = [i \in Tasks |->
                    IF i \in ran' /\ SlotReached(i) THEN now ELSE lastRun[i]]
    /\ held' = {i \in Tasks:
                    IF Evaluated(i) THEN inputs'[i] /\ i \in held \cup ran'
                    ELSE i \in held}

\* Every due task ran; the outputs are flushed.
RunAll(q0, retain0) ==
    /\ ran' = DueTasks
    /\ IF DueTasks = {}
       THEN q' = q0 /\ retain' = retain0
       ELSE q' \in OutValues /\ retain' \in Contents
    /\ out' = q'
    /\ UNCHANGED <<fault, running>>

RunUntilFault_Mut(f) == \* the tasks after the faulting one still run
    /\ f \in DueTasks
    /\ ran' = DueTasks
    /\ retain' \in Contents
    /\ StopOnFault(f)

\* Task f faulted part-way: nothing less urgent runs any more.
RunUntilFault(f) ==
    /\ f \in DueTasks
    /\ ran' = {i \in DueTasks: i = f \/ Before(i, f)}
    /\ retain' \in Contents
    /\ StopOnFault(f)

Scan(q0, retain0) ==
    /\ Readiness
    /\ \/ RunAll(q0, retain0)
       \/ \E f \in Tasks: RunUntilFault(f)
    /\ NoteRuns
    /\ UNCHANGED <<now, field, sig, storage, lastSave>>

Step_Mut ==             \* does not look at the fault
    /\ started
    /\ Scan(q, retain)
    /\ UNCHANGED started

\* step_at() on a started cycle.
Step ==
    /\ started
    /\ fault = NoFault
    /\ Scan(q, retain)
    /\ UNCHANGED started

\* step_at() on a cycle nobody started: it calls start() first.
FirstStep ==
    /\ ~started
    /\ started' = TRUE
    /\ \E q0 \in OutValues: Scan(q0, Restored)

FirstStepFaults ==
    /\ ~started
    /\ InitFaults
    /\ ran' = {}
    /\ UNCHANGED <<gridVars, now, field, inputs, sig, storage, lastSave>>

\* step_at() on a faulted cycle returns Err(Fault) before it touches anything.
StepRefused ==
    /\ fault # NoFault
    /\ started
    /\ ran' = {}
    /\ UNCHANGED <<platVars, progVars, started, fault, gridVars, lastSave>>

-----------------------------------------------------------------------------
\* What the holder of the Platform may do between two steps.

\* stop_task / start_task through the platform's scheduler.
StopTask(i) ==
    /\ running' = [running EXCEPT ![i] = FALSE]
    /\ UNCHANGED <<now, field, out, storage, progVars, started, fault, ran,
                   gridVars, lastSave>>

StartTask(i) ==
    /\ running' = [running EXCEPT ![i] = TRUE]
    /\ UNCHANGED <<now, field, out, storage, progVars, started, fault, ran,
                   gridVars, lastSave>>

SetField(i) ==
    /\ HasSingle[i]
    /\ field' = [field EXCEPT ![i] = ~@]
    /\ UNCHANGED <<running, now, out, storage, progVars, started, fault, ran,
                   gridVars, lastSave>>

Tick ==
    /\ now < MaxTime
    /\ now' = now + 1
    /\ UNCHANGED <<running, field, out, storage, progVars, started, fault, ran,
                   gridVars, lastSave>>

\* save_retain: the file is truncated and rewritten in place.  An I/O error
\* leaves a prefix; TooLarge and NotAvailable leave the file alone (no step).
SaveRetain ==
    /\ storage' = [sig |-> sig, len |-> NRegions, vals |-> retain]
    /\ lastSave' = {[sig |-> sig, vals |-> retain]}
    /\ UNCHANGED <<running, now, field, out, progVars, started, fault, ran,
                   gridVars>>

TornFile(len) ==
    /\ storage' = [sig |-> sig, len |-> len,
                   vals |-> [r \in Regions |-> IF r <= len THEN retain[r] ELSE 0]]
    /\ lastSave' = {}

SaveRetainFails ==
    /\ \E len \in 0..(NRegions - 1): TornFile(len)
    /\ UNCHANGED <<running, now, field, out, progVars, started, fault, ran,
                   gridVars>>

\* RetainStorage::clear.
ClearRetain ==
    /\ storage' = NoFile
    /\ lastSave' = {}
    /\ UNCHANGED <<running, now, field, out, progVars, started, fault, ran,
                   gridVars>>

\* Power off and on: a fresh process loads the same or another program.  The
\* power may fail while save() rewrites the file.
PowerCycle ==
    /\ started' = FALSE
    /\ fault' = NoFault
    /\ running' = AllRunning
    /\ now' = 0
    /\ inputs' = NoInputs
    /\ q' = 0
    /\ out' = 0
    /\ retain' = Zeroed
    /\ sig' \in Signatures
    /\ ran' = {}
    /\ ForgetSchedule
    /\ \/ UNCHANGED <<storage, lastSave>>
       \/ \E len \in 0..(NRegions - 1): TornFile(len)
    /\ UNCHANGED field

Next ==
    \/ Start
    \/ Step
    \/ FirstStep
    \/ FirstStepFaults
    \/ StepRefused
    \/ \E i \in Tasks: StopTask(i)
    \/ \E i \in Tasks: StartTask(i)
    \/ \E i \in Tasks: SetField(i)
    \/ Tick
    \/ SaveRetain
    \/ SaveRetainFails
    \/ ClearRetain
    \/ PowerCycle

Spec == Init /\ [][Next]_vars

\* The host's loop calls step again and again (the for loop of linux_sim);
\* nothing else is owed.
FairSpec == Spec /\ WF_vars(Step)

-----------------------------------------------------------------------------
(* Properties. *)

Plc == INSTANCE SafePlc WITH
    Outputs <- OutValues,
    Safe    <- 0,
    mode    <- IF fault = NoFault THEN "running" ELSE "faulted",
    outputs <- out

\* The host runtime keeps what every runtime promises about the outputs
\* (docs/process-image.md, "Runtime faults"; scan.rs:244-263).
ImplementsSafePlc == Plc!Spec

\* A faulted PLC is in its safe state: %Q is zero, so no later flush can bring
\* the old outputs back, and so are the platform's outputs - even when someone
\* starts the tasks again behind the cycle's back (scan.rs:244-256).
SafeState == fault # NoFault => q = 0 /\ out = 0

\* Until start() restarts it, a faulted cycle runs nothing: neither the
\* program's memory nor its schedule changes, whoever calls step and whatever
\* is done to the scheduler (scan.rs:40-42, 175-180).
FaultedUntilStart ==
    [][fault # NoFault /\ ~Start /\ ~PowerCycle =>
        UNCHANGED <<fault, inputs, q, out, retain, nextDue, prevSingle>>]_vars

\* Activations never leave the grid of the first one, and every grid slot is
\* accounted for exactly once - run, held back by SINGLE, or skipped as an
\* overrun - however late the steps come (scan.rs:212-223).
OnGrid ==
    \A i \in Tasks:
        nextDue[i] # Unscheduled =>
            nextDue[i] = origin[i] + slots[i] * Interval[i]

\* A late task runs once and skips what it missed: no grid slot causes two
\* runs, so the slot of the last run is over before the next is due
\* (scan.rs:14-15).
NoBurst ==
    \A i \in Tasks: lastRun[i] # Unscheduled => lastRun[i] < nextDue[i]

\* The schedule that every step leaves behind: the grid, and no burst after an
\* overrun (scan.rs:212-223).
ScheduleKept == TypeOK /\ OnGrid /\ NoBurst

\* SINGLE runs a task once per rising edge, and while it stays TRUE the
\* interval does not run it either; stopping and starting the task in between
\* makes no second edge (scan.rs:16, 193-203, 213-216).
EdgeRunsOnce ==
    [][Step => \A i \in ran': inputs'[i] => i \notin held]_vars

\* An edge a running task sees is served in the same step, in spite of
\* everything else that is due, unless a more urgent task faults first
\* (scan.rs:183-184, 195-199, 226-235).
EdgeServed ==
    [][Step => \A i \in Tasks:
        HasSingle[i] /\ running[i] /\ field[i] /\ ~prevSingle[i]
            => i \in ran' \/ (fault' \in Tasks /\ Before(fault', i))]_vars

\* A fault cuts the step short at the faulting task: nothing less urgent has
\* run in it (scan.rs:226-235).
FaultCutsStep ==
    [][\A f \in Tasks: fault = NoFault /\ fault' = f =>
        /\ f \in ran'
        /\ \A i \in ran' \ {f}: Before(i, f)]_vars

\* A step runs every task an edge has made ready, up to the one that faults
\* (scan.rs:181-242).
StepInOrder == EdgeServed /\ FaultCutsStep

\* start() leaves RETAIN either exactly as the last save that completed or at
\* the initial values - never a mixture, never another program's bytes
\* (app.rs:280-312, scan.rs:141-148).
RestoredIsLastSave ==
    [][Start /\ fault' = NoFault =>
        \/ [sig |-> sig, vals |-> retain'] \in lastSave
        \/ retain' = Initial /\ \A s \in lastSave: s.sig # sig]_vars

\* A periodic task that is due is not passed over for ever, whatever SINGLE
\* and the other tasks do: a step takes its slot (scan.rs:212-224).
Overdue(i) ==
    /\ started /\ fault = NoFault /\ running[i]
    /\ nextDue[i] # Unscheduled /\ nextDue[i] <= now

OverdueServed == \A i \in Tasks: Overdue(i) ~> ~Overdue(i)
=============================================================================
