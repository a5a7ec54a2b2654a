-------------------------- MODULE ScanCycle_proofs --------------------------
(***************************************************************************)
(* Proofs about ScanCycle, for every task table, program and clock bound.  *)
(***************************************************************************)
EXTENDS ScanCycle, TLAPS

\* The arithmetic of the grid: how many whole intervals lie in a delay, and
\* that one more leads past it.
LEMMA WholeIntervals ==
    ASSUME NEW d \in Nat, NEW n \in Nat, n > 0
    PROVE  /\ d \div n \in Nat
           /\ d < (1 + (d \div n)) * n
  BY SMT

LEMMA ProductNat ==
    ASSUME NEW a \in Nat, NEW b \in Nat
    PROVE  a * b \in Nat
  BY SMT

LEMMA GridSum ==
    ASSUME NEW o \in Int, NEW a \in Nat, NEW b \in Nat, NEW n \in Nat
    PROVE  o + a * n + (1 + b) * n = o + (a + 1 + b) * n
  BY SMT

\* What a slot that has come leads to (scan.rs:212-223).
LEMMA NextSlotLater ==
    ASSUME TypeOK, NEW i \in Tasks, SlotReached(i)
    PROVE  /\ Due0(i) \in Nat
           /\ Due0(i) <= now
           /\ Missed(i) \in Nat
           /\ NextSlot(i) \in Nat
           /\ now < NextSlot(i)
  <1>1. Due0(i) \in Nat /\ Due0(i) <= now /\ now \in Nat
    BY DEF TypeOK, SlotReached, Due0, Unscheduled
  <1>2. Interval[i] \in Nat /\ Interval[i] > 0
    BY TasksAssumption DEF SlotReached
  <1> DEFINE d == now - Due0(i)
             m == Missed(i)
  <1>3. d \in Nat /\ m = d \div Interval[i]
    BY <1>1 DEF Missed
  <1>4. m \in Nat /\ d < (1 + m) * Interval[i]
    BY <1>2, <1>3, WholeIntervals
  <1>5. (1 + m) * Interval[i] \in Nat
    BY <1>2, <1>4, ProductNat
  <1> HIDE DEF m
  <1>6. NextSlot(i) = Due0(i) + (1 + m) * Interval[i]
    BY DEF NextSlot, m
  <1>7. NextSlot(i) \in Nat /\ now < NextSlot(i)
    BY <1>1, <1>4, <1>5, <1>6
  <1> QED  BY <1>1, <1>4, <1>7 DEF m

-----------------------------------------------------------------------------
\* The part of the state that finding the due tasks changes keeps its type.
LEMMA ReadinessType ==
    ASSUME TypeOK, Readiness
    PROVE  /\ inputs' \in [Tasks -> BOOLEAN]
           /\ prevSingle' \in [Tasks -> BOOLEAN]
           /\ nextDue' \in [Tasks -> Nat \cup {Unscheduled}]
           /\ origin' \in [Tasks -> Nat \cup {Unscheduled}]
           /\ slots' \in [Tasks -> Nat]
  <1>1. inputs' \in [Tasks -> BOOLEAN] /\ prevSingle' \in [Tasks -> BOOLEAN]
    BY DEF TypeOK, Readiness
  <1>2. ASSUME NEW i \in Tasks
        PROVE  /\ nextDue'[i] \in Nat \cup {Unscheduled}
               /\ origin'[i] \in Nat \cup {Unscheduled}
               /\ slots'[i] \in Nat
    <2>1. CASE SlotReached(i)
      BY <2>1, NextSlotLater DEF TypeOK, Readiness
    <2>2. CASE ~SlotReached(i)
      BY <2>2 DEF TypeOK, Readiness, Due0
    <2> QED  BY <2>1, <2>2
  <1> QED  BY <1>1, <1>2 DEF Readiness

LEMMA StopOnFaultType ==
    ASSUME NEW f \in NoFault..InitFault, StopOnFault(f)
    PROVE  /\ running' \in [Tasks -> BOOLEAN]
           /\ q' \in OutValues /\ out' \in OutValues
           /\ fault' \in NoFault..InitFault
  BY DataAssumption DEF StopOnFault, AllStopped

LEMMA ScanType ==
    ASSUME TypeOK,
           NEW q0 \in OutValues, NEW retain0 \in Contents,
           Scan(q0, retain0), started' \in BOOLEAN
    PROVE  TypeOK'
  <1>1. /\ inputs' \in [Tasks -> BOOLEAN]
        /\ prevSingle' \in [Tasks -> BOOLEAN]
        /\ nextDue' \in [Tasks -> Nat \cup {Unscheduled}]
        /\ origin' \in [Tasks -> Nat \cup {Unscheduled}]
        /\ slots' \in [Tasks -> Nat]
    BY ReadinessType DEF Scan
  <1> DEFINE Rest == /\ ran' \subseteq Tasks /\ retain' \in Contents
                     /\ running' \in [Tasks -> BOOLEAN]
                     /\ q' \in OutValues /\ out' \in OutValues
                     /\ fault' \in NoFault..InitFault
  <1>2. Rest
    <2>1. CASE RunAll(q0, retain0)
      BY <2>1 DEF TypeOK, RunAll, DueTasks
    <2>2. ASSUME NEW f \in Tasks, RunUntilFault(f)
          PROVE  Rest
      <3>1. f \in NoFault..InitFault
        BY TasksAssumption DEF Tasks, NoFault, InitFault
      <3> QED  BY <2>2, <3>1, StopOnFaultType DEF RunUntilFault, DueTasks
    <2> QED  BY <2>1, <2>2 DEF Scan
  <1>3. lastRun' \in [Tasks -> Nat \cup {Unscheduled}] /\ held' \subseteq Tasks
    BY DEF Scan, NoteRuns, TypeOK
  <1> QED  BY <1>1, <1>2, <1>3 DEF Scan, TypeOK

\* Restoring and initializing yield whole regions.
LEMMA BootContents ==
    ASSUME TypeOK
    PROVE  /\ Restored \in Contents
           /\ Initial \in Contents /\ Zeroed \in Contents
           /\ PartlyInitialised \subseteq Contents
  BY DataAssumption
  DEF TypeOK, Restored, Files, Initial, Zeroed, Contents, PartlyInitialised

LEMMA InitFaultsType ==
    ASSUME TypeOK, InitFaults
    PROVE  /\ started' \in BOOLEAN /\ fault' \in NoFault..InitFault
           /\ running' \in [Tasks -> BOOLEAN]
           /\ q' \in OutValues /\ out' \in OutValues
           /\ retain' \in Contents
  <1>1. InitFault \in NoFault..InitFault
    BY TasksAssumption DEF NoFault, InitFault
  <1> QED  BY <1>1, StopOnFaultType, BootContents DEF InitFaults

LEMMA ForgetScheduleType ==
    ASSUME ForgetSchedule
    PROVE  /\ nextDue' \in [Tasks -> Nat \cup {Unscheduled}]
           /\ prevSingle' \in [Tasks -> BOOLEAN]
           /\ origin' \in [Tasks -> Nat \cup {Unscheduled}]
           /\ slots' \in [Tasks -> Nat]
           /\ lastRun' \in [Tasks -> Nat \cup {Unscheduled}]
           /\ held' \subseteq Tasks
  BY DEF ForgetSchedule, NoSchedule, NoInputs

\* A save that stops part-way still leaves a file of the program's shape.
LEMMA TornFileType ==
    ASSUME TypeOK, NEW len \in 0..(NRegions - 1), TornFile(len)
    PROVE  storage' \in Files /\ lastSave' \subseteq [sig: Signatures, vals: Contents]
  BY DataAssumption DEF TornFile, TypeOK, Files, Contents, Regions

-----------------------------------------------------------------------------
\* Every variable keeps its type: next_due stays a time, the fault names a
\* task of the table, a retain file has the program's regions, whatever is
\* loaded, saved, stopped or late (ScanCycle::step_at, start, save_retain).
THEOREM TypeCorrect == Spec => []TypeOK
  <1>1. Init => TypeOK
    <2> SUFFICES ASSUME Init PROVE TypeOK
      OBVIOUS
    <2>1. NoFile \in Files
      BY DataAssumption DEF NoFile, Files, Zeroed, Contents, Regions
    <2>2. Zeroed \in Contents /\ 0 \in OutValues /\ NoFault \in NoFault..InitFault
      BY DataAssumption, TasksAssumption DEF Zeroed, Contents, NoFault, InitFault
    <2> QED
      BY <2>1, <2>2 DEF Init, TypeOK, AllRunning, NoInputs, NoSchedule
  <1>2. TypeOK /\ [Next]_vars => TypeOK'
    <2> SUFFICES ASSUME TypeOK, [Next]_vars PROVE TypeOK'
      OBVIOUS
    <2>1. CASE Start
      <3>1. /\ nextDue' \in [Tasks -> Nat \cup {Unscheduled}]
            /\ prevSingle' \in [Tasks -> BOOLEAN]
            /\ origin' \in [Tasks -> Nat \cup {Unscheduled}]
            /\ slots' \in [Tasks -> Nat]
            /\ lastRun' \in [Tasks -> Nat \cup {Unscheduled}]
            /\ held' \subseteq Tasks
        BY <2>1, ForgetScheduleType DEF Start, ResetSchedule, gridVars, TypeOK
      <3>2. /\ started' \in BOOLEAN /\ fault' \in NoFault..InitFault
            /\ running' \in [Tasks -> BOOLEAN]
            /\ q' \in OutValues /\ out' \in OutValues
            /\ retain' \in Contents
        <4>1. CASE InitFaults
          BY <4>1, InitFaultsType
        <4>2. CASE ~InitFaults
          <5>1. started' \in BOOLEAN /\ retain' \in Contents
            BY <2>1, <4>2, BootContents DEF Start
          <5>2. running' \in [Tasks -> BOOLEAN]
            BY <2>1, <4>2 DEF Start, TypeOK, AllRunning
          <5>3. fault' \in NoFault..InitFault
            BY <2>1, <4>2, TasksAssumption DEF Start, NoFault, InitFault
          <5>4. q' \in OutValues /\ out' \in OutValues
            BY <2>1, <4>2 DEF Start, TypeOK
          <5> QED  BY <5>1, <5>2, <5>3, <5>4
        <4> QED  BY <4>1, <4>2
      <3> QED  BY <2>1, <3>1, <3>2 DEF Start, TypeOK
    <2>2. CASE Step
      BY <2>2, ScanType DEF Step, TypeOK
    <2>3. CASE FirstStep
      BY <2>3, ScanType, BootContents DEF FirstStep
    <2>4. CASE FirstStepFaults
      BY <2>4, InitFaultsType DEF FirstStepFaults, TypeOK, gridVars
    <2>5. CASE StepRefused
      BY <2>5 DEF StepRefused, TypeOK, platVars, progVars, gridVars
    <2>6. ASSUME NEW i \in Tasks, StopTask(i) \/ StartTask(i)
          PROVE  TypeOK'
      BY <2>6 DEF StopTask, StartTask, TypeOK, progVars, gridVars
    <2>7. ASSUME NEW i \in Tasks, SetField(i)
          PROVE  TypeOK'
      BY <2>7 DEF SetField, TypeOK, progVars, gridVars
    <2>8. CASE Tick
      BY <2>8 DEF Tick, TypeOK, progVars, gridVars
    <2>9. CASE SaveRetain
      BY <2>9, DataAssumption DEF SaveRetain, TypeOK, Files, progVars, gridVars
    <2>10. CASE SaveRetainFails
      BY <2>10, TornFileType DEF SaveRetainFails, TypeOK, progVars, gridVars
    <2>11. CASE ClearRetain
      BY <2>11, DataAssumption
      DEF ClearRetain, TypeOK, NoFile, Files, Zeroed, Contents, progVars, gridVars
    <2>12. CASE PowerCycle
      <3>1. storage' \in Files /\ lastSave' \subseteq [sig: Signatures, vals: Contents]
        BY <2>12, TornFileType DEF PowerCycle, TypeOK
      <3>2. Zeroed \in Contents /\ 0 \in OutValues /\ NoFault \in NoFault..InitFault
        BY DataAssumption, TasksAssumption DEF Zeroed, Contents, NoFault, InitFault
      <3> QED
        BY <2>12, <3>1, <3>2, ForgetScheduleType
        DEF PowerCycle, TypeOK, AllRunning, NoInputs
    <2>13. CASE UNCHANGED vars
      BY <2>13 DEF vars, platVars, progVars, cycleVars, TypeOK
    <2> QED
      BY <2>1, <2>2, <2>3, <2>4, <2>5, <2>6, <2>7, <2>8, <2>9, <2>10, <2>11,
         <2>12, <2>13 DEF Next
  <1> QED  BY <1>1, <1>2, PTL DEF Spec

-----------------------------------------------------------------------------
(***************************************************************************)
(* The schedule.  OnGrid and NoBurst are not inductive alone: a task that  *)
(* has no schedule must have used no slot, or the first activation would   *)
(* start the count in the middle.                                          *)
(***************************************************************************)
UnscheduledIsFresh ==
    \A i \in Tasks: nextDue[i] = Unscheduled => slots[i] = 0 /\ lastRun[i] = Unscheduled

GridInv == OnGrid /\ NoBurst /\ UnscheduledIsFresh

\* Finding the due tasks, and noting which of them a slot ran, keeps every
\* schedule on its grid (scan.rs:189-225).
LEMMA ScanKeepsGrid ==
    ASSUME TypeOK, GridInv, Readiness, NoteRuns
    PROVE  GridInv'
  <1> SUFFICES ASSUME NEW i \in Tasks
               PROVE  /\ nextDue'[i] # Unscheduled =>
                            nextDue'[i] = origin'[i] + slots'[i] * Interval[i]
                      /\ lastRun'[i] # Unscheduled => lastRun'[i] < nextDue'[i]
                      /\ nextDue'[i] = Unscheduled =>
                            slots'[i] = 0 /\ lastRun'[i] = Unscheduled
    BY DEF GridInv, OnGrid, NoBurst, UnscheduledIsFresh
  <1>1. /\ nextDue[i] \in Nat \cup {Unscheduled} /\ slots[i] \in Nat
        /\ lastRun[i] \in Nat \cup {Unscheduled} /\ now \in Nat
        /\ origin[i] \in Nat \cup {Unscheduled} /\ Interval[i] \in Nat
    BY TasksAssumption DEF TypeOK
  <1>2. CASE SlotReached(i)
    <2>1. /\ Due0(i) \in Nat /\ Due0(i) <= now /\ Missed(i) \in Nat
          /\ NextSlot(i) \in Nat /\ now < NextSlot(i)
      BY <1>2, NextSlotLater
    <2>2. /\ nextDue'[i] = NextSlot(i)
          /\ slots'[i] = slots[i] + 1 + Missed(i)
          /\ lastRun'[i] \in {now, lastRun[i]}
      BY <1>2 DEF Readiness, NoteRuns
    <2>3. Due0(i) = origin'[i] + slots[i] * Interval[i] /\ origin'[i] \in Int
      <3>1. CASE nextDue[i] = Unscheduled
        BY <1>1, <1>2, <3>1
        DEF Due0, Readiness, Scheduled, SlotReached, GridInv, UnscheduledIsFresh
      <3>2. CASE nextDue[i] # Unscheduled
        BY <1>1, <3>2 DEF Due0, Readiness, GridInv, OnGrid, Unscheduled
      <3> QED  BY <3>1, <3>2
    <2>4. nextDue'[i] = origin'[i] + slots'[i] * Interval[i]
      BY <1>1, <2>1, <2>2, <2>3, GridSum DEF NextSlot
    <2>5. lastRun'[i] # Unscheduled => lastRun'[i] < nextDue'[i]
      <3>1. CASE lastRun'[i] = now
        BY <2>1, <2>2, <3>1
      <3>2. CASE lastRun'[i] = lastRun[i] /\ lastRun[i] # Unscheduled
        <4>1. lastRun[i] < Due0(i)
          BY <1>1, <3>2 DEF GridInv, NoBurst, UnscheduledIsFresh, Due0
        <4> QED  BY <1>1, <2>1, <2>2, <3>2, <4>1 DEF Unscheduled
      <3> QED  BY <2>2, <3>1, <3>2
    <2> QED  BY <2>1, <2>2, <2>4, <2>5 DEF Unscheduled
  <1>3. CASE ~SlotReached(i)
    <2>1. nextDue'[i] = nextDue[i] /\ origin'[i] = origin[i]
      BY <1>1, <1>3 DEF Readiness, Scheduled, SlotReached, Due0
    <2>2. slots'[i] = slots[i] /\ lastRun'[i] = lastRun[i]
      BY <1>3 DEF Readiness, NoteRuns
    <2> QED  BY <2>1, <2>2 DEF GridInv, OnGrid, NoBurst, UnscheduledIsFresh
  <1> QED  BY <1>2, <1>3

LEMMA ForgetKeepsGrid ==
    ASSUME ForgetSchedule
    PROVE  GridInv'
  BY DEF ForgetSchedule, NoSchedule, GridInv, OnGrid, NoBurst, UnscheduledIsFresh

LEMMA SameScheduleKeepsGrid ==
    ASSUME GridInv, UNCHANGED gridVars
    PROVE  GridInv'
  BY DEF gridVars, GridInv, OnGrid, NoBurst, UnscheduledIsFresh

\* Activations stay on the grid of the first one, every slot is accounted for
\* once, and an overrun is not followed by a burst (scan.rs:212-223).
THEOREM ScheduleCorrect == Spec => []ScheduleKept
  <1>1. Init => GridInv
    BY DEF Init, NoSchedule, GridInv, OnGrid, NoBurst, UnscheduledIsFresh
  <1>2. TypeOK /\ GridInv /\ [Next]_vars => GridInv'
    <2> SUFFICES ASSUME TypeOK, GridInv, [Next]_vars PROVE GridInv'
      OBVIOUS
    <2>1. CASE Start
      BY <2>1, ForgetKeepsGrid, SameScheduleKeepsGrid DEF Start, ResetSchedule
    <2>2. CASE Step
      BY <2>2, ScanKeepsGrid DEF Step, Scan
    <2>3. CASE FirstStep
      BY <2>3, ScanKeepsGrid DEF FirstStep, Scan
    <2>4. CASE FirstStepFaults
      BY <2>4, SameScheduleKeepsGrid DEF FirstStepFaults
    <2>5. CASE StepRefused
      BY <2>5, SameScheduleKeepsGrid DEF StepRefused
    <2>6. ASSUME NEW i \in Tasks, StopTask(i) \/ StartTask(i) \/ SetField(i)
          PROVE  GridInv'
      BY <2>6, SameScheduleKeepsGrid DEF StopTask, StartTask, SetField
    <2>7. CASE Tick \/ SaveRetain \/ SaveRetainFails \/ ClearRetain
      BY <2>7, SameScheduleKeepsGrid DEF Tick, SaveRetain, SaveRetainFails, ClearRetain
    <2>8. CASE PowerCycle
      BY <2>8, ForgetKeepsGrid DEF PowerCycle
    <2>9. CASE UNCHANGED vars
      BY <2>9, SameScheduleKeepsGrid DEF vars, cycleVars, gridVars
    <2> QED
      BY <2>1, <2>2, <2>3, <2>4, <2>5, <2>6, <2>7, <2>8, <2>9 DEF Next
  <1>3. TypeOK /\ GridInv => ScheduleKept
    BY DEF GridInv, ScheduleKept
  <1> QED  BY <1>1, <1>2, <1>3, TypeCorrect, PTL DEF Spec

-----------------------------------------------------------------------------
(***************************************************************************)
(* The safe state.  SafeState needs one fact more to be inductive: a cycle *)
(* nobody started yet has no fault, so the scan that the first step runs   *)
(* after calling start() begins healthy.                                   *)
(***************************************************************************)
FaultInv == SafeState /\ (fault # NoFault => started)

\* A scan of a healthy cycle ends healthy, or with everything cleared.
LEMMA ScanIsSafe ==
    ASSUME NEW q0, NEW retain0, Scan(q0, retain0), fault = NoFault
    PROVE  SafeState'
  <1>1. CASE RunAll(q0, retain0)
    BY <1>1 DEF RunAll, SafeState
  <1>2. ASSUME NEW f \in Tasks, RunUntilFault(f) PROVE SafeState'
    BY <1>2 DEF RunUntilFault, StopOnFault, SafeState
  <1> QED  BY <1>1, <1>2 DEF Scan

LEMMA SameOutputsAreSafe ==
    ASSUME FaultInv, UNCHANGED <<started, fault, q, out>>
    PROVE  FaultInv'
  BY DEF FaultInv, SafeState

\* Every way into a fault clears %Q and flushes it, and only a started cycle is
\* faulted (scan.rs:140-144, 244-263).
LEMMA FaultInvariant == Spec => []FaultInv
  <1>1. Init => FaultInv
    BY DEF Init, FaultInv, SafeState
  <1>2. FaultInv /\ [Next]_vars => FaultInv'
    <2> SUFFICES ASSUME FaultInv, [Next]_vars PROVE FaultInv'
      OBVIOUS
    <2>1. CASE Start
      BY <2>1 DEF Start, InitFaults, StopOnFault, FaultInv, SafeState
    <2>2. CASE Step
      BY <2>2, ScanIsSafe DEF Step, FaultInv
    <2>3. CASE FirstStep
      BY <2>3, ScanIsSafe DEF FirstStep, FaultInv
    <2>4. CASE FirstStepFaults
      BY <2>4 DEF FirstStepFaults, InitFaults, StopOnFault, FaultInv, SafeState
    <2>5. CASE StepRefused
      BY <2>5, SameOutputsAreSafe DEF StepRefused, platVars, progVars
    <2>6. ASSUME NEW i \in Tasks, StopTask(i) \/ StartTask(i) \/ SetField(i)
          PROVE  FaultInv'
      BY <2>6, SameOutputsAreSafe DEF StopTask, StartTask, SetField, progVars
    <2>7. CASE Tick \/ SaveRetain \/ SaveRetainFails \/ ClearRetain
      BY <2>7, SameOutputsAreSafe
      DEF Tick, SaveRetain, SaveRetainFails, ClearRetain, progVars
    <2>8. CASE PowerCycle
      BY <2>8 DEF PowerCycle, FaultInv, SafeState
    <2>9. CASE UNCHANGED vars
      BY <2>9, SameOutputsAreSafe DEF vars, cycleVars, platVars, progVars
    <2> QED
      BY <2>1, <2>2, <2>3, <2>4, <2>5, <2>6, <2>7, <2>8, <2>9 DEF Next
  <1> QED  BY <1>1, <1>2, PTL DEF Spec

\* A stopped PLC has safe outputs, and no action of anyone sets them again
\* before start (scan.rs:244-263).
THEOREM FaultIsSafe == Spec => []SafeState
  <1>1. FaultInv => SafeState
    BY DEF FaultInv
  <1> QED  BY <1>1, FaultInvariant, PTL

\* Whoever calls step on a faulted cycle, and whatever is done to the platform,
\* only start() and a new process change the program again (scan.rs:175-180).
THEOREM FaultHolds == Spec => FaultedUntilStart
  <1>1. FaultInv /\ [Next]_vars =>
          [fault # NoFault /\ ~Start /\ ~PowerCycle =>
             UNCHANGED <<fault, inputs, q, out, retain, nextDue, prevSingle>>]_vars
    <2> SUFFICES ASSUME FaultInv, Next, fault # NoFault, ~Start, ~PowerCycle
                 PROVE  UNCHANGED <<fault, inputs, q, out, retain, nextDue, prevSingle>>
      OBVIOUS
    <2>1. started
      BY DEF FaultInv
    <2>2. CASE StepRefused
      BY <2>2 DEF StepRefused, platVars, progVars, gridVars
    <2>3. ASSUME NEW i \in Tasks, StopTask(i) \/ StartTask(i) \/ SetField(i)
          PROVE  UNCHANGED <<fault, inputs, q, out, retain, nextDue, prevSingle>>
      BY <2>3 DEF StopTask, StartTask, SetField, progVars, gridVars
    <2>4. CASE Tick \/ SaveRetain \/ SaveRetainFails \/ ClearRetain
      BY <2>4 DEF Tick, SaveRetain, SaveRetainFails, ClearRetain, progVars, gridVars
    <2>5. ~Step /\ ~FirstStep /\ ~FirstStepFaults
      BY <2>1 DEF Step, FirstStep, FirstStepFaults
    <2> QED  BY <2>2, <2>3, <2>4, <2>5 DEF Next
  <1> QED  BY <1>1, FaultInvariant, PTL DEF Spec, FaultedUntilStart

-----------------------------------------------------------------------------
(***************************************************************************)
(* Retain data.  The file is whole exactly when the last save completed,   *)
(* and then it holds that save.                                            *)
(***************************************************************************)
FileIsLastSave ==
    lastSave = IF storage.len = NRegions
               THEN {[sig |-> storage.sig, vals |-> storage.vals]}
               ELSE {}

LEMMA TornIsNoSave ==
    ASSUME NEW len \in 0..(NRegions - 1), TornFile(len)
    PROVE  FileIsLastSave'
  BY DataAssumption DEF TornFile, FileIsLastSave

LEMMA SameFile ==
    ASSUME FileIsLastSave, UNCHANGED <<storage, lastSave>>
    PROVE  FileIsLastSave'
  BY DEF FileIsLastSave

LEMMA FileInvariant == Spec => []FileIsLastSave
  <1>1. Init => FileIsLastSave
    BY DataAssumption DEF Init, NoFile, FileIsLastSave
  <1>2. FileIsLastSave /\ [Next]_vars => FileIsLastSave'
    <2> SUFFICES ASSUME FileIsLastSave, [Next]_vars PROVE FileIsLastSave'
      OBVIOUS
    <2>1. CASE Start \/ Step \/ FirstStep \/ FirstStepFaults \/ StepRefused
      BY <2>1, SameFile
      DEF Start, Step, FirstStep, FirstStepFaults, StepRefused, Scan, platVars
    <2>2. ASSUME NEW i \in Tasks, StopTask(i) \/ StartTask(i) \/ SetField(i)
          PROVE  FileIsLastSave'
      BY <2>2, SameFile DEF StopTask, StartTask, SetField
    <2>3. CASE SaveRetain
      BY <2>3 DEF SaveRetain, FileIsLastSave
    <2>4. CASE SaveRetainFails
      BY <2>4, TornIsNoSave DEF SaveRetainFails
    <2>5. CASE ClearRetain
      BY <2>5, DataAssumption DEF ClearRetain, NoFile, FileIsLastSave
    <2>6. CASE PowerCycle
      BY <2>6, TornIsNoSave, SameFile DEF PowerCycle
    <2>7. CASE Tick \/ UNCHANGED vars
      BY <2>7, SameFile DEF Tick, vars, platVars
    <2> QED  BY <2>1, <2>2, <2>3, <2>4, <2>5, <2>6, <2>7 DEF Next
  <1> QED  BY <1>1, <1>2, PTL DEF Spec

\* start() leaves RETAIN exactly as the last completed save of this program,
\* or at the initial values when there is none (app.rs:283-312).
THEOREM RetainIsRestored == Spec => RestoredIsLastSave
  <1>1. FileIsLastSave /\ [Next]_vars =>
          [Start /\ fault' = NoFault =>
             \/ [sig |-> sig, vals |-> retain'] \in lastSave
             \/ retain' = Initial /\ \A s \in lastSave: s.sig # sig]_vars
    <2> SUFFICES ASSUME FileIsLastSave, Start, fault' = NoFault
                 PROVE  \/ [sig |-> sig, vals |-> retain'] \in lastSave
                        \/ retain' = Initial /\ \A s \in lastSave: s.sig # sig
      OBVIOUS
    <2>1. ~InitFaults
      BY TasksAssumption DEF InitFaults, StopOnFault, NoFault, InitFault
    <2>2. retain' = Restored
      BY <2>1 DEF Start
    <2> QED  BY <2>2 DEF Restored, FileIsLastSave
  <1> QED  BY <1>1, FileInvariant, PTL DEF Spec, RestoredIsLastSave
-----------------------------------------------------------------------------
(***************************************************************************)
(* The abstract contract.  The mode of SafePlc is whether the cycle is     *)
(* faulted and its outputs are the platform's, so every way into a fault   *)
(* is its Fault, a flush its Scan, a restart its Go, and all the rest is   *)
(* invisible to it.  FaultInv says that the scan of a first step, too,     *)
(* begins in mode running.                                                 *)
(***************************************************************************)
LEMMA ScanImplements ==
    ASSUME TypeOK', NEW q0, NEW retain0, Scan(q0, retain0), fault = NoFault
    PROVE  Plc!Next
  <1>1. CASE RunAll(q0, retain0)
    BY <1>1 DEF RunAll, TypeOK, Plc!Next, Plc!Scan
  <1>2. ASSUME NEW f \in Tasks, RunUntilFault(f) PROVE Plc!Next
    BY <1>2 DEF RunUntilFault, StopOnFault, Tasks, NoFault, Plc!Next, Plc!Fault
  <1> QED  BY <1>1, <1>2 DEF Scan

LEMMA InitFaultImplements ==
    ASSUME InitFaults
    PROVE  Plc!Next
  BY TasksAssumption
  DEF InitFaults, StopOnFault, NoFault, InitFault, Plc!Next, Plc!Fault

LEMMA InvisibleToPlc ==
    ASSUME UNCHANGED <<fault, out>>
    PROVE  [Plc!Next]_(Plc!vars)
  BY DEF Plc!vars

\* The host runtime is a SafePlc: its outputs are set by the scans of a running
\* cycle only, and every fault puts them in the safe state (scan.rs:226-263).
THEOREM HostIsSafePlc == Spec => ImplementsSafePlc
  <1>1. Init => Plc!Init
    BY DEF Init, Plc!Init, Plc!Modes
  <1>2. TypeOK' /\ FaultInv /\ [Next]_vars => [Plc!Next]_(Plc!vars)
    <2> SUFFICES ASSUME TypeOK', FaultInv, [Next]_vars
                 PROVE  [Plc!Next]_(Plc!vars)
      OBVIOUS
    <2>1. CASE Start
      <3>1. CASE InitFaults
        BY <3>1, InitFaultImplements
      <3>2. CASE ~InitFaults
        <4>1. fault' = NoFault /\ out' = out
          BY <2>1, <3>2 DEF Start
        <4> QED  BY <4>1 DEF Plc!Next, Plc!Go
      <3> QED  BY <3>1, <3>2
    <2>2. CASE Step
      BY <2>2, ScanImplements DEF Step
    <2>3. CASE FirstStep
      BY <2>3, ScanImplements DEF FirstStep, FaultInv
    <2>4. CASE FirstStepFaults
      BY <2>4, InitFaultImplements DEF FirstStepFaults
    <2>5. CASE StepRefused
      BY <2>5, InvisibleToPlc DEF StepRefused, platVars
    <2>6. ASSUME NEW i \in Tasks, StopTask(i) \/ StartTask(i) \/ SetField(i)
          PROVE  [Plc!Next]_(Plc!vars)
      BY <2>6, InvisibleToPlc DEF StopTask, StartTask, SetField
    <2>7. CASE Tick \/ SaveRetain \/ SaveRetainFails \/ ClearRetain
      BY <2>7, InvisibleToPlc DEF Tick, SaveRetain, SaveRetainFails, ClearRetain
    <2>8. CASE PowerCycle
      BY <2>8 DEF PowerCycle, Plc!Next, Plc!PowerUp, Plc!Modes
    <2>9. CASE UNCHANGED vars
      BY <2>9, InvisibleToPlc DEF vars, cycleVars, platVars
    <2> QED
      BY <2>1, <2>2, <2>3, <2>4, <2>5, <2>6, <2>7, <2>8, <2>9 DEF Next
  <1> QED
    BY <1>1, <1>2, TypeCorrect, FaultInvariant, PTL
    DEF Spec, ImplementsSafePlc, Plc!Spec

-----------------------------------------------------------------------------
(***************************************************************************)
(* SINGLE.  A task stays in held from the run on its edge until SINGLE is  *)
(* seen FALSE, so the evaluation before this one has seen it TRUE: there   *)
(* is no second edge to run on, and TRUE keeps the interval from running.  *)
(***************************************************************************)
HeldInv == \A i \in held: HasSingle[i] /\ prevSingle[i]

LEMMA ScanKeepsHeld ==
    ASSUME TypeOK, HeldInv, NEW q0, NEW retain0, Scan(q0, retain0)
    PROVE  HeldInv'
  <1> SUFFICES ASSUME NEW i \in held' PROVE HasSingle[i] /\ prevSingle'[i]
    BY DEF HeldInv
  <1>1. i \in Tasks /\ (IF Evaluated(i) THEN inputs'[i] ELSE i \in held)
    BY DEF Scan, NoteRuns
  <1>2. prevSingle'[i] = IF Evaluated(i) THEN inputs'[i] ELSE prevSingle[i]
    BY <1>1 DEF Scan, Readiness
  <1>3. CASE Evaluated(i)
    BY <1>1, <1>2, <1>3 DEF Evaluated
  <1>4. CASE ~Evaluated(i)
    BY <1>1, <1>2, <1>4 DEF HeldInv
  <1> QED  BY <1>3, <1>4

LEMMA SameGridKeepsHeld ==
    ASSUME HeldInv, UNCHANGED gridVars
    PROVE  HeldInv'
  BY DEF HeldInv, gridVars

LEMMA ForgetKeepsHeld ==
    ASSUME ForgetSchedule
    PROVE  HeldInv'
  BY DEF HeldInv, ForgetSchedule

LEMMA HeldInvariant == Spec => []HeldInv
  <1>1. Init => HeldInv
    BY DEF Init, HeldInv
  <1>2. TypeOK /\ HeldInv /\ [Next]_vars => HeldInv'
    <2> SUFFICES ASSUME TypeOK, HeldInv, [Next]_vars PROVE HeldInv'
      OBVIOUS
    <2>1. CASE Start
      BY <2>1, SameGridKeepsHeld, ForgetKeepsHeld DEF Start, ResetSchedule
    <2>2. CASE Step \/ FirstStep
      BY <2>2, ScanKeepsHeld DEF Step, FirstStep
    <2>3. CASE FirstStepFaults \/ StepRefused
      BY <2>3, SameGridKeepsHeld DEF FirstStepFaults, StepRefused
    <2>4. ASSUME NEW i \in Tasks, StopTask(i) \/ StartTask(i) \/ SetField(i)
          PROVE  HeldInv'
      BY <2>4, SameGridKeepsHeld DEF StopTask, StartTask, SetField
    <2>5. CASE Tick \/ SaveRetain \/ SaveRetainFails \/ ClearRetain
      BY <2>5, SameGridKeepsHeld DEF Tick, SaveRetain, SaveRetainFails, ClearRetain
    <2>6. CASE PowerCycle
      BY <2>6, ForgetKeepsHeld DEF PowerCycle
    <2>7. CASE UNCHANGED vars
      BY <2>7 DEF vars, cycleVars, HeldInv
    <2> QED  BY <2>1, <2>2, <2>3, <2>4, <2>5, <2>6, <2>7 DEF Next
  <1> QED  BY <1>1, <1>2, TypeCorrect, PTL DEF Spec

\* SINGLE runs a task once per rising edge, however long it stays TRUE and
\* whoever stops and starts the task in between (scan.rs:193-203, 213-216).
THEOREM OneRunPerEdge == Spec => EdgeRunsOnce
  <1>1. HeldInv /\ [Next]_vars =>
          [Step => \A i \in ran': inputs'[i] => i \notin held]_vars
    <2> SUFFICES ASSUME HeldInv, Step, NEW i \in ran', inputs'[i], i \in held
                 PROVE  FALSE
      OBVIOUS
    <2>1. i \in DueTasks
      BY DEF Step, Scan, RunAll, RunUntilFault
    <2>2. Single(i) /\ ~Rising(i)
      BY DEF HeldInv, Single, Rising
    <2> QED  BY <2>1, <2>2 DEF DueTasks, Single
  <1> QED  BY <1>1, HeldInvariant, PTL DEF Spec, EdgeRunsOnce

-----------------------------------------------------------------------------
(***************************************************************************)
(* The order of a step.  A due task runs unless a fault comes first, and a *)
(* fault lets through exactly what is more urgent than the faulting task.  *)
(***************************************************************************)
LEMMA EdgeIsServed ==
    ASSUME Step, NEW i \in Tasks,
           HasSingle[i], running[i], field[i], ~prevSingle[i]
    PROVE  i \in ran' \/ (fault' \in Tasks /\ Before(fault', i))
  <1>1. i \in DueTasks
    BY DEF Step, Scan, Readiness, DueTasks, Rising, Single
  <1>2. CASE RunAll(q, retain)
    BY <1>1, <1>2 DEF RunAll
  <1>3. ASSUME NEW f \in Tasks, RunUntilFault(f), i \notin ran'
        PROVE  fault' \in Tasks /\ Before(fault', i)
    <2>1. fault' = f /\ i # f /\ ~Before(i, f)
      BY <1>1, <1>3 DEF RunUntilFault, StopOnFault
    <2>2. Before(f, i)
      <3>1. /\ i \in Nat /\ f \in Nat /\ Priority[i] \in Nat /\ Priority[f] \in Nat
        BY <1>3, TasksAssumption DEF Tasks
      <3> QED  BY <3>1, <2>1 DEF Before
    <2> QED  BY <2>1, <2>2, <1>3
  <1> QED  BY <1>2, <1>3 DEF Step, Scan

LEMMA ScanCuts ==
    ASSUME NEW q0, NEW retain0, Scan(q0, retain0),
           NEW f \in Tasks, fault = NoFault, fault' = f
    PROVE  f \in ran' /\ \A i \in ran' \ {f}: Before(i, f)
  <1>1. f # NoFault
    BY TasksAssumption DEF Tasks, NoFault
  <1>2. ~RunAll(q0, retain0)
    BY <1>1 DEF RunAll
  <1>3. RunUntilFault(f)
    BY <1>2 DEF Scan, RunUntilFault, StopOnFault
  <1> QED  BY <1>3 DEF RunUntilFault

LEMMA OnlyScansFaultATask ==
    ASSUME [Next]_vars, NEW f \in Tasks, fault = NoFault, fault' = f
    PROVE  Step \/ FirstStep
  <1>1. f # NoFault /\ f # InitFault
    BY TasksAssumption DEF Tasks, NoFault, InitFault
  <1>2. fault' # fault
    BY <1>1
  <1>3. ~Start /\ ~FirstStepFaults
    BY <1>1 DEF Start, FirstStepFaults, InitFaults, StopOnFault
  <1>4. ~StepRefused /\ ~PowerCycle
    BY <1>1 DEF StepRefused, PowerCycle
  <1>5. \A i \in Tasks: ~StopTask(i) /\ ~StartTask(i) /\ ~SetField(i)
    BY <1>2 DEF StopTask, StartTask, SetField
  <1>6. ~Tick /\ ~SaveRetain /\ ~SaveRetainFails /\ ~ClearRetain
    BY <1>2 DEF Tick, SaveRetain, SaveRetainFails, ClearRetain
  <1>7. ~UNCHANGED vars
    BY <1>2 DEF vars, cycleVars
  <1> QED  BY <1>3, <1>4, <1>5, <1>6, <1>7 DEF Next

\* A step runs every task an edge has made ready but those less urgent than one
\* that faults, and with a faulting task only more urgent ones
\* (scan.rs:181-242).
THEOREM StepsAreInOrder == Spec => StepInOrder
  <1>1. [Next]_vars =>
          [Step => \A i \in Tasks:
              HasSingle[i] /\ running[i] /\ field[i] /\ ~prevSingle[i]
                  => i \in ran' \/ (fault' \in Tasks /\ Before(fault', i))]_vars
    BY EdgeIsServed
  <1>2. [Next]_vars =>
          [\A f \in Tasks: fault = NoFault /\ fault' = f =>
              /\ f \in ran'
              /\ \A i \in ran' \ {f}: Before(i, f)]_vars
    <2> SUFFICES ASSUME [Next]_vars, NEW f \in Tasks, fault = NoFault, fault' = f
                 PROVE  f \in ran' /\ \A i \in ran' \ {f}: Before(i, f)
      OBVIOUS
    <2>1. Step \/ FirstStep
      BY OnlyScansFaultATask
    <2> QED  BY <2>1, ScanCuts DEF Step, FirstStep
  <1> QED  BY <1>1, <1>2, PTL DEF Spec, StepInOrder, EdgeServed, FaultCutsStep
=============================================================================
