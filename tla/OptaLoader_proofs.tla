-------------------------- MODULE OptaLoader_proofs --------------------------
(***************************************************************************)
(* Proofs about OptaLoader, for every task table, image size, watchdog     *)
(* limit and clock bound.                                                  *)
(***************************************************************************)
EXTENDS OptaLoader, TLAPS

(***************************************************************************)
(* Where the loop is while a call into the program is out, and what holds  *)
(* of the state there.  A fault jumps back into the loop from any of these *)
(* calls, so every argument about a fault needs it.                        *)
(***************************************************************************)
InCall ==
    /\ call \in StartCalls => pc \in {"setup", "console"}
    /\ call = "single" => pc = "ready"
    /\ call = "task" => pc = "run"
    /\ pc = "setup" => call \in StartCalls

Descriptor ==
    /\ call \in {"check", "getApp"} => ~app
    /\ call = "init" => state = "run" /\ app

InTable == pc = "ready" => at \in Tasks

\* A console run drops the descriptor before the state changes.
RunHasApp == state = "run" /\ call \notin StartCalls => app

Control == InCall /\ Descriptor /\ InTable /\ RunHasApp /\ ScansOnlyLoaded

TypeInv == TypeOK /\ Control

LEMMA FirstTask ==
    /\ 1 \in Tasks /\ 1 \in 1..(NTasks + 1) /\ 0 \in 0..Limit
    /\ Tasks \subseteq 1..(NTasks + 1)
    /\ \A t \in Tasks: t + 1 \in 1..(NTasks + 1) /\ (t # NTasks => t + 1 \in Tasks)
  BY TasksAssumption, BoundsAssumption DEF Tasks

LEMMA ZeroWords ==
    /\ Zero \in Words /\ Off \in [Coils -> Bit]
    /\ \A w \in Words: Cleared(w) \in Words /\ CoilsOf(w) \in [Coils -> Bit]
  BY DEF Zero, Off, Words, Bit, Points, Cleared, CoilsOf

LEMMA CurrentImage ==
    ASSUME TypeOK
    PROVE  /\ Cur \in {"idle", "program"}
           /\ image[Cur] \in Words
  BY DEF TypeOK, Cur

\* The memory a reset leaves is well typed and runs nothing.
LEMMA ColdType ==
    ASSUME ColdMemory
    PROVE  /\ state' = "empty" /\ app' = FALSE
           /\ image' \in [{"idle", "program"} -> Words]
           /\ latched' \in [Tasks -> BOOLEAN]
           /\ server' \in Words /\ shadow' \in Words /\ out' \in [Coils -> Bit]
           /\ scanNow' \in Nat /\ due' \subseteq Tasks
           /\ nextDue' \in [Tasks -> Nat] /\ prevSingle' \in [Tasks -> BOOLEAN]
           /\ lastRun' \in [Tasks -> Nat \cup {Never}]
           /\ fresh' \in BOOLEAN /\ touched' \subseteq Points
  BY ZeroWords DEF ColdMemory, NoSchedule

\* Leaving start_program, in setup or in console.
LEMMA RefuseType ==
    ASSUME TypeInv, Refuse, call \in StartCalls
    PROVE  /\ pc' \in {"publish", "console"} /\ call' = "none"
           /\ at' \in 1..(NTasks + 1) /\ ticks' \in 0..Limit
           /\ state' = "empty"
  BY FirstTask DEF TypeInv, Control, InCall, Refuse, CallEnds, StartOver

\* A fault leads back into the loop, with nothing due.
LEMMA FaultType ==
    ASSUME TypeInv, EnterFault, FaultImage
    PROVE  TypeInv'
  <1>1. /\ pc' \in {"publish", "console", "end"} /\ call' = "none"
        /\ state' = "fault" /\ due' = {} /\ scanNow' = 0
        /\ at' \in 1..(NTasks + 1) /\ ticks' \in 0..Limit
    BY FirstTask DEF EnterFault, CallEnds
  <1>2. out' \in [Coils -> Bit]
    BY ZeroWords DEF EnterFault, OutOnFault
  <1>3. image' \in [{"idle", "program"} -> Words] /\ touched' \subseteq Points
    BY ZeroWords DEF FaultImage, TypeInv, TypeOK
  <1>4. TypeOK'
    BY <1>1, <1>2, <1>3 DEF EnterFault, TypeInv, TypeOK, modbus, board, world
  <1>5. Control'
    BY <1>1
    DEF Control, InCall, Descriptor, InTable, RunHasApp, ScansOnlyLoaded,
        StartCalls
  <1> QED  BY <1>4, <1>5 DEF TypeInv

\* The activation a task gets is a time, later than this pass and at most a
\* period away (loader.ino:295).
LEMMA NextDueLater ==
    ASSUME TypeOK, NEW t \in Tasks, Interval[t] > 0, scanNow >= nextDue[t]
    PROVE  /\ NextDue(t) \in Nat
           /\ scanNow < NextDue(t) /\ NextDue(t) <= scanNow + Interval[t]
  <1>1. Interval[t] \in Nat /\ nextDue[t] \in Nat /\ scanNow \in Nat
    BY TasksAssumption DEF TypeOK
  <1> QED  BY <1>1 DEF NextDue

\* Looking at one task's readiness.
LEMMA ReadyType ==
    ASSUME TypeOK, NEW t \in Tasks, NEW s \in BOOLEAN, pc = "ready", Ready(t, s)
    PROVE  /\ due' \subseteq Tasks /\ scanNow' \in Nat
           /\ prevSingle' \in [Tasks -> BOOLEAN]
           /\ nextDue' \in [Tasks -> Nat]
           /\ lastRun' \in [Tasks -> Nat \cup {Never}]
           /\ pc' \in {"ready", "run"} /\ at' \in 1..(NTasks + 1)
           /\ pc' = "ready" => at' \in Tasks
  <1> DEFINE cyclic == Interval[t] > 0 /\ ~s /\ scanNow >= nextDue[t]
  <1>1. due' \subseteq Tasks /\ scanNow' \in Nat /\ prevSingle' \in [Tasks -> BOOLEAN]
    BY DEF Ready, TypeOK
  <1>2. nextDue' \in [Tasks -> Nat] /\ lastRun' \in [Tasks -> Nat \cup {Never}]
    <2>1. CASE cyclic
      <3>1. NextDue(t) \in Nat
        BY <2>1, NextDueLater
      <3> QED  BY <2>1, <3>1 DEF Ready, TypeOK
    <2>2. CASE ~cyclic
      BY <2>2 DEF Ready, TypeOK
    <2> QED  BY <2>1, <2>2
  <1>3. /\ pc' \in {"ready", "run"} /\ at' \in 1..(NTasks + 1)
        /\ pc' = "ready" => at' \in Tasks
    BY FirstTask DEF Ready
  <1> QED  BY <1>1, <1>2, <1>3

LEMMA TypeInit == Init => TypeInv
  <1> SUFFICES ASSUME Init PROVE TypeInv
    OBVIOUS
  <1>1. TypeOK
    BY FirstTask, ZeroWords DEF Init, TypeOK, StartCalls
  <1>2. Control
    BY DEF Init, Control, InCall, Descriptor, InTable, RunHasApp, ScansOnlyLoaded, StartCalls
  <1> QED  BY <1>1, <1>2 DEF TypeInv
LEMMA TypeStep == TypeInv /\ [Next]_vars => TypeInv'
  <1> SUFFICES ASSUME TypeInv, [Next]_vars PROVE TypeInv'
    OBVIOUS
  <1> USE DEF TypeInv
  <1>1. CASE CheckReturns
    <2>1. CASE slot = "bad"
      <3>1. /\ pc' \in {"publish", "console"} /\ call' = "none"
            /\ at' \in 1..(NTasks + 1) /\ ticks' \in 0..Limit /\ state' = "empty"
        BY <1>1, <2>1, RefuseType DEF CheckReturns, StartCalls
      <3>2. TypeOK'
        BY <1>1, <2>1, <3>1 DEF CheckReturns, TypeOK, modbus, sched, board, world
      <3>3. Control'
        BY <3>1
        DEF Control, InCall, Descriptor, InTable, RunHasApp, ScansOnlyLoaded,
            StartCalls
      <3> QED  BY <3>2, <3>3
    <2>2. CASE slot # "bad"
      <3>1. TypeOK'
        BY <1>1, <2>2, FirstTask, ZeroWords
        DEF CheckReturns, Calls, Prepared, TypeOK, modbus, sched, board, world,
            ProgramCalls
      <3>2. Control'
        BY <1>1, <2>2
        DEF CheckReturns, Calls, Control, InCall, Descriptor, InTable,
            RunHasApp, ScansOnlyLoaded, StartCalls
      <3> QED  BY <3>1, <3>2
    <2> QED  BY <2>1, <2>2
  <1>2. CASE CheckFaults
    <2>1. /\ pc' \in {"publish", "console"} /\ call' = "none"
          /\ at' \in 1..(NTasks + 1) /\ ticks' \in 0..Limit /\ state' = "empty"
      BY <1>2, RefuseType DEF CheckFaults, StartCalls
    <2>2. TypeOK'
      BY <1>2, <2>1, ZeroWords DEF CheckFaults, TypeOK, modbus, sched, board, world
    <2>3. Control'
      BY <2>1
      DEF Control, InCall, Descriptor, InTable, RunHasApp, ScansOnlyLoaded,
          StartCalls
    <2> QED  BY <2>2, <2>3
  <1>3. CASE GetAppReturns
    <2>1. CASE slot = "alien"
      <3>1. /\ pc' \in {"publish", "console"} /\ call' = "none"
            /\ at' \in 1..(NTasks + 1) /\ ticks' \in 0..Limit /\ state' = "empty"
        BY <1>3, <2>1, RefuseType DEF GetAppReturns, StartCalls
      <3>2. TypeOK'
        BY <1>3, <2>1, <3>1 DEF GetAppReturns, TypeOK, modbus, board, world
      <3>3. Control'
        BY <3>1
        DEF Control, InCall, Descriptor, InTable, RunHasApp, ScansOnlyLoaded,
            StartCalls
      <3> QED  BY <3>2, <3>3
    <2>2. CASE slot # "alien"
      <3>1. TypeOK'
        <4>1. /\ nextDue' \in [Tasks -> Nat] /\ prevSingle' \in [Tasks -> BOOLEAN]
              /\ lastRun' \in [Tasks -> Nat \cup {Never}]
              /\ latched' \in [Tasks -> BOOLEAN]
          <5>1. NoSchedule /\ latched' = [t \in Tasks |-> FALSE]
            BY <1>3, <2>2 DEF GetAppReturns
          <5> QED  BY <5>1 DEF NoSchedule
        <4>2. /\ call' = "init" /\ at' = at /\ ticks' = 0 /\ pc' = pc
              /\ state' = "run" /\ app' = TRUE /\ fresh' = FALSE
              /\ UNCHANGED <<image, modbus, out, scanNow, due, board, world, touched>>
          BY <1>3, <2>2 DEF GetAppReturns, Calls
        <4> QED
          BY <4>1, <4>2, FirstTask DEF TypeOK, modbus, board, world, ProgramCalls
      <3>2. Control'
        BY <1>3, <2>2
        DEF GetAppReturns, Calls, Control, InCall, Descriptor, InTable,
            RunHasApp, ScansOnlyLoaded, StartCalls
      <3> QED  BY <3>1, <3>2
    <2> QED  BY <2>1, <2>2
  <1>4. CASE InitReturns
    <2>1. TypeOK'
      BY <1>4, FirstTask
      DEF InitReturns, ProgramWrites, CallEnds, StartOver, TypeOK, modbus, sched,
          board, world
    <2>2. Control'
      BY <1>4
      DEF InitReturns, CallEnds, StartOver, Control, InCall, Descriptor, InTable,
          RunHasApp, ScansOnlyLoaded, StartCalls
    <2> QED  BY <2>1, <2>2
  <1>5. CASE ProgramFaults
    BY <1>5, FaultType DEF ProgramFaults
  <1>6. CASE WatchdogTick \/ WatchdogWaits
    <2>1. CASE EnterFault /\ FaultImage
      BY <2>1, FaultType
    <2>2. CASE /\ Counted /\ ticks < Limit
               /\ UNCHANGED <<pc, call, at, state, app, image, latched, modbus, out,
                              sched, board, world, fresh, touched>>
      <3>1. ticks' \in 0..Limit
        BY <2>2, BoundsAssumption DEF Counted, TypeOK
      <3>2. TypeOK'
        BY <2>2, <3>1 DEF TypeOK, modbus, sched, board, world
      <3>3. Control'
        BY <2>2 DEF Control, InCall, Descriptor, InTable, RunHasApp, ScansOnlyLoaded
      <3> QED  BY <3>2, <3>3
    <2>3. ~(ticks >= Limit) => ticks < Limit
      BY BoundsAssumption DEF TypeOK
    <2> QED  BY <1>6, <2>1, <2>2, <2>3 DEF WatchdogTick, WatchdogWaits, Overran
  <1>7. CASE Crash \/ Reset
    <2>1. /\ at' \in 1..(NTasks + 1) /\ ticks' \in 0..Limit
          /\ slot' \in Slots /\ guardOk' \in BOOLEAN
          /\ field' \in [Tasks -> BOOLEAN] /\ now' \in Nat
      BY <1>7, FirstTask DEF Crash, Reset, CallEnds, board, world, TypeOK
    <2>2. /\ pc' \in {"setup", "publish", "dead"} /\ call' \in {"none", "check"}
          /\ (pc' = "setup" <=> call' = "check")
      BY <1>7 DEF Crash, Reset, CallEnds
    <2>3. ColdMemory
      BY <1>7 DEF Crash, Reset
    <2>4. TypeOK'
      BY <2>1, <2>2, <2>3, ColdType DEF TypeOK
    <2>5. Control'
      BY <2>2, <2>3, ColdType
      DEF Control, InCall, Descriptor, InTable, RunHasApp, ScansOnlyLoaded,
          StartCalls
    <2> QED  BY <2>4, <2>5
  <1>8. CASE PollAndLatch
    <2>1. TakenOver(image[Cur]) \in Words /\ Cur \in {"idle", "program"}
      BY <1>8, CurrentImage DEF PollAndLatch, TakenOver, Words
    <2>2. TypeOK'
      BY <1>8, <2>1
      DEF PollAndLatch, LoopAt, TypeOK, guard, sched, board, world
    <2>3. Control'
      BY <1>8
      DEF PollAndLatch, LoopAt, guard, Control, InCall, Descriptor, InTable,
          RunHasApp, ScansOnlyLoaded, StartCalls
    <2> QED  BY <2>2, <2>3
  <1>9. CASE MwLine \/ StopLine
    <2>1. image' \in [{"idle", "program"} -> Words] /\ touched' \subseteq Points
      <3>1. CASE MwLine
        <4>1. PICK r \in Regs, v \in Bit:
                /\ image' = [image EXCEPT ![Cur][r] = v]
                /\ touched' = touched \cup {r}
          BY <3>1 DEF MwLine
        <4>2. [image[Cur] EXCEPT ![r] = v] \in Words
          BY CurrentImage DEF Words
        <4> QED  BY <4>1, <4>2, CurrentImage DEF TypeOK, Points
      <3>2. CASE StopLine
        BY <3>2, CurrentImage, ZeroWords DEF StopLine, TypeOK
      <3> QED  BY <1>9, <3>1, <3>2
    <2>2. TypeOK'
      BY <1>9, <2>1, ZeroWords
      DEF MwLine, StopLine, LoopAt, TypeOK, guard, modbus, sched, board, world
    <2>3. Control'
      BY <1>9
      DEF MwLine, StopLine, LoopAt, guard, Control, InCall, Descriptor, InTable,
          RunHasApp, ScansOnlyLoaded, StartCalls
    <2> QED  BY <2>2, <2>3
  <1>10. CASE RunLine
    <2>1. TypeOK'
      BY <1>10, ZeroWords, FirstTask
      DEF RunLine, Calls, LoopAt, TypeOK, guard, modbus, sched, board, world
    <2>2. Control'
      BY <1>10
      DEF RunLine, Calls, LoopAt, guard, Control, InCall, Descriptor, InTable,
          RunHasApp, ScansOnlyLoaded, StartCalls
    <2> QED  BY <2>1, <2>2
  <1>11. CASE ConsoleDone
    <2>1. TypeOK'
      BY <1>11, FirstTask
      DEF ConsoleDone, LoopAt, TypeOK, guard, modbus, board, world
    <2>2. state = "run" /\ LoopAt("console") => app
      BY DEF Control, RunHasApp, LoopAt, StartCalls
    <2>3. Control'
      BY <1>11, <2>2, FirstTask
      DEF ConsoleDone, Scans, LoopAt, guard, Control, InCall, Descriptor, InTable,
          RunHasApp, ScansOnlyLoaded, StartCalls
    <2> QED  BY <2>1, <2>3
  <1>12. CASE ReadyWithoutSingle \/ SingleReturns
    <2>1. pc = "ready" /\ at \in Tasks /\ state = "run" /\ app
      BY <1>12
      DEF ReadyWithoutSingle, SingleReturns, LoopAt, Control, InCall, InTable,
          RunHasApp, ScansOnlyLoaded
    <2>2. PICK s \in BOOLEAN: Ready(at, s)
      BY <1>12, <2>1 DEF ReadyWithoutSingle, SingleReturns, TypeOK
    <2>3. /\ due' \subseteq Tasks /\ scanNow' \in Nat
          /\ prevSingle' \in [Tasks -> BOOLEAN]
          /\ nextDue' \in [Tasks -> Nat]
          /\ lastRun' \in [Tasks -> Nat \cup {Never}]
          /\ pc' \in {"ready", "run"} /\ at' \in 1..(NTasks + 1)
          /\ pc' = "ready" => at' \in Tasks
      BY <2>1, <2>2, ReadyType
    <2>4. call' = "none" /\ ticks' \in 0..Limit
      BY <1>12, FirstTask DEF ReadyWithoutSingle, SingleReturns, LoopAt, TypeOK
    <2>5. TypeOK'
      BY <1>12, <2>3, <2>4
      DEF ReadyWithoutSingle, SingleReturns, TypeOK, modbus, board, world
    <2>6. Control'
      BY <1>12, <2>1, <2>3, <2>4
      DEF ReadyWithoutSingle, SingleReturns, Control, InCall, Descriptor, InTable,
          RunHasApp, ScansOnlyLoaded, StartCalls
    <2> QED  BY <2>5, <2>6
  <1>13. CASE CallSingle \/ CallTask
    <2>1. TypeOK'
      BY <1>13, FirstTask
      DEF CallSingle, CallTask, Calls, LoopAt, TypeOK, ProgramCalls, modbus, sched,
          board, world
    <2>2. Control'
      BY <1>13
      DEF CallSingle, CallTask, Calls, LoopAt, sched, Control, InCall, Descriptor,
          InTable, RunHasApp, ScansOnlyLoaded, StartCalls
    <2> QED  BY <2>1, <2>2
  <1>14. CASE TaskReturns
    <2>1. TypeOK'
      BY <1>14, FirstTask
      DEF TaskReturns, ProgramWrites, CallEnds, TypeOK, modbus, sched, board, world
    <2>2. Control'
      BY <1>14
      DEF TaskReturns, CallEnds, Control, InCall, Descriptor, InTable,
          RunHasApp, ScansOnlyLoaded, StartCalls
    <2> QED  BY <2>1, <2>2
  <1>15. CASE EndPass \/ EndSetup
    <2>1. server' \in Words /\ shadow' \in Words /\ out' \in [Coils -> Bit]
      <3>1. CASE EndPass
        BY <3>1, CurrentImage, ZeroWords DEF EndPass, Flushed, Published
      <3>2. CASE EndSetup
        BY <3>2, CurrentImage DEF EndSetup, TypeOK
      <3> QED  BY <1>15, <3>1, <3>2
    <2>2. /\ pc' = "top" /\ at' \in 1..(NTasks + 1) /\ scanNow' \in Nat
          /\ fresh' \in BOOLEAN
          /\ UNCHANGED <<call, ticks, state, app, image, latched, due, nextDue,
                         prevSingle, lastRun, board, world, touched>>
      <3>1. CASE EndPass
        BY <3>1, FirstTask DEF EndPass
      <3>2. CASE EndSetup
        BY <3>2 DEF EndSetup, guard, sched, TypeOK
      <3> QED  BY <1>15, <3>1, <3>2
    <2>3. TypeOK'
      BY <2>1, <2>2 DEF TypeOK, board, world
    <2>4. Control'
      BY <1>15
      DEF EndPass, EndSetup, LoopAt, guard, Control, InCall, Descriptor, InTable,
          RunHasApp, ScansOnlyLoaded, StartCalls
    <2> QED  BY <2>3, <2>4
  <1>16. ASSUME Tick \/ \E t \in Tasks: SetField(t)
         PROVE  TypeInv'
    <2>1. /\ field' \in [Tasks -> BOOLEAN] /\ now' \in Nat
          /\ UNCHANGED <<pc, guard, state, app, image, latched, modbus, out, sched,
                         board, fresh, touched>>
      <3>1. CASE Tick
        BY <3>1 DEF Tick, TypeOK
      <3>2. ASSUME NEW t \in Tasks, SetField(t)
            PROVE  field' \in [Tasks -> BOOLEAN] /\ now' = now
        BY <3>2 DEF SetField, TypeOK
      <3> QED  BY <1>16, <3>1, <3>2 DEF SetField, TypeOK
    <2>2. TypeOK'
      BY <2>1 DEF TypeOK, guard, modbus, sched, board
    <2>3. Control'
      BY <1>16
      DEF Tick, SetField, guard, Control, InCall, Descriptor, InTable, RunHasApp,
          ScansOnlyLoaded
    <2> QED  BY <2>2, <2>3
  <1>17. CASE UNCHANGED vars
    <2>1. TypeOK'
      BY <1>17 DEF vars, TypeOK, guard, modbus, sched, board, world
    <2>2. Control'
      BY <1>17
      DEF vars, guard, Control, InCall, Descriptor, InTable, RunHasApp,
          ScansOnlyLoaded
    <2> QED  BY <2>1, <2>2
  <1> QED
    BY <1>1, <1>2, <1>3, <1>4, <1>5, <1>6, <1>7, <1>8, <1>9, <1>10, <1>11, <1>12,
       <1>13, <1>14, <1>15, <1>16, <1>17
    DEF Next, Runtime, Program
LEMMA TypeInvariant == Spec => []TypeInv
  <1> QED  BY TypeInit, TypeStep, PTL DEF Spec

\* Every variable keeps its type, for any task table and watchdog limit: the
\* readiness loop never leaves the table, next_due stays a time, and the
\* watchdog stops a call before its count passes the limit.
THEOREM TypeCorrect == Spec => []TypeOK
  <1> QED  BY TypeInvariant, PTL DEF TypeInv

\* No task is looked at or run without the descriptor of a running program,
\* whichever early return start_program took (loader.ino:236-268).
THEOREM LoadedWhenScanned == Spec => []ScansOnlyLoaded
  <1>1. TypeInv => ScansOnlyLoaded
    BY DEF TypeInv, Control
  <1> QED  BY <1>1, TypeInvariant, PTL

-----------------------------------------------------------------------------
(***************************************************************************)
(* The outputs.  OutputsSafe allows the pass in which a start failed to    *)
(* show the old outputs; setup has no such pass, so it must begin with     *)
(* outputs that are off and keep them off.                                 *)
(***************************************************************************)
OutInv == OutputsSafe /\ (pc \in {"setup", "publish"} => out = Off)

LEMMA OffIsSafe ==
    ASSUME out' = Off
    PROVE  OutInv'
  BY DEF OutInv, OutputsSafe, Off

LEMMA SamePlaceIsSafe ==
    ASSUME OutInv, UNCHANGED <<pc, state, out>>
    PROVE  OutInv'
  BY DEF OutInv, OutputsSafe, MustBeOff, Off

\* A refused start ends setup with outputs that never were on, or the console's
\* pass goes on to the flush.
LEMMA RefuseIsSafe ==
    ASSUME TypeInv, OutInv, Refuse, call \in StartCalls, UNCHANGED out
    PROVE  OutInv'
  BY DEF Refuse, StartOver, TypeInv, Control, InCall, OutInv, OutputsSafe,
         MustBeOff, Off

LEMMA FaultIsOff ==
    ASSUME EnterFault
    PROVE  out' = Off /\ state' = "fault"
  BY DEF EnterFault, OutOnFault

\* The flush at the end of a pass follows the state the pass ended in.
LEMMA FlushIsSafe ==
    ASSUME TypeInv, OutInv, EndPass
    PROVE  OutInv'
  <1>1. CASE state = "run"
    BY <1>1 DEF EndPass, OutInv, OutputsSafe, MustBeOff
  <1>2. CASE state # "run"
    BY <1>2, OffIsSafe DEF EndPass, Flushed
  <1> QED  BY <1>1, <1>2

\* The relays are off in every state but running, whatever masters write to
\* the image (loader.ino:133-154).
THEOREM OutputsAreSafe == Spec => []OutputsSafe
  <1>1. Init => OutInv
    BY DEF Init, OutInv, OutputsSafe
  <1>2. TypeInv /\ OutInv /\ [Next]_vars => OutInv'
    <2> SUFFICES ASSUME TypeInv, OutInv, [Next]_vars PROVE OutInv'
      OBVIOUS
    <2>1. CASE CheckReturns
      <3>1. CASE Refuse
        BY <2>1, <3>1, RefuseIsSafe DEF CheckReturns, StartCalls
      <3>2. CASE ~Refuse
        BY <2>1, <3>2, SamePlaceIsSafe DEF CheckReturns
      <3> QED  BY <3>1, <3>2
    <2>2. CASE CheckFaults
      BY <2>2, OffIsSafe DEF CheckFaults
    <2>3. CASE GetAppReturns
      <3>1. CASE Refuse
        BY <2>3, <3>1, RefuseIsSafe DEF GetAppReturns, StartCalls
      <3>2. CASE ~Refuse
        BY <2>3, <3>2 DEF GetAppReturns, OutInv, OutputsSafe, MustBeOff, Off,
           TypeInv, Control, InCall, StartCalls
      <3> QED  BY <3>1, <3>2
    <2>4. CASE InitReturns
      BY <2>4 DEF InitReturns, StartOver, OutInv, OutputsSafe, MustBeOff, Off,
         TypeInv, Control, InCall, Descriptor, StartCalls
    <2>5. CASE ProgramFaults
      BY <2>5, FaultIsOff, OffIsSafe DEF ProgramFaults
    <2>6. CASE WatchdogTick \/ WatchdogWaits
      BY <2>6, FaultIsOff, OffIsSafe, SamePlaceIsSafe
      DEF WatchdogTick, WatchdogWaits
    <2>7. CASE Crash \/ Reset \/ StopLine
      BY <2>7, OffIsSafe DEF Crash, Reset, ColdMemory, StopLine
    <2>8. CASE PollAndLatch \/ ConsoleDone \/ EndSetup
      BY <2>8 DEF PollAndLatch, ConsoleDone, EndSetup, LoopAt, Scans, OutInv,
         OutputsSafe, MustBeOff, Off
    <2>9. CASE MwLine
      BY <2>9, SamePlaceIsSafe DEF MwLine
    <2>10. CASE RunLine
      BY <2>10 DEF RunLine, LoopAt, OutInv, OutputsSafe, MustBeOff, Off
    <2>11. CASE ReadyWithoutSingle \/ CallSingle \/ SingleReturns \/ CallTask \/ TaskReturns
      <3>1. /\ pc \in {"ready", "run"} /\ state = "run"
            /\ pc' \in {"ready", "run"} /\ state' = state
        BY <2>11
        DEF ReadyWithoutSingle, CallSingle, SingleReturns, CallTask, TaskReturns,
            Ready,
            LoopAt, TypeInv, Control, InCall, ScansOnlyLoaded
      <3> QED  BY <3>1 DEF OutInv, OutputsSafe, MustBeOff
    <2>12. CASE EndPass
      BY <2>12, FlushIsSafe
    <2>13. CASE Tick \/ \E t \in Tasks: SetField(t)
      BY <2>13, SamePlaceIsSafe DEF Tick, SetField
    <2>14. CASE UNCHANGED vars
      BY <2>14, SamePlaceIsSafe DEF vars
    <2> QED
      BY <2>1, <2>2, <2>3, <2>4, <2>5, <2>6, <2>7, <2>8, <2>9, <2>10, <2>11,
         <2>12, <2>13, <2>14
      DEF Next, Runtime, Program
  <1>3. OutInv => OutputsSafe
    BY DEF OutInv
  <1> QED  BY <1>1, <1>2, <1>3, TypeInvariant, PTL DEF Spec

-----------------------------------------------------------------------------
(***************************************************************************)
(* The abstract contract.  A step switches the outputs off, leaves them,   *)
(* or is the flush of a running program.  The first is allowed from any    *)
(* mode; of the second OutputsSafe says that the mode it leads to is not   *)
(* halted or faulted unless the outputs are off.                           *)
(***************************************************************************)
LEMMA OutputSteps ==
    ASSUME TypeInv, [Next]_vars
    PROVE  \/ out' = Off
           \/ out' = out
           \/ /\ pc \in {"end", "run"} /\ call = "none" /\ state = "run"
              /\ pc' = "top" /\ call' = "none" /\ state' = "run"
  <1>1. CASE EndPass
    BY <1>1 DEF EndPass, LoopAt, Flushed
  <1>2. CASE ProgramFaults \/ WatchdogTick
    BY <1>2, FaultIsOff DEF ProgramFaults, WatchdogTick
  <1>3. CASE CheckReturns \/ CheckFaults \/ GetAppReturns \/ InitReturns \/ WatchdogWaits
    BY <1>3 DEF CheckReturns, CheckFaults, GetAppReturns, InitReturns, WatchdogWaits
  <1>4. CASE PollAndLatch \/ MwLine \/ StopLine \/ RunLine \/ ConsoleDone \/ EndSetup
    BY <1>4 DEF PollAndLatch, MwLine, StopLine, RunLine, ConsoleDone, EndSetup
  <1>5. CASE ReadyWithoutSingle \/ CallSingle \/ SingleReturns \/ CallTask \/ TaskReturns
    BY <1>5 DEF ReadyWithoutSingle, CallSingle, SingleReturns, CallTask, TaskReturns
  <1>6. CASE Crash \/ Reset
    BY <1>6 DEF Crash, Reset, ColdMemory
  <1>7. CASE Tick \/ (\E t \in Tasks: SetField(t)) \/ UNCHANGED vars
    BY <1>7 DEF Tick, SetField, vars
  <1> QED
    BY <1>1, <1>2, <1>3, <1>4, <1>5, <1>6, <1>7 DEF Next, Runtime, Program

LEMMA ModeType == Mode \in Plc!Modes
  BY DEF Mode, Plc!Modes

\* The Opta loader is a SafePlc: only the flush of a running program sets the
\* outputs, and a fault, a stop or a failed start leaves none on
\* (docs/program-image.md, "Loading"; loader.ino:133-140, 216-222, 270-274).
THEOREM LoaderIsSafePlc == Spec => ImplementsSafePlc
  <1>1. Init => Plc!Init
    <2> SUFFICES ASSUME Init PROVE Plc!Init
      OBVIOUS
    <2>1. out = Off
      BY DEF Init
    <2> QED  BY <2>1, ModeType DEF Plc!Init
  <1>2. TypeInv /\ TypeInv' /\ OutputsSafe' /\ [Next]_vars => [Plc!Next]_(Plc!vars)
    <2> SUFFICES ASSUME TypeInv, TypeInv', OutputsSafe', [Next]_vars
                 PROVE  Plc!Next
      OBVIOUS
    <2>1. Mode' \in Plc!Modes
      BY DEF Mode, Starting, Plc!Modes
    <2>2. CASE out' = Off
      BY <2>1, <2>2 DEF Plc!Next, Plc!PowerUp
    <2>3. CASE out' = out /\ out' # Off
      <3>1. Mode' \notin {"halted", "faulted"}
        BY <2>3 DEF Mode, Starting, OutputsSafe, MustBeOff, TypeInv, TypeOK
      <3>2. Mode' \in {"starting", "running"}
        BY <2>1, <3>1 DEF Plc!Modes
      <3> QED  BY <2>3, <3>2 DEF Plc!Next, Plc!Start, Plc!Go
    <2>4. CASE /\ pc \in {"end", "run"} /\ call = "none" /\ state = "run"
               /\ pc' = "top" /\ call' = "none" /\ state' = "run"
      <3>1. Mode = "running" /\ Mode' = "running"
        BY <2>4 DEF Mode, Starting, StartCalls
      <3>2. out' \in [Coils -> Bit]
        BY DEF TypeInv, TypeOK
      <3> QED  BY <3>1, <3>2 DEF Plc!Next, Plc!Scan
    <2> QED  BY <2>2, <2>3, <2>4, OutputSteps
  <1> QED
    BY <1>1, <1>2, TypeInvariant, OutputsAreSafe, PTL
    DEF Spec, ImplementsSafePlc, Plc!Spec

-----------------------------------------------------------------------------
\* Finding one task's readiness keeps every task's next activation after its
\* last one (loader.ino:293-296).
LEMMA ReadyKeepsRhythm ==
    ASSUME TypeOK, NoBurst, NEW t \in Tasks, NEW s \in BOOLEAN, Ready(t, s)
    PROVE  NoBurst'
  <1> SUFFICES ASSUME NEW u \in Tasks, lastRun'[u] # Never
               PROVE  lastRun'[u] < nextDue'[u] /\ nextDue'[u] <= lastRun'[u] + Interval[u]
    BY DEF NoBurst
  <1>1. CASE u = t /\ Interval[t] > 0 /\ ~s /\ scanNow >= nextDue[t]
    <2>1. nextDue'[u] = NextDue(t) /\ lastRun'[u] = scanNow
      BY <1>1 DEF Ready, TypeOK
    <2> QED  BY <1>1, <2>1, NextDueLater
  <1>2. CASE ~(u = t /\ Interval[t] > 0 /\ ~s /\ scanNow >= nextDue[t])
    <2>1. nextDue'[u] = nextDue[u] /\ lastRun'[u] = lastRun[u]
      BY <1>2 DEF Ready, TypeOK
    <2> QED  BY <2>1 DEF NoBurst
  <1> QED  BY <1>1, <1>2

LEMMA NoScheduleKeepsRhythm ==
    ASSUME NoSchedule
    PROVE  NoBurst'
  BY DEF NoSchedule, NoBurst

LEMMA SameScheduleKeepsRhythm ==
    ASSUME NoBurst, UNCHANGED <<nextDue, lastRun>>
    PROVE  NoBurst'
  BY DEF NoBurst

\* However late a pass comes, a task's next activation is after this one and at
\* most a period away, so no burst of scans follows (loader.ino:293-296).
THEOREM LateTaskRunsOnce == Spec => []NoBurst
  <1>1. Init => NoBurst
    BY DEF Init, NoBurst
  <1>2. TypeInv /\ NoBurst /\ [Next]_vars => NoBurst'
    <2> SUFFICES ASSUME TypeInv, NoBurst, [Next]_vars PROVE NoBurst'
      OBVIOUS
    <2>1. CASE ReadyWithoutSingle \/ SingleReturns
      <3>1. at \in Tasks
        BY <2>1 DEF ReadyWithoutSingle, SingleReturns, LoopAt, TypeInv, Control,
           InCall, InTable
      <3>2. PICK s \in BOOLEAN: Ready(at, s)
        BY <2>1, <3>1 DEF ReadyWithoutSingle, SingleReturns, TypeInv, TypeOK
      <3> QED  BY <3>1, <3>2, ReadyKeepsRhythm DEF TypeInv
    <2>2. CASE GetAppReturns \/ Crash \/ Reset
      BY <2>2, NoScheduleKeepsRhythm, SameScheduleKeepsRhythm
      DEF GetAppReturns, Crash, Reset, ColdMemory
    <2>3. CASE ProgramFaults \/ WatchdogTick \/ WatchdogWaits
      BY <2>3, SameScheduleKeepsRhythm
      DEF ProgramFaults, WatchdogTick, WatchdogWaits, EnterFault, sched
    <2>4. CASE CheckReturns \/ CheckFaults \/ InitReturns \/ TaskReturns
      BY <2>4, SameScheduleKeepsRhythm
      DEF CheckReturns, CheckFaults, InitReturns, TaskReturns, sched
    <2>5. CASE PollAndLatch \/ MwLine \/ StopLine \/ RunLine \/ ConsoleDone
      BY <2>5, SameScheduleKeepsRhythm
      DEF PollAndLatch, MwLine, StopLine, RunLine, ConsoleDone, sched
    <2>6. CASE CallSingle \/ CallTask \/ EndPass \/ EndSetup
      BY <2>6, SameScheduleKeepsRhythm
      DEF CallSingle, CallTask, EndPass, EndSetup, sched
    <2>7. CASE Tick \/ (\E t \in Tasks: SetField(t)) \/ UNCHANGED vars
      BY <2>7, SameScheduleKeepsRhythm DEF Tick, SetField, vars, sched
    <2> QED
      BY <2>1, <2>2, <2>3, <2>4, <2>5, <2>6, <2>7 DEF Next, Runtime, Program
  <1> QED  BY <1>1, <1>2, TypeInvariant, PTL DEF Spec

-----------------------------------------------------------------------------
(***************************************************************************)
(* The image and its shadows.  A pass begins with the shadows equal to the *)
(* image of the moment, so what differs from a shadow was written by a     *)
(* master; starts switch images only after the pass has begun.             *)
(***************************************************************************)
ShadowInv == pc = "top" => shadow = image[Cur]

LEMMA SameTablesAgree ==
    ASSUME ShadowInv, UNCHANGED <<pc, app, image, shadow>>
    PROVE  ShadowInv'
  BY DEF ShadowInv, Cur

LEMMA ElsewhereTablesAgree ==
    ASSUME pc' # "top"
    PROVE  ShadowInv'
  BY DEF ShadowInv

LEMMA ShadowInvariant == Spec => []ShadowInv
  <1>1. Init => ShadowInv
    BY DEF Init, ShadowInv
  <1>2. TypeInv /\ ShadowInv /\ [Next]_vars => ShadowInv'
    <2> SUFFICES ASSUME TypeInv, ShadowInv, [Next]_vars PROVE ShadowInv'
      OBVIOUS
    <2>1. CASE EndPass \/ EndSetup
      BY <2>1 DEF EndPass, EndSetup, Published, ShadowInv, Cur
    <2>2. CASE CheckReturns \/ CheckFaults \/ GetAppReturns \/ InitReturns
      <3>1. pc \in {"setup", "console"}
        BY <2>2
        DEF CheckReturns, CheckFaults, GetAppReturns, InitReturns, StartCalls,
           TypeInv, Control, InCall
      <3>2. pc' # "top"
        BY <2>2, <3>1
        DEF CheckReturns, CheckFaults, GetAppReturns, InitReturns, Refuse,
           StartOver
      <3> QED  BY <3>2, ElsewhereTablesAgree
    <2>3. CASE ProgramFaults \/ (WatchdogTick /\ EnterFault)
      BY <2>3, ElsewhereTablesAgree DEF ProgramFaults, EnterFault
    <2>4. CASE (WatchdogTick /\ ~EnterFault) \/ WatchdogWaits
      BY <2>4, SameTablesAgree DEF WatchdogTick, WatchdogWaits, modbus
    <2>5. CASE PollAndLatch \/ MwLine \/ StopLine \/ RunLine \/ ConsoleDone
      BY <2>5, ElsewhereTablesAgree
      DEF PollAndLatch, MwLine, StopLine, RunLine, ConsoleDone, LoopAt
    <2>6. CASE ReadyWithoutSingle \/ CallSingle \/ SingleReturns \/ CallTask \/ TaskReturns
      <3>1. pc' \in {"ready", "run"}
        BY <2>6
        DEF ReadyWithoutSingle, CallSingle, SingleReturns, CallTask, TaskReturns,
            Ready,
            LoopAt, TypeInv, Control, InCall
      <3> QED  BY <3>1, ElsewhereTablesAgree
    <2>7. CASE Crash \/ Reset
      BY <2>7, ElsewhereTablesAgree DEF Crash, Reset
    <2>8. CASE Tick \/ (\E t \in Tasks: SetField(t)) \/ UNCHANGED vars
      BY <2>8, SameTablesAgree DEF Tick, SetField, vars, modbus
    <2> QED
      BY <2>1, <2>2, <2>3, <2>4, <2>5, <2>6, <2>7, <2>8 DEF Next, Runtime, Program
  <1> QED  BY <1>1, <1>2, TypeInvariant, PTL DEF Spec

\* modbus_to_image leaves the image as the masters have left the tables: no
\* write of theirs is dropped and none is taken over twice, across starts,
\* stops and faults that switch or clear the image (loader.ino:142-167).
THEOREM NoWriteIsLost == Spec => TablesAgree
  <1>1. TypeInv /\ ShadowInv /\ [Next]_vars =>
          [PollAndLatch => image'[Cur] = server']_vars
    <2> SUFFICES ASSUME TypeInv, ShadowInv, PollAndLatch
                 PROVE  image'[Cur] = server'
      OBVIOUS
    <2>1. shadow = image[Cur] /\ server' \in Words
      BY DEF PollAndLatch, LoopAt, ShadowInv
    <2>2. image'[Cur] = TakenOver(image[Cur])
      BY CurrentImage DEF PollAndLatch, TypeInv, TypeOK
    <2>3. TakenOver(image[Cur]) = server'
      BY <2>1 DEF TakenOver, Words
    <2> QED  BY <2>2, <2>3
  <1> QED  BY <1>1, TypeInvariant, ShadowInvariant, PTL DEF Spec, TablesAgree

-----------------------------------------------------------------------------
(***************************************************************************)
(* Cold starts.  The image is clean from the moment it is prepared, before *)
(* the descriptor is known, so the invariant begins at that call.          *)
(***************************************************************************)
ColdInv ==
    app \/ call = "getApp" =>
        \A p \in Points \ touched: image["program"][p] = 0

LEMMA AllTouchedIsCold ==
    ASSUME touched' = Points
    PROVE  ColdInv'
  BY DEF ColdInv

LEMMA NoProgramIsCold ==
    ASSUME ~app', call' # "getApp"
    PROVE  ColdInv'
  BY DEF ColdInv

LEMMA SameProgramIsCold ==
    ASSUME ColdInv, UNCHANGED <<image, touched>>, app' => app \/ call = "getApp",
           call' = "getApp" => call = "getApp"
    PROVE  ColdInv'
  BY DEF ColdInv

LEMMA FaultIsCold ==
    ASSUME EnterFault, FaultImage
    PROVE  ColdInv'
  <1>1. CASE app
    BY <1>1, AllTouchedIsCold DEF FaultImage
  <1>2. CASE ~app
    BY <1>2, NoProgramIsCold DEF EnterFault, CallEnds
  <1> QED  BY <1>1, <1>2

\* Every start is a cold start: what is set in the program's image was written
\* after plcc_image_prepare (plcc_image.c:79-86, docs/program-image.md:297-298).
THEOREM StartsAreCold == Spec => []NothingSurvives
  <1>1. Init => ColdInv
    BY DEF Init, ColdInv, Zero
  <1>2. TypeInv /\ ColdInv /\ [Next]_vars => ColdInv'
    <2> SUFFICES ASSUME TypeInv, ColdInv, [Next]_vars PROVE ColdInv'
      OBVIOUS
    <2>1. CASE CheckReturns
      <3>1. CASE slot = "bad"
        BY <2>1, <3>1, NoProgramIsCold
        DEF CheckReturns, Refuse, CallEnds, TypeInv, Control, Descriptor
      <3>2. CASE slot # "bad"
        <4>1. image'["program"] = Zero
          BY <2>1, <3>2 DEF CheckReturns, Prepared, TypeInv, TypeOK
        <4> QED  BY <4>1 DEF ColdInv, Zero
      <3> QED  BY <3>1, <3>2
    <2>2. CASE CheckFaults
      BY <2>2, NoProgramIsCold
      DEF CheckFaults, Refuse, CallEnds, TypeInv, Control, Descriptor
    <2>3. CASE GetAppReturns
      BY <2>3, SameProgramIsCold DEF GetAppReturns, Refuse, CallEnds, Calls
    <2>4. CASE InitReturns \/ TaskReturns
      BY <2>4, AllTouchedIsCold DEF InitReturns, TaskReturns, ProgramWrites
    <2>5. CASE ProgramFaults \/ (WatchdogTick /\ EnterFault /\ FaultImage)
      BY <2>5, FaultIsCold DEF ProgramFaults
    <2>6. CASE \/ WatchdogTick /\ ~(EnterFault /\ FaultImage)
               \/ WatchdogWaits
      BY <2>6, SameProgramIsCold DEF WatchdogTick, WatchdogWaits
    <2>7. CASE PollAndLatch \/ MwLine \/ StopLine
      <3>1. CASE app
        <4>1. /\ touched \subseteq touched' /\ Cur = "program"
              /\ \A p \in Points \ touched':
                    image'["program"][p] \in {image["program"][p], 0}
          <5>1. CASE PollAndLatch
            BY <3>1, <5>1 DEF PollAndLatch, TakenOver, Cur, TypeInv, TypeOK
          <5>2. CASE MwLine
            BY <3>1, <5>2 DEF MwLine, Cur, TypeInv, TypeOK, Words
          <5>3. CASE StopLine
            BY <3>1, <5>3 DEF StopLine, Cleared, Cur, TypeInv, TypeOK
          <5> QED  BY <2>7, <5>1, <5>2, <5>3
        <4> QED  BY <3>1, <4>1 DEF ColdInv
      <3>2. CASE ~app
        BY <2>7, <3>2, NoProgramIsCold
        DEF PollAndLatch, MwLine, StopLine, LoopAt, guard
      <3> QED  BY <3>1, <3>2
    <2>8. CASE RunLine
      BY <2>8, NoProgramIsCold DEF RunLine, Calls, LoopAt, guard
    <2>9. CASE ConsoleDone \/ EndPass \/ EndSetup
      BY <2>9, SameProgramIsCold DEF ConsoleDone, EndPass, EndSetup, guard
    <2>10. CASE ReadyWithoutSingle \/ CallSingle \/ SingleReturns \/ CallTask
      <3>1. /\ UNCHANGED <<image, touched, app>>
            /\ call' \in {call, "none", "single", "task"}
        BY <2>10 DEF ReadyWithoutSingle, CallSingle, SingleReturns, CallTask, Calls
      <3> QED  BY <3>1, SameProgramIsCold
    <2>11. CASE Crash \/ Reset
      BY <2>11, NoProgramIsCold DEF Crash, Reset, ColdMemory, CallEnds
    <2>12. CASE Tick \/ (\E t \in Tasks: SetField(t)) \/ UNCHANGED vars
      BY <2>12, SameProgramIsCold DEF Tick, SetField, vars, guard
    <2> QED
      BY <2>1, <2>2, <2>3, <2>4, <2>5, <2>6, <2>7, <2>8, <2>9, <2>10, <2>11, <2>12
      DEF Next, Runtime, Program
  <1>3. ColdInv => NothingSurvives
    BY DEF ColdInv, NothingSurvives
  <1> QED  BY <1>1, <1>2, <1>3, TypeInvariant, PTL DEF Spec

\* Between any two steps, for any task table and any program: relays off unless
\* a program runs, tasks of the loaded program only, cold starts, no bursts.
THEOREM LoaderIsSafe == Spec => []LoaderSafe
  <1>1. TypeOK /\ OutputsSafe /\ ScansOnlyLoaded /\ NothingSurvives /\ NoBurst => LoaderSafe
    BY DEF LoaderSafe
  <1> QED
    BY <1>1, TypeCorrect, OutputsAreSafe, LoadedWhenScanned, StartsAreCold, LateTaskRunsOnce, PTL
=============================================================================
