------------------------------ MODULE OptaLoader ------------------------------
(***************************************************************************)
(* The Arduino Opta runtime that runs program images: the loop, the        *)
(* program slot and the scan of loader.ino, and the guard around every     *)
(* call into the program (plcc_guard.c).                                   *)
(*                                                                         *)
(* One action is one function of the loop, or one guarded call's start or  *)
(* end: between them the watchdog's timer interrupts, the clock and the    *)
(* inputs change, the program or the runtime faults, the board is reset.   *)
(* A Modbus master's requests are served only in poll(), the console's     *)
(* lines only in console().                                                *)
(***************************************************************************)
EXTENDS Integers, FiniteSets

CONSTANTS
    NTasks,     \* length of the program's task table
    Interval,   \* cycle time of each task; 0 = event-only or free-running
    Priority,   \* IEC priority: 0 is the most urgent
    HasSingle,  \* does the task have a SINGLE input
    Coils,      \* the bits of %Q, which masters see as coils
    Regs,       \* the words of %M, which masters see as holding registers
    Limit,      \* watchdog ticks a call may take
    MaxTime     \* bound: the clock stops here

Tasks  == 1..NTasks
Points == Coils \cup Regs

ASSUME TasksAssumption ==
    /\ NTasks \in Nat \ {0}
    /\ Interval \in [Tasks -> Nat]
    /\ Priority \in [Tasks -> Nat]
    /\ HasSingle \in [Tasks -> BOOLEAN]

ASSUME PointsAssumption == Coils \cap Regs = {}
ASSUME BoundsAssumption == Limit \in Nat /\ MaxTime \in Nat

VARIABLES
    pc,         \* what the loop does next
    call,       \* what plcc_guard_call is running
    at,         \* the task it is about
    ticks,      \* watchdog ticks since it began
    state,      \* ST_EMPTY, ST_RUN, ST_STOP or ST_FAULT
    app,        \* is app set, and do img_i, img_q and img_m point into the program
    image,      \* %Q and %M: the idle ones and the program's
    latched,    \* the program's %I, as far as SINGLE inputs are connected to it
    server,     \* the Modbus server's tables
    shadow,     \* coil_shadow and hr_shadow
    out,        \* relays and LEDs
    scanNow,    \* the time run_due_tasks read
    due,        \* the tasks it still has to run
    nextDue,
    prevSingle,
    slot,       \* what the flash holds
    guardOk,    \* did plcc_guard_install succeed
    field,      \* the input pins
    now         \* the microsecond clock

\* History variables: no code reads them.
VARIABLES
    lastRun,    \* when the task's interval last made it due
    fresh,      \* was the program's %I latched in this pass
    touched     \* points written since the program was prepared

guard   == <<call, at, ticks>>
sched   == <<scanNow, due, nextDue, prevSingle, lastRun>>
modbus  == <<server, shadow>>
board   == <<slot, guardOk>>
world   == <<field, now>>
vars == <<pc, guard, state, app, image, latched, modbus, out, sched, board,
          world, fresh, touched>>

Bit   == {0, 1}
Off   == [c \in Coils |-> 0]
Zero  == [p \in Points |-> 0]
Words == [Points -> Bit]
ProgramCalls == {"getApp", "init", "single", "task"}
StartCalls   == {"check", "getApp", "init"}
\* good; with a descriptor that is refused; with an image that is refused, or
\* none; half-written, so that reading it faults
Slots == {"good", "alien", "bad", "torn"}
Never == -1

TypeOK ==
    /\ pc \in {"setup", "top", "console", "ready", "run", "end", "publish", "dead"}
    /\ call \in {"none", "check"} \cup ProgramCalls
    /\ at \in 1..(NTasks + 1)
    /\ ticks \in 0..Limit
    /\ state \in {"empty", "run", "stop", "fault"}
    /\ app \in BOOLEAN
    /\ image \in [{"idle", "program"} -> Words]
    /\ latched \in [Tasks -> BOOLEAN]
    /\ server \in Words /\ shadow \in Words
    /\ out \in [Coils -> Bit]
    /\ scanNow \in Nat
    /\ due \subseteq Tasks
    /\ nextDue \in [Tasks -> Nat]
    /\ prevSingle \in [Tasks -> BOOLEAN]
    /\ slot \in Slots
    /\ guardOk \in BOOLEAN
    /\ field \in [Tasks -> BOOLEAN]
    /\ now \in Nat
    /\ lastRun \in [Tasks -> Nat \cup {Never}]
    /\ fresh \in BOOLEAN
    /\ touched \subseteq Points

-----------------------------------------------------------------------------
\* An operator whose name ends in _Mut is a wrong form of the definition that
\* follows it.  No specification uses one: it shows which slip a property
\* catches.

\* img_q and img_m of the moment.
Cur == IF app THEN "program" ELSE "idle"
CoilsOf(w) == [c \in Coils |-> w[c]]
Cleared(w) == [p \in Points |-> IF p \in Coils THEN 0 ELSE w[p]]

\* plcc_guard_call begins and ends; the watchdog counts from its beginning.
Calls(what, t) == call' = what /\ at' = t /\ ticks' = 0
CallEnds == call' = "none" /\ ticks' = 0 /\ at' = 1

\* start_program is over: setup goes on with image_to_modbus, console with the
\* next line.
StartOver == pc' = IF pc = "setup" THEN "publish" ELSE pc

-----------------------------------------------------------------------------
(* Power-on. *)

Init ==
    /\ state = "empty" /\ app = FALSE
    /\ image = [i \in {"idle", "program"} |-> Zero]
    /\ latched = [t \in Tasks |-> FALSE]
    /\ server = Zero /\ shadow = Zero /\ out = Off
    /\ scanNow = 0 /\ due = {}
    /\ nextDue = [t \in Tasks |-> 0]
    /\ prevSingle = [t \in Tasks |-> FALSE]
    /\ lastRun = [t \in Tasks |-> Never]
    /\ fresh = FALSE /\ touched = {}
    /\ slot \in Slots /\ guardOk \in BOOLEAN
    /\ at = 1 /\ ticks = 0
    /\ \/ pc = "publish" /\ call = "none"
       \/ guardOk /\ pc = "setup" /\ call = "check"
    /\ field = [t \in Tasks |-> FALSE]
    /\ now = 0

NoSchedule ==
    /\ nextDue' = [t \in Tasks |-> 0]
    /\ prevSingle' = [t \in Tasks |-> FALSE]
    /\ lastRun' = [t \in Tasks |-> Never]

\* The runtime's and the program's memory as a reset finds it.
ColdMemory ==
    /\ state' = "empty" /\ app' = FALSE
    /\ image' = [i \in {"idle", "program"} |-> Zero]
    /\ latched' = [t \in Tasks |-> FALSE]
    /\ server' = Zero /\ shadow' = Zero /\ out' = Off
    /\ scanNow' = 0 /\ due' = {}
    /\ NoSchedule
    /\ fresh' = FALSE /\ touched' = {}

\* A reset at any moment; a download ends with one, so the flash changes only
\* here.  setup() then runs up to the guarded check of the slot, unless the
\* USER button is held or the guard could not be installed.
Reset ==
    /\ ColdMemory
    /\ slot' \in Slots /\ guardOk' \in BOOLEAN
    /\ at' = 1 /\ ticks' = 0
    /\ \/ pc' = "publish" /\ call' = "none"
       \/ guardOk' /\ pc' = "setup" /\ call' = "check"
    /\ now' = 0
    /\ UNCHANGED field

-----------------------------------------------------------------------------
(* start_program: three guarded calls. *)

\* plcc_image_check, with the magic of an erased slot and everything else it
\* refuses in one.
Refuse ==
    /\ state' = "empty"
    /\ CallEnds
    /\ StartOver

\* plcc_image_prepare: the RAM window is zeroed.
Prepared == Zero

CheckReturns ==
    /\ call = "check" /\ slot # "torn"
    /\ IF slot = "bad"
       THEN Refuse /\ UNCHANGED <<image, touched>>
       ELSE /\ image' = [image EXCEPT !["program"] = Prepared]
            /\ touched' = {}
            /\ Calls("getApp", at)
            /\ UNCHANGED <<state, pc>>
    /\ UNCHANGED <<app, latched, modbus, out, sched, board, world, fresh>>

\* A half-written flash word: the read faults, the guard puts the outputs off.
CheckFaults ==
    /\ call = "check" /\ slot = "torn"
    /\ Refuse
    /\ out' = Off
    /\ UNCHANGED <<app, image, latched, modbus, sched, board, world, fresh,
                   touched>>

\* plcc_image_check_app refuses an alien descriptor; else the program is there
\* and its init is called.
GetAppReturns ==
    /\ call = "getApp"
    /\ IF slot = "alien"
       THEN /\ Refuse
            /\ UNCHANGED <<app, nextDue, prevSingle, lastRun, latched, fresh>>
       ELSE /\ app' = TRUE
            /\ state' = "run"
            /\ latched' = [t \in Tasks |-> FALSE]
            /\ fresh' = FALSE
            /\ NoSchedule
            /\ Calls("init", at)
            /\ UNCHANGED pc
    /\ UNCHANGED <<image, modbus, out, scanNow, due, board, world, touched>>

\* What the program writes is data: any %Q and any %M.
ProgramWrites ==
    /\ image' \in [{"idle", "program"} -> Words]
    /\ image'["idle"] = image["idle"]
    /\ touched' = Points

InitReturns ==
    /\ call = "init"
    /\ ProgramWrites
    /\ CallEnds
    /\ StartOver
    /\ UNCHANGED <<state, app, latched, modbus, out, sched, board, world, fresh>>

-----------------------------------------------------------------------------
(* The guard. *)

OutOnFault_Mut == out               \* leaves the relays to the next pass

\* plcc_guard_call came back by longjmp: plcc_guard_outputs_off.
OutOnFault == Off

\* enter_fault: the state, %Q and the outputs; run_due_tasks returns.
EnterFault ==
    /\ state' = "fault"
    /\ out' = OutOnFault
    /\ pc' = CASE pc = "setup"   -> "publish"
               [] pc = "console" -> "console"
               [] OTHER          -> "end"
    /\ CallEnds
    /\ due' = {} /\ scanNow' = 0
    /\ UNCHANGED <<app, latched, modbus, nextDue, prevSingle, lastRun,
                   board, world, fresh>>

\* What the program has written by then, %Q cleared (the idle one without app).
FaultImage ==
    IF app
    THEN /\ \E w \in Words: image' = [image EXCEPT !["program"] = Cleared(w)]
         /\ touched' = Points
    ELSE /\ image' = [image EXCEPT !["idle"] = Cleared(@)]
         /\ UNCHANGED touched

\* plcc_fault or a CPU fault in the program.
ProgramFaults ==
    /\ call \in ProgramCalls
    /\ EnterFault
    /\ FaultImage

Overran == ticks >= Limit

Counted_Mut ==                      \* watches only the tasks
    ticks' = IF call = "task" THEN ticks + 1 ELSE ticks

Counted == ticks' = ticks + 1

\* plcc_guard_tick while the program is in its own text ...
WatchdogTick ==
    /\ call \in ProgramCalls
    /\ IF Overran
       THEN EnterFault /\ FaultImage
       ELSE /\ Counted
            /\ UNCHANGED <<pc, call, at, state, app, image, latched, modbus, out,
                           sched, board, world, fresh, touched>>

\* ... and while it is in a library service, or the runtime reads the slot:
\* the time counts, but nothing is stopped.
WatchdogWaits ==
    /\ call # "none"
    /\ ticks < Limit /\ Counted
    /\ UNCHANGED <<pc, call, at, state, app, image, latched, modbus, out, sched,
                   board, world, fresh, touched>>

\* A fault the guard cannot contain: outputs off, then the crash handler.
\* Nothing reads the memory again before a reset, so it counts as cold now.
Crash ==
    /\ pc # "dead"
    /\ pc' = "dead"
    /\ ColdMemory
    /\ CallEnds
    /\ UNCHANGED <<board, world>>

-----------------------------------------------------------------------------
(* loop(). *)

LoopAt(here) == pc = here /\ call = "none"

\* modbus_to_image: only what differs from what was published last.
TakenOver(w) ==
    [p \in Points |-> IF server'[p] # shadow[p] THEN server'[p] ELSE w[p]]

\* The masters' writes are served, the inputs read into the image of the
\* moment, the writes carried over to it.
PollAndLatch ==
    /\ LoopAt("top")
    /\ server' \in Words
    /\ IF app THEN latched' = field /\ fresh' = TRUE
              ELSE UNCHANGED <<latched, fresh>>
    /\ image' = [image EXCEPT ![Cur] = TakenOver(@)]
    /\ touched' = touched \cup {p \in Points: server'[p] # shadow[p]}
    /\ pc' = "console"
    /\ UNCHANGED <<guard, state, app, shadow, out, sched, board, world>>

\* The lines console() finds: mw, stop, run.
MwLine ==
    /\ LoopAt("console")
    /\ \E r \in Regs, v \in Bit:
         /\ image' = [image EXCEPT ![Cur][r] = v]
         /\ touched' = touched \cup {r}
    /\ UNCHANGED <<pc, guard, state, app, latched, modbus, out, sched, board,
                   world, fresh>>

StopLine ==
    /\ LoopAt("console")
    /\ state' = IF state = "run" THEN "stop" ELSE state
    /\ image' = [image EXCEPT ![Cur] = Cleared(@)]
    /\ out' = Off
    /\ UNCHANGED <<pc, guard, app, latched, modbus, sched, board, world, fresh,
                   touched>>

\* start_program up to the guarded check: use_idle_image comes first.
RunLine ==
    /\ LoopAt("console")
    /\ app' = FALSE
    /\ image' = [image EXCEPT !["idle"] = Cleared(@)]
    /\ IF guardOk
       THEN Calls("check", at) /\ UNCHANGED state
       ELSE state' = "empty" /\ UNCHANGED guard
    /\ UNCHANGED <<pc, latched, modbus, out, sched, board, world, fresh, touched>>

Scans == state = "run"

\* No more lines: run_due_tasks reads the clock and begins, if the program runs.
ConsoleDone ==
    /\ LoopAt("console")
    /\ IF Scans
       THEN /\ pc' = "ready" /\ at' = 1 /\ scanNow' = now
            /\ UNCHANGED <<call, ticks>>
       ELSE pc' = "end" /\ UNCHANGED <<guard, scanNow>>
    /\ UNCHANGED <<state, app, image, latched, modbus, out, due, nextDue,
                   prevSingle, lastRun, board, world, fresh, touched>>

-----------------------------------------------------------------------------
(* run_due_tasks. *)

\* A task less than a period late keeps its phase, a later one starts anew.
NextDue(t) ==
    IF nextDue[t] + Interval[t] > scanNow
    THEN nextDue[t] + Interval[t]
    ELSE scanNow + Interval[t]

\* Readiness of task t, whose SINGLE is s.
Ready(t, s) ==
    LET cyclic == Interval[t] > 0 /\ ~s /\ scanNow >= nextDue[t]
    IN  /\ due' = IF \/ s /\ ~prevSingle[t]
                     \/ cyclic
                     \/ Interval[t] = 0 /\ ~HasSingle[t]
                  THEN due \cup {t} ELSE due
        /\ prevSingle' = [prevSingle EXCEPT ![t] = s]
        /\ nextDue' = IF cyclic THEN [nextDue EXCEPT ![t] = NextDue(t)] ELSE nextDue
        /\ lastRun' = IF cyclic THEN [lastRun EXCEPT ![t] = scanNow] ELSE lastRun
        /\ at' = t + 1
        /\ pc' = IF t = NTasks THEN "run" ELSE pc
        /\ UNCHANGED scanNow

ReadyWithoutSingle ==
    /\ LoopAt("ready") /\ ~HasSingle[at]
    /\ Ready(at, FALSE)
    /\ UNCHANGED <<call, ticks, state, app, image, latched, modbus, out,
                   board, world, fresh, touched>>

CallSingle ==
    /\ LoopAt("ready") /\ HasSingle[at]
    /\ Calls("single", at)
    /\ UNCHANGED <<pc, state, app, image, latched, modbus, out, sched, board,
                   world, fresh, touched>>

SingleReturns ==
    /\ call = "single"
    /\ call' = "none" /\ ticks' = 0
    /\ Ready(at, latched[at])
    /\ UNCHANGED <<state, app, image, latched, modbus, out, board, world,
                   fresh, touched>>

\* The most urgent of the due tasks, the first in the table among equals.
MostUrgent(t) ==
    \A u \in due \ {t}:
        Priority[t] < Priority[u] \/ (Priority[t] = Priority[u] /\ t < u)

CallTask ==
    /\ LoopAt("run")
    /\ \E t \in due:
         /\ MostUrgent(t)
         /\ due' = due \ {t}
         /\ Calls("task", t)
    /\ UNCHANGED <<pc, state, app, image, latched, modbus, out, scanNow, nextDue,
                   prevSingle, lastRun, board, world, fresh, touched>>

TaskReturns ==
    /\ call = "task"
    /\ ProgramWrites
    /\ CallEnds
    /\ UNCHANGED <<pc, state, app, latched, modbus, out, sched, board, world, fresh>>

-----------------------------------------------------------------------------
(* The end of the pass. *)

Flushed_Mut == CoilsOf(image[Cur])              \* whatever the state

Flushed == IF state = "run" THEN CoilsOf(image[Cur]) ELSE Off

Published_Mut == shadow                         \* the shadows stay behind

Published == image[Cur]

\* write_outputs, then image_to_modbus: tables and shadows.
EndPass ==
    /\ LoopAt("end") \/ (LoopAt("run") /\ due = {})
    /\ out' = Flushed
    /\ server' = image[Cur]
    /\ shadow' = Published
    /\ pc' = "top"
    /\ at' = 1 /\ scanNow' = 0
    /\ fresh' = FALSE
    /\ UNCHANGED <<call, ticks, state, app, image, latched, due, nextDue,
                   prevSingle, lastRun, board, world, touched>>

\* The image_to_modbus that ends setup().
EndSetup ==
    /\ LoopAt("publish")
    /\ server' = image[Cur]
    /\ shadow' = image[Cur]
    /\ pc' = "top"
    /\ UNCHANGED <<guard, state, app, image, latched, out, sched, board, world,
                   fresh, touched>>

-----------------------------------------------------------------------------
Tick ==
    /\ now < MaxTime
    /\ now' = now + 1
    /\ UNCHANGED <<pc, guard, state, app, image, latched, modbus, out, sched,
                   board, field, fresh, touched>>

SetField(t) ==
    /\ HasSingle[t]
    /\ field' = [field EXCEPT ![t] = ~@]
    /\ UNCHANGED <<pc, guard, state, app, image, latched, modbus, out, sched,
                   board, now, fresh, touched>>

\* What the runtime itself does next, whatever the program does.
Runtime ==
    \/ CheckReturns \/ CheckFaults
    \/ PollAndLatch
    \/ ReadyWithoutSingle \/ CallSingle \/ CallTask
    \/ EndPass \/ EndSetup

Program == GetAppReturns \/ InitReturns \/ SingleReturns \/ TaskReturns \/ ProgramFaults

Next ==
    \/ Runtime
    \/ Program
    \/ WatchdogTick \/ WatchdogWaits
    \/ MwLine \/ StopLine \/ RunLine \/ ConsoleDone
    \/ Crash \/ Reset
    \/ Tick \/ \E t \in Tasks: SetField(t)

Spec == Init /\ [][Next]_vars

\* The loop goes on, the timer ticks, and the host does not send lines without
\* end.  The program owes nothing: it need not return.
FairSpec ==
    /\ Spec
    /\ WF_vars(Runtime)
    /\ WF_vars(WatchdogTick)
    /\ SF_vars(ConsoleDone)

-----------------------------------------------------------------------------
(* Properties. *)

\* The outputs are off whenever the program is stopped or faulted, and after
\* the pass in which a start failed, although masters may still set coils
\* of the image (docs/program-image.md:292-298, loader.ino:133-154).
MustBeOff ==
    \/ state \in {"stop", "fault"}
    \/ state = "empty" /\ pc \notin {"console", "end"}
    \/ pc = "dead"

OutputsSafe == MustBeOff => out = Off

\* Tasks are looked at and run only while the program runs and its descriptor
\* is there: start_program drops the descriptor before it knows of another
\* (loader.ino:224-240, 277, 527).
ScansOnlyLoaded == pc \in {"ready", "run"} => state = "run" /\ app

\* After modbus_to_image the image is what the masters see and have written: no
\* write is lost to a shadow that fell behind (loader.ino:142-167).
TablesAgree == [][PollAndLatch => image'[Cur] = server']_vars

\* Every start is a cold start: what is set in %Q or %M has been written since
\* by the program, a master or the console (docs/program-image.md:297-298).
NothingSurvives ==
    call # "check" /\ app =>
        \A p \in Points \ touched: image["program"][p] = 0

\* A late task runs once: when it has run, its next activation is yet to come,
\* and no further than a period (docs/process-image.md:233, loader.ino:293-296).
NoBurst ==
    \A t \in Tasks: lastRun[t] # Never =>
        lastRun[t] < nextDue[t] /\ nextDue[t] <= lastRun[t] + Interval[t]

\* What holds of the loader between any two of its steps: relays off unless a
\* program runs, tasks of the loaded program only, cold starts, no bursts.
LoaderSafe ==
    /\ TypeOK
    /\ OutputsSafe
    /\ ScansOnlyLoaded
    /\ NothingSurvives
    /\ NoBurst

\* Whatever the program does, also when it never returns, the loop comes back
\* to Modbus and the console, unless the runtime itself crashed
\* (docs/program-image.md:292-296).
Responsive == <>[][~Reset]_vars => []<>(pc \in {"top", "dead"})

\* "Inputs are latched before readiness is evaluated"
\* (docs/process-image.md:238): the tasks of a pass see inputs of this pass.
InputsLatched == pc \in {"ready", "run"} => fresh

\* A start is under way, or has failed and the outputs are yet to follow.
Starting ==
    \/ call \in StartCalls
    \/ state = "empty" /\ pc \in {"console", "end"}

Mode ==
    CASE pc = "dead" -> "halted"
      [] pc # "dead" /\ Starting -> "starting"
      [] pc # "dead" /\ ~Starting /\ state = "run" -> "running"
      [] pc # "dead" /\ ~Starting /\ state = "fault" -> "faulted"
      [] OTHER -> "halted"

Plc == INSTANCE SafePlc WITH
    Outputs <- [Coils -> Bit], Safe <- Off, mode <- Mode, outputs <- out

\* The loader keeps what every runtime promises about the outputs.
ImplementsSafePlc == Plc!Spec
=============================================================================
