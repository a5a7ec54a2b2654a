# plcc: a verification development

plcc compiles IEC 61131-3 programs to native code and WebAssembly, converts
between Structured Text, ladder, PLCopen XML and Logix L5X, runs programs on
three runtimes (a host process, a browser worker, an Arduino Opta), and has a
browser studio in which ladder projects are edited, saved to a folder,
simulated, downloaded and watched online. This directory models two sides of
it: the parts that keep state over time and have to survive interleavings,
failures, late answers and crashes; and the translations, each of which is run
side by side with what it translates. Modules are TLA+, checked with TLC on
small instances; `*_proofs.tla` are checked with TLAPS for every value of the
constants. `PROJECT.json` lists the components, the runs, the source lines every
definition stands for, the hazards and the theorems.

    tlc -workers 2 -config MCScanGrid.cfg MCScanCycle      # one run
    tlapm ScanCycle_proofs.tla                             # one set of proofs

Paths below are relative to the repository's root. Where only a file's name is
given with a line, it is the file of the component discussed.

## 1. Inventory

### Runtimes

**Host scan cycle** (`crates/plcc-hal`: `scan.rs`, `app.rs`, `simulator.rs`).
State: whether it was started, the fault, per task the next activation and the
previous SINGLE, the program's %I, %Q and RETAIN, the platform's outputs,
scheduler flags, clock and retain file. Operations: `start`, `step_at`,
`save_retain`, and everything a holder of the `Platform` may do between two
calls (inputs, `stop_task`, `start_task`, `clear`). It calls the compiled
program's `plcc_init`, SINGLE expressions and tasks, any of which may fault.
Hard: late steps, SINGLE beside the interval, a fault between two due tasks,
power failing inside the retain file's rewrite. Correct means: the task grid is
kept and never bursts; an edge runs a task once; a fault leaves zero outputs and
nothing runs until `start`; `start` restores a whole snapshot or none.

**Opta program loader** (`runtimes/arduino-opta/loader`: `loader.ino`,
`plcc_guard.c`, `plcc_image.c`). State: `state`, `app`, the image pointers and
two images, the Modbus tables and their shadows, the guard with its watchdog
count, the flash slot, the relays. Operations: `setup`, the passes of `loop`,
the console's `mw`, `stop` and `run`, `start_program` with its early returns, the
guard's entry, return, fault and tick. Modbus masters and the console write into
the same image as the program; faults leave program text by a jump back into
the loop. Hard: a fault anywhere in a program, a program that never returns,
images switched under the Modbus shadows, a slot half written. Correct means:
outputs are off unless a program runs; every start is cold; no master's write is
lost; the loop always comes back.

**Opta monolithic runtime** (`runtimes/arduino-opta/runtime/runtime.ino`): the
same loop with the program linked in. Not modelled: the loader is the larger.

**Emulator** (`packages/plc-wasm`: `scan.ts`, `plc.ts`, `worker.ts`): a second
scan cycle in TypeScript, with its own `Runner` and a worker that answers load,
start, stop and restart. Hard: commands during the await of a load; scheduling
that differs from the host's. Not modelled; the next step of the plan.

### Studio

**Online session** (`studio/src/serial`). State: session state, command queue,
command out, missed answers, known %M, shown fault, timers. Operations: connect,
disconnect, poll, info, write, force, run, stop, timeout, a received line, the
transport's close, and the continuations of each promise. Hard: answers are
matched by kind, not by number; a settled command's continuation runs after
lines of the same chunk; the port may vanish at any moment. Correct means: one
command is out, none is left waiting, what is shown is what the device has.
`state/online.ts` owns the session and may overlap connects (planned).

**Project on disk** (`studio/src/state/persistence.ts`, `store/folder.ts`,
`store/repo.ts`, `store/watch.ts`). State: the editor's project, save status,
banner, autosaver (pending project, chain of saves), disk queue, snapshot and
stamps, the files. Operations: edit, autosave, multi-file save, disk check,
reload, Keep mine, grant access. Hard: another program writes, an operation
fails between two files, the tab crashes, edits arrive during every await.
Correct means: no edit is lost without being asked about, no foreign change is
overwritten without being asked about, the folder can always be loaded.

**Program download** (`state/download.ts`, `packages/webdfu/src/dfuse.ts`). State: the
flash, the board's mode, the sequence plan, erase, write, verify, leave with its
position, what the loader last took. Hard: any request may fail and the power may
go between any two of them. Correct means: only the slot changes; the loader
starts nothing but a whole image linked for it; a download that says it is done
has delivered what was built; every download ends.

**Simulation host** (`studio/src/runtime`): page and worker exchange load, run,
stop, force, snapshot messages; `FixedPeriodLoop` catches up with a throttled
tab. Planned. **Editor** (`state/editor.ts`): undo, redo, reload; one actor, unit
tests; not modelled. **Engine and views**: rendering and catalog lookups; not
modelled.

### Compiler

**Code generator** (`plcc-codegen/src/compiler.rs` and `compiler/`). One call in, one
object out, but what it emits has state, and each of its translations has a
meaning to be held against: integer expressions with their widths and signs,
statements as basic blocks, DATE arithmetic, initialization of globals and
instances, calls with their argument binding. Hard: promotion of mixed operands
through any nesting; jumps out of nested blocks; initialization repeated by every
program's init; VAR_IN_OUT slots that outlive a call. Correct means: the emitted
code computes what the language says, in the order it says.

**Emitted string functions** (`plcc_strlen`, `plcc_left`, ... in `compiler.rs`): loops
over NUL-terminated buffers. Correct means: no access outside a buffer, every
STRING terminated, the text the language defines, cut to the target.

**Standard function blocks** (`plcc-stdlib/st`, `plcc-runtime`): per-instance state of
timers, counters, latches and edge detectors, written twice. Correct means: the
answers follow from the recorded calls alone, and both forms give them.

**Runtime contract** (`compiler/contract.rs`, `plcc-hal/src/app.rs`): the plan of tasks and
instances, and the table of RETAIN regions with its signature. Correct means: a
program runs as often as its instances' tasks and its callers; a warm start
restores each variable under its own name and no other.

**Program image linker** (`plcc-image`, `plcc_image.c`): places sections, relocates,
writes the header; the loader checks and prepares. Correct means: what the
linker accepts the loader starts whole, and no accepted header makes it write or
call outside its windows.

### Languages and converters

**Structured Text parser and printer** (`plcc-st`): error recovery skips tokens, the
printer adds parentheses. Correct means: a printed tree parses to itself, and
nothing of a damaged text is lost without a report.

**Ladder** (`plcc-ladder`): `lower.rs` makes Structured Text of rungs, `from_st.rs` draws
rungs, `translate.rs` turns IEC ladder into Logix ladder and back. **Logix rungs**
(`plcc-l5x/src/rll.rs`) become Structured Text in two forms; **file and stack
instructions** become loops. **PLCopen** (`plcc-plcopen`): a drawing is lowered to
Structured Text, read into the ladder model, written from it. Hard: what a rung
writes while it is evaluated, values read by several elements, helper rungs
that a jump skips. Correct means: conversion and source, run from the same
inputs over several scans, give every variable the same value.

**Lexer and type checker, L5X declarations, TwinCAT, driver, command line, device
manifests, WebAssembly bindings, HAL stubs, demo**: not modelled (section 6).

### How they interact

      ladder <-> Structured Text <-> PLCopen XML, L5X
                      |
                      | compile, link                 download (DFU)
      editor -------> program image --------------------> flash slot
        |                    |                                |
        | autosave           | load                           | reset
        v                    v                                v
      folder on disk   simulation host/emulator            Opta loader
        ^                                                   ^      ^
        | write                                     console |      | Modbus
      other programs                 online session --------+   masters

All runtimes promise the same about outputs; that promise is the abstract module
`SafePlc`, which two of them are shown to implement.

## 2. Modules

| module | models | used by, theorems |
|---|---|---|
| `SafePlc` | the outputs contract every runtime promises | abstract |
| `ScanCycle`, `MCScanCycle` | host scan cycle | `ScanCycle_proofs` |
| `OptaLoader`, `MCOptaLoader` | Opta loop, loader and guard | `OptaLoader_proofs` |
| `OnlineSession` | the studio's session, with the console it talks to | `MCStudio`, `MCStudio_proofs` |
| `ProjectSave` | autosaver, disk queue, folder, banners | `MCStudio`, `ProjectSave_proofs` |
| `MCStudio` | the studio in one of two settings: with a device, or with a folder | `MCStudio_proofs` |
| `ProgramImage`, `Download` | linker, header check; download over DFU | `MCRuntime`, `MCRuntime_proofs` |
| `RuntimeContract` | tasks, instances, RETAIN | `MCLanguages` |
| `StringOps` | emitted string loops, and what they mean | `MCRuntime`, `StringOps_proofs`, `MCRuntime_proofs` |
| `StdBlocks`, `FunctionBlocks` | standard blocks; their history | `MCRuntime`, `LadderModel`, `MCRuntime_proofs` |
| `Expressions`, `ControlFlow`, `Initialization`, `Calls` | the code generator | `MCCompile`, `MCLanguages` |
| `Dates` | DATE literals, CONCAT_DATE, the split of an instant | `MCRuntime`; `Dates_proofs`, `MCRuntime_proofs` |
| `LadderModel`, `LogixRungs`, `LadderTranslate`, `LadderConversions` | ladder, its lowering and drawing, Logix rungs, translation; side by side | `MCLadder` |
| `PlcOpenGraph`, `PlcOpenLadder`, `PlcOpenFlow` | a drawing to text, to the model, from the model; side by side with its flow | `MCPlcOpen` |
| `StParser`, `StPrinter`, `SyntaxRoundTrip` | parser, printer | `MCSyntax` |
| `BoundedStore`, `LogixStack` | FIFO and LIFO instructions | `MCLanguages`, `LogixStack_proofs` |
| `LogixFiles` | shifts, copies, fills of files | `MCRuntime`, `MCRuntime_proofs` |

An operator whose name ends in `_Mut` is a wrong form of the definition after
it, the slip a property is there to catch. No specification uses one.

**How a translation is modelled.** A state holds a source program, built step by
step or drawn from a menu; a step translates it with the operators that stand for
the translating code; further steps run source and translation from the same
inputs and keep both environments. The meaning of the source is written from the
language (power flow, blocks of a body, IEC strings, integers without width), the
translation from the code. `MCLanguages` and `MCRuntime` put such parts in one
instance: `part` names the one a behaviour belongs to, the others stand still, so
one run asks about all of them without multiplying their states.

### SafePlc

A mode (halted, starting, running, faulted) and the outputs. Only `Scan`, in mode
running, sets outputs; `Fault` and `Halt` put them in the safe state; a start leaves
or clears them. `ScanCycle` implements it with mode running or faulted,
`OptaLoader` with all four. What the contract forbids is the interesting part:
no step of a faulted or halted PLC turns an output on, however the step came
about.

### ScanCycle

`Step` is `step_at` from latch to flush in one action: it is one synchronous call
on one thread. `Readiness` is its first loop (scan.rs:188-225), `RunAll` and
`RunUntilFault` the second. `FirstStep` is a step that calls `start` itself.
`StopTask`, `StartTask`, `SetField`, `Tick`, `ClearRetain` are what a holder of the
platform does in between. A compiled task is data: it may leave any %Q and
RETAIN, or fault. The retain file is a signature, the regions, and how many of
them are whole, for `fs::write` truncates and rewrites (simulator.rs:265).
`origin`, `slots`, `lastRun`, `held`, `lastSave` are history variables.
Left out: `destroy_task` (nobody calls it on a cycle's task), `next_due_ns` in the
report (the repository's own loop does not read it).

### OptaLoader

One action per function of the loop and per guarded call's start and end, since
the watchdog's interrupt, a CPU fault, the clock and a reset come in between.
`pc` is where the loop is: `setup`, `top`, `console`, `ready` (the SINGLE loop), `run`
(the task loop), `end`, `publish` (setup's last call), `dead` (mbed's crash
handler). `call` is what `plcc_guard_call` runs. `EnterFault` is the return by jump
plus `enter_fault`, and goes back to where its caller goes on. `image["idle"]`
and `image["program"]` are the two images `img_i`, `img_q`, `img_m` point into.
Abstractions: the image check is one of four slot contents (good, refused
descriptor, refused image, half written); `poll`, `read_inputs` and
`modbus_to_image` are one action, as are `write_outputs` and `image_to_modbus`
(nothing else touches their data in between); a program writes any %Q and %M.
After the crash handler, memory counts as cold: nothing reads it before the
reset. Local variables count as initial when their function has returned.
`WatchdogTick` and `WatchdogWaits` are a tick in program text and one in a library
service or in the runtime, where `plcc_guard_tick` stops nothing.

### OnlineSession

JavaScript runs to completion. `chunk` is what is left of the lines a read
delivered, `settled` the promises whose continuation has yet to run; only when
both are empty (`Calm`) does another timer, click, chunk or close event get its
turn, and only then does the device move, which loses nothing since the two
share no state but the wire. `Finish` sends the next command before the settled
one's continuation, as session.ts:256-264 does. Each line and command carries
`own`: does it belong to the command that is out? No code sees it; `OneAtATime` is
about it. %M is one word, a set of bits. The device answers in order; its program
writes %M, faults and reprints its fault. Line formats are kinds. The manifest
comparison of `info` is left out. Nothing waits for a poll: `Polled` is the turn that
its settled promise takes to do nothing.

### ProjectSave

A project is its model's version and its set of devices; the folder is
`project.json`, `project.toml` (which names devices) and one manifest per device.
A file is read and written atomically; a save is a sequence of files
(`SaveStart`, `WriteFile`, `RemoveManifest`, `SaveDone`), with everything else in
between. `jobs` is the autosaver's promise chain, `tasks` the disk queue with its
first task running, `phase` what that task awaits. `touched` stands for the stamp
of `project.json` being other than remembered; other programs write only that
file. `Buttons` are the buttons a run may press.

### BoundedStore, LogixFiles

A capacity, a sequence of items, what came out last, and the two rung conditions.
`LogixStack` implements it with the elements of the array below POS as the items.
`LogixFiles` has the loops of BSL, BSR, COP and FLL as functions of the iteration; a shift also has its CONTROL
and runs again and again, a copy once from bytes that are all told apart.

### Download and ProgramImage

Sizes and addresses are cells; a cell says what is there (text of an object, a
relocated address, a header field, erased, half written). `Link` is `link_object` from
sections to header: `Place`, `Commons` and `Ends` lay out, `CellAt` says what is at an
address of the image. `Check` and `Prepare` are the loader's. `WellFormed` is what the
ELF parser gives, `LayoutFits` what `Layout::check` demands; besides, a slot lies below
RAM, as it does on every ARMv7-M. `Download` erases and writes
sector by sector and block by block; any step may end in `Failure`, `PowerCycle` comes
between any two, and
the loader's own check at every start. The CRC is idealised as the exact content.
`Builds` are what may be built: for this board, an older manifest, another board.
What a download may write is said twice: `SlotKept` by the slot, which holds while
`OneSlot` (runtimes of one target and ABI have one slot) and `SlotEndsOnSector` do,
and `FloorKept` by what webdfu itself allows, which holds whatever the manifests say.

### RuntimeContract

A project is its programs (with RETAIN variables, structures, blocks, calls) and a
CONFIGURATION or none. A step runs a task, saves, restarts cold or warm, or replaces
the project by another. `g` is the global memory, `ran` the history of what ran.

### StringOps, StdBlocks

One action per byte of an emitted loop; a builtin builds in a temporary which the
assignment copies. The meaning of each function is stated beside
it over sequences. A load outside a buffer yields any byte: `plcc_mid` starts wherever its
position points, and `astray` marks the statements in which that is not within the text. `FunctionBlocks` calls an
instance at growing times and holds both implementations against predicates over
the log of calls, never against each other alone.

### Code generator

`Expressions`: the value compiled so far, as bits, beside the same expression in the
integers; each step makes it an operand of a larger one, so every depth is reached.
`ControlFlow`: a program as basic blocks and as statements in lockstep; every
condition is answered by the environment. `Dates`: a walk through the calendar month
by month, with the closed formulas held against it. `Initialization`: what the emitted
stores leave beside what each declaration states. `Calls`: memory cells and addresses
beside scopes and names.

### Ladder, Logix, PLCopen

An environment holds variables and block instances. `LadderModel` gives power flow
through elements, `lower.rs` and `from_st.rs`, and what the Structured Text of lowered
rungs does; `LogixRungs` the Logix rung lowering in its two forms;
`LadderTranslate` the translation with its helper rungs. A PLCopen body is a flat
sequence of nodes; `PlcOpenGraph` lowers it, `PlcOpenLadder` reduces each network to a rung or
a box and writes rungs as nodes, `PlcOpenFlow` scans all of them.

### Parser and printer

Tokens are strings, trees are records of kind, value and children. Every function
of the parser takes a state (position, errors, tree) and returns one. These modules
use RECURSIVE operators and are not proved about.

## 3. Runs

| run | instance | shows |
|---|---|---|
| scan_grid | 2 tasks (periodic with SINGLE, periodic), time 0..5 | grid, no burst, an edge runs once, due tasks are served |
| scan_fault | periodic, event and free-running task, 2 regions, 2 programs | `SafePlc`, a fault cuts the step and holds until start, retain |
| opta_loader | periodic and event task, 1 coil, 1 register, watchdog limit 1, time 0..2 | outputs, cold start, Modbus, `SafePlc`, liveness |
| online_live | run/stop calls, answering device | error is left, faults are shown |
| studio | run/stop calls, hanging device; beside it 2 devices, 3 edits | calls settle, no stale fault, edits reach the disk in order |
| studio_busy | 2 writers, 2-bit word, wire 2, chunk 2; beside it 1 device, 2 edits, 2 foreign writes, 1 failure, 1 reopening, all buttons | one command out, no pile-up, known %M, nobody waits for ever; folder loadable, nothing written unasked, blocked edits stay |
| languages | parts of the compiler and the converters, contract, stacks (below) | each translation means what its source does |
| runtime | download, strings, blocks, dates, files, object, header (below) | images, downloads, what emitted code and the library do |
| online_stop | wire 4 | **violation**: a late `ok run` makes stop succeed |
| save_race | 1 device, 2 edits, 1 foreign write | **violation**: an edit during a reload is lost |
| opta_latch | as opta_loader | **violation**: first scan after console `run` has unlatched inputs |
| mid_range | as runtime | **violation**: MID outside its text loads outside its argument |

`studio_busy` has four million states, its writers and bits being symmetric, and takes two minutes
(it asks of safety only, where that is sound), the other passing runs about a minute each, the violations seconds. `languages`, `runtime` and the violation of its part, `mid_range`, say CHECK_DEADLOCK FALSE, since a program that has
been translated and scanned its bounded number of times is done. Every other run
checks deadlock, and no state of any is without a next step.

**Bounds.** `MaxTime` 5 with intervals 2 and 3 lets a task be on time, one, and
more than one interval late, and lets two grids coincide and part; the grid
theorems hold for every bound. In `scan_fault` time is nearly constant because
the schedule is not its question. A watchdog limit of 1 gives a call that ends
before, at and after the limit. Time 0..2 with interval 2 gives a pass that
keeps its phase and one that starts anew. `MaxWire` 2 holds one late answer and
the current one, which is what can be confused; `online_stop` needs an earlier
`run`, its late answer, an info and the stop, so 4. `MaxChunk` 2 is the smallest
with a second line behind one that settles a command. Three edits give one save
out, one waiting and one pending. Two foreign writes allow the second to restore
the first (the case of persistence.ts:280). One failure and one reopening can
fall between any two files.

*Download.* Five sectors, one of them closed and one shorter; images of one and of
two sectors; a transfer of 5 cells, so that a sector takes a whole and a partial
block; two failures, so that one can meet the retry after another. *Objects and
headers* are all combinations of sizes and alignments around the windows' limits.
*Contract*: projects with an implicit task, a called program, two resources, a
background task, two instances of a program. *Strings*: capacities 4 and 2, counts
before a string and inside or past it (for MID's position too), numbers of two bits, so every
result is reached that is cut, exact and short. *Blocks*: four to six calls of an instance, presets 3 and 1, INT
of two bits with its limits; a pulse, a pause and a restart fit.

*Expressions.* Widths 1, 8, 16, 32, 64 become 1, 4, 5, 6, 7 bits: they keep their order,
and 32-bit arithmetic keeps room over 16; values at the limits of each type. An
operand that meets no limit behaves like one that does not wrap, so few values
suffice. *Statements*: each loop, branch and jump inside each other, two deep,
three for loops. *Dates*: the years -410 to 2410, past both ends of the 400-year
era and of the epoch; `DayLength` 3 stands for the nanoseconds of a day, as only the
quotient and remainder are used. *Calls*: two calls, the second to see what the first
left. *Ladder*: programs of a menu, two elements a rung and two rungs over two scans;
for the translations three elements in one rung over three scans, the fewest that
show an edge, its absence and a value kept from before. *PLCopen*: every rung of two contacts and a coil in
every modifier, and some twenty drawings in which branches, blocks, feedback,
enables, connectors, orders and jumps meet. *Syntax*: every pair of operators nested
either way, each statement and declaration, two programs that lose each token in
turn, all bodies of at most four tokens. *Stacks*: an array of five
with LEN 0, 1 and 3, and -1. *Files*: words of two bits, a file of two of the three words, LEN from -1 to past its
four bits; four elements of one and of two bytes, every start and every count from -1 to past the end, so that copies
are cut by either array, overlap upwards and downwards, and repeat.

**Fairness.** `ScanCycle`: the host's loop calls `step` again and again
(linux_sim.rs:154); nothing else is owed. `OnlineSession`: the event loop ends
every turn and gives each ready task one; in `StudioSpec` the timeout is fair and
the device owes nothing (`StudioSteps` has none, it asks of safety only); in `StudioLive` the device reads and prints on and
the timeout owes nothing. `ProjectSave`: timers fire and file operations end.
`OptaLoader`: the runtime's own steps go on, the timer ticks, a tick meets
program text sometimes (a program lives in its text; services it calls return),
and the host does not send console lines without end. A program need never
return. `Responsive` further assumes that resets stop; a board that is reset for
ever is never responsive. `Download`: a request ends, with success or not; no power
returns by itself. `StringOps`: emitted code runs on. The language parts assert no
liveness.

## 4. Proofs

Eight modules hold theorems; all hold for every value of the constants that
satisfies the named assumptions: at least one task, intervals and priorities
natural numbers, zero among the output values, coils and registers distinct,
bounds natural numbers, the two fixed file names no device's (`SaveAssumption`); for the stack a file
that lies inside its array; for the session finitely many writers, none with the
name of the bar, the poll or the timer (`SessionAssumption`); STRINGs whose
lengths, and the sums of any two, stay below 32768 characters, and integers no wider
than such a string is long (`StringsAssumption`); for a download objects
as the ELF parser gives them, layouts that `Layout::check` passes, a slot that is
flash (`DownloadAssumption`), headers of unsigned fields (`ImagesAssumption`); presets that are
an INT or a TIME, and time that does not run backwards (`BlocksAssumption`); years on both sides of
the epoch (`DatesAssumption`); a file that is a part of its array, elements of at least a byte and lengths
of any sign (`FilesAssumption`). Two theorems about downloads and four about a quiet folder have a hypothesis of their own, given
with them. TLC evaluates every
assumption on the instances. Nothing else is assumed.

`MCRuntime_proofs` states what the run `runtime` checks of the behaviours of `AllSpec`, in which `part` names
the component. Where a component has proofs of its own (`StringOps_proofs`, `Dates_proofs`), they are taken over by
INSTANCE: the invariant holds while `part` has that name and no step changes `part`.

### Runtimes

**`TypeCorrect`** (`ScanCycle`). Not trivial in one place: `next_due` stays a
natural number because a slot that is reached leads to a later one, which is
arithmetic on the number of whole intervals (`NextSlotLater`).

**`ScheduleCorrect`**: `Spec => []ScheduleKept`. Its two parts are not inductive: a task
without a schedule must have used no slot, or its first activation would begin
the count in the middle. `GridInv` adds that (`UnscheduledIsFresh`). A scan
changes each task's schedule independently, in one of two ways: its slot was
reached (then the old activation, plus one interval, plus the missed ones, is
again on the grid and after now) or not (then only a first activation is set).

**`FaultIsSafe`**, **`FaultHolds`**, **`HostIsSafePlc`** rest on `FaultInv`: safe state, and
only a started cycle has a fault. Without the second part the scan that a first
step runs after `start` could begin faulted. `HostIsSafePlc` maps each action to
one of `SafePlc` or a stutter, under `TypeOK'`, since the abstract scan's outputs
must be output values.

**`RetainIsRestored`** rests on `FileIsLastSave`: the file is whole exactly when the
last save completed, and then it is that save.

**`TypeCorrect`** and **`LoadedWhenScanned`** (`OptaLoader`) come from one invariant,
`TypeInv`. A fault jumps out of a call and goes on where the call was made, so
`Control` says for each call where the loop is (`InCall`) and what `start_program`
has done by then (`Descriptor`). `RunHasApp` excepts the calls of a start: a console
run drops the descriptor while the state is still running.

**`OutputsAreSafe`** adds to `OutputsSafe` that the outputs are off while `setup` runs and
until it has published. **`LoaderIsSafePlc`** then needs only three cases: a step
switches the outputs off, leaves them, or is the flush of a running program;
the first two are steps of `SafePlc` or stutter whatever the mode becomes.

**`LateTaskRunsOnce`** is inductive; it is the arithmetic of `NextDue`, a multiple of
the interval less than one interval after now.

**`NoWriteIsLost`**: `ShadowInv` says that at the top of the loop the shadows are the
current image, which is what lets `modbus_to_image` tell a master's write from
a value of its own. It does not hold elsewhere in the pass, and `TablesAgree`
needs it there only.

**`StartsAreCold`**: from the program's first call on (`ColdInv`), what is set in its
image is among the points written since `plcc_image_prepare`.

**`OneRunPerEdge`** (`ScanCycle`) rests on `HeldInv`: a task stays in `held`, the history
of edges that were served, only while `prev_single` is TRUE. Then there is no
second edge to run on, and SINGLE being TRUE keeps the interval from running it,
whatever stops, starts and late steps come in between.

**`StepsAreInOrder`** needs no invariant. Among the tasks that are due, those that ran
with a faulting one are more urgent, and every other is less: the order of urgency
is total because the task's number breaks ties.

### Studio

**`SessionInvariant`** (`OnlineSession`, proved in `MCStudio_proofs`). Each of the parts of `QueueOrderly` is about another
stretch of a command's way, and none is inductive alone; `IInv` follows a command
from the queue over the wire and back into its continuation:
`OwnInv`, the command that is out has exactly one request or answer of its own, of
a kind that settles it; `LinkInv`, what a connection that is opening, closing or
closed has left; `CallersInv`, somebody waits exactly while a command of theirs is
queued, out or settled, and nobody has two; `InTimeInv`, until a timeout there is
nothing else under way; `KnownInv`, then the words in answers are the device's, or
the acknowledgement of the write that changed them is still to come; `FaultInv`,
a fault shown over a running program is ahead of the answer to the run.
**`QueueIsOrderly`** counts with `OwnInv` and `CallersInv`. **`FaultIsNotStale`** is `FaultInv` when
the bar waits for nothing.

**`TypeCorrect`** (`ProjectSave`) is proved together with `OneSaveOut`: the disk queue
holds a save only while the autosaver's chain is not empty, and never two.

**`ManifestsAreThere`**: `ReaderFindsManifests` is not inductive, since a save writes
`project.toml` over a folder it has prepared. `WritesInOrder` says what is
prepared: while a save is under way each manifest it needs is on disk or still
to be written, and once `project.toml` is written it names exactly those, so that
the removals at the end take only manifests nobody names.

**`TheUserIsAsked`** (`ProjectSave`) rests on `AskInv`: while files are written the turn is Keep
mine's, or a save's and no conflict is shown; while they are read to be loaded, a
reload's, or a check's and no edit is blocked. The banner and the status change in
turns of the same queue, so no other turn can make that false.

**`EditsAreKnownAlone`** and **`SavesKeepTheOrder`** are about a folder that nobody else
writes and where operations succeed (`MaxTheirs` and `MaxFails` zero); closing in
the middle of a save and opening again are there. In a shared folder the first
is false, as save_race shows. `QuietInv` relates five places: what the editor holds is
pending, or last in the chain, or in the files; the first of the chain is being
saved; between two saves the files are as remembered; later in the chain is later
in the edits.

**`StudioCommandsAreOrderly`**, **`StudioFaultIsFresh`**, **`StudioFolderIsReadable`**,
**`StudioAsksTheUser`**, **`StudioEditsAreKnown`**, **`StudioSavesKeepTheOrder`**: the invariants carried over to
`MCStudio`, where either setting uses the variables of the other, for every value of the constants
of both; the last two in a quiet folder.

### Downloads

**`LinkedIsWhole`** has no state: for every well-formed object and every layout, an image
that `Link` returns passes `Check`, its sections lie aligned and apart, and in the
memory `Prepare` leaves, each cell is the one its object needs, relocations and
veneers included. The layout is recursive over the sections; induction is made by the
least section at which a claim would fail (`LeastNumber`), since no prover here can
instantiate an induction theorem. Then the linker's own refusals (`Accepts`) bound
the layout by the slot and the RAM, and `Starts` says what is where after prepare.
**`HeaderStartsSafely`** asks the converse of `Check` alone: whatever header of unsigned
numbers it takes, prepare copies and clears only behind the code of the image and
within the RAM window, and the entry is in the code.

**`RunsOnlyWholePrograms`**: `BoardInv` says that a header in flash, wherever
it lies, is of a build that linked; that each step of a download belongs to such
a build and, once `plan` has accepted it, to allowed sectors; and that what runs
is accepted from the flash as it is now. Since the CRC is exact, accepted means
whole, and `LinkedIsWhole` does the rest.

**`FloorIsKept`**: no step changes a cell outside the flash webdfu may write. **`SlotIsKept`**:
nor one outside the slot, under `OneSlot` and `SlotEndsOnSector`. Both are promises of
the manifests: dfuse.ts:190-204 compares where a sector starts with the
slot, not where it ends, and the slot it knows is the manifest's. Without either a
download may write elsewhere in that flash; the code checks neither.

**`WhatWasBuiltRuns`**, under `OneSlot`: `DeliverInv` says that verify has compared every cell
up to `pos` and nothing writes after it, so at leave the whole image is in the slot;
two builds that are both accepted from one flash have the same header, and a
header names its build. Hence "ok" means the built image is there and is what the
board runs when its runtime accepts that build.

**`EveryImageFits`** is `LinkedIsWhole` and `HeaderStartsSafely` for the objects and headers of an
instance, whichever they are.

### Strings

**`StringsStayInBounds`** (`OnlyMidStrays`, `AlwaysTerminated`) holds of any arguments. No store
leaves its buffer; the one statement whose loads do is named in the property: a MID whose
position is not within its text (section 5). `HeldInv` is `StringsInv` or, while such
a MID fills its temporary, `AstrayInv`, and in either case every byte of a variable has been
stored there (`VarBytes`), so that no fresh byte of a slot is ever met by that MID inside its argument.
`AstrayInv` says no more than that the temporary holds bytes up to the write index, which
leaves room for the NUL; when it ends, the temporary is a terminated text like any other
and `StringsInv` holds again. `StringsInv` says that a buffer which is read holds characters up to its NUL and a
fresh byte nowhere before it; that the buffer being written does so up to the write index,
which leaves room for the NUL; that each loop to come either stops at its text's NUL
or was given an end that is not past it; and that the calls of a statement read arguments
until the last one reads the temporary. `plcc_i64_to_str` needs a bound of its own: a number
below 2^b has at most b digits, so `Bits + 2` bytes are enough.

**`StringsMeanWhatTheySay`** (`EndsMeantInText`) is about every statement but such a MID, also
about those that read what it left. It rests on `MeansHeld` besides, which is `MeansInv` unless such a MID
is under way (`Away`): what a statement means is
what has been written (`SoFar`), followed by what its loops still copy (`Ahead`), followed by what its
later calls write (`CallsText`); once the temporary is complete it is the temporary's
text, and in the last call the written part is that text cut to the room of the target. A byte
copied moves from the second to the first, a loop that ends adds nothing. What a
builtin's calls write at the start is its meaning because the clamps of `plcc_left`,
`plcc_right` and `plcc_replace` are those of the language (`LeftText`, `RightText`, `MidText`,
`ReplaceText`). That the result is right where the target is an argument
follows from the arguments being read before the target is written. The digits of a
number are its numeral since a numeral without leading zeros is unique (`NumeralUnique`) and
exists (`NumeralExists`); `Weight` is written as a running sum, as no prover here knows powers,
and `TwoTo` is a recursive function for the same reason.

**`QueriesAnswerRight`** (`AnswersRight`): `SearchInv` says that FIND has ruled out every position up to
its outer index and matched what its inner index has passed, and that the comparison has found both
texts alike so far. Then the first difference decides (`FirstDifference`), a prefix counting as the
smaller, which is where the code relies on NUL being below every character. STRING_TO reads
back what was written: its running value of digits is their weight (`DigitsValue`), and the
wrapped negative of a magnitude is the bit pattern it came from (`Round`).

**`EveryStringInBounds`** and **`EveryStringMeant`** are the three theorems for the part `strings` of `AllSpec`.

### Standard function blocks

**`EveryBlockAnswers`** (`AnswersHistory`, `RuntimeAgrees`). A block keeps a few fields, its meaning is a
predicate over all calls so far. For every kind `BlocksInv` says how the fields sum the calls up, in both languages:
`LatchInv` that the latch is set exactly if some set is not followed by a reset; `TrigInv` that the edge memory is
the last input; `CounterInv` that the value is the edges since the last reset or load, unless it would have left an INT;
`TonInv` and `TofInv` name the call at which IN rose or fell, with the time kept counting from it
(in Rust from the call before); `TpInv` and `RtoInv` are about the recursion that says where a pulse started or adds up
the time held. Every kind has a lemma that a call keeps its part.
A recursive function over the calls is a CHOOSE, so `TpInv` speaks of every function that obeys the
recursion, and says that there is one: then the chosen one is among them, and the function one call later is
the old one with a value more. Counts are cardinalities of sets of calls; a call adds at most itself (`EdgesStep`).
What a count needs besides is that the last reset is the latest (`Latest`), which makes
`Since` move to the new call or stay.

### Logix files

**`EveryFileExact`** (`ConfinedStep`, `ShiftStep`, `CopyStep`). BSL and BSR move bits within words in place,
COP reads elements that it may just have written. A loop is again a recursive function; that one obeying it exists
is `LoopRuns` (by the least number of iterations that none reaches), and what it has done after n iterations is
shown by the least n at which it would not: for BSL the uppermost n bits have moved and all others are as they were, from which
each bit moved takes the *old* value of its neighbour (`ShiftedLeft`); `ShiftedRight` from below. `BitPlace`
says that a bit has one place in one word, `BitWritten` that writing it changes no other, within or outside the file.
For copies between arrays the bytes have such places, of two sizes (`ByteIn`, `ByteWritten`); the number copied is
the least of three (`LeastOfThree`), so no place is past either end (`BytesCopied`). Within an array, upwards
over itself, element k holds what was at its distance from the destination modulo the distance of the two
(`ElementsCopied`; `RepeatsAt` is the step of that remainder). `FilesInv` keeps the types and that DN and ER are never both set.

### Dates

**`EveryDateIsExact`**, and **`EveryDateAgrees`** in the part `calendar` of `AllSpec`: the walk month by month is shown to be a closed formula,
`DayNumber` (`CalendarInv`), and that formula to be the one the code has, era and
year of era by truncating division with its correction below zero. Each of the
years' and eras' lengths is arithmetic on quotients that are determined by their
ranges (`DivisionIsUnique`). It holds for every length of a day and every range of
years around the epoch (instants are integers, so within the 64 bits the code has for
them); the run has the years -410 to 2410.

### Logix stacks

**`TypeCorrect`** (`LogixStack`): POS stays between 0 and LEN, which is not written down
in any instruction: a reset, a restart and an unload that brings POS back to LEN
each have to keep it (`LoadDoes`, `UnloadDoes`, one lemma per instruction, are what the
rest is proved from).

**`StackIsExact`**: DN and EM follow from these lemmas, each branch of a load or unload
setting them its own way; the elements outside the file are those at or past LEN,
and an unload's shift ends one before it.

**`PairIsBoundedStore`** maps the elements below POS to the items of `BoundedStore`: a
load appends (`LoadAppends`), an unload takes the first or the last (`UnloadTakes`), a
reset and a restart empty or keep them. It holds for every LEN inside the array.

### Only model-checked

Liveness under fairness, and ENABLED, no prover here decides: `OverdueServed`,
`Responsive`, `DeviceIsSeen`, `CallsSettle`, `EditsReachDisk`, `WorkEnds`. Modules that need
RECURSIVE operators cannot hold theorems, nor can a module built on them: the parser and printer,
the ladder and PLCopen modules, `ControlFlow`, `Initialization`, `RuntimeContract`, hence `MCLanguages` as a
whole. What a recursive lowering computes for every program would be an induction over data. `Expressions` works on
bits with `Bitwise`, which the provers do not have. `Calls` has neither, but its bodies and argument lists are the menu of
the instance: beyond the number of calls there is nothing for a theorem to generalize. So `ExpressionsExact`,
`ControlExact`, `InitialValues`, `CallsExact`, `LadderExact`, `TranslationExact`, `FlowExact`, `ModelExact`,
`PrintedParses` and `ContractKept` stay with TLC.

## 5. What the violations say

- **online_stop** (session.ts:295). Every line that begins with `ok ` answers the
  run or stop that is out. When a run times out and its `ok run` arrives after stop
  was sent, `stopProgram()` succeeds while the program runs. The `info` it then reads
  shows the truth if it is not itself late.
- **save_race** (persistence.ts:342). `reloadSession` awaits the load after `checkDisk`
  looked for unsaved edits. An edit made meanwhile is replaced in the editor, and
  its queued save later overwrites what was reloaded.
- **opta_latch** (loader.ino:522-529). `console()` comes after `read_inputs()` and before
  the scan; the `run` it handles switches to a zeroed image, so the first scan sees
  every input FALSE.
- **mid_range** (compiler.rs:2152). `plcc_mid` starts at `pos - 1`, whatever that
  is; `plcc_left`, `plcc_right` and `plcc_replace` clamp. MID(s, L, 0) loads the byte in front of `s` before
  it looks at L, a position past the terminator reads on behind the text, and what is found there becomes
  the result, where docs/codesys-compatibility.md:246 promises clamped positions and no access outside a
  buffer. The property is that sentence, of every statement; the run stops at the first load.
  No store is affected: `StringsInBounds` and `StringsMean` say what is kept all the same.

Read in the code while modelling it, described here and asked by no run. Where a
source means something the conversion does not keep, the instance leaves that
case out, and the properties hold of what remains:

*Session and project*

- session.ts:360: `forceBit` computes the word when it is called; two forces of one
  word in one poll period, and the second writes the first one's bit back.
- folder.ts:111-115 takes stamps after the files were read or written; another
  program's write in between is hidden by the stamp and overwritten by the next
  save. The browser offers no atomic read and stat. (The model has the window.)
- A save that fails between two files leaves `snapshot` and `stamps` describing
  neither folder: the next check takes the studio's own half save for a conflict,
  although persistence.ts:74 says a check never sees half a save.
- persistence.ts:313-316 removes the permission banner when reading works again,
  but retries no save: blocked edits stay blocked, without a banner, until the
  next edit. studio/README.md:306-308 says they are saved once access is back.
- persistence.ts:365: Keep mine cancels the autosaver, after which edits no longer
  count as unsaved; a check already queued may reload, and Keep mine then writes
  the reloaded project.

*Runtimes*

- scan.rs:237 reports the stale activation of a stopped task as next due.
- plcc_guard.c:137 counts the watchdog per guarded call; docs/program-image.md:294
  speaks of a scan, which may be several calls. plcc_guard.c:77 takes a CPU fault
  for the program's without asking which thread faulted.
- loader.ino:224-230 clears only %Q of the idle image, so %M written without a
  program stays until a reset. A master's coil write while faulted makes %Q
  non-zero again; the relays stay off.
- scan.ts:3 and loader.ino:276 say "the same loop" as the host's. They keep a slot
  that SINGLE held back due, and begin a new phase after an overrun; the host
  does neither.
- A board left in DFU mode by a failed download is tried again only after a power
  cycle. dfuse.ts:190-204 compares where a sector starts with the slot, not where
  it ends; on the boards there are, sectors end with the slot.

*Code generator*

- A STRUCT field with an aggregate initializer gets no defaults of the inner type
  (compiler.rs:4427-4429 says it does). FB_init is not run for blocks in VAR_TEMP,
  arrays and structures. Initializers run again with every program's init. A
  FUNCTION's STRUCT result starts as zeros. A restart after a fault initializes
  only what has a store.
- An omitted VAR_IN_OUT keeps the address of the call before; duplicate inputs of
  a block are accepted, the last counts.
- contract.rs: RETAIN of a called program without an instance is not collected under
  a CONFIGURATION; the signature hashes paths and type names, so fields that trade
  places in a STRUCT keep it (docs/process-image.md:72 says it changes with the
  layout).
- `plcc_strlen` counts in 16 bits, so a STRING holds fewer than 32768 characters
  (`StringsAssumption`).
- compiler.rs:7150: MIN, MAX and their like take the type of one of their arguments; with
  arguments of several types, or values outside the type, the result is another.
  `AnyArgument` is FALSE in the run; TRUE shows it.

*Ladder, Logix, PLCopen, text*

- Translated one-shots (docs/ladder-translation.md:245) and the RES of a CTU remember
  an edge their source does not, so a first scan or a reset under power differs; copies
  in a rung after the translated one are skipped by a jump.
- translate.rs:1693: `JMP(L) OTE(y)` becomes a jump and a coil. A taken JMP skips the rest of its
  rung (docs/l5x.md:182), a ladder jump takes effect after its network (docs/ladder.md:151). No warning is
  given, and docs/ladder-translation.md:224 and 241 call jumps exact. `TranslationExact` is about rungs
  that end with what leaves them (`LeavesLast`).
- lower.rs:407: the power a coil passes on is the expression it was given, evaluated again by what
  follows. `--|/x|--(x)--(y)` becomes `x := NOT x; y := NOT x`, so y is what x was; lower.rs:13,
  docs/ladder.md:86 and docs/ladder-translation.md:94 say the coil passes the power on. A branch latches it.
  `LadderExact` is about routines in which nothing is read again after it is written (`Settled`).
- A jump whose label is in no rung leaves `_ld_jmp` undeclared (lower.rs 299-333,
  graph.rs 842-880).
- An edge on a coil with storage is lost when a drawing is read into the model; a
  RETURN returns before the outputs of a block in its rung are stored; an edge on
  EN that is read twice declares its trigger twice; a negated output pin counts
  for nothing when EN feeds an output variable; networks of equal position are
  ordered by a HashMap.
- CASE without END_CASE takes the rest of the file (parser.rs:1854); RESOURCE and
  CONFIGURATION pass over unknown words in silence; RETURN without a semicolon
  inside IF is an error where EXIT is none.
- A FIFO unload with POS past LEN duplicates items; LEN is therefore fixed here. RES
  clears EN, so a load rung that is still true loads once more.

## 6. Not modelled, and plan

Not modelled for good: lexer and type checker (the reference would be the
standard), declarations and XML of PLCopen, L5X and TwinCAT (copied from one form
to another, no rule to check), driver, command line, manifests, bindings, stubs,
rendering, the ladder editor (one actor, unit tests), the Opta's monolithic
runtime (the loader is the larger). Left out of modelled parts: REAL arithmetic,
pointers, references and OOP dispatch, bounds-checked arrays, direct addresses,
SFC, ELF parsing, the encodings of relocations, the CRC polynomial, USB transfers.

Next, in this order:

1. `WasmScan`: the emulator's pass, run, stop, restart and its worker's load race;
   then the host's and the emulator's schedulers on the same inputs (scan.ts:3).
2. `OnlineConnect`: overlapping connect and disconnect of `state/online.ts`, over a
   session reduced to opening, open, closed.
3. `SimHosting`: the page, `plcHost`'s load, run, stop and force, and the fixed-period
   loop with its catch-up limit.
4. `ProjectSave`: closing and switching projects, the gone banner.
5. Proofs: a `Calls` whose bodies and argument lists are parameters; a `RuntimeContract` whose types are
   flattened before they are walked, so that it needs no RECURSIVE operator.

The instances are kept few: a new part joins `MCLanguages`, `MCRuntime` or `MCStudio` where
it shares no state with the others.
