-------------------------- MODULE RuntimeContract --------------------------
(* The contract between a compiled project and its runtime: which program     *)
(* instances exist and which task runs each, with its connections; the table  *)
(* of RETAIN regions and its signature; and what a runtime does with them:    *)
(* run tasks, save, restart warm or cold, possibly with a newer program.      *)
EXTENDS Integers, Sequences, FiniteSets, SequencesExt, Functions, TLC

CONSTANTS
    Units,          \* the projects that can be loaded, one after another
    MaxRuns         \* bound of the task runs between two starts

VARIABLES
    unit,       \* the loaded project
    mem,        \* leaf of an instance or of the globals -> value
    g,          \* the VAR_GLOBAL the connections read and write
    ran,        \* instance -> runs since the start
    runs,       \* task -> runs since the start
    store,      \* the retain storage: a snapshot, or <<>>
    saved,      \* by name, what was saved
    warm,       \* the last start restored the snapshot
    loads       \* how many projects were loaded

vars == <<unit, mem, g, ran, runs, store, saved, warm, loads>>

\* Types: an elementary one, a STRUCT with its field names in order, an FB with its variables.
Int1 == [k |-> "int", name |-> "INT"]
StructOf(name, fields) == [k |-> "struct", name |-> name, fields |-> fields]
FbOf(name, decls) == [k |-> "fb", name |-> name, decls |-> decls]
VarDecl(n, t, r) == [n |-> n, t |-> t, retain |-> r]
Program(n, decls, calls) == [n |-> n, decls |-> decls, calls |-> calls]
Instance(n, p, task) == [n |-> n, prog |-> p, task |-> task]
Resource(n, tasks, progs) == [n |-> n, tasks |-> tasks, progs |-> progs]

-----------------------------------------------------------------------------
\* finish_runtime_contract.  Without a CONFIGURATION one task runs every program that no
\* other program calls; with one, every declared instance runs on the task it names, those
\* without a task on a background task after the declared ones.
Progs(u) == {u.programs[i].n : i \in DOMAIN u.programs}
ProgramOf(u, n) == u.programs[CHOOSE i \in DOMAIN u.programs : u.programs[i].n = n]
CalledPrograms(u) == UNION {ProgramOf(u, p).calls : p \in Progs(u)}
Background == <<"background">>
DefaultTask == <<"default">>

DeclaredTasks(u) == FlattenSeq([r \in DOMAIN u.config |-> [i \in DOMAIN u.config[r].tasks |-> <<u.config[r].n, u.config[r].tasks[i]>>]])
TaskOf(res, pc) == IF pc.task = "" THEN Background ELSE <<res.n, pc.task>>
Tasks(u) ==
    IF u.config = <<>> THEN <<DefaultTask>>
    ELSE DeclaredTasks(u) \o (IF \E r \in DOMAIN u.config : \E i \in DOMAIN u.config[r].progs : u.config[r].progs[i].task = ""
                              THEN <<Background>> ELSE <<>>)

\* layout_callable_programs: a program has an instance others can call when the CONFIGURATION
\* gives it no other than one of its own name.
Callable(u, p) ==
    \A r \in DOMAIN u.config : \A i \in DOMAIN u.config[r].progs :
        u.config[r].progs[i].prog = p =>
            /\ u.config[r].progs[i].n = p
            /\ \A s \in DOMAIN u.config : \A j \in DOMAIN u.config[s].progs :
                 u.config[s].progs[j].prog = p => s = r /\ j = i
Symbol(u, res, pc) == IF pc.n = pc.prog /\ Callable(u, pc.prog) THEN <<pc.prog>> ELSE <<res.n, pc.n>>

\* [name, symbol, prog, task], in the order they are planned.
Plan(u) ==
    IF u.config = <<>>
    THEN [i \in DOMAIN u.programs |->
            [name |-> <<u.programs[i].n>>, sym |-> <<u.programs[i].n>>, prog |-> u.programs[i].n, task |-> DefaultTask]]
    ELSE FlattenSeq([r \in DOMAIN u.config |->
            LET res == u.config[r]
            IN [i \in DOMAIN res.progs |-> [name |-> <<res.n, res.progs[i].n>>, sym |-> Symbol(u, res, res.progs[i]),
                                            prog |-> res.progs[i].prog, task |-> TaskOf(res, res.progs[i])]]])
Planned(u) == u.plan
RunByTask(u, inst) == ~(Len(inst.name) = 1 /\ inst.name[1] \in CalledPrograms(u))
Scheduled(u, task) == SelectSeq(Planned(u), LAMBDA i : i.task = task /\ RunByTask(u, i))

\* Every place state is kept in: the planned instances and the callable ones.
Symbols(u) == {Planned(u)[i].sym : i \in DOMAIN Planned(u)} \cup {<<p>> : p \in {q \in Progs(u) : Callable(u, q)}}
ProgOfSym(u, s) == IF \E i \in DOMAIN Planned(u) : Planned(u)[i].sym = s
                   THEN (CHOOSE x \in ToSet(Planned(u)) : x.sym = s).prog ELSE s[1]

\* The leaves of a variable, in the order they lie in memory.
RECURSIVE Leaves(_, _)
Leaves(path, t) ==
    CASE t.k = "int" -> <<path>>
      [] t.k = "struct" -> [i \in DOMAIN t.fields |-> Append(path, t.fields[i])]
      [] t.k = "fb" -> FlattenSeq([i \in DOMAIN t.decls |-> Leaves(Append(path, t.decls[i].n), t.decls[i].t)])
LeavesOf(u) ==
    UNION {LET p == ProgramOf(u, ProgOfSym(u, s))
           IN UNION {ToSet(Leaves(s \o <<"/", p.decls[i].n>>, p.decls[i].t)) : i \in DOMAIN p.decls} : s \in Symbols(u)}


-----------------------------------------------------------------------------
\* retain_walk: a RETAIN variable is one region; otherwise those inside an FB instance are.
RECURSIVE RetainWalk(_, _, _)
RetainWalk(path, t, retain) ==
    IF retain THEN <<[path |-> path, ty |-> t.name, cells |-> Leaves(path, t)]>>
    ELSE IF t.k = "fb"
    THEN FlattenSeq([i \in DOMAIN t.decls |-> RetainWalk(Append(path, t.decls[i].n), t.decls[i].t, t.decls[i].retain)])
    ELSE <<>>
\* collect_retain, over the planned instances.
CollectRetain(u) ==
    FlattenSeq([i \in DOMAIN Planned(u) |->
        LET inst == Planned(u)[i]
            p == ProgramOf(u, inst.prog)
        IN FlattenSeq([j \in DOMAIN p.decls |-> RetainWalk(inst.sym \o <<"/", p.decls[j].n>>, p.decls[j].t, p.decls[j].retain)])])
Retain(u) == u.retain

\* What the compiler makes of a project.
Compiled(project) ==
    LET planned == [plan |-> Plan(project)] @@ project
    IN [leaves |-> LeavesOf(planned), retain |-> CollectRetain(planned)] @@ planned
\* The hash of "path:type;" of every region.
Signature(u) == [i \in DOMAIN Retain(u) |-> <<Retain(u)[i].path, Retain(u)[i].ty>>]

RetainSnapshot ==
    [sig |-> Signature(unit),
     regions |-> [i \in DOMAIN Retain(unit) |-> [j \in DOMAIN Retain(unit)[i].cells |-> mem[Retain(unit)[i].cells[j]]]]]
\* restore_retain: all of it, or nothing.
SizesMatch(u, data) ==
    \A i \in DOMAIN Retain(u) : i \in DOMAIN data.regions /\ Len(data.regions[i]) = Len(Retain(u)[i].cells)
Acceptable_Mut(u, data) == data # <<>> /\ SizesMatch(u, data)
Acceptable(u, data) == data # <<>> /\ data.sig = Signature(u) /\ SizesMatch(u, data)
RestoreRetain(u, m, data) ==
    LET cells == FlattenSeq([i \in DOMAIN Retain(u) |-> Retain(u)[i].cells])
        bytes == FlattenSeq(data.regions)
    IN [c \in DOMAIN m |-> IF \E j \in DOMAIN cells : cells[j] = c
                           THEN bytes[CHOOSE j \in DOMAIN cells : cells[j] = c] ELSE m[c]]

-----------------------------------------------------------------------------
Cold(u) == [c \in u.leaves |-> 0]
IsPrefix2(s, c) == Len(s) < Len(c) /\ SubSeq(c, 1, Len(s)) = s /\ c[Len(s) + 1] = "/"

Weight(c) == IF Last(c) \in {"a", "n", "starts"} THEN 1 ELSE 2
\* A scan of an instance changes every variable of it, and of the programs it calls.
RECURSIVE Scan(_, _)
Scan(st, s) ==
    LET after == [st EXCEPT !.mem = [c \in DOMAIN @ |-> IF IsPrefix2(s, c) THEN (@[c] + Weight(c)) % 5 ELSE @[c]],
                            !.ran[s] = @ + 1]
        called == SetToSeq(ProgramOf(unit, ProgOfSym(unit, s)).calls)
    IN FoldLeft(LAMBDA w, p : Scan(w, <<p>>), after, called)

\* emit_instance_scan: input connections, the program, output connections.
InstanceScan(st, inst) ==
    LET in == st.g
        scanned == Scan(st, inst.sym)
    IN [scanned EXCEPT !.g = in + 1]
TotalRuns == FoldFunction(LAMBDA a, b : a + b, 0, runs)
\* plcc_run_task.
RunTask(t) ==
    /\ TotalRuns < MaxRuns
    /\ LET end == FoldLeft(InstanceScan, [mem |-> mem, g |-> g, ran |-> ran], Scheduled(unit, t))
       IN mem' = end.mem /\ g' = end.g /\ ran' = end.ran
    /\ runs' = [runs EXCEPT ![t] = @ + 1]
    /\ UNCHANGED <<unit, store, saved, warm, loads>>

Save ==
    /\ store' = RetainSnapshot
    /\ saved' = [c \in UNION {ToSet(Retain(unit)[i].cells) : i \in DOMAIN Retain(unit)} |-> mem[c]]
    /\ UNCHANGED <<unit, mem, g, ran, runs, warm, loads>>

\* Power cycle, possibly with another project: plcc_init on fresh memory, then restore.
Start(u) ==
    /\ loads < 2
    /\ unit' = u
    /\ warm' = Acceptable(u, store)
    /\ mem' = IF warm' THEN RestoreRetain(u, Cold(u), store) ELSE Cold(u)
    /\ g' = 0
    /\ ran' = [s \in Symbols(u) |-> 0]
    /\ runs' = [t \in ToSet(Tasks(u)) |-> 0]
    /\ loads' = loads + 1
    /\ UNCHANGED <<store, saved>>

Init ==
    /\ unit \in {Compiled(u) : u \in Units}
    /\ mem = Cold(unit) /\ g = 0 /\ ran = [s \in Symbols(unit) |-> 0]
    /\ runs = [t \in ToSet(Tasks(unit)) |-> 0]
    /\ store = <<>> /\ saved = [c \in {} |-> 0] /\ warm = FALSE /\ loads = 0

Next ==
    \/ \E t \in DOMAIN runs : RunTask(t)
    \/ Save
    \/ \E u \in Units : Start(Compiled(u))
Spec == Init /\ [][Next]_vars

-----------------------------------------------------------------------------
\* The tasks a program runs on by its CONFIGURATION, and how often a run of its caller runs it.
Times(u, t, p) ==
    IF u.config = <<>> THEN IF t = DefaultTask /\ p \notin CalledPrograms(u) THEN 1 ELSE 0
    ELSE Cardinality({<<r, i>> \in (DOMAIN u.config) \X (1..3) :
             i \in DOMAIN u.config[r].progs /\ u.config[r].progs[i].prog = p
             /\ t = (IF u.config[r].progs[i].task = "" THEN Background ELSE <<u.config[r].n, u.config[r].progs[i].task>>)})
RECURSIVE SumOver(_, _)
SumOver(f, S) == IF S = {} THEN 0 ELSE LET x == CHOOSE x \in S : TRUE IN f[x] + SumOver(f, S \ {x})
RunsOf(p) == SumOver(ran, {s \in DOMAIN ran : ProgOfSym(unit, s) = p})
TaskRuns(p) == SumOver([t \in DOMAIN runs |-> runs[t] * Times(unit, t, p)], DOMAIN runs)

\* Every program runs exactly as often as its instances' tasks and its callers ran: none is
\* scheduled twice because it can be called, none is forgotten; and the connections of the
\* instances of a task hand a value on from one to the next in declaration order.
RunsAsConfigured ==
    /\ \A p \in Progs(unit) :
         RunsOf(p) = TaskRuns(p) + SumOver([q \in Progs(unit) |-> IF p \in ProgramOf(unit, q).calls THEN RunsOf(q) ELSE 0],
                                           Progs(unit))
    /\ g = SumOver([p \in Progs(unit) |-> TaskRuns(p)], Progs(unit))

Retained(u) == UNION {ToSet(Retain(u)[i].cells) : i \in DOMAIN Retain(u)}
Started == \A t \in DOMAIN runs : runs[t] = 0
\* A warm start gives every RETAIN variable the value saved under its own name and every
\* other variable its initial value; a start that is not warm gives all of them theirs.
WarmStartExact ==
    loads > 0 /\ Started =>
        \A c \in DOMAIN mem :
            IF warm /\ c \in Retained(unit) THEN c \in DOMAIN saved /\ mem[c] = saved[c] ELSE mem[c] = 0
=============================================================================
