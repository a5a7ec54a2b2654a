-------------------------- MODULE Initialization --------------------------
(* Start-up of a compiled project: the initial contents of VAR_GLOBAL, then  *)
(* plcc_init, which runs plcc_globals_init and every program instance's       *)
(* <program>_init.  What the emitted stores leave in memory is held against   *)
(* the value each declaration states: a type's own defaults, the initializer  *)
(* of the variable over them, FB_init over both.                              *)
EXTENDS Integers, Sequences, SequencesExt

CONSTANTS
    Counting    \* FB_init also counts its calls, in a member without initializer

VARIABLES
    project,    \* [globals, programs]: declarations in text order
    memory,     \* [globals, programs]: the value of each
    pc,         \* 0: off, n: n of the calls of plcc_init are done
    starts,     \* times plcc_init was entered
    frame       \* locals of the last FUNCTION call

vars == <<project, memory, pc, starts, frame>>

-----------------------------------------------------------------------------
\* Types, initializers and declarations.
Scalar == [k |-> "scalar"]
Struct(fields) == [k |-> "struct", parts |-> fields]
Array(of, n) == [k |-> "array", of |-> of, n |-> n]
Fb(decls, hook) == [k |-> "fb", parts |-> decls, hook |-> hook]
None == [k |-> "none"]
Lit(v) == [k |-> "lit", v |-> v]                    \* folded to a constant
Expr(v) == [k |-> "expr", v |-> v]                  \* 2 * 21: evaluated at run time
Global(i) == [k |-> "global", i |-> i]              \* names a VAR_GLOBAL
Items(s) == [k |-> "items", items |-> s]            \* [10, 2(20)]: <<count, initializer>>
Fields(s) == [k |-> "fields", fields |-> s]         \* (b := 1): <<field, initializer>>
Decl(t, i) == [type |-> t, init |-> i, args |-> <<>>, inOut |-> FALSE]

\* The inputs of FB_init beyond bInitRetains and bInCopyCode.
NoHook == [has |-> FALSE, default |-> None]
Hook(d) == [has |-> TRUE, default |-> d]

Inner == Struct(<<Decl(Scalar, Lit(1)), Decl(Scalar, None)>>)
Nested == Struct(<<Decl(Inner, None), Decl(Array(Scalar, 2), Items(<<<<2, Lit(4)>>>>))>>)
Whole == Struct(<<Decl(Inner, Fields(<<<<2, Lit(6)>>, <<1, Lit(5)>>>>)), Decl(Scalar, None)>>)
Block == Fb(<<Decl(Scalar, None), Decl(Scalar, Lit(3)), [Decl(Scalar, None) EXCEPT !.inOut = TRUE]>>, NoHook)
Hooked == Fb(<<Decl(Scalar, None), Decl(Scalar, Lit(3)), Decl(Inner, None)>>, Hook(Lit(7)))
Bare == Fb(<<Decl(Scalar, None), Decl(Scalar, Lit(3))>>, Hook(None))
Holder == Fb(<<[Decl(Hooked, Fields(<<<<2, Lit(8)>>>>)) EXCEPT !.args = <<Lit(6)>>],
               Decl(Block, Fields(<<<<2, Lit(4)>>>>)), Decl(Nested, None)>>, NoHook)

Declarations ==
    {Decl(Scalar, i) : i \in {None, Lit(5), Expr(5)}}
    \cup {Decl(t, None) : t \in {Inner, Nested, Whole, Block, Hooked, Bare, Holder}}
    \cup {Decl(Inner, Fields(<<<<2, Expr(9)>>>>)), Decl(Nested, Fields(<<<<1, Fields(<<<<2, Lit(9)>>>>)>>>>))}
    \cup {Decl(Array(Inner, 2), i) : i \in {None, Items(<<<<1, Fields(<<<<1, Lit(2)>>>>)>>>>)}}
    \cup {Decl(Array(Scalar, 3), i) : i \in {None, Items(<<<<2, Lit(4)>>>>), Items(<<<<1, Lit(4)>>, <<2, Expr(5)>>>>)}}
    \cup {Decl(Array(Block, 2), None), Decl(Array(Array(Block, 1), 2), None)}
    \cup {Decl(Struct(<<Decl(Block, None), Decl(Scalar, Lit(2))>>), None)}
    \cup {[Decl(t, i) EXCEPT !.args = a] : t \in {Hooked, Bare}, i \in {None, Fields(<<<<2, Lit(8)>>>>)},
                                           a \in {<<>>, <<Lit(6)>>, <<Expr(6)>>}}

-----------------------------------------------------------------------------
\* The emitted code.
Null == 0
RECURSIVE Filled(_, _)
Filled(t, v) ==
    CASE t.k = "scalar" -> v
      [] t.k = "array" -> [e \in 1..t.n |-> Filled(t.of, v)]
      [] OTHER -> [i \in DOMAIN t.parts |-> Filled(t.parts[i].type, v)]
ZeroOf(t) == Filled(t, 0)

\* FB_init's inputs: what the declaration passes, else their declared value, else zero.
HookInput(t, args) ==
    IF args # <<>> THEN args[1] ELSE IF t.hook.default # None THEN t.hook.default ELSE Lit(0)

\* collect_field_inits: <<position, initializer or InitFb, type>> inside a value of type t.
\* An FB that is the whole value is the caller's own, not listed here.
Under(i, list) == [j \in DOMAIN list |-> <<<<i>> \o list[j][1], list[j][2], list[j][3]>>]
Repeated_Mut(n, probe) == FlattenSeq([e \in 1..n |-> IF e = 1 THEN Under(e, probe) ELSE <<>>])
Repeated(n, probe) == FlattenSeq([e \in 1..n |-> Under(e, probe)])
InitFb == [k |-> "init_fb"]
RECURSIVE FieldInits(_, _)
FieldInits(t, inside) ==
    CASE t.k = "scalar" -> <<>>
      [] t.k = "fb" -> IF inside THEN <<<<<<>>, InitFb, t>>>> ELSE <<>>
      [] t.k = "array" -> Repeated(t.n, FieldInits(t.of, TRUE))
      [] t.k = "struct" ->
           FlattenSeq([i \in DOMAIN t.parts |->
               LET f == t.parts[i]
               IN IF f.init # None THEN <<<<<<i>>, f.init, f.type>>>> ELSE Under(i, FieldInits(f.type, TRUE))])

\* flatten_array_aggregate: one initializer per slot, n(v) contributing n of them.
Flat(items) == FlattenSeq([i \in DOMAIN items |-> [j \in 1..items[i][1] |-> items[i][2]]])

PartType(t, i) == IF t.k = "array" THEN t.of ELSE t.parts[i].type
ValueOf(init, globals) == IF init.k = "global" THEN globals[init.i] ELSE init.v

\* emit_decl_initializer, with emit_array_aggregate_store and emit_struct_initializer.
RECURSIVE Initialize(_, _, _, _)
Initialize(t, v, init, g) ==
    CASE init.k = "none" -> v
      [] init.k = "items" ->
           LET flat == Flat(init.items)
           IN [e \in DOMAIN v |-> IF e \in DOMAIN flat THEN Initialize(t.of, v[e], flat[e], g) ELSE v[e]]
      [] init.k = "fields" ->
           FoldLeft(LAMBDA w, f : [w EXCEPT ![f[1]] = Initialize(t.parts[f[1]].type, w[f[1]], f[2], g)],
                    v, init.fields)
      [] OTHER -> ValueOf(init, g)

\* emit_fb_init_call: FB_init keeps its input in the second member.
CallHook(t, v, args, g) ==
    IF ~t.hook.has THEN v
    ELSE LET given == [v EXCEPT ![2] = ValueOf(HookInput(t, args), g)]
         IN IF Counting THEN [given EXCEPT ![1] = v[1] + 1] ELSE given

\* emit_field_inits, emit_init_body and one declaration of it.
RECURSIVE RunInits(_, _, _), At(_, _, _, _), InitBody(_, _, _), InitDecl(_, _, _)
At(t, v, act, g) ==
    IF act[1] # <<>>
    THEN [v EXCEPT ![act[1][1]] = At(PartType(t, act[1][1]), v[act[1][1]], <<Tail(act[1]), act[2], act[3]>>, g)]
    ELSE IF act[2] = InitFb THEN InitBody(act[3].parts, v, g) ELSE Initialize(act[3], v, act[2], g)
RunInits(t, v, g) == FoldLeft(LAMBDA w, act : At(t, w, act, g), v, FieldInits(t, FALSE))
InitDecl(d, v, g) ==
    CASE d.inOut -> Null
      [] ~d.inOut /\ d.type.k = "fb" ->
           CallHook(d.type, Initialize(d.type, InitBody(d.type.parts, v, g), d.init, g), d.args, g)
      [] OTHER -> Initialize(d.type, RunInits(d.type, v, g), d.init, g)
InitBody(decls, v, g) == [i \in DOMAIN decls |-> InitDecl(decls[i], v[i], g)]

\* The constant contents of a VAR_GLOBAL; what cannot be folded is stored at run time.
RECURSIVE Foldable(_, _)
Foldable(t, init) ==
    \/ init.k = "lit"
    \/ init.k = "items" /\ \A i \in DOMAIN init.items : t.of.k = "scalar" /\ Foldable(t.of, init.items[i][2])
Static(d) == IF Foldable(d.type, d.init) THEN Initialize(d.type, ZeroOf(d.type), d.init, <<>>) ELSE ZeroOf(d.type)

\* plcc_globals_init, one global after another.
GlobalDecl(d, v, g) ==
    IF d.type.k = "fb" THEN InitDecl(d, v, g)
    ELSE IF Foldable(d.type, d.init) THEN RunInits(d.type, v, g) ELSE InitDecl(d, v, g)
GlobalsInit(decls, g0) ==
    FoldLeft(LAMBDA g, i : [g EXCEPT ![i] = GlobalDecl(decls[i], g[i], g)], g0, [i \in DOMAIN decls |-> i])

\* emit_fb_entry on VAR_TEMP, compile_function and compile_method on a local.
NewLocal(d, g) == Initialize(d.type, RunInits(d.type, ZeroOf(d.type), g), d.init, g)

-----------------------------------------------------------------------------
\* The project runs: power on, the calls of plcc_init in order, scans, a restart.
HasFb(d) == d.type.k = "fb" \/ \E i \in DOMAIN FieldInits(d.type, FALSE) : FieldInits(d.type, FALSE)[i][2] = InitFb

Init ==
    /\ \E d \in Declarations, e \in Declarations, u \in {Decl(Scalar, Expr(2)), Decl(Hooked, None)} :
         project = [globals |-> <<u, d>>,
                    programs |-> <<<<e, Decl(Scalar, IF u.type = Scalar THEN Global(1) ELSE None)>>, <<u>>>>]
    /\ memory = [globals |-> [i \in DOMAIN project.globals |-> Static(project.globals[i])],
                 programs |-> [p \in DOMAIN project.programs |->
                                 [i \in DOMAIN project.programs[p] |-> ZeroOf(project.programs[p][i].type)]]]
    /\ pc = 0 /\ starts = 0 /\ frame = <<>>

\* plcc_init calls plcc_globals_init, then every instance's init ...
Start ==
    /\ pc = 0 /\ starts < 2
    /\ memory' = [memory EXCEPT !.globals = GlobalsInit(project.globals, @)]
    /\ pc' = 1 /\ starts' = starts + 1
    /\ UNCHANGED <<project, frame>>

\* ... which initializes the globals again before its own variables.
ProgramInit ==
    /\ pc \in DOMAIN project.programs
    /\ LET g == GlobalsInit(project.globals, memory.globals)
       IN memory' = [memory EXCEPT !.globals = g,
                                   !.programs[pc] = InitBody(project.programs[pc], @, g)]
    /\ pc' = pc + 1
    /\ UNCHANGED <<project, starts, frame>>

Running == pc > Len(project.programs)

\* A FUNCTION with the first program's variables as its locals.
Call ==
    /\ Running /\ \A i \in DOMAIN project.programs[1] : ~HasFb(project.programs[1][i])
    /\ frame' = [i \in DOMAIN project.programs[1] |-> NewLocal(project.programs[1][i], memory.globals)]
    /\ UNCHANGED <<project, memory, pc, starts>>

\* A scan leaves every variable changed, faults, and the cycle is started again.
FaultAndRestart ==
    /\ Running /\ starts < 2
    /\ memory' = [globals |-> [i \in DOMAIN project.globals |-> Filled(project.globals[i].type, 11)],
                  programs |-> [p \in DOMAIN project.programs |->
                                  [i \in DOMAIN project.programs[p] |-> Filled(project.programs[p][i].type, 11)]]]
    /\ pc' = 0 /\ frame' = <<>>
    /\ UNCHANGED <<project, starts>>

Next == Start \/ ProgramInit \/ Call \/ FaultAndRestart
Spec == Init /\ [][Next]_vars

-----------------------------------------------------------------------------
\* The value a declaration states.
RECURSIVE Default(_), Given(_, _, _, _), Stated(_, _)
Default(t) ==
    CASE t.k = "scalar" -> 0
      [] t.k = "array" -> [e \in 1..t.n |-> Default(t.of)]
      [] OTHER -> [i \in DOMAIN t.parts |-> Stated(t.parts[i], <<>>)]
Given(t, v, init, g) ==
    CASE init.k = "none" -> v
      [] init.k = "items" ->
           [e \in DOMAIN v |-> IF e <= Len(Flat(init.items)) THEN Given(t.of, v[e], Flat(init.items)[e], g) ELSE v[e]]
      [] init.k = "fields" ->
           [i \in DOMAIN v |-> IF \E j \in DOMAIN init.fields : init.fields[j][1] = i
                               THEN LET j == CHOOSE j \in DOMAIN init.fields : init.fields[j][1] = i
                                    IN Given(PartType(t, i), v[i], init.fields[j][2], g)
                               ELSE v[i]]
      [] init.k = "global" -> g[init.i]
      [] OTHER -> init.v
Stated(d, g) ==
    LET v == Given(d.type, Default(d.type), d.init, g)
    IN IF d.type.k = "fb" /\ d.type.hook.has
       THEN [v EXCEPT ![2] = HookInput(d.type, d.args).v, ![1] = IF Counting THEN @ + 1 ELSE @] ELSE v

AllStated ==
    LET g == [i \in DOMAIN project.globals |-> Stated(project.globals[i], <<>>)]
    IN /\ memory.globals = g
       /\ \A p \in DOMAIN project.programs : \A i \in DOMAIN project.programs[p] :
            memory.programs[p][i] = Stated(project.programs[p][i], g)

\* After a cold start every variable holds the value its declaration states, through nested
\* structures, arrays, blocks, aggregate initializers and FB_init, although every program's
\* init runs the initialization of the globals again; and a FUNCTION's locals hold it at
\* every call.
InitialValues ==
    /\ Running /\ starts = 1 => AllStated
    /\ \A i \in DOMAIN frame : frame[i] = Stated(project.programs[1][i], memory.globals)
=============================================================================
