------------------------------- MODULE Calls -------------------------------
(* Calls of a FUNCTION, of a METHOD and of a FUNCTION_BLOCK instance as they *)
(* are compiled: arguments put in parameter order, addresses passed for       *)
(* VAR_IN_OUT, VAR_OUTPUT copied to its target after the call, a name in the  *)
(* body standing for one memory cell.  A second account of the same calls     *)
(* keeps scopes and resolves names in them, and the two must agree.           *)
EXTENDS Integers, Sequences, FiniteSets, SequencesExt

CONSTANTS MaxCalls      \* bound of the calls in one behaviour

VARIABLES
    callee,     \* [kind, body, own]: what is called; own names its local
    mem,        \* compiled: cell -> value
    slot,       \* compiled: the address in the instance's VAR_IN_OUT slot
    scope,      \* by scopes: [caller, global, inst], and the instance's binding and last e
    calls

vars == <<callee, mem, slot, scope, calls>>

Undefined == [cell |-> "none", name |-> ""]
Caller(n) == [cell |-> "caller", name |-> n]
Inst(n) == [cell |-> "inst", name |-> n]
Frame(n) == [cell |-> "frame", name |-> n]
GlobalCell(n) == [cell |-> "global", name |-> n]

-----------------------------------------------------------------------------
\* Formal parameters, in declaration order: all of them are called a, io and q.
Param(n, m) == [name |-> n, mode |-> m]
Params == <<Param("a", "in"), Param("io", "inout"), Param("q", "out")>>
PouFields == <<Param("a", "in"), Param("e", "in"), Param("io", "inout"), Param("q", "out"),
               Param(callee.own, "temp"), Param("s", "var")>>
Fields == IF callee.kind = "fb" THEN PouFields
          ELSE <<Param("a", "in"), Param("e", "in"), Param("q", "out"), Param("s", "var")>>
Literal(v) == [k |-> "value", v |-> v]
Var(n) == [k |-> "var", n |-> n]

\* An argument: name (or "" when positional), its expression, q => x, NOT.
Arg(n, e) == [name |-> n, e |-> e, out |-> FALSE, neg |-> FALSE]
Out(n, e, neg) == [name |-> n, e |-> e, out |-> TRUE, neg |-> neg]
Set(to, from, plus) == [to |-> to, from |-> from, plus |-> plus]

Bodies(own) ==
    {<<Set("io", "a", 1), Set("q", "io", 0), Set(own, own, 1)>>,
     <<Set(own, own, 1), Set("q", own, 0), Set("a", own, 1)>>,
     <<Set("q", "a", 0), Set("io", "q", 1), Set("q", "a", 0)>>,
     <<Set("g", "io", 1), Set("io", "g", 1), Set("q", "g", 0)>>,
     <<Set("q", "q", 1), Set("a", "a", 1), Set("g", "q", 0)>>}
InstanceBodies(own) ==
    {<<Set("s", "s", 1), Set("q", "s", 0), Set("g", "a", 0)>>, <<Set("q", "e", 0), Set("e", "q", 1), Set("s", "e", 0)>>}
Inputs == {Literal(1), Var("x"), Var("g")}
Places == {"x", "y", "g"}
Named(ins, places, outs) ==
    {<<Arg("io", Var(p)), Arg("a", i)>> : p \in places, i \in ins}
    \cup {<<Arg("a", i), Arg("io", Var(p)), Out("q", Var(o), n)>> : p \in places, i \in ins, o \in outs, n \in BOOLEAN}
ArgLists ==
    Named(Inputs, Places, Places)
    \cup {<<Arg("", i), Arg("", Var("y"))>> : i \in Inputs}
    \cup {<<Arg("", Var("y")), Arg("", Literal(1))>>, <<Arg("", Literal(1)), Arg("io", Var("y"))>>,
          <<Arg("a", Literal(1)), Out("io", Var("y"), FALSE)>>, <<Arg("a", Literal(1)), Arg("io", Var("y")), Arg("q", Var("x"))>>}
    \cup (IF callee.kind = "fb"
          THEN {<<Arg("e", i), Arg("io", Var("y")), Out("q", Var("x"), FALSE)>> : i \in {Literal(0), Literal(1)}}
               \cup {<<Arg("a", Var("g"))>>, <<>>}
          ELSE {<<Arg("a", Literal(1)), Arg("a", Literal(2)), Arg("io", Var("y"))>>, <<Arg("a", Literal(1))>>,
                <<Arg("", Literal(1)), Arg("", Var("x")), Arg("", Var("y"))>>})

-----------------------------------------------------------------------------
\* bind_args and name_positional_fb_args.  A call names every argument or none.
Mixed(args) == \E i, j \in DOMAIN args : args[i].name = "" /\ args[j].name # ""
Positional(formals) == SelectSeq(formals, LAMBDA p : p.mode \in {"in", "inout"})
NameAll(formals, args) ==
    [i \in DOMAIN args |-> IF args[i].name = "" THEN [args[i] EXCEPT !.name = Positional(formals)[i].name] ELSE args[i]]
ModeOf(formals, n) == LET i == CHOOSE i \in DOMAIN formals : formals[i].name = n IN formals[i].mode
\* check_binding_direction: => binds outputs and only outputs.
DirectionOk(formals, a) == a.out <=> ModeOf(formals, a.name) = "out"
IsRef(a) == a.e.k = "var"

Bindable(formals, args) ==
    /\ ~Mixed(args)
    /\ (\E i \in DOMAIN args : args[i].name = "") => Len(args) <= Len(Positional(formals))
    /\ LET named == NameAll(formals, args)
       IN \A i \in DOMAIN args :
            /\ \E j \in DOMAIN formals : formals[j].name = named[i].name
            /\ DirectionOk(formals, named[i])
            /\ ModeOf(formals, named[i].name) = "inout" => IsRef(named[i])
\* A FUNCTION or METHOD takes every input once; an instance keeps what is left out.
Complete(args) ==
    /\ \A i, j \in DOMAIN args : args[i].name = args[j].name => i = j
    /\ \A p \in {"a", "io"} : \E i \in DOMAIN args : args[i].name = p
Accepted(args) ==
    IF callee.kind = "fb"
    THEN /\ Bindable(PouFields, args)
         /\ slot = Undefined => \E i \in DOMAIN args : NameAll(PouFields, args)[i].name = "io"
    ELSE Bindable(Params, args) /\ Complete(NameAll(Params, args))
ArgOf(args, n) == LET i == CHOOSE i \in DOMAIN args : args[i].name = n IN args[i]
Given(args, n) == \E i \in DOMAIN args : args[i].name = n

-----------------------------------------------------------------------------
\* The compiled call.
Not(v) == 3 - v
CallerCell(n) == IF n = "g" THEN GlobalCell(n) ELSE Caller(n)
Value(m, e) == IF e.k = "value" THEN e.v ELSE m[CallerCell(e.n)]

\* variables: name -> cell.  A later binding replaces an earlier one, except that
\* add_globals_to_variables leaves the names the POU has bound.
Bind(env, n, cell) == [x \in DOMAIN env \cup {n} |-> IF x = n THEN cell ELSE env[x]]
AddGlobals_Mut(env) == Bind(env, "g", GlobalCell("g"))
AddGlobals(env) == IF "g" \in DOMAIN env THEN env ELSE Bind(env, "g", GlobalCell("g"))

\* bind_state_fields: an in-out's variable is the address its slot holds.
BindFields(address) ==
    FoldLeft(LAMBDA env, f : Bind(env, f.name, IF f.mode = "inout" THEN address ELSE Inst(f.name)),
             [n \in {} |-> Undefined], Fields)
\* bind_params: by value into the frame, in-out and output by address.
BindParams(env, address) ==
    Bind(Bind(Bind(env, "a", Frame("a")), "io", address), "q", Frame("q"))

\* emit_fb_entry: temporaries start again; an R_EDGE input shows its rising edge.
Edge(m) == IF m[Inst("e")] > 0 /\ m[Inst("m")] = 0 THEN 1 ELSE 0
FbEntry(m) == [m EXCEPT ![Inst(callee.own)] = 2, ![Inst("edge")] = Edge(m),
                        ![Inst("m")] = IF m[Inst("e")] > 0 THEN 1 ELSE 0]

RunBody(env, m) ==
    FoldLeft(LAMBDA w, s : [w EXCEPT ![env[s.to]] = (w[env[s.from]] + s.plus) % 4], m, callee.body)

\* copy_output: target := [NOT] output, one after the other in text order.
CopyOutputs(args, m, q) ==
    FoldLeft(LAMBDA w, a : IF a.out THEN [w EXCEPT ![CallerCell(a.e.n)] = IF a.neg THEN Not(w[q]) ELSE w[q]] ELSE w,
             m, args)

Address(args) == CallerCell(ArgOf(args, "io").e.n)
\* What the names of a body stand for, of a FUNCTION, a METHOD and an instance's own body.
FunctionEnv(address) == Bind(BindParams([n \in {} |-> Undefined], address), callee.own, Frame(callee.own))
MethodEnv(address) == Bind(BindParams(BindFields(Undefined), address), callee.own, Frame(callee.own))
InstanceEnv(address) == Bind(BindFields(address), "e", Inst("edge"))

\* A call by value: arguments into a fresh frame, the local and the output initialized.
CallByValue(args0) ==
    LET args == NameAll(Params, args0)
        entry == [mem EXCEPT ![Frame("a")] = Value(mem, ArgOf(args, "a").e), ![Frame("q")] = 0, ![Frame(callee.own)] = 2]
        env == IF callee.kind = "method" THEN MethodEnv(Address(args)) ELSE FunctionEnv(Address(args))
    IN CopyOutputs(args, RunBody(AddGlobals(env), entry), Frame("q"))

\* emit_fb_call: the inputs stored one by one, the scan, the outputs.
StoreInputs(args, m) ==
    FoldLeft(LAMBDA w, a : IF a.out \/ a.name = "io" THEN w ELSE [w EXCEPT ![Inst(a.name)] = Value(w, a.e)], m, args)
BoundSlot(args) == IF Given(args, "io") THEN Address(args) ELSE slot
CallInstance(args0) ==
    LET args == NameAll(PouFields, args0)
    IN CopyOutputs(args, RunBody(AddGlobals(InstanceEnv(BoundSlot(args))), FbEntry(StoreInputs(args, mem))), Inst("q"))

-----------------------------------------------------------------------------
\* The same call by scopes: the callee's own names, then the instance's, then the globals;
\* VAR_IN_OUT is another name of the caller's variable.
ReadPlace(s, n) == IF n = "g" THEN s.global ELSE s.caller[n]
WritePlace(s, n, v) == IF n = "g" THEN [s EXCEPT !.global = v] ELSE [s EXCEPT !.caller[n] = v]
Lookup(s, local, io, n) ==
    CASE n = "io" -> ReadPlace(s, io)
      [] n \in DOMAIN local -> local[n]
      [] n \notin DOMAIN local /\ n # "io" /\ n \in DOMAIN s.inst -> s.inst[n]
      [] OTHER -> s.global
\* One statement; the state is [s, local].
Statement(st, io, x) ==
    LET v == (Lookup(st.s, st.local, io, x.from) + x.plus) % 4
    IN CASE x.to = "io" -> [st EXCEPT !.s = WritePlace(st.s, io, v)]
         [] x.to \in DOMAIN st.local -> [st EXCEPT !.local[x.to] = v]
         [] x.to # "io" /\ x.to \notin DOMAIN st.local /\ x.to \in DOMAIN st.s.inst -> [st EXCEPT !.s.inst[x.to] = v]
         [] OTHER -> [st EXCEPT !.s.global = v]
Argument(s, e) == IF e.k = "value" THEN e.v ELSE ReadPlace(s, e.n)
Deliver(s, args, q) ==
    FoldLeft(LAMBDA w, a : IF a.out THEN WritePlace(w, a.e.n, IF a.neg THEN Not(q) ELSE q) ELSE w, s, args)

ScopedCall(args0) ==
    LET args == NameAll(IF callee.kind = "fb" THEN PouFields ELSE Params, args0)
        io == IF Given(args, "io") THEN ArgOf(args, "io").e.n ELSE scope.bound
        Input(n) == IF Given(args, n) THEN Argument(scope, ArgOf(args, n).e) ELSE IF n = "e" THEN scope.raw ELSE scope.inst[n]
    IN IF callee.kind = "fb"
       THEN LET entered == [scope EXCEPT !.inst.a = Input("a"), !.bound = io, !.raw = Input("e"), !.prev = Input("e") > 0]
                local == [n \in {callee.own, "e"} |-> IF n = "e" THEN IF Input("e") > 0 /\ ~scope.prev THEN 1 ELSE 0 ELSE 2]
                after == FoldLeft(LAMBDA st, x : Statement(st, io, x), [s |-> entered, local |-> local], callee.body)
            IN Deliver(after.s, args, after.s.inst.q)
       ELSE LET local == [n \in {"a", "q", callee.own} |-> CASE n = "a" -> Argument(scope, ArgOf(args, "a").e)
                                                            [] n = "q" -> 0 [] OTHER -> 2]
                after == FoldLeft(LAMBDA st, x : Statement(st, io, x), [s |-> scope, local |-> local], callee.body)
            IN Deliver(after.s, args, after.local.q)

-----------------------------------------------------------------------------
Cells == {Caller(n) : n \in {"x", "y"}} \cup {GlobalCell("g")} \cup {Frame(n) : n \in {"a", "q", "t", "g"}}
         \cup {Inst(n) : n \in {"a", "e", "q", "s", "t", "g", "m", "edge"}}

Init ==
    /\ \E k \in {"function", "method", "fb"}, own \in {"t", "g"} :
         \E b \in Bodies(own) \cup (IF k = "function" THEN {} ELSE InstanceBodies(own)) :
            callee = [kind |-> k, body |-> b, own |-> own]
    /\ mem = [c \in Cells |-> IF c = Caller("x") THEN 1 ELSE 0]
    /\ slot = Undefined /\ calls = 0
    /\ scope = [caller |-> [x |-> 1, y |-> 0], global |-> 0, bound |-> "", prev |-> FALSE, raw |-> 0,
                inst |-> [n \in {"a", "q", "s"} |-> 0] @@ [n \in (IF callee.kind = "method" THEN {"e"} ELSE {}) |-> 0]]

Call(args) ==
    /\ calls < MaxCalls /\ Accepted(args)
    /\ IF callee.kind = "fb"
       THEN mem' = CallInstance(args) /\ slot' = BoundSlot(NameAll(PouFields, args))
       ELSE mem' = CallByValue(args) /\ UNCHANGED slot
    /\ scope' = ScopedCall(args)
    /\ calls' = calls + 1
    /\ UNCHANGED callee

\* The caller writes an instance's input, and its own variables, between calls.
Touch ==
    /\ calls \in 1..(MaxCalls - 1) /\ callee.kind = "fb"
    /\ mem' = [mem EXCEPT ![Inst("a")] = 2, ![Caller("y")] = 1]
    /\ scope' = [scope EXCEPT !.inst.a = 2, !.caller.y = 1]
    /\ calls' = calls + 1
    /\ UNCHANGED <<callee, slot>>

Next == Touch \/ \E args \in ArgLists : Call(args)
Spec == Init /\ [][Next]_vars

\* What the language asks of an argument list: named throughout or positional throughout,
\* each input and in-out once (an instance may leave them out), only outputs with =>.
Lawful(args) ==
    LET formals == IF callee.kind = "fb" THEN PouFields ELSE Params
        names == {args[i].name : i \in DOMAIN args}
        ins == SelectSeq(<<"a", "e", "io">>, LAMBDA n : \E i \in DOMAIN formals : formals[i].name = n)
        InOut(i) == IF names = {""} THEN ins[i] = "io" ELSE args[i].name = "io"
    IN /\ \A i \in DOMAIN args : i \in DOMAIN ins \/ names # {""}
       /\ \A i \in DOMAIN args : InOut(i) => args[i].e.k = "var"
       /\ names = {""} => (Len(args) = Len(ins) \/ (callee.kind = "fb" /\ Len(args) < Len(ins)))
       /\ \/ names = {""}
          \/ /\ "" \notin names
             /\ Cardinality(names) = Len(args)
             /\ callee.kind # "fb" => ToSet(ins) \subseteq names
             /\ \A i \in DOMAIN args : args[i].name = "q" <=> args[i].out

\* Every call does what its text says: each argument reaches the parameter its name or its
\* place selects, a body's assignment to a VAR_IN_OUT is the caller's at once, also when two
\* names are one variable, own names hide globals, outputs arrive after the call, temporaries
\* start again and an instance keeps the rest; and only a lawful argument list is compiled.
CallsExact ==
    /\ \A n \in {"x", "y"} : mem[Caller(n)] = scope.caller[n]
    /\ mem[GlobalCell("g")] = scope.global
    /\ \A n \in {"a", "q", "s"} : mem[Inst(n)] = scope.inst[n]
    /\ callee.kind # "fb" \/ slot # Undefined => \A args \in ArgLists : Accepted(args) <=> Lawful(args)
=============================================================================
