---------------------------- MODULE PlcOpenFlow ----------------------------
(* A graphical PLCopen body, scanned three ways: the Structured Text          *)
(* PlcOpenGraph makes of it, the flow of power and data through its elements, *)
(* and the ladder model PlcOpenLadder makes of it.  In the flow an element    *)
(* has one value each time its network runs, the one it had when the network  *)
(* first asked for it; a jump goes to its label.  A body may itself have been *)
(* written from a model by PlcOpenLadder.                                     *)
EXTENDS PlcOpenLadder

LOCAL INSTANCE SequencesExt
LOCAL INSTANCE FiniteSetsExt

CONSTANTS
    Bodies,         \* name -> [nodes, model, vars: name -> type, ld]; no nodes: write the model
    Inputs,         \* BOOL variables the outside sets before each scan
    MaxScans

VARIABLES
    body,           \* the body that runs
    graph,          \* its elements and their wiring
    nets,           \* the order its networks were put in
    code,           \* the text it was lowered to
    env,            \* the variables of the lowered program
    flow,           \* the same variables when the graph itself runs
    seen,           \* the flow's edge detectors: the last value of each
    rungs,          \* the ladder model read from the body
    drawn,          \* its variables (m) and edge detectors (seen)
    scans

vars == <<body, graph, nets, code, env, flow, seen, rungs, drawn, scans>>

-----------------------------------------------------------------------------
(* What the generated text calls: an edge detector, a block CTR that counts   *)
(* its calls with CU, and the functions SEL and NOTE.                         *)
Initial(type) ==
    CASE type = "BOOL" -> FALSE
      [] type \in {"INT", "DINT"} -> 0
      [] OTHER -> [type |-> type, CLK |-> FALSE, CU |-> FALSE, R |-> FALSE, Q |-> FALSE, CV |-> 0, m |-> type = "F_TRIG"]

Called(f) ==
    LET cv == IF f.R THEN 0 ELSE IF f.CU THEN (f.CV + 1) % 4 ELSE f.CV IN
    CASE f.type = "R_TRIG" -> [f EXCEPT !.Q = f.CLK /\ ~f.m, !.m = f.CLK]
      [] f.type = "F_TRIG" -> [f EXCEPT !.Q = ~f.CLK /\ ~f.m, !.m = ~f.CLK]
      [] OTHER -> [f EXCEPT !.CV = cv, !.Q = cv >= 2]

Operated(op, x, y) ==
    CASE op = "AND" -> x /\ y
      [] op = "OR" -> x \/ y
      [] op = "XOR" -> x # y
      [] op = "+" -> (x + y) % 4
      [] op = "-" -> (x - y) % 4
      [] op = "=" -> x = y
      [] op = "<>" -> x # y
      [] op = ">" -> x > y
      [] op = "<" -> x < y
      [] op = ">=" -> x >= y
      [] op = "<=" -> x <= y

Selected(x) == IF x.G THEN x.IN1 ELSE x.IN0
SelDefaults == [G |-> FALSE, IN0 |-> 0, IN1 |-> 0]
SelFormals == <<"G", "IN0", "IN1">>

-----------------------------------------------------------------------------
(* The generated text, executed.                                              *)
RECURSIVE Eval(_, _)
Eval(e, m) ==
    LET arg(n) == e.args[n]
        formal(n) == IF arg(n).f = "" THEN SelFormals[n] ELSE arg(n).f
        given == [f \in {formal(n) : n \in DOMAIN e.args} |-> Eval(arg(CHOOSE n \in DOMAIN e.args : formal(n) = f).e, m)]
    IN CASE e.k = "var" -> m[e.v]
         [] e.k = "bool" -> e.b
         [] e.k = "num" -> e.n
         [] e.k = "member" -> m[e.o][e.m]
         [] e.k = "not" -> ~Eval(e.e, m)
         [] e.k = "bin" -> Operated(e.op, Eval(e.l, m), Eval(e.r, m))
         [] e.k = "call" -> Selected(given @@ SelDefaults)

Fuel == 6       \* turns of the loop of a body that jumps backward

RECURSIVE Exec(_, _, _)
Exec(stmts, r, fuel) ==
    LET s == stmts[1]
        m == r.m
        of(f) == CHOOSE n \in DOMAIN s.args : s.args[n].f = f
        args == [f \in {s.args[n].f : n \in DOMAIN s.args} |-> Eval(s.args[of(f)].e, m)]
        again == Exec(s.body, r, fuel)
        next == CASE s.k = "assign" -> [r EXCEPT !.m[s.t] = Eval(s.e, m)]
                  [] s.k = "call" -> [r EXCEPT !.m[s.inst] = Called(args @@ @)]
                  [] s.k = "perform" -> [r EXCEPT !.m["notes"] = (@ + 1) % 4]
                  [] s.k = "if" -> IF Eval(s.c, m) THEN Exec(s.body, r, fuel) ELSE r
                  [] s.k = "exit" -> [r EXCEPT !.end = "exit"]
                  [] s.k = "return" -> [r EXCEPT !.end = "return"]
                  [] s.k = "loop" -> IF again.end = "exit" THEN [again EXCEPT !.end = ""]
                                     ELSE IF again.end = "return" \/ fuel = 0 THEN again
                                     ELSE Exec(<<s>>, again, fuel - 1)
    IN IF stmts = <<>> \/ r.end # "" THEN r ELSE Exec(Tail(stmts), next, fuel)

-----------------------------------------------------------------------------
(* The flow through the graph.  A state r of it holds the variables m, the    *)
(* detectors, the values of this run of the network (an optional value is a   *)
(* sequence of at most one), and where a jump or return was asked for.        *)
RECURSIVE Run(_, _, _, _, _), Joined(_, _, _, _), Operand(_, _, _, _, _), FeedBlock(_, _, _, _, _)

(* What arrives at input pin p, the value at an output, a sink's effect.      *)
Arriving(g, r, i, p) == Run("pin", g, r, i, p)
Value(g, r, i, formal) == Run("value", g, r, i, formal)
RunSink(g, r, i) == Run("sink", g, r, i, None)

Has(r, v) == [r EXCEPT !.v = v]

Detect(r, at, edge, x) ==
    LET before == IF at \in DOMAIN r.seen THEN r.seen[at] ELSE FALSE
        fires == IF edge = "rising" THEN x /\ ~before ELSE ~x /\ before
    IN IF edge = "none" THEN Has(r, <<x>>) ELSE Has([r EXCEPT !.seen = (at :> x) @@ @], <<fires>>)

ValueOf(g, r, src) == Value(g, r, src.el, src.formal)
JoinOne(g, t, rest, acc) == Joined(g, t, rest, IF acc = <<>> THEN t.v ELSE <<acc[1] \/ t.v[1]>>)
Joined(g, r, conns, acc) ==
    IF conns = <<>> THEN Has(r, acc)
    ELSE JoinOne(g, ValueOf(g, r, Source(g.elems, conns[1])), Tail(conns), acc)

AtInput(t, at, pin) ==
    IF t.v = <<>> THEN t ELSE Detect(t, at, pin.edge, IF pin.neg THEN ~t.v[1] ELSE t.v[1])
PinValue(g, r, i, p) ==
    LET pin == g.elems[i].ins[p]
    IN AtInput(Joined(g, r, pin.conns, IF pin.expr = None THEN <<>> ELSE <<Eval(pin.expr, r.m)>>), <<i, p>>, pin)

EnOf(g, r, i) == IF PinOf(g.elems[i], "EN") = 0 THEN Has(r, <<>>) ELSE Arriving(g, r, i, PinOf(g.elems[i], "EN"))
Enabled(en) == en = <<>> \/ en[1]

(* An operator on its operands, by the formal names of its block.             *)
RECURSIVE Fold(_, _)
Fold(op, vals) == IF Len(vals) = 1 THEN vals[1]
                  ELSE Operated(op, Fold(op, SubSeq(vals, 1, Len(vals) - 1)), vals[Len(vals)])

Result(name, args) ==
    LET vals == [n \in DOMAIN args |-> args[n].v[1]]
        wired == {n \in DOMAIN args : args[n].v # <<>>}
        given == [f \in {args[n].f : n \in wired} |-> args[CHOOSE n \in wired : args[n].f = f].v[1]]
    IN CASE name \in DOMAIN Operators -> Fold(Operators[name], vals)
         [] name \in DOMAIN Comparisons -> \A n \in 1..(Len(vals) - 1) : Operated(Comparisons[name], vals[n], vals[n + 1])
         [] name = "NOT" -> ~vals[1]
         [] name = "MOVE" -> vals[1]
         [] OTHER -> Selected(given @@ SelDefaults)

Operand(g, r, i, p, acc) ==
    LET e == g.elems[i]
        t == Arriving(g, r, i, p)
    IN IF p > Len(e.ins) THEN Has(r, <<Result(e.name, acc)>>)
       ELSE IF e.ins[p].formal = "EN" THEN Operand(g, r, i, p + 1, acc)
       ELSE Operand(g, t, i, p + 1, Append(acc, [f |-> e.ins[p].formal, v |-> t.v]))

FeedBlock(g, r, i, p, acc) ==
    LET formal == g.elems[i].ins[p].formal
        t == Arriving(g, r, i, p)
    IN IF p > Len(g.elems[i].ins) THEN [r |-> r, args |-> acc]
       ELSE FeedBlock(g, t, i, p + 1, IF t.v = <<>> THEN acc ELSE (formal :> t.v[1]) @@ acc)

(* A block is called once, when it is first asked for, if its EN is TRUE.     *)
CallBlock(g, r, i) ==
    LET fed == FeedBlock(g, [r EXCEPT !.busy = @ \union {i}], i, 1, <<>>)
        en == "EN" \notin DOMAIN fed.args \/ fed.args["EN"]
        args == [f \in DOMAIN fed.args \ {"EN"} |-> fed.args[f]]
        t == [fed.r EXCEPT !.busy = @ \ {i}, !.done = @ \union {i}, !.memo = (<<i, "ENO">> :> en) @@ @]
    IN IF i \in r.done \union r.busy THEN r
       ELSE IF en THEN [t EXCEPT !.m[g.elems[i].inst] = Called(args @@ @)] ELSE t

Carried(t, i, inst, formal) ==
    IF formal = "ENO" THEN Has(t, <<(<<i, "ENO">> \notin DOMAIN t.memo) \/ t.memo[<<i, "ENO">>]>>)
    ELSE Has(t, <<t.m[inst][formal]>>)
Allowed(en) == Has(en, <<Enabled(en.v)>>)
AtOutput(t, e, formal) == IF \E o \in Range(e.outs) : o.formal = formal /\ o.neg THEN Has(t, <<~t.v[1]>>) ELSE t
BlockValue(g, r, i, formal) ==
    LET e == g.elems[i]
    IN AtOutput(CASE IsFb(e) -> Carried(CallBlock(g, r, i), i, e.inst, formal)
                  [] IsFunction(e) /\ formal = "ENO" -> Allowed(EnOf(g, r, i))
                  [] OTHER -> Operand(g, r, i, 1, <<>>), e, formal)

Tested(e, power, state) == Has(state, <<power /\ (IF e.neg THEN ~state.v[1] ELSE state.v[1])>>)
Contacted(e, i, r) == Tested(e, r.v[1], Detect(r, <<i, 0>>, e.edge, Eval(e.expr, r.m)))
ContactValue(g, r, i) == Contacted(g.elems[i], i, Arriving(g, r, i, 1))

FreshValue(g, r, i, formal) ==
    LET e == g.elems[i]
    IN CASE e.kind = "contact" -> ContactValue(g, r, i)
         [] e.kind = "coil" -> Arriving(g, r, i, 1)
         [] e.kind = "continuation" -> Arriving(g, r, SelectInSeq(g.elems, LAMBDA c : c.kind = "connector" /\ c.name = e.name), 1)
         [] e.kind = "block" -> BlockValue(g, r, i, formal)

Kept(t, i, key) == IF i \in t.busy THEN t ELSE [t EXCEPT !.memo = (key :> t.v[1]) @@ @]
Written(e, t) == Has(t, <<Eval(e.expr, t.m)>>)
OutputValueOf(g, r, i, formal) ==
    LET e == g.elems[i]
    IN CASE e.kind = "leftPowerRail" -> Has(r, <<TRUE>>)
         [] e.kind = "inVariable" -> Has(r, <<IF e.neg THEN ~Eval(e.expr, r.m) ELSE Eval(e.expr, r.m)>>)
         [] e.kind = "inOutVariable" -> Written(e, RunSink(g, r, i))
         [] OTHER -> IF <<i, formal>> \in DOMAIN r.memo THEN Has(r, <<r.memo[<<i, formal>>]>>)
                     ELSE Kept(FreshValue(g, r, i, formal), i, <<i, formal>>)

CoilValue(e, x, old) ==
    CASE e.storage = "set" -> old \/ x
      [] e.storage = "reset" -> old /\ ~x
      [] OTHER -> IF e.neg THEN ~x ELSE x

(* An output variable a function with an EN alone feeds keeps its value while *)
(* EN is FALSE.                                                               *)
Coiled(e, pulse) == [pulse EXCEPT !.m[e.expr.v] = CoilValue(e, pulse.v[1], @)]
Noted(g, e, i, on) == IF HasConsumers(g, i) \/ e.name # "NOTE" \/ ~Enabled(on.v) THEN on
                      ELSE [on EXCEPT !.m["notes"] = (@ + 1) % 4]
StoredValue(e, t) == [t EXCEPT !.m[e.expr.v] = IF e.neg /\ e.kind = "outVariable" THEN ~t.v[1] ELSE t.v[1]]
StoredIf(on, e, t) == IF on THEN StoredValue(e, t) ELSE t
StoredWhen(g, e, i, en) == StoredIf(Enabled(en.v), e, Arriving(g, en, i, 1))

PoweredSink(e, i, t) ==
    CASE e.kind = "coil" -> Coiled(e, Detect(t, <<i, 0>>, e.edge, t.v[1]))
      [] e.kind \in {"outVariable", "inOutVariable"} -> StoredValue(e, t)
      [] e.kind = "jump" -> IF t.v[1] THEN [t EXCEPT !.jump = e.name] ELSE t
      [] e.kind = "return" -> IF t.v[1] THEN [t EXCEPT !.end = "return"] ELSE t

SinkEffect(g, r0, i) ==
    LET e == g.elems[i]
        r == [r0 EXCEPT !.done = @ \union {i}]
        f == EnabledFunctionFeeding(g, i)
    IN IF i \in r0.done \/ r0.end # "" THEN r0
       ELSE CASE IsFb(e) -> CallBlock(g, r0, i)
              [] IsFunction(e) -> Noted(g, e, i, EnOf(g, Operand(g, r, i, 1, <<>>), i))
              [] e.kind = "outVariable" /\ f # 0 -> StoredWhen(g, e, i, EnOf(g, r, f))
              [] OTHER -> PoweredSink(e, i, Arriving(g, r, i, 1))

Run(what, g, r, i, at) ==
    CASE what = "pin" -> PinValue(g, r, i, at)
      [] what = "value" -> OutputValueOf(g, r, i, at)
      [] what = "sink" -> SinkEffect(g, r, i)

RECURSIVE RunFrom(_, _, _, _, _)
RunOn(g, order, n, fuel, t) ==
    RunFrom(g, order, IF t.jump = "" THEN n + 1 ELSE CHOOSE k \in LabelNetworks(g, order, t.jump) : TRUE, t, fuel)
RunFrom(g, order, n, r, fuel) ==
    IF n > Len(order) \/ r.end # "" \/ fuel = 0 THEN r
    ELSE RunOn(g, order, n, fuel - 1,
               FoldLeft(LAMBDA x, i : RunSink(g, x, i), [r EXCEPT !.memo = <<>>, !.done = {}, !.jump = ""],
                        Sinks(g.elems, order[n])))

-----------------------------------------------------------------------------
(* The ladder model, scanned: power p runs through a rung element by element. *)
RECURSIVE Through(_, _)
ThroughContact(e, r) ==
    LET x == Eval(e.e, r.m)
        t == Detect(r, <<e.id, 0>>, IF e.kind \in Edges THEN e.kind ELSE "none", x)
    IN [t EXCEPT !.p = @ /\ (IF e.kind = "nc" THEN ~x ELSE t.v[1])]
ThroughCoil(e, r) ==
    LET t == Detect(r, <<e.id, 0>>, IF e.kind \in Edges THEN e.kind ELSE "none", r.p)
        old == r.m[e.e.v]
        x == CASE e.kind = "set" -> old \/ r.p
               [] e.kind = "reset" -> old /\ ~r.p
               [] OTHER -> IF e.kind = "negated" THEN ~r.p ELSE t.v[1]
    IN [t EXCEPT !.m[e.e.v] = x]
EitherLeg(x, t) == [x EXCEPT !.p = @ \/ t.p]
ThroughBranch(e, r) ==
    FoldLeft(LAMBDA t, leg : EitherLeg(Through(leg, [t EXCEPT !.p = r.p]), t),
             [r EXCEPT !.p = FALSE], e.legs)

PinHas(t, pin, x) == Has(t, <<IF pin.neg THEN ~x ELSE x>>)
PathHas(t, pin) == PinHas(t, pin, t.p)
ThroughPin(e, p0, r, pin) ==
    CASE pin.formal = e.pin -> PinHas(r, pin, p0)
      [] pin.formal # e.pin /\ pin.rung # NoRung -> PathHas(Through(pin.rung[1], [r EXCEPT !.p = TRUE]), pin)
      [] pin.formal # e.pin /\ pin.rung = NoRung /\ pin.e # None -> PinHas(r, pin, Eval(pin.e, r.m))
      [] OTHER -> Has(r, <<>>)

FedPin(acc, t, pin) == [r |-> t, args |-> Append(acc.args, [f |-> pin.formal, v |-> t.v])]
FeedPins(e, r) ==
    FoldLeft(LAMBDA acc, pin : FedPin(acc, ThroughPin(e, r.p, acc.r, pin), pin), [r |-> r, args |-> <<>>], InPins(e))
GivenTo(args) ==
    LET wired == {n \in DOMAIN args : args[n].v # <<>>}
    IN [f \in {args[n].f : n \in wired} |-> args[CHOOSE n \in wired : args[n].f = f].v[1]]

(* What the outputs of a block read, a function's result among them.          *)
OutputsOf(e, args, en, m) ==
    [pin \in Range(OutPins(e)) |->
        LET x == CASE pin.formal = "ENO" -> en
                   [] pin.formal # "ENO" /\ e.inst # "" -> m[e.inst][pin.formal]
                   [] OTHER -> Result(e.name, SelectSeq(args, LAMBDA a : a.f # "EN"))
        IN IF pin.neg THEN ~x ELSE x]

IntoRung(pin, t) == IF pin.rung = NoRung THEN t ELSE Through(pin.rung[1], t)
WriteOut(e, en, t, pin, x) ==
    IntoRung(pin, [IF pin.e # None /\ (e.inst # "" \/ en \/ pin.formal = "ENO") THEN [t EXCEPT !.m[pin.e.v] = x] ELSE t
                   EXCEPT !.p = x])
PowerOut(e, p, values) ==
    IF e.pout = "" THEN p ELSE values[CHOOSE pin \in DOMAIN values : pin.formal = e.pout] /\ (e.pin # "" \/ p)
LeaveBlock(e, en, p, called, values) ==
    [FoldLeft(LAMBDA t, pin : WriteOut(e, en, t, pin, values[pin]), called, OutPins(e)) EXCEPT !.p = PowerOut(e, p, values)]
AfterCall(e, args, en, p, called) == LeaveBlock(e, en, p, called, OutputsOf(e, args, en, called.m))
EnterBlock(e, args, given, en, p, r) ==
    AfterCall(e, args, en, p,
        IF e.inst # "" /\ en THEN [r EXCEPT !.m[e.inst] = Called([f \in DOMAIN given \ {"EN"} |-> given[f]] @@ @)] ELSE r)
WithInputs(e, p, fed, given) == EnterBlock(e, fed.args, given, "EN" \notin DOMAIN given \/ given["EN"], p, fed.r)
WithPins(e, p, fed) == WithInputs(e, p, fed, GivenTo(fed.args))
ThroughBlock(e, r) == WithPins(e, r.p, FeedPins(e, r))

ThroughElement(r, e) ==
    CASE r.end # "" -> r
      [] r.end = "" /\ e.k = "contact" -> ThroughContact(e, r)
      [] r.end = "" /\ e.k = "coil" -> ThroughCoil(e, r)
      [] r.end = "" /\ e.k = "branch" -> ThroughBranch(e, r)
      [] r.end = "" /\ e.k = "block" -> ThroughBlock(e, r)
      [] r.end = "" /\ e.k = "jump" -> IF r.p THEN [r EXCEPT !.jump = e.label] ELSE r
      [] r.end = "" /\ e.k = "return" -> IF r.p THEN [r EXCEPT !.end = "return"] ELSE r
      [] r.end = "" /\ e.k = "box" -> LET x == Exec(e.code, [m |-> r.m, end |-> ""], Fuel)
                                      IN [r EXCEPT !.m = x.m, !.end = x.end]
Through(es, r) == FoldLeft(ThroughElement, r, es)

RECURSIVE RunRungs(_, _, _, _)
NextRung(gs, n, t, fuel) ==
    RunRungs(gs, IF t.jump = "" THEN n + 1 ELSE SelectInSeq(gs, LAMBDA g : g.label = t.jump), t, fuel)
RunRungs(gs, n, r, fuel) ==
    IF n > Len(gs) \/ r.end # "" \/ fuel = 0 THEN r
    ELSE NextRung(gs, n, Through(gs[n].es, [r EXCEPT !.p = TRUE, !.jump = ""]), fuel - 1)

-----------------------------------------------------------------------------
Instances(g) == {e.inst : e \in Range(g.elems)} \ {""}
TypeOf(g, inst) == (CHOOSE e \in Range(g.elems) : e.inst = inst).name
Own(types, g) == [v \in DOMAIN types |-> Initial(types[v])] @@ [x \in Instances(g) |-> Initial(TypeOf(g, x))]
Hidden(extra) == [v \in {d.name : d \in extra} |-> Initial((CHOOSE d \in extra : d.name = v).type)]

LargestId == 50
NodesOf(b) == IF Bodies[b].nodes = <<>> THEN WriteLd(Bodies[b].model, LargestId) ELSE Bodies[b].nodes

Init ==
    /\ body \in DOMAIN Bodies
    /\ graph = Build(NodesOf(body), DOMAIN Bodies[body].vars, FALSE)
    /\ nets \in Orders(graph.elems)
    /\ code = LowerBody(graph, nets)
    /\ code.ok
    /\ flow = Own(Bodies[body].vars, graph)
    /\ env = flow @@ Hidden(Range(code.extra))
    /\ seen = <<>>
    /\ rungs \in IF Bodies[body].ld THEN {ReadLd(graph, NodesOf(body), o) : o \in LadderOrders(graph.elems)} ELSE {ReadFbd(code)}
    /\ drawn = [m |-> flow @@ Hidden(rungs.extra), seen |-> <<>>]
    /\ scans = 0

Scan ==
    \E x \in [Inputs \intersect DOMAIN flow -> BOOLEAN] :
        LET start == [m |-> x @@ flow, seen |-> seen, memo |-> <<>>, busy |-> {}, done |-> {}, v |-> <<>>,
                      jump |-> "", end |-> "", p |-> TRUE]
            ran == RunFrom(graph, nets, 1, start, Fuel * Len(nets))
            read == RunRungs(rungs.rungs, 1, [start EXCEPT !.m = x @@ drawn.m, !.seen = drawn.seen], Fuel * Len(rungs.rungs))
        IN /\ env' = Exec(code.body, [m |-> x @@ env, end |-> ""], Fuel).m
           /\ flow' = ran.m
           /\ seen' = ran.seen
           /\ drawn' = [m |-> read.m, seen |-> read.seen]

Next == scans < MaxScans /\ scans' = scans + 1 /\ Scan /\ UNCHANGED <<body, graph, nets, code, rungs>>

Spec == Init /\ [][Next]_vars

-----------------------------------------------------------------------------
(* After every scan every variable and instance of the program has the value  *)
(* the flow gives it: branches that share power agree although a coil between *)
(* them writes what they test, an edge is seen once, feedback reads the last  *)
(* scan, and a jump skips what it skips.                                      *)
FlowExact == \A v \in DOMAIN flow : env[v] = flow[v]

(* The ladder model read from a body does what the body does.                 *)
ModelExact == \A v \in DOMAIN flow : drawn.m[v] = flow[v]

(* A model written as PLCopen XML is the same model when it is read back: the *)
(* same rungs in the same order, with their labels, comments and ids.         *)
RoundTrip == Bodies[body].nodes = <<>> => rungs.rungs = Bodies[body].model

RECURSIVE CallsOf(_)
CallsOf(stmts) == IF stmts = <<>> THEN <<>>
                  ELSE (CASE stmts[1].k = "call" -> <<stmts[1].inst>>
                          [] stmts[1].k \in {"if", "loop"} -> CallsOf(stmts[1].body)
                          [] OTHER -> <<>>) \o CallsOf(Tail(stmts))

(* Every instance and edge detector is called by one statement, however many  *)
(* elements read it, and no hidden variable is declared twice.                *)
CalledOnce ==
    LET calls == CallsOf(code.body)
    IN /\ \A i, j \in DOMAIN calls : i # j => calls[i] # calls[j]
       /\ \A i, j \in DOMAIN code.extra : i # j => code.extra[i].name # code.extra[j].name
       /\ Instances(graph) \subseteq Range(calls)

=============================================================================
