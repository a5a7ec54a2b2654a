--------------------------- MODULE PlcOpenGraph ----------------------------
(* The lowering of a graphical PLCopen body (LD or FBD) to Structured Text    *)
(* (plcc-plcopen, graph.rs).  A body is a flat sequence of XML nodes wired by *)
(* connections; it is read into elements, grouped into networks, and each     *)
(* network's sinks pull the values of their inputs.  Every operator that      *)
(* lowers takes a state s and returns the next one: the statements and hidden *)
(* variables so far, what was lowered before (memo, busy, done, eno), whether *)
(* an error was reported (bad), and the expression it made (v).               *)
EXTENDS Integers, Sequences, FiniteSets, TLC

LOCAL INSTANCE SequencesExt
LOCAL INSTANCE FiniteSetsExt

-----------------------------------------------------------------------------
(* Expressions and statements of the generated text.                          *)
None == [k |-> "none"]
Ref(v) == [k |-> "var", v |-> v]
Bool(b) == [k |-> "bool", b |-> b]
Num(n) == [k |-> "num", n |-> n]
Member(o, m) == [k |-> "member", o |-> o, m |-> m]
NotE(e) == [k |-> "not", e |-> e]
Bin(op, l, r) == [k |-> "bin", op |-> op, l |-> l, r |-> r]
CallE(f, args) == [k |-> "call", f |-> f, args |-> args]
IsTrue(e) == e.k = "bool" /\ e.b
AndE(l, r) == IF IsTrue(l) THEN r ELSE IF IsTrue(r) THEN l ELSE Bin("AND", l, r)
OrE(l, r) == IF IsTrue(l) \/ IsTrue(r) THEN Bool(TRUE) ELSE Bin("OR", l, r)

Assign(t, e) == [k |-> "assign", t |-> t, e |-> e]
FbCall(inst, args) == [k |-> "call", inst |-> inst, args |-> args]
Perform(e) == [k |-> "perform", e |-> e]
Exit == [k |-> "exit"]
Return == [k |-> "return"]
If(c, body) == [k |-> "if", c |-> c, body |-> body]
Guarded(c, body) == IF IsTrue(c) THEN body ELSE <<If(c, body)>>

-----------------------------------------------------------------------------
(* Reading the XML.  A node names its tag and carries the attributes and      *)
(* children that tag can have; 0, "" and None stand for an absent one.        *)
Node(tag, id) ==
    [tag |-> tag, id |-> id, eo |-> 0, y |-> id, x |-> 0, name |-> "", inst |-> "", expr |-> None,
     neg |-> FALSE, edge |-> "none", storage |-> "none", ins |-> <<>>, inouts |-> <<>>, outs |-> <<>>]
Wire(id) == [ref |-> id, formal |-> ""]
PinIn(formal, conns) == [formal |-> formal, conns |-> conns, expr |-> None, neg |-> FALSE, edge |-> "none"]

Skipped == {"comment", "documentation", "addData", "error"}
WithExpression == {"contact", "coil", "inVariable", "outVariable", "inOutVariable"}
WithName == {"block", "connector", "continuation", "jump", "label"}
OneInput == {"contact", "coil", "outVariable", "inOutVariable", "connector", "jump", "return"}
Tags == WithExpression \union WithName \union OneInput \union {"leftPowerRail", "rightPowerRail"}

Edges == {"none", "rising", "falling"}
Storages == {"none", "set", "reset"}

Readable(n) ==
    /\ n.tag \in Tags /\ n.id # 0
    /\ n.tag \in WithExpression => n.expr # None
    /\ n.tag \in WithName => n.name # ""
    /\ n.tag \in {"contact", "coil"} => n.edge \in Edges
    /\ n.tag = "coil" => n.storage \in Storages
    /\ n.tag = "block" => \A p \in Range(n.ins \o n.inouts) : p.formal # "" /\ p.edge \in Edges

(* A wired element has one pin even when nothing is wired to it; the power    *)
(* rail on the right keeps its pins for the grouping of networks alone.       *)
InputPins(n) ==
    CASE n.tag = "block" -> n.ins \o n.inouts
      [] n.tag \in OneInput -> IF n.ins = <<>> THEN <<PinIn("", <<>>)>> ELSE <<n.ins[1]>>
      [] n.tag = "rightPowerRail" -> n.ins
      [] OTHER -> <<>>

Element(n) ==
    [id |-> n.id, kind |-> n.tag, eo |-> n.eo, y |-> n.y, x |-> n.x, name |-> n.name, inst |-> n.inst,
     expr |-> n.expr, neg |-> n.neg, edge |-> n.edge, storage |-> n.storage, ins |-> InputPins(n),
     inouts |-> {p.formal : p \in Range(n.inouts)}, outs |-> n.outs]

IsFb(e) == e.kind = "block" /\ e.inst # ""
IsFunction(e) == e.kind = "block" /\ e.inst = ""
IsSink(e) == e.kind \in {"coil", "outVariable", "inOutVariable", "block", "jump", "return"}
PinOf(e, formal) == SelectInSeq(e.ins, LAMBDA p : p.formal = formal)

-----------------------------------------------------------------------------
(* The body's graph: elements, and how many connections read each output.     *)
NoSource == [el |-> 0, formal |-> ""]
Results(e) == SelectSeq(e.outs, LAMBDA o : o.formal # "ENO")

ElementAt(elems, id) == SelectInSeq(elems, LAMBDA e : e.id = id)

Source(elems, c) ==
    LET i == ElementAt(elems, c.ref)
        e == elems[i]
        first == IF Results(e) = <<>> THEN "" ELSE Results(e)[1].formal
        formal == IF c.formal # "" THEN c.formal ELSE first
    IN CASE i = 0 -> NoSource
         [] i # 0 /\ e.kind # "block" -> [el |-> i, formal |-> ""]
         [] OTHER -> IF formal \in e.inouts \/ \E o \in Range(e.outs) : o.formal = formal
                     THEN [el |-> i, formal |-> formal] ELSE NoSource

Connections(elems) ==
    UNION {UNION {{<<i, p, c>> : c \in DOMAIN elems[i].ins[p].conns} : p \in DOMAIN elems[i].ins} : i \in DOMAIN elems}
ConnAt(elems, w) == elems[w[1]].ins[w[2]].conns[w[3]]

CountFanout(elems) ==
    LET read == {w \in Connections(elems) : elems[w[1]].kind # "rightPowerRail"}
        of == {<<w, Source(elems, ConnAt(elems, w))>> : w \in read}
    IN [s \in {r[2] : r \in of} |-> Cardinality({r \in of : r[2] = s})]

(* Reading fails on any unreadable node, a localId or a connector used twice, *)
(* and a connection that leads nowhere.                                       *)
Build(nodes, declared, function) ==
    LET kept == SelectSeq(nodes, LAMBDA n : n.tag \notin Skipped)
        elems == <<>> \o [i \in DOMAIN kept |-> Element(kept[i])]
        fanout == CountFanout(elems)
        unique(S) == \A i, j \in S : i # j => elems[i].id # elems[j].id /\ elems[i].name # elems[j].name
    IN [elems |-> elems, declared |-> declared, function |-> function, fanout |-> fanout,
        ok |-> /\ \A i \in DOMAIN kept : Readable(kept[i])
               /\ \A i, j \in DOMAIN elems : i # j => elems[i].id # elems[j].id
               /\ unique({i \in DOMAIN elems : elems[i].kind = "connector"})
               /\ NoSource \notin DOMAIN fanout]

Fanout(g, i, formal) ==
    LET s == [el |-> i, formal |-> formal] IN IF s \in DOMAIN g.fanout THEN g.fanout[s] ELSE 0

-----------------------------------------------------------------------------
(* Networks: the elements joined by connections and by connectors of a name.  *)
Links(elems) ==
    {l \in {<<w[1], ElementAt(elems, ConnAt(elems, w).ref)>> : w \in Connections(elems)} : l[2] # 0}
    \union {l \in (DOMAIN elems) \X (DOMAIN elems) :
               /\ elems[l[1]].kind = "continuation" /\ elems[l[2]].kind = "connector"
               /\ elems[l[1]].name = elems[l[2]].name}

Merge(l, parts) ==
    LET joined == {S \in parts : l[1] \in S \/ l[2] \in S} IN (parts \ joined) \union {UNION joined}
Networks(elems) == FoldSet(Merge, {{i} : i \in DOMAIN elems}, Links(elems))

Before(a, b) == \/ a[1] < b[1]
                \/ a[1] = b[1] /\ a[2] < b[2]
                \/ a[1] = b[1] /\ a[2] = b[2] /\ a[3] < b[3]

Late == 1000        \* the execution order of an element that has none

(* By execution order if every network has one, then by position.             *)
NetworkKey(elems, parts, S) ==
    LET orders == {elems[i].eo : i \in S} \ {0}
        all == \A net \in parts : \E i \in net : elems[i].eo # 0
    IN <<IF all THEN Min(orders) ELSE 0, Min({elems[i].y : i \in S}), Min({elems[i].x : i \in S})>>

(* Networks of equal keys run in the order a hash map yields them: any.       *)
RECURSIVE InOrder(_, _, _)
InOrder(elems, parts, left) ==
    LET key(S) == NetworkKey(elems, parts, S)
        first == {S \in left : \A T \in left : ~Before(key(T), key(S))}
    IN IF left = {} THEN {<<>>} ELSE UNION {{<<S>> \o o : o \in InOrder(elems, parts, left \ {S})} : S \in first}
Orders(elems) == LET parts == Networks(elems) IN InOrder(elems, parts, parts)

InPlace(n, S) == SelectSeq([i \in 1..n |-> i], LAMBDA i : i \in S)
SinkKey(e) == <<IF e.eo = 0 THEN Late ELSE e.eo, e.y, e.x>>
Sinks(elems, net) ==
    SortSeq(InPlace(Len(elems), {i \in net : IsSink(elems[i])}),
        LAMBDA i, j : \/ Before(SinkKey(elems[i]), SinkKey(elems[j]))
                      \/ SinkKey(elems[i]) = SinkKey(elems[j]) /\ i < j)

-----------------------------------------------------------------------------
(* Lowering.                                                                  *)
Start == [out |-> <<>>, extra |-> <<>>, memo |-> <<>>, busy |-> {}, done |-> {}, eno |-> <<>>,
          bad |-> FALSE, v |-> None]
Give(s, e) == [s EXCEPT !.v = e]
Fail(s) == [s EXCEPT !.v = None, !.bad = TRUE]
Emit(s, stmts) == [s EXCEPT !.out = @ \o stmts]
Hide(s, name, type) == [s EXCEPT !.extra = Append(@, [name |-> name, type |-> type])]

(* A value two readers use is kept in a hidden BOOL, a plain variable too:    *)
(* a coil between the two may write it.                                       *)
Latch(s, suffix, e) ==
    LET name == "_ld_" \o suffix
    IN IF e.k = "bool" THEN Give(s, e)
       ELSE Give(Emit(Hide(s, name, "BOOL"), <<Assign(name, e)>>), Ref(name))

Shared(g, s, i, e) == IF Fanout(g, i, "") > 1 THEN Latch(s, "p" \o ToString(g.elems[i].id), e) ELSE Give(s, e)

Trig(g, s, edge, suffix, clk) ==
    LET name == (IF edge = "rising" THEN "_ld_rt" ELSE "_ld_ft") \o suffix
        type == IF edge = "rising" THEN "R_TRIG" ELSE "F_TRIG"
    IN IF g.function THEN Fail(s)
       ELSE Give(Emit(Hide(s, name, type), <<FbCall(name, <<[f |-> "CLK", e |-> clk]>>)>>), Member(name, "Q"))

Operators == [ADD |-> "+", MUL |-> "*", AND |-> "AND", OR |-> "OR", XOR |-> "XOR", SUB |-> "-", DIV |-> "/",
              MOD |-> "MOD", EXPT |-> "**"]
Extensible == {"ADD", "MUL", "AND", "OR", "XOR"}
Comparisons == [GT |-> ">", GE |-> ">=", EQ |-> "=", LE |-> "<=", LT |-> "<", NE |-> "<>"]

Reduce(op, vals) == FoldLeft(LAMBDA l, r : Bin(op, l, r), Head(vals), Tail(vals))
Pairs(op, vals) == [n \in 1..(Len(vals) - 1) |-> Bin(op, vals[n], vals[n + 1])]

(* The expression of a function block whose operands are args (a formal and   *)
(* None or a value each); None when their number is wrong.                    *)
Applied(type, args) ==
    LET all == \A n \in DOMAIN args : args[n].e # None
        vals == IF all THEN [n \in DOMAIN args |-> args[n].e] ELSE <<>>
        named == [n \in DOMAIN args |-> [f |-> IF all THEN "" ELSE args[n].f, e |-> args[n].e]]
        many == Len(vals) >= 2
        two == Len(vals) = 2
    IN CASE type \in DOMAIN Operators -> IF two \/ (many /\ type \in Extensible) THEN Reduce(Operators[type], vals) ELSE None
         [] type \in DOMAIN Comparisons ->
                IF two \/ (many /\ type # "NE") THEN Reduce("AND", Pairs(Comparisons[type], vals)) ELSE None
         [] type \in {"NOT", "MOVE"} ->
                IF Len(vals) # 1 THEN None ELSE IF type = "NOT" THEN NotE(vals[1]) ELSE vals[1]
         [] OTHER -> CallE(type, SelectSeq(named, LAMBDA a : a.e # None))

RECURSIVE Lower(_, _, _, _, _), Branches(_, _, _, _), FbArgs(_, _, _, _, _), Operands(_, _, _, _, _)

(* The value of input pin p, the value at an output, the text of a sink.      *)
Input(g, s, i, p) == Lower("input", g, s, i, p)
Output(g, s, i, formal) == Lower("output", g, s, i, formal)
EmitSink(g, s, i) == Lower("sink", g, s, i, None)

(* Several connections into one input are parallel branches.                  *)
OutputOf(g, s, src) == Output(g, s, src.el, src.formal)
JoinBranch(g, t, rest, acc) ==
    IF t.v = None THEN t ELSE Branches(g, t, rest, IF acc = None THEN t.v ELSE OrE(acc, t.v))
Branches(g, s, conns, acc) ==
    IF conns = <<>> THEN Give(s, acc)
    ELSE JoinBranch(g, OutputOf(g, s, Source(g.elems, conns[1])), Tail(conns), acc)

Polarity(neg, e) == IF neg THEN NotE(e) ELSE e
Arrived(g, t, id, pin) ==
    IF t.v = None THEN t
    ELSE IF pin.edge = "none" THEN Give(t, Polarity(pin.neg, t.v))
    ELSE Trig(g, t, pin.edge, ToString(id) \o "_" \o pin.formal, Polarity(pin.neg, t.v))
InputValue(g, s, i, p) ==
    LET pin == g.elems[i].ins[p] IN Arrived(g, Branches(g, s, pin.conns, pin.expr), g.elems[i].id, pin)

Required(t) == IF t.v = None THEN Fail(t) ELSE t
RequiredInput(g, s, i, p) == Required(Input(g, s, i, p))

EnValue(g, s, i) ==
    LET p == PinOf(g.elems[i], "EN") IN IF p = 0 THEN Give(s, None) ELSE Input(g, s, i, p)

Operands(g, s, i, p, acc) ==
    LET e == g.elems[i]
        t == Input(g, s, i, p)
        wired == e.ins[p].conns # <<>> \/ e.ins[p].expr # None
    IN IF p > Len(e.ins) THEN [t |-> Give(s, Bool(TRUE)), args |-> acc]
       ELSE IF e.ins[p].formal = "EN" THEN Operands(g, s, i, p + 1, acc)
       ELSE IF wired /\ t.v = None THEN [t |-> t, args |-> acc]
       ELSE Operands(g, t, i, p + 1, Append(acc, [f |-> e.ins[p].formal, e |-> t.v]))

FunctionCall(g, s, i) ==
    LET o == Operands(g, s, i, 1, <<>>)
        e == Applied(g.elems[i].name, o.args)
    IN IF o.t.v = None THEN o.t ELSE IF e = None THEN Fail(o.t) ELSE Give(o.t, e)

-----------------------------------------------------------------------------
(* Function block calls.  A block that is being called while its own inputs   *)
(* are evaluated is not called again: its output is last scan's (feedback).   *)
FbArgs(g, s, i, p, acc) ==
    LET pin == g.elems[i].ins[p]
        t == Input(g, s, i, p)
        next == IF t.v = None THEN acc
                ELSE IF pin.formal = "EN" THEN [acc EXCEPT !.en = t.v]
                ELSE [acc EXCEPT !.args = Append(@, [f |-> pin.formal, e |-> t.v])]
    IN IF p > Len(g.elems[i].ins) THEN [t |-> s, acc |-> acc] ELSE FbArgs(g, t, i, p + 1, next)

Declare(g, s, e) ==
    IF e.inst \in g.declared \/ \E d \in Range(s.extra) : d.name = e.inst THEN s ELSE Hide(s, e.inst, e.name)

AlreadyCalled_Mut(s, i) == i \in s.busy
AlreadyCalled(s, i) == i \in s.done \union s.busy

EmitFbCall(g, s, i) ==
    LET e == g.elems[i]
        a == FbArgs(g, Declare(g, [s EXCEPT !.busy = @ \union {i}], e), i, 1, [en |-> None, args |-> <<>>])
        call == FbCall(e.inst, a.acc.args)
        en == IF a.acc.en = None THEN Give(a.t, Bool(TRUE))
              ELSE IF Fanout(g, i, "ENO") > 0 THEN Latch(a.t, "en" \o ToString(e.id), a.acc.en)
              ELSE Give(a.t, a.acc.en)
        t == Emit(en, Guarded(en.v, <<call>>))
    IN IF AlreadyCalled(s, i) THEN s
       ELSE [t EXCEPT !.busy = @ \ {i}, !.done = @ \union {i}, !.eno = (i :> en.v) @@ @]

-----------------------------------------------------------------------------
(* The value at an output.                                                    *)
Within(s, i) == [s EXCEPT !.busy = @ \union {i}]
Leave(s, i) == [s EXCEPT !.busy = @ \ {i}]
RequiredWithin(g, s, i, of) == Leave(RequiredInput(g, Within(s, i), of, 1), i)

ContactOutput(g, s, i) ==
    LET e == g.elems[i]
        p == RequiredWithin(g, s, i, i)
        term == IF e.edge = "none" THEN Give(p, IF e.neg THEN NotE(e.expr) ELSE e.expr)
                ELSE IF e.neg THEN Fail(p)
                ELSE Trig(g, p, e.edge, ToString(e.id), e.expr)
    IN IF p.v = None THEN p ELSE IF term.v = None THEN term ELSE Shared(g, term, i, AndE(p.v, term.v))

CoilOutput(g, s, i) ==
    LET p == RequiredWithin(g, s, i, i) IN IF p.v = None THEN p ELSE Shared(g, p, i, p.v)

ContinuationOutput(g, s, i) ==
    LET c == SelectInSeq(g.elems, LAMBDA e : e.kind = "connector" /\ e.name = g.elems[i].name)
    IN IF c = 0 THEN Fail(s) ELSE RequiredWithin(g, s, i, c)

FbOutput(g, s, i, formal) ==
    LET e == g.elems[i]
        t == EmitFbCall(g, s, i)
    IN IF formal = "ENO" THEN Give(t, IF i \in DOMAIN t.eno THEN t.eno[i] ELSE Bool(TRUE))
       ELSE IF formal \in e.inouts THEN Input(g, t, i, PinOf(e, formal))
       ELSE Give(t, Member(e.inst, formal))

FunctionOutput(g, s, i, formal) ==
    LET e == g.elems[i]
        en == EnValue(g, s, i)
    IN IF formal = "ENO" THEN Give(en, IF en.v = None THEN Bool(TRUE) ELSE en.v)
       ELSE IF formal \in e.inouts THEN Input(g, s, i, PinOf(e, formal))
       ELSE IF Results(e) = <<>> \/ Results(e)[1].formal # formal THEN Fail(s)
       ELSE Leave(FunctionCall(g, Within(s, i), i), i)

AtPin(t, e, formal) ==
    IF t.v # None /\ \E o \in Range(e.outs) : o.formal = formal /\ o.neg THEN Give(t, NotE(t.v)) ELSE t
BlockOutput(g, s, i, formal) ==
    AtPin(IF IsFb(g.elems[i]) THEN FbOutput(g, s, i, formal) ELSE FunctionOutput(g, s, i, formal), g.elems[i], formal)

FreshOutput(g, s, i, formal) ==
    LET e == g.elems[i] IN
    CASE e.kind = "leftPowerRail" -> Give(s, Bool(TRUE))
      [] e.kind = "contact" -> ContactOutput(g, s, i)
      [] e.kind = "coil" -> CoilOutput(g, s, i)
      [] e.kind = "inVariable" -> Give(s, IF e.neg THEN NotE(e.expr) ELSE e.expr)
      [] e.kind = "inOutVariable" -> Give(EmitSink(g, s, i), e.expr)
      [] e.kind = "continuation" -> ContinuationOutput(g, s, i)
      [] e.kind = "block" -> BlockOutput(g, s, i, formal)
      [] OTHER -> Fail(s)

Memoize(t, i, key) == IF t.v = None \/ i \in t.busy THEN t ELSE [t EXCEPT !.memo = (key :> t.v) @@ @]
OutputValue(g, s, i, formal) ==
    IF <<i, formal>> \in DOMAIN s.memo THEN Give(s, s.memo[<<i, formal>>])
    ELSE IF i \in s.busy /\ ~IsFb(g.elems[i]) THEN Fail(s)
    ELSE Memoize(FreshOutput(g, s, i, formal), i, <<i, formal>>)

-----------------------------------------------------------------------------
(* Sinks.                                                                     *)
EmitCoil(g, s, i) ==
    LET e == g.elems[i]
        p == RequiredInput(g, s, i, 1)
        q == IF e.edge = "none" THEN p ELSE Trig(g, p, e.edge, ToString(e.id), p.v)
        t == e.expr.v
    IN IF p.v = None THEN p
       ELSE IF e.neg /\ (e.storage # "none" \/ e.edge # "none") THEN Fail(p)
       ELSE IF q.v = None THEN q
       ELSE IF e.storage = "none" THEN Emit(q, <<Assign(t, IF e.neg THEN NotE(q.v) ELSE q.v)>>)
       ELSE Emit(q, Guarded(q.v, <<Assign(t, Bool(e.storage = "set"))>>))

HasConsumers(g, i) == \E k \in DOMAIN g.fanout : k.el = i

(* A function nobody reads is called for its effects; an operator has none.   *)
PerformWhen(en, call) == Emit(en, Guarded(IF en.v = None THEN Bool(TRUE) ELSE en.v, <<Perform(call)>>))
PerformCall(g, t, i) ==
    IF t.v = None \/ t.v.k # "call" THEN t ELSE PerformWhen(EnValue(g, t, i), t.v)
EmitFunction(g, s, i) == PerformCall(g, FunctionCall(g, [s EXCEPT !.done = @ \union {i}], i), i)

(* The function with an EN that alone feeds output variable i, or 0.          *)
EnabledFunctionFeeding(g, i) ==
    LET conns == g.elems[i].ins[1].conns
        src == Source(g.elems, conns[1])
    IN IF Len(conns) # 1 \/ src = NoSource THEN 0
       ELSE IF ~IsFunction(g.elems[src.el]) \/ PinOf(g.elems[src.el], "EN") = 0 \/ src.formal = "ENO" THEN 0
       ELSE src.el

StoreWhen(en, t, e) ==
    IF t.v = None THEN t ELSE Emit(t, Guarded(en, <<Assign(e.expr.v, Polarity(e.neg, t.v))>>))
Store(g, s, en, i, f) ==
    IF en.v = None THEN StoreWhen(Bool(TRUE), RequiredInput(g, s, i, 1), g.elems[i])
    ELSE StoreWhen(en.v, FunctionCall(g, en, f), g.elems[i])
StoreFrom(g, s, i, f) ==
    Store(g, s, IF f = 0 THEN Give(s, None) ELSE EnValue(g, s, f), i, f)
EmitOutVariable(g, s, i) == StoreFrom(g, s, i, EnabledFunctionFeeding(g, i))

WhenPowered(p, stmt) == IF p.v = None THEN p ELSE Emit(p, Guarded(p.v, <<stmt>>))
EmitWhenPowered(g, s, i, stmt) == WhenPowered(RequiredInput(g, s, i, 1), stmt)

SinkText(g, s0, i) ==
    LET e == g.elems[i]
        s == [s0 EXCEPT !.done = @ \union {i}]
    IN IF i \in s0.done THEN s0
       ELSE CASE IsFb(e) -> EmitFbCall(g, s0, i)
              [] IsFunction(e) -> IF HasConsumers(g, i) THEN s0 ELSE EmitFunction(g, s0, i)
              [] e.kind = "coil" -> EmitCoil(g, s, i)
              [] e.kind = "outVariable" -> EmitOutVariable(g, s, i)
              [] e.kind = "inOutVariable" -> StoreWhen(Bool(TRUE), RequiredInput(g, s, i, 1), [e EXCEPT !.neg = FALSE])
              [] e.kind = "jump" -> EmitWhenPowered(g, s, i, Assign("_ld_jmp", Num(g.labels[e.name])))
              [] e.kind = "return" -> EmitWhenPowered(g, s, i, Return)

Lower(what, g, s, i, at) ==
    CASE what = "input" -> InputValue(g, s, i, at)
      [] what = "output" -> OutputValue(g, s, i, at)
      [] what = "sink" -> SinkText(g, s, i)

LowerNetwork(g, s, net) ==
    FoldLeft(LAMBDA t, i : EmitSink(g, t, i), [s EXCEPT !.out = <<>>], Sinks(g.elems, net))

-----------------------------------------------------------------------------
(* The body: networks in order, jumps through the hidden _ld_jmp.             *)
NotJumping == Bin("=", Ref("_ld_jmp"), Num(0))

LabelNetworks(g, nets, name) ==
    {n \in DOMAIN nets : \E i \in nets[n] : g.elems[i].kind = "label" /\ g.elems[i].name = name}
Labels(g) == {g.elems[i].name : i \in {i \in DOMAIN g.elems : g.elems[i].kind = "label"}}
Jumps(g, nets) == UNION {{<<n, g.elems[i].name>> : i \in {i \in nets[n] : g.elems[i].kind = "jump"}} : n \in DOMAIN nets}

Backward(g, nets) == \E j \in Jumps(g, nets) : \A n \in LabelNetworks(g, nets, j[2]) : n <= j[1]

(* Labels are numbered from 1 in the order of their networks.                 *)
LabelNumbers(g, nets) ==
    [l \in Labels(g) |-> Cardinality({m \in Labels(g) :
        Min(LabelNetworks(g, nets, m)) <= Min(LabelNetworks(g, nets, l))})]

LabelOnly(g, net) == Cardinality(net) = 1 /\ \E i \in net : g.elems[i].kind = "label"
LabelOf(g, net) == g.elems[CHOOSE i \in net : TRUE].name

(* One network after another: its statements, all under `_ld_jmp = 0` when    *)
(* the body jumps; a label that is being looked for ends the jump.            *)
Landing(g, net) == If(Bin("=", Ref("_ld_jmp"), Num(g.labels[LabelOf(g, net)])), <<Assign("_ld_jmp", Num(0))>>)
Skippable(t, jumps) ==
    [t EXCEPT !.code = @ \o IF jumps /\ t.out # <<>> THEN <<If(NotJumping, t.out)>> ELSE t.out]
Pass(g, nets) ==
    FoldLeft(LAMBDA s, net : IF LabelOnly(g, net) THEN [s EXCEPT !.code = Append(@, Landing(g, net))]
                             ELSE Skippable(LowerNetwork(g, s, net), Jumps(g, nets) # {}),
             [x \in DOMAIN Start \union {"code"} |-> IF x = "code" THEN <<>> ELSE Start[x]], nets)

LabelsUnique(g) ==
    \A i, j \in {i \in DOMAIN g.elems : g.elems[i].kind = "label"} : i # j => g.elems[i].name # g.elems[j].name
LabelsDefined(g, nets) == \A j \in Jumps(g, nets) : LabelNetworks(g, nets, j[2]) # {}

Looped(g, nets, code) ==
    IF Backward(g, nets) THEN <<[k |-> "loop", body |-> code \o <<If(NotJumping, <<Exit>>)>>]>> ELSE code
Whole(g, nets, pass) ==
    LET ok == LabelsUnique(g) /\ LabelsDefined(g, nets) /\ ~pass.bad
    IN IF Jumps(g, nets) = {} THEN [ok |-> ok, extra |-> pass.extra, body |-> pass.code]
       ELSE [ok |-> ok, extra |-> <<[name |-> "_ld_jmp", type |-> "DINT"]>> \o pass.extra,
             body |-> <<Assign("_ld_jmp", Num(0))>> \o Looped(g, nets, pass.code)]

WithLabels(g, labels) == [x \in DOMAIN g \union {"labels"} |-> IF x = "labels" THEN labels ELSE g[x]]
LowerLabelled(g, nets) == Whole(g, nets, Pass(g, nets))
LowerNetworks(g, nets) == LowerLabelled(WithLabels(g, LabelNumbers(g, nets)), nets)

LowerBody(g, nets) == IF g.ok THEN LowerNetworks(g, nets) ELSE [ok |-> FALSE, extra |-> <<>>, body |-> <<>>]
=============================================================================
