---------------------------- MODULE PlcOpenLadder --------------------------
(* A PLCopen LD body read into the ladder model and written from it           *)
(* (plcc-plcopen, ladder_read.rs, ladder_write.rs).  Reading, each network    *)
(* becomes a graph whose nodes are its wires and whose edges are its          *)
(* elements, which series and parallel reductions shrink to one edge, the     *)
(* rung.  A network they do not shrink becomes a box of the Structured Text   *)
(* it lowers to.  A node is the set of ports (an element and an output of it) *)
(* that wires join.                                                           *)
EXTENDS PlcOpenGraph

LOCAL INSTANCE SequencesExt
LOCAL INSTANCE FiniteSetsExt

-----------------------------------------------------------------------------
(* Elements of the model.                                                     *)
Contact(id, e, kind) == [k |-> "contact", id |-> id, e |-> e, kind |-> kind]
Coil(id, e, kind) == [k |-> "coil", id |-> id, e |-> e, kind |-> kind]
Branch(legs) == [k |-> "branch", legs |-> legs]
Jump(id, label) == [k |-> "jump", id |-> id, label |-> label]
Ret(id) == [k |-> "return", id |-> id]
Box(code) == [k |-> "box", code |-> code]
BlockPin(formal, dir, e, neg, rung) == [formal |-> formal, dir |-> dir, e |-> e, neg |-> neg, rung |-> rung]
BlockElement(id, name, inst, pin, pout, pins) ==
    [k |-> "block", id |-> id, name |-> name, inst |-> inst, pin |-> pin, pout |-> pout, pins |-> pins]

ContactKind(e) == IF e.edge # "none" THEN e.edge ELSE IF e.neg THEN "nc" ELSE "no"
CoilKind(e) == CASE e.storage # "none" -> e.storage
                 [] e.storage = "none" /\ e.edge # "none" -> e.edge
                 [] OTHER -> IF e.neg THEN "negated" ELSE "normal"

-----------------------------------------------------------------------------
(* Networks, the power rails left out of them.                                *)
IsRail(e) == e.kind \in {"leftPowerRail", "rightPowerRail"}
LadderNetworks(elems) ==
    LET wired == {i \in DOMAIN elems : ~IsRail(elems[i])}
        links == {l \in Links(elems) : {l[1], l[2]} \subseteq wired}
    IN FoldSet(Merge, {{i} : i \in wired}, links)
LadderOrders(elems) == LET parts == LadderNetworks(elems) IN InOrder(elems, parts, parts)

Top(elems, net) == Min({elems[i].y : i \in net})
Bottom(elems, net) == Max({elems[i].y : i \in net})
IsLabel(elems, net) == Cardinality(net) = 1 /\ \A i \in net : elems[i].kind = "label"
LabelText(elems, net) == elems[CHOOSE i \in net : TRUE].name

(* A label beside the network that follows it names that network's rung; any  *)
(* other is a rung of its own.                                                *)
Beside(elems, label, net) ==
    /\ ~IsLabel(elems, net)
    /\ Top(elems, label) >= Top(elems, net) - 1
    /\ Top(elems, label) <= Bottom(elems, net)

RECURSIVE Labelled(_, _)
Labelled(elems, nets) ==
    LET net == Head(nets)
        text == LabelText(elems, net)
        entry(label, n, y) == [label |-> label, net |-> n, y |-> y]
    IN CASE nets = <<>> -> <<>>
         [] nets # <<>> /\ ~IsLabel(elems, net) -> <<entry("", net, Top(elems, net))>> \o Labelled(elems, Tail(nets))
         [] OTHER -> IF Len(nets) > 1 /\ Beside(elems, net, nets[2])
                     THEN <<entry(text, nets[2], Top(elems, net))>> \o Labelled(elems, SubSeq(nets, 3, Len(nets)))
                     ELSE <<entry(text, {}, Top(elems, net))>> \o Labelled(elems, Tail(nets))

-----------------------------------------------------------------------------
(* How a network is wired.                                                    *)
Rail == <<0, "S">>
OpenEnd == <<0, "T">>
FromVariable(e) == e.kind \in {"inVariable", "inOutVariable"}
ToVariable(e) == e.kind \in {"outVariable", "inOutVariable"}

Sources(elems, i, p) == [n \in DOMAIN elems[i].ins[p].conns |-> Source(elems, elems[i].ins[p].conns[n])]
Readers(elems, net, i, formal) ==
    {w \in Connections(elems) :
        /\ w[1] \in net \/ elems[w[1]].kind = "rightPowerRail"
        /\ Source(elems, ConnAt(elems, w)) = [el |-> i, formal |-> formal]}

ConnectorOf(elems, name) == SelectInSeq(elems, LAMBDA c : c.kind = "connector" /\ c.name = name)
PortOf(elems, src) ==
    CASE elems[src.el].kind = "leftPowerRail" -> Rail
      [] elems[src.el].kind = "continuation" -> <<ConnectorOf(elems, elems[src.el].name), "">>
      [] OTHER -> <<src.el, src.formal>>

(* A pin of a block is fed by power or by one variable, an output read by     *)
(* power or by one variable that stores it as it is.                          *)
PinsFed(elems, i) == {p \in DOMAIN elems[i].ins : elems[i].ins[p].conns # <<>>}
ByVariable(elems, i, p) == \A s \in Range(Sources(elems, i, p)) : FromVariable(elems[s.el])
ByPower(elems, i, p) == \A s \in Range(Sources(elems, i, p)) : ~FromVariable(elems[s.el])
PowerIns(elems, i) ==
    SelectSeq([p \in DOMAIN elems[i].ins |-> p],
              LAMBDA p : p \in PinsFed(elems, i) /\ elems[i].ins[p].expr = None /\ ByPower(elems, i, p))

OutFormals(elems, i) == [n \in DOMAIN elems[i].outs |-> elems[i].outs[n].formal]
Stores(elems, net, i, f) ==
    Readers(elems, net, i, f) # {} /\ \A w \in Readers(elems, net, i, f) : ToVariable(elems[w[1]])
Powers(elems, net, i, f) ==
    Readers(elems, net, i, f) # {} /\ \A w \in Readers(elems, net, i, f) : ~ToVariable(elems[w[1]])
PowerOuts(elems, net, i) == SelectSeq(OutFormals(elems, i), LAMBDA f : Powers(elems, net, i, f))

BlockDrawable(elems, net, i) ==
    LET e == elems[i] IN
    /\ \A p \in DOMAIN e.ins :
         /\ e.ins[p].edge = "none"
         /\ e.ins[p].expr # None => e.ins[p].conns = <<>>
         /\ p \in PinsFed(elems, i) => \/ ByPower(elems, i, p)
                                       \/ ByVariable(elems, i, p) /\ Len(e.ins[p].conns) = 1
    /\ \A f \in Range(OutFormals(elems, i)) :
         \/ Readers(elems, net, i, f) = {} \/ Powers(elems, net, i, f)
         \/ /\ Stores(elems, net, i, f) /\ Cardinality(Readers(elems, net, i, f)) = 1
            /\ \A w \in Readers(elems, net, i, f) : elems[w[1]].kind = "outVariable" /\ ~elems[w[1]].neg
    /\ \A f \in e.inouts : Readers(elems, net, i, f) = {}

(* An element other than a block takes power, a variable feeds blocks only.   *)
PowerFed(elems, i) ==
    /\ elems[i].ins[1].conns # <<>>
    /\ \A s \in Range(Sources(elems, i, 1)) :
         /\ ~FromVariable(elems[s.el])
         /\ elems[s.el].kind = "continuation" => ConnectorOf(elems, elems[s.el].name) # 0
Drawable(elems, net, i) ==
    LET e == elems[i] IN
    CASE e.kind \in {"contact", "coil", "jump", "return", "connector"} -> PowerFed(elems, i)
      [] e.kind = "block" -> BlockDrawable(elems, net, i)
      [] e.kind \in {"inVariable", "outVariable", "inOutVariable"} ->
            /\ ToVariable(e) => \A s \in Range(Sources(elems, i, 1)) : elems[s.el].kind = "block"
            /\ FromVariable(e) => \A w \in Readers(elems, net, i, "") : elems[w[1]].kind = "block"
      [] OTHER -> e.kind = "continuation"

-----------------------------------------------------------------------------
(* Wires and edges.  An input of several connections joins their ports.       *)
InPorts(elems, i, p) == {PortOf(elems, s) : s \in Range(Sources(elems, i, p))}
Fed(elems, i) == IF elems[i].kind = "block" THEN Range(PowerIns(elems, i))
                 ELSE IF elems[i].kind \in {"contact", "coil", "jump", "return", "connector"} THEN {1} ELSE {}
Joins(elems, net) ==
    {InPorts(elems, i, p) \union (IF elems[i].kind = "connector" THEN {<<i, "">>} ELSE {}) :
        <<i, p>> \in UNION {{<<i, p>> : p \in Fed(elems, i)} : i \in net}}
JoinAll(J, parts) ==
    LET met == {S \in parts : S \intersect J # {}} IN (parts \ met) \union {J \union UNION met}

IsEdge(e) == e.kind \in {"contact", "coil", "jump", "return", "block"}
FromPorts(elems, i) ==
    IF elems[i].kind = "block" /\ PowerIns(elems, i) = <<>> THEN {Rail}
    ELSE InPorts(elems, i, IF elems[i].kind = "block" THEN PowerIns(elems, i)[1] ELSE 1)
ToPort(elems, net, i) ==
    CASE elems[i].kind # "block" -> <<i, "">>
      [] OTHER -> IF PowerOuts(elems, net, i) = <<>> THEN <<i, "-">> ELSE <<i, PowerOuts(elems, net, i)[1]>>

RawEdges(elems, net) ==
    LET order == InPlace(Len(elems), {i \in net : IsEdge(elems[i])})
    IN [n \in DOMAIN order |-> [from |-> CHOOSE x \in FromPorts(elems, order[n]) : TRUE,
                                to |-> ToPort(elems, net, order[n]), t |-> [k |-> "leaf", i |-> order[n]]]]

(* The further power pins of blocks, each a path of its own.                  *)
InPath(elems, i, p) ==
    [key |-> <<i, elems[i].ins[p].formal>>, in |-> TRUE, at |-> CHOOSE x \in InPorts(elems, i, p) : TRUE]
OutPath(i, f) == [key |-> <<i, f>>, in |-> FALSE, at |-> <<i, f>>]
Further(s) == SubSeq(s, 2, Len(s))
InPaths(elems, i) == LET ps == Further(PowerIns(elems, i)) IN [n \in DOMAIN ps |-> InPath(elems, i, ps[n])]
OutPaths(elems, net, i) == LET fs == Further(PowerOuts(elems, net, i)) IN [n \in DOMAIN fs |-> OutPath(i, fs[n])]
PathsOf(elems, net, blocks) ==
    FoldLeft(LAMBDA acc, i : acc \o InPaths(elems, i), <<>>, blocks)
    \o FoldLeft(LAMBDA acc, i : acc \o OutPaths(elems, net, i), <<>>, blocks)
PinPaths(elems, net) == PathsOf(elems, net, InPlace(Len(elems), {i \in net : elems[i].kind = "block"}))

(* The wires: joined ports, and every end nothing reads joined to the end.    *)
Ports(raw, paths, joins) ==
    {Rail, OpenEnd} \union {raw[n].from : n \in DOMAIN raw} \union {raw[n].to : n \in DOMAIN raw}
    \union {paths[n].at : n \in DOMAIN paths} \union UNION joins
Open(raw, paths, S) ==
    /\ \E n \in DOMAIN raw : raw[n].to \in S
    /\ \A n \in DOMAIN raw : raw[n].from \notin S
    /\ \A n \in DOMAIN paths : paths[n].at \notin S
    /\ Rail \notin S
Closed(raw, paths, joined) == JoinAll({OpenEnd} \union UNION {S \in joined : Open(raw, paths, S)}, joined)
Wires(raw, paths, joins) ==
    Closed(raw, paths, FoldSet(JoinAll, {{x} : x \in Ports(raw, paths, joins)}, joins))

-----------------------------------------------------------------------------
(* Series and parallel reduction.  edges is a sequence; Stuck is no tree.     *)
Stuck == <<[from |-> {}, to |-> {}, t |-> None]>>

RECURSIVE TreeTop(_, _)
TreeTop(elems, t) == IF t.k = "leaf" THEN elems[t.i].y ELSE Min({TreeTop(elems, t.of[n]) : n \in DOMAIN t.of})

Flat(k, trees) == FoldLeft(LAMBDA acc, t : acc \o (IF t.k = k THEN t.of ELSE <<t>>), <<>>, trees)
Without(edges, S) == LET left == InPlace(Len(edges), DOMAIN edges \ S) IN [n \in DOMAIN left |-> edges[left[n]]]

(* Parallel legs, top to bottom.                                              *)
Above_Mut(elems, legs, a, b) == TreeTop(elems, legs[a]) > TreeTop(elems, legs[b])
Above(elems, legs, a, b) ==
    \/ TreeTop(elems, legs[a]) < TreeTop(elems, legs[b])
    \/ TreeTop(elems, legs[a]) = TreeTop(elems, legs[b]) /\ a < b

Parallel(elems, edges, S) ==
    LET legs == Flat("par", [n \in 1..Cardinality(S) |-> edges[InPlace(Len(edges), S)[n]].t])
        order == SortSeq([n \in DOMAIN legs |-> n], LAMBDA a, b : Above(elems, legs, a, b))
        tree == [k |-> "par", of |-> [n \in DOMAIN legs |-> legs[order[n]]]]
    IN Without([edges EXCEPT ![Min(S)].t = tree], S \ {Min(S)})

Series(edges, a, b) ==
    LET tree == [k |-> "ser", of |-> Flat("ser", <<edges[a].t, edges[b].t>>)]
    IN Without([edges EXCEPT ![a].t = tree, ![a].to = edges[b].to], {b})

Into(edges, n) == {k \in DOMAIN edges : edges[k].to = n}
OutOf(edges, n) == {k \in DOMAIN edges : edges[k].from = n}

RECURSIVE Shrink(_, _, _)
Shrink(elems, edges, terminals) ==
    LET same(k) == {j \in DOMAIN edges : edges[j].from = edges[k].from /\ edges[j].to = edges[k].to}
        double == {k \in DOMAIN edges : Cardinality(same(k)) > 1}
        inner == {edges[k].from : k \in DOMAIN edges} \ terminals
        through == {n \in inner : Cardinality(Into(edges, n)) = 1 /\ Cardinality(OutOf(edges, n)) = 1}
        n == CHOOSE n \in through : TRUE
    IN CASE (\E k \in DOMAIN edges : edges[k].from = edges[k].to) \/ (\E m \in inner : Into(edges, m) = {}) -> Stuck
         [] double # {} -> Shrink(elems, Parallel(elems, edges, same(Min(double))), terminals)
         [] double = {} /\ through # {} ->
                Shrink(elems, Series(edges, CHOOSE k \in Into(edges, n) : TRUE, CHOOSE k \in OutOf(edges, n) : TRUE), terminals)
         [] OTHER -> edges

(* Each path takes the one edge between its ends, the rung the last.          *)
Take(acc, want) ==
    LET found == {k \in DOMAIN acc.edges : acc.edges[k].from = want.from /\ acc.edges[k].to = want.to}
        k == Min(found)
    IN IF want.from = want.to THEN [acc EXCEPT !.trees = Append(@, [k |-> "ser", of |-> <<>>])]
       ELSE IF found = {} THEN [acc EXCEPT !.ok = FALSE]
       ELSE [acc EXCEPT !.trees = Append(@, acc.edges[k].t), !.edges = Without(@, {k})]

-----------------------------------------------------------------------------
(* The model of a reduced network.                                            *)
DataIn(elems, i, p) ==
    LET src == elems[Sources(elems, i, p)[1].el]
    IN IF elems[i].ins[p].expr # None THEN elems[i].ins[p].expr
       ELSE IF p \in PinsFed(elems, i) /\ ByVariable(elems, i, p)
       THEN (IF src.neg THEN NotE(src.expr) ELSE src.expr) ELSE None
DataOut(elems, net, i, f) ==
    IF Stores(elems, net, i, f) THEN elems[(CHOOSE w \in Readers(elems, net, i, f) : TRUE)[1]].expr ELSE None

NoRung == <<>>
RECURSIVE ElementsOf(_, _, _, _)
RungAt(elems, net, i, f, paths) ==
    IF <<i, f>> \in DOMAIN paths THEN <<ElementsOf(elems, net, paths[<<i, f>>], <<>>)>> ELSE NoRung
Leaf(elems, net, i, paths) ==
    LET e == elems[i]
        ins == [p \in DOMAIN e.ins |->
                  BlockPin(e.ins[p].formal, IF e.ins[p].formal \in e.inouts THEN "inout" ELSE "in",
                           DataIn(elems, i, p), e.ins[p].neg, RungAt(elems, net, i, e.ins[p].formal, paths))]
        outs == [n \in DOMAIN e.outs |->
                  BlockPin(e.outs[n].formal, "out", DataOut(elems, net, i, e.outs[n].formal), e.outs[n].neg,
                           RungAt(elems, net, i, e.outs[n].formal, paths))]
        pin == IF PowerIns(elems, i) = <<>> THEN "" ELSE e.ins[PowerIns(elems, i)[1]].formal
        pout == IF PowerOuts(elems, net, i) = <<>> THEN "" ELSE PowerOuts(elems, net, i)[1]
    IN CASE e.kind = "contact" -> Contact(e.id, e.expr, ContactKind(e))
         [] e.kind = "coil" -> Coil(e.id, e.expr, CoilKind(e))
         [] e.kind = "jump" -> Jump(e.id, e.name)
         [] e.kind = "return" -> Ret(e.id)
         [] e.kind = "block" -> BlockElement(e.id, e.name, e.inst, pin, pout, ins \o outs)

ElementsOf(elems, net, t, paths) ==
    CASE t.k = "leaf" -> <<Leaf(elems, net, t.i, paths)>>
      [] t.k = "par" -> <<Branch([n \in DOMAIN t.of |-> ElementsOf(elems, net, t.of[n], paths)])>>
      [] t.k = "ser" -> FoldLeft(LAMBDA acc, x : acc \o ElementsOf(elems, net, x, paths), <<>>, t.of)

(* A network whose joined ports are one: its edges, the ends that reduction  *)
(* keeps, and what each path and then the rung run between.                   *)
Ends(wires, raw, paths) ==
    LET at(x) == CHOOSE S \in wires : x \in S
        main == IF raw = <<>> THEN <<>> ELSE <<[from |-> at(Rail), to |-> at(OpenEnd)]>>
    IN [short |-> at(Rail) = at(OpenEnd),
        edges |-> <<>> \o [n \in DOMAIN raw |-> [from |-> at(raw[n].from), to |-> at(raw[n].to), t |-> raw[n].t]],
        terminals |-> {at(Rail), at(OpenEnd)} \union {at(paths[n].at) : n \in DOMAIN paths},
        wants |-> [n \in DOMAIN paths |-> IF paths[n].in THEN [from |-> at(Rail), to |-> at(paths[n].at)]
                                           ELSE [from |-> at(paths[n].at), to |-> at(OpenEnd)]] \o main]

(* A stuck reduction leaves an edge that nothing takes.                       *)
Taken(elems, ends) ==
    FoldLeft(Take, [ok |-> TRUE, edges |-> Shrink(elems, ends.edges, ends.terminals), trees |-> <<>>], ends.wants)

Rebuilt(elems, net, paths, ends, taken) ==
    IF (\E i \in net : ~Drawable(elems, net, i)) \/ ends.short \/ ~taken.ok \/ taken.edges # <<>>
    THEN [ok |-> FALSE, es |-> <<>>]
    ELSE [ok |-> TRUE,
          es |-> IF ends.edges = <<>> THEN <<>>
                 ELSE ElementsOf(elems, net, taken.trees[Len(taken.trees)],
                                 [f \in {paths[n].key : n \in DOMAIN paths} |->
                                      taken.trees[CHOOSE n \in DOMAIN paths : paths[n].key = f]])]

ReducedFrom(elems, net, paths, ends) == Rebuilt(elems, net, paths, ends, Taken(elems, ends))
ReducedAlong(elems, net, raw, paths) ==
    ReducedFrom(elems, net, paths, Ends(Wires(raw, paths, Joins(elems, net)), raw, paths))
Reduced(elems, net) == ReducedAlong(elems, net, RawEdges(elems, net), PinPaths(elems, net))

(* A rung takes the id of its left rail when no other rail feeds it.          *)
RailsOf(elems, net) ==
    {s.el : s \in {s \in UNION {Range(Sources(elems, i, p)) : <<i, p>> \in UNION {{<<i, p>> : p \in Fed(elems, i)} : i \in net}} :
                elems[s.el].kind = "leftPowerRail"}}
RungId(elems, net) == IF Cardinality(RailsOf(elems, net)) = 1 THEN elems[CHOOSE i \in RailsOf(elems, net) : TRUE].id ELSE 0

(* A graphical comment goes to the first rung at or below it, once.           *)
Commented(nodes, entries) ==
    LET comments == SelectSeq(nodes, LAMBDA n : n.tag = "comment" /\ n.name # "")
        under(c) == SelectInSeq(entries, LAMBDA e : e.y >= c.y)
    IN [k \in DOMAIN entries |-> LET n == SelectInSeq(comments, LAMBDA c : under(c) = k)
                                 IN IF n = 0 THEN "" ELSE comments[n].name]

(* In a box no label is known: a jump's number is 0.                          *)
NoLabels(g) == WithLabels(g, [l \in {e.name : e \in Range(g.elems)} |-> 0])
RungRead(id, e, es, extra) == [id |-> id, label |-> e.label, comment |-> "", es |-> es, extra |-> extra]
Boxed(e, low) == RungRead(0, e, <<Box(low.out)>>, low.extra)
DrawnOr(g, e, r) ==
    IF r.ok THEN RungRead(RungId(g.elems, e.net), e, r.es, <<>>) ELSE Boxed(e, LowerNetwork(NoLabels(g), Start, e.net))
ReadRung(g, e) == IF e.net = {} THEN RungRead(0, e, <<>>, <<>>) ELSE DrawnOr(g, e, Reduced(g.elems, e.net))

Model(read, texts) ==
    [rungs |-> [k \in DOMAIN read |-> [id |-> read[k].id, label |-> read[k].label, comment |-> texts[k], es |-> read[k].es]],
     extra |-> UNION {Range(read[k].extra) : k \in DOMAIN read}]
ReadEntries(g, nodes, entries) ==
    Model(<<>> \o [k \in DOMAIN entries |-> ReadRung(g, entries[k])], Commented(nodes, entries))
ReadLd(g, nodes, nets) == ReadEntries(g, nodes, <<>> \o Labelled(g.elems, nets))

(* A function block diagram is one box of all its text.                       *)
ReadFbd(code) ==
    [rungs |-> <<[id |-> 0, label |-> "", comment |-> "", es |-> <<Box(code.body)>>]>>, extra |-> Range(code.extra)]

-----------------------------------------------------------------------------
(* Writing: every rung is a band of rows below the last one; series run to    *)
(* the right, legs and pin paths downward.  w holds the nodes so far, the     *)
(* next free id and the next free row; cont are the outputs the series goes   *)
(* on from and ends those that go to the right rail.                          *)
RowHeight == 40
ColumnWidth == 90
Gap == 30
Left == 20

InPins(b) == SelectSeq(b.pins, LAMBDA p : p.dir # "out")
OutPins(b) == SelectSeq(b.pins, LAMBDA p : p.dir = "out")

RECURSIVE Rows(_), Columns(_)
ElementRows(e) ==
    CASE e.k = "block" -> (20 + 20 * Max({Len(InPins(e)), Len(OutPins(e))}) + RowHeight - 1) \div RowHeight
      [] e.k = "branch" -> FoldLeft(LAMBDA n, leg : n + Rows(leg), 0, e.legs)
      [] OTHER -> 1
ElementColumns(e) ==
    CASE e.k = "block" -> 2
      [] e.k = "branch" -> Max({1} \union {Columns(e.legs[n]) : n \in DOMAIN e.legs})
      [] OTHER -> 1
Rows(es) == Max({1} \union {ElementRows(es[n]) : n \in DOMAIN es})
Columns(es) == FoldLeft(LAMBDA n, e : n + ElementColumns(e), 0, es)

-----------------------------------------------------------------------------
Port(id, formal) == [ref |-> id, formal |-> formal]
Wired(cont) == <<PinIn("", cont)>>
Write(w, node) == [w EXCEPT !.body = Append(@, node)]
FreshId(w) == [w EXCEPT !.next = @ + 1]
On(w, cont, ends) == [w EXCEPT !.cont = cont, !.ends = ends]
At(tag, id, x, y) == [Node(tag, id) EXCEPT !.x = x, !.y = y]

ContactNode(e, ins, x, y) ==
    [At("contact", e.id, x, y) EXCEPT !.expr = e.e, !.ins = Wired(ins), !.neg = e.kind = "nc",
        !.edge = IF e.kind \in {"rising", "falling"} THEN e.kind ELSE "none"]
CoilNode(e, ins, x, y) ==
    [At("coil", e.id, x, y) EXCEPT !.expr = e.e, !.ins = Wired(ins), !.neg = e.kind = "negated",
        !.edge = IF e.kind \in {"rising", "falling"} THEN e.kind ELSE "none",
        !.storage = IF e.kind \in {"set", "reset"} THEN e.kind ELSE "none"]

RECURSIVE WriteSeries(_, _, _, _, _), WriteElement(_, _, _, _, _)

(* The power pin's height in the block decides where the block is drawn.      *)
BlockTop(b, y) ==
    LET ins == InPins(b)
        at == SelectInSeq(ins, LAMBDA p : b.pin # "" /\ p.formal = b.pin)
        row == IF at = 0 THEN 0 ELSE at - 1
    IN Max({y + 10 - (30 + 20 * row), y - 20})

(* An input is fed by the power, its own path from the rail, or a variable.   *)
GiveInput(acc, p, w, conns) ==
    [w |-> w, pins |-> Append(acc.pins, [dir |-> p.dir, pin |-> [PinIn(p.formal, conns) EXCEPT !.neg = p.neg]])]
GivePath(acc, p, path) == GiveInput(acc, p, path, path.cont)
GiveVariable(acc, p, w, x, y) ==
    GiveInput(acc, p, Write(w, [At("inVariable", w.next, x, y) EXCEPT !.expr = p.e]), <<Port(w.next, "")>>)
PathInto(w, es) ==
    WriteSeries([w EXCEPT !.row = @ + Rows(es) * RowHeight], es, <<Port(w.rail, "")>>, Left + 40, w.row)
WriteInput(b, ins, x, y, acc, p) ==
    CASE b.pin # "" /\ p.formal = b.pin -> GiveInput(acc, p, acc.w, ins)
      [] p.formal # b.pin /\ p.rung # NoRung -> GivePath(acc, p, PathInto(acc.w, p.rung[1]))
      [] p.formal # b.pin /\ p.rung = NoRung /\ p.e # None ->
            GiveVariable(acc, p, FreshId(acc.w), x - 80, BlockTop(b, y) + 20 + 20 * Len(acc.pins))
      [] OTHER -> GiveInput(acc, p, acc.w, <<>>)

GiveOutput(b, acc, p, w, ends) ==
    [w |-> w, n |-> acc.n + 1, ends |-> acc.ends \o ends,
     cont |-> IF p.formal = b.pout THEN Append(acc.cont, Port(b.id, p.formal)) ELSE acc.cont]
GiveRung(b, acc, p, path) == GiveOutput(b, acc, p, path, path.ends)
RungFrom(b, acc, p, x, w) ==
    IF p.rung = NoRung THEN GiveOutput(b, acc, p, w, <<>>)
    ELSE GiveRung(b, acc, p, WriteSeries([w EXCEPT !.row = @ + Rows(p.rung[1]) * RowHeight], p.rung[1],
                                         <<Port(b.id, p.formal)>>, x + 140, w.row))
StoreOut(w, b, p, x, y) ==
    Write(w, [At("outVariable", w.next, x, y) EXCEPT !.expr = p.e, !.ins = Wired(<<Port(b.id, p.formal)>>)])
WriteOutput(b, x, y, acc, p) ==
    RungFrom(b, acc, p, x, IF p.e = None THEN acc.w
                           ELSE StoreOut(FreshId(acc.w), b, p, x + 130, BlockTop(b, y) + 20 + 20 * acc.n))

PinsOf(pins, inout) ==
    LET S == SelectSeq(pins, LAMBDA r : (r.dir = "inout") = inout) IN [n \in DOMAIN S |-> S[n].pin]
BlockNode(b, pins, x, y) ==
    [At("block", b.id, x, BlockTop(b, y)) EXCEPT
        !.name = b.name, !.inst = b.inst, !.ins = PinsOf(pins, FALSE), !.inouts = PinsOf(pins, TRUE),
        !.outs = [n \in DOMAIN OutPins(b) |-> [formal |-> OutPins(b)[n].formal, neg |-> OutPins(b)[n].neg]]]
AfterOutputs(b, pins, ins, x, y, read) ==
    On(Write(read.w, BlockNode(b, pins, x, y)), IF b.pout = "" THEN ins ELSE read.cont, read.ends)
AfterInputs(b, ins, x, y, fed) ==
    AfterOutputs(b, fed.pins, ins, x, y,
        FoldLeft(LAMBDA acc, p : WriteOutput(b, x, y, acc, p),
                 [w |-> fed.w, n |-> 0, ends |-> <<>>, cont |-> <<>>], OutPins(b)))
WriteBlock(w, b, ins, x, y) ==
    AfterInputs(b, ins, x, y,
        FoldLeft(LAMBDA acc, p : WriteInput(b, ins, x, y, acc, p), [w |-> w, pins |-> <<>>], InPins(b)))

(* Every leg begins where the branch does; an empty one passes the power on.  *)
AddLeg(acc, es, t) == [w |-> t, outs |-> acc.outs \o t.cont, y |-> acc.y + Rows(es) * RowHeight]
AddLegs(all) == On(all.w, all.outs, <<>>)
WriteBranch(w, b, ins, x, y) ==
    AddLegs(FoldLeft(LAMBDA acc, es :
                         IF es = <<>> THEN [acc EXCEPT !.outs = @ \o ins, !.y = @ + RowHeight]
                         ELSE AddLeg(acc, es, WriteSeries(acc.w, es, ins, x, acc.y)),
                     [w |-> w, outs |-> <<>>, y |-> y], b.legs))

WriteElement(w, e, ins, x, y) ==
    CASE e.k = "contact" -> On(Write(w, ContactNode(e, ins, x, y)), <<Port(e.id, "")>>, <<>>)
      [] e.k = "coil" -> On(Write(w, CoilNode(e, ins, x, y)), <<Port(e.id, "")>>, <<>>)
      [] e.k = "jump" -> On(Write(w, [At("jump", e.id, x, y) EXCEPT !.name = e.label, !.ins = Wired(ins)]), <<>>, <<>>)
      [] e.k = "return" -> On(Write(w, [At("return", e.id, x, y) EXCEPT !.ins = Wired(ins)]), <<>>, <<>>)
      [] e.k = "branch" -> WriteBranch(w, e, ins, x, y)
      [] e.k = "block" -> WriteBlock(w, e, ins, x + 10, y)

AfterElement(acc, e, t) ==
    [w |-> [t EXCEPT !.ends = acc.w.ends \o t.ends], x |-> acc.x + ElementColumns(e) * ColumnWidth]
EndSeries(w) == [w EXCEPT !.ends = w.ends \o w.cont]
WriteSeries(w, es, ins, x, y) ==
    EndSeries(FoldLeft(LAMBDA acc, e : AfterElement(acc, e, WriteElement(acc.w, e, acc.w.cont, acc.x, y)),
                       [w |-> On(w, ins, <<>>), x |-> x], es).w)

(* A rung: its comment, its label, the left rail, its elements, the right     *)
(* rail.  A label alone has no rails.                                         *)
Commenting(w, comment) ==
    [Write(w, [At("comment", w.next, Left, w.top) EXCEPT !.name = comment]) EXCEPT !.top = @ + 36]
Labelling(w, label) == Write(w, [At("label", w.next, Left - 15, w.top) EXCEPT !.name = label])
CloseRung(w, g, r) ==
    [Write(r, [At("rightPowerRail", r.next, Left + 60 + Columns(g.es) * ColumnWidth, w.top) EXCEPT
                  !.ins = [n \in DOMAIN r.ends |-> PinIn("", <<r.ends[n]>>)]])
     EXCEPT !.top = Max({r.row, w.top + Rows(g.es) * RowHeight}) + Gap]
OpenRung(w, g) ==
    CloseRung(w, g, FreshId(WriteSeries(
        Write([w EXCEPT !.row = w.top + Rows(g.es) * RowHeight], At("leftPowerRail", w.rail, Left, w.top)),
        g.es, <<Port(w.rail, "")>>, Left + 40, w.top)))
RailRung(w, g) ==
    IF g.label # "" /\ g.es = <<>> THEN [w EXCEPT !.top = w.top + 20 + Gap]
    ELSE OpenRung(IF g.id > 0 THEN [w EXCEPT !.rail = g.id] ELSE [FreshId(w) EXCEPT !.rail = w.next + 1], g)
LabelRung(w, g) == RailRung(IF g.label = "" THEN w ELSE Labelling(FreshId(w), g.label), g)
WriteRung(w, g) == LabelRung(IF g.comment = "" THEN w ELSE Commenting(FreshId(w), g.comment), g)

(* Ids the model does not use begin after its largest.                        *)
WriteLd(rungs, largest) ==
    FoldLeft(WriteRung, [body |-> <<>>, next |-> largest, rail |-> 0, row |-> 0, top |-> 20, cont |-> <<>>, ends |-> <<>>], rungs).body
=============================================================================
