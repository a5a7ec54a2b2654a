----------------------------- MODULE MCPlcOpen -----------------------------
(* Bodies for PlcOpenFlow: every rung of two contacts and a coil in every     *)
(* modifier, and drawings in which branches, blocks, feedback, enables,       *)
(* connectors, execution orders and jumps meet.                               *)
EXTENDS PlcOpenLadder

LOCAL INSTANCE SequencesExt

From(ids) == <<PinIn("", [n \in DOMAIN ids |-> Wire(ids[n])])>>
DrawRail(id) == Node("leftPowerRail", id)
DrawContact(id, v, ids) == [Node("contact", id) EXCEPT !.expr = Ref(v), !.ins = From(ids)]
DrawCoil(id, v, ids) == [Node("coil", id) EXCEPT !.expr = Ref(v), !.ins = From(ids)]
InVar(id, e) == [Node("inVariable", id) EXCEPT !.expr = e]
OutVar(id, v, ids) == [Node("outVariable", id) EXCEPT !.expr = Ref(v), !.ins = From(ids)]
InOutVar(id, v, ids) == [OutVar(id, v, ids) EXCEPT !.tag = "inOutVariable"]
Named(tag, id, name, ids) == [Node(tag, id) EXCEPT !.name = name, !.ins = From(ids)]
DrawBlock(id, type, inst, ins, outs) ==
    [Node("block", id) EXCEPT !.name = type, !.inst = inst, !.ins = ins,
                              !.outs = [n \in DOMAIN outs |-> [formal |-> outs[n], neg |-> FALSE]]]
Pin(formal, ids) == [From(ids)[1] EXCEPT !.formal = formal]
PinOfOutput(formal, id, output) == [Pin(formal, <<id>>) EXCEPT !.conns[1].formal = output]

Bools(S) == [v \in S |-> "BOOL"]
Program(nodes, variables) ==
    [nodes |-> nodes, model |-> <<>>, vars |-> variables, ld |-> \E n \in DOMAIN nodes : nodes[n].tag = "leftPowerRail"]
AB == Bools({"a", "b", "q"})
ABZ == Bools({"a", "b", "q", "z"})

-----------------------------------------------------------------------------
ContactForms == {[neg |-> FALSE, edge |-> "none"], [neg |-> TRUE, edge |-> "none"],
                 [neg |-> FALSE, edge |-> "rising"], [neg |-> FALSE, edge |-> "falling"]}
CoilForms == {c \in [neg : BOOLEAN, edge : Edges, storage : Storages] : c.edge = "none" \/ c.storage = "none"}
Form(n, f) == [x \in DOMAIN n |-> IF x \in DOMAIN f THEN f[x] ELSE n[x]]

Drawn(f1, f2, f3) ==
    Program(<<DrawRail(1), Form(DrawContact(2, "a", <<1>>), f1), Form(DrawContact(3, "b", <<2>>), f2),
              Form(DrawCoil(4, "q", <<3>>), f3)>>, AB)

-----------------------------------------------------------------------------
(* Power that two branches read while a coil between them writes the contact. *)
Branching(f) ==
    Program(<<DrawRail(1), Form(DrawContact(2, "a", <<1>>), f), DrawCoil(3, "a", <<2>>), DrawContact(4, "b", <<2>>),
              [DrawCoil(5, "q", <<4>>) EXCEPT !.neg = TRUE], DrawCoil(6, "z", <<2, 4>>)>>, ABZ)
CoilChain ==
    Program(<<DrawRail(1), DrawContact(2, "a", <<1>>), [DrawCoil(3, "b", <<2>>) EXCEPT !.storage = "set"],
              DrawCoil(4, "q", <<3>>), DrawCoil(5, "z", <<3>>), Node("rightPowerRail", 6),
              Node("comment", 7)>>, ABZ)
Connectors ==
    Program(<<DrawRail(1), DrawContact(2, "a", <<1>>), Named("connector", 3, "c", <<2>>), Named("continuation", 4, "c", <<>>),
              DrawContact(5, "b", <<4>>), DrawCoil(6, "q", <<5, 2>>), DrawCoil(7, "z", <<5>>)>>, ABZ)

(* A counter that resets itself through its own output, and its ENO.          *)
Feedback ==
    Program(<<InVar(1, Ref("a")),
              DrawBlock(2, "CTR", "c1", <<Pin("CU", <<1>>), PinOfOutput("R", 2, "Q")>>, <<"Q", "CV">>),
              [OutVar(3, "q", <<2>>) EXCEPT !.neg = TRUE],
              [OutVar(4, "n", <<2>>) EXCEPT !.ins[1].conns[1].formal = "CV"]>>, AB @@ [n |-> "INT", c1 |-> "CTR"])
Enables ==
    Program(<<DrawRail(1), DrawContact(2, "a", <<1>>),
              DrawBlock(3, "CTR", "c1", <<Pin("EN", <<2>>), Pin("CU", <<1>>)>>, <<"ENO", "Q">>),
              [DrawCoil(4, "a", <<3>>) EXCEPT !.ins[1].conns[1].formal = "ENO", !.neg = TRUE],
              [DrawCoil(5, "q", <<3>>) EXCEPT !.ins[1].conns[1].formal = "ENO"],
              DrawCoil(6, "z", <<3>>)>>, ABZ)
PinEdges ==
    Program(<<InVar(1, Ref("a")), InVar(2, Ref("b")),
              DrawBlock(3, "CTR", "c1", <<[Pin("CU", <<1>>) EXCEPT !.edge = "rising"],
                                      [Pin("R", <<2>>) EXCEPT !.neg = TRUE, !.edge = "falling"]>>, <<"Q", "CV">>),
              DrawBlock(4, "CTR", "c2", <<PinOfOutput("CU", 3, "Q")>>, <<"Q", "CV">>),
              OutVar(5, "q", <<4>>), OutVar(6, "z", <<3>>)>>, ABZ)
(* Two blocks that feed each other.                                           *)
Ring ==
    Program(<<DrawBlock(1, "CTR", "c1", <<Pin("CU", <<4>>), PinOfOutput("R", 2, "Q")>>, <<"Q">>),
              DrawBlock(2, "CTR", "c2", <<PinOfOutput("CU", 1, "Q")>>, <<"Q">>),
              OutVar(3, "q", <<2>>), InVar(4, Ref("a"))>>, AB)

(* Functions: operators, a chained comparison, calls by position and by name, *)
(* an enable that keeps the output, a call made for its effect.               *)
Functions ==
    Program(<<InVar(1, Ref("m")), InVar(2, Ref("n")), InVar(3, Num(1)),
              DrawBlock(4, "ADD", "", <<Pin("IN1", <<1>>), Pin("IN2", <<2>>), Pin("IN3", <<3>>)>>, <<"OUT">>),
              OutVar(5, "n", <<4>>),
              DrawBlock(6, "LE", "", <<Pin("IN1", <<1>>), Pin("IN2", <<2>>), Pin("IN3", <<3>>)>>, <<"OUT">>),
              [OutVar(7, "q", <<6>>) EXCEPT !.neg = TRUE]>>, AB @@ [m |-> "INT", n |-> "INT"])
Select(named) ==
    Program(<<InVar(1, Ref("n")), InVar(2, Num(2)), InVar(3, Ref("a")), [InVar(10, Ref("b")) EXCEPT !.neg = TRUE],
              DrawBlock(4, "SEL", "", (IF named THEN <<Pin("G", <<3>>), Pin("IN0", <<>>)>>
                                   ELSE <<Pin("G", <<3>>), Pin("IN0", <<1>>)>>) \o <<Pin("IN1", <<2>>)>>, <<"OUT">>),
              DrawBlock(5, "MOVE", "", <<Pin("EN", <<10>>), Pin("IN", <<4>>)>>, <<"ENO", "OUT">>),
              OutVar(6, "n", <<5>>), DrawBlock(7, "NOTE", "", <<Pin("EN", <<3>>), Pin("N", <<2>>)>>, <<>>)>>,
            AB @@ [n |-> "INT", notes |-> "INT"])
InOut ==
    Program(<<InVar(1, Ref("a")), InOutVar(2, "b", <<1>>), DrawContact(3, "b", <<2>>), DrawCoil(4, "q", <<3>>)>>, AB)

(* Execution orders against the positions, within a network and between two.  *)
Ordered ==
    Program(<<DrawRail(1), DrawContact(2, "a", <<1>>), [DrawCoil(3, "q", <<2>>) EXCEPT !.eo = 2], [DrawCoil(4, "a", <<2>>) EXCEPT !.eo = 1,
              !.neg = TRUE], DrawRail(5), DrawContact(6, "q", <<5>>), [DrawCoil(7, "z", <<6>>) EXCEPT !.eo = 1]>>, ABZ)
(* Two networks at one place: either may run first.                           *)
Unordered ==
    Program(<<[DrawRail(1) EXCEPT !.y = 1], [DrawCoil(2, "q", <<1>>) EXCEPT !.y = 1, !.neg = TRUE],
              [InVar(3, Ref("q")) EXCEPT !.y = 1], [OutVar(4, "z", <<3>>) EXCEPT !.y = 1]>>, ABZ)

JumpForward ==
    Program(<<DrawRail(1), DrawContact(2, "a", <<1>>), Named("jump", 3, "l", <<2>>), DrawCoil(4, "z", <<2>>),
              DrawRail(5), DrawContact(6, "b", <<5>>), DrawCoil(7, "q", <<6>>), DrawBlock(9, "CTR", "c1", <<Pin("CU", <<6>>)>>, <<"Q">>),
              Named("label", 10, "l", <<>>), DrawRail(11), [DrawContact(12, "b", <<11>>) EXCEPT !.edge = "rising"],
              Named("return", 13, "", <<12>>), DrawCoil(14, "z", <<11>>)>>, ABZ)
JumpBackward ==
    Program(<<Named("label", 1, "k", <<>>), InVar(2, Ref("a")), DrawBlock(3, "CTR", "c1", <<Pin("CU", <<2>>)>>, <<"Q">>),
              [OutVar(4, "q", <<3>>) EXCEPT !.neg = TRUE], DrawRail(5), DrawContact(6, "q", <<5>>), DrawContact(7, "a", <<6>>),
              Named("jump", 8, "k", <<7>>), [DrawContact(9, "b", <<6>>) EXCEPT !.edge = "falling"], Named("jump", 10, "l", <<9>>),
              DrawRail(11), DrawCoil(12, "z", <<11>>), Named("label", 13, "l", <<>>)>>, ABZ)

-----------------------------------------------------------------------------
(* Models to write: a front of contacts, branches or a block, what it powers, *)
(* and a rung to jump to.  Every rung has an id, the label alone has none.    *)
Con(id, v, kind) == Contact(id, Ref(v), kind)
Counter(id, pin, pout, reset) ==
    BlockElement(id, "CTR", "c1", pin, pout,
        <<BlockPin("EN", "in", None, FALSE, NoRung)>> \o
        <<BlockPin("CU", "in", IF pin = "CU" THEN None ELSE Ref("b"), FALSE, NoRung), reset,
          BlockPin("ENO", "out", None, FALSE, NoRung), BlockPin("Q", "out", None, TRUE, NoRung),
          BlockPin("CV", "out", Ref("n"), FALSE, NoRung)>>)
Reset(e, rung) == BlockPin("R", "in", e, TRUE, rung)
Fronts ==
    {<<Con(2, "a", "no")>>, <<Con(2, "a", "nc"), Con(3, "b", "rising")>>,
     <<Branch(<<<<Con(2, "a", "no")>>, <<Con(3, "b", "falling")>>>>)>>,
     <<Branch(<<<<Con(2, "a", "no"), Branch(<<<<Con(3, "b", "no")>>, <<Con(4, "q", "no")>>>>)>>, <<Con(5, "z", "no")>>>>),
       Con(6, "b", "nc")>>,
     <<Con(2, "a", "no"), Counter(3, "CU", "Q", Reset(Ref("b"), NoRung))>>,
     <<Counter(3, "CU", "Q", Reset(None, <<<<Con(4, "b", "rising"), Con(5, "a", "no")>>>>))>>,
     <<Con(2, "b", "nc"), Counter(3, "EN", "ENO", Reset(Ref("a"), NoRung)), Con(6, "q", "no")>>,
     <<Branch(<<<<Con(2, "a", "no")>>, <<Counter(3, "EN", "Q", Reset(Ref("a"), NoRung))>>>>)>>}
Out(id, v, kind) == Coil(id, Ref(v), kind)
Backs ==
    {<<Out(10, "q", "normal")>>, <<Out(10, "q", "set"), Out(11, "z", "negated")>>, <<Jump(10, "l")>>, <<Ret(10)>>,
     <<Branch(<<<<Out(10, "q", "rising")>>, <<Con(11, "b", "no"), Out(12, "z", "normal")>>, <<Out(13, "a", "reset")>>>>)>>}
Rung(id, label, comment, es) == [id |-> id, label |-> label, comment |-> comment, es |-> es]
Modelled(written) == [nodes |-> <<>>, ld |-> TRUE, vars |-> ABZ @@ [n |-> "INT"], model |-> written]
LastRung(label) == Rung(31, label, "", <<Con(20, "q", "rising"), Out(21, "z", "set")>>)
TwoRungs(front, back, label, comment) ==
    Modelled(<<Rung(30, label, comment, front \o back)>>
             \o IF back = <<Jump(10, "l")>> THEN <<LastRung("l"), Rung(0, "m", "", <<>>)>> ELSE <<LastRung("")>>)
HasBlock(es) == \E n \in DOMAIN es : es[n].k = "block" \/ (es[n].k = "branch" /\ \E l \in DOMAIN es[n].legs : es[n].legs[l][1].k = "block")
Written == {w \in Fronts \X Backs : HasBlock(w[1]) => w[2] # <<Ret(10)>>}
LabelsOf(front, back) == IF HasBlock(front) \/ back # <<Jump(10, "l")>> THEN {""} ELSE {"", "k"}

-----------------------------------------------------------------------------
Drawings == <<CoilChain, Connectors, Feedback, Enables, PinEdges, Ring, Functions, Select(TRUE), Select(FALSE),
              InOut, Ordered, Unordered, JumpForward, JumpBackward>>
BodyNames == {<<n>> : n \in DOMAIN Drawings} \union {<<"branch", f>> : f \in ContactForms}
         \union (ContactForms \X ContactForms \X CoilForms)
         \union UNION {{f} \X {b} \X LabelsOf(f, b) \X {"", "remark"} : <<f, b>> \in Written}
MCBodies == [k \in BodyNames |-> CASE Len(k) = 1 -> Drawings[k[1]]
                               [] Len(k) = 2 -> Branching(k[2])
                               [] Len(k) = 3 -> Drawn(k[1], k[2], k[3])
                               [] OTHER -> TwoRungs(k[1], k[2], k[3], k[4])]

=============================================================================
