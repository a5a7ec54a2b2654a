--------------------------- MODULE LadderTranslate ---------------------------
(* plcc-ladder/src/translate.rs: IEC ladder as Logix ladder and back, element *)
(* by element.  What a dialect cannot draw in place becomes helper rungs      *)
(* before or after the rung, and a rung is split where it goes on from a      *)
(* timer's or counter's output.  Notes, warnings, declarations and the types  *)
(* of tags are left out; a preset is a constant.                              *)
EXTENDS LogixRungs

CONSTANT Subroutine                    \* what a JSR runs

TimerTypes == {"TON", "TOF", "RTO"}
(* a translated rung: out is the rung, bef and aft the helper rungs, cut the  *)
(* rung to insert where it is split (<<<<>>>>: none, just split)              *)
Around(out, t) == [t EXCEPT !.out = out]
Add(t, el) == [t EXCEPT !.out = Append(@, el)]
Before(t, es) == [t EXCEPT !.bef = Append(@, es)]
After(t, es) == [t EXCEPT !.aft = Append(@, es)]
Nothing == [out |-> <<>>, bef |-> <<>>, aft |-> <<>>, cut |-> <<>>]
Translated(g, t) ==
    LET all == t.bef \o <<t.out>> \o t.aft
    IN [j \in DOMAIN all |-> Rung(IF j = 1 THEN g.label ELSE "", all[j])]

PinsOf(b, n) == SelectSeq(b.pins, LAMBDA pin : pin.n = n)
Data(b, n) == LET ps == PinsOf(b, n) IN IF ps = <<>> THEN <<>> ELSE ps[1].v
No(o) == Contact(0, o, "no")
Ote(x) == Coil(0, x, "normal")

(***************************************************************************)
(* IEC to Logix.                                                           *)
(***************************************************************************)
LogixMember(ty, m) == CASE m = "Q" /\ ty \in TimerTypes \cup {"CTU"} -> "DN" [] m \in {"ET", "CV"} -> "ACC" [] OTHER -> m
OpToLogix(e) == IF e.k = "mem" THEN Id(Member(e.x, LogixMember(Types[e.x], e.m))) ELSE e

RECURSIVE SeriesToLogix(_, _, _)
(* what feeds a pin, as the start of a rung *)
Path(b, n, d, t) ==
    LET ps == PinsOf(b, n)
    IN CASE ps # <<>> /\ ps[1].r # <<>> -> SeriesToLogix(ps[1].r[1], d + 1, Around(<<>>, t))
         [] ps # <<>> /\ ps[1].r = <<>> /\ ps[1].v # <<>> -> Around(<<No(OpToLogix(ps[1].v[1]))>>, t)
         [] OTHER -> Around(<<>>, t)
Clear(c) == Branch(0, <<<<Ins("CLR", <<Id(Member(c, "ACC"))>>)>>, <<Coil(0, Member(c, "DN"), "reset")>>,
                        <<Coil(0, Member(c, "OV"), "reset")>>, <<Coil(0, Member(c, "UN"), "reset")>>>>)
ResetPin(b) == CASE b.name \in {"RTO", "CTU"} -> "R" [] b.name = "CTD" -> "LD" [] OTHER -> "none"
ResetBy(b) == CASE b.name = "RTO" -> Ins("RES_TIMER", <<Id(b.inst)>>)
                [] b.name = "CTU" -> Clear(b.inst)
                [] b.name = "CTD" -> Ins("MOV", <<Id(Member(b.inst, "PRE")), Id(Member(b.inst, "ACC"))>>)
(* the outputs the rest of the rung may start from when the rung is FALSE *)
Splits(b, d) == d = 1 /\ b.pout = "Q" /\ b.name # "TON"
CopyOut(b, t, pin) ==
    LET m == Id(Member(b.inst, LogixMember(b.name, pin.n)))
        known == pin.n \in {"ET", "CV"} \/ (pin.n = "Q" /\ b.name # "CTD")
        copied == IF ~known \/ pin.v = <<>> THEN t
                  ELSE After(t, IF pin.n = "Q" THEN <<No(m), Ote(pin.v[1].x)>> ELSE <<Ins("MOV", <<m, pin.v[1]>>)>>)
    IN IF known /\ b.pout = pin.n THEN Add(copied, No(m)) ELSE copied
(* a timer or counter: its reset, its instruction, and the rung from its     *)
(* output; one the power does not drive (gated) has its own path, in a leg    *)
EdgePin(b) == PinIns[IF b.name = "RTO" THEN "TON" ELSE b.name][1]
Gated(b) == b.pin # EdgePin(b)
CutFor(t, reset, split) == IF split THEN [t EXCEPT !.cut = <<reset>>] ELSE IF reset = <<>> THEN t ELSE Before(t, reset)
WithReset(b, t, r, split) ==
    CutFor(Around(t.out, r), IF r.out = <<>> THEN <<>> ELSE Append(r.out, ResetBy(b)), split)

Preset(b) == Data(b, IF b.name \in TimerTypes THEN "PT" ELSE "PV")[1]
Ran(b, t) == FoldLeft(LAMBDA acc, pin : CopyOut(b, acc, pin), Add(t, Ins(b.name, <<Id(b.inst), Preset(b), Lit(0)>>)), Outputs(b))
CountedDown(b, t) ==
    IF b.name = "CTD" /\ b.pout = "Q" THEN Add(t, Ins("LEQ", <<Id(Member(b.inst, "ACC")), Lit(0)>>)) ELSE t
Leg(out, t, tail) == Around(out \o <<Branch(0, <<SubSeq(t.out, 1, Len(t.out) - Len(tail)), <<>>>>)>> \o tail, t)
InLeg(b, out, t) == Leg(out, t, IF b.pout \in {"", "ENO"} THEN <<>> ELSE <<Last(t.out)>>)
Driving(b, d, t) ==
    IF Gated(b) THEN InLeg(b, t.out, CountedDown(b, Ran(b, Path(b, EdgePin(b), d, t)))) ELSE CountedDown(b, Ran(b, t))
InstanceToLogix(b, d, t) ==
    Driving(b, d, WithReset(b, t, Path(b, ResetPin(b), d, t), ~Gated(b) /\ Splits(b, d)))
CompareIns == [GT |-> "GRT", GE |-> "GEQ", EQ |-> "EQU", LE |-> "LEQ", LT |-> "LES", NE |-> "NEQ"]
FunctionToLogix(b) ==
    LET ins == SelectSeq(b.pins, LAMBDA pin : pin.dir = "in" /\ pin.n # "EN")
        vals == [j \in DOMAIN ins |-> OpToLogix(ins[j].v[1])]
        dest == Data(b, "OUT")
    IN CASE b.name \in DOMAIN CompareIns /\ (dest # <<>> \/ b.pout # "OUT") -> StBox(<<>>)
         [] b.name \in DOMAIN CompareIns /\ dest = <<>> /\ b.pout = "OUT" -> Ins(CompareIns[b.name], vals)
         [] b.name \notin DOMAIN CompareIns /\ dest = <<>> -> StBox(<<>>)
         [] b.name = "MOVE" /\ dest # <<>> -> Ins("MOV", vals \o dest)
         [] OTHER -> IF Len(vals) = 2 THEN Ins(b.name, vals \o dest)
                     ELSE Ins("CPT", dest \o <<FoldLeft(LAMBDA l, r : Bin(b.name, l, r), Head(vals), Tail(vals))>>)
BlockToLogix(b, d, t) ==
    CASE b.inst # "" /\ b.name \in TimerTypes \cup {"CTU", "CTD"} -> InstanceToLogix(b, d, t)
      [] b.inst # "" /\ b.name = "R_TRIG" /\ b.pin = "CLK" -> Add(t, Ins("ONS", <<Id(b.inst \o "_sb")>>))
      [] b.inst = "" -> Add(t, FunctionToLogix(b))
      [] OTHER -> Add(t, StBox(<<>>))

AddedLeg(acc, t, l) == [legs |-> Append(acc.legs, l.out), t |-> Around(t.out, l)]
Branched(id, r) == Add(r.t, Branch(id, r.legs))
EdgeIns(kind) == IF kind = "rising" THEN "OSR" ELSE "OSF"
ElementToLogix(el, d, t) ==
    LET n == ToString(el.id)
        op == OpToLogix(el.o)
    IN CASE el.k = "contact" /\ el.kind \in {"no", "nc"} -> Add(t, Contact(0, op, el.kind))
         [] el.k = "contact" /\ el.kind \notin {"no", "nc"} ->
               Add(Before(t, <<No(op), Ins(EdgeIns(el.kind), <<Id("edge_sb" \o n), Id("edge" \o n)>>)>>), No(Id("edge" \o n)))
         [] el.k = "coil" /\ el.kind \in {"normal", "set", "reset"} -> Add(t, el)
         [] el.k = "coil" /\ el.kind = "negated" ->
               Add(After(t, <<Contact(0, Id("neg" \o n), "nc"), Ote(el.x)>>), Ote("neg" \o n))
         [] el.k = "coil" /\ el.kind \in {"rising", "falling"} -> Add(t, Ins(EdgeIns(el.kind), <<Id("coil_sb" \o n), Id(el.x)>>))
         [] el.k = "branch" ->
               Branched(0, FoldLeft(LAMBDA acc, leg : AddedLeg(acc, t, SeriesToLogix(leg, d + 1, Around(<<>>, acc.t))),
                                    [legs |-> <<>>, t |-> t], el.legs))
         [] el.k = "block" -> BlockToLogix(el, d, t)
         [] OTHER -> Add(t, el)
(* the rung is split where an element asks for it: what came before it, its   *)
(* reset, and what follows from its output                                    *)
Cut(t) == IF t.cut = <<>> THEN t
          ELSE [t EXCEPT !.bef = @ \o <<Front(t.out)>> \o SelectSeq(t.cut, LAMBDA es : es # <<>>),
                         !.out = <<Last(t.out)>>, !.cut = <<>>]
CutAt(d, t) == IF d = 1 THEN Cut(t) ELSE t
SeriesToLogix(es, d, t) == FoldLeft(LAMBDA acc, el : CutAt(d, ElementToLogix(el, d, acc)), t, es)
ToLogix(rungs) == FlattenSeq([j \in DOMAIN rungs |-> Translated(rungs[j], SeriesToLogix(rungs[j].es, 1, Nothing))])

(***************************************************************************)
(* Logix to IEC.  fbs is what the tags of timers and counters become.      *)
(***************************************************************************)
Driven == TimerTypes \cup {"CTU", "CTD"}
TagTypes(rungs) ==
    LET leaves == UNION {Leaves(rungs[j].es) : j \in DOMAIN rungs}
        Uses(x) == {el.op : el \in {e \in leaves : e.k = "ins" /\ e.op \in Driven /\ Tag(e, 1) = x}}
    IN [x \in {Tag(el, 1) : el \in {e \in leaves : e.k = "ins" /\ e.op \in Driven}} |->
          IF {"CTU", "CTD"} \subseteq Uses(x) THEN "CTUD" ELSE CHOOSE ty \in Uses(x) : TRUE]
IecMember(ty, x, m) ==
    CASE m = "DN" -> IF ty = "CTUD" THEN Mem(x, "QU") ELSE Mem(x, "Q")
      [] m = "ACC" -> IF ty \in TimerTypes THEN Mem(x, "ET") ELSE Mem(x, "CV")
RECURSIVE OpToIec(_, _)
OpToIec(e, fbs) ==
    LET named == {p \in (DOMAIN fbs) \X {"DN", "ACC"} : e = Id(Member(p[1], p[2]))}
        p == CHOOSE q \in named : TRUE
    IN CASE e.k = "id" /\ named # {} -> IecMember(fbs[p[1]], p[1], p[2])
         [] e.k = "not" -> NotE(OpToIec(e.e, fbs))
         [] e.k = "bin" -> Bin(e.op, OpToIec(e.l, fbs), OpToIec(e.r, fbs))
         [] OTHER -> e

Given1(n, v) == <<[n |-> n, e |-> Lit(v)]>>
Pulse(x, ty, pin) == StBox(<<Invoke(x, ty, Given1(pin, 1)), Invoke(x, ty, Given1(pin, 0))>>)
(* the branch a CTU's R becomes in Logix is its R again *)
CounterClear(b, fbs) == {x \in DOMAIN fbs : fbs[x] \in {"CTU", "CTUD"} /\ b.legs = Clear(x).legs}
ResToIec(x, fbs) ==
    CASE fbs[x] \in {"TON", "TOF"} -> StBox(<<Invoke(x, fbs[x], Given1("IN", 0))>>)
      [] fbs[x] = "RTO" -> StBox(<<Invoke(x, "RTO", Given1("R", 1))>>)
      [] fbs[x] \in {"CTU", "CTUD"} -> Pulse(x, fbs[x], "R")
      [] fbs[x] = "CTD" -> Pulse(x, "CTD", "LD")
TimerToIec(el, id) ==
    Block(id, el.op, Tag(el, 1),
          <<Power("IN")>> \o (IF el.op = "RTO" THEN <<In("R", Lit(0))>> ELSE <<>>) \o <<In("PT", el.as[2]), Out("Q"), Out("ET")>>, "IN", "")
CounterToIec(el, id, fbs) ==
    LET ty == fbs[Tag(el, 1)]
        edge == IF el.op = "CTU" THEN "CU" ELSE "CD"
        others == IF ty = "CTUD" THEN <<>> ELSE <<Power(IF el.op = "CTU" THEN "R" ELSE "LD")>>
    IN Block(id, ty, Tag(el, 1), <<Power(edge)>> \o others \o <<In("PV", el.as[2]), Out("CV")>>, edge, "")
MathToIec(name, ins, dest, id) ==
    Block(id, name, "", <<Power("EN")>> \o ins \o <<Out("ENO"), To("OUT", dest)>>, "EN", "ENO")
(* one-shots: the rung is latched, and the storage bit follows after the rung *)
StoredAfter_Mut(sb, tmp) == <<Contact(0, tmp, "no"), Coil(0, sb, "set")>>
StoredAfter(sb, tmp) == <<Contact(0, tmp, "no"), Coil(0, sb, "normal")>>
OneShotToIec(el, id, t) ==
    LET tmp == "os_rung" \o ToString(id)
        sb == Tag(el, 1)
        stored == StoredAfter(sb, Id(tmp))
        t1 == Add(t, Ote(tmp))
    IN CASE el.op = "ONS" -> Add(After(t1, stored), Contact(0, Id(sb), "nc"))
         [] el.op = "OSR" -> Add(After(t1, stored), Branch(id, <<<<Contact(0, Id(sb), "nc"), Ote(Tag(el, 2))>>, <<>>>>))
         [] el.op = "OSF" -> After(After(t1, <<No(Id(sb)), Contact(0, Id(tmp), "nc"), Ote(Tag(el, 2))>>), stored)

RECURSIVE SeriesToIec(_, _, _, _)
InstructionToIec(el, id, t, fbs) ==
    LET op(j) == OpToIec(el.as[j], fbs)
    IN CASE el.op \in TimerTypes -> Add(t, TimerToIec(el, id))
         [] el.op \in {"CTU", "CTD"} -> Add(t, CounterToIec(el, id, fbs))
         [] el.op \in {"RES_TIMER", "RES_COUNTER"} -> Add(t, IF Tag(el, 1) \in DOMAIN fbs THEN ResToIec(Tag(el, 1), fbs) ELSE StBox(<<>>))
         [] el.op \in {"ONS", "OSR", "OSF"} -> OneShotToIec(el, id, t)
         [] CompareOp(el.op) # "" -> Add(t, Block(id, CompareOp(el.op), "", <<In("IN1", op(1)), In("IN2", op(2)), Out("OUT")>>, "", "OUT"))
         [] el.op = "LIM" -> Add(t, No(Limits(op(1), op(2), op(3))))
         [] el.op = "CMP" -> Add(t, No(op(1)))
         [] el.op = "CPT" -> Add(t, StBox(<<Set(Tag(el, 1), op(2))>>))
         [] el.op \in {"ADD", "SUB", "MUL"} -> Add(t, MathToIec(el.op, <<In("IN1", op(1)), In("IN2", op(2))>>, Tag(el, 3), id))
         [] el.op = "MOV" -> Add(t, MathToIec("MOVE", <<In("IN", op(1))>>, Tag(el, 2), id))
         [] el.op = "CLR" -> Add(t, MathToIec("MOVE", <<In("IN", Lit(0))>>, Tag(el, 1), id))
         [] el.op = "AFI" -> Add(t, No(Lit(0)))
         [] el.op = "NOP" -> t
         [] el.op = "TND" -> Add(t, Ret)
         [] el.op = "JSR" -> Add(t, StBox(<<Sub(Subroutine)>>))
         [] OTHER -> Add(t, StBox(<<>>))
(* the element's place in the program stands for its id *)
ElementToIec(el, id, t, fbs) ==
    CASE el.k = "contact" -> Add(t, Contact(id, OpToIec(el.o, fbs), el.kind))
      [] el.k = "branch" /\ CounterClear(el, fbs) # {} ->
            LET x == CHOOSE y \in CounterClear(el, fbs) : TRUE IN Add(t, Pulse(x, fbs[x], "R"))
      [] el.k = "branch" /\ CounterClear(el, fbs) = {} ->
            Branched(id, FoldLeft(LAMBDA acc, j : AddedLeg(acc, t, SeriesToIec(el.legs[j], 10 * id + j, Around(<<>>, acc.t), fbs)),
                                  [legs |-> <<>>, t |-> t], [j \in DOMAIN el.legs |-> j]))
      [] el.k = "ins" -> InstructionToIec(el, id, t, fbs)
      [] OTHER -> Add(t, el)
SeriesToIec(es, base, t, fbs) ==
    FoldLeft(LAMBDA acc, j : ElementToIec(es[j], 10 * base + j, acc, fbs), t, [j \in DOMAIN es |-> j])
ToIec(rungs) ==
    FlattenSeq([j \in DOMAIN rungs |-> Translated(rungs[j], SeriesToIec(rungs[j].es, j, Nothing, TagTypes(rungs)))])
(* storage bits that start TRUE *)
InitTrue(rungs) ==
    {Tag(el, 1) : el \in {e \in UNION {Leaves(rungs[j].es) : j \in DOMAIN rungs} : e.k = "ins" /\ e.op \in {"ONS", "OSR"}}}
=============================================================================
