----------------------------- MODULE LogixRungs -----------------------------
(* plcc-l5x/src/rll.rs: Logix rungs as Structured Text.  A rung condition     *)
(* flows through the instructions, every one of which executes on every scan, *)
(* true or false; the lowering collects the conditions that only AND and      *)
(* stores them where an instruction acts (the long form stores each one).     *)
(* Rung text is read as contacts, coils, branches, jumps and returns;         *)
(* Ins(op, as) is any other instruction with its operands.  Conversions       *)
(* between number types, indirect bits, strings, add-on instructions, FOR     *)
(* and routine parameters are left out.                                       *)
EXTENDS LadderModel

Ins(op, as) == [k |-> "ins", op |-> op, as |-> as]
Tag(ins, j) == ins.as[j].x

CompareOp(op) == CASE op \in {"EQU", "EQ"} -> "EQ" [] op \in {"NEQ", "NE"} -> "NE" [] op \in {"LES", "LT"} -> "LT"
                   [] op \in {"LEQ", "LE"} -> "LE" [] op \in {"GRT", "GT"} -> "GT" [] op \in {"GEQ", "GE"} -> "GE"
                   [] OTHER -> ""
(* LIM: between the limits, or outside them when they are the wrong way round *)
Limits(lo, t, hi) ==
    LET Le(l, r) == Bin("LE", l, r)
    IN Bin("OR", Bin("AND", Le(lo, hi), Bin("AND", Le(lo, t), Le(t, hi))),
                 Bin("AND", Bin("GT", lo, hi), Bin("OR", Bin("GE", t, lo), Le(t, hi))))
IsCondition(el) == \/ el.k = "contact"
                   \/ el.k = "ins" /\ (CompareOp(el.op) # "" \/ el.op \in {"LIM", "CMP"})
Condition(el) ==
    CASE el.k = "contact" -> IF el.kind = "no" THEN el.o ELSE NotE(el.o)
      [] el.k = "ins" /\ el.op = "LIM" -> Limits(el.as[1], el.as[2], el.as[3])
      [] el.k = "ins" /\ el.op = "CMP" -> el.as[1]
      [] OTHER -> Bin(CompareOp(el.op), el.as[1], el.as[2])
RECURSIVE OnlyConditions(_)
OnlyConditions(es) ==
    \A j \in DOMAIN es : IF es[j].k = "branch"
                         THEN \A m \in DOMAIN es[j].legs : es[j].legs[m] # <<>> /\ OnlyConditions(es[j].legs[m])
                         ELSE IsCondition(es[j])

(***************************************************************************)
(* What an instruction that acts does once the rung condition is in rc.    *)
(***************************************************************************)
Rc == Id("lx__rc")
Whenever(ss) == <<If(Rc, ss)>>
Jumped(target) == <<If(Rc, <<Set("lx__jmp", Lit(target))>>)>>
OneShot(sb) == <<IfElse(Rc, <<Set("lx__rc", NotE(Id(sb))), Set(sb, True)>>, <<Set(sb, Lit(0))>>)>>
Rising(sb, ob) == <<IfElse(Rc, <<Set(ob, NotE(Id(sb))), Set(sb, True)>>, <<Set(sb, Lit(0)), Set(ob, Lit(0))>>)>>
Falling(sb, ob) == <<IfElse(Rc, <<Set(sb, True), Set(ob, Lit(0))>>, <<Set(ob, Id(sb)), Set(sb, Lit(0))>>)>>
Acts(el, sub) ==
    CASE el.k = "coil" -> IF el.kind = "normal" THEN <<Set(el.x, Rc)>>
                          ELSE Whenever(<<Set(el.x, Lit(Bit(el.kind = "set")))>>)
      [] el.k = "ret" -> Whenever(<<Return>>)
      [] el.k = "st" -> Whenever(el.ss)
      [] el.k = "ins" /\ el.op = "ONS" -> OneShot(Tag(el, 1))
      [] el.k = "ins" /\ el.op = "OSR" -> Rising(Tag(el, 1), Tag(el, 2))
      [] el.k = "ins" /\ el.op = "OSF" -> Falling(Tag(el, 1), Tag(el, 2))
      [] el.k = "ins" /\ el.op \in {"TON", "TOF", "RTO", "CTU", "CTD"} -> <<Lib(el.op, Tag(el, 1), Rc)>>
      [] el.k = "ins" /\ el.op \in {"RES_TIMER", "RES_COUNTER"} -> Whenever(<<Lib(el.op, Tag(el, 1), True)>>)
      [] el.k = "ins" /\ el.op \in {"ADD", "SUB", "MUL"} -> Whenever(<<Set(Tag(el, 3), Bin(el.op, el.as[1], el.as[2]))>>)
      [] el.k = "ins" /\ el.op = "CPT" -> Whenever(<<Set(Tag(el, 1), el.as[2])>>)
      [] el.k = "ins" /\ el.op = "MOV" -> Whenever(<<Set(Tag(el, 2), el.as[1])>>)
      [] el.k = "ins" /\ el.op = "CLR" -> Whenever(<<Set(Tag(el, 1), Lit(0))>>)
      [] el.k = "ins" /\ el.op = "AFI" -> <<Set("lx__rc", Lit(0))>>
      [] el.k = "ins" /\ el.op = "MCR" -> <<If(NotE(Rc), <<Set("lx__mcr", NotE(Id("lx__mcr")))>>)>>
      [] el.k = "ins" /\ el.op = "TND" -> Whenever(<<Return>>)
      [] el.k = "ins" /\ el.op = "JSR" -> Whenever(<<Sub(sub)>>)
      [] el.k = "ins" /\ el.op = "NOP" -> <<>>
(* what it does once before the first scan *)
Sets(x, ms, n) == [j \in DOMAIN ms |-> Set(Member(x, ms[j]), Lit(n))]
Literal(el, j, m) == IF Len(el.as) >= j /\ el.as[j].k = "lit" THEN <<Set(Member(Tag(el, 1), m), el.as[j])>> ELSE <<>>
Presets(el) == Literal(el, 2, "PRE") \o Literal(el, 3, "ACC")
Prescanned(el) ==
    CASE el.k = "coil" -> IF el.kind = "normal" THEN <<Set(el.x, Lit(0))>> ELSE <<>>
      [] el.k = "ins" /\ el.op = "ONS" -> <<Set(Tag(el, 1), True)>>
      [] el.k = "ins" /\ el.op = "OSR" -> <<Set(Tag(el, 1), True), Set(Tag(el, 2), Lit(0))>>
      [] el.k = "ins" /\ el.op = "OSF" -> <<Set(Tag(el, 1), Lit(0)), Set(Tag(el, 2), Lit(0))>>
      [] el.k = "ins" /\ el.op = "TON" -> Presets(el) \o Sets(Tag(el, 1), <<"EN", "TT", "DN", "ACC">>, 0)
      [] el.k = "ins" /\ el.op = "TOF" -> Presets(el) \o Sets(Tag(el, 1), <<"EN", "TT", "DN">>, 0)
                                          \o <<Set(Member(Tag(el, 1), "ACC"), Id(Member(Tag(el, 1), "PRE")))>>
      [] el.k = "ins" /\ el.op = "RTO" -> Presets(el) \o Sets(Tag(el, 1), <<"EN", "TT">>, 0)
      [] el.k = "ins" /\ el.op \in {"CTU", "CTD"} ->
            Presets(el) \o <<Set(Member(Tag(el, 1), IF el.op = "CTU" THEN "CU" ELSE "CD"), True)>>
      [] OTHER -> <<>>
RECURSIVE Prescan(_)
Prescan(es) == FlattenSeq([j \in DOMAIN es |-> IF es[j].k = "branch"
                  THEN FlattenSeq([m \in DOMAIN es[j].legs |-> Prescan(es[j].legs[m])]) ELSE Prescanned(es[j])])
PrescanRoutine(rungs) == FlattenSeq([j \in DOMAIN rungs |-> Prescan(rungs[j].es)])

(***************************************************************************)
(* The lowering.  c is the condition not yet stored in lx__rc (<<>> when   *)
(* lx__rc holds it), d the branch depth; "guard" opens an IF that lasts to *)
(* the end of the rung.                                                    *)
(***************************************************************************)
Guard == [k |-> "guard"]
AndAlso(l, r) == IF l = True THEN r ELSE Bin("AND", l, r)
Pending(st) == IF st.c = <<>> THEN Rc ELSE st.c[1]
Flush(st) == IF st.c = <<>> THEN st ELSE [st EXCEPT !.c = <<>>, !.out = Append(@, Set("lx__rc", st.c[1]))]
Line(st, ss) == LET f == Flush(st) IN [f EXCEPT !.out = @ \o ss]
Start(st, d) == <<Id("lx__bs" \o d)>>
Emit(st, ss) == [st EXCEPT !.out = @ \o ss]

RECURSIVE Folded(_, _, _), Long(_, _, _)
FoldedBranch(b, st, env) ==
    LET d == ToString(st.d + 1)
        bo == "lx__bo" \o d
        always == st.c = <<True>>
        kept == IF always THEN st ELSE Emit(st, <<Set("lx__bs" \o d, Pending(st))>>)
        begin == [Emit(kept, <<Set(bo, Lit(0))>>) EXCEPT !.d = st.d + 1]
        Leg(t, leg) ==
            LET r == Folded(leg, [t EXCEPT !.c = IF always THEN <<True>> ELSE Start(st, d)], env)
            IN Emit(r, <<Set(bo, Bin("OR", Id(bo), Pending(r)))>>)
    IN [FoldLeft(Leg, begin, b.legs) EXCEPT !.c = <<Id(bo)>>, !.d = st.d]
FoldedOne(el, st, env) ==
    CASE el.k = "branch" /\ OnlyConditions(<<el>>) ->
            LET legs == [j \in DOMAIN el.legs |-> Folded(el.legs[j], [st EXCEPT !.c = <<True>>], env).c[1]]
            IN [st EXCEPT !.c = <<AndAlso(Pending(st), FoldLeft(LAMBDA l, r : Bin("OR", l, r), Head(legs), Tail(legs)))>>]
      [] el.k = "branch" /\ ~OnlyConditions(<<el>>) -> FoldedBranch(el, st, env)
      [] IsCondition(el) -> [st EXCEPT !.c = <<AndAlso(Pending(st), Condition(el))>>]
      [] el.k = "jump" -> Line(st, Jumped(env.lb[el.label]) \o <<Guard>>)
      [] el.k = "ins" /\ el.op = "NOP" -> st
      [] el.k = "ins" /\ el.op = "AFI" /\ st.c = <<True>> -> Line([st EXCEPT !.c = <<>>], Acts(el, env.sub))
      [] OTHER -> Line(st, Acts(el, env.sub))
Folded(es, st, env) == FoldLeft(LAMBDA t, el : FoldedOne(el, t, env), st, es)

LongBranch(b, st, env) ==
    LET d == ToString(st.d + 1)
        bs == "lx__bs" \o d
        bo == "lx__bo" \o d
        begin == [Emit(st, <<Set(bs, Rc), Set(bo, Lit(0))>>) EXCEPT !.d = st.d + 1]
        Leg(t, j) == LET again == IF j = 1 THEN t ELSE Emit(t, <<Set("lx__rc", Id(bs))>>)
                     IN Emit(Long(b.legs[j], again, env), <<Set(bo, Bin("OR", Id(bo), Rc))>>)
        legs == FoldLeft(Leg, begin, [j \in DOMAIN b.legs |-> j])
    IN [Emit(legs, <<Set("lx__rc", Id(bo))>>) EXCEPT !.d = st.d]
LongOne(el, st, env) ==
    CASE el.k = "branch" -> LongBranch(el, st, env)
      [] el.k = "jump" -> Emit(st, Jumped(env.lb[el.label]) \o <<Guard>>)
      [] el.k # "branch" /\ IsCondition(el) -> Emit(st, <<Set("lx__rc", Bin("AND", Rc, Condition(el)))>>)
      [] OTHER -> Emit(st, Acts(el, env.sub))
Long(es, st, env) == FoldLeft(LAMBDA t, el : LongOne(el, t, env), st, es)

RECURSIVE Nested(_)
Nested(ss) == IF \A j \in DOMAIN ss : ss[j] # Guard THEN ss
              ELSE LET g == CHOOSE j \in DOMAIN ss : ss[j] = Guard /\ \A m \in 1..j - 1 : ss[m] # Guard
                   IN Append(SubSeq(ss, 1, g - 1),
                             If(Bin("EQ", Id("lx__jmp"), Lit(0)), Nested(SubSeq(ss, g + 1, Len(ss)))))

RECURSIVE Leaves(_)
Leaves(es) == UNION {IF es[j].k = "branch" THEN UNION {Leaves(es[j].legs[m]) : m \in DOMAIN es[j].legs} ELSE {es[j]}
                     : j \in DOMAIN es}
LabelsOf(rungs) == LET at == {j \in DOMAIN rungs : rungs[j].label # ""}
                   IN [l \in {rungs[j].label : j \in at} |-> Cardinality({j \in at : j <= Labelled(rungs, l)})]
LowerLogix(rungs, sub, long) ==
    LET env == [lb |-> LabelsOf(rungs), sub |-> sub]
        leaves == UNION {Leaves(rungs[j].es) : j \in DOMAIN rungs}
        jmp == \E el \in leaves : el.k = "jump"
        mcr == \E el \in leaves : el.k = "ins" /\ el.op = "MCR"
        Going(n) == Bin("EQ", Id("lx__jmp"), Lit(n))
        first == IF mcr THEN NotE(Id("lx__mcr")) ELSE True
        Body(g) == IF long THEN Long(g.es, [c |-> <<>>, out |-> <<Set("lx__rc", first)>>, d |-> 0], env).out
                   ELSE Flush(Folded(g.es, [c |-> <<first>>, out |-> <<>>, d |-> 0], env)).out
        Lowered(g) == IF ~jmp THEN Nested(Body(g))
                      ELSE (IF g.label = "" THEN <<>> ELSE <<If(Going(env.lb[g.label]), <<Set("lx__jmp", Lit(0))>>)>>)
                           \o <<If(Going(0), Nested(Body(g)))>>
        all == FlattenSeq([j \in DOMAIN rungs |-> Lowered(rungs[j])])
    IN (IF mcr THEN <<Set("lx__mcr", Lit(0))>> ELSE <<>>)
       \o (IF jmp THEN <<Set("lx__jmp", Lit(0)), Loop(Append(all, If(Going(0), <<Exit>>)))>> ELSE all)

(***************************************************************************)
(* The rung condition itself (1756-RM003), for comparison: a jump leaves   *)
(* its rung at once.                                                       *)
(***************************************************************************)
RECURSIVE Conditioned(_, _, _, _)
Acted(s, r) == [s EXCEPT !.e = r.e, !.p = Get(r.e, "lx__rc"), !.stop = r.sig = "return"]
Act(el, s, sub, now) == Acted(s, Run(Acts(el, sub), [e |-> Put(s.e, "lx__rc", s.p), sig |-> "none"], now))
ConditionBranch(b, s, sub, now) ==
    FoldLeft(LAMBDA t, leg : IF t.stop \/ t.jmp # "" THEN t
                             ELSE EitherLeg(Conditioned(leg, [t EXCEPT !.p = s.p], sub, now), t.p),
             [s EXCEPT !.p = 0], b.legs)
ConditionOne(el, s, sub, now) ==
    CASE el.k = "branch" -> ConditionBranch(el, s, sub, now)
      [] el.k = "jump" -> IF s.p = 1 THEN [s EXCEPT !.jmp = el.label] ELSE s
      [] el.k # "branch" /\ IsCondition(el) -> [s EXCEPT !.p = Bit(@ = 1 /\ Value(Condition(el), s.e) = 1)]
      [] OTHER -> Act(el, s, sub, now)
Conditioned(es, s, sub, now) ==
    FoldLeft(LAMBDA t, el : IF t.stop \/ t.jmp # "" THEN t ELSE ConditionOne(el, t, sub, now), s, es)
RECURSIVE FromLogixRung(_, _, _, _)
ResumeLogix(rungs, sub, r, now, to, back) ==
    FromLogixRung(rungs, sub, [at |-> to, back |-> back, e |-> r.e,
                               sig |-> IF r.stop THEN "return" ELSE IF back > Passes THEN "stuck" ELSE "none"], now)
AfterLogixRung(rungs, sub, t, r, now) ==
    ResumeLogix(rungs, sub, r, now, IF r.jmp = "" THEN t.at + 1 ELSE Labelled(rungs, r.jmp),
                t.back + Bit(r.jmp # "" /\ Labelled(rungs, r.jmp) <= t.at))
FromLogixRung(rungs, sub, t, now) ==
    IF t.at > Len(rungs) \/ t.sig # "none" THEN t
    ELSE AfterLogixRung(rungs, sub, t,
             Conditioned(rungs[t.at].es, [p |-> 1 - Get(t.e, "lx__mcr"), e |-> t.e, jmp |-> "", stop |-> FALSE], sub, now), now)
ScanLogix(rungs, sub, env, now) ==
    FromLogixRung(rungs, sub, [at |-> 1, back |-> 0, e |-> Put(env, "lx__mcr", 0), sig |-> "none"], now)
=============================================================================
