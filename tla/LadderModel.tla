---------------------------- MODULE LadderModel -----------------------------
(* The ladder model (plcc-ladder/src/model.rs) and what a ladder program      *)
(* means: power flows through a rung as a value, element by element.  Beside  *)
(* it the part of Structured Text that lowered rungs consist of, and what     *)
(* those statements do, so that a conversion can be run next to its source.   *)
(* Values are integers, a BOOL is 0 or 1; operand text is an expression.      *)
(* An environment holds the variables (v) and the block instances (f); Lib    *)
(* calls a timer or counter of the Logix library.                             *)
EXTENDS StdBlocks, SequencesExt, TLC

CONSTANT Passes                        \* how often a scan may jump backwards

(***************************************************************************)
(* Environments, and the Logix timers and counters that lowered rungs call *)
(* (plcc-l5x/st/logix.st).  A variable is an integer, a BOOL 0 or 1, a     *)
(* structure's member the variable "x.m"; a DINT goes from -IntMax - 1 to  *)
(* IntMax, and time is in milliseconds.                                    *)
(***************************************************************************)
Bit(b) == IF b THEN 1 ELSE 0
Empty == [v |-> <<>>, f |-> <<>>]
Get(env, x) == IF x \in DOMAIN env.v THEN env.v[x] ELSE 0
Put(env, x, n) == [env EXCEPT !.v = (x :> n) @@ @]

Member(x, m) == x \o "." \o m
Structure(env, x, ms) == [m \in ms |-> Get(env, Member(x, m))]
Store(env, x, r) == [env EXCEPT !.v = [y \in {Member(x, m) : m \in DOMAIN r} |-> r[CHOOSE m \in DOMAIN r : y = Member(x, m)]] @@ @]

TimerMembers == {"PRE", "ACC", "EN", "TT", "DN", "last"}
CounterMembers == {"PRE", "ACC", "CU", "CD", "DN", "OV", "UN"}

(* lx__accumulate: ACC goes up by the time since last, and sticks at its top *)
Accumulated(t, now) == [t EXCEPT !.ACC = Least(@ + now - t.last, IntMax), !.last = now]
Done(t, now) == t.ACC + now - t.last > IntMax \/ Accumulated(t, now).ACC >= t.PRE
Timed(t, now) ==
    CASE t.DN = 1 -> [t EXCEPT !.TT = 0, !.EN = 1]
      [] t.DN = 0 /\ t.EN = 0 -> [t EXCEPT !.TT = 1, !.EN = 1, !.last = now]
      [] OTHER -> LET d == Bit(Done(t, now)) IN [Accumulated(t, now) EXCEPT !.TT = 1 - d, !.DN = d]
LogixTon(t, rc, now) == IF rc THEN Timed(t, now) ELSE [t EXCEPT !.EN = 0, !.TT = 0, !.DN = 0, !.ACC = 0]
LogixRto(t, rc, now) == IF rc THEN Timed(t, now) ELSE [t EXCEPT !.EN = 0, !.TT = 0]
LogixTof(t, rc, now) ==
    CASE rc -> [t EXCEPT !.EN = 1, !.TT = 0, !.DN = 1, !.ACC = 0]
      [] ~rc /\ t.DN = 0 -> [t EXCEPT !.TT = 0, !.EN = 0]
      [] ~rc /\ t.DN = 1 /\ t.EN = 1 -> [t EXCEPT !.TT = 1, !.EN = 0, !.last = now]
      [] OTHER -> LET d == Bit(~Done(t, now)) IN [Accumulated(t, now) EXCEPT !.TT = d, !.DN = d]

(* lx__ctu and lx__ctd: ACC wraps, and OV or UN holds DN until it comes back; *)
(* edge is the count bit, over and under what a wrap up or down marks         *)
Counted(c, up) ==
    LET over == IF up THEN "OV" ELSE "UN"
        under == IF up THEN "UN" ELSE "OV"
        end == IF up THEN IntMax ELSE -IntMax - 1
    IN IF c.ACC # end THEN [c EXCEPT !.ACC = IF up THEN @ + 1 ELSE @ - 1]
       ELSE [c EXCEPT !.ACC = -IntMax - 1 - end + IntMax,
                      ![over] = Bit(c[under] = 0), ![under] = 0]
LogixCount(c, rc, up) ==
    LET edge == IF up THEN "CU" ELSE "CD"
        over == IF up THEN "OV" ELSE "UN"
        new == [(IF rc /\ c[edge] = 0 THEN Counted(c, up) ELSE c) EXCEPT ![edge] = Bit(rc)]
    IN IF new.OV = 1 \/ new.UN = 1 THEN new ELSE [new EXCEPT !.DN = Bit(new.ACC >= new.PRE)]

Library(op, x, rc, env, now) ==
    CASE op = "TON" -> Store(env, x, LogixTon(Structure(env, x, TimerMembers), rc, now))
      [] op = "TOF" -> Store(env, x, LogixTof(Structure(env, x, TimerMembers), rc, now))
      [] op = "RTO" -> Store(env, x, LogixRto(Structure(env, x, TimerMembers), rc, now))
      [] op \in {"CTU", "CTD"} -> Store(env, x, LogixCount(Structure(env, x, CounterMembers), rc, op = "CTU"))
      [] op = "RES_TIMER" -> Store(env, x, [m \in {"ACC", "EN", "TT", "DN"} |-> 0])
      [] op = "RES_COUNTER" -> Store(env, x, [m \in CounterMembers \ {"PRE"} |-> 0])

(***************************************************************************)
(* Structured Text                                                         *)
(***************************************************************************)
Lit(n) == [k |-> "lit", n |-> n]
Id(x) == [k |-> "id", x |-> x]
Mem(x, m) == [k |-> "mem", x |-> x, m |-> m]
NotE(e) == [k |-> "not", e |-> e]
Bin(op, l, r) == [k |-> "bin", op |-> op, l |-> l, r |-> r]
True == Lit(1)

Set(x, e) == [k |-> "set", x |-> x, e |-> e]
IfElse(c, b, d) == [k |-> "if", c |-> c, b |-> b, d |-> d]
If(c, b) == IfElse(c, b, <<>>)
Lib(op, x, e) == [k |-> "lib", op |-> op, x |-> x, e |-> e]
Call(x, ty, args, outs) == [k |-> "call", x |-> x, ty |-> ty, args |-> args, outs |-> outs]
Invoke(x, ty, args) == Call(x, ty, args, <<>>)
Exit == [k |-> "exit"]
Return == [k |-> "return"]
Loop(b) == [k |-> "loop", b |-> b]
Sub(b) == [k |-> "sub", b |-> b]                   \* a routine called without parameters

Fresh(ty) == [ty |-> ty, in |-> [a |-> FALSE, b |-> FALSE, c |-> FALSE, d |-> FALSE], s |-> New(ty)]
Instance(env, x, ty) == IF x \in DOMAIN env.f THEN env.f[x] ELSE Fresh(ty)
(* which of a block's inputs a pin is; a preset is a constant of the model *)
Slot(pin) == CASE pin \in {"IN", "CU", "CLK", "S1", "S"} -> "a"
               [] pin = "CD" -> "c"
               [] pin \in {"R", "R1"} -> "b"
               [] pin = "LD" -> "d"
               [] OTHER -> "none"
SlotOf(ty, pin) == IF ty = "CTD" THEN CASE pin = "CD" -> "a" [] pin = "LD" -> "b" [] OTHER -> "none" ELSE Slot(pin)
Output(i, pin) == IF pin \in {"ET", "CV"} THEN i.s.v
                  ELSE IF pin = "QD" THEN Bit(i.s.qd) ELSE Bit(i.s.q)

RECURSIVE Value(_, _)
Operate(op, l, r) ==
    CASE op = "AND" -> Bit(l = 1 /\ r = 1)
      [] op = "OR" -> Bit(l = 1 \/ r = 1)
      [] op = "ADD" -> l + r
      [] op = "SUB" -> l - r
      [] op = "MUL" -> l * r
      [] op = "EQ" -> Bit(l = r)
      [] op = "NE" -> Bit(l # r)
      [] op = "GT" -> Bit(l > r)
      [] op = "GE" -> Bit(l >= r)
      [] op = "LT" -> Bit(l < r)
      [] op = "LE" -> Bit(l <= r)
Value(e, env) ==
    CASE e.k = "lit" -> e.n
      [] e.k = "id" -> Get(env, e.x)
      [] e.k = "mem" -> IF e.x \in DOMAIN env.f THEN Output(env.f[e.x], e.m) ELSE 0
      [] e.k = "not" -> 1 - Value(e.e, env)
      [] e.k = "bin" -> Operate(e.op, Value(e.l, env), Value(e.r, env))

(* inputs a call names are stored, the others keep their last value *)
CallBlock(env, x, ty, args, now) ==
    LET i == Instance(env, x, ty)
        in == FoldLeft(LAMBDA r, a : IF SlotOf(ty, a.n) = "none" THEN r
                                     ELSE [r EXCEPT ![SlotOf(ty, a.n)] = a.v = 1], i.in, args)
    IN [env EXCEPT !.f = (x :> [i EXCEPT !.in = in, !.s = StCall(ty, i.s, in, now)]) @@ @]

RECURSIVE Run(_, _, _)
(* sig says why the statements ended early; a loop that does not end within   *)
(* Passes rounds is "stuck"                                                   *)
Again(s, st, now) ==
    LET round[n \in 0..Passes] ==
            LET before == IF n = 0 THEN st ELSE round[n - 1]
            IN IF before.sig # "none" THEN before ELSE Run(s.b, before, now)
        last == round[Passes]
    IN CASE last.sig = "exit" -> [last EXCEPT !.sig = "none"]
         [] last.sig = "none" -> [last EXCEPT !.sig = "stuck"]
         [] OTHER -> last
RunOne(s, st, now) ==
    CASE s.k = "set" -> [st EXCEPT !.e = Put(st.e, s.x, Value(s.e, st.e))]
      [] s.k = "if" -> IF Value(s.c, st.e) = 1 THEN Run(s.b, st, now) ELSE Run(s.d, st, now)
      [] s.k = "call" ->
            LET args == [j \in DOMAIN s.args |-> [n |-> s.args[j].n, v |-> Value(s.args[j].e, st.e)]]
            IN [st EXCEPT !.e = FoldLeft(LAMBDA e, o : Put(e, o.x, Output(e.f[s.x], o.n)),
                                         CallBlock(st.e, s.x, s.ty, args, now), s.outs)]
      [] s.k = "lib" -> [st EXCEPT !.e = Library(s.op, s.x, Value(s.e, st.e) = 1, st.e, now)]
      [] s.k \in {"exit", "return"} -> [st EXCEPT !.sig = s.k]
      [] s.k = "loop" -> Again(s, st, now)
      [] s.k = "sub" -> [Run(s.b, st, now) EXCEPT !.sig = "none"]
Run(ss, st, now) == FoldLeft(LAMBDA t, s : IF t.sig # "none" THEN t ELSE RunOne(s, t, now), st, ss)

(***************************************************************************)
(* Ladder.  An input pin has an expression (v) or its own rung (r), an     *)
(* output pin a variable, a rung or both; <<>> is neither.                 *)
(***************************************************************************)
Contact(id, o, kind) == [k |-> "contact", id |-> id, o |-> o, kind |-> kind]
Coil(id, x, kind) == [k |-> "coil", id |-> id, x |-> x, kind |-> kind]
Branch(id, legs) == [k |-> "branch", id |-> id, legs |-> legs]
Jump(label) == [k |-> "jump", label |-> label]
Ret == [k |-> "ret"]
StBox(ss) == [k |-> "st", ss |-> ss]
Pin(n, dir, v) == [n |-> n, dir |-> dir, v |-> v, r |-> <<>>, neg |-> FALSE]
In(n, e) == Pin(n, "in", <<e>>)
Power(n) == Pin(n, "in", <<>>)
Out(n) == Pin(n, "out", <<>>)
To(n, x) == Pin(n, "out", <<Id(x)>>)
Block(id, name, inst, pins, powerIn, powerOut) ==
    [k |-> "block", id |-> id, name |-> name, inst |-> inst, pins |-> pins, pin |-> powerIn, pout |-> powerOut]
Rung(label, es) == [label |-> label, es |-> es]

(* a function's result: comparisons chain, MOVE and NOT take one input *)
Apply(name, vs) ==
    CASE name = "MOVE" -> vs[1]
      [] name = "NOT" -> 1 - vs[1]
      [] name \in {"EQ", "GT", "GE", "LT", "LE"} ->
            Bit(\A j \in 1..Len(vs) - 1 : Operate(name, vs[j], vs[j + 1]) = 1)
      [] OTHER -> FoldLeft(LAMBDA l, r : Operate(name, l, r), Head(vs), Tail(vs))

(* Power-flow state: p the power, e the environment, jmp the label to go to,  *)
(* stop when a return was taken.                                              *)
Flip(neg, v) == IF neg THEN 1 - v ELSE v
Edge(e, id, up, clk, now) ==
    CallBlock(e, id, IF up THEN "R_TRIG" ELSE "F_TRIG", <<[n |-> "CLK", v |-> clk]>>, now)
Trig(id, up) == IF up THEN "_ld_rt" \o ToString(id) ELSE "_ld_ft" \o ToString(id)

RECURSIVE Flow(_, _, _)
FlowContact(c, s, now) ==
    LET v == Value(c.o, s.e)
        up == c.kind = "rising"
        e == Edge(s.e, Trig(c.id, up), up, v, now)
        q == Output(e.f[Trig(c.id, up)], "Q")
    IN CASE c.kind = "no" -> [s EXCEPT !.p = Bit(@ = 1 /\ v = 1)]
         [] c.kind = "nc" -> [s EXCEPT !.p = Bit(@ = 1 /\ v = 0)]
         [] OTHER -> [s EXCEPT !.p = Bit(@ = 1 /\ q = 1), !.e = e]
FlowCoil(c, s, now) ==
    LET up == c.kind = "rising"
        e == Edge(s.e, Trig(c.id, up), up, s.p, now)
        q == Output(e.f[Trig(c.id, up)], "Q")
    IN CASE c.kind = "normal" -> [s EXCEPT !.e = Put(@, c.x, s.p)]
         [] c.kind = "negated" -> [s EXCEPT !.e = Put(@, c.x, 1 - s.p)]
         [] c.kind \in {"set", "reset"} ->
               [s EXCEPT !.e = IF s.p = 1 THEN Put(@, c.x, Bit(c.kind = "set")) ELSE @]
         [] OTHER -> [s EXCEPT !.e = Put(e, c.x, q)]
EitherLeg(r, p) == [r EXCEPT !.p = Bit(p = 1 \/ @ = 1)]
FlowBranch(b, s, now) ==
    FoldLeft(LAMBDA t, leg : IF t.stop THEN t ELSE EitherLeg(Flow(leg, [t EXCEPT !.p = s.p], now), t.p),
             [s EXCEPT !.p = 0], b.legs)

(* a block's inputs, left to right: t the state after them, vals what they are *)
Gets(acc, pin, t, v) == [t |-> t, vals |-> Append(acc.vals, [n |-> pin.n, v |-> Flip(pin.neg, v)])]
GetsRung(acc, pin, r) == Gets(acc, pin, r, r.p)
FlowInput(b, s, now, acc, pin) ==
    CASE pin.n = b.pin -> Gets(acc, pin, acc.t, s.p)
      [] pin.n # b.pin /\ pin.r # <<>> -> GetsRung(acc, pin, Flow(pin.r[1], [acc.t EXCEPT !.p = 1], now))
      [] pin.n # b.pin /\ pin.r = <<>> /\ pin.v # <<>> -> Gets(acc, pin, acc.t, Value(pin.v[1], acc.t.e))
      [] OTHER -> acc
PinsIn(b, dir) == SelectSeq(b.pins, LAMBDA pin : pin.dir = dir)
FlowInputs(b, s, now) ==
    FoldLeft(LAMBDA acc, pin : FlowInput(b, s, now, acc, pin), [t |-> s, vals |-> <<>>], PinsIn(b, "in"))

(* a block with EN FALSE does not run: an instance keeps its outputs and they *)
(* are still copied, a function's result is not stored                        *)
Enabled(vals) == LET ens == SelectSeq(vals, LAMBDA a : a.n = "EN") IN IF ens = <<>> THEN 1 ELSE ens[1].v
Arguments(vals) == SelectSeq(vals, LAMBDA a : a.n # "EN")
(* what output n of b is after it ran in e *)
ReadOutput(b, args, en, e, n) ==
    IF n = "ENO" THEN en
    ELSE IF b.inst # "" THEN Output(Instance(e, b.inst, b.name), n)
    ELSE Apply(b.name, [j \in DOMAIN args |-> args[j].v])
IntoRung(pin, t, p, now) == IF pin.r = <<>> \/ t.stop THEN t ELSE Flow(pin.r[1], [t EXCEPT !.p = p], now)
Drive(pin, kept, t, v, now) ==
    IntoRung(pin, [t EXCEPT !.e = IF pin.v = <<>> \/ kept THEN @ ELSE Put(@, pin.v[1].x, v)], v, now)
DriveAll(b, args, en, ran, t, now) ==
    FoldLeft(LAMBDA x, pin : Drive(pin, b.inst = "" /\ pin.n # "ENO" /\ en = 0, x,
                                   Flip(pin.neg, ReadOutput(b, args, en, ran, pin.n)), now),
             [t EXCEPT !.e = ran], PinsIn(b, "out"))
PassOn(b, p, v) == CASE b.pout = "" -> p
                     [] b.pout # "" /\ b.pin = "" -> Bit(p = 1 /\ v = 1)
                     [] OTHER -> v
NegatedOut(b) == \E j \in DOMAIN b.pins : b.pins[j].dir = "out" /\ b.pins[j].n = b.pout /\ b.pins[j].neg
AfterBlock(b, p, args, en, ran, t, now) ==
    [DriveAll(b, args, en, ran, t, now) EXCEPT
        !.p = PassOn(b, p, Flip(NegatedOut(b), ReadOutput(b, args, en, ran, b.pout)))]
RunBlock(b, p, args, en, t, now) ==
    AfterBlock(b, p, args, en,
               IF b.inst # "" /\ en = 1 THEN CallBlock(t.e, b.inst, b.name, args, now) ELSE t.e, t, now)
WithInputs(b, p, ins, now) == RunBlock(b, p, Arguments(ins.vals), Enabled(ins.vals), ins.t, now)
FlowBlock(b, s, now) == WithInputs(b, s.p, FlowInputs(b, s, now), now)
BoxRan(s, r) == [s EXCEPT !.e = r.e, !.stop = r.sig = "return"]
FlowOne(el, s, now) ==
    CASE el.k = "contact" -> FlowContact(el, s, now)
      [] el.k = "coil" -> FlowCoil(el, s, now)
      [] el.k = "branch" -> FlowBranch(el, s, now)
      [] el.k = "block" -> FlowBlock(el, s, now)
      [] el.k = "jump" -> IF s.p = 1 THEN [s EXCEPT !.jmp = el.label] ELSE s
      [] el.k = "ret" -> [s EXCEPT !.stop = s.p = 1]
      [] el.k = "st" -> IF s.p = 0 THEN s
                        ELSE BoxRan(s, Run(el.ss, [e |-> s.e, sig |-> "none"], now))
Flow(es, s, now) == FoldLeft(LAMBDA t, el : IF t.stop THEN t ELSE FlowOne(el, t, now), s, es)

(* one scan of a routine from an environment: a jump goes after its rung *)
Labelled(rungs, label) == CHOOSE j \in DOMAIN rungs : rungs[j].label = label
RECURSIVE FromRung(_, _, _)
Resume(rungs, r, now, to, back) ==
    FromRung(rungs, [at |-> to, back |-> back, e |-> r.e,
               sig |-> IF r.stop THEN "return" ELSE IF back > Passes THEN "stuck" ELSE "none"], now)
AfterRung(rungs, t, r, now) ==
    Resume(rungs, r, now, IF r.jmp = "" THEN t.at + 1 ELSE Labelled(rungs, r.jmp),
           t.back + Bit(r.jmp # "" /\ Labelled(rungs, r.jmp) <= t.at))
FromRung(rungs, t, now) ==
    IF t.at > Len(rungs) \/ t.sig # "none" THEN t
    ELSE AfterRung(rungs, t, Flow(rungs[t.at].es, [p |-> 1, e |-> t.e, jmp |-> "", stop |-> FALSE], now), now)
ScanLadder(rungs, env, now) == FromRung(rungs, [at |-> 1, back |-> 0, e |-> env, sig |-> "none"], now)

-----------------------------------------------------------------------------
(* Ladder routines as Structured Text and back.                               *)
(*                                                                            *)
(* plcc-ladder/src/lower.rs lowers a routine.  Power is an expression; hidden *)
(* BOOLs latch it where it is read more than once, and hidden edge detectors  *)
(* and _ld_jmp hold what a rung cannot say in ST.  A block whose inputs are   *)
(* missing is an error there and not lowered here; rung comments and          *)
(* functions called for their effects are left out.                           *)
(*                                                                            *)
(* plcc-ladder/src/from_st.rs draws Structured Text as ladder, one rung per   *)
(* statement, with an ST box for what ladder cannot express.  Names are plain *)
(* variables of known type; function bodies and blocks of the file's own are  *)
(* left out.                                                                  *)
CONSTANT Types                         \* variable or instance |-> its type

And(l, r) == IF l = True THEN r ELSE IF r = True THEN l ELSE Bin("AND", l, r)
Or(l, r) == IF True \in {l, r} THEN True ELSE Bin("OR", l, r)
Guarded(c, b) == IF c = True THEN b ELSE <<If(c, b)>>

Constant(e) == e.k = "lit"
(* p with the statements that must run first *)
With(p, out) == [p |-> p, out |-> out]
Latch(x, e) == IF Constant(e) THEN With(e, <<>>) ELSE With(Id(x), <<Set(x, e)>>)
Trigger(id, up, clk) ==
    With(Mem(Trig(id, up), "Q"),
         <<Invoke(Trig(id, up), IF up THEN "R_TRIG" ELSE "F_TRIG", <<[n |-> "CLK", e |-> clk]>>)>>)

RECURSIVE Pure(_), LowerSeries(_, _, _)
Pure(es) == \A j \in DOMAIN es : \/ es[j].k = "contact"
                                 \/ es[j].k = "branch" /\ \A n \in DOMAIN es[j].legs : Pure(es[j].legs[n])

LowerContact(c, p) ==
    CASE c.kind = "no" -> With(And(p, c.o), <<>>)
      [] c.kind = "nc" -> With(And(p, NotE(c.o)), <<>>)
      [] OTHER -> LET t == Trigger(c.id, c.kind = "rising", c.o) IN With(And(p, t.p), t.out)
LowerCoil(c, p) ==
    LET t == Trigger(c.id, c.kind = "rising", p)
    IN With(p, CASE c.kind = "normal" -> <<Set(c.x, p)>>
                 [] c.kind = "negated" -> <<Set(c.x, NotE(p))>>
                 [] c.kind \in {"set", "reset"} -> Guarded(p, <<Set(c.x, Lit(Bit(c.kind = "set")))>>)
                 [] OTHER -> Append(t.out, Set(c.x, t.p)))

(* every leg's power, ORed: legs of contacts alone read and write nothing, so *)
(* the branch needs no latch *)
AddLeg(acc, r) == [ps |-> Append(acc.ps, r.p), out |-> acc.out \o r.out]
Legs(b, p, lb) ==
    FoldLeft(LAMBDA acc, leg : AddLeg(acc, LowerSeries(leg, p, lb)), [ps |-> <<>>, out |-> <<>>], b.legs)
AnyOf(ps) == FoldLeft(LAMBDA l, r : Or(l, r), Head(ps), Tail(ps))
Readers(b) == Len(b.legs)
JoinPure(p, legs) == With(And(p, AnyOf(legs.ps)), legs.out)
JoinLatched(at, legs) == With(AnyOf(legs.ps), at.out \o legs.out)
LowerFrom(b, at, lb) == JoinLatched(at, Legs(b, at.p, lb))
LowerBranch(b, p, lb) ==
    IF \A n \in DOMAIN b.legs : Pure(b.legs[n]) THEN JoinPure(p, Legs(b, True, lb))
    ELSE LowerFrom(b, IF Readers(b) > 1 THEN Latch("_ld_p" \o ToString(b.id), p) ELSE With(p, <<>>), lb)

Inverted(neg, e) == IF neg THEN NotE(e) ELSE e
AddInput(acc, pin, r) ==
    [args |-> Append(acc.args, [n |-> pin.n, e |-> Inverted(pin.neg, r.p)]), out |-> acc.out \o r.out]
LowerInput(b, p, lb, acc, pin) ==
    CASE pin.n = b.pin -> AddInput(acc, pin, With(p, <<>>))
      [] pin.n # b.pin /\ pin.r # <<>> -> AddInput(acc, pin, LowerSeries(pin.r[1], True, lb))
      [] pin.n # b.pin /\ pin.r = <<>> /\ pin.v # <<>> -> AddInput(acc, pin, With(pin.v[1], <<>>))
      [] OTHER -> acc
Inputs(b, p, lb) ==
    FoldLeft(LAMBDA acc, pin : LowerInput(b, p, lb, acc, pin), [args |-> <<>>, out |-> <<>>], PinsIn(b, "in"))

Outputs(b) == PinsIn(b, "out")
EnoUsed(b) == \/ b.pout = "ENO"
              \/ \E j \in DOMAIN b.pins : b.pins[j].n = "ENO" /\ (b.pins[j].v # <<>> \/ b.pins[j].r # <<>>)
(* what the outputs drive, v(pin) being a pin's value; guard: EN of a function *)
Drives(b, v(_), guard(_), lb) ==
    FoldLeft(LAMBDA out, pin :
               LET written == IF pin.v = <<>> THEN <<>> ELSE Guarded(guard(pin), <<Set(pin.v[1].x, v(pin))>>)
               IN out \o written \o (IF pin.r = <<>> THEN <<>> ELSE LowerSeries(pin.r[1], v(pin), lb).out),
             <<>>, Outputs(b))
PowerAfter(b, p, v) == IF b.pin = "" THEN And(p, v) ELSE v
Negated(b) == \E j \in DOMAIN Outputs(b) : Outputs(b)[j].n = b.pout /\ Outputs(b)[j].neg

LowerInstance(b, p, en, args, lb) ==
    LET eno == IF EnoUsed(b) THEN Latch("_ld_en" \o ToString(b.id), en) ELSE With(en, <<>>)
        Reads(n) == IF n = "ENO" THEN eno.p ELSE Mem(b.inst, n)
        Of(pin) == Inverted(pin.neg, Reads(pin.n))
        Always(pin) == True
    IN With(IF b.pout = "" THEN p ELSE PowerAfter(b, p, Inverted(Negated(b), Reads(b.pout))),
            eno.out \o Guarded(eno.p, <<Invoke(b.inst, b.name, args)>>) \o Drives(b, Of, Always, lb))

(* IEC operators become ST operators *)
FunctionExpr(b, es) ==
    CASE b.name = "MOVE" -> es[1]
      [] b.name = "NOT" -> NotE(es[1])
      [] b.name \in {"EQ", "GT", "GE", "LT", "LE"} ->
            LET pairs == [j \in 1..Len(es) - 1 |-> Bin(b.name, es[j], es[j + 1])]
            IN FoldLeft(LAMBDA l, r : Bin("AND", l, r), Head(pairs), Tail(pairs))
      [] OTHER -> FoldLeft(LAMBDA l, r : Bin(b.name, l, r), Head(es), Tail(es))
WhileEnabled_Mut(en, pin) == True
WhileEnabled(en, pin) == IF pin.n = "ENO" THEN True ELSE en
LowerFunction(b, p, en, args, lb) ==
    LET f == FunctionExpr(b, [j \in DOMAIN args |-> args[j].e])
        Of(pin) == Inverted(pin.neg, IF pin.n = "ENO" THEN en ELSE f)
        Guard(pin) == WhileEnabled(en, pin)
    IN With(CASE b.pout = "" -> p
              [] b.pout = "ENO" -> PowerAfter(b, p, en)
              [] OTHER -> PowerAfter(b, p, Inverted(Negated(b), f)),
            Drives(b, Of, Guard, lb))
Following(out, r) == With(r.p, out \o r.out)
EnOf(args) == LET ens == SelectSeq(args, LAMBDA a : a.n = "EN") IN IF ens # <<>> THEN ens[1].e ELSE True
LowerApplied(b, p, en, args, lb) ==
    IF b.inst # "" THEN LowerInstance(b, p, en, args, lb) ELSE LowerFunction(b, p, en, args, lb)
LowerFed(b, p, ins, lb) ==
    Following(ins.out, LowerApplied(b, p, EnOf(ins.args), SelectSeq(ins.args, LAMBDA a : a.n # "EN"), lb))
LowerBlock(b, p, lb) == LowerFed(b, p, Inputs(b, p, lb), lb)

LowerElement(el, p, lb) ==
    CASE el.k = "contact" -> LowerContact(el, p)
      [] el.k = "coil" -> LowerCoil(el, p)
      [] el.k = "branch" -> LowerBranch(el, p, lb)
      [] el.k = "block" -> LowerBlock(el, p, lb)
      [] el.k = "jump" -> With(p, Guarded(p, <<Set("_ld_jmp", Lit(lb[el.label]))>>))
      [] el.k = "ret" -> With(p, Guarded(p, <<Return>>))
      [] el.k = "st" -> With(p, Guarded(p, el.ss))
LowerSeries(es, p, lb) ==
    FoldLeft(LAMBDA acc, el : Following(acc.out, LowerElement(el, acc.p, lb)), With(p, <<>>), es)

(* labels are numbered in rung order; a jump is taken by skipping every rung  *)
(* until its label, and backwards by going round a loop once more             *)
RECURSIVE Jumps(_)
Jumps(es) == UNION {CASE es[j].k = "jump" -> {es[j].label}
                      [] es[j].k = "branch" -> UNION {Jumps(es[j].legs[n]) : n \in DOMAIN es[j].legs}
                      [] OTHER -> {} : j \in DOMAIN es}
Labels(rungs) ==
    LET at == {j \in DOMAIN rungs : rungs[j].label # ""}
    IN [label \in {rungs[j].label : j \in at} |->
          Cardinality({j \in at : j <= Labelled(rungs, label)})]
Backward(to, from) == to <= from
LabelBound(n) == Bin("EQ", Id("_ld_jmp"), Lit(n))
NoJump == Set("_ld_jmp", Lit(0))
Skipping(jumps, ss) == IF ss = <<>> \/ ~jumps THEN ss ELSE <<If(LabelBound(0), ss)>>
LowerRung(g, lb, jumps) ==
    (IF g.label = "" THEN <<>> ELSE <<If(LabelBound(lb[g.label]), <<NoJump>>)>>)
    \o Skipping(jumps, LowerSeries(g.es, True, lb).out)
LowerRungs(rungs, lb, jumps) == FlattenSeq([j \in DOMAIN rungs |-> LowerRung(rungs[j], lb, jumps)])
GoesBack(rungs) == \E j \in DOMAIN rungs : \E l \in Jumps(rungs[j].es) : Backward(Labelled(rungs, l), j)
Looped(back, pass) == IF back THEN <<Loop(Append(pass, If(LabelBound(0), <<Exit>>)))>> ELSE pass
LowerRoutine(rungs) ==
    LET jumps == \E j \in DOMAIN rungs : Jumps(rungs[j].es) # {}
    IN (IF jumps THEN <<NoJump>> ELSE <<>>) \o Looped(GoesBack(rungs), LowerRungs(rungs, Labels(rungs), jumps))
-----------------------------------------------------------------------------
Blocks == {"TON", "TOF", "TP", "CTU", "CTD", "CTUD", "R_TRIG", "F_TRIG", "SR", "RS"}
PinIns == [TON |-> <<"IN">>, TOF |-> <<"IN">>, TP |-> <<"IN">>, CTU |-> <<"CU", "R">>, CTD |-> <<"CD", "LD">>,
           CTUD |-> <<"CU", "CD", "R", "LD">>, R_TRIG |-> <<"CLK">>, F_TRIG |-> <<"CLK">>,
           SR |-> <<"S1", "R">>, RS |-> <<"S", "R1">>]
PinOuts == [TON |-> <<"Q", "ET">>, TOF |-> <<"Q", "ET">>, TP |-> <<"Q", "ET">>, CTU |-> <<"Q", "CV">>, CTD |-> <<"Q", "CV">>,
            CTUD |-> <<"QU", "QD", "CV">>, R_TRIG |-> <<"Q">>, F_TRIG |-> <<"Q">>, SR |-> <<"Q1">>, RS |-> <<"Q1">>]
PowerIn(ty) == PinIns[ty][1]
PowerOut(ty) == PinOuts[ty][1]

IsBool(e) == \/ e.k = "id" /\ Types[e.x] = "BOOL"
             \/ e.k = "mem" /\ e.m \in {"Q", "Q1", "QU", "QD", "ENO"}
Compares == {"EQ", "NE", "GT", "GE", "LT", "LE"}
Joins == {"AND", "OR"}
RECURSIVE Drawable(_)
Drawable(e) == \/ e.k = "lit" \/ IsBool(e)
               \/ e.k = "not" /\ Drawable(e.e)
               \/ e.k = "bin" /\ e.op \in Joins /\ Drawable(e.l) /\ Drawable(e.r)
               \/ e.k = "bin" /\ e.op \in Compares

(* n is the last id handed out *)
Drawn(es, n) == [es |-> es, n |-> n]
Kind(neg) == IF neg THEN "nc" ELSE "no"
InSeries(op, neg) == (op = "AND") # neg            \* De Morgan: NOT swaps them
Compare(e, neg, n) ==
    LET x == "ld_cmp" \o ToString(n + 1)
    IN Drawn(<<Block(n + 1, e.op, "", <<Power("EN"), In("IN1", e.l), In("IN2", e.r), Out("ENO"), To("OUT", x)>>, "EN", "ENO"),
               Contact(n + 2, Id(x), Kind(neg))>>, n + 2)

RECURSIVE Contacts(_, _, _), OrLegs(_, _, _)
(* the contacts for e, or for NOT e *)
Contacts(e, neg, n) ==
    CASE e.k = "lit" -> Drawn(<<Contact(n + 1, Lit(Flip(neg, e.n)), "no")>>, n + 1)
      [] e.k = "not" -> Contacts(e.e, ~neg, n)
      [] e.k = "bin" /\ e.op \in Joins ->
            IF InSeries(e.op, neg)
            THEN LET l == Contacts(e.l, neg, n)
                     r == Contacts(e.r, neg, l.n)
                 IN Drawn(l.es \o r.es, r.n)
            ELSE LET legs == OrLegs(e, neg, n) IN Drawn(<<Branch(legs.n + 1, legs.es)>>, legs.n + 1)
      [] e.k = "bin" /\ e.op \in Compares -> Compare(e, neg, n)
      [] OTHER -> Drawn(<<Contact(n + 1, e, Kind(neg))>>, n + 1)
OrLegs(e, neg, n) ==
    IF e.k = "bin" /\ e.op \in Joins /\ ~InSeries(e.op, neg)
    THEN LET l == OrLegs(e.l, neg, n)
             r == OrLegs(e.r, neg, l.n)
         IN Drawn(l.es \o r.es, r.n)
    ELSE LET leg == Contacts(e, neg, n) IN Drawn(<<leg.es>>, leg.n)

Arithmetic == {"ADD", "SUB", "MUL", "DIV", "MOD"}
MathBox(x, e, n) ==
    LET ins == IF e.k = "bin" /\ e.op \in Arithmetic THEN <<In("IN1", e.l), In("IN2", e.r)>> ELSE <<In("IN", e)>>
    IN Block(n, IF Len(ins) = 2 THEN e.op ELSE "MOVE", "",
             <<Power("EN")>> \o ins \o <<Out("ENO"), To("OUT", x)>>, "EN", "ENO")

DrawAssign(s, n) ==
    IF Types[s.x] = "BOOL" /\ Drawable(s.e)
    THEN LET c == Contacts(s.e, FALSE, n) IN Drawn(Append(c.es, Coil(c.n + 1, s.x, "normal")), c.n + 1)
    ELSE Drawn(<<MathBox(s.x, s.e, n + 1)>>, n + 1)

(* only TRUE and FALSE into BOOLs, or one RETURN *)
Settable(s) == \/ Drawable(s.c) /\ s.b # <<>> /\ \A j \in DOMAIN s.b : s.b[j].k = "set" /\ s.b[j].e.k = "lit" /\ Types[s.b[j].x] = "BOOL"
               \/ Drawable(s.c) /\ s.b = <<Return>>
DrawIf(s, n) ==
    LET c == Contacts(s.c, FALSE, n)
        outs == [j \in DOMAIN s.b |-> IF s.b[j].k = "return" THEN Ret
                                      ELSE Coil(c.n + j, s.b[j].x, IF s.b[j].e = True THEN "set" ELSE "reset")]
        m == c.n + Len(outs)
    IN IF Len(outs) = 1 THEN Drawn(c.es \o outs, m)
       ELSE Drawn(Append(c.es, Branch(m + 1, [j \in DOMAIN outs |-> <<outs[j]>>])), m + 1)

(* the assignments after a call that only copy its outputs: one copy of the   *)
(* power output drives a coil, the others fill output pins                    *)
ArgOf(args, pin) == SelectSeq(args, LAMBDA a : a.n = pin)
Absorb(s, powered, rest, pins) ==
    LET Fits(acc, t) == t.k = "set" /\ t.e.k = "mem" /\ t.e.x = s.x /\ ~acc.done
        Coils(acc, t) == t.e.m = PowerOut(s.ty) /\ acc.coil = "" /\ powered /\ Types[t.x] = "BOOL"
        Free(acc, t) == \E j \in DOMAIN acc.pins : acc.pins[j].n = t.e.m /\ acc.pins[j].v = <<>>
        Step(acc, t) ==
            CASE ~Fits(acc, t) -> [acc EXCEPT !.done = TRUE]
              [] Fits(acc, t) /\ Coils(acc, t) -> [acc EXCEPT !.coil = t.x, !.used = @ + 1]
              [] Fits(acc, t) /\ ~Coils(acc, t) /\ Free(acc, t) ->
                    [acc EXCEPT !.used = @ + 1,
                                !.pins = [j \in DOMAIN @ |-> IF @[j].n = t.e.m THEN To(t.e.m, t.x) ELSE @[j]]]
              [] OTHER -> [acc EXCEPT !.done = TRUE]
    IN FoldLeft(Step, [pins |-> pins, coil |-> "", used |-> 0, done |-> FALSE], rest)
DrawCall(s, rest, n) ==
    LET arg == ArgOf(s.args, PowerIn(s.ty))
        powered == arg # <<>> /\ Drawable(arg[1].e)
        c == IF powered THEN Contacts(arg[1].e, FALSE, n) ELSE Drawn(<<>>, n)
        Given(pin) == IF (pin = PowerIn(s.ty) /\ powered) \/ ArgOf(s.args, pin) = <<>> THEN Power(pin)
                      ELSE In(pin, ArgOf(s.args, pin)[1].e)
        Wanted(pin) == IF ArgOf(s.outs, pin) = <<>> THEN Out(pin) ELSE To(pin, ArgOf(s.outs, pin)[1].x)
        outs == [j \in DOMAIN PinOuts[s.ty] |-> Wanted(PinOuts[s.ty][j])]
        a == Absorb(s, powered, rest, outs)
        box == Block(c.n + 1, s.ty, s.x, [j \in DOMAIN PinIns[s.ty] |-> Given(PinIns[s.ty][j])] \o a.pins,
                     IF powered THEN PowerIn(s.ty) ELSE "", IF a.coil = "" THEN "" ELSE PowerOut(s.ty))
        coil == IF a.coil = "" THEN <<>> ELSE <<Coil(c.n + 2, a.coil, "normal")>>
    IN [es |-> c.es \o <<box>> \o coil, n |-> c.n + 2, used |-> a.used]

One(d) == [es |-> d.es, n |-> d.n, used |-> 0]
DrawStatement(s, rest, n) ==
    CASE s.k = "set" -> One(DrawAssign(s, n))
      [] s.k = "if" /\ Settable(s) -> One(DrawIf(s, n))
      [] s.k = "return" -> One(Drawn(<<Ret>>, n))
      [] s.k = "call" -> DrawCall(s, rest, n)
      [] OTHER -> One(Drawn(<<StBox(<<s>>)>>, n))
RECURSIVE DrawFrom(_, _, _)
DrawnThen(ss, j, d) == <<Rung("", d.es)>> \o DrawFrom(ss, j + 1 + d.used, d.n)
DrawFrom(ss, j, n) ==
    IF j > Len(ss) THEN <<>> ELSE DrawnThen(ss, j, DrawStatement(ss[j], SubSeq(ss, j + 1, Len(ss)), n))
Draw(ss) == DrawFrom(ss, 1, 0)
=============================================================================
