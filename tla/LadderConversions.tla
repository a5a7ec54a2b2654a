------------------------- MODULE LadderConversions --------------------------
(* A program and its conversion run side by side: a ladder routine with its   *)
(* lowering to Structured Text, Structured Text with the lowering of the      *)
(* ladder drawn from it, Logix rungs with either form of their lowering, and  *)
(* rungs of one dialect with their translation to the other.  The Add actions *)
(* write the program, Convert converts it and prescans Logix rungs, and each  *)
(* scan runs both from the same inputs.                                       *)
EXTENDS LadderTranslate

CONSTANTS Menu(_, _),          \* elements to build a program of a kind with, given an id
          Statements,          \* statements to draw
          Inputs0, Shared,     \* input variables, and the variables compared
          Instances,           \* block instances compared
          MaxElements(_), MaxRungs(_), MaxScans(_),    \* bounds for each kind of program
          MaxStatements

VARIABLES kind,                \* "lower", "draw", "folded", "long", "to_logix" or "to_iec"
          prog,                \* rungs, or statements
          out,                 \* what they were converted to: statements, or rungs
          this, that, scans    \* the source's and the conversion's scan

vars == <<kind, prog, out, this, that, scans>>

(***************************************************************************)
(* What power depends on.  The conversion passes power on as an expression *)
(* over variables: a rung is settled when nothing it writes is read again  *)
(* through the power it passes on.                                         *)
(***************************************************************************)
RECURSIVE VarsOf(_), Settles(_, _, _), WritesOf(_)
VarsOf(e) == CASE e.k \in {"id", "mem"} -> {e.x}
               [] e.k = "not" -> VarsOf(e.e)
               [] e.k = "bin" -> VarsOf(e.l) \cup VarsOf(e.r)
               [] OTHER -> {}
Written(el) == CASE el.k = "coil" -> {el.x}
                 [] el.k = "branch" -> UNION {WritesOf(el.legs[j]) : j \in DOMAIN el.legs}
                 [] el.k = "block" -> {el.pins[j].v[1].x : j \in {m \in DOMAIN el.pins : el.pins[m].dir = "out" /\ el.pins[m].v # <<>>}}
                                      \cup (IF el.inst = "" THEN {} ELSE {el.inst})
                 [] el.k = "st" -> {el.ss[j].x : j \in DOMAIN el.ss}
                 [] OTHER -> {}
WritesOf(es) == UNION {Written(es[j]) : j \in DOMAIN es}
(* what el's power output reads, its power input reading r *)
ReadsAfter(el, r) ==
    CASE el.k = "contact" -> IF el.kind \in {"no", "nc"} THEN r \cup VarsOf(el.o) ELSE r
      [] el.k = "branch" -> UNION {Settles(el.legs[j], {}, FALSE).r : j \in DOMAIN el.legs}
                            \cup (IF Pure(el.legs[1]) \/ Len(el.legs) = 1 THEN r ELSE {})
      [] el.k = "block" -> IF el.pout = "" \/ (el.pout = "ENO" /\ el.inst = "") THEN r
                           ELSE IF el.inst # "" THEN {el.inst}
                           ELSE UNION {VarsOf(el.pins[j].v[1]) : j \in {m \in DOMAIN el.pins : el.pins[m].dir = "in" /\ el.pins[m].v # <<>>}}
      [] OTHER -> r
(* used: whether anything reads the power after es *)
Settles(es, r0, used) ==
    LET Step(acc, j) ==
            LET el == es[j]
                after == ReadsAfter(el, acc.r)
                reread == IF j < Len(es) \/ used THEN after ELSE {}
                legs == el.k = "branch" =>
                          /\ \A m \in DOMAIN el.legs : Settles(el.legs[m], {}, reread # {}).ok
                          /\ reread # {} => \A m \in DOMAIN el.legs : Settles(el.legs[m], {}, TRUE).r \cap Written(el) = {}
            IN [ok |-> acc.ok /\ legs /\ Written(el) \cap (reread \ (IF el.k = "block" THEN {el.inst} ELSE {})) = {}
                              /\ (el.k = "block" /\ el.inst # "" => el.inst \notin acc.r),
                r |-> after]
    IN FoldLeft(Step, [ok |-> TRUE, r |-> r0], [j \in DOMAIN es |-> j])
Settled(rungs) == \A j \in DOMAIN rungs : Settles(rungs[j].es, {}, FALSE).ok
JumpsDefined(rungs) == \A j \in DOMAIN rungs : \A l \in Jumps(rungs[j].es) :
                          Cardinality({m \in DOMAIN rungs : rungs[m].label = l}) = 1

(***************************************************************************)
(* Where a translation is not exact: a JMP leaves a Logix rung at once,    *)
(* of which the translation warns nowhere (docs/ladder-translation.md:224, *)
(* 241 call jumps exact); a helper rung writes later than the element it   *)
(* stands for, and is skipped with the rungs a jump skips.                 *)
(***************************************************************************)
RECURSIVE Flat(_)
Flat(es) == FlattenSeq([j \in DOMAIN es |-> IF es[j].k = "branch" THEN FlattenSeq([m \in DOMAIN es[j].legs |-> Flat(es[j].legs[m])])
                                            ELSE <<es[j]>>])
Leaving(el) == el.k \in {"jump", "ret"} \/ (el.k = "ins" /\ el.op = "TND")
LeavesLast(es) == \A j \in DOMAIN Flat(es) : Leaving(Flat(es)[j]) => j = Len(Flat(es))
(* variables a helper rung after the rung writes *)
Late(el) ==
    CASE el.k = "coil" -> IF el.kind = "negated" THEN {el.x} ELSE {}
      [] el.k = "block" -> IF el.inst = "" THEN {} ELSE Written(el) \ {el.inst}
      [] el.k = "ins" -> CASE el.op = "ONS" -> {Tag(el, 1)}
                           [] el.op = "OSR" -> {Tag(el, 1)}
                           [] el.op = "OSF" -> {Tag(el, 1), Tag(el, 2)}
                           [] OTHER -> {}
      [] OTHER -> {}
Touched(el) ==
    CASE el.k = "contact" -> VarsOf(el.o)
      [] el.k = "coil" -> {el.x}
      [] el.k = "ins" -> UNION {VarsOf(el.as[j]) : j \in DOMAIN el.as}
      [] el.k = "block" -> Written(el) \cup UNION {VarsOf(el.pins[j].v[1]) : j \in {m \in DOMAIN el.pins : el.pins[m].v # <<>>}}
      [] OTHER -> {}
Undisturbed(es) ==
    LET f == Flat(es)
    IN \A j \in DOMAIN f : \A m \in j + 1..Len(f) : Touched(f[m]) \cap Late(f[j]) = {}
(* an edge contact is computed before its rung *)
EdgesEarly(es) ==
    LET f == Flat(es)
    IN \A m \in DOMAIN f : f[m].k = "contact" /\ f[m].kind \notin {"no", "nc"} =>
          \A j \in 1..m - 1 : VarsOf(f[m].o) \cap Written(f[j]) = {}
HelpersKept(es) == \A j \in DOMAIN Flat(es) : Leaving(Flat(es)[j]) => \A m \in DOMAIN Flat(es) : Late(Flat(es)[m]) = {}
(* a block with EN not simply the left rail freezes where Logix sees FALSE *)
GatedFirst(es) == \A j \in 2..Len(es) : es[j].k = "block" /\ es[j].inst # "" => es[j].pin # "EN"
(* a timer, counter or storage bit belongs to one element *)
Owned(el) == CASE el.k = "block" -> {el.inst} \ {""}
               [] el.k = "ins" -> IF el.op \in Driven \cup {"ONS", "OSR", "OSF"} THEN {Tag(el, 1)} ELSE {}
               [] OTHER -> {}
DrivenOnce(rungs) ==
    LET all == Flat(FlattenSeq([j \in DOMAIN rungs |-> rungs[j].es]))
    IN \A j, m \in DOMAIN all : j # m => Owned(all[j]) \cap Owned(all[m]) = {}
ResetsCounter(rungs) == \E el \in UNION {Leaves(rungs[j].es) : j \in DOMAIN rungs} : el.k = "ins" /\ el.op = "RES_COUNTER"
Translates(rungs) == DrivenOnce(rungs) /\ \A j \in DOMAIN rungs : LET es == rungs[j].es
                                             IN LeavesLast(es) /\ Undisturbed(es) /\ EdgesEarly(es) /\ GatedFirst(es)

(***************************************************************************)
Idle == [e |-> Empty, sig |-> "none"]
Elements == FoldLeft(LAMBDA n, g : n + Len(g.es), 0, prog)
Lowered == {"folded", "long"}
Kinds == {"lower", "to_logix", "to_iec"} \cup Lowered
StartLabels(k) == CASE k = "to_logix" -> {"L"} [] k = "to_iec" -> {""} [] OTHER -> {"", "L"}
Init == /\ \/ kind \in Kinds /\ \E l \in StartLabels(kind) : prog = <<Rung(l, <<>>)>>
           \/ kind = "draw" /\ prog = <<>>
        /\ out = <<>> /\ this = Idle /\ that = Idle /\ scans = 0

Building == scans = 0 /\ out = <<>>
AddElement ==
    /\ Building /\ kind # "draw" /\ Elements < MaxElements(kind)
    /\ \E el \in Menu(kind, 10 * Elements) : prog' = [prog EXCEPT ![Len(prog)].es = Append(@, el)]
    /\ UNCHANGED <<kind, out, this, that, scans>>
AddRung ==
    /\ Building /\ kind # "draw" /\ Len(prog) < MaxRungs(kind) /\ prog[Len(prog)].es # <<>>
    /\ \E l \in {"", "L"} : prog' = Append(prog, Rung(l, <<>>))
    /\ UNCHANGED <<kind, out, this, that, scans>>
AddStatement ==
    /\ Building /\ kind = "draw" /\ Len(prog) < MaxStatements
    /\ \E s \in Statements : prog' = Append(prog, s)
    /\ UNCHANGED <<kind, out, this, that, scans>>
(* every edge memory saw FALSE in a first scan with inputs FALSE: the prescan *)
(* and the initial values disagree on the rung before it                      *)
AllOff == [x \in Inputs0 |-> 0]
QuietBlocks(f) == \A x \in DOMAIN f : f[x].ty \in {"CTU", "CTD", "R_TRIG", "F_TRIG"} => ~f[x].in.a
QuietLadder(rungs) == QuietBlocks(ScanLadder(rungs, [Empty EXCEPT !.v = AllOff], 0).e.f)
Prescan1(rungs) == Run(PrescanRoutine(rungs), Idle, 0)
QuietRungs(rungs) ==
    LET first == ScanLogix(rungs, Subroutine, [Prescan1(rungs).e EXCEPT !.v = AllOff @@ @], 0).e
        Memory(el) == CASE el.op = "CTU" -> {Member(Tag(el, 1), "CU")}
                        [] el.op = "CTD" -> {Member(Tag(el, 1), "CD")}
                        [] el.op \in {"ONS", "OSR", "OSF"} -> {Tag(el, 1)}
                        [] OTHER -> {}
    IN \A el \in UNION {Leaves(rungs[j].es) : j \in DOMAIN rungs} :
          IF el.k = "ins" THEN \A x \in Memory(el) : Get(first, x) = 0 ELSE TRUE
Convert ==
    /\ Building /\ IF kind = "draw" THEN TRUE ELSE JumpsDefined(prog)
    /\ out' = CASE kind = "lower" -> LowerRoutine(prog)
                 [] kind = "draw" -> LowerRoutine(Draw(prog))
                 [] kind \in Lowered -> LowerLogix(prog, Subroutine, kind = "long")
                 [] kind = "to_logix" -> ToLogix(prog)
                 [] kind = "to_iec" -> ToIec(prog)
    /\ out' # <<>>
    /\ this' = IF kind \in Lowered \cup {"to_iec"} THEN Prescan1(prog) ELSE Idle
    /\ that' = CASE kind = "to_logix" -> Prescan1(out')
                  [] kind = "to_iec" -> [Idle EXCEPT !.e.v = [x \in InitTrue(prog) |-> 1]]
                  [] OTHER -> this'
    /\ CASE kind = "to_logix" -> QuietLadder(prog)
         [] kind = "to_iec" -> QuietRungs(prog)
         [] OTHER -> TRUE
    /\ UNCHANGED <<kind, prog, scans>>

Given(env, in) == [env EXCEPT !.v = in @@ @]
Source(env) == CASE kind \in {"lower", "to_logix"} -> ScanLadder(prog, env, scans)
                 [] kind = "draw" -> Run(prog, [e |-> env, sig |-> "none"], scans)
                 [] OTHER -> ScanLogix(prog, Subroutine, env, scans)
Converted(env) == CASE kind = "to_logix" -> ScanLogix(out, Subroutine, env, scans)
                    [] kind = "to_iec" -> ScanLadder(out, env, scans)
                    [] OTHER -> Run(out, [e |-> env, sig |-> "none"], scans)
Ended(r) == [e |-> r.e, sig |-> r.sig]
(* inputs are FALSE in the first scan of a translation: what the prescan does *)
(* differs between the dialects                                               *)
Scan ==
    /\ out # <<>> /\ scans < MaxScans(kind) /\ this.sig # "stuck"
    /\ \E in \in [Inputs0 -> {0, 1}] :
          /\ kind \in {"to_logix", "to_iec"} /\ scans = 0 => \A x \in Inputs0 : in[x] = 0
          /\ this' = Ended(Source(Given(this.e, in)))
          /\ that' = Ended(Converted(Given(that.e, in)))
    /\ scans' = scans + 1
    /\ UNCHANGED <<kind, prog, out>>
Next == AddElement \/ AddRung \/ AddStatement \/ Convert \/ Scan
Spec == Init /\ [][Next]_vars

Same == /\ this.sig = that.sig
        /\ \A x \in Shared : Get(this.e, x) = Get(that.e, x)
        /\ \A x \in Instances : Instance(this.e, x, Types[x]) = Instance(that.e, x, Types[x])

(* lower.rs, docs/ladder.md "Lowering rules": the statements of a settled     *)
(* routine do what power flowing through it does, over any number of scans.   *)
LoweringExact == kind = "lower" /\ Settled(prog) => Same
(* docs/ladder-translation.md "Guarantee": the ladder drawn from Structured   *)
(* Text computes what the text did.                                           *)
DrawingExact == kind = "draw" => Same
(* rll.rs: the folded and the long form of a Logix routine do what its rung   *)
(* conditions say (1756-RM003), in every scan after the prescan.              *)
RungsExact == kind \in Lowered => Same

(* an instance and the TIMER or COUNTER tag that stands for it *)
Alike(iec, lgx) ==
    /\ iec.sig = lgx.sig
    /\ \A x \in Shared : Get(iec.e, x) = Get(lgx.e, x)
    /\ \A x \in DOMAIN iec.e.f \cap DOMAIN Types :
          /\ Types[x] \in {"CTU", "CTD"} => iec.e.f[x].s.v = Get(lgx.e, Member(x, "ACC"))
          /\ Types[x] \in {"TON", "RTO"} => iec.e.f[x].s.v = Least(Get(lgx.e, Member(x, "ACC")), PT)
          /\ Types[x] \in Driven \ {"CTD"} => Bit(iec.e.f[x].s.q) = Get(lgx.e, Member(x, "DN"))
(* docs/ladder-translation.md "IEC <-> Logix translation": from the second    *)
(* scan on the Logix rungs do what the ladder does, a reset that wins over a  *)
(* count and an output that continues a FALSE rung included.                  *)
ToLogixExact == kind = "to_logix" /\ Translates(prog) /\ (\A j \in DOMAIN prog : HelpersKept(prog[j].es)) => Alike(this, that)
(* The same the other way: one-shots, timers, counters, and a retentive timer *)
(* that RES resets.                                                           *)
ToIecExact == kind = "to_iec" /\ Translates(prog) /\ (\A j \in DOMAIN prog : HelpersKept(prog[j].es)) /\ ~ResetsCounter(prog)
              => Alike(that, this)
=============================================================================
