---------------------------- MODULE ControlFlow ----------------------------
(* Statements as plcc-codegen lowers them: basic blocks built with a cursor   *)
(* that appends blindly, branches to joins, loop targets and the POU's exit.  *)
(* A program runs twice in lockstep, as its blocks and as the statements the  *)
(* language defines; every expression it evaluates is answered by the         *)
(* environment, so every outcome of every condition is followed.              *)
EXTENDS Integers, Sequences, FiniteSets, SequencesExt

CONSTANTS Programs,     \* sequences of statements
          Numbers       \* the FOR control variable's values, an interval that wraps

VARIABLES
    pou,        \* [blocks, body, ref]: a POU's blocks and the statements they were compiled from
    machine,    \* the blocks' position [at, was, todo], registers and control variable
    ref         \* the statements still to run, innermost first, and the control variable

vars == <<pou, machine, ref>>

WrapNumber(x) == LET lo == CHOOSE n \in Numbers : \A m \in Numbers : n <= m
                     size == Cardinality(Numbers)
                 IN lo + ((x - lo) % size)

-----------------------------------------------------------------------------
(* The builder.  A block is a sequence of instructions; "cur" is where the    *)
(* next one goes, exit, cont and ret are the targets of EXIT, CONTINUE and    *)
(* RETURN (0: none), and "ok" says whether compilation has failed.            *)
Empty == [blocks |-> << <<>> >>, cur |-> 1, exit |-> 0, cont |-> 0, ret |-> 0, regs |-> 0, ok |-> TRUE]
Block(b) == Len(b.blocks) + 1       \* the index the next block will have
Append1(b) == [b EXCEPT !.blocks = Append(@, <<>>)]
Blocks(b, n) == IF n = 2 THEN Append1(Append1(b)) ELSE IF n = 3 THEN Append1(Append1(Append1(b)))
                ELSE IF n = 4 THEN Append1(Append1(Append1(Append1(b)))) ELSE Append1(b)
At(b, k) == [b EXCEPT !.cur = k]
Emit(b, i) == [b EXCEPT !.blocks[b.cur] = Append(@, i)]
Terminators == {"br", "if", "end", "unreachable"}
Terminated(block) == block # <<>> /\ Last(block).op \in Terminators
Br(b, k) == Emit(b, [op |-> "br", to |-> k])
If(b, r, k, n) == Emit(b, [op |-> "if", reg |-> r, to |-> k, else |-> n])
BranchToJoin(b, k) == IF Terminated(b.blocks[b.cur]) THEN b ELSE Br(b, k)
Eval(b, e) == Emit([b EXCEPT !.regs = @ + 1], [op |-> "eval", e |-> e, reg |-> b.regs + 1])
Set(b, f) == Emit([b EXCEPT !.regs = @ + 1], f @@ [op |-> "set", reg |-> b.regs + 1])
Store(b, x, r) == Emit(b, [op |-> "store", var |-> x, reg |-> r])

(* Conditions: <<e>> is evaluated   , <<"AND_THEN" or "OR_ELSE", left, right>>*)
(* evaluates its right side only when the left leaves it open.  The value is  *)
(* left in the builder's last register.                                       *)
RECURSIVE Condition(_, _)
Condition(b0, c) ==
    IF Len(c) = 1 THEN Eval(b0, c[1])
    ELSE LET l == Condition(b0, c[2])
             rhs == Block(l)
             join == rhs + 1
             b1 == Blocks(l, 2)
             b2 == IF c[1] = "AND_THEN" THEN If(b1, l.regs, rhs, join) ELSE If(b1, l.regs, join, rhs)
             r == Condition(At(b2, rhs), c[3])
         IN Set(At(Br(r, join), join), [f |-> "phi", in |-> << <<l.cur, l.regs>>, <<r.cur, r.regs>> >>])

(* A fault branches away to a block that calls the hook and does not return.  *)
FaultIf(b0, r) ==
    LET ok == Block(b0)
        b1 == If(Blocks(b0, 2), r, ok + 1, ok)
        b2 == Emit(At(b1, ok + 1), [op |-> "do", what |-> "fault"])
    IN At(Emit(b2, [op |-> "unreachable"]), ok)

RECURSIVE Statement(_, _)
Statements(b, ss) == FoldLeft(Statement, b, ss)

InLoop(b, exit, cont) == [b EXCEPT !.exit = exit, !.cont = cont]
OutOfLoop_Mut(b, outer) == b
OutOfLoop(b, outer) == [b EXCEPT !.exit = outer.exit, !.cont = outer.cont]

\* EXIT, CONTINUE and RETURN leave the cursor in a block nothing branches to.
Leave(b, k) == At(Append1(Br(b, k)), Block(b))

CompileExit(b) == IF b.exit = 0 THEN [b EXCEPT !.ok = FALSE] ELSE Leave(b, b.exit)
CompileContinue(b) == IF b.cont = 0 THEN [b EXCEPT !.ok = FALSE] ELSE Leave(b, b.cont)
CompileReturn(b, s) ==
    LET v == IF s.value THEN Store(Eval(b, "value"), "result", b.regs + 1) ELSE b
    IN At(Append1(BranchToJoin(v, b.ret)), Block(v))

\* IF, its ELSIFs and its ELSE: every false edge is a block of its own.
ElseChain(b0, arms, merge) ==
    FoldLeft(LAMBDA b, arm :
                 LET c == Condition(b, arm[1])
                     yes == Block(c)
                     body == Statements(At(If(Blocks(c, 2), c.regs, yes, yes + 1), yes), arm[2])
                 IN At(BranchToJoin(body, merge), yes + 1), b0, arms)
CompileIf(b0, s) ==
    LET c == Condition(b0, s.arms[1][1])
        yes == Block(c)
        merge == yes + 1
        else == yes + 2
        plain == Len(s.arms) = 1 /\ s.else = <<>>
        b1 == If(Blocks(c, IF plain THEN 2 ELSE 3), c.regs, yes, IF plain THEN merge ELSE else)
        b2 == BranchToJoin(Statements(At(b1, yes), s.arms[1][2]), merge)
        b3 == Statements(ElseChain(At(b2, else), Tail(s.arms), merge), s.else)
    IN At(IF plain THEN b2 ELSE BranchToJoin(b3, merge), merge)

CompileWhile(b0, s) ==
    LET cond == Block(b0)
        b1 == At(Br(InLoop(Blocks(b0, 3), cond + 2, cond), cond), cond)
        c == Condition(b1, s.cond)
        b2 == At(If(c, c.regs, cond + 1, cond + 2), cond + 1)
    IN OutOfLoop(At(BranchToJoin(Statements(b2, s.body), cond), cond + 2), b0)

CompileRepeat(b0, s) ==
    LET body == Block(b0)
        b1 == At(Br(InLoop(Blocks(b0, 3), body + 2, body + 1), body), body)
        b2 == At(BranchToJoin(Statements(b1, s.body), body + 1), body + 1)
        c == Condition(b2, s.cond)
    IN OutOfLoop(At(If(c, c.regs, body + 2, body), body + 2), b0)

\* FOR: start, end and step once each, in this order, the start stored before the
\* step is evaluated; CONTINUE goes to the increment, not to the test.
Step(b, s) == IF s.by.run THEN Eval(b, "step") ELSE Set(b, [f |-> "const", value |-> s.by.n])
Down(b, s, r) == IF s.by.run THEN Set(b, [f |-> "negative", of |-> r]) ELSE Set(b, [f |-> "const", value |-> s.by.n < 0])
ContinueTarget(loop) == loop + 2
CompileFor(b0, s) ==
    LET from == Eval(b0, "from")
        to == Eval(from, "to")
        step == Step(Store(to, "i", from.regs), s)
        down == Down(step, s, step.regs)
        loop == Block(down)
        b1 == At(Br(InLoop(Blocks(down, 4), loop + 3, ContinueTarget(loop)), loop), loop)
        test == Set(b1, [f |-> "within", to |-> to.regs, down |-> down.regs])
        b2 == At(If(test, test.regs, loop + 1, loop + 3), loop + 1)
        b3 == At(BranchToJoin(Statements(b2, s.body), loop + 2), loop + 2)
        next == Set(b3, [f |-> "next", step |-> step.regs])
    IN IF ~s.by.run /\ s.by.n = 0 THEN [b0 EXCEPT !.ok = FALSE]
       ELSE OutOfLoop(At(BranchToJoin(Store(next, "i", next.regs), loop), loop + 3), b0)

\* CASE: the selector once, then the branches' labels in order, first match wins.
CompileCase(b0, s) ==
    LET sel == Eval(b0, "selector")
        n == Len(s.branches)
        end == Block(sel)
        else == IF s.else = <<>> THEN end ELSE end + 1
        b1 == Blocks(sel, IF s.else = <<>> THEN 1 ELSE 2)
        first == Block(b1)      \* branch k is compiled at first + 2 * (k - 1), the test after it next to it
        Test(b, k) ==
            LET hit == Set(b, [f |-> "in", of |-> sel.regs, labels |-> s.branches[k][1]])
                next == IF k < n THEN first + 2 * k - 1 ELSE else
            IN At(If(Blocks(hit, IF k < n THEN 2 ELSE 1), hit.regs, first + 2 * (k - 1), next), next)
        tests == FoldLeft(Test, b1, [k \in 1..n |-> k])
        b2 == IF n = 0 THEN Br(b1, else) ELSE tests
        bodies == FoldLeft(LAMBDA b, k : BranchToJoin(Statements(At(b, first + 2 * (k - 1)), s.branches[k][2]), end),
                           b2, [k \in 1..n |-> k])
        b3 == IF s.else = <<>> THEN bodies ELSE BranchToJoin(Statements(At(bodies, else), s.else), end)
    IN At(b3, end)

\* An integer division: a zero divisor faults.
CompileDivision(b0) ==
    LET d == Eval(b0, "divisor")
        z == Set(d, [f |-> "in", of |-> d.regs, labels |-> { <<0, 0>> }])
    IN Emit(FaultIf(z, z.regs), [op |-> "do", what |-> "divide"])

Statement(b, s) ==
    IF ~b.ok THEN b
    ELSE CASE s.k = "do" -> Emit(b, [op |-> "do", what |-> s.what])
           [] s.k = "divide" -> CompileDivision(b)
           [] s.k = "exit" -> CompileExit(b)
           [] s.k = "continue" -> CompileContinue(b)
           [] s.k = "return" -> CompileReturn(b, s)
           [] s.k = "if" -> CompileIf(b, s)
           [] s.k = "while" -> CompileWhile(b, s)
           [] s.k = "repeat" -> CompileRepeat(b, s)
           [] s.k = "for" -> CompileFor(b, s)
           [] s.k = "case" -> CompileCase(b, s)

CompilePou(body) ==
    LET b == BranchToJoin(Statements([Append1(Empty) EXCEPT !.ret = 2], body), 2)
    IN Emit(At(b, 2), [op |-> "end"])

-----------------------------------------------------------------------------
(* The blocks run.  "br", "if" and "set" are silent; the others are what an   *)
(* observer sees: an expression evaluated, a variable stored, a call made.    *)
SetValue(m, i) ==
    CASE i.f = "const" -> i.value
      [] i.f = "phi" -> m.regs[(CHOOSE p \in Range(i.in) : p[1] = m.was)[2]]
      [] i.f = "negative" -> m.regs[i.of] < 0
      [] i.f = "within" -> IF m.regs[i.down] THEN m.i >= m.regs[i.to] ELSE m.i <= m.regs[i.to]
      [] i.f = "next" -> WrapNumber(m.i + m.regs[i.step])
      [] i.f = "in" -> \E l \in i.labels : l[1] <= m.regs[i.of] /\ m.regs[i.of] <= l[2]
Goto(m, p, k) == [m EXCEPT !.was = m.at, !.at = k, !.todo = p.blocks[k]]
RECURSIVE Settle(_, _)
Settle(m, p) ==
    IF m.todo = <<>> THEN m
    ELSE LET i == Head(m.todo)
         IN CASE i.op = "br" -> Settle(Goto(m, p, i.to), p)
              [] i.op = "if" -> Settle(Goto(m, p, IF m.regs[i.reg] THEN i.to ELSE i.else), p)
              [] i.op = "set" -> Settle([m EXCEPT !.regs = (i.reg :> SetValue(m, i)) @@ @, !.todo = Tail(@)], p)
              [] OTHER -> m
Seen(m) ==
    IF m.todo = <<>> THEN <<"nothing left in the block">>
    ELSE LET i == Head(m.todo)
         IN CASE i.op = "eval" -> <<"eval", i.e>>
              [] i.op = "store" -> <<"store", i.var, m.regs[i.reg]>>
              [] i.op = "do" -> <<"do", i.what>>
              [] OTHER -> <<i.op>>
Advance(m, p, v) ==
    LET i == Head(m.todo)
        next == [m EXCEPT !.todo = Tail(@)]
    IN Settle(CASE i.op = "eval" -> [next EXCEPT !.regs = (i.reg :> v) @@ @]
                [] i.op = "store" /\ i.var = "i" -> [next EXCEPT !.i = m.regs[i.reg]]
                [] OTHER -> next, p)

-----------------------------------------------------------------------------
(* The language.  What is left to run is a sequence of statements and of      *)
(* markers: of a loop being run, and of a value that is waited for.           *)
Ask(c, yes, no) == [k |-> "ask", c |-> c, yes |-> yes, no |-> no]
IsLoop(f) == f.k \in {"whiling", "repeating", "foring"}
Enclosing(todo) == CHOOSE n \in DOMAIN todo : IsLoop(todo[n]) /\ \A m \in 1..(n - 1) : ~IsLoop(todo[m])
Drop(todo, n) == SubSeq(todo, n + 1, Len(todo))
Arms(arms, else) == FoldRight(LAMBDA arm, rest : <<Ask(arm[1], arm[2], rest)>>, arms, else)
Matching(s, v) == {n \in DOMAIN s.branches : \E l \in s.branches[n][1] : l[1] <= v /\ v <= l[2]}

\* Statements that only arrange what runs next.
RECURSIVE Unfold(_, _)
Unfold(todo, i) ==
    IF todo = <<>> THEN todo
    ELSE LET s == Head(todo)
             rest == Tail(todo)
         IN CASE s.k = "exit" -> Unfold(Drop(todo, Enclosing(todo)), i)
              [] s.k = "continue" -> Unfold(Drop(todo, Enclosing(todo) - 1), i)
              [] s.k = "return" /\ ~s.value -> <<>>
              [] s.k = "if" -> Unfold(Arms(s.arms, s.else) \o rest, i)
              [] s.k = "while" -> Unfold(<<[s EXCEPT !.k = "whiling"]>> \o rest, i)
              [] s.k = "whiling" -> Unfold(<<Ask(s.cond, s.body \o <<s>>, << >>)>> \o rest, i)
              [] s.k = "repeat" -> Unfold(s.body \o <<[s EXCEPT !.k = "repeating"]>> \o rest, i)
              [] s.k = "repeating" -> Unfold(<<Ask(s.cond, << >>, s.body \o <<s>>)>> \o rest, i)
              [] s.k = "testing" ->
                    IF (IF s.step < 0 THEN i >= s.to ELSE i <= s.to)
                    THEN Unfold(s.body \o <<[s EXCEPT !.k = "foring"]>> \o rest, i) ELSE Unfold(rest, i)
              [] s.k = "ask" /\ Len(s.c) > 1 ->
                    Unfold((IF s.c[1] = "AND_THEN" THEN <<Ask(s.c[2], <<Ask(s.c[3], s.yes, s.no)>>, s.no)>>
                            ELSE <<Ask(s.c[2], s.yes, <<Ask(s.c[3], s.yes, s.no)>>)>>) \o rest, i)
              [] OTHER -> todo

Expected(r) ==
    IF r.todo = <<>> THEN <<"end">>
    ELSE LET s == Head(r.todo)
         IN CASE s.k = "do" -> <<"do", s.what>>
              [] s.k = "divide" -> <<"eval", "divisor">>
              [] s.k = "return" -> <<"eval", "value">>
              [] s.k = "ask" -> <<"eval", s.c[1]>>
              [] s.k = "case" -> <<"eval", "selector">>
              [] s.k = "for" -> <<"eval", "from">>
              [] s.k = "ending" -> <<"eval", "to">>
              [] s.k = "starting" -> <<"store", "i", s.from>>
              [] s.k = "stepping" -> <<"eval", "step">>
              [] s.k = "foring" -> <<"store", "i", WrapNumber(r.i + s.step)>>
              [] s.k = "result" -> <<"store", "result", s.v>>
              [] s.k = "faulted" -> <<"unreachable">>
Answers(r) == CASE Expected(r)[1] # "eval" -> {0}
                [] Head(r.todo).k = "ask" -> BOOLEAN
                [] OTHER -> Numbers

Ran(r, v) ==
    LET s == Head(r.todo)
        rest == Tail(r.todo)
        i == IF Expected(r)[1] = "store" /\ s.k # "result" THEN Expected(r)[3] ELSE r.i
        todo ==
            CASE s.k = "do" -> IF s.what = "fault" THEN <<[k |-> "faulted"]>> ELSE rest
              [] s.k = "divide" -> <<[k |-> "do", what |-> IF v = 0 THEN "fault" ELSE "divide"]>> \o rest
              [] s.k = "return" -> <<[k |-> "result", v |-> v]>>
              [] s.k = "ask" -> (IF v THEN s.yes ELSE s.no) \o rest
              [] s.k = "case" ->
                    (IF Matching(s, v) = {} THEN s.else
                     ELSE s.branches[CHOOSE n \in Matching(s, v) : \A m \in Matching(s, v) : n <= m][2]) \o rest
              [] s.k = "for" -> <<[k |-> "ending", from |-> v, s |-> s]>> \o rest
              [] s.k = "ending" -> <<[k |-> "starting", from |-> s.from, to |-> v, s |-> s.s]>> \o rest
              [] s.k = "starting" ->
                    <<[k |-> IF s.s.by.run THEN "stepping" ELSE "testing", to |-> s.to, body |-> s.s.body,
                       step |-> s.s.by.n]>> \o rest
              [] s.k = "stepping" -> <<[s EXCEPT !.k = "testing", !.step = v]>> \o rest
              [] s.k = "foring" -> <<[s EXCEPT !.k = "testing"]>> \o rest
              [] s.k = "result" -> <<>>
    IN [todo |-> Unfold(todo, i), i |-> i]

-----------------------------------------------------------------------------
Compiled == {p \in {[body |-> s, built |-> CompilePou(s)] : s \in Programs} : p.built.ok}
Init == \E p \in Compiled :
            /\ pou = [blocks |-> p.built.blocks]
            /\ machine = Settle([at |-> 1, was |-> 0, todo |-> p.built.blocks[1], regs |-> <<>>, i |-> 0], p.built)
            /\ ref = [todo |-> Unfold(p.body, 0), i |-> 0]

Run == \E v \in Answers(ref) :
            /\ Expected(ref)[1] \notin {"end", "unreachable"}
            /\ Seen(machine) = Expected(ref)
            /\ machine' = Advance(machine, pou, v)
            /\ ref' = Ran(ref, v)
            /\ UNCHANGED pou
Next == Run

Spec == Init /\ [][Next]_vars

-----------------------------------------------------------------------------
(* Whatever conditions, bounds and selectors turn out to be, and however      *)
(* EXIT, CONTINUE, RETURN and faults cut loops and branches short, the blocks *)
(* evaluate, store and call what the statements do, in the same order.        *)
SameBehaviour == Seen(machine) = Expected(ref)

(* No block goes on after its terminator, and none lacks one: LLVM rejects or *)
(* miscompiles anything else.                                                 *)
BlocksEndOnce == \A k \in DOMAIN pou.blocks :
                    LET block == pou.blocks[k]
                    IN block # <<>> /\ \A n \in DOMAIN block : (block[n].op \in Terminators) <=> n = Len(block)
=============================================================================
