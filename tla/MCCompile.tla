----------------------------- MODULE MCCompile -----------------------------
(***************************************************************************)
(* The parts of the code generator, each on an instance of its own.  A     *)
(* behaviour is one of a single part: part names it, and the variables of  *)
(* the others stand still.                                                 *)
(***************************************************************************)
EXTENDS Expressions, Sequences, TLC

VARIABLES part, v1, v2, v3, v4, v5

others == <<v1, v2, v3, v4, v5>>

-----------------------------------------------------------------------------
\* Statements: loops and branches that hold one another, with every way out.
Do(x) == [k |-> "do", what |-> x]
Return(v) == [k |-> "return", value |-> v]
Simple == {Do("x"), [k |-> "divide"], [k |-> "exit"], [k |-> "continue"], Return(TRUE), Return(FALSE)}
Bodies == {<<s>> : s \in Simple} \cup {<<s, Do("y")>> : s \in Simple} \cup {<<>>}
C == <<"c">>
D == <<"d">>
Chosen == {C, <<"AND_THEN", C, D>>, <<"OR_ELSE", C, <<"AND_THEN", D, <<"e">>>>>>}
Steps == {[run |-> FALSE, n |-> n] : n \in {1, -1, 2, 0}} \cup {[run |-> TRUE, n |-> 0]}     \* no BY is BY 1
Branching(B) ==
    {[k |-> "if", arms |-> <<<<c, b>>>>, else |-> e] : c \in Chosen, b \in B, e \in {<<>>, <<Do("z")>>}}
    \cup {[k |-> "if", arms |-> <<<<C, b>>, <<D, e>>>>, else |-> <<>>] : b, e \in B}
    \cup {[k |-> "case", branches |-> <<<<{<<0, 1>>}, b>>, <<{<<1, 2>>, <<-1, -1>>}, e>>>>, else |-> f] : b, e \in B, f \in {<<>>, <<Do("z")>>}}
    \cup {[k |-> "case", branches |-> <<>>, else |-> b] : b \in B}
Looping(B, conds) ==
    {[k |-> l, cond |-> c, body |-> b] : l \in {"while", "repeat"}, c \in conds, b \in B}
    \cup {[k |-> "for", by |-> by, body |-> b] : by \in Steps, b \in B}
Few == {b \in Bodies : Len(b) = 1 \/ b = <<>>} \ {<<Do("x")>>, <<Return(FALSE)>>}
Guarded(leave) == [k |-> "if", arms |-> <<<<C, <<[k |-> leave]>>>>>>, else |-> <<>>]
Fewer == Few \ {<<[k |-> "divide"]>>}
Nested == {<<s, Do("y")>> : s \in Branching(Fewer) \cup Looping(Few, {C})}
          \cup {<<s, Do("y"), Guarded(l)>> : s \in Looping({<<>>}, Chosen), l \in {"exit", "continue"}}
SmallPrograms == {<<s, Do("after")>> : s \in Looping(Bodies, Chosen) \cup Branching(Few) \cup Looping(Nested, {C})}
SmallNumbers == -1..1

-----------------------------------------------------------------------------
Control == INSTANCE ControlFlow WITH
    Programs <- SmallPrograms, Numbers <- SmallNumbers, pou <- v1, machine <- v2, ref <- v3
Inits == INSTANCE Initialization WITH
    Counting <- FALSE, project <- v1, memory <- v2, pc <- v3, starts <- v4, frame <- v5
Invoked == INSTANCE Calls WITH
    MaxCalls <- 2, callee <- v1, mem <- v2, slot <- v3, scope <- v4, calls <- v5
None == 0
ExpressionsOff == ty = None /\ w = None /\ bits = None /\ exact = None /\ ref = None
Rest == v4 = None /\ v5 = None

AllInit ==
    \/ part = "expressions" /\ Init /\ v1 = None /\ v2 = None /\ v3 = None /\ Rest
    \/ part = "control" /\ Control!Init /\ Rest /\ ExpressionsOff
    \/ part = "inits" /\ Inits!Init /\ ExpressionsOff
    \/ part = "calls" /\ Invoked!Init /\ ExpressionsOff
AllNext ==
    /\ UNCHANGED part
    /\ \/ part = "expressions" /\ Next /\ UNCHANGED others
       \/ part = "control" /\ Control!Next /\ UNCHANGED <<v4, v5, vars>>
       \/ part = "inits" /\ Inits!Next /\ UNCHANGED vars
       \/ part = "calls" /\ Invoked!Next /\ UNCHANGED vars
AllSpec == AllInit /\ [][AllNext]_<<part, others, vars>>

-----------------------------------------------------------------------------
\* Expressions!ValueIsExact: what the emitted instructions leave, read at its width and with the sign
\* of the type the compiler believes it has, is what the expression is worth.
ExpressionsExact == part = "expressions" => ValueIsExact

\* ControlFlow: the blocks evaluate, store and call what the statements do, in the same order, whatever
\* cuts loops and branches short, and no block goes on after its terminator or lacks one.
ControlExact == part = "control" => Control!SameBehaviour /\ Control!BlocksEndOnce

\* Initialization: after a cold start every variable, and at every call every local, holds the value its
\* declaration states.
InitialValues == part = "inits" => Inits!InitialValues

\* Calls: arguments, in-outs, globals and outputs reach what the call's text names, and only a lawful
\* argument list is compiled.
CallsExact == part = "calls" => Invoked!CallsExact
=============================================================================
