---------------------------- MODULE MCLanguages ----------------------------
(***************************************************************************)
(* The compiler, the languages and their conversions into one another: the *)
(* code generator (MCCompile), ladder, Logix rungs, PLCopen bodies,        *)
(* Structured Text, the Logix stack instructions, and the contract of a    *)
(* compiled project with its runtime.  A behaviour is one of a single      *)
(* part: part names it, and the variables of the others stand still.       *)
(***************************************************************************)
EXTENDS LogixStack

CONSTANTS PT, PV, IntMax, Passes, Compared, BlockInstances, MaxStatements,     \* of LadderConversions
          DrawnInputs, MaxScans,                                              \* of PlcOpenFlow
          PrintedUnits, DamagedUnits, WrittenTexts,                           \* of SyntaxRoundTrip
          Units, MaxRuns,                                                     \* of RuntimeContract
          Bits, ExprVariables, ExprLiterals, AnyArgument                      \* of Expressions

VARIABLES part, v1, v2, v3, v4, v5, v6, v7, v8, v9, v10

others == <<v1, v2, v3, v4, v5, v6, v7, v8, v9, v10>>

-----------------------------------------------------------------------------
(* Menus, drawings and texts to build programs from *)
Menus == INSTANCE MCLadder WITH Types <- <<>>, Subroutine <- <<>>
MCMenu(k, i) == Menus!MCMenu(k, i)
MCElements(k) == Menus!MCElements(k)
MCRungs(k) == Menus!MCRungs(k)
MCScans(k) == Menus!MCScans(k)
Drawings == INSTANCE MCPlcOpen
Written == INSTANCE MCSyntax WITH tokens <- <<>>
MCUnits == Written!AllUnits
MCDamaged == Written!Pieces
MCTexts == Written!Written

Ladder == INSTANCE LadderConversions WITH
    Types <- Menus!MCTypes, Menu <- MCMenu, Subroutine <- Menus!MCSubroutine, Statements <- Menus!MCStatements,
    Inputs0 <- DrawnInputs, Shared <- Compared, Instances <- BlockInstances,
    MaxElements <- MCElements, MaxRungs <- MCRungs, MaxScans <- MCScans,
    kind <- v1, prog <- v2, out <- v3, this <- v4, that <- v5, scans <- v6
Flow == INSTANCE PlcOpenFlow WITH
    Bodies <- Drawings!MCBodies, Inputs <- DrawnInputs,
    body <- v1, graph <- v2, nets <- v3, code <- v4, env <- v5, flow <- v6, seen <- v7,
    rungs <- v8, drawn <- v9, scans <- v10
Syntax == INSTANCE SyntaxRoundTrip WITH
    Units <- PrintedUnits, Damaged <- DamagedUnits, Texts <- WrittenTexts,
    tokens <- v1, unit <- v2, cut <- v3, phase <- v4, out <- v5
Contract == INSTANCE RuntimeContract WITH
    unit <- v1, mem <- v2, g <- v3, ran <- v4, runs <- v5, store <- v6, saved <- v7, warm <- v8, loads <- v9
Compile == INSTANCE MCCompile WITH
    Variables <- ExprVariables, Literals <- ExprLiterals, ty <- v6, w <- v7, bits <- v8, exact <- v9, ref <- v10

ASSUME Compile!ExpressionsAssumption

MCLens == {-1, 0, 1, 3}

\* Widths keep their order with few bits each; arithmetic at 32 keeps one to
\* spare.  Variables hold what is at the limits of some type.
MCBits == [n \in {1, 8, 16, 32, 64} |-> CASE n = 1 -> 1 [] n = 8 -> 4 [] n = 16 -> 5 [] n = 32 -> 6 [] n = 64 -> 7]
InType(x, t) == IF t.s = "U" THEN 0 <= x /\ x < 2^MCBits[t.n]
                ELSE -(2^(MCBits[t.n] - 1)) <= x /\ x < 2^(MCBits[t.n] - 1)
Wide == [x \in {-64, -1, 15, 50} |->
    CASE x = -1 -> {8, 64} [] x = 15 -> {8, 16} [] OTHER -> {32, 64}]
MCVariables ==
    {<<[n |-> 1, s |-> "U"], 1>>}
    \cup {<<t, x>> \in [n : {8, 16, 32, 64}, s : {"S", "U"}] \X DOMAIN Wide : t.n \in Wide[x] /\ InType(x, t)}
MCLiterals == {20}

-----------------------------------------------------------------------------
\* Projects to load: one implicit task, with and without a called program; a CONFIGURATION with two
\* resources, a background task, a program with two instances and one that is also called.
Declare == INSTANCE RuntimeContract WITH
    Units <- {}, unit <- v1, mem <- v2, g <- v3, ran <- v4, runs <- v5, store <- v6, saved <- v7, warm <- v8, loads <- v9
IntVar(n, r) == Declare!VarDecl(n, Declare!Int1, r)
Ab == Declare!StructOf("S", <<"a", "b">>)
Motor == Declare!FbOf("Motor", <<IntVar("starts", TRUE), IntVar("speed", FALSE)>>)
Drive == Declare!FbOf("Pair", <<Declare!VarDecl("left", Motor, FALSE), Declare!VarDecl("both", Ab, TRUE)>>)
Main == Declare!Program("Main", <<Declare!VarDecl("hours", Ab, TRUE), IntVar("n", FALSE), Declare!VarDecl("drive", Drive, FALSE)>>, {"Sub"})
Sub == Declare!Program("Sub", <<IntVar("k", TRUE), Declare!VarDecl("m", Motor, TRUE)>>, {})
Alone == Declare!Program("Alone", <<IntVar("k", TRUE), Declare!VarDecl("m", Motor, FALSE)>>, {})
Other == Declare!Program("Other", <<IntVar("k", TRUE), IntVar("j", TRUE), IntVar("l", FALSE)>>, {})
NoTask == ""
Loaded ==
    {[programs |-> <<Main, Sub>>, config |-> <<>>],
     [programs |-> <<Alone>>, config |-> <<>>], [programs |-> <<Other>>, config |-> <<>>],
     [programs |-> <<Alone, Main, Sub>>,
      config |-> <<Declare!Resource("A", <<"fast", "slow">>,
                                  <<Declare!Instance("Main", "Main", "fast"), Declare!Instance("x", "Alone", "slow"),
                                    Declare!Instance("y", "Alone", NoTask)>>),
                   Declare!Resource("B", <<"fast">>, <<Declare!Instance("Sub", "Sub", "fast")>>)>>],
     [programs |-> <<Sub, Alone>>,
      config |-> <<Declare!Resource("A", <<"t">>, <<Declare!Instance("Alone", "Alone", "t"), Declare!Instance("Sub", "Sub", "t")>>)>>]}

-----------------------------------------------------------------------------
None == 0
From6 == v6 = None /\ v7 = None /\ v8 = None /\ v9 = None /\ v10 = None
From7 == v7 = None /\ v8 = None /\ v9 = None /\ v10 = None
StackOff ==
    /\ lifo = TRUE /\ literal = TRUE /\ arr = [i \in Index |-> Zero] /\ dest = Zero
    /\ c = Status([LEN |-> 0, POS |-> 0, EN |-> TRUE, EU |-> TRUE, DN |-> FALSE, EM |-> FALSE])

AllInit ==
    \/ part = "stack" /\ Init /\ v1 = None /\ v2 = None /\ v3 = None /\ v4 = None /\ v5 = None /\ From6
    \/ part = "ladder" /\ Ladder!Init /\ From7 /\ StackOff
    \/ part = "flow" /\ Flow!Init /\ StackOff
    \/ part = "syntax" /\ Syntax!Init /\ From6 /\ StackOff
    \/ part = "contract" /\ Contract!Init /\ v10 = None /\ StackOff
    \/ Compile!AllInit /\ StackOff
AllNext ==
    /\ UNCHANGED part
    /\ \/ Compile!AllNext /\ UNCHANGED vars
       \/ part = "stack" /\ Next /\ UNCHANGED others
       \/ part = "ladder" /\ Ladder!Next /\ UNCHANGED <<v7, v8, v9, v10, vars>>
       \/ part = "flow" /\ Flow!Next /\ UNCHANGED vars
       \/ part = "syntax" /\ Syntax!Next /\ UNCHANGED <<v6, v7, v8, v9, v10, vars>>
       \/ part = "contract" /\ Contract!Next /\ UNCHANGED <<v10, vars>>
AllSpec == AllInit /\ [][AllNext]_<<part, others, vars>>

-----------------------------------------------------------------------------
\* Expressions: what the emitted instructions leave, read at its width and with the sign of the type the
\* compiler believes it has, is what the expression is worth.
ExpressionsExact == Compile!ExpressionsExact

\* ControlFlow: the blocks do what the statements do, in the same order, whatever cuts them short.
ControlExact == Compile!ControlExact

\* Initialization: every variable starts with, and every local is given at each call, its declared value.
InitialValues == Compile!InitialValues

\* Calls: arguments, in-outs, globals and outputs reach what the call's text names.
CallsExact == Compile!CallsExact

\* LadderConversions: the statements of a settled routine do what power flowing through it does, those of a
\* Logix routine in either form what its rung conditions say, and the ladder drawn from Structured Text
\* computes what the text did.
LadderExact == part = "ladder" => Ladder!LoweringExact /\ Ladder!DrawingExact /\ Ladder!RungsExact

\* LadderConversions: ladder and Logix rungs translated into one another go on alike.
TranslationExact == part = "ladder" => Ladder!ToLogixExact /\ Ladder!ToIecExact

\* PlcOpenFlow: after every scan the text lowered from a body has given every variable the value the flow
\* gives it, and every instance and edge detector is called by one statement.
FlowExact == part = "flow" => Flow!FlowExact /\ Flow!CalledOnce

\* PlcOpenFlow: the ladder model read from a body does what the body does, and a model written as PLCopen XML
\* is the same when it is read back.
ModelExact == part = "flow" => Flow!ModelExact /\ Flow!RoundTrip

\* SyntaxRoundTrip: whatever unit is printed parses to the same tree, and a text that has lost a token is
\* reported or keeps all that is left of it in the tree.
PrintedParses == part = "syntax" => Syntax!RoundTrip /\ Syntax!NothingLost

\* RuntimeContract: every program runs exactly as often as its instances' tasks and its callers ran, and a
\* warm start restores every RETAIN variable under its own name and no other.
ContractKept == part = "contract" => Contract!RunsAsConfigured /\ Contract!WarmStartExact
=============================================================================
