------------------------------- MODULE StParser -------------------------------
(***************************************************************************)
(* The Structured Text parser: from a sequence of tokens to a syntax tree  *)
(* and a number of errors.  It never stops at an error: a token it did not *)
(* find is reported and not consumed, and every loop either consumes a     *)
(* token or leaves.                                                        *)
(*                                                                         *)
(* A token is a string; one that is no keyword, symbol or literal is an    *)
(* identifier.  "=." is an "=" that touches the token before it.  The      *)
(* lexer, source positions and pragmas are left out.                       *)
(*                                                                         *)
(* A parser state is [p: position, e: errors so far, t: the tree or list   *)
(* built last, a: pending FB_init arguments, q: end of the last type].     *)
(***************************************************************************)
EXTENDS Integers, Sequences

VARIABLE tokens    \* the text under parse

Literals == {"5", "6", "1.5", "'s'", "TRUE", "FALSE", "T#1s", "%IX0.0"}
Integers10 == {"5", "6"}
Symbols == {";", ":", ":=", "REF=", "=>", ",", ".", "..", "(", ")", "[", "]",
            "^", "#", "+", "-", "*", "/", "**", "=", "=.", "<>", "<", "<=",
            ">", ">=", "&"}
VarKinds == {"VAR", "VAR_INPUT", "VAR_OUTPUT", "VAR_IN_OUT", "VAR_GLOBAL",
             "VAR_EXTERNAL", "VAR_TEMP", "VAR_ACCESS", "VAR_CONFIG",
             "VAR_INST", "VAR_STAT"}
Keywords == VarKinds \cup
    {"PROGRAM", "END_PROGRAM", "FUNCTION", "END_FUNCTION", "FUNCTION_BLOCK",
     "END_FUNCTION_BLOCK", "CLASS", "END_CLASS", "INTERFACE", "END_INTERFACE",
     "METHOD", "END_METHOD", "END_PROPERTY", "END_GET", "END_SET",
     "END_ACTION", "TYPE", "END_TYPE", "END_CONFIGURATION", "END_RESOURCE",
     "END_VAR", "STRUCT", "END_STRUCT", "UNION", "END_UNION", "STRING",
     "WSTRING", "REF_TO", "TO", "NON_RETAIN", "IF", "THEN", "ELSIF", "ELSE",
     "END_IF", "CASE", "END_CASE", "FOR", "BY", "DO", "END_FOR", "WHILE",
     "END_WHILE", "REPEAT", "UNTIL", "END_REPEAT", "EXIT", "CONTINUE",
     "RETURN", "NOT", "AND", "OR", "XOR", "MOD", "AND_THEN", "OR_ELSE"}
TypeKeywords == {"BOOL", "INT", "REAL", "TIME"}
Access == {"PUBLIC", "PRIVATE", "PROTECTED", "INTERNAL"}
\* Keywords that may also name things.
Contextual == Access \cup TypeKeywords \cup
    {"ON", "OVERRIDE", "ABSTRACT", "FINAL", "EXTENDS", "IMPLEMENTS",
     "REFERENCE", "POINTER", "TASK", "RESOURCE", "CONFIGURATION", "WITH",
     "R_EDGE", "F_EDGE", "AT", "RETAIN", "CONSTANT", "ARRAY", "OF",
     "PROPERTY", "ACTION"}
End == "end of input"
IsIdent(t) == t \notin Literals \cup Symbols \cup Keywords \cup {End}
IsPlain(t) == IsIdent(t) /\ t \notin Contextual

Node(k, v, s) == [k |-> k, v |-> v, s |-> s]
None == Node("none", <<>>, <<>>)
ListOf(s) == Node("list", <<>>, s)
Nothing == ListOf(<<>>)
Id(v) == Node("id", v, <<>>)

-----------------------------------------------------------------------------
(* The token stream. *)

Ahead(s, n) == IF s.p + n <= Len(tokens) THEN tokens[s.p + n] ELSE End
Peek(s) == Ahead(s, 0)
Skip(s) == IF Peek(s) = End THEN s ELSE [s EXCEPT !.p = @ + 1]
Report(s) == [s EXCEPT !.e = @ + 1]
Eat(s, t) == IF Peek(s) = t THEN Skip(s) ELSE s
Expect(s, t) == IF Peek(s) = t THEN Skip(s) ELSE Report(s)
ExpectIdent(s) == IF IsIdent(Peek(s))
                  THEN [Skip(s) EXCEPT !.t = Id(<<Peek(s)>>)]
                  ELSE [Report(s) EXCEPT !.t = Id(<<"<error>">>)]

Give(s, t) == [s EXCEPT !.t = t]
\* list, the list so far, with what r has just read.
Push(r, list) == Give(r, ListOf(Append(list.s, r.t)))
\* Every retry consumes a token.
Advanced(r, s) == IF r.p = s.p THEN Skip(r) ELSE r

RECURSIVE QualifiedTail(_)
QualifiedTail(s) ==
    IF Peek(s) = "." /\ IsIdent(Ahead(s, 1))
    THEN QualifiedTail([s EXCEPT !.p = @ + 2,
                                 !.t = Id(@.v \o <<".", Ahead(s, 1)>>)])
    ELSE s
QualifiedIdent(s) == QualifiedTail(ExpectIdent(s))

RECURSIVE IdentList(_, _)
IdentList(s, list) ==
    LET r == Push(QualifiedIdent(s), list)
    IN IF Peek(r) = "," THEN IdentList(Skip(r), r.t) ELSE r

-----------------------------------------------------------------------------
(* The rules that refer to one another, by name. *)

RECURSIVE Parse(_, _)
Expression(s) == Parse("expression", s)
Postfix(x) == Parse("postfix", x)
StructInit(s) == Parse("structure", s)
Element(s) == Parse("element", s)
Initializer(s) == Parse("initializer", s)
TypeSpec(s) == Parse("type", s)
Statement(s) == Parse("statement", s)
VarDecl(s) == Parse("variable", s)
VarBlock(s) == Parse("variables", s)
Method(s) == Parse("method", s)
Property(s) == Parse("property", s)
Declaration(s) == Parse("declaration", s)

-----------------------------------------------------------------------------
(* Expressions: binary levels, weakest first, then unary and postfix. *)

RECURSIVE Binary(_, _), BinaryTail(_, _), Unary(_), PostfixTail(_),
          Primary(_), Indices(_, _), CallArgs(_, _), StructFields(_, _)

Levels == << {"OR", "OR_ELSE"}, {"XOR"}, {"AND", "&", "AND_THEN"},
             {"=", "=.", "<>", "<", "<=", ">", ">="}, {"+", "-"},
             {"*", "/", "MOD"}, {"**"} >>
OpOf(t) == CASE t = "&" -> "AND" [] t = "=." -> "=" [] OTHER -> t

Binary(s, level) == IF level > Len(Levels) THEN Unary(s)
                    ELSE BinaryTail(Binary(s, level + 1), level)

\* Operators of one level apply left to right, ** among them.
BinaryTail(left, level) ==
    IF Peek(left) \in Levels[level]
    THEN LET r == Binary(Skip(left), level + 1)
         IN BinaryTail(Give(r, Node("bin", <<OpOf(Peek(left))>>,
                                    <<left.t, r.t>>)), level)
    ELSE left

Unary(s) == IF Peek(s) \in {"NOT", "-"}
            THEN LET r == Unary(Skip(s))
                 IN Give(r, Node("un", <<Peek(s)>>, <<r.t>>))
            ELSE Postfix(Primary(s))

Member(s, obj) ==
    LET r == IF Peek(s) \in Integers10 THEN Give(Skip(s), Id(<<Peek(s)>>))
             ELSE ExpectIdent(s)
    IN Give(r, Node("member", r.t.v, <<obj>>))

\* __NEW(type, ...): the type is kept as its source text.
NewArgs(s) ==
    LET ty == TypeSpec(s)
        text == Node("arg", <<>>, <<Id(SubSeq(tokens, s.p, ty.q))>>)
    IN IF Peek(ty) = ","
       THEN LET r == CallArgs(Skip(ty), Nothing)
            IN Give(r, ListOf(<<text>> \o r.t.s))
       ELSE Give(ty, ListOf(<<text>>))

PostfixTail(x) ==
    CASE Peek(x) = "." -> PostfixTail(Member(Skip(x), x.t))
      [] Peek(x) = "[" ->
           LET r == Indices(Skip(x), Nothing)
           IN PostfixTail(Expect(Give(r, Node("index", <<>>, <<x.t, r.t>>)), "]"))
      [] Peek(x) = "(" ->
           LET r == IF x.t = Id(<<"__NEW">>) THEN NewArgs(Skip(x))
                    ELSE CallArgs(Skip(x), Nothing)
           IN PostfixTail(Expect(Give(r, Node("call", <<>>, <<x.t, r.t>>)), ")"))
      [] Peek(x) = "^" -> PostfixTail(Give(Skip(x), Node("deref", <<>>, <<x.t>>)))
      [] OTHER -> x

Indices(s, list) ==
    LET r == Push(Expression(s), list)
    IN IF Peek(r) = "," THEN Indices(Skip(r), r.t) ELSE r

TypedValue(s, name) ==
    LET r == IF Peek(s) \in {"-", "+"} THEN Primary(Skip(s)) ELSE Primary(s)
        x == IF Peek(s) = "-" THEN Node("un", <<"-">>, <<r.t>>) ELSE r.t
    IN Give(r, Node("typed", name, <<x>>))

\* A token no expression starts with is an error and the literal 0.
Primary(s) ==
    CASE Peek(s) \in Literals -> Give(Skip(s), Node("lit", <<Peek(s)>>, <<>>))
      [] Peek(s) = "(" ->
           LET r == Expression(Skip(s))
           IN Expect(Give(r, Node("paren", <<>>, <<r.t>>)), ")")
      [] IsIdent(Peek(s)) ->
           IF Ahead(s, 1) = "#" THEN TypedValue(Skip(Skip(s)), <<Peek(s)>>)
           ELSE ExpectIdent(s)
      [] OTHER -> Give(Report(s), Node("lit", <<"0">>, <<>>))

\* x := v and Q => v; one with no value, before "," or ")", is left out.
NamedArg(s, kind, list) ==
    IF Peek(s) \in {",", ")"} THEN Give(s, list)
    ELSE LET r == Expression(s)
         IN Push(Give(r, Node(kind, <<tokens[s.p - 2]>>, <<r.t>>)), list)

\* A trailing comma is accepted after all but a NOT binding.
CallArgs(s, list) ==
    LET negated == Peek(s) = "NOT" /\ IsPlain(Ahead(s, 1)) /\ Ahead(s, 2) = "=>"
        named == IsIdent(Peek(s)) /\ Ahead(s, 1) \in {":=", "=>"}
        past(n) == [s EXCEPT !.p = @ + n]
        r == IF negated
             THEN LET x == Expression(past(3))
                  IN Push(Give(x, Node("nout", <<Ahead(s, 1)>>, <<x.t>>)), list)
             ELSE IF named
             THEN NamedArg(past(2), IF Ahead(s, 1) = ":=" THEN "in" ELSE "out",
                           list)
             ELSE LET x == Expression(s)
                  IN Push(Give(x, Node("arg", <<>>, <<x.t>>)), list)
    IN IF list = Nothing /\ Peek(s) = ")" THEN Give(s, list)
       ELSE IF Peek(r) = "," /\ (negated \/ Ahead(r, 1) # ")")
       THEN CallArgs(Skip(r), r.t)
       ELSE Eat(r, ",")

-----------------------------------------------------------------------------
(* Initial values. *)

RECURSIVE ArrayElements(_, _), BareElements(_, _)

IsStructInit(s) == /\ Peek(s) = "("
                   /\ \/ Ahead(s, 1) = ")"
                      \/ IsIdent(Ahead(s, 1)) /\ Ahead(s, 2) = ":="
EmptyOrFields(s) ==
    IF Ahead(s, 1) = ")"
    THEN Give(Skip(Skip(s)), Node("struct", <<>>, <<>>))
    ELSE LET r == StructFields(Skip(s), Nothing)
         IN Expect(Give(r, Node("struct", <<>>, r.t.s)), ")")
Scalar(s) == IF IsStructInit(s) THEN StructInit(s) ELSE Expression(s)

StructFields(s, list) ==
    LET name == ExpectIdent(s)
        value == Expect(name, ":=")
        x == IF Peek(value) = "[" THEN Initializer(value) ELSE Scalar(value)
        r == Push(Give(x, Node("in", name.t.v, <<x.t>>)), list)
    IN IF Peek(r) = "," THEN StructFields(Skip(r), r.t) ELSE r

\* value, or count(value): a count is an integer literal.
CountedOrBare(s) ==
    IF Peek(s) \in Integers10 /\ Ahead(s, 1) = "("
    THEN LET r == Scalar(Skip(Skip(s)))
         IN Expect(Give(r, Node("elem", <<Peek(s)>>, <<r.t>>)), ")")
    ELSE LET r == Scalar(s) IN Give(r, Node("elem", <<>>, <<r.t>>))

ArrayElements(s, list) ==
    IF Peek(s) \in {"]", End} THEN Give(s, list)
    ELSE LET r == Push(Element(s), list)
         IN IF Peek(r) = "," THEN ArrayElements(Skip(r), r.t) ELSE r

BareElements(s, list) ==
    IF Peek(s) # "," THEN Give(s, list)
    ELSE IF Ahead(s, 1) \in {";", End} THEN Give(Skip(s), list)
    ELSE LET r == Push(Element(Skip(s)), list) IN BareElements(r, r.t)

\* A list of values, bracketed or bare, or the single value written.
InitialValue(s) ==
    IF IsStructInit(s) THEN StructInit(s)
    ELSE IF Peek(s) = "["
    THEN LET r == ArrayElements(Skip(s), Nothing)
         IN Expect(Give(r, Node("array", <<>>, r.t.s)), "]")
    ELSE LET first == Element(s)
             r == BareElements(first, ListOf(<<first.t>>))
         IN IF Peek(first) # "," /\ first.t.v = <<>>
            THEN Give(first, first.t.s[1])
            ELSE Give(r, Node("array", <<>>, r.t.s))

OptInit(s) == IF Peek(s) = ":=" THEN Initializer(Skip(s)) ELSE Give(s, None)

-----------------------------------------------------------------------------
(* Types. *)

RECURSIVE Names(_, _), Ranges(_, _), Stars(_, _), Fields(_, _, _), EnumValues(_, _)

Names(s, list) ==
    LET r == Push(ExpectIdent(s), list)
    IN IF Peek(r) = "," THEN Names(Skip(r), r.t) ELSE r

Ranges(s, list) ==
    LET low == Expression(s)
        high == Expression(Expect(low, ".."))
        r == Push(Give(high, Node("range", <<>>, <<low.t, high.t>>)), list)
    IN IF Peek(r) = "," THEN Ranges(Skip(r), r.t) ELSE r

Stars(s, n) == LET r == Expect(s, "*")
               IN IF Peek(r) = "," THEN Stars(Skip(r), n + 1) ELSE Give(r, n)

ArrayType(s) ==
    LET open == Expect(s, "[")
        dims == IF Peek(open) = "*" THEN Stars(open, 1) ELSE Ranges(open, Nothing)
        base == TypeSpec(Expect(Expect(dims, "]"), "OF"))
    IN Give(base, IF Peek(open) = "*"
                  THEN Node("vararray", [i \in 1..dims.t |-> "*"], <<base.t>>)
                  ELSE Node("arraytype", <<>>, <<dims.t, base.t>>))

\* A field declaration; "a, b : T" declares both.  Only a STRUCT takes lists,
\* addresses, initial values and stray semicolons.
FieldAfterType(names, type, init) ==
    Give(Eat(init, ";"), ListOf([i \in DOMAIN names |-> Node("field", names[i].v, <<type, init.t>>)]))
FieldAfterName(names, full, type) ==
    FieldAfterType(names, type.t, IF full THEN OptInit(type) ELSE Give(type, None))
FieldAfterNames(names, full) ==
    LET at == Skip(names)
        addr == IF ~full \/ Peek(names) # "AT" THEN names ELSE Eat(at, "%IX0.0")
    IN FieldAfterName(names.t.s, full, TypeSpec(Expect(addr, ":")))
FieldDecl(s, full) ==
    FieldAfterNames(IF full THEN Names(s, Nothing) ELSE Push(ExpectIdent(s), Nothing), full)

\* The fields up to close.
Fields(s, close, list) ==
    LET full == close = "END_STRUCT"
        r == FieldDecl(s, full)
    IN CASE Peek(s) \in {close, End} -> Give(s, list)
         [] full /\ Peek(s) = ";" -> Fields(Skip(s), close, list)
         [] OTHER -> IF r.p = s.p THEN Fields(Skip(r), close, list)
                     ELSE Fields(r, close, ListOf(list.s \o r.t.s))

FieldsType(s, kind, close) ==
    LET r == Fields(s, close, Nothing)
    IN Expect(Give(r, Node(kind, <<>>, r.t.s)), close)

StringType(s) ==
    LET open == Peek(Skip(s))
        size == Expression(Skip(Skip(s)))
    IN IF open \in {"[", "("}
       THEN [Expect(Give(size, Node("string", <<Peek(s)>>, <<size.t>>)),
                    IF open = "[" THEN "]" ELSE ")") EXCEPT !.q = size.p - 1]
       ELSE [Skip(s) EXCEPT !.t = Node("string", <<Peek(s)>>, <<>>), !.q = s.p]

EnumValue(s) ==
    LET name == ExpectIdent(s)
        value == Expression(Skip(name))
    IN IF Peek(name) = ":=" THEN Give(value, Node("value", name.t.v, <<value.t>>))
       ELSE Give(name, Node("value", name.t.v, <<>>))
EnumValues(s, list) ==
    LET r == Push(EnumValue(s), list)
    IN IF Peek(r) = "," THEN EnumValues(Skip(r), r.t) ELSE r

\* The values read, an optional base type.
AfterValues(vals, closed) ==
    IF Peek(closed) \in TypeKeywords \/ IsPlain(Peek(closed))
    THEN Give(Skip(closed), Node("enum", <<Peek(closed)>>, vals))
    ELSE Give(closed, Node("enum", <<>>, vals))
EnumType(s) == LET vals == EnumValues(s, Nothing)
               IN AfterValues(vals.t.s, Expect(vals, ")"))

\* A first value that is no bound of a range is read again as a name; the
\* errors of the first reading stay.
SubrangeOrEnum(s, base) ==
    LET low == Expression(s)
        high == Expression(Skip(low))
        vals == EnumValues([low EXCEPT !.p = s.p], Nothing)
    IN IF Peek(low) = ".."
       THEN Expect(Give(high, Node("subrange", base, <<low.t, high.t>>)), ")")
       ELSE Expect(Give(vals, Node("enum", base, vals.t.s)), ")")

\* After the name of a type that is not elementary, "(" opens FB_init
\* arguments unless a ".." stands directly inside.
RECURSIVE ArgsUpTo(_, _)
ArgsUpTo(s, depth) ==
    CASE Peek(s) \in {"(", "["} -> ArgsUpTo(Skip(s), depth + 1)
      [] Peek(s) \in {")", "]"} ->
           depth <= 1 \/ ArgsUpTo(Skip(s), depth - 1)
      [] Peek(s) = ".." /\ depth = 1 -> FALSE
      [] Peek(s) \in {";", "END_VAR", End} -> TRUE
      [] OTHER -> ArgsUpTo(Skip(s), depth)
AtInitArgs(s) == s.t.v \notin {<<"BOOL">>, <<"INT">>, <<"REAL">>} /\ ArgsUpTo(s, 0)

NamedType(s) ==
    LET name == QualifiedIdent(s)
        type == Node("named", name.t.v, <<>>)
    IN IF Peek(name) # "(" THEN Give(name, type)
       ELSE IF AtInitArgs(name)
       THEN LET r == CallArgs(Skip(name), Nothing)
            IN Expect([r EXCEPT !.t = type, !.a = r.t], ")")
       ELSE SubrangeOrEnum(Skip(name), name.t.v)

PointerType(s) ==
    LET base == TypeSpec(Eat(Skip(s), "TO"))
    IN Give(base, Node(IF Peek(s) = "REFERENCE" THEN "ref" ELSE "pointer",
                       <<>>, <<base.t>>))

\* All but an array, a string and a pointer end with their last token.
UnendedType(s) ==
    CASE Peek(s) = "STRUCT" -> FieldsType(Skip(s), "structtype", "END_STRUCT")
      [] Peek(s) = "UNION" -> FieldsType(Skip(s), "uniontype", "END_UNION")
      [] Peek(s) = "(" -> EnumType(Skip(s))
      [] OTHER -> NamedType(s)
Ended(r) == [r EXCEPT !.q = r.p - 1]
AnyType(s) ==
    CASE Peek(s) = "ARRAY" -> ArrayType(Skip(s))
      [] Peek(s) \in {"STRING", "WSTRING"} -> StringType(s)
      [] Peek(s) \in {"POINTER", "REF_TO", "REFERENCE"} -> PointerType(s)
      [] OTHER -> Ended(UnendedType(s))

-----------------------------------------------------------------------------
(* Statements. *)

RECURSIVE StatementList(_, _, _), ElsIfs(_, _), Branches(_, _), Labels(_, _),
          BranchBody(_, _), Targets(_, _), VarDecls(_, _)

\* A token that starts nothing here is reported and passed over.
Stray(s) == Report(Skip(s))

\* METHOD or PROPERTY, after any modifiers, and a name: a declaration.
RECURSIVE AtMember(_, _)
AtMember(s, word) ==
    IF Peek(s) \in Access \cup {"OVERRIDE", "ABSTRACT", "FINAL"}
    THEN AtMember(Skip(s), word)
    ELSE Peek(s) = word /\ IsIdent(Ahead(s, 1))
AtAction(s) == Peek(s) = "ACTION" /\ IsIdent(Ahead(s, 1))

\* The ";" after an assignment or call: a missing one is reported.
EndStatement(s) == Expect(s, ";")

Stops(s, stops) == /\ Peek(s) \in stops
                   /\ Peek(s) = "ACTION" => AtAction(s)
                   /\ Peek(s) = "PROPERTY" => AtMember(s, "PROPERTY")

If(cond, body) == Node("if", <<>>, <<cond, ListOf(body), Nothing, None>>)
Bool(b) == Node("lit", <<IF b THEN "TRUE" ELSE "FALSE">>, <<>>)
Assign(target, value) == Node("assign", <<>>, <<target, value>>)

\* q S= c; sets q where c holds, q R= c; resets it.
SetOrReset(x) ==
    LET c == Expression(Skip(Skip(x)))
    IN EndStatement(Give(c, If(c.t, <<Assign(x.t, Bool(Peek(x) = "S"))>>)))

RefOf(x) == Node("call", <<>>, <<Id(<<"__REF_OF">>),
                                 ListOf(<<Node("arg", <<>>, <<x>>)>>)>>)
BindReference(x) ==
    LET v == Expression(Skip(x))
    IN EndStatement(Give(v, Assign(x.t, RefOf(v.t))))

Targets(s, list) ==
    LET r == Push(Expression(Skip(s)), list)
    IN IF Peek(r) = ":=" THEN Targets(r, r.t) ELSE r

\* a := b := v is b := v and then a := b.
Assignment(x) ==
    LET r == Targets(x, ListOf(<<x.t>>))
        n == Len(r.t.s)
        chain == [i \in 1..(n - 1) |-> Assign(r.t.s[n - i], r.t.s[n - i + 1])]
    IN EndStatement(Give(r, IF n = 2 THEN chain[1] ELSE If(Bool(TRUE), chain)))

\* A bare expression is a call with no arguments.
CallStatement(x) ==
    EndStatement(Give(x, IF x.t.k = "call" THEN Node("callst", <<>>, x.t.s)
                         ELSE Node("callst", <<>>, <<x.t, Nothing>>)))

Simple(s) ==
    LET x == Expression(s)
    IN CASE Peek(x) \in {"S", "R"} /\ Ahead(x, 1) = "=." -> SetOrReset(x)
         [] Peek(x) = "REF=" -> BindReference(x)
         [] Peek(x) = ":=" -> Assignment(x)
         [] OTHER -> CallStatement(x)

ElsIfs(s, list) ==
    IF Peek(s) # "ELSIF" THEN Give(s, list)
    ELSE LET c == Expression(Skip(s))
             b == StatementList(Expect(c, "THEN"),
                                {"ELSIF", "ELSE", "END_IF"}, Nothing)
             r == Push(Give(b, Node("elsif", <<>>, <<c.t, b.t>>)), list)
         IN ElsIfs(r, r.t)
OrElse(s, close) == IF Peek(s) = "ELSE"
                    THEN StatementList(Skip(s), {close}, Nothing)
                    ELSE Give(s, None)
\* END_x and its optional ";".
Close(s, word) == Eat(Expect(s, word), ";")

IfStatement(s) ==
    LET c == Expression(Skip(s))
        b == StatementList(Expect(c, "THEN"),
                           {"ELSIF", "ELSE", "END_IF"}, Nothing)
        i == ElsIfs(b, Nothing)
        r == OrElse(i, "END_IF")
    IN Close(Give(r, Node("if", <<>>, <<c.t, b.t, i.t, r.t>>)), "END_IF")

Labels(s, list) ==
    LET low == Expression(s)
        high == Expression(Skip(low))
        r == IF Peek(low) = ".."
             THEN Push(Give(high, Node("range", <<>>, <<low.t, high.t>>)), list)
             ELSE Push(low, list)
    IN IF Peek(r) = "," THEN Labels(Skip(r), r.t) ELSE r

\* Only tokens a label may hold, at most 64, up to a ":".
LabelLimit == 64
RECURSIVE LabelAhead(_, _)
LabelAhead(s, seen) ==
    IF Peek(s) = ":" THEN seen > 0
    ELSE /\ \/ Peek(s) \in Integers10 \cup {"TRUE", "FALSE", "#", "-", "+", ".",
                                            "..", ","}
            \/ IsIdent(Peek(s))
         /\ seen < LabelLimit
         /\ LabelAhead(Skip(s), seen + 1)

BranchBody(s, list) ==
    IF Peek(s) \in {"END_CASE", "ELSE", End} \cup VarKinds \/ LabelAhead(s, 0)
    THEN Give(s, list)
    ELSE LET r == Statement(s)
             n == Push(IF r.p = s.p THEN Stray(r) ELSE r, list)
         IN BranchBody(n, n.t)

\* A POU that ends inside the CASE keeps its END_x.
Branches(s, list) ==
    IF Peek(s) \in {"END_CASE", "END_PROGRAM", "END_FUNCTION",
                    "END_FUNCTION_BLOCK", "END_METHOD", "END_CLASS", "ELSE", End}
    THEN Give(s, list)
    ELSE LET l == Labels(s, Nothing)
             b == BranchBody(Expect(l, ":"), Nothing)
             r == Push(Give(b, Node("branch", <<>>, <<l.t, b.t>>)), list)
         IN Branches(Advanced(r, s), r.t)

CaseNode(x, b, r) == Close(Give(r, Node("case", <<>>, <<x, b, r.t>>)), "END_CASE")
AfterBranches(x, b) == CaseNode(x, b.t, OrElse(b, "END_CASE"))
CaseStatement(s) ==
    LET x == Expression(Skip(s))
    IN AfterBranches(x.t, Branches(Expect(x, "OF"), Nothing))

ForStatement(s) ==
    LET v == Postfix(ExpectIdent(Skip(s)))
        from == Expression(Expect(v, ":="))
        to == Expression(Expect(from, "TO"))
        by == IF Peek(to) = "BY" THEN Expression(Skip(to)) ELSE Give(to, None)
        b == StatementList(Expect(by, "DO"), {"END_FOR"}, Nothing)
    IN Close(Give(b, Node("for", <<>>, <<v.t, from.t, to.t, by.t, b.t>>)), "END_FOR")

WhileStatement(s) ==
    LET c == Expression(Skip(s))
        b == StatementList(Expect(c, "DO"), {"END_WHILE"}, Nothing)
    IN Close(Give(b, Node("while", <<>>, <<c.t, b.t>>)), "END_WHILE")

RepeatStatement(s) ==
    LET b == StatementList(Skip(s), {"UNTIL"}, Nothing)
        c == Expression(Expect(b, "UNTIL"))
    IN Close(Give(c, Node("repeat", <<>>, <<b.t, c.t>>)), "END_REPEAT")

\* The value is read unless ";", the end or the end of a POU follows.
ReturnStatement(s) ==
    LET bare == {";", End, "END_FUNCTION", "END_FUNCTION_BLOCK", "END_METHOD",
                 "END_PROGRAM"}
        v == IF Peek(Skip(s)) \in bare THEN Give(Skip(s), None)
             ELSE Expression(Skip(s))
    IN Eat(Give(v, Node("return", <<>>, <<v.t>>)), ";")

AnyStatement(s) ==
    CASE Peek(s) = ";" -> Give(Skip(s), Node("empty", <<>>, <<>>))
      [] Peek(s) = "IF" -> IfStatement(s)
      [] Peek(s) = "CASE" -> CaseStatement(s)
      [] Peek(s) = "FOR" -> ForStatement(s)
      [] Peek(s) = "WHILE" -> WhileStatement(s)
      [] Peek(s) = "REPEAT" -> RepeatStatement(s)
      [] Peek(s) \in {"EXIT", "CONTINUE"} ->
           Eat(Give(Skip(s), Node("jump", <<Peek(s)>>, <<>>)), ";")
      [] Peek(s) = "RETURN" -> ReturnStatement(s)
      [] OTHER -> Simple(s)

\* Statements up to one of stops, a variable block or the end.
StatementList(s, stops, list) ==
    IF Peek(s) = End \/ Stops(s, stops) \/ Peek(s) \in VarKinds
    THEN Give(s, list)
    ELSE LET r == Push(Statement(s), list)
         IN StatementList(Advanced(r, s), stops, r.t)

-----------------------------------------------------------------------------
(* Variable blocks. *)

\* The rest of a declaration once its names, and then its type, are read.
AfterType(names, located, type) ==
    LET edge == IF Peek(type) \in {"R_EDGE", "F_EDGE"} THEN <<Peek(type)>> ELSE <<>>
        init == OptInit(IF edge = <<>> THEN type ELSE Skip(type))
        one(n) == Node("var", n.v, << IF located THEN Id(<<"%IX0.0">>) ELSE None,
                       type.t, type.a, Id(edge), init.t >>)
    IN Eat(Give(init, ListOf([i \in DOMAIN names |-> one(names[i])])), ";")
AfterNames(names) ==
    LET at == Skip(names)
        located == Peek(names) = "AT" /\ Peek(at) = "%IX0.0"
        addr == IF Peek(names) # "AT" THEN names
                ELSE IF located THEN Skip(at) ELSE Report(at)
    IN AfterType(names.t.s, located, TypeSpec([Expect(addr, ":") EXCEPT !.a = Nothing]))
Declarator(s) == AfterNames(Names(s, Nothing))

VarDecls(s, list) ==
    IF Peek(s) \in {"END_VAR", End} THEN Give(s, list)
    ELSE IF Peek(s) = ";" THEN VarDecls(Skip(s), list)
    ELSE LET r == VarDecl(s) IN VarDecls(Advanced(r, s), ListOf(list.s \o r.t.s))

\* PERSISTENT is kept like RETAIN.
Variables(s) ==
    LET const == Eat(Skip(s), "CONSTANT")
        retain == Eat(const, "RETAIN")
        kept == IF Peek(retain) = "PERSISTENT" THEN Eat(Skip(retain), "RETAIN")
                ELSE retain
        isRetain == kept.p # const.p
        quals == IF isRetain THEN kept ELSE Eat(kept, "NON_RETAIN")
        r == VarDecls(quals, Nothing)
        flag(b, w) == IF b THEN <<w>> ELSE <<>>
        head == <<Peek(s)>> \o flag(const.p # s.p + 1, "CONSTANT")
                            \o flag(isRetain, "RETAIN")
                            \o flag(quals.p # kept.p, "NON_RETAIN")
    IN Expect(Give(r, Node("vars", head, r.t.s)), "END_VAR")

RECURSIVE VarBlocks(_, _)
VarBlocks(s, list) ==
    IF Peek(s) \notin VarKinds THEN Give(s, list)
    ELSE LET r == Push(VarBlock(s), list) IN VarBlocks(r, r.t)

-----------------------------------------------------------------------------
(* Members.  A modifier no name follows is itself the name. *)

RECURSIVE Modifiers(_, _), PouModifiers(_)
Modifiers(s, mods) ==
    IF /\ IsIdent(Ahead(s, 1)) \/ Ahead(s, 1) \in {"METHOD", "PROPERTY"}
       /\ Peek(s) \in Access \cup {"OVERRIDE", "ABSTRACT", "FINAL"}
    THEN Modifiers(Skip(s), IF Peek(s) \in Access
                            THEN (mods \ Access) \cup {Peek(s)}
                            ELSE mods \cup {Peek(s)})
    ELSE Give(s, mods)
PouModifiers(s) ==
    IF IsIdent(Ahead(s, 1)) /\ Peek(s) \in Access \cup {"ABSTRACT", "FINAL"}
    THEN PouModifiers(Skip(s)) ELSE s

\* The order the printer writes them in.
Ordered(mods) == SelectSeq(<<"PUBLIC", "PRIVATE", "PROTECTED", "INTERNAL",
                             "ABSTRACT", "FINAL", "OVERRIDE">>,
                           LAMBDA m: m \in mods)
OptType(s) == IF Peek(s) = ":" THEN TypeSpec(Skip(s)) ELSE Give(s, None)

\* What follows the header: variable blocks and a body, up to close.
Body(s, stops) == LET v == VarBlocks(s, Nothing)
                      b == StatementList(v, stops, Nothing)
                  IN Give(b, <<v.t, b.t>>)

\* METHOD modifiers name, modifiers before or after the keyword.
MemberHead(s, word) ==
    LET m == Modifiers(s, {})
        n == Modifiers(Expect(m, word), m.t)
    IN <<ExpectIdent(n), n.t>>

AnyMethod(s) ==
    LET h == MemberHead(s, "METHOD")
        type == OptType(h[1])
        b == Body(Eat(type, ";"), {"END_METHOD"})
    IN Close(Give(b, Node("method", h[1].t.v,
                          <<Id(Ordered(h[2])), type.t>> \o b.t)), "END_METHOD")

Accessor(s, close) ==
    LET head == IF Peek(Skip(s)) \in Access THEN Skip(Skip(s)) ELSE Skip(s)
        b == Body(head, {close, "END_PROPERTY"})
    IN Close(Give(b, Node("accessor", <<Peek(s)>>, b.t)), close)

\* GET and SET in any order, the last of each kept; other tokens are reported.
RECURSIVE Accessors(_, _)
Accessors(s, both) ==
    CASE Peek(s) \in {"END_PROPERTY", End} -> Give(s, both)
      [] Peek(s) = "GET" -> LET r == Accessor(s, "END_GET")
                            IN Accessors(r, <<r.t, both[2]>>)
      [] Peek(s) = "SET" -> LET r == Accessor(s, "END_SET")
                            IN Accessors(r, <<both[1], r.t>>)
      [] OTHER -> Accessors(Stray(s), both)

PropertyNode(name, mods, type, r) ==
    Close(Give(r, Node("property", name, <<Id(Ordered(mods \ {"OVERRIDE"})), type>> \o r.t)),
          "END_PROPERTY")
AnyProperty(s) ==
    LET h == MemberHead(s, "PROPERTY")
        type == TypeSpec(Expect(h[1], ":"))
    IN PropertyNode(h[1].t.v, h[2], type.t, Accessors(Eat(type, ";"), <<None, None>>))

Action(s) ==
    LET name == ExpectIdent(Skip(s))
        b == StatementList(Eat(name, ":"), {"END_ACTION"}, Nothing)
    IN Close(Give(b, Node("action", name.t.v, <<b.t>>)), "END_ACTION")

-----------------------------------------------------------------------------
(* Declarations. *)

\* What a POU has gathered: variable blocks, methods, properties, actions
\* and statements.
NoParts == <<Nothing, Nothing, Nothing, Nothing, Nothing>>
Added(parts, i, t) == [parts EXCEPT ![i].s = Append(@, t)]

\* Statements may be followed by members, not by variable blocks.
RECURSIVE PouParts(_, _, _)
PouParts(s, close, parts) ==
    LET member(x) == \/ AtMember(x, "METHOD") \/ AtMember(x, "PROPERTY")
                     \/ AtAction(x)
        part(r, i) == PouParts(r, close, Added(parts, i, r.t))
        body == StatementList(s, {close, "METHOD", "PROPERTY", "ACTION"},
                              parts[5])
        all == [parts EXCEPT ![5] = body.t]
    IN CASE Peek(s) \in {close, End} -> Give(s, parts)
         [] Peek(s) \in VarKinds -> part(VarBlock(s), 1)
         [] AtMember(s, "METHOD") -> part(Method(s), 2)
         [] AtMember(s, "PROPERTY") -> part(Property(s), 3)
         [] AtAction(s) -> part(Action(s), 4)
         [] OTHER -> IF body.p # s.p /\ member(body)
                     THEN PouParts(body, close, all) ELSE Give(body, all)

Program(s) ==
    LET name == ExpectIdent(PouModifiers(Skip(s)))
        r == PouParts(name, "END_PROGRAM", NoParts)
    IN Close(Give(r, Node("PROGRAM", name.t.v, r.t)), "END_PROGRAM")

Function(s) ==
    LET name == ExpectIdent(PouModifiers(Skip(s)))
        type == OptType(name)
        b == Body(type, {"END_FUNCTION"})
    IN Close(Give(b, Node("FUNCTION", name.t.v, <<type.t>> \o b.t)),
             "END_FUNCTION")

OptExtends(s) == IF Peek(s) = "EXTENDS" THEN QualifiedIdent(Skip(s))
                 ELSE Give(s, None)
OptList(s, word) == IF Peek(s) = word THEN IdentList(Skip(s), Nothing)
                    ELSE Give(s, Nothing)

FunctionBlock(s) ==
    LET name == ExpectIdent(PouModifiers(Skip(s)))
        ext == OptExtends(name)
        impl == OptList(ext, "IMPLEMENTS")
        r == PouParts(impl, "END_FUNCTION_BLOCK", NoParts)
    IN Close(Give(r, Node("FUNCTION_BLOCK", name.t.v, <<ext.t, impl.t>> \o r.t)),
             "END_FUNCTION_BLOCK")

\* A class or an interface: members only, anything else reported.
RECURSIVE MemberParts(_, _, _, _)
MemberParts(s, close, starts, parts) ==
    LET next(r, p) == MemberParts(r, close, starts, p)
        vars == VarBlock(s)
        prop == Property(s)
        meth == Method(s)
    IN CASE Peek(s) \in {close, End} -> Give(s, parts)
         [] close = "END_CLASS" /\ Peek(s) \in VarKinds ->
              next(vars, Added(parts, 1, vars.t))
         [] AtMember(s, "PROPERTY") -> next(prop, Added(parts, 3, prop.t))
         [] ~AtMember(s, "PROPERTY") /\ Peek(s) \in starts ->
              next(meth, Added(parts, 2, meth.t))
         [] OTHER -> next(Stray(s), parts)

Class(s) ==
    LET mod == IF Peek(s) \in {"ABSTRACT", "FINAL"} THEN <<Peek(s)>> ELSE <<>>
        name == ExpectIdent(Expect(IF mod = <<>> THEN s ELSE Skip(s), "CLASS"))
        ext == OptExtends(name)
        impl == OptList(ext, "IMPLEMENTS")
        r == MemberParts(impl, "END_CLASS",
                         Access \cup {"METHOD", "OVERRIDE", "ABSTRACT", "FINAL"},
                         NoParts)
    IN Close(Give(r, Node("CLASS", name.t.v,
                          <<ext.t, impl.t>> \o r.t \o <<Id(mod)>>)), "END_CLASS")

Interface(s) ==
    LET name == ExpectIdent(PouModifiers(Skip(s)))
        ext == OptList(name, "EXTENDS")
        r == MemberParts(ext, "END_INTERFACE",
                         {"METHOD", "PUBLIC", "PRIVATE", "PROTECTED"}, NoParts)
    IN Close(Give(r, Node("INTERFACE", name.t.v, <<ext.t>> \o r.t)),
             "END_INTERFACE")

\* Every declaration of a TYPE block.
RECURSIVE TypeDecls(_, _)
TypeDecls(s, list) ==
    LET name == ExpectIdent(PouModifiers(s))
        ext == OptExtends(name)
        type == TypeSpec(Expect(ext, ":"))
        r == Eat(OptInit(type), ";")
    IN IF Peek(s) \in {"END_TYPE", End} THEN Give(s, list)
       ELSE IF r.p = s.p THEN TypeDecls(Skip(r), list)
       ELSE TypeDecls(r, ListOf(Append(list.s,
                Node("TYPE", name.t.v, <<ext.t, type.t, r.t>>))))
TypeBlock(s) == Close(TypeDecls(Skip(s), Nothing), "END_TYPE")

RECURSIVE TaskProperties(_, _)
TaskProperties(s, list) ==
    LET key == ExpectIdent(s)
        x == Expression(Expect(key, ":="))
        r == Push(Give(x, Node("in", key.t.v, <<x.t>>)), list)
    IN IF Peek(r) = "," THEN TaskProperties(Skip(r), r.t) ELSE Expect(r, ")")
Task(s) ==
    LET name == ExpectIdent(Skip(s))
        r == IF Peek(name) = "(" THEN TaskProperties(Skip(name), Nothing)
             ELSE Give(name, Nothing)
    IN Eat(Give(r, Node("task", name.t.v, <<r.t>>)), ";")

OptName(s, word) == IF Peek(s) = word THEN ExpectIdent(Skip(s)) ELSE Give(s, None)
ProgramConfig(s) ==
    LET name == ExpectIdent(Skip(s))
        task == OptName(name, "WITH")
        type == ExpectIdent(Expect(task, ":"))
        r == IF Peek(type) = "("
             THEN Expect(CallArgs(Skip(type), Nothing), ")")
             ELSE Give(type, Nothing)
    IN Eat(Give(r, Node("instance", name.t.v, <<task.t, type.t, r.t>>)), ";")

\* Global variables, tasks, program instances and resources.  Any other
\* token is passed over, and VAR_CONFIG and VAR_ACCESS are reported.
RECURSIVE ConfigParts(_, _, _), SkipVars(_)
SkipVars(s) == IF Peek(s) \in {"END_VAR", End} THEN Eat(s, "END_VAR")
               ELSE SkipVars(Skip(s))
Resource(s) ==
    LET name == ExpectIdent(Skip(s))
        on == OptName(name, "ON")
        r == ConfigParts(on, "END_RESOURCE", NoParts)
    IN Close(Give(r, Node("RESOURCE", name.t.v, <<on.t>> \o SubSeq(r.t, 1, 3))),
             "END_RESOURCE")

ConfigParts(s, close, parts) ==
    LET part(r, i) == ConfigParts(r, close, Added(parts, i, r.t))
        whole == close = "END_CONFIGURATION"
    IN CASE Peek(s) \in {close, End} -> Give(s, parts)
         [] Peek(s) = "VAR_GLOBAL" -> part(VarBlock(s), 1)
         [] Peek(s) = "TASK" -> part(Task(s), 2)
         [] Peek(s) = "PROGRAM" -> part(ProgramConfig(s), 3)
         [] whole /\ Peek(s) = "RESOURCE" -> part(Resource(s), 4)
         [] whole /\ Peek(s) \in {"VAR_CONFIG", "VAR_ACCESS"} ->
              ConfigParts(SkipVars(Report(s)), close, parts)
         [] OTHER -> ConfigParts(Skip(s), close, parts)

\* Tasks and instances outside any RESOURCE make one named like the
\* configuration.
Configured(name, r) ==
    LET own == Node("RESOURCE", name, <<None, Nothing, r.t[2], r.t[3]>>)
        resources == IF r.t[2] = Nothing /\ r.t[3] = Nothing THEN r.t[4]
                     ELSE ListOf(Append(r.t[4].s, own))
    IN Close(Give(r, Node("CONFIGURATION", name, <<r.t[1], resources>>)),
             "END_CONFIGURATION")
Configuration(s) == LET name == ExpectIdent(Skip(s))
                    IN Configured(name.t.v, ConfigParts(name, "END_CONFIGURATION", NoParts))

-----------------------------------------------------------------------------
(* The unit. *)

One(r) == Give(r, ListOf(<<r.t>>))
AnyDeclaration(s) ==
    CASE Peek(s) = "PROGRAM" -> One(Program(s))
      [] Peek(s) = "FUNCTION" -> One(Function(s))
      [] Peek(s) = "FUNCTION_BLOCK" -> One(FunctionBlock(s))
      [] Peek(s) \in {"CLASS", "ABSTRACT", "FINAL"} -> One(Class(s))
      [] Peek(s) = "INTERFACE" -> One(Interface(s))
      [] Peek(s) = "TYPE" -> TypeBlock(s)
      [] Peek(s) = "VAR_GLOBAL" -> One(VarBlock(s))
      [] Peek(s) = "CONFIGURATION" -> One(Configuration(s))
      [] OTHER -> Give(Report(s), Nothing)

Parse(rule, s) ==
    CASE rule = "expression" -> Binary(s, 1)
      [] rule = "postfix" -> PostfixTail(s)
      [] rule = "structure" -> EmptyOrFields(s)
      [] rule = "element" -> CountedOrBare(s)
      [] rule = "variable" -> Declarator(s)
      [] rule = "initializer" -> InitialValue(s)
      [] rule = "type" -> AnyType(s)
      [] rule = "statement" -> AnyStatement(s)
      [] rule = "variables" -> Variables(s)
      [] rule = "method" -> AnyMethod(s)
      [] rule = "property" -> AnyProperty(s)
      [] rule = "declaration" -> AnyDeclaration(s)

\* Where nothing was declared, the next token is passed over.
RECURSIVE UnitFrom(_, _)
AfterDeclaration(r, list) ==
    UnitFrom(IF r.t = Nothing THEN Skip(r) ELSE r, ListOf(list.s \o r.t.s))
UnitFrom(s, list) ==
    IF Peek(s) = End THEN Give(s, list) ELSE AfterDeclaration(Declaration(s), list)
Unit == UnitFrom([p |-> 1, e |-> 0, t |-> None, a |-> Nothing, q |-> 0], Nothing)
=============================================================================
