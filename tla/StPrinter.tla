------------------------------- MODULE StPrinter -------------------------------
(***************************************************************************)
(* The Structured Text printer: a syntax tree, parsed or made by another   *)
(* front end, as tokens.  Layout and comments are left out.  A node        *)
(* "negative" is a literal below zero, which no parse produces.            *)
(***************************************************************************)
EXTENDS StParser, SequencesExt

\* The tokens of a node.
RECURSIVE Text(_)

\* Trees of a list, printed and separated.
Joined(list, sep) ==
    FlattenSeq([i \in 1..Len(list) |-> (IF i = 1 THEN <<>> ELSE sep) \o Text(list[i])])
Each(list) == Joined(list.s, <<>>)
When(c, toks) == IF c THEN toks ELSE <<>>
\* A child that may be absent, behind word.
Opt(word, x) == When(x # None, word \o Text(x))

-----------------------------------------------------------------------------
(* Expressions. *)

BinopPrec(op) == CHOOSE i \in DOMAIN Levels: op \in Levels[i]
Prec(x) == CASE x.k = "bin" -> BinopPrec(x.v[1])
             [] x.k \in {"un", "negative"} -> 8
             [] OTHER -> 10
ParenIf(x, c) == IF c THEN <<"(">> \o Text(x) \o <<")">> ELSE Text(x)
PostfixOperand(x) == ParenIf(x, Prec(x) < 10)

ArgKinds == {"arg", "in", "out", "nout"}
Arg(a) == When(a.k = "nout", <<"NOT">>) \o a.v
          \o (CASE a.k = "in" -> <<":=">> [] a.k \in {"out", "nout"} -> <<"=>">> [] OTHER -> <<>>)
          \o Text(a.s[1])
Args(list) == <<"(">> \o Joined(list.s, <<",">>) \o <<")">>

\* Must x be parenthesized to the right of an operator of strength p?
RightNeedsParens_Mut(x, p) == Prec(x) < p
RightNeedsParens(x, p) == Prec(x) <= p

\* An AND under an OR or XOR is parenthesized for the reader.
BinaryOp(x) ==
    LET p == BinopPrec(x.v[1])
        clarify(y) == p <= 2 /\ Prec(y) > p /\ Prec(y) <= 3
    IN ParenIf(x.s[1], Prec(x.s[1]) < p \/ clarify(x.s[1]))
       \o x.v \o ParenIf(x.s[2], RightNeedsParens(x.s[2], p) \/ clarify(x.s[2]))

ElementOf(el) == IF el.v = <<>> THEN Text(el.s[1])
                 ELSE el.v \o <<"(">> \o Text(el.s[1]) \o <<")">>

ExprKinds == {"lit", "id", "negative", "typed", "bin", "un", "call", "member",
              "index", "deref", "paren", "array", "struct"}
Expr(x) ==
    CASE x.k \in {"lit", "id"} -> x.v
      [] x.k = "negative" -> <<"-">> \o x.v
      [] x.k = "typed" -> x.v \o <<"#">> \o Text(x.s[1])
      [] x.k = "bin" -> BinaryOp(x)
      [] x.k = "un" -> x.v \o ParenIf(x.s[1], Prec(x.s[1]) < 8)
      [] x.k = "call" -> PostfixOperand(x.s[1]) \o Args(x.s[2])
      [] x.k = "member" -> PostfixOperand(x.s[1]) \o <<".">> \o x.v
      [] x.k = "index" -> PostfixOperand(x.s[1]) \o <<"[">>
                          \o Joined(x.s[2].s, <<",">>) \o <<"]">>
      [] x.k = "deref" -> PostfixOperand(x.s[1]) \o <<"^">>
      [] x.k = "paren" -> <<"(">> \o Text(x.s[1]) \o <<")">>
      [] x.k = "array" -> <<"[">> \o Joined(x.s, <<",">>) \o <<"]">>
      [] x.k = "struct" -> <<"(">> \o Joined(x.s, <<",">>) \o <<")">>

-----------------------------------------------------------------------------
(* Types and variables. *)

Range2(r) == Text(r.s[1]) \o <<"..">> \o Text(r.s[2])
Field(f) == f.v \o <<":">> \o Text(f.s[1]) \o Opt(<<":=">>, f.s[2]) \o <<";">>
EnumVal(v) == v.v \o When(v.s # <<>>, <<":=">> \o Text(v.s[1]))

TypeKinds == {"named", "string", "arraytype", "vararray", "pointer", "ref",
              "subrange", "structtype", "uniontype", "enum"}
Type(t) ==
    CASE t.k = "named" -> t.v
      [] t.k = "string" -> t.v \o When(t.s # <<>>, <<"[">> \o Text(t.s[1]) \o <<"]">>)
      [] t.k = "arraytype" -> <<"ARRAY", "[">> \o Joined(t.s[1].s, <<",">>)
                              \o <<"]", "OF">> \o Text(t.s[2])
      [] t.k = "vararray" -> <<"ARRAY", "[">>
                             \o Joined([i \in DOMAIN t.v |-> Id(<<t.v[i]>>)], <<",">>)
                             \o <<"]", "OF">> \o Text(t.s[1])
      [] t.k = "pointer" -> <<"POINTER", "TO">> \o Text(t.s[1])
      [] t.k = "ref" -> <<"REFERENCE", "TO">> \o Text(t.s[1])
      [] t.k = "subrange" -> t.v \o <<"(">> \o Range2(t) \o <<")">>
      [] t.k = "structtype" -> <<"STRUCT">> \o Joined(t.s, <<>>) \o <<"END_STRUCT">>
      [] t.k = "uniontype" -> <<"UNION">> \o Joined(t.s, <<>>) \o <<"END_UNION">>
      [] t.k = "enum" -> <<"(">> \o Joined(t.s, <<",">>) \o <<")">> \o t.v

Var(d) == d.v \o Opt(<<"AT">>, d.s[1]) \o <<":">> \o Text(d.s[2])
          \o When(d.s[3] # Nothing, Args(d.s[3])) \o d.s[4].v
          \o Opt(<<":=">>, d.s[5]) \o <<";">>
VarsBlock(b) == b.v \o Joined(b.s, <<>>) \o <<"END_VAR">>

-----------------------------------------------------------------------------
(* Statements. *)

ElsIf(b) == <<"ELSIF">> \o Text(b.s[1]) \o <<"THEN">> \o Each(b.s[2])
OrElseOf(b) == When(b # None, <<"ELSE">> \o Each(b))
Branch(b) == Joined(b.s[1].s, <<",">>) \o <<":">> \o Each(b.s[2])
IsRefOf(x) == /\ x.k = "call" /\ x.s[1] = Id(<<"__REF_OF">>)
              /\ Len(x.s[2].s) = 1 /\ x.s[2].s[1].k = "arg"

StmtKinds == {"assign", "callst", "if", "case", "for", "while", "repeat", "jump",
              "return", "empty"}
Stmt(x) ==
    CASE x.k = "assign" ->
           Text(x.s[1]) \o (IF IsRefOf(x.s[2])
                            THEN <<"REF=">> \o Text(x.s[2].s[2].s[1])
                            ELSE <<":=">> \o Text(x.s[2])) \o <<";">>
      [] x.k = "callst" -> PostfixOperand(x.s[1]) \o Args(x.s[2]) \o <<";">>
      [] x.k = "if" -> <<"IF">> \o Text(x.s[1]) \o <<"THEN">> \o Each(x.s[2])
                       \o Each(x.s[3]) \o OrElseOf(x.s[4]) \o <<"END_IF", ";">>
      [] x.k = "case" -> <<"CASE">> \o Text(x.s[1]) \o <<"OF">> \o Each(x.s[2])
                         \o OrElseOf(x.s[3]) \o <<"END_CASE", ";">>
      [] x.k = "for" -> <<"FOR">> \o Text(x.s[1]) \o <<":=">> \o Text(x.s[2])
                        \o <<"TO">> \o Text(x.s[3]) \o Opt(<<"BY">>, x.s[4])
                        \o <<"DO">> \o Each(x.s[5]) \o <<"END_FOR", ";">>
      [] x.k = "while" -> <<"WHILE">> \o Text(x.s[1]) \o <<"DO">> \o Each(x.s[2])
                          \o <<"END_WHILE", ";">>
      [] x.k = "repeat" -> <<"REPEAT">> \o Each(x.s[1]) \o <<"UNTIL">>
                           \o Text(x.s[2]) \o <<"END_REPEAT", ";">>
      [] x.k = "jump" -> x.v \o <<";">>
      [] x.k = "return" -> <<"RETURN">> \o Opt(<<>>, x.s[1]) \o <<";">>
      [] x.k = "empty" -> <<";">>

-----------------------------------------------------------------------------
(* Declarations. *)

MethodOf(m) == <<"METHOD">> \o m.s[1].v \o m.v \o Opt(<<":">>, m.s[2])
               \o Each(m.s[3]) \o Each(m.s[4]) \o <<"END_METHOD">>
AccessorOf(word, a) == When(a # None, <<word>> \o Each(a.s[1])
                                      \o Each(a.s[2]) \o <<"END_" \o word>>)
PropertyOf(p) == <<"PROPERTY">> \o p.s[1].v \o p.v \o Opt(<<":">>, p.s[2])
                 \o AccessorOf("GET", p.s[3]) \o AccessorOf("SET", p.s[4])
                 \o <<"END_PROPERTY">>
ActionOf(a) == <<"ACTION">> \o a.v \o <<":">> \o Each(a.s[1]) \o <<"END_ACTION">>

\* Variables, then methods, properties and actions, the statements last.
Parts(p) == FlattenSeq([i \in 1..5 |-> Each(p[i])])
Extends(x) == When(x # None, <<"EXTENDS">> \o x.v)
Listed(word, list) == When(list # Nothing, <<word>> \o Joined(list.s, <<",">>))

TaskOf(t) == <<"TASK">> \o t.v \o When(t.s[1] # Nothing, Args(t.s[1])) \o <<";">>
Named(word, n) == When(n # None, <<word>> \o n.v)
InstanceOf(i) == <<"PROGRAM">> \o i.v \o Named("WITH", i.s[1]) \o <<":">> \o i.s[2].v
                 \o When(i.s[3] # Nothing, Args(i.s[3])) \o <<";">>
ResourceOf(r) == <<"RESOURCE">> \o r.v \o Named("ON", r.s[1])
                 \o Each(r.s[2]) \o Each(r.s[3]) \o Each(r.s[4]) \o <<"END_RESOURCE">>

Decl(d) ==
    CASE d.k = "PROGRAM" -> <<"PROGRAM">> \o d.v \o Parts(d.s) \o <<"END_PROGRAM">>
      [] d.k = "FUNCTION" -> <<"FUNCTION">> \o d.v \o Opt(<<":">>, d.s[1])
                             \o Each(d.s[2]) \o Each(d.s[3]) \o <<"END_FUNCTION">>
      [] d.k = "FUNCTION_BLOCK" ->
           <<"FUNCTION_BLOCK">> \o d.v \o Extends(d.s[1]) \o Listed("IMPLEMENTS", d.s[2])
           \o Parts(SubSeq(d.s, 3, 7)) \o <<"END_FUNCTION_BLOCK">>
      [] d.k = "CLASS" ->
           d.s[8].v \o <<"CLASS">> \o d.v \o Extends(d.s[1])
           \o Listed("IMPLEMENTS", d.s[2]) \o Parts(SubSeq(d.s, 3, 7)) \o <<"END_CLASS">>
      [] d.k = "INTERFACE" ->
           <<"INTERFACE">> \o d.v \o Listed("EXTENDS", d.s[1])
           \o Parts(SubSeq(d.s, 2, 6)) \o <<"END_INTERFACE">>
      [] d.k = "TYPE" ->
           <<"TYPE">> \o d.v \o Extends(d.s[1]) \o <<":">> \o Text(d.s[2]) \o Opt(<<":=">>, d.s[3])
           \o When(d.s[2].k \notin {"structtype", "uniontype"} \/ d.s[3] # None, <<";">>)
           \o <<"END_TYPE">>
      [] d.k = "CONFIGURATION" ->
           <<"CONFIGURATION">> \o d.v \o Each(d.s[1]) \o Each(d.s[2]) \o <<"END_CONFIGURATION">>

Text(x) ==
    CASE x.k \in ExprKinds -> Expr(x)
      [] x.k \in StmtKinds -> Stmt(x)
      [] x.k \in ArgKinds -> Arg(x)
      [] x.k \in TypeKinds -> Type(x)
      [] x.k = "elem" -> ElementOf(x)
      [] x.k = "range" -> Range2(x)
      [] x.k = "field" -> Field(x)
      [] x.k = "value" -> EnumVal(x)
      [] x.k = "var" -> Var(x)
      [] x.k = "vars" -> VarsBlock(x)
      [] x.k = "elsif" -> ElsIf(x)
      [] x.k = "branch" -> Branch(x)
      [] x.k = "method" -> MethodOf(x)
      [] x.k = "property" -> PropertyOf(x)
      [] x.k = "action" -> ActionOf(x)
      [] x.k = "task" -> TaskOf(x)
      [] x.k = "instance" -> InstanceOf(x)
      [] x.k = "RESOURCE" -> ResourceOf(x)
      [] OTHER -> Decl(x)

PrintUnit(list) == Each(list)
=============================================================================
