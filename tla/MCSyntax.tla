------------------------------- MODULE MCSyntax -------------------------------
(***************************************************************************)
(* Every pair of operators, nested either way, and every statement and     *)
(* declaration, some inside others; every token of two programs lost in    *)
(* turn; every body of at most four tokens.                                *)
(***************************************************************************)
EXTENDS StPrinter

N(k, v, s) == Node(k, v, s)
A == Id(<<"a">>)
F == Id(<<"f">>)
Five == N("lit", <<"5">>, <<>>)
Paren(x) == N("paren", <<>>, <<x>>)
Op(o, x, y) == N("bin", <<o>>, <<x, y>>)
Un(o, x) == N("un", <<o>>, <<x>>)
Call(x, args) == N("call", <<>>, <<x, ListOf(args)>>)
Given(k, v, x) == N(k, v, <<x>>)

Ops == {"OR", "OR_ELSE", "XOR", "AND", "AND_THEN", "=", "<", "+", "-", "*", "MOD", "**"}
Atoms == {A, Five, N("negative", <<"5">>, <<>>)}
Wrapped(X) == UNION { {Un("NOT", x), Un("-", x), Paren(x),
                       N("member", <<"a">>, <<x>>), N("member", <<"5">>, <<x>>),
                       N("index", <<>>, <<x, ListOf(<<A, x>>)>>),
                       N("deref", <<>>, <<x>>), Call(x, <<>>),
                       Call(F, <<Given("in", <<"a">>, x), Given("out", <<"b">>, A),
                                 Given("nout", <<"b">>, A)>>),
                       Call(F, <<Given("arg", <<>>, x), Given("arg", <<>>, x)>>)}
                      : x \in X }
Binaries(X, Y) == {Op(o, x, y): o \in Ops, x \in X, y \in Y}
Typed == {N("typed", <<"INT">>, <<x>>): x \in {Five, Un("-", Five), Paren(A)}}
Level1 == Atoms \cup Typed \cup Wrapped(Atoms) \cup Binaries({A}, {A})
Exprs == Level1 \cup Wrapped(Level1) \cup Binaries(Level1, {A}) \cup Binaries({A}, Level1)
           \cup {Call(Id(<<"__NEW">>), <<Given("arg", <<>>, Id(<<"POINTER", "TO", "t">>)),
                                         Given("arg", <<>>, A)>>)}

Set(x) == Assign(A, x)
CallSt(args) == N("callst", <<>>, <<F, ListOf(args)>>)
Simples == {CallSt(<<Given("in", <<"a">>, Five)>>), N("empty", <<>>, <<>>),
            N("jump", <<"EXIT">>, <<>>), N("return", <<>>, <<None>>),
            N("return", <<>>, <<A>>), Set(RefOf(F)),
            N("callst", <<>>, <<Op("+", A, A), Nothing>>)}
Bodies == {<<>>} \cup {<<x, y>>: x \in Simples, y \in {Set(Five), CallSt(<<>>)}}
Label1 == ListOf(<<Five, N("range", <<>>, <<Un("-", Five), Five>>)>>)
Label2 == ListOf(<<N("typed", <<"a">>, <<Id(<<"b">>)>>)>>)
Compound(b) ==
    { N("if", <<>>, <<A, ListOf(b), Nothing, None>>),
      N("if", <<>>, <<A, ListOf(b), ListOf(<<N("elsif", <<>>, <<F, ListOf(b)>>)>>),
                      ListOf(b)>>),
      N("case", <<>>, <<A, ListOf(<<N("branch", <<>>, <<Label1, ListOf(b)>>),
                                    N("branch", <<>>, <<Label2, ListOf(b)>>)>>),
                        ListOf(b)>>),
      N("case", <<>>, <<A, Nothing, None>>),
      N("for", <<>>, <<N("index", <<>>, <<A, ListOf(<<Five>>)>>), Five, A, A, ListOf(b)>>),
      N("for", <<>>, <<A, Five, A, None, ListOf(b)>>),
      N("while", <<>>, <<Op("<", A, Five), ListOf(b)>>),
      N("repeat", <<>>, <<ListOf(b), A>>) }
Nested == UNION {Compound(b): b \in Bodies}
Deep == UNION {Compound(<<x, Set(A)>>): x \in Compound(<<Set(Five)>>)}

IntType == N("named", <<"INT">>, <<>>)
Fb == N("named", <<"l", ".", "t">>, <<>>)
Pair == ListOf(<<N("range", <<>>, <<Five, A>>), N("range", <<>>, <<Un("-", Five), Five>>)>>)
Types1 == {IntType, Fb, N("string", <<"STRING">>, <<>>), N("string", <<"WSTRING">>, <<Five>>),
           N("vararray", <<"*", "*">>, <<IntType>>), N("subrange", <<"INT">>, <<Five, A>>),
           N("enum", <<>>, <<N("value", <<"a">>, <<>>), N("value", <<"b">>, <<Five>>)>>),
           N("enum", <<"INT">>, <<N("value", <<"a">>, <<Five>>)>>)}
Types2 == Types1 \cup UNION {{N("arraytype", <<>>, <<Pair, t>>), N("pointer", <<>>, <<t>>),
                              N("ref", <<>>, <<t>>),
                              N("structtype", <<>>, <<N("field", <<"a">>, <<t, Five>>),
                                                      N("field", <<"b">>, <<t, None>>)>>),
                              N("uniontype", <<>>, <<N("field", <<"a">>, <<t, None>>)>>)}
                             : t \in Types1}
Struct0 == N("struct", <<>>, <<>>)
Element1(v, x) == N("elem", v, <<x>>)
Struct1(x) == N("struct", <<>>, <<Given("in", <<"a">>, x), Given("in", <<"b">>, Struct0)>>)
Inits == {None, Five, Struct0, Struct1(Five),
          N("array", <<>>, <<Element1(<<>>, Five), Element1(<<"5">>, Struct1(A)),
                             Element1(<<"5">>, Five)>>),
          Struct1(N("array", <<>>, <<Element1(<<"6">>, Struct0)>>))}
Vars1(head, t, edge, init) ==
    N("vars", head, <<N("var", <<"a">>, <<None, t, Nothing, Id(edge), init>>),
                      N("var", <<"b">>, <<Id(<<"%IX0.0">>), IntType, Nothing, Id(<<>>), None>>)>>)
WithArgs == N("vars", <<"VAR">>, <<N("var", <<"a">>,
              <<None, N("arraytype", <<>>, <<Pair, Fb>>),
                ListOf(<<Given("arg", <<>>, A), Given("in", <<"a">>, Five)>>), Id(<<>>), None>>)>>)
VarSets == {Vars1(<<"VAR">>, t, <<>>, i): t \in Types1, i \in Inits}
             \cup {Vars1(<<"VAR_INPUT">>, t, <<"R_EDGE">>, None): t \in Types2}
             \cup {Vars1(h, IntType, <<>>, None): h \in {<<"VAR", "CONSTANT", "RETAIN">>,
                    <<"VAR_GLOBAL", "NON_RETAIN">>, <<"VAR_OUTPUT", "RETAIN">>}}
             \cup {WithArgs}

Program1(vs, ms, ps, as, body) ==
    N("PROGRAM", <<"p">>, <<ListOf(vs), ListOf(ms), ListOf(ps), ListOf(as), ListOf(body)>>)
Prog(body) == Program1(<<>>, <<>>, <<>>, <<>>, body)
PlainVar == Vars1(<<"VAR">>, IntType, <<>>, Five)
Meth(mods, t, vs, b) == N("method", <<"m">>, <<Id(mods), t, ListOf(vs), ListOf(b)>>)
Methods == {Meth(m, t, vs, b): m \in {<<>>, <<"PUBLIC">>, <<"PRIVATE", "ABSTRACT">>,
                                      <<"FINAL", "OVERRIDE">>},
                               t \in {None, IntType}, vs \in {<<>>, <<PlainVar>>},
                               b \in {<<>>, <<Set(Five)>>}}
Acc(w) == N("accessor", <<w>>, <<ListOf(<<PlainVar>>), ListOf(<<Set(Five)>>)>>)
Props1 == {N("property", <<"q">>, <<Id(<<"PROTECTED", "FINAL">>), IntType, g, s>>):
           g \in {None, Acc("GET")}, s \in {None, Acc("SET")}}
Act == N("action", <<"x">>, <<ListOf(<<Set(Five)>>)>>)
Parts1(ms, ps, as, body) == <<ListOf(<<PlainVar>>), ListOf(ms), ListOf(ps), ListOf(as), ListOf(body)>>
Names2 == ListOf(<<Id(<<"l", ".", "i">>), Id(<<"j">>)>>)
Heads == {<<None, Nothing>>, <<Id(<<"l", ".", "t">>), Names2>>}
Pous == {Program1(<<PlainVar>>, <<m>>, <<q>>, <<Act>>, <<Set(A)>>): m \in Methods, q \in Props1}
    \cup {N("FUNCTION", <<"g">>, <<t, ListOf(<<PlainVar>>), ListOf(<<Set(A)>>)>>): t \in {None, IntType}}
    \cup {N("FUNCTION_BLOCK", <<"t">>, h \o Parts1(<<m, m>>, <<>>, <<Act>>, <<Set(A)>>)):
          h \in Heads, m \in Methods}
    \cup {N("CLASS", <<"c">>, h \o Parts1(<<m>>, <<q>>, <<>>, <<>>) \o <<Id(f)>>):
          h \in Heads, m \in Methods, q \in Props1, f \in {<<>>, <<"ABSTRACT">>, <<"FINAL">>}}
    \cup {N("INTERFACE", <<"i">>, <<h, Nothing, ListOf(<<Meth(<<>>, IntType, <<>>, <<>>)>>), ListOf(<<q>>),
                                    Nothing, Nothing>>):
          h \in {Nothing, Names2}, q \in Props1}
    \cup {N("TYPE", <<"t">>, <<None, t, i>>): t \in Types2, i \in {None, Five}}
    \cup {Vars1(<<"VAR_GLOBAL", "CONSTANT">>, IntType, <<>>, Five)}
Task1 == N("task", <<"k">>, <<ListOf(<<Given("in", <<"INTERVAL">>, N("lit", <<"T#1s">>, <<>>)),
                                       Given("in", <<"PRIORITY">>, Five)>>)>>)
Inst == N("instance", <<"x">>, <<Id(<<"k">>), Id(<<"p">>),
                                 ListOf(<<Given("in", <<"a">>, Five), Given("out", <<"b">>, A)>>)>>)
Config == N("CONFIGURATION", <<"c">>,
            <<ListOf(<<Vars1(<<"VAR_GLOBAL">>, IntType, <<>>, None)>>),
              ListOf(<<N("RESOURCE", <<"r">>, <<Id(<<"u">>), Nothing, ListOf(<<Task1>>),
                                                ListOf(<<Inst>>)>>)>>)>>)

\* A unit whose CASE and members stand outside any other statement.
Whole == Program1(<<PlainVar>>, <<Meth(<<>>, IntType, <<PlainVar>>, <<Set(Op("+", A, Five))>>)>>, <<>>, <<Act>>,
                  <<N("case", <<>>, <<A, ListOf(<<N("branch", <<>>, <<Label1, ListOf(<<Set(Five)>>)>>),
                                                  N("branch", <<>>, <<Label2, ListOf(<<CallSt(<<>>)>>)>>)>>),
                                      ListOf(<<Set(A)>>)>>),
                    Set(Paren(Five))>>)
Fun == N("FUNCTION", <<"g">>, <<IntType, ListOf(<<PlainVar>>),
         ListOf(<<N("if", <<>>, <<A, ListOf(<<Set(Five)>>), Nothing, None>>),
                  N("for", <<>>, <<A, Five, A, None, ListOf(<<CallSt(<<Given("in", <<"a">>, Five)>>)>>)>>)>>)>>)
Pieces == {ListOf(<<Whole, Fun>>), ListOf(<<Fun, Whole>>),
           ListOf(<<Whole, N("CLASS", <<"c">>, <<None, Nothing>> \o
                       Parts1(<<Meth(<<>>, None, <<>>, <<Set(A)>>)>>, <<>>, <<>>, <<>>) \o <<Id(<<>>)>>)>>)}

AllUnits == {ListOf(<<Prog(<<Set(x)>>)>>): x \in Exprs}
       \cup {ListOf(<<Prog(<<x>>)>>): x \in Nested \cup Deep}
       \cup {ListOf(<<Program1(<<v>>, <<>>, <<>>, <<>>, <<>>)>>): v \in VarSets}
       \cup {ListOf(<<d, Prog(<<>>)>>): d \in Pous}
       \cup {ListOf(<<Config, Prog(<<>>)>>)} \cup Pieces

\* p's body is any text of up to four of these tokens.
Alphabet == {"a", "5", "(", ")", "+", "**", ",", ":=", ";"}
Written == {<<"PROGRAM", "p">> \o x \o <<"END_PROGRAM">>:
            x \in UNION {[1..n -> Alphabet]: n \in 0..4}}
=============================================================================
