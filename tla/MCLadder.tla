------------------------------ MODULE MCLadder ------------------------------
(* What LadderConversions builds programs of: elements of each dialect, and  *)
(* statements to draw.                                                       *)
EXTENDS LadderTranslate

MCTypes == [a |-> "BOOL", b |-> "BOOL", x |-> "BOOL", y |-> "BOOL", n |-> "INT", t |-> "TON", c |-> "CTUD",
            f |-> "TOF", r |-> "RTO", u |-> "CTU", g |-> "R_TRIG"]
A == Id("a")
B == Id("b")
X == Id("x")
N == Id("n")
Ladder(i) ==
    {Contact(i, A, "no"), Contact(i, X, "nc"), Contact(i, B, "rising"), Contact(i, X, "falling"),
     Coil(i, "x", "normal"), Coil(i, "x", "set"), Coil(i, "y", "rising"), Coil(i, "y", "negated"),
     Branch(i, <<<<Contact(i + 1, A, "no")>>, <<Contact(i + 2, X, "no"), Contact(i + 3, B, "nc")>>>>),
     Branch(i, <<<<Coil(i + 1, "x", "normal")>>, <<Contact(i + 2, B, "no"), Coil(i + 3, "y", "reset")>>>>),
     Block(i, "TON", "t", <<Power("IN"), Out("Q"), To("ET", "n")>>, "IN", "Q"),
     Block(i, "CTUD", "c", <<Power("EN"), In("CU", A), [Power("R") EXCEPT !.r = <<<<Contact(i + 1, X, "nc")>>>>, !.neg = TRUE],
                             Out("ENO"), To("CV", "n")>>, "EN", "ENO"),
     Block(i, "ADD", "", <<Power("EN"), In("IN1", N), In("IN2", Lit(1)), Out("ENO"), To("OUT", "n")>>, "EN", "ENO"),
     Block(i, "GE", "", <<In("IN1", Lit(2)), In("IN2", N), In("IN3", Lit(1)), Out("OUT")>>, "", "OUT"),
     Jump("L"), Ret, StBox(<<Set("y", NotE(Id("y")))>>)}

Cmp == Bin("GT", N, Lit(0))
MCStatements ==
    {Set("x", Bin("OR", A, Bin("AND", X, NotE(B)))),
     Set("y", NotE(Bin("AND", Bin("OR", A, Cmp), NotE(Bin("OR", X, B))))),
     Set("n", Bin("ADD", N, Lit(1))), Set("n", Mem("c", "CV")),
     If(Bin("OR", Cmp, X), <<Set("x", Lit(0)), Set("y", Lit(1))>>),
     If(NotE(A), <<Return>>), If(B, <<Set("n", Lit(0))>>),
     Invoke("t", "TON", <<[n |-> "IN", e |-> Bin("OR", A, X)]>>),
     Call("t", "TON", <<[n |-> "IN", e |-> X]>>, <<[n |-> "Q", x |-> "y"]>>),
     Invoke("c", "CTUD", <<[n |-> "CU", e |-> Cmp], [n |-> "CD", e |-> B], [n |-> "R", e |-> X]>>),
     Set("x", Mem("t", "Q")), Set("y", Mem("t", "Q")), Set("y", Mem("c", "QU")), Set("n", Mem("t", "ET"))}

LogixMenu ==
    {Contact(0, A, "no"), Contact(0, X, "nc"), Coil(0, "x", "normal"), Coil(0, "y", "set"),
     Branch(0, <<<<Contact(0, A, "no")>>, <<Contact(0, X, "no"), Ins("GEQ", <<N, Lit(1)>>)>>>>),
     Branch(0, <<<<Coil(0, "x", "normal")>>, <<Contact(0, X, "nc"), Ins("ONS", <<Id("s")>>)>>, <<>>>>),
     Branch(0, <<<<Contact(0, B, "no"), Jump("L")>>, <<Coil(0, "y", "reset")>>>>),
     Ins("OSF", <<Id("s"), Id("x")>>), Ins("TON", <<Id("tm"), Lit(1), Lit(0)>>), Ins("RTO", <<Id("tm"), Lit(2), Lit(0)>>),
     Ins("CTU", <<Id("ct"), Lit(1), Lit(0)>>), Ins("RES_TIMER", <<Id("tm")>>), Ins("ADD", <<N, Lit(1), N>>),
     Ins("LIM", <<Lit(2), N, Lit(1)>>), Ins("MOV", <<Id("ct.ACC"), N>>), Ins("AFI", <<>>), Ins("MCR", <<>>),
     Ins("TND", <<>>), Ins("JSR", <<>>), Jump("L")}
MCSubroutine == <<Set("n", Bin("ADD", N, Lit(1))), If(B, <<Return>>), Set("y", True)>>

(* translations: instances of their own, no NC contact ahead of an edge *)
OnRising(i) == Block(i, "R_TRIG", "g", <<Power("CLK"), Out("Q")>>, "CLK", "Q")
Timer(i, ty, x, pins) == Block(i, ty, x, <<Power("IN")>> \o pins \o <<In("PT", Lit(PT)), Out("Q"), Out("ET")>>, "IN", "Q")
IecMenu(i) ==
    {Contact(i, A, "no"), Contact(i, X, "no"), Contact(i, B, "rising"),
     Coil(i, "x", "normal"), Coil(i, "y", "negated"), Coil(i, "y", "falling"),
     Branch(i, <<<<Contact(i + 1, X, "nc"), Coil(i + 2, "y", "normal")>>, <<Contact(i + 3, B, "falling"), Coil(i + 4, "x", "set")>>>>),
     Timer(i, "TON", "t", <<>>), Timer(i, "TOF", "f", <<>>), Timer(i, "RTO", "r", <<In("R", B)>>), OnRising(i),
     Block(i, "CTU", "u", <<Power("CU"), In("R", B), In("PV", Lit(PV)), Out("Q"), To("CV", "n")>>, "CU", "Q"),
     Block(i, "CTU", "u", <<Power("EN"), In("CU", A), In("PV", Lit(PV)), Out("ENO")>>, "EN", "ENO"),
     Block(i, "MOVE", "", <<Power("EN"), In("IN", Lit(1)), Out("ENO"), To("OUT", "n")>>, "EN", "ENO"),
     Block(i, "GE", "", <<In("IN1", N), In("IN2", Lit(1)), Out("OUT")>>, "", "OUT"), Jump("L"), Ret}
TagMenu ==
    {Contact(0, A, "no"), Contact(0, Id("u.DN"), "no"), Coil(0, "x", "normal"),
     Branch(0, <<<<Contact(0, B, "no"), Ins("OSF", <<Id("s1"), Id("y")>>)>>, <<>>>>),
     Ins("ONS", <<Id("s")>>), Ins("OSR", <<Id("s"), Id("y")>>),
     Ins("TON", <<Id("t"), Lit(PT), Lit(0)>>), Ins("RTO", <<Id("r"), Lit(PT), Lit(0)>>), Ins("RES_TIMER", <<Id("r")>>),
     Ins("CTU", <<Id("u"), Lit(PV), Lit(0)>>), Clear("u"),
     Ins("GRT", <<Id("r.ACC"), Lit(1)>>), Ins("CPT", <<N, Bin("ADD", N, Id("u.ACC"))>>), Ins("TND", <<>>), Ret, Ins("AFI", <<>>)}

MCMenu(k, i) == CASE k = "lower" -> Ladder(i)
                  [] k = "to_logix" -> IecMenu(i)
                  [] k = "to_iec" -> TagMenu
                  [] OTHER -> LogixMenu
MCElements(k) == IF k \in {"to_logix", "to_iec"} THEN 3 ELSE 2
MCRungs(k) == IF k \in {"to_logix", "to_iec"} THEN 1 ELSE 2
MCScans(k) == IF k \in {"to_logix", "to_iec"} THEN 3 ELSE 2
=============================================================================
