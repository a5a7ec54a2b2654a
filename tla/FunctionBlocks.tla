--------------------------- MODULE FunctionBlocks ---------------------------
(* The standard function blocks, twice: the Structured Text of plcc-stdlib,   *)
(* which programs run, and the Rust blocks of plcc-runtime.  An instance is   *)
(* called at growing times with any inputs; both are held against what the    *)
(* recorded calls say the block should answer.                                *)
EXTENDS StdBlocks, Sequences, FiniteSets

CONSTANTS
    Calls,          \* kind -> calls an instance gets (bound)
    Steps           \* time that may pass between two calls

\* A preset is an INT or a TIME, and time does not run backwards.
BlocksAssumption ==
    /\ IntMax \in Nat /\ PV \in (-IntMax - 1)..IntMax
    /\ PT \in Int /\ Steps \subseteq Nat

VARIABLES kind, st, rt, log

vars == <<kind, st, rt, log>>

Kinds == {"SR", "RS", "R_TRIG", "F_TRIG", "CTU", "CTD", "CTUD", "TON", "TOF", "TP", "RTO"}
Used(k) ==
    CASE k \in {"R_TRIG", "F_TRIG", "TON", "TOF", "TP"} -> {"a"}
      [] k = "CTUD" -> {"a", "b", "c", "d"}
      [] OTHER -> {"a", "b"}
Inputs(k) == {i \in [{"a", "b", "c", "d"} -> BOOLEAN] : \A x \in {"a", "b", "c", "d"} \ Used(k) : ~i[x]}

(* plcc-runtime: "passed" is the time since the instance's last scan, and v   *)
(* of a timer its elapsed time (et_ms where it differs is not modelled).      *)
RtNew == [New("any") EXCEPT !.m = FALSE]
RtCtud(f, i) ==
    LET up == IF i.a /\ ~f.m THEN f.v + 1 ELSE f.v
        cv == IF i.b THEN 0 ELSE IF i.d THEN PV ELSE IF i.c /\ ~f.m2 THEN up - 1 ELSE up
    IN [f EXCEPT !.v = cv, !.m = i.a, !.m2 = i.c, !.q = cv >= PV, !.qd = cv <= 0]
RtTon(f, i, passed) ==
    LET elapsed == (IF f.run THEN f.v ELSE 0) + passed
    IN IF ~i.a THEN [f EXCEPT !.run = FALSE, !.q = FALSE, !.v = 0]
       ELSE IF f.q THEN [f EXCEPT !.run = TRUE]
       ELSE [f EXCEPT !.run = TRUE, !.v = elapsed, !.q = elapsed >= PT]
RtTof(f, i, passed) ==
    IF i.a THEN [f EXCEPT !.q = TRUE, !.run = TRUE, !.v = 0]
    ELSE IF ~f.run THEN f
    ELSE LET done == f.v + passed >= PT IN [f EXCEPT !.v = @ + passed, !.q = ~done, !.run = ~done]
RtTp(f, i, passed) ==
    LET starts == i.a /\ ~f.m /\ ~f.run
        elapsed == (IF starts THEN 0 ELSE f.v) + passed
        done == elapsed >= PT
    IN IF starts \/ f.run THEN [f EXCEPT !.m = i.a, !.v = elapsed, !.run = ~done, !.q = ~done]
       ELSE [f EXCEPT !.m = i.a]

RtCall(k, f, i, passed) ==
    CASE k = "SR" -> [f EXCEPT !.q = i.a \/ (~i.b /\ @)]
      [] k = "RS" -> [f EXCEPT !.q = ~i.b /\ (i.a \/ @)]
      [] k = "R_TRIG" -> [f EXCEPT !.q = i.a /\ ~f.m, !.m = i.a]
      [] k = "F_TRIG" -> [f EXCEPT !.q = ~i.a /\ f.m, !.m = i.a]
      [] k \in {"CTU", "CTD"} ->
            LET cv == CASE i.b -> (IF k = "CTU" THEN 0 ELSE PV)
                        [] ~i.b /\ i.a /\ ~f.m -> (IF k = "CTU" THEN f.v + 1 ELSE f.v - 1)
                        [] OTHER -> f.v
            IN [f EXCEPT !.v = cv, !.m = i.a, !.q = IF k = "CTU" THEN cv >= PV ELSE cv <= 0]
      [] k = "CTUD" -> RtCtud(f, i)
      [] k = "TON" -> RtTon(f, i, passed)
      [] k = "TOF" -> RtTof(f, i, passed)
      [] k = "TP" -> RtTp(f, i, passed)
      [] k = "RTO" -> f         \* plcc-runtime has none

-----------------------------------------------------------------------------
Init == kind \in Kinds /\ st = New(kind) /\ rt = RtNew /\ log = <<>>

Call(i, passed) ==
    LET now == passed + (IF log = <<>> THEN 0 ELSE log[Len(log)].t)
    IN /\ Len(log) < Calls[kind]
       /\ st' = StCall(kind, st, i, now)
       /\ rt' = RtCall(kind, rt, i, passed)
       /\ log' = Append(log, [t |-> now, i |-> i])
       /\ UNCHANGED kind
Timers == {"TON", "TOF", "TP"}
Next == \E i \in Inputs(kind), passed \in Steps :
            /\ kind \notin Timers \cup {"RTO"} => \A s \in Steps : passed <= s    \* time does not matter to the others
            /\ Call(i, passed)

Spec == Init /\ [][Next]_vars

-----------------------------------------------------------------------------
(* What the calls say.                                                        *)
N == Len(log)
T(n) == IF n = 0 THEN 0 ELSE log[n].t
In(n, x) == log[n].i[x]
Rises(n, x) == In(n, x) /\ (n = 1 \/ ~In(n - 1, x))
Falls(n) == ~In(n, "a") /\ n > 1 /\ In(n - 1, "a")
LastOf(x) == IF \E n \in 1..N : In(n, x) THEN CHOOSE n \in 1..N : In(n, x) /\ \A m \in (n + 1)..N : ~In(m, x) ELSE 0
Edges(from, to, x) == Cardinality({n \in (from + 1)..to : Rises(n, x)})

\* A count since the last reset or load, if it never left the range of an INT.
Since == IF kind = "CTUD" THEN (IF LastOf("b") >= LastOf("d") THEN LastOf("b") ELSE LastOf("d")) ELSE LastOf("b")
Base == CASE Since = 0 \/ kind = "CTU" -> 0
          [] Since # 0 /\ kind = "CTD" -> PV
          [] OTHER -> IF In(Since, "b") THEN 0 ELSE PV
CountAt(n) == Base + (CASE kind = "CTU" -> Edges(Since, n, "a")
                        [] kind = "CTD" -> -Edges(Since, n, "a")
                        [] OTHER -> Edges(Since, n, "a") - Edges(Since, n, "c"))
InInt(v) == -IntMax - 1 <= v /\ v <= IntMax
NeverSaturates == \A n \in Since..N : InInt(CountAt(n))

\* The calls at which a pulse starts, a timer of which the start counts from the
\* call that saw the edge ("late" = 0) or from the one before it (1).
Pulses(late) ==
    LET running[n \in 0..N] ==
            IF n = 0 THEN 0     \* the call that started the pulse running after call n
            ELSE LET p == running[n - 1]
                     s == IF p # 0 THEN p ELSE IF Rises(n, "a") THEN n ELSE 0
                 IN IF s # 0 /\ T(n) - T(s - late) < PT THEN s ELSE 0
    IN running[N]
OnFor(late) == \E n \in 1..N : T(N) - T(n - late) >= PT /\ \A m \in n..N : In(m, "a")
OffWithin(late) == \E n \in 1..N : Falls(n) /\ T(N) - T(n - late) < PT /\ \A m \in n..N : ~In(m, "a")
\* Time both ends of which saw IN, since the last reset.
Accumulated == LET intervals == {n \in (LastOf("b") + 2)..N : In(n, "a") /\ In(n - 1, "a")}
                   sum[n \in 0..N] == IF n = 0 THEN 0 ELSE sum[n - 1] + (IF n \in intervals THEN T(n) - T(n - 1) ELSE 0)
               IN sum[N]

Answer(late) ==
    CASE kind = "SR" -> LET r == {n \in 1..N : In(n, "b") /\ ~In(n, "a")} IN \E n \in 1..N : In(n, "a") /\ \A m \in n..N : m \notin r
      [] kind = "RS" -> \E n \in 1..N : In(n, "a") /\ \A m \in n..N : ~In(m, "b")
      [] kind = "R_TRIG" -> Rises(N, "a")
      [] kind = "F_TRIG" -> Falls(N)
      [] kind = "CTU" -> CountAt(N) >= PV
      [] kind = "CTD" -> CountAt(N) <= 0
      [] kind = "CTUD" -> CountAt(N) >= PV
      [] kind = "TON" -> OnFor(late)
      [] kind = "TOF" -> In(N, "a") \/ OffWithin(late)
      [] kind = "TP" -> Pulses(late) # 0
      [] kind = "RTO" -> Accumulated >= PT /\ ~In(N, "b")

Counters == {"CTU", "CTD", "CTUD"}

(* The Structured Text blocks answer what their history of calls says: a TON  *)
(* is on exactly if IN was seen TRUE for PT without a FALSE between, a pulse  *)
(* is not prolonged by edges during it, an RTO adds up only time both ends of *)
(* which saw IN, a count is the edges since the last reset or load, an edge   *)
(* hidden by a reset is not counted later, and at an end of INT it stays.     *)
AnswersHistory ==
    N > 0 => /\ kind \notin Counters \/ NeverSaturates => st.q = Answer(0)
             /\ kind \in Counters => InInt(st.v) /\ (NeverSaturates => st.v = CountAt(N))
             /\ kind = "CTUD" => st.qd = (st.v <= 0) /\ st.q = (st.v >= PV)

(* plcc-runtime's blocks answer the same, except that their timers count the  *)
(* time before the call that first saw the edge, one scan more.               *)
RuntimeAgrees ==
    N > 0 /\ kind # "RTO" /\ (kind \in Counters => NeverSaturates) =>
        /\ rt.q = Answer(IF kind \in Timers THEN 1 ELSE 0)
        /\ kind \in Counters => rt.v = st.v /\ rt.q = st.q
=============================================================================
