----------------------------- MODULE StdBlocks ------------------------------
(* The standard function blocks of plcc-stdlib as functions of their state,   *)
(* inputs and time.  Inputs are a to d: a is IN, CU (CD of a CTD), CLK, S1 or *)
(* S, b is R, R1 or a CTD's LD, c is a CTUD's CD and d its LD.                *)
EXTENDS Integers

CONSTANTS
    PT, PV,         \* the preset of timers and of counters
    IntMax          \* INT goes from -IntMax - 1 to IntMax

Least(x, y) == IF x < y THEN x ELSE y

(* One record serves every block: m and m2 are the edge memories, run and     *)
(* start the timers' RUNNING and START_NS (LAST_NS).                          *)
New(k) == [q |-> FALSE, qd |-> FALSE, v |-> 0, m |-> k = "F_TRIG", m2 |-> FALSE, run |-> FALSE, start |-> 0]

Up(v) == IF v < IntMax THEN v + 1 ELSE v
Dn(v) == IF v > -IntMax - 1 THEN v - 1 ELSE v

StCtu(f, i) == LET cv == IF i.b THEN 0 ELSE IF i.a /\ ~f.m THEN Up(f.v) ELSE f.v
               IN [f EXCEPT !.v = cv, !.m = i.a, !.q = cv >= PV]
StCtd(f, i) == LET cv == IF i.b THEN PV ELSE IF i.a /\ ~f.m THEN Dn(f.v) ELSE f.v
               IN [f EXCEPT !.v = cv, !.m = i.a, !.q = cv <= 0]
StCtud(f, i) ==
    LET up == i.a /\ ~f.m
        down == i.c /\ ~f.m2
        cv == CASE i.b -> 0
                [] ~i.b /\ i.d -> PV
                [] ~i.b /\ ~i.d /\ up /\ ~down -> Up(f.v)
                [] ~i.b /\ ~i.d /\ down /\ ~up -> Dn(f.v)
                [] OTHER -> f.v
    IN [f EXCEPT !.v = cv, !.m = i.a, !.m2 = i.c, !.q = cv >= PV, !.qd = cv <= 0]

StTon(f, i, now) ==
    LET since == IF f.run THEN f.start ELSE now
    IN IF ~i.a THEN [f EXCEPT !.run = FALSE, !.v = 0, !.q = FALSE]
       ELSE [f EXCEPT !.run = TRUE, !.start = since, !.v = Least(now - since, PT), !.q = now - since >= PT]
StTof(f, i, now) ==
    LET start == IF f.m THEN now ELSE f.start
        done == now - start >= PT
    IN IF i.a THEN [f EXCEPT !.m = TRUE, !.run = FALSE, !.v = 0, !.q = TRUE]
       ELSE IF ~(f.m \/ f.run) THEN [f EXCEPT !.m = FALSE]
       ELSE [f EXCEPT !.m = FALSE, !.run = ~done, !.start = start, !.v = Least(now - start, PT), !.q = ~done]
StTp(f, i, now) ==
    LET edge == i.a /\ ~f.m
        run == f.run \/ edge
        start == IF edge /\ ~f.run THEN now ELSE f.start
        done == now - start >= PT
    IN IF run THEN [f EXCEPT !.m = i.a, !.run = ~done, !.start = start, !.v = Least(now - start, PT), !.q = ~done]
       ELSE [f EXCEPT !.m = i.a, !.q = FALSE, !.v = IF i.a THEN @ ELSE 0]
StRto_Mut(f, i, now) ==
    LET et == IF i.b THEN 0
              ELSE IF i.a /\ f.v < PT THEN Least(f.v + now - f.start, PT) ELSE f.v
    IN [f EXCEPT !.v = et, !.run = i.a /\ ~i.b, !.start = IF i.a /\ ~i.b THEN now ELSE @, !.q = et >= PT /\ ~i.b]
StRto(f, i, now) ==
    LET et == IF i.b THEN 0
              ELSE IF i.a /\ f.run /\ f.v < PT THEN Least(f.v + now - f.start, PT) ELSE f.v
    IN [f EXCEPT !.v = et, !.run = i.a /\ ~i.b, !.start = IF i.a /\ ~i.b THEN now ELSE @, !.q = et >= PT /\ ~i.b]

StCall(k, f, i, now) ==
    CASE k = "SR" -> [f EXCEPT !.q = i.a \/ (~i.b /\ @)]
      [] k = "RS" -> [f EXCEPT !.q = ~i.b /\ (i.a \/ @)]
      [] k = "R_TRIG" -> [f EXCEPT !.q = i.a /\ ~f.m, !.m = i.a]
      [] k = "F_TRIG" -> [f EXCEPT !.q = ~i.a /\ ~f.m, !.m = ~i.a]
      [] k = "CTU" -> StCtu(f, i)
      [] k = "CTD" -> StCtd(f, i)
      [] k = "CTUD" -> StCtud(f, i)
      [] k = "TON" -> StTon(f, i, now)
      [] k = "TOF" -> StTof(f, i, now)
      [] k = "TP" -> StTp(f, i, now)
      [] k = "RTO" -> StRto(f, i, now)
=============================================================================
