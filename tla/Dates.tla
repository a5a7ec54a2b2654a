------------------------------- MODULE Dates -------------------------------
(* DATE, TIME_OF_DAY and DATE_AND_TIME: literals become nanoseconds since     *)
(* 1970-01-01 in the compiler, CONCAT_DATE computes the same in the program,  *)
(* and a DT is split into its DATE and its TOD.  The state is a month of the  *)
(* calendar with the number of its first day; months follow one another by    *)
(* the Gregorian rule, which is what the closed formulas are held against.    *)
EXTENDS Integers

CONSTANTS
    FirstYear, LastYear,    \* bound of the walk through the calendar
    DayLength               \* NS_PER_DAY, in the instants the walk looks at

DatesAssumption ==
    /\ FirstYear \in Int /\ LastYear \in Int /\ FirstYear <= 1970 /\ 1970 <= LastYear
    /\ DayLength \in Nat \ {0}

VARIABLES year, month, first

vars == <<year, month, first>>

Leap(y) == y % 4 = 0 /\ (y % 100 # 0 \/ y % 400 = 0)
LengthOf(y, m) == CASE m = 2 -> IF Leap(y) THEN 29 ELSE 28
                    [] m \in {4, 6, 9, 11} -> 30
                    [] OTHER -> 31
Init == year = 1970 /\ month = 1 /\ first = 0
NextMonth ==
    /\ year < LastYear
    /\ first' = first + LengthOf(year, month)
    /\ IF month = 12 THEN year' = year + 1 /\ month' = 1 ELSE month' = month + 1 /\ UNCHANGED year
LastMonth ==
    /\ year > FirstYear
    /\ IF month = 1 THEN year' = year - 1 /\ month' = 12 ELSE month' = month - 1 /\ UNCHANGED year
    /\ first' = first - LengthOf(year', month')
Next == NextMonth \/ LastMonth
Spec == Init /\ [][Next]_vars

-----------------------------------------------------------------------------
\* Division of Rust and of LLVM: toward zero.
Trunc(a, b) == IF a >= 0 THEN a \div b ELSE -((-a) \div b)
Rem(a, b) == a - b * Trunc(a, b)

\* The emitted floor_div and floor_mod, from sdiv and srem.
FloorDiv_Mut(a, b) == Trunc(a, b)
FloorDiv(a, b) == IF Rem(a, b) < 0 THEN Trunc(a, b) - 1 ELSE Trunc(a, b)
FloorMod(a, b) == IF Rem(a, b) < 0 THEN Rem(a, b) + b ELSE Rem(a, b)

\* days_from_civil of the compiler, on literals.
Era(y) == Trunc(IF y >= 0 THEN y ELSE y - 399, 400)
LiteralDays(y0, m, d) ==
    LET y == IF m <= 2 THEN y0 - 1 ELSE y0
        yoe == y - Era(y) * 400
        doy == Trunc(153 * Rem(m + 9, 12) + 2, 5) + d - 1
    IN Era(y) * 146097 + (yoe * 365 + Trunc(yoe, 4) - Trunc(yoe, 100) + doy) - 719468
DateLiteral(y, m, d) == IF m \in 1..12 /\ d \in 1..31 THEN LiteralDays(y, m, d) * DayLength ELSE "malformed"

\* days_from_civil of the program, behind CONCAT_DATE and CONCAT_DT.
MonthFromMarch(m) == IF m <= 2 THEN m + 9 ELSE m - 3
EmittedDays(y0, m, d) ==
    LET y == y0 - (IF m <= 2 THEN 1 ELSE 0)
        era == FloorDiv(y, 400)
        yoe == y - era * 400
        doy == Trunc(MonthFromMarch(m) * 153 + 2, 5) + d - 1
    IN era * 146097 + (yoe * 365 + Trunc(yoe, 4) - Trunc(yoe, 100) + doy) - 719468

\* DT_TO_TOD and DT_TO_DATE, and DAY_OF_WEEK (Sunday is 0).
TodOf(dt) == LET r == Rem(dt, DayLength) IN IF r < 0 THEN r + DayLength ELSE r
DateOf(dt) == dt - TodOf(dt)
DayOfWeek(date) == FloorMod(FloorDiv(date, DayLength) + 4, 7)

-----------------------------------------------------------------------------
(* Every date of the calendar, before the epoch, before the year 0 and across *)
(* the leap years too, has the day number of the calendar in a literal and in *)
(* CONCAT_DATE alike; an instant of that day splits into exactly that DATE    *)
(* and its time of day; and the weekdays follow one another from the Thursday *)
(* of 1970-01-01.                                                             *)
DateAgrees(d) ==
    LET day == first + d - 1
    IN /\ EmittedDays(year, month, d) = day
       /\ DateLiteral(year, month, d) = day * DayLength
       /\ \A t \in 0..(DayLength - 1) : /\ DateOf(day * DayLength + t) = day * DayLength
                                        /\ TodOf(day * DayLength + t) = t
                                        /\ DayOfWeek(day * DayLength + t) = (day + 4) % 7
Samples == {1, 2, LengthOf(year, month)}
CalendarAgrees == \A d \in Samples : DateAgrees(d)

=============================================================================
