---------------------------- MODULE Dates_proofs ----------------------------
(***************************************************************************)
(* The calendar formulas of Dates are right for every date: the number of  *)
(* a day that the compiler and the program compute is the one counted      *)
(* month by month from the epoch.                                          *)
(***************************************************************************)
EXTENDS Dates, TLAPS

-----------------------------------------------------------------------------
(***************************************************************************)
(* Division.  The quotient and the remainder are determined by their       *)
(* ranges, and what the program makes of sdiv and srem is the floor.       *)
(***************************************************************************)
LEMMA DivisionIsUnique ==
    ASSUME NEW a \in Int, NEW b \in Nat \ {0}, NEW k \in Int, NEW r \in 0..(b - 1),
           a = k * b + r
    PROVE  a \div b = k /\ a % b = r
  <1> DEFINE e == a \div b
             s == a % b
  <1>1. e \in Int /\ s \in 0..(b - 1) /\ a = b * e + s
    OBVIOUS
  <1> HIDE DEF e, s
  <1>2. (k - e) * b = s - r
    BY <1>1
  <1>3. ASSUME k - e >= 1 PROVE FALSE
    <2>1. (k - e) * b >= b
      BY <1>1, <1>3
    <2> QED  BY <2>1, <1>1, <1>2
  <1>4. ASSUME e - k >= 1 PROVE FALSE
    <2>1. (e - k) * b >= b
      BY <1>1, <1>4
    <2> QED  BY <2>1, <1>1, <1>2
  <1>5. k = e
    BY <1>1, <1>3, <1>4
  <1> QED  BY <1>1, <1>2, <1>5 DEF e, s

LEMMA FloorIsDivision ==
    ASSUME NEW b \in Nat \ {0}, NEW k \in Int, NEW r \in 0..(b - 1)
    PROVE  /\ FloorDiv(k * b + r, b) = k
           /\ FloorMod(k * b + r, b) = r
  <1> DEFINE a == k * b + r
  <1>1. a \in Int /\ a = k * b + r
    OBVIOUS
  <1> HIDE DEF a
  <1>2. CASE a >= 0
    <2>1. Trunc(a, b) = k
      BY <1>1, <1>2, DivisionIsUnique DEF Trunc
    <2>2. Rem(a, b) = r
      BY <2>1, <1>1 DEF Rem
    <2> QED  BY <2>1, <2>2, <1>1 DEF FloorDiv, FloorMod, a
  <1>3. CASE a < 0 /\ r = 0
    <2>1. (-a) \div b = -k
      BY <1>1, <1>3, DivisionIsUnique
    <2>2. Trunc(a, b) = k
      BY <1>1, <1>3, <2>1 DEF Trunc
    <2>3. Rem(a, b) = r
      BY <2>2, <1>1 DEF Rem
    <2> QED  BY <2>2, <2>3, <1>1 DEF FloorDiv, FloorMod, a
  <1>4. CASE a < 0 /\ r # 0
    <2>1. -a = (-k - 1) * b + (b - r) /\ b - r \in 0..(b - 1) /\ -k - 1 \in Int /\ -a \in Int
      BY <1>1, <1>4
    <2>2. (-a) \div b = -k - 1
      BY <2>1, DivisionIsUnique
    <2>3. Trunc(a, b) = k + 1
      BY <1>1, <1>4, <2>2 DEF Trunc
    <2>4. b * (k + 1) = k * b + b
      OBVIOUS
    <2>5. Rem(a, b) = r - b
      BY <2>3, <2>4, <1>1 DEF Rem
    <2> QED  BY <2>3, <2>5, <1>1, <1>4 DEF FloorDiv, FloorMod, a
  <1> QED  BY <1>1, <1>2, <1>3, <1>4

-----------------------------------------------------------------------------
(***************************************************************************)
(* The closed formula.  A year that starts in March has its leap day last, *)
(* so the days before it are those of whole years by the Gregorian rule,   *)
(* and those of whole months by one linear formula.                        *)
(***************************************************************************)
MarchYear(y, m)   == IF m <= 2 THEN y - 1 ELSE y
DaysBefore(y)     == 365 * y + y \div 4 - y \div 100 + y \div 400
MonthsBefore(m)   == (MonthFromMarch(m) * 153 + 2) \div 5
DayNumber(y, m, d) == DaysBefore(MarchYear(y, m)) + MonthsBefore(m) + d - 1 - 719468

\* The era of 400 years only keeps the numbers small.
LEMMA EraSums ==
    ASSUME NEW y \in Int, NEW n \in Int, NEW yoe \in Int,
           n = y \div 400, yoe = y - n * 400
    PROVE  /\ yoe \in 0..399
           /\ n * 146097 + (yoe * 365 + yoe \div 4 - yoe \div 100) = DaysBefore(y)
  <1>1. yoe \in 0..399
    OBVIOUS
  <1>2. y \div 4 = n * 100 + yoe \div 4
    BY <1>1
  <1>3. y \div 100 = n * 4 + yoe \div 100
    BY <1>1
  <1> QED  BY <1>1, <1>2, <1>3 DEF DaysBefore

LEMMA FloorOf400 ==
    ASSUME NEW y \in Int
    PROVE  /\ FloorDiv(y, 400) = y \div 400
           /\ Era(y) = y \div 400
  BY DEF FloorDiv, Rem, Trunc, Era

LEMMA MonthNumbers ==
    ASSUME NEW m \in 1..12
    PROVE  /\ MonthFromMarch(m) \in 0..11
           /\ Rem(m + 9, 12) = MonthFromMarch(m)
           /\ Trunc(MonthFromMarch(m) * 153 + 2, 5) = MonthsBefore(m)
           /\ Trunc(153 * MonthFromMarch(m) + 2, 5) = MonthsBefore(m)
           /\ MonthsBefore(m) \in Int
  BY DEF MonthFromMarch, Rem, Trunc, MonthsBefore

\* CONCAT_DATE and the literals compute the same number, the closed one.
LEMMA FormulasAgree ==
    ASSUME NEW y \in Int, NEW m \in 1..12, NEW d \in Int
    PROVE  /\ EmittedDays(y, m, d) = DayNumber(y, m, d)
           /\ LiteralDays(y, m, d) = DayNumber(y, m, d)
  <1> DEFINE v == MarchYear(y, m)
             n == v \div 400
             yoe == v - n * 400
  <1>1. v \in Int /\ n \in Int /\ yoe \in Int
    BY DEF MarchYear
  <1>2. yoe \in 0..399 /\ n * 146097 + (yoe * 365 + yoe \div 4 - yoe \div 100) = DaysBefore(v)
    BY <1>1, EraSums
  <1>3. Trunc(yoe, 4) = yoe \div 4 /\ Trunc(yoe, 100) = yoe \div 100
    BY <1>2 DEF Trunc
  <1>4. FloorDiv(v, 400) = n /\ Era(v) = n
    BY <1>1, FloorOf400
  <1>5. y - (IF m <= 2 THEN 1 ELSE 0) = v /\ (IF m <= 2 THEN y - 1 ELSE y) = v
    BY DEF MarchYear
  <1> HIDE DEF v
  <1> HIDE DEF n, yoe
  <1> DEFINE e == FloorDiv(v, 400)
             f == Era(v)
             h == MonthFromMarch(m)
  <1>6. EmittedDays(y, m, d) =
          n * 146097 + (yoe * 365 + yoe \div 4 - yoe \div 100 + (MonthsBefore(m) + d - 1)) - 719468
    <2>1. EmittedDays(y, m, d) =
            e * 146097 + ((v - e * 400) * 365 + Trunc(v - e * 400, 4) - Trunc(v - e * 400, 100)
                          + (Trunc(h * 153 + 2, 5) + d - 1)) - 719468
      BY <1>5 DEF EmittedDays
    <2>2. e = n /\ v - e * 400 = yoe
      BY <1>4 DEF yoe
    <2> QED  BY <2>1, <2>2, <1>3, MonthNumbers
  <1>7. LiteralDays(y, m, d) =
          n * 146097 + (yoe * 365 + yoe \div 4 - yoe \div 100 + (MonthsBefore(m) + d - 1)) - 719468
    <2>1. LiteralDays(y, m, d) =
            f * 146097 + ((v - f * 400) * 365 + Trunc(v - f * 400, 4) - Trunc(v - f * 400, 100)
                          + (Trunc(153 * Rem(m + 9, 12) + 2, 5) + d - 1)) - 719468
      BY <1>5 DEF LiteralDays
    <2>2. f = n /\ v - f * 400 = yoe
      BY <1>4 DEF yoe
    <2> QED  BY <2>1, <2>2, <1>3, MonthNumbers
  <1>8. DayNumber(y, m, d) = DaysBefore(v) + MonthsBefore(m) + d - 1 - 719468
    BY DEF DayNumber, v
  <1>9. yoe \div 4 \in Int /\ yoe \div 100 \in Int /\ MonthsBefore(m) \in Int
    BY <1>1, MonthNumbers
  <1> QED  BY <1>1, <1>2, <1>6, <1>7, <1>8, <1>9

-----------------------------------------------------------------------------
(***************************************************************************)
(* From one month to the next the closed number grows by the length of the *)
(* month: within a year of March the linear formula gives the lengths, and *)
(* the leap day is the difference of two years.                            *)
(***************************************************************************)
LEMMA LeapDay ==
    ASSUME NEW y \in Int
    PROVE  DaysBefore(y) - DaysBefore(y - 1) = IF Leap(y) THEN 366 ELSE 365
  <1>1. y \div 4 - (y - 1) \div 4 = IF y % 4 = 0 THEN 1 ELSE 0
    OBVIOUS
  <1>2. y \div 100 - (y - 1) \div 100 = IF y % 100 = 0 THEN 1 ELSE 0
    OBVIOUS
  <1>3. y \div 400 - (y - 1) \div 400 = IF y % 400 = 0 THEN 1 ELSE 0
    OBVIOUS
  <1>4. (y % 400 = 0 => y % 100 = 0) /\ (y % 100 = 0 => y % 4 = 0)
    OBVIOUS
  <1> QED  BY <1>1, <1>2, <1>3, <1>4 DEF DaysBefore, Leap

LEMMA MonthLengths ==
    ASSUME NEW y \in Int, NEW m \in 1..12
    PROVE  /\ LengthOf(y, m) \in 28..31
           /\ m # 2 => LengthOf(y, m) = MonthsBefore(IF m = 12 THEN 1 ELSE m + 1) - MonthsBefore(m)
           /\ MonthsBefore(2) = 337 /\ MonthsBefore(3) = 0
  BY DEF LengthOf, MonthsBefore, MonthFromMarch

LEMMA NextMonthNumber ==
    ASSUME NEW y \in Int, NEW m \in 1..12, NEW y1 \in Int, NEW m1 \in 1..12,
           IF m = 12 THEN y1 = y + 1 /\ m1 = 1 ELSE y1 = y /\ m1 = m + 1
    PROVE  DayNumber(y1, m1, 1) = DayNumber(y, m, 1) + LengthOf(y, m)
  <1>1. DaysBefore(y) \in Int /\ DaysBefore(y - 1) \in Int
    BY DEF DaysBefore
  <1>2. MonthsBefore(m) \in Int /\ MonthsBefore(m1) \in Int
    BY MonthNumbers
  <1>3. CASE m # 2
    <2>1. MarchYear(y1, m1) = MarchYear(y, m) /\ MarchYear(y, m) \in {y, y - 1}
      BY <1>3 DEF MarchYear
    <2> QED  BY <1>1, <1>2, <1>3, <2>1, MonthLengths DEF DayNumber
  <1>4. CASE m = 2
    <2>1. MarchYear(y1, m1) = y /\ MarchYear(y, m) = y - 1 /\ m1 = 3
      BY <1>4 DEF MarchYear
    <2>2. LengthOf(y, m) = IF Leap(y) THEN 29 ELSE 28
      BY <1>4 DEF LengthOf
    <2> QED  BY <1>1, <1>4, <2>1, <2>2, LeapDay, MonthLengths DEF DayNumber
  <1> QED  BY <1>3, <1>4

-----------------------------------------------------------------------------
CalendarInv ==
    /\ year \in Int /\ month \in 1..12 /\ first \in Int
    /\ first = DayNumber(year, month, 1)

LEMMA CalendarStarts == Init => CalendarInv
  BY DEF Init, CalendarInv, DayNumber, DaysBefore, MonthsBefore, MonthFromMarch, MarchYear

LEMMA CalendarStep ==
    ASSUME CalendarInv, [Next]_vars
    PROVE  CalendarInv'
  <1>1. CASE NextMonth
    <2>1. year' \in Int /\ month' \in 1..12
      BY <1>1 DEF NextMonth, CalendarInv
    <2>2. LengthOf(year, month) \in Int
      BY MonthLengths DEF CalendarInv
    <2>3. DayNumber(year', month', 1) = DayNumber(year, month, 1) + LengthOf(year, month)
      BY <1>1, <2>1, NextMonthNumber DEF NextMonth, CalendarInv
    <2> QED  BY <1>1, <2>1, <2>2, <2>3 DEF NextMonth, CalendarInv
  <1>2. CASE LastMonth
    <2>1. year' \in Int /\ month' \in 1..12
      BY <1>2 DEF LastMonth, CalendarInv
    <2>2. LengthOf(year', month') \in Int
      BY <2>1, MonthLengths
    <2>3. IF month' = 12 THEN year = year' + 1 /\ month = 1 ELSE year = year' /\ month = month' + 1
      BY <1>2 DEF LastMonth, CalendarInv
    <2>4. DayNumber(year, month, 1) = DayNumber(year', month', 1) + LengthOf(year', month')
      BY <2>1, <2>3, NextMonthNumber DEF CalendarInv
    <2>5. DayNumber(year', month', 1) \in Int
      BY <2>1, MonthNumbers DEF DayNumber, DaysBefore, MarchYear
    <2> QED  BY <1>2, <2>1, <2>2, <2>4, <2>5 DEF LastMonth, CalendarInv
  <1>3. CASE UNCHANGED vars
    BY <1>3 DEF vars, CalendarInv
  <1> QED  BY <1>1, <1>2, <1>3 DEF Next

LEMMA CalendarInvariant == Spec => []CalendarInv
  BY CalendarStarts, CalendarStep, PTL DEF Spec

\* An instant splits into its DATE and its time of day, before the epoch too.
LEMMA InstantsSplit ==
    ASSUME DatesAssumption, NEW day \in Int, NEW t \in 0..(DayLength - 1)
    PROVE  /\ TodOf(day * DayLength + t) = t
           /\ DateOf(day * DayLength + t) = day * DayLength
           /\ DayOfWeek(day * DayLength + t) = (day + 4) % 7
  <1>1. DayLength \in Nat \ {0}
    BY DEF DatesAssumption
  <1>2. /\ FloorMod(day * DayLength + t, DayLength) = t
        /\ FloorDiv(day * DayLength + t, DayLength) = day
    BY <1>1, FloorIsDivision
  <1>3. TodOf(day * DayLength + t) = t
    BY <1>2 DEF TodOf, FloorMod
  <1>4. day * DayLength \in Int /\ (day * DayLength + t) - t = day * DayLength
    BY <1>1
  <1>5. DateOf(day * DayLength + t) = day * DayLength
    BY <1>3, <1>4 DEF DateOf
  <1>6. FloorMod(day + 4, 7) = (day + 4) % 7
    BY DEF FloorMod, Rem, Trunc
  <1> QED  BY <1>2, <1>3, <1>5, <1>6 DEF DayOfWeek

LEMMA EveryDateAgrees ==
    ASSUME DatesAssumption, CalendarInv, NEW d \in 1..LengthOf(year, month)
    PROVE  DateAgrees(d)
  <1> DEFINE day == first + d - 1
  <1>1. d \in 1..31 /\ d \in Int /\ day \in Int
    BY MonthLengths DEF CalendarInv
  <1>2. DayNumber(year, month, d) = day
    BY <1>1, MonthNumbers DEF CalendarInv, DayNumber, DaysBefore, MarchYear
  <1>3. EmittedDays(year, month, d) = day /\ LiteralDays(year, month, d) = day
    BY <1>1, <1>2, FormulasAgree DEF CalendarInv
  <1>4. DateLiteral(year, month, d) = day * DayLength
    BY <1>1, <1>3 DEF DateLiteral, CalendarInv
  <1> HIDE DEF day
  <1>5. \A t \in 0..(DayLength - 1) : /\ DateOf(day * DayLength + t) = day * DayLength
                                      /\ TodOf(day * DayLength + t) = t
                                      /\ DayOfWeek(day * DayLength + t) = (day + 4) % 7
    BY <1>1, InstantsSplit
  <1> QED  BY <1>3, <1>4, <1>5, Zenon DEF DateAgrees, day

\* Whatever the length of a day, in a common year or a leap year, on either side
\* of the epoch (within the 64 bits of an instant): a literal, a
\* CONCAT_DATE and the split of an instant give every day of the calendar its
\* one number (lower.rs, compiler.rs: days_from_civil and the DT splits).
THEOREM EveryDateIsExact ==
    ASSUME DatesAssumption
    PROVE  Spec => [](\A d \in 1..LengthOf(year, month): DateAgrees(d))
  <1>1. CalendarInv => \A d \in 1..LengthOf(year, month): DateAgrees(d)
    BY EveryDateAgrees
  <1> QED  BY <1>1, CalendarInvariant, PTL

LEMMA SamplesAgree ==
    ASSUME DatesAssumption, CalendarInv
    PROVE  CalendarAgrees
  <1> SUFFICES ASSUME NEW d \in Samples PROVE DateAgrees(d)
    BY DEF CalendarAgrees
  <1>1. d \in 1..LengthOf(year, month)
    BY MonthLengths DEF Samples, CalendarInv
  <1> QED  BY <1>1, EveryDateAgrees

\* In particular the days the run samples.
THEOREM CalendarIsExact ==
    ASSUME DatesAssumption
    PROVE  Spec => []CalendarAgrees
  BY SamplesAgree, CalendarInvariant, PTL
=============================================================================
