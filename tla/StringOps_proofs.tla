--------------------------- MODULE StringOps_proofs ---------------------------
(***************************************************************************)
(* Proofs about the emitted string code, for every set of variables, every *)
(* length and every number of bits: no store leaves its buffer, nor a load *)
(* but for a MID at a position outside its text, no STRING loses its       *)
(* terminator, each statement but such a MID leaves in its target what the *)
(* language says of it, and each query answers what it says.               *)
(***************************************************************************)
EXTENDS StringOps, SequenceTheorems, WellFoundedInduction, TLAPS

\* A set of numbers has a least one: induction, stated without an operator.
LEMMA LeastNumber ==
    ASSUME NEW T \in SUBSET Nat, T # {}
    PROVE  \E n \in T: \A m \in T: n <= m
  <1>1. PICK n \in T: \A m \in T: ~(<<m, n>> \in OpToRel(<, Nat))
    BY NatLessThanWellFounded, WFMin
  <1>2. \A m \in T: ~(m < n)
    BY <1>1 DEF OpToRel
  <1> QED  BY <1>2

\* What the constants say of numbers.
LEMMA NumbersAssumed ==
    ASSUME StringsAssumption
    PROVE  /\ Base \in Nat \ {0, 1} /\ Base \in Nat
           /\ Bits \in Nat \ {0} /\ Bits \in Nat
           /\ Bits + 2 <= MaxBytes
  <1>1. Base \in Nat \ {0, 1} /\ Bits \in Nat \ {0} /\ Bits + 2 <= MaxBytes
    BY Zenon DEF StringsAssumption
  <1> QED  BY <1>1

LEMMA CharsAre == \A c \in Chars: c \in Int /\ c >= 1 /\ c # NUL /\ c # Junk
  BY DEF Chars, NUL, Junk

-----------------------------------------------------------------------------
(***************************************************************************)
(* Buffers.  A buffer is clean up to its terminator: no fresh byte lies    *)
(* before it.                                                              *)
(***************************************************************************)
CleanTo(b, n) == n \in DOMAIN b /\ b[n] = NUL /\ \A m \in 0..(n - 1): b[m] \in Chars
Clean(b, size) == DOMAIN b = 0..(size - 1) /\ \E n \in DOMAIN b: CleanTo(b, n)

\* The first NUL is the length.
LEMMA CleanEnds ==
    ASSUME NEW b, NEW size \in Nat, DOMAIN b = 0..(size - 1), NEW n, CleanTo(b, n)
    PROVE  StrLen(b) = n
  <1> DEFINE P(x) == x \in DOMAIN b /\ b[x] = NUL /\ \A m \in DOMAIN b: m < x => b[m] # NUL
  <1>1. n \in 0..(size - 1) /\ b[n] = NUL /\ \A m \in 0..(n - 1): b[m] # NUL
    BY CharsAre DEF CleanTo
  <1>2. P(n)
    <2>1. ASSUME NEW m \in DOMAIN b, m < n PROVE b[m] # NUL
      <3>1. m \in 0..(n - 1)
        BY <1>1, <2>1
      <3> QED  BY <3>1, <1>1
    <2> QED  BY <1>1, <2>1
  <1>3. \A x: P(x) => x = n
    <2>1. ASSUME NEW x, P(x), x # n PROVE FALSE
      <3>1. x \in Int /\ n \in Int /\ (x < n \/ n < x)
        BY <1>1, <2>1
      <3>2. b[x] = NUL /\ b[n] = NUL
        BY <1>1, <2>1
      <3> QED  BY <1>2, <2>1, <3>1, <3>2
    <2> QED  BY <2>1
  <1>4. StrLen(b) = CHOOSE x \in DOMAIN b: b[x] = NUL /\ \A m \in DOMAIN b: m < x => b[m] # NUL
    BY DEF StrLen
  <1>5. \E x \in DOMAIN b: b[x] = NUL /\ \A m \in DOMAIN b: m < x => b[m] # NUL
    BY <1>2
  <1>6. P(StrLen(b))
    BY <1>4, <1>5, Zenon
  <1> QED  BY <1>3, <1>6

\* What plcc_strlen of a clean buffer gives a reader.
LEMMA CleanLength ==
    ASSUME NEW b, NEW size \in Nat, Clean(b, size)
    PROVE  /\ StrLen(b) \in 0..(size - 1) /\ StrLen(b) \in Nat /\ b[StrLen(b)] = NUL
           /\ \A m \in 0..(StrLen(b) - 1): b[m] \in Chars
           /\ \A m \in 0..StrLen(b): m \in DOMAIN b
           /\ \A m \in 0..StrLen(b): b[m] # NUL => m + 1 \in 0..StrLen(b) /\ b[m] # Junk
  <1>1. PICK n \in DOMAIN b: CleanTo(b, n)
    BY DEF Clean
  <1>2. DOMAIN b = 0..(size - 1)
    BY DEF Clean
  <1>3. StrLen(b) = n
    BY <1>1, <1>2, CleanEnds
  <1>4. b[n] = NUL /\ n \in 0..(size - 1) /\ \A m \in 0..(n - 1): b[m] \in Chars
    BY <1>1, <1>2 DEF CleanTo
  <1>5. ASSUME NEW m \in 0..n PROVE m \in 0..(size - 1) /\ (b[m] # NUL => m + 1 \in 0..n /\ b[m] # Junk)
    <2>1. CASE m = n
      BY <1>4, <2>1
    <2>2. CASE m # n
      <3>1. m \in 0..(n - 1) /\ m \in 0..(size - 1) /\ m + 1 \in 0..n
        BY <1>4, <2>2
      <3> QED  BY <3>1, <1>4, CharsAre
    <2> QED  BY <2>1, <2>2
  <1> QED  BY <1>2, <1>3, <1>4, <1>5

\* A buffer of characters whose last byte is NUL.
LEMMA LastIsNul ==
    ASSUME NEW b, NEW size \in Nat \ {0}, DOMAIN b = 0..(size - 1), b[size - 1] = NUL,
           \A n \in 0..(size - 1): b[n] \in Chars \cup {NUL}
    PROVE  Clean(b, size)
  <1> DEFINE T == {n \in Nat: n < size /\ b[n] = NUL}
  <1>1. size - 1 \in T
    OBVIOUS
  <1>2. PICK n \in T: \A m \in T: n <= m
    BY <1>1, LeastNumber
  <1>3. n \in 0..(size - 1) /\ b[n] = NUL
    OBVIOUS
  <1>4. ASSUME NEW m \in 0..(n - 1) PROVE b[m] \in Chars
    <2>1. m \in 0..(size - 1) /\ m \in Nat /\ m < size /\ ~(n <= m)
      BY <1>3
    <2>2. m \notin T
      BY <1>2, <2>1
    <2> QED  BY <2>1, <2>2
  <1>5. CleanTo(b, n)
    BY <1>3, <1>4 DEF CleanTo
  <1> QED  BY <1>3, <1>5 DEF Clean

\* A literal cut to its variable is clean,
LEMMA FittedIsClean ==
    ASSUME NEW s \in Seq(Chars \cup {NUL}), NEW size \in Nat \ {0}, Base \in Nat
    PROVE  Clean(Fitted(s, size), size)
  <1> DEFINE b == Fitted(s, size)
  <1>1. DOMAIN b = 0..(size - 1) /\ Len(s) \in Nat
    BY DEF Fitted
  <1>2. b[size - 1] = NUL
    BY <1>1 DEF Fitted, Lowest
  <1>3. ASSUME NEW n \in 0..(size - 1) PROVE b[n] \in Chars \cup {NUL}
    <2>1. CASE n < Lowest(Len(s), size - 1)
      <3>1. n + 1 \in 1..Len(s)
        BY <1>1, <2>1 DEF Lowest
      <3>2. s[n + 1] \in Chars \cup {NUL}
        BY <3>1
      <3> QED  BY <2>1, <3>2 DEF Fitted
    <2>2. CASE ~(n < Lowest(Len(s), size - 1))
      BY <2>2 DEF Fitted
    <2> QED  BY <2>1, <2>2
  <1> QED  BY <1>1, <1>2, <1>3, LastIsNul

\* and so is a STRING copied as a value.
LEMMA ReshapedIsClean ==
    ASSUME NEW b, NEW from \in Nat \ {0}, Clean(b, from), NEW size \in Nat \ {0}
    PROVE  Clean(Reshaped(b, size), size)
  <1>1. CASE DOMAIN b = 0..(size - 1)
    BY <1>1 DEF Reshaped, Clean
  <1>2. CASE DOMAIN b # 0..(size - 1)
    <2> DEFINE r == Reshaped(b, size)
               n == Lowest(StrLen(b), size - 1)
               t == StrLen(b)
    <2>1. t \in Nat /\ t < from /\ b[t] = NUL /\ (\A m \in 0..(t - 1): b[m] \in Chars) /\ DOMAIN b = 0..(from - 1)
      BY CleanLength DEF Clean
    <2> HIDE DEF t
    <2>2. DOMAIN r = 0..(size - 1) /\ \A m \in 0..(size - 1): r[m] = IF m \in DOMAIN b /\ m < size - 1 THEN b[m] ELSE NUL
      BY <1>2 DEF Reshaped
    <2> HIDE DEF r
    <2>3. n \in 0..(size - 1) /\ n <= t /\ (n = t \/ n = size - 1)
      BY <2>1 DEF Lowest, t
    <2> HIDE DEF n
    <2>4. r[n] = NUL
      BY <2>1, <2>2, <2>3
    <2>5. ASSUME NEW m \in 0..(n - 1) PROVE r[m] \in Chars
      <3>1. m \in 0..(t - 1) /\ m \in DOMAIN b /\ m < size - 1 /\ m \in 0..(size - 1)
        BY <2>1, <2>3
      <3> QED  BY <2>1, <2>2, <3>1
    <2> QED  BY <2>2, <2>3, <2>4, <2>5 DEF r, Clean, CleanTo
  <1> QED  BY <1>1, <1>2

-----------------------------------------------------------------------------
(***************************************************************************)
(* Calls.  A loop is safe to run when it starts at or before the           *)
(* terminator of what it reads, or ends there.  The calls of a statement   *)
(* build its temporary, the last one copies that into the target.          *)
(***************************************************************************)
Loops == [from: Buffers, start: Nat, end: Int, nul: BOOLEAN]
Whence(d) == IF d = "temp" THEN Vars \cup {"empty"} ELSE {"temp"}
SafeLoop(s, m, d) ==
    /\ s.from \in Whence(d)
    /\ s.from = "temp" => s.nul /\ s.start = 0
    /\ s.from # "temp" => IF s.nul THEN s.start <= StrLen(m[s.from]) ELSE s.end <= StrLen(m[s.from])
SafeLoops(ss, m, d) == ss \in Seq(Loops) /\ \A n \in DOMAIN ss: SafeLoop(ss[n], m, d)

CallRecords == [to: Buffers, cap: Nat \ {0}, append: BOOLEAN, loops: Seq(Loops)]
Builds(c, m, cap) == c.to = "temp" /\ c.cap = cap /\ SafeLoops(c.loops, m, "temp")

VarsClean(m) == \A v \in Vars: Clean(m[v], Size[v])
EmptyClean(m) == Clean(m["empty"], 1)

LEMMA SizesArePositive ==
    ASSUME StringsAssumption, NEW v \in Vars
    PROVE  Size[v] \in Nat \ {0}
  <1>1. Size[v] \in 1..MaxBytes
    BY SMT DEF StringsAssumption
  <1>2. MaxBytes \in Int
    BY DEF MaxBytes
  <1> QED  BY <1>1, <1>2

\* Arguments are variables or the literal ''; both are clean.
LEMMA SourceClean ==
    ASSUME StringsAssumption, NEW m, VarsClean(m), EmptyClean(m), NEW a \in Vars \cup {"empty"}
    PROVE  /\ StrLen(m[a]) \in Nat /\ a \in Buffers /\ a # "temp"
           /\ \E size \in Nat \ {0}: Clean(m[a], size)
  <1>1. PICK size \in Nat \ {0}: Clean(m[a], size)
    <2>1. CASE a \in Vars
      <3>1. Size[a] \in Nat \ {0}
        BY <2>1, SizesArePositive
      <3>2. Clean(m[a], Size[a])
        BY <2>1 DEF VarsClean
      <3> QED  BY <3>1, <3>2
    <2>2. CASE a = "empty"
      BY <2>2 DEF EmptyClean
    <2> QED  BY <2>1, <2>2
  <1>2. StrLen(m[a]) \in Nat
    BY <1>1, CleanLength
  <1> QED  BY <1>1, <1>2 DEF Buffers, StringsAssumption

Texts == Vars \cup {"empty"}

LEMMA CopyIsSafe ==
    ASSUME StringsAssumption, NEW m, VarsClean(m), EmptyClean(m),
           NEW a \in Texts, NEW start \in Nat, NEW end \in Int, NEW nul \in BOOLEAN,
           IF nul THEN start <= StrLen(m[a]) ELSE end <= StrLen(m[a])
    PROVE  Copy(a, start, end, nul) \in Loops /\ SafeLoop(Copy(a, start, end, nul), m, "temp")
  BY SourceClean, Zenon DEF Copy, Loops, SafeLoop, Whence, Texts

LEMMA WholeIsSafe ==
    ASSUME StringsAssumption, NEW m, VarsClean(m), EmptyClean(m), NEW a \in Texts
    PROVE  Whole(a) \in Loops /\ SafeLoop(Whole(a), m, "temp")
  <1>1. 0 \in Nat /\ NoEnd \in Int /\ 0 <= StrLen(m[a])
    BY SourceClean DEF NoEnd, Texts
  <1> QED  BY <1>1, CopyIsSafe, Zenon DEF Whole

\* The calls that build the result of a builtin.
Building(cs, m, cap) ==
    /\ cs \in Seq(CallRecords) /\ cs # <<>>
    /\ ~cs[1].append
    /\ \A n \in DOMAIN cs: Builds(cs[n], m, cap)

LEMMA OneCall ==
    ASSUME NEW m, NEW cap \in Nat \ {0}, NEW ss, SafeLoops(ss, m, "temp")
    PROVE  Building(<<Call("temp", cap, FALSE, ss)>>, m, cap)
  <1> DEFINE c == Call("temp", cap, FALSE, ss)
  <1>1. c \in CallRecords /\ ~c.append /\ Builds(c, m, cap)
    BY Zenon DEF Call, CallRecords, Builds, SafeLoops, Buffers
  <1> HIDE DEF c
  <1>2. <<c>> \in Seq(CallRecords) /\ <<c>> # <<>> /\ DOMAIN <<c>> = {1} /\ <<c>>[1] = c
    BY <1>1
  <1> QED  BY <1>1, <1>2, Zenon DEF Building, c

LEMMA OneLoop ==
    ASSUME NEW m, NEW s \in Loops, SafeLoop(s, m, "temp")
    PROVE  SafeLoops(<<s>>, m, "temp")
  <1>1. <<s>> \in Seq(Loops) /\ DOMAIN <<s>> = {1} /\ <<s>>[1] = s
    OBVIOUS
  <1> QED  BY <1>1, Zenon DEF SafeLoops

LEMMA ThreeLoops ==
    ASSUME NEW m, NEW s \in Loops, NEW t \in Loops, NEW u \in Loops,
           SafeLoop(s, m, "temp"), SafeLoop(t, m, "temp"), SafeLoop(u, m, "temp")
    PROVE  SafeLoops(<<s, t, u>>, m, "temp")
  <1> DEFINE x == <<s, t, u>>
  <1>1. x \in Seq(Loops) /\ DOMAIN x = {1, 2, 3} /\ x[1] = s /\ x[2] = t /\ x[3] = u
    OBVIOUS
  <1> HIDE DEF x
  <1> QED  BY <1>1, Zenon DEF SafeLoops, x

\* plcc_replace: its indices are clamped to the text.
LEMMA ReplaceIsSafe ==
    ASSUME StringsAssumption, VarsClean(mem), EmptyClean(mem), NEW j, j.a \in Vars, NEW b \in Texts,
           ResultBytes(j) \in Nat \ {0}, NEW l \in Int, NEW p \in Int
    PROVE  Building(<<ReplaceCall(j, b, l, p)>>, mem, ResultBytes(j))
  <1> DEFINE n == StrLen(mem[j.a])
  <1>1. n \in Nat /\ j.a \in Texts
    BY SourceClean DEF Texts
  <1> HIDE DEF n
  <1>2. From(n, p) \in Nat /\ From(n, p) <= n /\ Rest(n, l, p) \in Nat /\ Rest(n, l, p) <= n
    BY <1>1 DEF From, Rest, Lowest, Highest
  <1>3. 0 <= n /\ 0 \in Nat /\ n \in Int /\ From(n, p) \in Int
    BY <1>1, <1>2
  <1>4. /\ Copy(j.a, 0, From(n, p), TRUE) \in Loops
        /\ SafeLoop(Copy(j.a, 0, From(n, p), TRUE), mem, "temp")
    BY <1>1, <1>3, CopyIsSafe, Zenon DEF n
  <1>5. /\ Copy(j.a, Rest(n, l, p), n, TRUE) \in Loops
        /\ SafeLoop(Copy(j.a, Rest(n, l, p), n, TRUE), mem, "temp")
    BY <1>1, <1>2, <1>3, CopyIsSafe, Zenon DEF n
  <1>6. SafeLoops(<<Copy(j.a, 0, From(n, p), TRUE), Whole(b), Copy(j.a, Rest(n, l, p), n, TRUE)>>, mem, "temp")
    BY <1>4, <1>5, WholeIsSafe, ThreeLoops, Zenon
  <1> QED  BY <1>6, OneCall, Zenon DEF ReplaceCall, n

\* ResultBytes is at least one byte, which the terminator takes.
LEMMA RoomForResult ==
    ASSUME StringsAssumption, NEW j \in Builtins
    PROVE  ResultBytes(j) \in Nat \ {0}
  <1>1. j.a \in Vars /\ (j.op \in {"CONCAT", "INSERT", "REPLACE"} => j.b \in Vars) /\ j.op # "NUMBER"
    BY Zenon DEF Builtins, Plain
  <1>2. \A v \in Vars: Size[v] \in Nat \ {0}
    BY SizesArePositive
  <1>3. CASE j.op \in {"CONCAT", "INSERT", "REPLACE"}
    <2>1. Size[j.a] \in Nat \ {0} /\ Size[j.b] \in Nat \ {0}
      BY <1>1, <1>2, <1>3
    <2>2. ResultBytes(j) = Size[j.a] + Size[j.b] - 1
      BY <1>3, Zenon DEF ResultBytes
    <2> QED  BY <2>1, <2>2
  <1>4. CASE j.op \notin {"CONCAT", "INSERT", "REPLACE"}
    <2>1. ResultBytes(j) = Size[j.a]
      BY <1>1, <1>4 DEF ResultBytes
    <2> QED  BY <1>1, <1>2, <2>1
  <1> QED  BY <1>3, <1>4

\* Every builtin is built in the temporary by calls that read within their arguments.
LEMMA HelperCallsBuild ==
    ASSUME StringsAssumption, VarsClean(mem), EmptyClean(mem),
           NEW j \in Builtins, ~Astray(j)
    PROVE  Building(HelperCalls(j), mem, ResultBytes(j))
  <1> DEFINE R == ResultBytes(j)
             n == StrLen(mem[j.a])
  <1>0. R \in Nat \ {0}
    BY RoomForResult
  <1>1. j.a \in Vars /\ j.a \in Texts /\ j.b \in Texts /\ (j.op = "CONCAT" => j.b \in Vars)
    BY Zenon DEF Builtins, Plain, Texts
  <1>2. n \in Nat
    BY <1>1, SourceClean DEF Texts
  <1>3. j.l \in Int /\ j.p \in Int
    <2>1. j.l \in Counts \cup {0} /\ j.p \in Counts \cup {0}
      BY Zenon DEF Builtins, Plain
    <2>2. Counts \subseteq Int /\ 0 \in Int
      BY SMT DEF StringsAssumption
    <2> QED  BY <2>1, <2>2, Zenon
  <1> HIDE DEF R
  <1>4. CASE j.op = "CONCAT"
    <2> DEFINE c == StrLcpy("temp", R, j.a)
               d == StrLcat("temp", R, j.b)
    <2>1. SafeLoops(<<Whole(j.a)>>, mem, "temp") /\ SafeLoops(<<Whole(j.b)>>, mem, "temp")
      BY <1>1, WholeIsSafe, OneLoop, Zenon
    <2>2. c \in CallRecords /\ ~c.append /\ Builds(c, mem, R)
      BY <1>0, <2>1, Zenon DEF StrLcpy, Call, CallRecords, Builds, SafeLoops, Buffers
    <2>3. d \in CallRecords /\ Builds(d, mem, R)
      BY <1>0, <2>1, Zenon DEF StrLcat, Call, CallRecords, Builds, SafeLoops, Buffers
    <2>4. HelperCalls(j) = <<c, d>>
      BY <1>4 DEF HelperCalls, R
    <2> HIDE DEF c, d
    <2>5. <<c, d>> \in Seq(CallRecords) /\ <<c, d>> # <<>> /\ DOMAIN <<c, d>> = {1, 2} /\ <<c, d>>[1] = c /\ <<c, d>>[2] = d
      BY <2>2, <2>3
    <2> QED  BY <2>2, <2>3, <2>4, <2>5, Zenon DEF Building, R
  <1>5. CASE j.op = "LEFT"
    <2>1. Copy(j.a, 0, j.l, TRUE) \in Loops /\ SafeLoop(Copy(j.a, 0, j.l, TRUE), mem, "temp")
      <3>1. 0 \in Nat /\ 0 <= n
        BY <1>2
      <3> QED  BY <1>1, <1>3, <3>1, CopyIsSafe, Zenon
    <2>2. HelperCalls(j) = <<LeftCall(j)>>
      BY <1>5 DEF HelperCalls
    <2> QED  BY <1>0, <2>1, <2>2, OneLoop, OneCall, Zenon DEF LeftCall, R
  <1>6. CASE j.op = "RIGHT"
    <2>1. Copy(j.a, RightStart(n, j.l), n, FALSE) \in Loops /\ SafeLoop(Copy(j.a, RightStart(n, j.l), n, FALSE), mem, "temp")
      <3>1. RightStart(n, j.l) \in Nat /\ n <= n /\ n \in Int
        BY <1>2, <1>3 DEF RightStart, Highest
      <3> QED  BY <1>1, <3>1, CopyIsSafe, Zenon
    <2>2. HelperCalls(j) = <<RightCall(j)>>
      BY <1>6 DEF HelperCalls
    <2> QED  BY <1>0, <2>1, <2>2, OneLoop, OneCall, Zenon DEF RightCall, R
  <1>7. CASE j.op = "MID"
    <2>1. Copy(j.a, j.p - 1, j.p - 1 + j.l, TRUE) \in Loops /\ SafeLoop(Copy(j.a, j.p - 1, j.p - 1 + j.l, TRUE), mem, "temp")
      <3>0. j.p \in 1..(n + 1)
        BY <1>7 DEF Astray
      <3>1. j.p - 1 \in Nat /\ j.p - 1 <= n /\ j.p - 1 + j.l \in Int
        BY <1>2, <1>3, <3>0
      <3> QED  BY <1>1, <3>1, CopyIsSafe, Zenon
    <2>2. HelperCalls(j) = <<MidCall(j)>>
      BY <1>7 DEF HelperCalls
    <2> QED  BY <1>0, <2>1, <2>2, OneLoop, OneCall, Zenon DEF MidCall, R
  <1>8. CASE j.op = "REPLACE"
    <2>1. HelperCalls(j) = <<ReplaceCall(j, j.b, j.l, j.p)>>
      BY <1>8 DEF HelperCalls
    <2> QED  BY <1>0, <1>1, <1>3, <2>1, ReplaceIsSafe, Zenon DEF R
  <1>9. CASE j.op = "INSERT"
    <2>1. HelperCalls(j) = <<ReplaceCall(j, j.b, 0, j.p + 1)>>
      BY <1>9 DEF HelperCalls
    <2>2. 0 \in Int /\ j.p + 1 \in Int
      BY <1>3
    <2> QED  BY <1>0, <1>1, <2>1, <2>2, ReplaceIsSafe, Zenon DEF R
  <1>10. CASE j.op = "DELETE"
    <2>1. HelperCalls(j) = <<ReplaceCall(j, "empty", j.l, j.p)>>
      BY <1>10 DEF HelperCalls
    <2>2. "empty" \in Texts
      BY DEF Texts
    <2> QED  BY <1>0, <1>1, <1>3, <2>1, <2>2, ReplaceIsSafe, Zenon DEF R
  <1>11. j.op \in {"CONCAT", "LEFT", "RIGHT", "MID", "REPLACE", "INSERT", "DELETE"}
    BY Zenon DEF Builtins, Plain
  <1> QED  BY <1>4, <1>5, <1>6, <1>7, <1>8, <1>9, <1>10, <1>11

-----------------------------------------------------------------------------
(***************************************************************************)
(* The invariant.  Between statements every variable is clean; the calls   *)
(* still to be made are safe, and the last one copies the temporary; the   *)
(* call under way has written a clean prefix, and reads up to a            *)
(* terminator; a query's indices are within its texts.                     *)
(***************************************************************************)
MemInv ==
    /\ DOMAIN mem = Buffers
    /\ EmptyClean(mem)
    /\ \A v \in Vars: DOMAIN mem[v] = 0..(Size[v] - 1) /\ (dest # v => Clean(mem[v], Size[v]))

JobInv ==
    /\ loop \in {"none", "outer", "inner", "compare"}
    /\ job = Idle => calls = <<>> /\ dest = "none" /\ loop = "none" /\ i = 0 /\ k = 0
    /\ job # Idle /\ loop = "none" => job.to \in Vars
    /\ loop # "none" => calls = <<>> /\ dest = "none" /\ job.a \in Vars /\ job.b \in Vars
    /\ dest = "none" => segs = <<>>

TempClean == \E cap \in Nat \ {0}: Clean(mem["temp"], cap)
BuildsTemp(cs) ==
    \E cap \in Nat \ {0}:
        DOMAIN mem["temp"] = 0..(cap - 1) /\ \A n \in 1..(Len(cs) - 1): Builds(cs[n], mem, cap)
CallsInv ==
    /\ calls \in Seq(CallRecords)
    /\ calls # <<>> =>
        /\ calls[Len(calls)] = StrLcpy(job.to, Size[job.to], "temp")
        /\ BuildsTemp(calls)
        /\ dest = "none" => (Len(calls) > 1 /\ ~calls[1].append) \/ TempClean

ReadsIn == i \in Nat /\ (Loop.nul => i <= StrLen(mem[Loop.from]))
RunInv ==
    dest # "none" =>
        /\ dest = IF calls = <<>> THEN job.to ELSE "temp"
        /\ room \in Nat \ {0} /\ DOMAIN mem[dest] = 0..(room - 1) /\ k \in 0..(room - 1)
        /\ \A n \in 0..(k - 1): mem[dest][n] \in Chars
        /\ SafeLoops(segs, mem, dest)
        /\ segs # <<>> => ReadsIn
        /\ calls = <<>> => TempClean

QueryInv ==
    LET a == StrLen(mem[job.a])
        b == StrLen(mem[job.b])
    IN /\ loop = "outer" => i \in 0..a
       /\ loop = "compare" => i \in 0..a /\ i \in 0..b
       /\ loop = "inner" => i \in 0..a /\ i + 1 \in 0..a /\ k \in 0..b /\ i + k \in 0..a

StringsInv == MemInv /\ JobInv /\ CallsInv /\ RunInv /\ QueryInv

LEMMA Names ==
    ASSUME StringsAssumption, NEW v \in Vars
    PROVE  v # "temp" /\ v # "empty" /\ v # "none" /\ v \in Buffers /\ "temp" \in Buffers
  BY SMT DEF StringsAssumption, Buffers

LEMMA SafeAsBefore ==
    ASSUME StringsAssumption, NEW m, NEW n, NEW ss, SafeLoops(ss, m, "temp"), \A x \in Texts: n[x] = m[x]
    PROVE  SafeLoops(ss, n, "temp")
  BY Zenon DEF SafeLoops, SafeLoop, Whence, Texts

LEMMA AllClean ==
    ASSUME StringsAssumption, MemInv, dest \notin Vars
    PROVE  VarsClean(mem) /\ EmptyClean(mem)
  BY Zenon DEF MemInv, VarsClean

\* s := 'abc'; s := t;
LEMMA StoreKeeps ==
    ASSUME StringsAssumption, StringsInv, job = Idle,
           NEW v \in Vars, NEW x, Clean(x, Size[v]),
           mem' = [mem EXCEPT ![v] = x], UNCHANGED <<job, calls, dest, room, segs, i, k, loop>>
    PROVE  StringsInv'
  <1>1. calls = <<>> /\ dest = "none" /\ loop = "none" /\ i = 0 /\ k = 0 /\ segs = <<>>
    BY Zenon DEF StringsInv, JobInv
  <1>2. mem'[v] = x /\ (\A b \in Buffers: b # v => mem'[b] = mem[b]) /\ DOMAIN mem' = Buffers
    BY Names DEF StringsInv, MemInv
  <1>3. "empty" \in Buffers /\ "empty" # v
    BY Names DEF Buffers
  <1>4. MemInv'
    <2>1. EmptyClean(mem')
      BY <1>2, <1>3, Zenon DEF StringsInv, MemInv, EmptyClean
    <2>2. ASSUME NEW w \in Vars PROVE Clean(mem'[w], Size[w])
      <3>1. CASE w = v
        BY <1>2, <3>1
      <3>2. CASE w # v
        BY <1>1, <1>2, <3>2, Names, Zenon DEF StringsInv, MemInv
      <3> QED  BY <3>1, <3>2
    <2> QED  BY <1>2, <2>1, <2>2, Zenon DEF MemInv, Clean
  <1>5. CallsInv' /\ RunInv' /\ QueryInv' /\ JobInv'
    BY <1>1, Zenon DEF StringsInv, CallsInv, RunInv, QueryInv, JobInv
  <1> QED  BY <1>4, <1>5 DEF StringsInv

\* s := CONCAT(a, b); and the like.
LEMMA AppendsLast ==
    ASSUME NEW S, NEW cs \in Seq(S), NEW c \in S
    PROVE  /\ Append(cs, c) \in Seq(S) /\ Append(cs, c) # <<>>
           /\ Len(Append(cs, c)) = Len(cs) + 1 /\ Append(cs, c)[Len(cs) + 1] = c
           /\ \A n \in 1..Len(cs): Append(cs, c)[n] = cs[n] /\ n \in DOMAIN cs
           /\ Len(cs) \in Nat /\ (cs # <<>> => Len(cs) > 0 /\ 1 \in 1..Len(cs))
  <1>1. Len(cs) \in Nat /\ DOMAIN cs = 1..Len(cs) /\ (cs # <<>> => Len(cs) > 0)
    OBVIOUS
  <1>2. /\ Append(cs, c) \in Seq(S) /\ Len(Append(cs, c)) = Len(cs) + 1
        /\ Append(cs, c)[Len(cs) + 1] = c
        /\ \A n \in 1..Len(cs): Append(cs, c)[n] = cs[n]
    OBVIOUS
  <1>3. Append(cs, c) # <<>>
    <2>1. Len(Append(cs, c)) # 0 /\ Len(<<>>) = 0
      BY <1>1, <1>2
    <2> QED  BY <2>1, Zenon
  <1> QED  BY <1>1, <1>2, <1>3

LEMMA LastCall ==
    ASSUME StringsAssumption, NEW v \in Vars
    PROVE  StrLcpy(v, Size[v], "temp") \in CallRecords
  <1>1. Size[v] \in Nat \ {0} /\ v \in Buffers /\ "temp" \in Buffers
    BY SizesArePositive, Names
  <1>2. Whole("temp") \in Loops
    <2>1. 0 \in Nat /\ NoEnd \in Int
      BY DEF NoEnd
    <2> QED  BY <1>1, <2>1, Zenon DEF Whole, Copy, Loops
  <1>3. <<Whole("temp")>> \in Seq(Loops)
    BY <1>2
  <1> QED  BY <1>1, <1>3, Zenon DEF StrLcpy, Call, CallRecords

\* A statement begins with the temporary; nothing else changes.
LEMMA TempChanges ==
    ASSUME StringsAssumption, MemInv, dest = "none", NEW x, mem' = [mem EXCEPT !["temp"] = x]
    PROVE  /\ mem'["temp"] = x /\ (\A b \in Texts: mem'[b] = mem[b])
           /\ (UNCHANGED dest => MemInv')
  <1>1. DOMAIN mem = Buffers /\ "temp" \in Buffers /\ "empty" \in Buffers /\ "empty" # "temp"
    BY DEF MemInv, Buffers
  <1>2. mem'["temp"] = x /\ DOMAIN mem' = Buffers /\ (\A b \in Buffers: b # "temp" => mem'[b] = mem[b])
    BY <1>1
  <1>3. \A b \in Texts: mem'[b] = mem[b]
    BY <1>1, <1>2, Names, Zenon DEF Texts
  <1>4. UNCHANGED dest => MemInv'
    BY <1>2, <1>3, Zenon DEF MemInv, EmptyClean, Texts
  <1> QED  BY <1>2, <1>3, <1>4

\* A builtin begins.
LEMMA AssignBuiltinKeeps ==
    ASSUME StringsAssumption, StringsInv, NEW v \in Vars, NEW j \in Builtins, AssignBuiltin(v, j), ~Astray(j)
    PROVE  StringsInv'
  <1> DEFINE R == ResultBytes(j)
             H == HelperCalls(j)
             last == StrLcpy(v, Size[v], "temp")
  <1>1. calls = <<>> /\ dest = "none" /\ loop = "none" /\ i = 0 /\ k = 0 /\ segs = <<>>
    BY Zenon DEF StringsInv, JobInv, AssignBuiltin
  <1>2. MemInv /\ dest \notin Vars
    BY <1>1, Names DEF StringsInv
  <1>3. Building(H, mem, R) /\ R \in Nat \ {0}
    BY <1>2, AllClean, HelperCallsBuild, RoomForResult, Zenon DEF AssignBuiltin
  <1>4. /\ mem' = [mem EXCEPT !["temp"] = [n \in 0..(R - 1) |-> Junk]]
        /\ calls' = Append(H, last) /\ job' = [op |-> j.op, to |-> v, means |-> Meaning(j), astray |-> Astray(j)]
        /\ UNCHANGED <<dest, room, segs, i, k, loop>>
    BY Zenon DEF AssignBuiltin
  <1>5. MemInv' /\ mem'["temp"] = [n \in 0..(R - 1) |-> Junk] /\ \A b \in Texts: mem'[b] = mem[b]
    BY <1>1, <1>2, <1>4, TempChanges
  <1> HIDE DEF R, H, last
  <1>6. job'.to = v /\ job' # Idle
    <2>1. job'.op = j.op /\ job'.to = v /\ Idle.op = "idle"
      BY <1>4 DEF Idle
    <2>2. j.op # "idle"
      BY DEF Builtins, Plain
    <2> QED  BY <2>1, <2>2
  <1>7. JobInv'
    BY <1>1, <1>4, <1>6, Zenon DEF JobInv
  <1>8. last \in CallRecords /\ H \in Seq(CallRecords) /\ H # <<>> /\ ~H[1].append /\ \A n \in DOMAIN H: Builds(H[n], mem, R)
    BY <1>3, LastCall, Zenon DEF Building, last
  <1>9. /\ calls' \in Seq(CallRecords) /\ calls' # <<>>
        /\ Len(calls') = Len(H) + 1 /\ calls'[Len(H) + 1] = last
        /\ \A n \in 1..Len(H): calls'[n] = H[n] /\ n \in DOMAIN H
        /\ Len(H) \in Nat /\ Len(H) > 0 /\ 1 \in 1..Len(H)
    BY <1>4, <1>8, AppendsLast
  <1>10. Len(calls') - 1 = Len(H) /\ Len(calls') > 1
    BY <1>9
  <1>11. BuildsTemp(calls)'
    <2>1. DOMAIN mem'["temp"] = 0..(R - 1)
      BY <1>5
    <2>2. ASSUME NEW n \in 1..Len(H) PROVE Builds(calls'[n], mem', R)
      <3>1. Builds(H[n], mem, R) /\ calls'[n] = H[n]
        BY <1>8, <1>9
      <3> QED  BY <1>5, <3>1, SafeAsBefore, Zenon DEF Builds
    <2> QED  BY <1>3, <1>10, <2>1, <2>2, Zenon DEF BuildsTemp
  <1>12. CallsInv'
    <2>1. calls'[Len(calls')] = StrLcpy(job'.to, Size[job'.to], "temp")
      BY <1>6, <1>9 DEF last
    <2>2. Len(calls') > 1 /\ ~calls'[1].append
      BY <1>8, <1>9, <1>10
    <2> QED  BY <1>9, <1>11, <2>1, <2>2, Zenon DEF CallsInv
  <1>13. RunInv' /\ QueryInv'
    BY <1>1, <1>4, Zenon DEF RunInv, QueryInv
  <1> QED  BY <1>5, <1>7, <1>12, <1>13 DEF StringsInv

\* A helper call begins.
LEMMA FirstOf ==
    ASSUME NEW S, NEW s \in Seq(S), s # <<>>
    PROVE  /\ Head(s) = s[1] /\ s[1] \in S /\ Tail(s) \in Seq(S)
           /\ Len(s) \in Nat /\ Len(s) > 0 /\ Len(Tail(s)) = Len(s) - 1
           /\ DOMAIN s = 1..Len(s) /\ DOMAIN Tail(s) = 1..(Len(s) - 1)
           /\ \A n \in 1..(Len(s) - 1): Tail(s)[n] = s[n + 1]
           /\ (Tail(s) = <<>> <=> Len(s) = 1)
  <1>1. Len(s) \in Nat /\ Len(s) > 0 /\ DOMAIN s = 1..Len(s) /\ Head(s) = s[1] /\ s[1] \in S
    OBVIOUS
  <1>2. /\ Tail(s) \in Seq(S) /\ Len(Tail(s)) = Len(s) - 1 /\ DOMAIN Tail(s) = 1..(Len(s) - 1)
        /\ \A n \in 1..(Len(s) - 1): Tail(s)[n] = s[n + 1]
    OBVIOUS
  <1>3. Tail(s) = <<>> <=> Len(s) = 1
    <2>1. Tail(s) = <<>> <=> Len(Tail(s)) = 0
      BY <1>2
    <2> QED  BY <1>1, <1>2, <2>1
  <1> QED  BY <1>1, <1>2, <1>3

\* The loop that runs next starts within its text.
LEMMA LoopStarts ==
    ASSUME StringsAssumption, NEW ss, NEW m, NEW d, SafeLoops(ss, m, d), ss # <<>>,
           d # "temp" => \E cap \in Nat \ {0}: Clean(m["temp"], cap)
    PROVE  /\ StartOf(ss) \in Nat
           /\ Head(ss).nul => StartOf(ss) <= StrLen(m[Head(ss).from])
           /\ SafeLoops(Tail(ss), m, d)
  <1>1. ss \in Seq(Loops) /\ \A n \in DOMAIN ss: SafeLoop(ss[n], m, d)
    BY Zenon DEF SafeLoops
  <1>2. /\ Head(ss) = ss[1] /\ ss[1] \in Loops /\ 1 \in DOMAIN ss /\ Tail(ss) \in Seq(Loops)
        /\ \A n \in DOMAIN Tail(ss): n + 1 \in DOMAIN ss /\ Tail(ss)[n] = ss[n + 1]
    BY <1>1, FirstOf
  <1> DEFINE h == ss[1]
  <1>3. StartOf(ss) = h.start /\ h.start \in Nat /\ SafeLoop(h, m, d)
    BY <1>1, <1>2, Zenon DEF StartOf, Loops
  <1> HIDE DEF h
  <1>4. h.nul => h.start <= StrLen(m[h.from])
    <2>1. CASE h.from = "temp"
      <3>1. d # "temp" /\ h.start = 0
        BY <1>3, <2>1, Names, Zenon DEF SafeLoop, Whence
      <3>2. StrLen(m["temp"]) \in Nat
        BY <3>1, CleanLength
      <3> QED  BY <2>1, <3>1, <3>2
    <2>2. CASE h.from # "temp"
      BY <1>3, <2>2, Zenon DEF SafeLoop
    <2> QED  BY <2>1, <2>2
  <1>5. SafeLoops(Tail(ss), m, d)
    BY <1>1, <1>2, Zenon DEF SafeLoops
  <1> QED  BY <1>2, <1>3, <1>4, <1>5 DEF h

\* A call begins: where it writes, and what it reads, is in bounds.
LEMMA StartCallKeeps ==
    ASSUME StringsAssumption, StringsInv, StartCall
    PROVE  StringsInv'
  <1> DEFINE c == calls[1]
  <1>1. /\ dest = "none" /\ calls # <<>> /\ dest' = c.to /\ room' = c.cap /\ segs' = c.loops
        /\ calls' = Tail(calls) /\ k' = (IF c.append THEN StrLen(mem[dest']) ELSE 0)
        /\ i' = StartOf(segs') /\ UNCHANGED <<mem, job, loop, answer>>
    <2>1. Head(calls) = c
      BY FirstOf DEF StringsInv, CallsInv, StartCall
    <2> QED  BY <2>1, Zenon DEF StartCall
  <1>2. MemInv /\ loop = "none" /\ job # Idle /\ job.to \in Vars
    BY <1>1, Zenon DEF StringsInv, JobInv
  <1>3. /\ calls \in Seq(CallRecords) /\ c \in CallRecords /\ Tail(calls) \in Seq(CallRecords)
        /\ Len(calls) \in Nat /\ Len(calls) > 0 /\ Len(Tail(calls)) = Len(calls) - 1
        /\ \A n \in 1..(Len(calls) - 1): Tail(calls)[n] = calls[n + 1]
        /\ (Tail(calls) = <<>> <=> Len(calls) = 1)
    <2>1. calls \in Seq(CallRecords)
      BY DEF StringsInv, CallsInv
    <2> QED  BY <1>1, <2>1, FirstOf
  <1>4. /\ calls[Len(calls)] = StrLcpy(job.to, Size[job.to], "temp")
        /\ BuildsTemp(calls) /\ ((Len(calls) > 1 /\ ~c.append) \/ TempClean)
    BY <1>1, Zenon DEF StringsInv, CallsInv
  <1>5. MemInv'
    <2>1. \A v \in Vars: dest # v
      BY <1>1, Names
    <2>2. \A v \in Vars: Clean(mem[v], Size[v])
      BY <1>2, <2>1, Zenon DEF MemInv
    <2> QED  BY <1>1, <1>2, <2>2, Zenon DEF MemInv
  <1>6. CASE Len(calls) = 1
    <2>1. c = StrLcpy(job.to, Size[job.to], "temp") /\ TempClean /\ calls' = <<>>
      BY <1>1, <1>3, <1>4, <1>6
    <2>2. c.to = job.to /\ c.cap = Size[job.to] /\ c.append = FALSE /\ c.loops = <<Whole("temp")>>
      BY <2>1 DEF StrLcpy, Call
    <2>3. k' = 0 /\ dest' = job.to /\ dest' # "none" /\ room' \in Nat \ {0} /\ DOMAIN mem'[dest'] = 0..(room' - 1)
      <3>1. DOMAIN mem[job.to] = 0..(Size[job.to] - 1)
        BY <1>2, Zenon DEF MemInv
      <3> QED  BY <1>1, <1>2, <2>2, <3>1, SizesArePositive, Names
    <2>4. SafeLoops(segs', mem', dest')
      <3> DEFINE w == Whole("temp")
      <3>1. w \in Loops /\ SafeLoop(w, mem', dest')
        <4>1. "temp" \in Buffers /\ dest' # "temp" /\ 0 \in Nat /\ NoEnd \in Int
          BY <1>2, <2>3, Names DEF NoEnd
        <4> QED  BY <4>1, Zenon DEF Whole, Copy, Loops, SafeLoop, Whence
      <3> HIDE DEF w
      <3>2. <<w>> \in Seq(Loops) /\ DOMAIN <<w>> = {1} /\ <<w>>[1] = w
        BY <3>1
      <3> QED  BY <1>1, <2>2, <3>1, <3>2, Zenon DEF SafeLoops, w
    <2>5. segs' # <<>>
      BY <1>1, <2>2
    <2>6. TempClean'
      BY <1>1, <2>1, Zenon DEF TempClean
    <2>7. ReadsIn'
      <3>1. \E cap \in Nat \ {0}: Clean(mem'["temp"], cap)
        BY <2>6 DEF TempClean
      <3> QED  BY <1>1, <2>4, <2>5, <3>1, LoopStarts, Zenon DEF ReadsIn, Loop
    <2>8. RunInv'
      <3>1. k' \in 0..(room' - 1)
        <4> DEFINE r == room'
        <4>1. r \in Nat \ {0}
          BY <2>3
        <4> HIDE DEF r
        <4>2. 0 \in 0..(r - 1)
          BY <4>1
        <4> QED  BY <2>3, <4>2 DEF r
      <3>2. \A n \in 0..(k' - 1): FALSE
        BY <2>3
      <3> QED  BY <1>1, <2>1, <2>3, <2>4, <2>6, <2>7, <3>1, <3>2, Zenon DEF RunInv
    <2>9. JobInv' /\ CallsInv' /\ QueryInv'
      BY <1>1, <1>2, <1>3, <2>1, <2>3, Zenon DEF JobInv, CallsInv, QueryInv
    <2> QED  BY <1>5, <2>8, <2>9 DEF StringsInv
  <1>7. CASE Len(calls) # 1
    <2>1. PICK cap \in Nat \ {0}: DOMAIN mem["temp"] = 0..(cap - 1) /\ \A n \in 1..(Len(calls) - 1): Builds(calls[n], mem, cap)
      BY <1>4 DEF BuildsTemp
    <2>2. Builds(c, mem, cap) /\ Len(calls) > 1
      <3>1. 1 \in 1..(Len(calls) - 1) /\ Len(calls) > 1
        BY <1>3, <1>7
      <3> QED  BY <2>1, <3>1
    <2>3. dest' = "temp" /\ room' = cap /\ SafeLoops(segs', mem', "temp") /\ calls' # <<>>
      BY <1>1, <1>3, <1>7, <2>2, Zenon DEF Builds
    <2>4. k' \in 0..(cap - 1) /\ \A n \in 0..(k' - 1): mem["temp"][n] \in Chars
      <3>1. CASE c.append
        <4>1. PICK cap2 \in Nat \ {0}: Clean(mem["temp"], cap2)
          BY <1>4, <3>1 DEF TempClean
        <4>2. k' = StrLen(mem["temp"])
          BY <1>1, <2>3, <3>1
        <4>3. /\ k' \in Nat /\ k' \in DOMAIN mem["temp"] /\ \A n \in 0..(k' - 1): mem["temp"][n] \in Chars
          BY <4>1, <4>2, CleanLength
        <4> QED  BY <2>1, <4>3
      <3>2. CASE ~c.append
        <4>1. k' = 0
          BY <1>1, <3>2
        <4> QED  BY <2>1, <4>1
      <3> QED  BY <3>1, <3>2
    <2>5. segs' # <<>> => ReadsIn'
      BY <1>1, <2>3, LoopStarts, Zenon DEF ReadsIn, Loop
    <2>6. RunInv'
      BY <1>1, <2>1, <2>3, <2>4, <2>5, Zenon DEF RunInv
    <2>7. BuildsTemp(calls)'
      <3>1. ASSUME NEW n \in 1..(Len(calls') - 1) PROVE Builds(calls'[n], mem', cap)
        <4>1. n + 1 \in 1..(Len(calls) - 1) /\ calls'[n] = calls[n + 1]
          BY <1>1, <1>3
        <4> QED  BY <1>1, <2>1, <4>1, Zenon
      <3> QED  BY <1>1, <2>1, <3>1, Zenon DEF BuildsTemp
    <2>8. calls'[Len(calls')] = calls[Len(calls)]
      <3>1. Len(calls) - 1 \in 1..(Len(calls) - 1) /\ (Len(calls) - 1) + 1 = Len(calls)
        BY <1>3, <2>2
      <3> QED  BY <1>1, <1>3, <3>1
    <2>9. CallsInv'
      BY <1>1, <1>3, <1>4, <2>3, <2>7, <2>8, Zenon DEF CallsInv
    <2>10. JobInv' /\ QueryInv'
      BY <1>1, <1>2, <2>3, Zenon DEF JobInv, QueryInv
    <2> QED  BY <1>5, <2>6, <2>9, <2>10 DEF StringsInv
  <1> QED  BY <1>6, <1>7

\* What a copy loop reads is clean, and not what it writes.
LEMMA ReadsClean ==
    ASSUME StringsAssumption, StringsInv, dest # "none", segs # <<>>
    PROVE  /\ Loop \in Loops /\ SafeLoop(Loop, mem, dest) /\ Loop.from # dest /\ i \in Nat
           /\ IF Loop.nul THEN i <= StrLen(mem[Loop.from]) ELSE Loop.end <= StrLen(mem[Loop.from])
           /\ \E size \in Nat \ {0}: Clean(mem[Loop.from], size)
  <1>1. RunInv /\ MemInv /\ job.to \in Vars
    BY Zenon DEF StringsInv, JobInv
  <1>2. /\ dest = (IF calls = <<>> THEN job.to ELSE "temp") /\ SafeLoops(segs, mem, dest) /\ ReadsIn
        /\ (calls = <<>> => TempClean)
    BY <1>1, Zenon DEF RunInv
  <1>3. segs \in Seq(Loops) /\ \A n \in DOMAIN segs: SafeLoop(segs[n], mem, dest)
    BY <1>2, Zenon DEF SafeLoops
  <1>4. Head(segs) = segs[1] /\ segs[1] \in Loops /\ 1 \in DOMAIN segs
    BY <1>3, FirstOf
  <1>5. Loop \in Loops /\ SafeLoop(Loop, mem, dest)
    BY <1>3, <1>4, Zenon DEF Loop
  <1>6. i \in Nat /\ (Loop.nul => i <= StrLen(mem[Loop.from]))
    BY <1>2, Zenon DEF ReadsIn
  <1>7. CASE dest = "temp"
    <2>1. dest \notin Vars /\ Loop.from \in Texts
      BY <1>5, <1>7, Names, Zenon DEF SafeLoop, Whence, Texts
    <2>2. Loop.from # dest /\ \E size \in Nat \ {0}: Clean(mem[Loop.from], size)
      BY <1>1, <1>7, <2>1, AllClean, SourceClean, Zenon DEF Texts
    <2> QED  BY <1>5, <1>6, <1>7, <2>2, Zenon DEF SafeLoop
  <1>8. CASE dest # "temp"
    <2>1. Loop.from = "temp" /\ Loop.nul /\ TempClean
      BY <1>2, <1>5, <1>8, Zenon DEF SafeLoop, Whence
    <2> QED  BY <1>5, <1>6, <1>8, <2>1, Zenon DEF TempClean
  <1> QED  BY <1>7, <1>8

\* A loop reads inside its buffer and gets a character, or the terminator.
LEMMA ByteRead ==
    ASSUME StringsAssumption, StringsInv, dest # "none", segs # <<>>,
           NEW c, c \in Loads(Loop.from, i), Goes(c)
    PROVE  /\ i + 1 <= StrLen(mem[Loop.from]) /\ i + 1 \in Nat /\ i < Loop.end /\ k < room - 1
           /\ c \in Chars /\ c = mem[Loop.from][i]
  <1> DEFINE b == mem[Loop.from]
             n == StrLen(b)
  <1>1. PICK size \in Nat \ {0}: Clean(b, size)
    BY ReadsClean
  <1>2. /\ n \in Nat /\ (\A m \in 0..n: m \in DOMAIN b)
        /\ \A m \in 0..(n - 1): b[m] \in Chars
        /\ b[n] = NUL
    BY <1>1, CleanLength
  <1>3. Loop.nul \in BOOLEAN /\ Loop.end \in Int /\ i \in Nat /\ IF Loop.nul THEN i <= n ELSE Loop.end <= n
    BY ReadsClean DEF Loops
  <1>4. i < Loop.end /\ k < room - 1 /\ (Loop.nul => c # NUL)
    BY Zenon DEF Goes
  <1>5. i \in DOMAIN b => c = b[i]
    BY Zenon DEF Loads
  <1> HIDE DEF b, n
  <1>6. i <= n /\ i \in 0..n /\ i \in DOMAIN b
    BY <1>2, <1>3, <1>4
  <1>7. i # n
    BY <1>2, <1>3, <1>4, <1>5, <1>6
  <1>8. i \in 0..(n - 1) /\ i + 1 <= n /\ i + 1 \in Nat
    BY <1>2, <1>6, <1>7
  <1> QED  BY <1>2, <1>4, <1>5, <1>6, <1>8 DEF n, b

LEMMA CopyByteKeeps ==
    ASSUME StringsAssumption, StringsInv, CopyByte
    PROVE  StringsInv'
  <1>1. PICK c \in Loads(Loop.from, i): Goes(c) /\ mem' = [mem EXCEPT ![dest][k] = c]
    BY Zenon DEF CopyByte
  <1>2. /\ dest # "none" /\ segs # <<>> /\ i' = i + 1 /\ k' = k + 1
        /\ UNCHANGED <<job, calls, dest, room, segs, loop, answer>>
    BY Zenon DEF CopyByte
  <1>3. MemInv /\ JobInv /\ CallsInv /\ RunInv /\ job # Idle /\ loop = "none" /\ job.to \in Vars
    BY <1>2, Zenon DEF StringsInv, JobInv
  <1>4. /\ dest = (IF calls = <<>> THEN job.to ELSE "temp")
        /\ room \in Nat \ {0} /\ DOMAIN mem[dest] = 0..(room - 1) /\ k \in 0..(room - 1)
        /\ (\A n \in 0..(k - 1): mem[dest][n] \in Chars)
        /\ SafeLoops(segs, mem, dest) /\ (calls = <<>> => TempClean)
    BY <1>2, <1>3, Zenon DEF RunInv
  <1>5. dest \in Buffers /\ DOMAIN mem = Buffers /\ "empty" \in Buffers /\ dest # "empty" /\ "temp" \in Buffers
    BY <1>3, <1>4, Names DEF MemInv, Buffers
  <1>6. /\ DOMAIN mem' = Buffers /\ DOMAIN mem'[dest] = DOMAIN mem[dest] /\ mem'[dest][k] = c
        /\ (\A n \in DOMAIN mem[dest]: n # k => mem'[dest][n] = mem[dest][n])
        /\ \A b \in Buffers: b # dest => mem'[b] = mem[b]
    BY <1>1, <1>4, <1>5
  <1>7. i + 1 <= StrLen(mem[Loop.from]) /\ i + 1 \in Nat /\ c \in Chars /\ k < room - 1
    BY <1>1, <1>2, ByteRead
  <1>8. MemInv'
    <2>1. EmptyClean(mem')
      BY <1>3, <1>5, <1>6, Zenon DEF MemInv, EmptyClean
    <2>2. ASSUME NEW v \in Vars PROVE DOMAIN mem'[v] = 0..(Size[v] - 1) /\ (dest' # v => Clean(mem'[v], Size[v]))
      <3>1. DOMAIN mem[v] = 0..(Size[v] - 1) /\ (dest # v => Clean(mem[v], Size[v])) /\ v \in Buffers
        BY <1>3, Names, Zenon DEF MemInv
      <3>2. CASE v = dest
        BY <1>2, <1>6, <3>1, <3>2
      <3>3. CASE v # dest
        BY <1>2, <1>6, <3>1, <3>3
      <3> QED  BY <3>2, <3>3
    <2> QED  BY <1>6, <2>1, <2>2, Zenon DEF MemInv
  <1>9. SafeLoops(segs', mem', dest')
    <2>1. \A b \in Whence(dest): b \in Buffers /\ b # dest
      BY <1>3, <1>4, <1>5, Names, Zenon DEF Whence, Buffers
    <2> QED  BY <1>2, <1>4, <1>6, <2>1, Zenon DEF SafeLoops, SafeLoop
  <1>10. calls = <<>> => dest # "temp"
    BY <1>3, <1>4, Names
  <1>11. RunInv'
    <2>1. k' \in 0..(room' - 1) /\ room' \in Nat \ {0} /\ DOMAIN mem'[dest'] = 0..(room' - 1)
      BY <1>2, <1>4, <1>6, <1>7
    <2>2. ASSUME NEW n \in 0..(k' - 1) PROVE mem'[dest'][n] \in Chars
      <3>1. CASE n = k
        BY <1>2, <1>6, <1>7, <3>1
      <3>2. CASE n # k
        <4>1. n \in 0..(k - 1) /\ n \in DOMAIN mem[dest]
          BY <1>2, <1>4, <3>2
        <4> QED  BY <1>2, <1>4, <1>6, <3>2, <4>1
      <3> QED  BY <3>1, <3>2
    <2>3. ReadsIn'
      <3>1. Loop.from # dest /\ Loop.from \in Buffers
        BY <1>2, ReadsClean, Zenon DEF Loops
      <3>2. Loop' = Loop
        BY <1>2, Zenon DEF Loop
      <3>3. mem'[Loop.from] = mem[Loop.from]
        BY <1>6, <3>1, Zenon
      <3> QED  BY <1>2, <1>7, <3>2, <3>3 DEF ReadsIn
    <2>4. (calls = <<>> => TempClean)'
      BY <1>2, <1>4, <1>5, <1>6, <1>10, Zenon DEF TempClean
    <2> QED  BY <1>2, <1>4, <1>9, <2>1, <2>2, <2>3, <2>4, Zenon DEF RunInv
  <1>12. CallsInv'
    <2>1. CASE calls = <<>>
      BY <1>2, <1>3, <2>1, Zenon DEF CallsInv
    <2>2. CASE calls # <<>>
      <3>1. dest = "temp" /\ dest' # "none"
        BY <1>2, <1>4, <2>2
      <3>2. \A x \in Texts: mem'[x] = mem[x]
        BY <1>5, <1>6, <3>1, Names, Zenon DEF Texts
      <3>3. PICK cap \in Nat \ {0}: DOMAIN mem["temp"] = 0..(cap - 1) /\ \A n \in 1..(Len(calls) - 1): Builds(calls[n], mem, cap)
        BY <1>3, <2>2, Zenon DEF CallsInv, BuildsTemp
      <3>4. \A n \in 1..(Len(calls) - 1): Builds(calls[n], mem', cap)
        BY <3>2, <3>3, SafeAsBefore, Zenon DEF Builds
      <3>5. DOMAIN mem'["temp"] = 0..(cap - 1)
        BY <1>6, <3>1, <3>3
      <3>6. BuildsTemp(calls)'
        BY <1>2, <3>4, <3>5, Zenon DEF BuildsTemp
      <3> QED  BY <1>2, <1>3, <2>2, <3>6, Zenon DEF CallsInv
    <2> QED  BY <2>1, <2>2
  <1>13. JobInv' /\ QueryInv'
    BY <1>2, <1>3, Zenon DEF JobInv, QueryInv
  <1> QED  BY <1>8, <1>11, <1>12, <1>13 DEF StringsInv

\* A loop ends, and the next one is in bounds.
LEMMA LoopEndsKeeps ==
    ASSUME StringsAssumption, StringsInv, LoopEnds
    PROVE  StringsInv'
  <1>1. /\ dest # "none" /\ segs # <<>> /\ segs' = Tail(segs) /\ i' = StartOf(segs')
        /\ UNCHANGED <<mem, job, calls, dest, room, k, loop, answer>>
    BY Zenon DEF LoopEnds
  <1>2. MemInv /\ JobInv /\ CallsInv /\ RunInv /\ job # Idle /\ loop = "none" /\ job.to \in Vars
    BY <1>1, Zenon DEF StringsInv, JobInv
  <1>3. /\ dest = (IF calls = <<>> THEN job.to ELSE "temp") /\ SafeLoops(segs, mem, dest)
        /\ (calls = <<>> => TempClean)
    BY <1>1, <1>2, Zenon DEF RunInv
  <1>4. dest # "temp" => \E cap \in Nat \ {0}: Clean(mem["temp"], cap)
    BY <1>3, Zenon DEF TempClean
  <1>5. SafeLoops(Tail(segs), mem, dest)
    BY <1>1, <1>3, <1>4, LoopStarts, Zenon
  <1>6. segs' # <<>> => ReadsIn'
    BY <1>1, <1>4, <1>5, LoopStarts, Zenon DEF ReadsIn, Loop
  <1>7. RunInv'
    BY <1>1, <1>2, <1>5, <1>6, Zenon DEF RunInv, TempClean
  <1>8. MemInv' /\ JobInv' /\ CallsInv' /\ QueryInv'
    BY <1>1, <1>2, Zenon DEF MemInv, JobInv, CallsInv, QueryInv, BuildsTemp
  <1> QED  BY <1>7, <1>8 DEF StringsInv

\* A written prefix and its terminator make a clean buffer.
LEMMA EndedIsClean ==
    ASSUME NEW b, NEW size \in Nat \ {0}, DOMAIN b = 0..(size - 1), NEW n \in 0..(size - 1),
           \A m \in 0..(n - 1): b[m] \in Chars
    PROVE  Clean([b EXCEPT ![n] = NUL], size)
  <1> DEFINE e == [b EXCEPT ![n] = NUL]
  <1>1. DOMAIN e = 0..(size - 1) /\ e[n] = NUL /\ \A m \in 0..(size - 1): m # n => e[m] = b[m]
    OBVIOUS
  <1>2. \A m \in 0..(n - 1): m \in 0..(size - 1) /\ m # n
    OBVIOUS
  <1> HIDE DEF e
  <1>3. \A m \in 0..(n - 1): e[m] \in Chars
    BY <1>1, <1>2
  <1>4. CleanTo(e, n) /\ n \in DOMAIN e
    BY <1>1, <1>3, Zenon DEF CleanTo
  <1> QED  BY <1>1, <1>4, Zenon DEF Clean, e

LEMMA CallEndsKeeps ==
    ASSUME StringsAssumption, StringsInv, CallEnds
    PROVE  StringsInv'
  <1> DEFINE ended == [mem EXCEPT ![dest][k] = NUL]
  <1>1. /\ dest # "none" /\ segs = <<>>
        /\ mem' = IF calls = <<>> THEN [ended EXCEPT !["temp"] = <<>>] ELSE ended
        /\ job' = IF calls = <<>> THEN Idle ELSE job
        /\ dest' = "none" /\ i' = 0 /\ k' = 0 /\ room' = 0
        /\ UNCHANGED <<calls, segs, loop, answer>>
    BY Zenon DEF CallEnds
  <1>2. MemInv /\ JobInv /\ CallsInv /\ RunInv /\ job # Idle /\ loop = "none" /\ job.to \in Vars
    BY <1>1, Zenon DEF StringsInv, JobInv
  <1>3. /\ dest = (IF calls = <<>> THEN job.to ELSE "temp")
        /\ room \in Nat \ {0} /\ DOMAIN mem[dest] = 0..(room - 1) /\ k \in 0..(room - 1)
        /\ \A n \in 0..(k - 1): mem[dest][n] \in Chars
    BY <1>1, <1>2, Zenon DEF RunInv
  <1>4. dest \in Buffers /\ DOMAIN mem = Buffers /\ "empty" \in Buffers /\ dest # "empty" /\ "temp" \in Buffers
    BY <1>2, <1>3, Names DEF MemInv, Buffers
  <1>5. /\ DOMAIN ended = Buffers /\ ended[dest] = [mem[dest] EXCEPT ![k] = NUL]
        /\ \A b \in Buffers: b # dest => ended[b] = mem[b]
    BY <1>4
  <1>6. Clean(ended[dest], room) /\ DOMAIN ended[dest] = DOMAIN mem[dest]
    BY <1>3, <1>5, EndedIsClean
  <1> HIDE DEF ended
  <1>7. DOMAIN mem' = Buffers /\ \A b \in Buffers: b # "temp" => mem'[b] = ended[b]
    BY <1>1, <1>5
  <1>8. MemInv'
    <2>1. EmptyClean(mem')
      <3>1. mem'["empty"] = mem["empty"]
        BY <1>4, <1>5, <1>7
      <3> QED  BY <1>2, <3>1, Zenon DEF MemInv, EmptyClean
    <2>2. ASSUME NEW v \in Vars PROVE DOMAIN mem'[v] = 0..(Size[v] - 1) /\ Clean(mem'[v], Size[v])
      <3>1. DOMAIN mem[v] = 0..(Size[v] - 1) /\ (dest # v => Clean(mem[v], Size[v])) /\ v \in Buffers /\ v # "temp"
        BY <1>2, Names, Zenon DEF MemInv
      <3>2. mem'[v] = ended[v]
        BY <1>7, <3>1, Zenon
      <3>3. CASE v = dest
        <4>1. room - 1 = Size[v] - 1
          <5>1. 0..(room - 1) = 0..(Size[v] - 1) /\ room \in Nat \ {0} /\ Size[v] \in Nat \ {0}
            BY <1>3, <3>1, <3>3, SizesArePositive
          <5> QED  BY <5>1
        <4> QED  BY <1>6, <3>1, <3>2, <3>3, <4>1 DEF Clean
      <3>4. CASE v # dest
        BY <1>5, <3>1, <3>2, <3>4, Zenon
      <3> QED  BY <3>3, <3>4
    <2> QED  BY <1>7, <2>1, <2>2, Zenon DEF MemInv
  <1>9. CallsInv'
    <2>1. CASE calls = <<>>
      BY <1>1, <1>2, <2>1, Zenon DEF CallsInv
    <2>2. CASE calls # <<>>
      <3>1. dest = "temp" /\ job' = job /\ mem' = ended
        BY <1>1, <1>3, <2>2, Zenon
      <3>2. \A x \in Texts: mem'[x] = mem[x]
        BY <1>4, <1>5, <3>1, Names, Zenon DEF Texts
      <3>3. PICK cap \in Nat \ {0}: DOMAIN mem["temp"] = 0..(cap - 1) /\ \A n \in 1..(Len(calls) - 1): Builds(calls[n], mem, cap)
        BY <1>2, <2>2, Zenon DEF CallsInv, BuildsTemp
      <3>4. \A n \in 1..(Len(calls) - 1): Builds(calls[n], mem', cap)
        BY <3>2, <3>3, SafeAsBefore, Zenon DEF Builds
      <3>5. DOMAIN mem'["temp"] = 0..(cap - 1)
        BY <1>6, <3>1, <3>3
      <3>6. BuildsTemp(calls)'
        BY <1>1, <3>4, <3>5, Zenon DEF BuildsTemp
      <3>7. TempClean'
        BY <1>3, <1>6, <3>1, Zenon DEF TempClean
      <3> QED  BY <1>1, <1>2, <2>2, <3>1, <3>6, <3>7, Zenon DEF CallsInv
    <2> QED  BY <2>1, <2>2
  <1>10. JobInv'
    BY <1>1, <1>2, Zenon DEF JobInv
  <1>11. RunInv' /\ QueryInv'
    BY <1>1, <1>2, Zenon DEF RunInv, QueryInv
  <1> QED  BY <1>8, <1>9, <1>10, <1>11 DEF StringsInv

-----------------------------------------------------------------------------
\* LEN(s); FIND(s, t); s = t;
LEMMA AskKeeps ==
    ASSUME StringsAssumption, StringsInv, NEW q \in Queries, Ask(q)
    PROVE  StringsInv'
  <1>1. /\ job = Idle /\ UNCHANGED <<mem, calls, dest, room, segs, i, k>>
        /\ \/ UNCHANGED <<job, loop>>
           \/ /\ q.op \notin {"LEN", "STRING_TO"} /\ job' = q
              /\ loop' = IF q.op = "FIND" THEN "outer" ELSE "compare"
    BY Zenon DEF Ask
  <1>2. MemInv /\ JobInv /\ calls = <<>> /\ dest = "none" /\ loop = "none" /\ i = 0 /\ k = 0 /\ segs = <<>>
    BY <1>1, Zenon DEF StringsInv, JobInv
  <1>3. MemInv' /\ CallsInv' /\ RunInv'
    BY <1>1, <1>2, Zenon DEF StringsInv, MemInv, CallsInv, RunInv
  <1>4. CASE UNCHANGED <<job, loop>>
    BY <1>1, <1>2, <1>3, <1>4, Zenon DEF StringsInv, JobInv, QueryInv
  <1>5. CASE job' = q /\ q.op \notin {"LEN", "STRING_TO"} /\ loop' = IF q.op = "FIND" THEN "outer" ELSE "compare"
    <2>1. q.a \in Vars /\ q.b \in Vars
      BY <1>5, Zenon DEF Queries
    <2>2. q # Idle
      <3>1. q.op \in {"FIND", "COMPARE"} /\ Idle.op = "idle"
        BY <1>5 DEF Queries, Idle
      <3> QED  BY <3>1
    <2>3. JobInv'
      BY <1>1, <1>2, <1>5, <2>1, <2>2, Zenon DEF JobInv
    <2>4. StrLen(mem[q.a]) \in Nat /\ StrLen(mem[q.b]) \in Nat
      BY <1>2, <2>1, AllClean, SourceClean, Names
    <2>5. QueryInv'
      <3>1. i' \in 0..StrLen(mem'[job'.a]) /\ i' \in 0..StrLen(mem'[job'.b]) /\ loop' # "inner"
        <4>1. i' = 0 /\ mem' = mem /\ job' = q
          BY <1>1, <1>2, <1>5
        <4>2. 0 \in 0..StrLen(mem[q.a]) /\ 0 \in 0..StrLen(mem[q.b])
          BY <2>4
        <4> QED  BY <1>5, <4>1, <4>2
      <3> QED  BY <3>1, Zenon DEF QueryInv
    <2> QED  BY <1>3, <2>3, <2>5 DEF StringsInv
  <1> QED  BY <1>1, <1>4, <1>5

\* A query under way reads clean texts.
LEMMA QueryReads ==
    ASSUME StringsAssumption, StringsInv, loop # "none"
    PROVE  /\ calls = <<>> /\ dest = "none" /\ job # Idle /\ segs = <<>> /\ MemInv /\ QueryInv /\ JobInv
           /\ \A t \in {job.a, job.b}:
                /\ \E size \in Nat \ {0}: Clean(mem[t], size)
                /\ StrLen(mem[t]) \in Nat /\ mem[t][StrLen(mem[t])] = NUL
                /\ \A n \in 0..StrLen(mem[t]): /\ n \in DOMAIN mem[t]
                                               /\ mem[t][n] # NUL => n + 1 \in 0..StrLen(mem[t])
                                               /\ Loads(t, n) = {mem[t][n]}
  <1>1. calls = <<>> /\ dest = "none" /\ job # Idle /\ segs = <<>> /\ MemInv /\ QueryInv /\ JobInv /\ job.a \in Vars /\ job.b \in Vars
    BY Zenon DEF StringsInv, JobInv
  <1>2. ASSUME NEW t \in Vars
        PROVE  /\ \E size \in Nat \ {0}: Clean(mem[t], size)
               /\ StrLen(mem[t]) \in Nat /\ mem[t][StrLen(mem[t])] = NUL
               /\ \A n \in 0..StrLen(mem[t]): /\ n \in DOMAIN mem[t]
                                              /\ mem[t][n] # NUL => n + 1 \in 0..StrLen(mem[t])
                                              /\ Loads(t, n) = {mem[t][n]}
    <2>1. VarsClean(mem)
      BY <1>1, AllClean, Names
    <2>2. PICK size \in Nat \ {0}: Clean(mem[t], size)
      BY <2>1, SizesArePositive, Zenon DEF VarsClean
    <2>3. /\ StrLen(mem[t]) \in Nat /\ mem[t][StrLen(mem[t])] = NUL
          /\ \A n \in 0..StrLen(mem[t]): n \in DOMAIN mem[t]
          /\ \A n \in 0..StrLen(mem[t]): mem[t][n] # NUL => n + 1 \in 0..StrLen(mem[t])
      BY <2>2, CleanLength
    <2>4. \A n \in DOMAIN mem[t]: Loads(t, n) = {mem[t][n]}
      BY Zenon DEF Loads
    <2> QED  BY <2>2, <2>3, <2>4, Zenon
  <1> QED  BY <1>1, <1>2

\* A query that moves its indices, or ends.
LEMMA QueryStep ==
    ASSUME StringsAssumption, StringsInv, loop # "none",
           UNCHANGED <<mem, calls, dest, room, segs>>,
           \/ (\E x: Answered(x))
           \/ UNCHANGED job /\ loop' \in {"outer", "inner", "compare"} /\ QueryInv'
    PROVE  StringsInv'
  <1>1. calls = <<>> /\ dest = "none" /\ segs = <<>> /\ job # Idle /\ MemInv /\ JobInv
    BY QueryReads
  <1>2. MemInv' /\ CallsInv' /\ RunInv'
    BY <1>1, Zenon DEF StringsInv, MemInv, CallsInv, RunInv
  <1>3. CASE \E x: Answered(x)
    <2>1. job' = Idle /\ loop' = "none" /\ i' = 0 /\ k' = 0
      BY <1>3 DEF Answered
    <2>2. JobInv' /\ QueryInv'
      BY <1>1, <2>1 DEF JobInv, QueryInv
    <2> QED  BY <1>2, <2>2 DEF StringsInv
  <1>4. CASE UNCHANGED job /\ loop' \in {"outer", "inner", "compare"} /\ QueryInv'
    <2>1. JobInv'
      BY <1>1, <1>4 DEF JobInv
    <2> QED  BY <1>2, <1>4, <2>1 DEF StringsInv
  <1> QED  BY <1>3, <1>4

\* The searches and the comparison stay inside both texts.
LEMMA FindOuterKeeps ==
    ASSUME StringsAssumption, StringsInv, FindOuter
    PROVE  StringsInv'
  <1>1. loop = "outer" /\ UNCHANGED <<mem, calls, dest, room, segs>>
    BY Zenon DEF FindOuter
  <1>2. PICK c \in Loads(job.a, i):
            \/ c = NUL /\ Answered(0)
            \/ c # NUL /\ loop' = "inner" /\ k' = 0 /\ UNCHANGED <<job, i, answer>>
    BY Zenon DEF FindOuter
  <1>3. CASE Answered(0)
    BY <1>1, <1>3, QueryStep
  <1>4. CASE c # NUL /\ loop' = "inner" /\ k' = 0 /\ UNCHANGED <<job, i, answer>>
    <2>1. i \in 0..StrLen(mem[job.a])
      BY <1>1, QueryReads, Zenon DEF QueryInv
    <2>2. StrLen(mem[job.b]) \in Nat /\ StrLen(mem[job.a]) \in Nat
      BY <1>1, QueryReads
    <2>3. i + 1 \in 0..StrLen(mem[job.a])
      BY <1>1, <1>2, <1>4, <2>1, QueryReads
    <2>4. /\ i' \in 0..StrLen(mem[job.a]) /\ i' + 1 \in 0..StrLen(mem[job.a])
          /\ k' \in 0..StrLen(mem[job.b]) /\ i' + k' \in 0..StrLen(mem[job.a])
      BY <1>4, <2>1, <2>2, <2>3
    <2>5. QueryInv'
      BY <1>1, <1>4, <2>4, Zenon DEF QueryInv
    <2> QED  BY <1>1, <1>4, <2>5, QueryStep
  <1> QED  BY <1>2, <1>3, <1>4

LEMMA FindInnerKeeps ==
    ASSUME StringsAssumption, StringsInv, FindInner
    PROVE  StringsInv'
  <1> DEFINE a == StrLen(mem[job.a])
             b == StrLen(mem[job.b])
  <1>1. loop = "inner" /\ UNCHANGED <<mem, calls, dest, room, segs>>
    BY Zenon DEF FindInner
  <1>2. PICK n \in Loads(job.b, k), c \in Loads(job.a, i + k):
          \/ n = NUL /\ Answered(i + 1)
          \/ n # NUL /\ c = n /\ k' = k + 1 /\ UNCHANGED <<job, i, loop, answer>>
          \/ n # NUL /\ c # n /\ i' = NextStart /\ loop' = "outer" /\ UNCHANGED <<job, k, answer>>
    BY Zenon DEF FindInner
  <1>3. i \in 0..a /\ i + 1 \in 0..a /\ k \in 0..b /\ i + k \in 0..a /\ a \in Nat /\ b \in Nat
    BY <1>1, QueryReads, Zenon DEF QueryInv
  <1>4. n = mem[job.b][k] /\ c = mem[job.a][i + k]
    BY <1>1, <1>2, <1>3, QueryReads
  <1>5. n # NUL => k + 1 \in 0..b
    BY <1>1, <1>3, <1>4, QueryReads
  <1>6. c # NUL => (i + k) + 1 \in 0..a
    BY <1>1, <1>3, <1>4, QueryReads
  <1> HIDE DEF a, b
  <1>7. CASE Answered(i + 1)
    BY <1>1, <1>7, QueryStep
  <1>8. CASE n # NUL /\ c = n /\ k' = k + 1 /\ UNCHANGED <<job, i, loop, answer>>
    <2>1. i' \in 0..a /\ i' + 1 \in 0..a /\ k' \in 0..b /\ i' + k' \in 0..a
      BY <1>3, <1>5, <1>6, <1>8
    <2>2. QueryInv'
      BY <1>1, <1>8, <2>1, Zenon DEF QueryInv, a, b
    <2> QED  BY <1>1, <1>8, <2>2, QueryStep
  <1>9. CASE n # NUL /\ c # n /\ i' = NextStart /\ loop' = "outer" /\ UNCHANGED <<job, k, answer>>
    <2>1. i' \in 0..a
      BY <1>3, <1>9 DEF NextStart
    <2>2. QueryInv'
      BY <1>1, <1>9, <2>1, Zenon DEF QueryInv, a, b
    <2> QED  BY <1>1, <1>9, <2>2, QueryStep
  <1> QED  BY <1>2, <1>7, <1>8, <1>9

LEMMA CompareKeeps ==
    ASSUME StringsAssumption, StringsInv, CompareByte
    PROVE  StringsInv'
  <1>1. loop = "compare" /\ UNCHANGED <<mem, calls, dest, room, segs>>
    BY Zenon DEF CompareByte
  <1>2. PICK c \in Loads(job.a, i), d \in Loads(job.b, i):
          IF c # d \/ c = NUL THEN Answered(Sign(c - d))
          ELSE i' = i + 1 /\ UNCHANGED <<job, k, loop, answer>>
    BY Zenon DEF CompareByte
  <1>3. i \in 0..StrLen(mem[job.a]) /\ i \in 0..StrLen(mem[job.b])
    BY <1>1, QueryReads, Zenon DEF QueryInv
  <1>4. CASE c # d \/ c = NUL
    BY <1>1, <1>2, <1>4, QueryStep, Zenon
  <1>5. CASE ~(c # d \/ c = NUL)
    <2>1. c = mem[job.a][i] /\ d = mem[job.b][i] /\ c # NUL /\ d # NUL
      BY <1>1, <1>2, <1>3, <1>5, QueryReads
    <2>2. i + 1 \in 0..StrLen(mem[job.a]) /\ i + 1 \in 0..StrLen(mem[job.b])
      BY <1>1, <1>3, <2>1, QueryReads
    <2>3. i' = i + 1 /\ UNCHANGED <<job, k, loop, answer>>
      BY <1>2, <1>5, Zenon
    <2>4. QueryInv'
      BY <1>1, <2>2, <2>3, Zenon DEF QueryInv
    <2> QED  BY <1>1, <2>3, <2>4, QueryStep, Zenon
  <1> QED  BY <1>4, <1>5

-----------------------------------------------------------------------------
(***************************************************************************)
(* Numbers.  The recursive definitions have a value at every argument, and *)
(* a number of so many bits has no more digits than bits.                  *)
(***************************************************************************)

\* The powers of two, by the least number at which they would be undefined.
LEMMA TwoToDefined ==
    ASSUME StringsAssumption
    PROVE  /\ TwoTo[0] = 1
           /\ \A n \in 0..Bits: TwoTo[n] \in Nat \ {0}
           /\ \A n \in 1..Bits: TwoTo[n] = 2 * TwoTo[n - 1]
  <1> DEFINE P(n, g) == g = [x \in 0..n |-> IF x = 0 THEN 1 ELSE 2 * g[x - 1]]
             Q(n) == \E g \in [0..n -> Nat \ {0}]: P(n, g)
  <1>1. Bits \in Nat
    BY NumbersAssumed
  <1>2. Q(0)
    <2> DEFINE g == [x \in 0..0 |-> 1]
    <2>1. g \in [0..0 -> Nat \ {0}] /\ P(0, g)
      OBVIOUS
    <2> QED  BY <2>1
  <1>3. ASSUME NEW n \in Nat, Q(n) PROVE Q(n + 1)
    <2>1. PICK g \in [0..n -> Nat \ {0}]: P(n, g)
      BY <1>3
    <2> DEFINE h == [x \in 0..(n + 1) |-> IF x = n + 1 THEN 2 * g[n] ELSE g[x]]
    <2>2. g[n] \in Nat \ {0} /\ 2 * g[n] \in Nat \ {0}
      OBVIOUS
    <2>3. h \in [0..(n + 1) -> Nat \ {0}]
      BY <2>2
    <2>4. \A x \in 0..(n + 1): h[x] = IF x = 0 THEN 1 ELSE 2 * h[x - 1]
      <3> TAKE x \in 0..(n + 1)
      <3>1. CASE x = n + 1
        BY <3>1
      <3>2. CASE x # n + 1
        <4>1. x \in 0..n /\ h[x] = g[x] /\ (x # 0 => h[x - 1] = g[x - 1])
          BY <3>2
        <4>2. g[x] = IF x = 0 THEN 1 ELSE 2 * g[x - 1]
          BY <2>1, <4>1
        <4> QED  BY <4>1, <4>2
      <3> QED  BY <3>1, <3>2
    <2>5. P(n + 1, h)
      <3> HIDE DEF h
      <3> QED  BY <2>3, <2>4
    <2> QED  BY <2>3, <2>5
  <1> HIDE DEF P
  <1>4. Q(Bits)
    <2> DEFINE T == {n \in Nat: ~Q(n)}
    <2> SUFFICES ASSUME T # {} PROVE FALSE
      BY <1>1
    <2> HIDE DEF Q
    <2>1. PICK n \in T: \A x \in T: n <= x
      BY LeastNumber
    <2>2. n \in Nat /\ n # 0 /\ ~Q(n)
      BY <1>2
    <2>3. n - 1 \in Nat /\ ~(n <= n - 1)
      BY <2>2
    <2>4. Q(n - 1)
      BY <2>1, <2>3
    <2>5. (n - 1) + 1 = n
      BY <2>2
    <2> QED  BY <1>3, <2>2, <2>3, <2>4, <2>5
  <1>5. TwoTo = CHOOSE f: P(Bits, f)
    BY Zenon DEF TwoTo, P
  <1>6. P(Bits, TwoTo)
    BY <1>4, <1>5, Zenon
  <1>7. TwoTo = [x \in 0..Bits |-> IF x = 0 THEN 1 ELSE 2 * TwoTo[x - 1]]
    BY <1>6 DEF P
  <1> DEFINE T == {n \in Nat: n <= Bits /\ TwoTo[n] \notin Nat \ {0}}
  <1>8. ASSUME T # {} PROVE FALSE
    <2>1. PICK n \in T: \A x \in T: n <= x
      BY <1>8, LeastNumber
    <2>2. n \in 0..Bits /\ n # 0 /\ TwoTo[n] \notin Nat \ {0}
      BY <1>1, <1>7
    <2>3. n - 1 \in Nat /\ n - 1 <= Bits /\ ~(n <= n - 1)
      BY <1>1, <2>2
    <2>4. TwoTo[n - 1] \in Nat \ {0}
      BY <2>1, <2>3
    <2>5. TwoTo[n] = 2 * TwoTo[n - 1]
      BY <1>7, <2>2
    <2> QED  BY <2>2, <2>4, <2>5
  <1>9. \A n \in 0..Bits: TwoTo[n] \in Nat \ {0}
    BY <1>1, <1>8
  <1> QED  BY <1>1, <1>7, <1>9

\* Quotient and remainder by the base.
LEMMA Division ==
    ASSUME NEW b \in Nat \ {0, 1}, NEW m \in Nat
    PROVE  /\ m \div b \in Nat /\ 2 * (m \div b) <= m /\ (m >= b => m \div b < m)
           /\ m % b \in 0..(b - 1)
  <1> DEFINE q == m \div b
             r == m % b
  <1>1. q \in Int /\ r \in 0..(b - 1) /\ m = b * q + r
    OBVIOUS
  <1> HIDE DEF q, r
  <1>2. q >= 0
    <2>1. ASSUME q <= -1 PROVE FALSE
      <3>1. b * q <= -b
        BY <1>1, <2>1
      <3> QED  BY <1>1, <3>1
    <2> QED  BY <1>1, <2>1
  <1>3. b * q >= 2 * q
    BY <1>1, <1>2
  <1> QED  BY <1>1, <1>2, <1>3 DEF q, r

\* The digits of plcc_i64_to_str, by induction as before.
LEMMA DigitsDefined ==
    ASSUME StringsAssumption
    PROVE  \A m \in Magnitude:
              /\ DigitsOf[m] \in Seq(Chars \ {Minus})
              /\ m \div Base \in Nat /\ (m >= Base => m \div Base \in Magnitude)
              /\ DigitsOf[m] = IF m < Base THEN <<Digit(m)>>
                               ELSE Append(DigitsOf[m \div Base], Digit(m % Base))
  <1> DEFINE Top == TwoTo[Bits] - 1
             C == Chars \ {Minus}
             P(n, g) == g = [m \in 0..n |-> IF m < Base THEN <<Digit(m)>> ELSE Append(g[m \div Base], Digit(m % Base))]
             Q(n) == \E g \in [0..n -> Seq(C)]: P(n, g)
  <1>1. Base \in Nat \ {0, 1} /\ Bits \in Nat
    BY NumbersAssumed
  <1>2. Top \in Nat /\ Magnitude = 0..Top
    BY <1>1, TwoToDefined DEF Magnitude
  <1> HIDE DEF Top
  <1>3. \A d \in 0..(Base - 1): Digit(d) \in C
    BY <1>1 DEF Digit, Chars, Minus
  <1>4. \A m \in Nat: /\ m < Base => <<Digit(m)>> \in Seq(C)
                      /\ Digit(m % Base) \in C /\ m \div Base \in Nat
                      /\ m >= Base => m \div Base < m
    <2> SUFFICES ASSUME NEW m \in Nat
                 PROVE  /\ m < Base => <<Digit(m)>> \in Seq(C)
                        /\ Digit(m % Base) \in C /\ m \div Base \in Nat
                        /\ m >= Base => m \div Base < m
      OBVIOUS
    <2>1. m < Base => m \in 0..(Base - 1)
      BY <1>1
    <2>2. m < Base => Digit(m) \in C
      BY <1>3, <2>1
    <2> HIDE DEF C
    <2>3. m < Base => <<Digit(m)>> \in Seq(C)
      BY <2>2
    <2> QED  BY <1>1, <1>3, <2>3, Division, Zenon
  <1> HIDE DEF C
  <1>5. Q(0)
    <2> DEFINE g == [m \in 0..0 |-> <<Digit(0)>>]
    <2>1. <<Digit(0)>> \in Seq(C)
      BY <1>1, <1>4
    <2>2. g \in [0..0 -> Seq(C)]
      BY <2>1
    <2>3. \A m \in 0..0: m < Base /\ m = 0
      BY <1>1
    <2>4. P(0, g)
      BY <2>3
    <2> QED  BY <2>2, <2>4
  <1>6. ASSUME NEW n \in Nat, Q(n) PROVE Q(n + 1)
    <2>1. PICK g \in [0..n -> Seq(C)]: P(n, g)
      BY <1>6
    <2> DEFINE last == IF n + 1 < Base THEN <<Digit(n + 1)>> ELSE Append(g[(n + 1) \div Base], Digit((n + 1) % Base))
    <2>2. last \in Seq(C)
      <3>1. CASE n + 1 < Base
        BY <1>4, <3>1
      <3>2. CASE ~(n + 1 < Base)
        <4>1. (n + 1) \div Base \in 0..n
          <5> DEFINE q == (n + 1) \div Base
          <5>1. n + 1 \in Nat /\ n + 1 >= Base
            BY <1>1, <3>2
          <5>2. q \in Nat /\ q < n + 1
            BY <1>4, <5>1, Zenon
          <5> HIDE DEF q
          <5>3. q \in 0..n
            BY <5>2
          <5> QED  BY <5>3 DEF q
        <4>2. g[(n + 1) \div Base] \in Seq(C) /\ Digit((n + 1) % Base) \in C
          BY <1>4, <4>1
        <4>3. Append(g[(n + 1) \div Base], Digit((n + 1) % Base)) \in Seq(C)
          BY <4>2
        <4> QED  BY <3>2, <4>3
      <3> QED  BY <3>1, <3>2
    <2> HIDE DEF last
    <2> DEFINE h == [m \in 0..(n + 1) |-> IF m = n + 1 THEN last ELSE g[m]]
    <2>3. h \in [0..(n + 1) -> Seq(C)]
      BY <2>2
    <2>4. \A m \in 0..(n + 1): h[m] = IF m < Base THEN <<Digit(m)>> ELSE Append(h[m \div Base], Digit(m % Base))
      <3> TAKE m \in 0..(n + 1)
      <3>1. m >= Base => m \div Base \in 0..n /\ h[m \div Base] = g[m \div Base]
        <4>1. m >= Base => m \div Base \in 0..n
          <5> DEFINE q == m \div Base
          <5>1. m \in Nat /\ m <= n + 1
            OBVIOUS
          <5>2. q \in Nat /\ (m >= Base => q < m)
            BY <1>4, <5>1, Zenon
          <5> HIDE DEF q
          <5>3. m >= Base => q \in 0..n
            BY <5>1, <5>2
          <5> QED  BY <5>3 DEF q
        <4>2. \A x \in 0..n: h[x] = g[x]
          OBVIOUS
        <4> QED  BY <4>1, <4>2
      <3>2. ~(m < Base) => m >= Base
        BY <1>1
      <3>3. CASE m = n + 1
        <4>1. h[m] = last
          BY <3>3
        <4> QED  BY <3>1, <3>2, <3>3, <4>1, Zenon DEF last
      <3>4. CASE m # n + 1
        <4>1. m \in 0..n /\ h[m] = g[m]
          BY <3>4
        <4>2. g[m] = IF m < Base THEN <<Digit(m)>> ELSE Append(g[m \div Base], Digit(m % Base))
          BY <2>1, <4>1
        <4> QED  BY <3>1, <3>2, <4>1, <4>2, Zenon
      <3> QED  BY <3>3, <3>4
    <2>5. P(n + 1, h)
      <3>1. h = [m \in 0..(n + 1) |-> h[m]]
        OBVIOUS
      <3> HIDE DEF h
      <3> QED  BY <2>4, <3>1
    <2> QED  BY <2>3, <2>5
  <1> HIDE DEF P
  <1>7. Q(Top)
    <2> DEFINE T == {n \in Nat: ~Q(n)}
    <2> SUFFICES ASSUME T # {} PROVE FALSE
      BY <1>2
    <2> HIDE DEF Q
    <2>1. PICK n \in T: \A x \in T: n <= x
      BY LeastNumber
    <2>2. n \in Nat /\ n # 0 /\ ~Q(n)
      BY <1>5
    <2>3. n - 1 \in Nat /\ ~(n <= n - 1)
      BY <2>2
    <2>4. Q(n - 1)
      BY <2>1, <2>3
    <2>5. (n - 1) + 1 = n
      BY <2>2
    <2> QED  BY <1>6, <2>2, <2>3, <2>4, <2>5
  <1>8. DigitsOf = CHOOSE f: P(Top, f)
    <2>1. DigitsOf = CHOOSE f: f = [m \in 0..Top |-> IF m < Base THEN <<Digit(m)>> ELSE Append(f[m \div Base], Digit(m % Base))]
      BY <1>2, Zenon DEF DigitsOf
    <2> QED  BY <2>1, Zenon DEF P
  <1>9. DigitsOf = [m \in 0..Top |-> IF m < Base THEN <<Digit(m)>> ELSE Append(DigitsOf[m \div Base], Digit(m % Base))]
    BY <1>7, <1>8, Zenon DEF P
  <1> DEFINE T == {n \in Nat: n <= Top /\ DigitsOf[n] \notin Seq(C)}
  <1>10. ASSUME T # {} PROVE FALSE
    <2>1. PICK n \in T: \A x \in T: n <= x
      BY <1>10, LeastNumber
    <2>2. n \in 0..Top /\ n \in Nat /\ DigitsOf[n] \notin Seq(C)
      BY <1>2
    <2>3. DigitsOf[n] = IF n < Base THEN <<Digit(n)>> ELSE Append(DigitsOf[n \div Base], Digit(n % Base))
      BY <1>9, <2>2
    <2>4. n >= Base
      BY <1>1, <1>4, <2>2, <2>3
    <2>5. n \div Base \in Nat /\ n \div Base <= Top /\ ~(n <= n \div Base)
      <3> DEFINE q == n \div Base
      <3>1. q \in Nat /\ q < n
        BY <1>4, <2>2, <2>4, Zenon
      <3> HIDE DEF q
      <3>2. q \in Nat /\ q <= Top /\ ~(n <= q)
        BY <1>2, <2>2, <3>1
      <3> QED  BY <3>2 DEF q
    <2>6. DigitsOf[n \div Base] \in Seq(C) /\ Digit(n % Base) \in C
      BY <1>4, <2>1, <2>2, <2>5
    <2>7. Append(DigitsOf[n \div Base], Digit(n % Base)) \in Seq(C)
      BY <2>6
    <2> QED  BY <1>1, <2>2, <2>3, <2>4, <2>7
  <1>11. \A n \in 0..Top: DigitsOf[n] \in Seq(C)
    BY <1>2, <1>10
  <1>12. \A m \in 0..Top: m \div Base \in Nat /\ (m >= Base => m \div Base \in 0..Top)
    <2> TAKE m \in 0..Top
    <2>1. m \div Base \in Nat /\ (m >= Base => m \div Base < m)
      BY <1>4
    <2> QED  BY <1>2, <2>1
  <1> QED  BY <1>2, <1>9, <1>11, <1>12 DEF C

\* A number below 2^b has at most b digits: the buffer of Bits + 2 is enough.
LEMMA DigitsShort ==
    ASSUME StringsAssumption
    PROVE  \A m \in Magnitude: \A b \in 1..Bits:
              m < TwoTo[b] => Len(DigitsOf[m]) \in 1..b
  <1> DEFINE T == {m \in Nat: m \in Magnitude /\ \E b \in 1..Bits: m < TwoTo[b] /\ Len(DigitsOf[m]) \notin 1..b}
  <1>1. Base \in Nat \ {0, 1} /\ Bits \in Nat \ {0}
    BY NumbersAssumed
  <1>2. Magnitude \subseteq Nat
    <2>1. TwoTo[Bits] \in Nat
      BY <1>1, TwoToDefined
    <2> QED  BY <2>1 DEF Magnitude
  <1>3. ASSUME T # {} PROVE FALSE
    <2>1. PICK m \in T: \A x \in T: m <= x
      BY <1>3, LeastNumber
    <2>2. PICK b \in 1..Bits: m < TwoTo[b] /\ Len(DigitsOf[m]) \notin 1..b
      OBVIOUS
    <2>3. m \in Nat /\ m \in Magnitude /\ b \in 1..Bits /\ b \in 0..Bits /\ b - 1 \in 0..Bits
      BY <1>1
    <2>4. DigitsOf[m] = IF m < Base THEN <<Digit(m)>> ELSE Append(DigitsOf[m \div Base], Digit(m % Base))
      BY <2>3, DigitsDefined
    <2> DEFINE q == m \div Base
               s == DigitsOf[q]
    <2>5. m >= Base
      <3>1. CASE m < Base
        <4>1. Len(DigitsOf[m]) = 1
          BY <2>4, <3>1
        <4> QED  BY <2>2, <2>3, <4>1
      <3> QED  BY <1>1, <2>3, <3>1
    <2>6. q \in Nat /\ q \in Magnitude /\ 2 * q <= m /\ q < m /\ s \in Seq(Chars \ {Minus})
      <3>1. q \in Nat /\ q \in Magnitude
        BY <2>3, <2>5, DigitsDefined, Zenon
      <3>2. 2 * q <= m /\ q < m
        BY <1>1, <2>3, <2>5, Division, Zenon
      <3> QED  BY <3>1, <3>2, DigitsDefined, Zenon
    <2>7. Len(DigitsOf[m]) = Len(s) + 1 /\ Len(s) \in Nat
      <3>1. ~(m < Base)
        BY <1>1, <2>3, <2>5
      <3>2. DigitsOf[m] = Append(s, Digit(m % Base))
        BY <2>4, <3>1, Zenon
      <3> HIDE DEF s
      <3> QED  BY <2>6, <3>2
    <2> HIDE DEF q, s
    <2>8. TwoTo[b] = 2 * TwoTo[b - 1] /\ TwoTo[b] \in Nat /\ TwoTo[b - 1] \in Nat
      BY <2>3, TwoToDefined
    <2>9. b - 1 # 0
      <3>1. ASSUME b - 1 = 0 PROVE FALSE
        <4>1. TwoTo[b] = 2
          BY <2>8, <3>1, TwoToDefined
        <4> QED  BY <1>1, <2>2, <2>3, <2>5, <4>1
      <3> QED  BY <3>1
    <2>10. b - 1 \in 1..Bits /\ q < TwoTo[b - 1]
      BY <2>2, <2>3, <2>6, <2>8, <2>9
    <2>11. ~(m <= q)
      BY <2>3, <2>6
    <2>12. Len(s) \in 1..(b - 1)
      BY <2>1, <2>6, <2>10, <2>11 DEF s
    <2> QED  BY <2>2, <2>3, <2>7, <2>12
  <1> QED  BY <1>2, <1>3

\* With its sign and terminator it fits.
LEMMA NumberFits ==
    ASSUME StringsAssumption, NEW v \in Magnitude, NEW unsigned \in BOOLEAN
    PROVE  /\ NumberText(v, unsigned) \in Seq(Chars)
           /\ Len(NumberText(v, unsigned)) \in 1..(Bits + 1)
  <1> DEFINE Top == TwoTo[Bits]
             half == TwoTo[Bits - 1]
  <1>1. Base \in Nat \ {0, 1} /\ Bits \in Nat \ {0}
    BY NumbersAssumed
  <1>2. Top \in Nat \ {0} /\ half \in Nat \ {0} /\ Top = 2 * half
    <2>1. Bits \in 1..Bits /\ Bits \in 0..Bits /\ Bits - 1 \in 0..Bits
      BY <1>1
    <2> QED  BY <2>1, TwoToDefined
  <1>3. Magnitude = 0..(Top - 1)
    BY DEF Magnitude
  <1> HIDE DEF Top, half
  <1>4. ASSUME NEW m \in Magnitude
        PROVE  DigitsOf[m] \in Seq(Chars) /\ Len(DigitsOf[m]) \in 1..Bits
    <2>1. DigitsOf[m] \in Seq(Chars)
      <3>1. DigitsOf[m] \in Seq(Chars \ {Minus})
        BY DigitsDefined
      <3> DEFINE C == Chars
                 D == Chars \ {Minus}
      <3>2. D \subseteq C /\ DigitsOf[m] \in Seq(D)
        BY <3>1
      <3> HIDE DEF C, D
      <3>3. DigitsOf[m] \in Seq(C)
        BY <3>2
      <3> QED  BY <3>3 DEF C
    <2>2. Bits \in 1..Bits /\ m < Top
      BY <1>1, <1>2, <1>3
    <2> QED  BY <2>1, <2>2, DigitsShort DEF Top
  <1>5. CASE ~Negative(v, unsigned)
    <2>1. NumberText(v, unsigned) = DigitsOf[v]
      BY <1>5 DEF NumberText
    <2>2. Len(DigitsOf[v]) \in 1..(Bits + 1)
      BY <1>1, <1>4
    <2> QED  BY <1>4, <2>1, <2>2
  <1>6. CASE Negative(v, unsigned)
    <2> DEFINE m == Top - v
               s == DigitsOf[m]
    <2>1. m \in Magnitude
      BY <1>2, <1>3, <1>6 DEF Negative, half
    <2>2. s \in Seq(Chars) /\ Len(s) \in 1..Bits
      BY <1>4, <2>1
    <2>3. NumberText(v, unsigned) = <<Minus>> \o s
      BY <1>6 DEF NumberText, Top
    <2>4. Minus \in Chars
      BY <1>1 DEF Minus, Chars
    <2> HIDE DEF s
    <2> DEFINE C == Chars
    <2>5. <<Minus>> \in Seq(C) /\ s \in Seq(C)
      BY <2>2, <2>4
    <2> HIDE DEF C
    <2>6. <<Minus>> \o s \in Seq(C) /\ Len(<<Minus>> \o s) = 1 + Len(s)
      BY <2>5
    <2>7. 1 + Len(s) \in 1..(Bits + 1)
      BY <1>1, <2>2
    <2> QED  BY <2>3, <2>6, <2>7 DEF C
  <1> QED  BY <1>5, <1>6

\* s := DINT_TO_STRING(n);
LEMMA AssignNumberKeeps ==
    ASSUME StringsAssumption, StringsInv, NEW v \in Vars, NEW j \in Conversions, AssignNumber(v, j)
    PROVE  StringsInv'
  <1> DEFINE s == NumberText(j.v, j.unsigned)
             R == Bits + 2
             t == [n \in 0..(R - 1) |-> IF n < Len(s) THEN s[n + 1] ELSE IF n = Len(s) THEN NUL ELSE Junk]
             last == StrLcpy(v, Size[v], "temp")
  <1>1. calls = <<>> /\ dest = "none" /\ loop = "none" /\ i = 0 /\ k = 0 /\ segs = <<>>
    BY Zenon DEF StringsInv, JobInv, AssignNumber
  <1>2. MemInv /\ dest \notin Vars
    BY <1>1, Names DEF StringsInv
  <1>3. j.op = "NUMBER" /\ j.v \in Magnitude /\ j.unsigned \in BOOLEAN
    BY Zenon DEF Conversions
  <1>4. s \in Seq(Chars) /\ Len(s) \in 1..(Bits + 1) /\ Bits \in Nat
    <2>1. Bits \in Nat
      BY NumbersAssumed
    <2> QED  BY <1>3, <2>1, NumberFits, Zenon
  <1>5. ResultBytes(j) = R /\ HelperCalls(j) = <<>>
    BY <1>3 DEF ResultBytes, HelperCalls
  <1>6. /\ mem' = [mem EXCEPT !["temp"] = t]
        /\ calls' = Append(<<>>, last) /\ job' = [op |-> j.op, to |-> v, means |-> Written(j), astray |-> FALSE]
        /\ UNCHANGED <<dest, room, segs, i, k, loop>>
    BY <1>5, Zenon DEF AssignNumber
  <1> HIDE DEF s, last
  <1>7. Clean(t, R) /\ R \in Nat \ {0}
    <2>1. R \in Nat \ {0} /\ Len(s) \in 0..(R - 1) /\ DOMAIN t = 0..(R - 1) /\ t[Len(s)] = NUL
      BY <1>4
    <2>2. ASSUME NEW n \in 0..(Len(s) - 1) PROVE t[n] \in Chars
      <3>1. n \in 0..(R - 1) /\ n < Len(s) /\ n + 1 \in 1..Len(s)
        BY <1>4
      <3>2. t[n] = s[n + 1] /\ s[n + 1] \in Chars
        BY <1>4, <3>1
      <3> QED  BY <3>2 DEF Chars, NUL, Junk
    <2> HIDE DEF t
    <2>3. CleanTo(t, Len(s)) /\ Len(s) \in DOMAIN t
      BY <2>1, <2>2, Zenon DEF CleanTo
    <2> QED  BY <2>1, <2>3, Zenon DEF Clean
  <1> HIDE DEF t, R
  <1>8. MemInv' /\ mem'["temp"] = t
    BY <1>1, <1>2, <1>6, TempChanges
  <1>9. job'.to = v /\ job' # Idle
    <2>1. job'.op = "NUMBER" /\ job'.to = v /\ Idle.op = "idle"
      BY <1>3, <1>6 DEF Idle
    <2> QED  BY <2>1
  <1>10. JobInv'
    BY <1>1, <1>6, <1>9, Zenon DEF JobInv
  <1>11. /\ calls' = <<last>> /\ calls' # <<>> /\ Len(calls') = 1 /\ calls'[1] = last
         /\ calls' \in Seq(CallRecords) /\ \A n \in 1..(Len(calls') - 1): FALSE
    <2>1. last \in CallRecords
      BY LastCall DEF last
    <2> QED  BY <1>6, <2>1
  <1>12. BuildsTemp(calls)' /\ TempClean'
    BY <1>7, <1>8, <1>11, Zenon DEF BuildsTemp, TempClean, Clean
  <1>13. CallsInv'
    BY <1>9, <1>11, <1>12, Zenon DEF CallsInv, last
  <1>14. RunInv' /\ QueryInv'
    BY <1>1, <1>6, Zenon DEF RunInv, QueryInv
  <1> QED  BY <1>8, <1>10, <1>13, <1>14 DEF StringsInv

-----------------------------------------------------------------------------
LEMMA StringsStart ==
    ASSUME StringsAssumption, Init
    PROVE  StringsInv
  <1>1. /\ DOMAIN mem = Buffers
        /\ \A b \in Buffers: mem[b] = IF b \in Vars THEN [n \in 0..(Size[b] - 1) |-> NUL]
                                      ELSE IF b = "empty" THEN [n \in {0} |-> NUL] ELSE <<>>
    BY DEF Init
  <1>2. /\ job = Idle /\ calls = <<>> /\ segs = <<>>
        /\ dest = "none" /\ loop = "none" /\ i = 0 /\ k = 0
    BY DEF Init
  <1>3. EmptyClean(mem)
    <2>1. mem["empty"] = [n \in {0} |-> NUL] /\ {0} = 0..0
      <3>1. "empty" \in Buffers /\ "empty" \notin Vars
        BY SMT DEF Buffers, StringsAssumption
      <3> QED  BY <1>1, <3>1
    <2> QED  BY <2>1 DEF EmptyClean, Clean, CleanTo
  <1>4. ASSUME NEW v \in Vars PROVE DOMAIN mem[v] = 0..(Size[v] - 1) /\ Clean(mem[v], Size[v])
    <2>1. mem[v] = [n \in 0..(Size[v] - 1) |-> NUL] /\ Size[v] \in Nat \ {0}
      BY <1>1, SizesArePositive, Names
    <2>2. 0 \in 0..(Size[v] - 1) /\ \A n \in 0..(0 - 1): FALSE
      BY <2>1
    <2> QED  BY <2>1, <2>2 DEF Clean, CleanTo
  <1>5. MemInv
    BY <1>1, <1>3, <1>4 DEF MemInv
  <1>6. JobInv /\ RunInv /\ QueryInv
    BY <1>2 DEF JobInv, RunInv, QueryInv
  <1>7. CallsInv
    <2>1. <<>> \in Seq(CallRecords)
      OBVIOUS
    <2> QED  BY <1>2, <2>1, Zenon DEF CallsInv
  <1> QED  BY <1>5, <1>6, <1>7 DEF StringsInv

\* A MID begins whose position is not within its text.
AstrayBegins == \E v \in Vars, j \in Builtins: AssignBuiltin(v, j) /\ Astray(j)

\* The first invariant is kept by every other step.
LEMMA StringsKept ==
    ASSUME StringsAssumption, StringsInv, ~AstrayBegins, [Next]_vars
    PROVE  StringsInv'
  <1>1. CASE Statement
    <2>1. PICK v \in Vars: \/ StoreLiteral(v)
                           \/ \E w \in Vars: CopyVariable(v, w)
                           \/ \E j \in Builtins: AssignBuiltin(v, j)
                           \/ \E j \in Conversions: AssignNumber(v, j)
      BY <1>1, Zenon DEF Statement
    <2>2. CASE StoreLiteral(v)
      <3>1. PICK s \in Literals: mem' = [mem EXCEPT ![v] = Fitted(s, Size[v])]
        BY <2>2, Zenon DEF StoreLiteral
      <3>2. job = Idle /\ UNCHANGED <<job, calls, dest, room, segs, i, k, loop>>
        BY <2>2, Zenon DEF StoreLiteral
      <3>3. s \in Seq(Chars \cup {NUL}) /\ Base \in Nat
        BY SMT DEF StringsAssumption
      <3>4. Clean(Fitted(s, Size[v]), Size[v])
        BY <3>3, FittedIsClean, SizesArePositive, Zenon
      <3> QED  BY <3>1, <3>2, <3>4, StoreKeeps, Zenon
    <2>3. ASSUME NEW w \in Vars, CopyVariable(v, w) PROVE StringsInv'
      <3>1. job = Idle /\ mem' = [mem EXCEPT ![v] = Reshaped(mem[w], Size[v])] /\ UNCHANGED <<job, calls, dest, room, segs, i, k, loop>>
        BY <2>3, Zenon DEF CopyVariable
      <3>2. dest # w
        BY <3>1, Names, Zenon DEF StringsInv, JobInv
      <3>3. Clean(mem[w], Size[w])
        BY <3>2, Zenon DEF StringsInv, MemInv
      <3>4. Clean(Reshaped(mem[w], Size[v]), Size[v])
        BY <3>3, ReshapedIsClean, SizesArePositive, Zenon
      <3> QED  BY <3>1, <3>4, StoreKeeps, Zenon
    <2> QED  BY <2>1, <2>2, <2>3, AssignBuiltinKeeps, AssignNumberKeeps, Zenon DEF AstrayBegins
  <1>2. CASE Helper
    BY <1>2, StartCallKeeps, CopyByteKeeps, LoopEndsKeeps, CallEndsKeeps, Zenon DEF Helper
  <1>3. CASE \E q \in Queries: Ask(q)
    BY <1>3, AskKeeps, Zenon
  <1>4. CASE Query
    BY <1>4, FindOuterKeeps, FindInnerKeeps, CompareKeeps, Zenon DEF Query
  <1>5. CASE UNCHANGED vars
    <2>1. UNCHANGED <<mem, job, calls, dest, room, segs, i, k, loop, answer>>
      BY <1>5, Zenon DEF vars
    <2>2. MemInv' /\ JobInv' /\ CallsInv' /\ RunInv' /\ QueryInv'
      BY <2>1, Zenon DEF StringsInv, MemInv, JobInv, CallsInv, RunInv, QueryInv, BuildsTemp, TempClean, ReadsIn, Loop
    <2> QED  BY <2>2 DEF StringsInv
  <1> QED  BY <1>1, <1>2, <1>3, <1>4, <1>5, Zenon DEF Next

\* It implies that every access is inside its buffer, and
LEMMA StaysInBounds ==
    ASSUME StringsAssumption, StringsInv
    PROVE  InBounds
  <1>1. dest # "none" => k \in DOMAIN mem[dest]
    BY Zenon DEF StringsInv, RunInv
  <1>2. ASSUME segs # <<>>, Loop.nul \/ i < Loop.end PROVE i \in DOMAIN mem[Loop.from]
    <2> DEFINE b == mem[Loop.from]
    <2>1. dest # "none"
      BY <1>2, Zenon DEF StringsInv, JobInv
    <2>2. PICK size \in Nat \ {0}: Clean(b, size)
      BY <1>2, <2>1, ReadsClean
    <2>3. StrLen(b) \in Nat /\ \A m \in 0..StrLen(b): m \in DOMAIN b
      BY <2>2, CleanLength
    <2>4. i \in Nat /\ Loop.end \in Int /\ IF Loop.nul THEN i <= StrLen(b) ELSE Loop.end <= StrLen(b)
      BY <1>2, <2>1, ReadsClean DEF Loops
    <2> HIDE DEF b
    <2>5. i \in 0..StrLen(b)
      BY <1>2, <2>3, <2>4
    <2> QED  BY <2>3, <2>5 DEF b
  <1>3. loop \in {"outer", "compare"} => i \in DOMAIN mem[job.a]
    <2> SUFFICES ASSUME loop \in {"outer", "compare"} PROVE i \in DOMAIN mem[job.a]
      OBVIOUS
    <2>1. loop # "none" /\ i \in 0..StrLen(mem[job.a])
      BY DEF StringsInv, QueryInv
    <2> QED  BY <2>1, QueryReads
  <1>4. loop = "compare" => i \in DOMAIN mem[job.b]
    <2> SUFFICES ASSUME loop = "compare" PROVE i \in DOMAIN mem[job.b]
      OBVIOUS
    <2>1. loop # "none" /\ i \in 0..StrLen(mem[job.b])
      BY DEF StringsInv, QueryInv
    <2> QED  BY <2>1, QueryReads
  <1>5. loop = "inner" => k \in DOMAIN mem[job.b] /\ i + k \in DOMAIN mem[job.a]
    <2> SUFFICES ASSUME loop = "inner" PROVE k \in DOMAIN mem[job.b] /\ i + k \in DOMAIN mem[job.a]
      OBVIOUS
    <2>1. loop # "none" /\ k \in 0..StrLen(mem[job.b]) /\ i + k \in 0..StrLen(mem[job.a])
      BY DEF StringsInv, QueryInv
    <2> QED  BY <2>1, QueryReads
  <1> QED  BY <1>1, <1>2, <1>3, <1>4, <1>5, Zenon DEF InBounds, StoresInBounds, LoadsInBounds

\* that every STRING at rest is terminated.
LEMMA RestTerminated ==
    ASSUME StringsAssumption, MemInv
    PROVE  AlwaysTerminated
  <1> SUFFICES ASSUME NEW v \in Vars
               PROVE  /\ DOMAIN mem[v] = 0..(Size[v] - 1)
                      /\ dest # v => /\ Terminated(mem[v])
                                     /\ \A n \in 0..(StrLen(mem[v]) - 1): mem[v][n] # Junk
    BY Zenon DEF AlwaysTerminated
  <1>1. DOMAIN mem[v] = 0..(Size[v] - 1) /\ (dest # v => Clean(mem[v], Size[v]))
    BY Zenon DEF MemInv
  <1>2. ASSUME dest # v PROVE Terminated(mem[v]) /\ \A n \in 0..(StrLen(mem[v]) - 1): mem[v][n] # Junk
    <2>1. Clean(mem[v], Size[v])
      BY <1>1, <1>2
    <2>2. StrLen(mem[v]) \in DOMAIN mem[v] /\ mem[v][StrLen(mem[v])] = NUL /\ \A n \in 0..(StrLen(mem[v]) - 1): mem[v][n] \in Chars
      BY <1>1, <2>1, SizesArePositive, CleanLength
    <2> QED  BY <2>2, CharsAre, Zenon DEF Terminated
  <1> QED  BY <1>1, <1>2

LEMMA StaysTerminated ==
    ASSUME StringsAssumption, StringsInv
    PROVE  AlwaysTerminated
  BY RestTerminated DEF StringsInv

-----------------------------------------------------------------------------
(***************************************************************************)
(* Texts.  What a loop still copies is a stretch of the text it reads, and *)
(* what a call writes is those of its loops in a row.  No call has more    *)
(* than three loops, no statement more than three calls.                   *)
(***************************************************************************)

\* The text of a clean buffer.
LEMMA TextFacts ==
    ASSUME NEW b, NEW size \in Nat, Clean(b, size)
    PROVE  /\ Text(b) \in Seq(Chars) /\ Len(Text(b)) = StrLen(b) /\ StrLen(b) \in 0..(size - 1)
           /\ \A n \in 1..StrLen(b): Text(b)[n] = b[n - 1]
  <1> DEFINE n == StrLen(b)
  <1>1. n \in Nat /\ n \in 0..(size - 1) /\ \A m \in 0..(n - 1): b[m] \in Chars
    BY CleanLength
  <1> HIDE DEF n
  <1>2. \A m \in 1..n: b[m - 1] \in Chars
    <2> TAKE m \in 1..n
    <2>1. m - 1 \in 0..(n - 1)
      BY <1>1
    <2> QED  BY <1>1, <2>1
  <1>3. Text(b) = [m \in 1..n |-> b[m - 1]]
    BY DEF Text, n
  <1> HIDE DEF Chars
  <1> DEFINE t == [m \in 1..n |-> b[m - 1]]
  <1>4. t \in [1..n -> Chars]
    BY <1>2
  <1>5. t \in Seq(Chars) /\ Len(t) = n /\ \A m \in 1..n: t[m] = b[m - 1]
    BY <1>1, <1>4
  <1> QED  BY <1>1, <1>3, <1>5 DEF n

\* A prefix written and ended is the text.
LEMMA EndedText ==
    ASSUME NEW b, NEW size \in Nat \ {0}, DOMAIN b = 0..(size - 1), NEW n \in 0..(size - 1),
           \A m \in 0..(n - 1): b[m] \in Chars
    PROVE  /\ StrLen([b EXCEPT ![n] = NUL]) = n
           /\ Text([b EXCEPT ![n] = NUL]) = [m \in 1..n |-> b[m - 1]]
  <1> DEFINE e == [b EXCEPT ![n] = NUL]
  <1>1. DOMAIN e = 0..(size - 1) /\ e[n] = NUL /\ \A m \in 0..(size - 1): m # n => e[m] = b[m]
    OBVIOUS
  <1>2. \A m \in 0..(n - 1): m \in 0..(size - 1) /\ m # n
    OBVIOUS
  <1> HIDE DEF e
  <1>3. \A m \in 0..(n - 1): e[m] = b[m] /\ e[m] \in Chars
    BY <1>1, <1>2
  <1>4. CleanTo(e, n)
    BY <1>1, <1>3, Zenon DEF CleanTo
  <1>5. StrLen(e) = n
    BY <1>1, <1>4, CleanEnds
  <1>6. \A m \in 1..n: e[m - 1] = b[m - 1]
    <2> TAKE m \in 1..n
    <2>1. m - 1 \in 0..(n - 1)
      OBVIOUS
    <2> QED  BY <1>3, <2>1
  <1>7. [m \in 1..n |-> e[m - 1]] = [m \in 1..n |-> b[m - 1]]
    BY <1>6
  <1> QED  BY <1>5, <1>7 DEF Text, e

PieceText(s, m, at) == SubSeq(Text(m[s.from]), at + 1, Lowest(s.end, StrLen(m[s.from])))
Piece(ss, m, n) == IF n \in DOMAIN ss THEN PieceText(ss[n], m, ss[n].start) ELSE <<>>
LoopsText(ss, m) == Piece(ss, m, 1) \o (Piece(ss, m, 2) \o Piece(ss, m, 3))

\* What the calls but the last one write.
CallText(cs, m, n) == IF n < Len(cs) THEN LoopsText(cs[n].loops, m) ELSE <<>>
CallsText(cs, m) == CallText(cs, m, 1) \o CallText(cs, m, 2)

Readable(s, m) == \E size \in Nat \ {0}: Clean(m[s.from], size)
AllReadable(ss, m) == ss \in Seq(Loops) /\ Len(ss) <= 3 /\ \A n \in DOMAIN ss: Readable(ss[n], m)

\* What a loop still copies: its next character, then the rest.
LEMMA PieceIsText ==
    ASSUME NEW m, NEW s \in Loops, Readable(s, m), NEW at \in Nat
    PROVE  /\ PieceText(s, m, at) \in Seq(Chars)
           /\ (at >= StrLen(m[s.from]) \/ at >= s.end => PieceText(s, m, at) = <<>>)
           /\ at < StrLen(m[s.from]) /\ at < s.end
                => /\ PieceText(s, m, at) = <<m[s.from][at]>> \o PieceText(s, m, at + 1)
                   /\ m[s.from][at] \in Chars
           /\ at = 0 /\ s.end >= StrLen(m[s.from]) => PieceText(s, m, at) = Text(m[s.from])
  <1> DEFINE b == m[s.from]
             t == Text(b)
             n == StrLen(b)
             e == Lowest(s.end, n)
  <1>1. PICK size \in Nat \ {0}: Clean(b, size)
    BY DEF Readable
  <1>2. t \in Seq(Chars) /\ Len(t) = n /\ n \in Nat /\ \A x \in 1..n: t[x] = b[x - 1]
    <2>1. size \in Nat
      OBVIOUS
    <2> QED  BY <1>1, <2>1, TextFacts
  <1>3. s.end \in Int
    BY DEF Loops
  <1>4. PieceText(s, m, at) = SubSeq(t, at + 1, e) /\ PieceText(s, m, at + 1) = SubSeq(t, at + 2, e)
    <2>1. (at + 1) + 1 = at + 2
      OBVIOUS
    <2> QED  BY <2>1 DEF PieceText
  <1>5. e \in Int /\ e <= n /\ e <= s.end /\ (e = n \/ e = s.end)
    BY <1>2, <1>3 DEF Lowest
  <1> HIDE DEF t, n, e
  <1>6. at + 1 \in Int /\ \A x \in (at + 1)..e: t[x] \in Chars
    <2>1. ASSUME NEW x \in (at + 1)..e PROVE t[x] \in Chars
      <3>1. x \in 1..Len(t)
        BY <1>2, <1>5
      <3> QED  BY <1>2, <3>1, ElementOfSeq
    <2> QED  BY <2>1
  <1>7. SubSeq(t, at + 1, e) \in Seq(Chars)
    BY <1>5, <1>6, SubSeqProperties
  <1>8. ASSUME at >= n \/ at >= s.end PROVE SubSeq(t, at + 1, e) = <<>>
    <2>1. e < at + 1 /\ at + 1 \in Int
      BY <1>2, <1>3, <1>5, <1>8
    <2> QED  BY <1>5, <2>1, SubSeqEmpty
  <1>9. ASSUME at < n, at < s.end PROVE SubSeq(t, at + 1, e) = <<b[at]>> \o SubSeq(t, at + 2, e) /\ b[at] \in Chars
    <2>1. at + 1 \in 1..Len(t) /\ e \in (at + 1)..Len(t) /\ (at + 1) - 1 = at /\ (at + 1) + 1 = at + 2 /\ at + 1 \in 1..n
      BY <1>2, <1>3, <1>5, <1>9
    <2>2. t[at + 1] = b[at] /\ t[at + 1] \in Chars
      BY <1>2, <2>1, ElementOfSeq
    <2>3. SubSeq(t, at + 1, e) = <<t[at + 1]>> \o SubSeq(t, (at + 1) + 1, e)
      BY <1>2, <2>1, SubSeqRecursiveFirst
    <2> QED  BY <2>1, <2>2, <2>3
  <1>10. ASSUME at = 0, s.end >= n PROVE SubSeq(t, at + 1, e) = t
    <2>1. at + 1 = 1 /\ e = Len(t)
      BY <1>2, <1>3, <1>5, <1>10
    <2> QED  BY <1>2, <2>1, SubSeqFull
  <1> QED  BY <1>4, <1>7, <1>8, <1>9, <1>10 DEF t, n

LEMMA Joins ==
    ASSUME NEW S, NEW s \in Seq(S), NEW t \in Seq(S), NEW u \in Seq(S)
    PROVE  /\ s \o t \in Seq(S) /\ Len(s \o t) = Len(s) + Len(t)
           /\ s \o <<>> = s /\ <<>> \o s = s
           /\ (s \o t) \o u = s \o (t \o u)
           /\ Len(s) \in Nat /\ (Len(s) = 0 <=> s = <<>>)
  BY ConcatProperties, ConcatEmptySeq, ConcatAssociative

LEMMA PieceTyped ==
    ASSUME NEW m, NEW ss, AllReadable(ss, m), NEW n \in Nat
    PROVE  Piece(ss, m, n) \in Seq(Chars)
  <1>1. CASE n \in DOMAIN ss
    <2>1. ss[n] \in Loops /\ Readable(ss[n], m)
      <3>1. DOMAIN ss = 1..Len(ss) /\ ss \in Seq(Loops)
        BY DEF AllReadable
      <3>2. ss[n] \in Loops
        BY <1>1, <3>1, ElementOfSeq
      <3> QED  BY <1>1, <3>2 DEF AllReadable
    <2>2. ss[n].start \in Nat
      BY <2>1 DEF Loops
    <2> QED  BY <1>1, <2>1, <2>2, PieceIsText DEF Piece
  <1>2. CASE n \notin DOMAIN ss
    <2>1. <<>> \in Seq(Chars)
      BY EmptySeq
    <2> QED  BY <1>2, <2>1 DEF Piece
  <1> QED  BY <1>1, <1>2

LEMMA LoopsTyped ==
    ASSUME NEW m, NEW ss, AllReadable(ss, m)
    PROVE  LoopsText(ss, m) \in Seq(Chars)
  <1>1. \A n \in {1, 2, 3}: Piece(ss, m, n) \in Seq(Chars)
    BY PieceTyped
  <1>2. Piece(ss, m, 2) \o Piece(ss, m, 3) \in Seq(Chars)
    BY <1>1, ConcatProperties
  <1> QED  BY <1>1, <1>2, ConcatProperties DEF LoopsText

\* The loops in a row, the first one apart.
LEMMA LoopsAhead ==
    ASSUME NEW m, NEW ss, AllReadable(ss, m)
    PROVE  /\ ss = <<>> => LoopsText(ss, m) = <<>>
           /\ ss # <<>> => /\ LoopsText(ss, m) = PieceText(ss[1], m, ss[1].start) \o LoopsText(Tail(ss), m)
                           /\ AllReadable(Tail(ss), m)
  <1> DEFINE E == <<>>
  <1>0. E \in Seq(Chars) /\ E \o E = E
    BY EmptySeq, ConcatEmptySeq
  <1>1. CASE ss = <<>>
    <2>1. 1 \notin DOMAIN ss /\ 2 \notin DOMAIN ss /\ 3 \notin DOMAIN ss
      BY <1>1
    <2>2. Piece(ss, m, 1) = E /\ Piece(ss, m, 2) = E /\ Piece(ss, m, 3) = E
      BY <2>1, Zenon DEF Piece
    <2> QED  BY <1>0, <1>1, <2>2 DEF LoopsText
  <1>2. CASE ss # <<>>
    <2> DEFINE r == Tail(ss)
    <2>1. ss \in Seq(Loops) /\ Len(ss) <= 3 /\ \A n \in DOMAIN ss: Readable(ss[n], m)
      BY DEF AllReadable
    <2>2. /\ Tail(ss) \in Seq(Loops)
          /\ Len(ss) \in Nat /\ Len(ss) > 0 /\ Len(Tail(ss)) = Len(ss) - 1
          /\ DOMAIN ss = 1..Len(ss) /\ DOMAIN Tail(ss) = 1..(Len(ss) - 1)
          /\ \A n \in 1..(Len(ss) - 1): Tail(ss)[n] = ss[n + 1]
      BY <1>2, <2>1, FirstOf
    <2> HIDE DEF r
    <2>3. AllReadable(r, m)
      <3>1. \A n \in DOMAIN r: n + 1 \in DOMAIN ss /\ r[n] = ss[n + 1]
        BY <2>2 DEF r
      <3>2. Len(r) <= 3 /\ r \in Seq(Loops)
        BY <2>1, <2>2 DEF r
      <3> QED  BY <2>1, <3>1, <3>2, Zenon DEF AllReadable
    <2>4. Piece(r, m, 1) = Piece(ss, m, 2)
      <3>1. (1 \in DOMAIN r <=> 2 \in DOMAIN ss) /\ (1 \in DOMAIN r => r[1] = ss[2])
        BY <2>2 DEF r
      <3> QED  BY <3>1, Zenon DEF Piece
    <2>5. Piece(r, m, 2) = Piece(ss, m, 3)
      <3>1. (2 \in DOMAIN r <=> 3 \in DOMAIN ss) /\ (2 \in DOMAIN r => r[2] = ss[3])
        BY <2>2 DEF r
      <3> QED  BY <3>1, Zenon DEF Piece
    <2>6. Piece(r, m, 3) = E
      <3>1. 3 \notin DOMAIN r
        BY <2>1, <2>2 DEF r
      <3> QED  BY <3>1, Zenon DEF Piece
    <2>7. Piece(ss, m, 1) = PieceText(ss[1], m, ss[1].start)
      <3>1. 1 \in DOMAIN ss
        BY <2>2
      <3> QED  BY <3>1, Zenon DEF Piece
    <2>8. Piece(ss, m, 3) \in Seq(Chars)
      BY PieceTyped
    <2>9. Piece(ss, m, 3) \o E = Piece(ss, m, 3)
      BY <2>8, ConcatEmptySeq
    <2>10. LoopsText(r, m) = Piece(ss, m, 2) \o Piece(ss, m, 3)
      BY <2>4, <2>5, <2>6, <2>9, Zenon DEF LoopsText
    <2> QED  BY <1>2, <2>3, <2>7, <2>10, Zenon DEF LoopsText, r
  <1> QED  BY <1>1, <1>2

LEMMA LoopsSame ==
    ASSUME NEW m, NEW n, NEW ss, \A x \in DOMAIN ss: n[ss[x].from] = m[ss[x].from]
    PROVE  LoopsText(ss, n) = LoopsText(ss, m)
  <1>1. \A x: Piece(ss, n, x) = Piece(ss, m, x)
    BY Zenon DEF Piece, PieceText
  <1>2. Piece(ss, n, 1) = Piece(ss, m, 1) /\ Piece(ss, n, 2) = Piece(ss, m, 2) /\ Piece(ss, n, 3) = Piece(ss, m, 3)
    BY <1>1
  <1> QED  BY <1>2 DEF LoopsText

LEMMA BuildReadable ==
    ASSUME StringsAssumption, NEW m, VarsClean(m), EmptyClean(m), NEW ss, SafeLoops(ss, m, "temp"), Len(ss) <= 3
    PROVE  AllReadable(ss, m)
  <1>1. \A b \in Texts: \E size \in Nat \ {0}: Clean(m[b], size)
    BY SourceClean DEF Texts
  <1> QED  BY <1>1, Zenon DEF AllReadable, Readable, SafeLoops, SafeLoop, Whence, Texts

LEMMA RunReadable ==
    ASSUME StringsAssumption, StringsInv, dest # "none", Len(segs) <= 3
    PROVE  AllReadable(segs, mem)
  <1>1. RunInv /\ MemInv /\ job.to \in Vars
    BY Zenon DEF StringsInv, JobInv
  <1>2. /\ dest = (IF calls = <<>> THEN job.to ELSE "temp") /\ SafeLoops(segs, mem, dest)
        /\ (calls = <<>> => TempClean)
    BY <1>1, Zenon DEF RunInv
  <1>3. CASE dest = "temp"
    <2>1. VarsClean(mem) /\ EmptyClean(mem)
      BY <1>1, <1>3, AllClean, Names
    <2> QED  BY <1>2, <1>3, <2>1, BuildReadable
  <1>4. CASE dest # "temp"
    <2>1. TempClean
      BY <1>2, <1>4
    <2> QED  BY <1>2, <1>4, <2>1, Zenon DEF AllReadable, Readable, SafeLoops, SafeLoop, Whence, TempClean
  <1> QED  BY <1>3, <1>4

\* The calls that build are short, and read variables.
Building3(cs, m) ==
    /\ cs \in Seq(CallRecords) /\ Len(cs) <= 3
    /\ \A n \in 1..(Len(cs) - 1): AllReadable(cs[n].loops, m)

LEMMA CallsSame ==
    ASSUME NEW m, NEW n, NEW cs, cs \in Seq(CallRecords),
           \A x \in 1..(Len(cs) - 1): SafeLoops(cs[x].loops, m, "temp"),
           \A b \in Texts: n[b] = m[b]
    PROVE  CallsText(cs, n) = CallsText(cs, m)
  <1>1. ASSUME NEW x \in {1, 2} PROVE CallText(cs, n, x) = CallText(cs, m, x)
    <2>1. CASE x < Len(cs)
      <3>1. x \in 1..(Len(cs) - 1)
        BY <2>1
      <3>2. SafeLoops(cs[x].loops, m, "temp")
        BY <3>1
      <3>3. \A y \in DOMAIN cs[x].loops: cs[x].loops[y].from \in Texts
        BY <3>2, Zenon DEF SafeLoops, SafeLoop, Whence, Texts
      <3>4. LoopsText(cs[x].loops, n) = LoopsText(cs[x].loops, m)
        <4>1. \A y \in DOMAIN cs[x].loops: n[cs[x].loops[y].from] = m[cs[x].loops[y].from]
          BY <3>3
        <4> QED  BY <4>1, LoopsSame, Zenon
      <3> QED  BY <2>1, <3>4, Zenon DEF CallText
    <2>2. CASE ~(x < Len(cs))
      BY <2>2, Zenon DEF CallText
    <2> QED  BY <2>1, <2>2
  <1> QED  BY <1>1, Zenon DEF CallsText

LEMMA CallsAhead ==
    ASSUME NEW m, NEW cs, Building3(cs, m)
    PROVE  /\ CallsText(cs, m) \in Seq(Chars)
           /\ Len(cs) <= 1 => CallsText(cs, m) = <<>>
           /\ Len(cs) > 1 => /\ CallsText(cs, m) = LoopsText(cs[1].loops, m) \o CallsText(Tail(cs), m)
                             /\ Building3(Tail(cs), m)
  <1> DEFINE E == <<>>
  <1>0. E \in Seq(Chars) /\ E \o E = E
    BY EmptySeq, ConcatEmptySeq
  <1>1. cs \in Seq(CallRecords) /\ Len(cs) \in Nat /\ Len(cs) <= 3 /\ \A n \in 1..(Len(cs) - 1): AllReadable(cs[n].loops, m)
    BY DEF Building3
  <1>2. ASSUME NEW n \in {1, 2} PROVE CallText(cs, m, n) \in Seq(Chars)
    <2>1. CASE n < Len(cs)
      <3>1. n \in 1..(Len(cs) - 1)
        BY <1>1, <2>1
      <3>2. LoopsText(cs[n].loops, m) \in Seq(Chars)
        BY <1>1, <3>1, LoopsTyped
      <3> QED  BY <2>1, <3>2, Zenon DEF CallText
    <2>2. CASE ~(n < Len(cs))
      BY <1>0, <2>2, Zenon DEF CallText
    <2> QED  BY <2>1, <2>2
  <1>3. CallsText(cs, m) \in Seq(Chars)
    BY <1>2, ConcatProperties DEF CallsText
  <1>4. ASSUME Len(cs) <= 1 PROVE CallsText(cs, m) = E
    <2>1. ~(1 < Len(cs)) /\ ~(2 < Len(cs))
      BY <1>1, <1>4
    <2>2. CallText(cs, m, 1) = E /\ CallText(cs, m, 2) = E
      BY <2>1, Zenon DEF CallText
    <2> QED  BY <1>0, <2>2, Zenon DEF CallsText
  <1>5. ASSUME Len(cs) > 1
        PROVE  CallsText(cs, m) = LoopsText(cs[1].loops, m) \o CallsText(Tail(cs), m) /\ Building3(Tail(cs), m)
    <2> DEFINE r == Tail(cs)
    <2>0. cs # <<>>
      BY <1>5
    <2>1. /\ r \in Seq(CallRecords) /\ Len(r) = Len(cs) - 1
          /\ \A n \in 1..(Len(cs) - 1): r[n] = cs[n + 1]
      BY <1>1, <2>0, FirstOf
    <2> HIDE DEF r
    <2>2. Building3(r, m)
      <3>1. Len(r) <= 3 /\ \A n \in 1..(Len(r) - 1): n + 1 \in 1..(Len(cs) - 1) /\ r[n] = cs[n + 1]
        BY <1>1, <2>1
      <3> QED  BY <1>1, <2>1, <3>1, Zenon DEF Building3
    <2>3. CallText(r, m, 1) = CallText(cs, m, 2)
      <3>1. (1 < Len(r) <=> 2 < Len(cs)) /\ (1 < Len(r) => r[1] = cs[2])
        BY <1>1, <2>1
      <3> QED  BY <3>1, Zenon DEF CallText
    <2>4. CallText(r, m, 2) = E
      <3>1. ~(2 < Len(r))
        BY <1>1, <2>1
      <3> QED  BY <3>1, Zenon DEF CallText
    <2>5. CallText(cs, m, 1) = LoopsText(cs[1].loops, m)
      <3>1. 1 < Len(cs)
        BY <1>1, <1>5
      <3> QED  BY <3>1, Zenon DEF CallText
    <2>6. CallText(cs, m, 2) \o E = CallText(cs, m, 2)
      BY <1>2, ConcatEmptySeq
    <2>7. CallsText(r, m) = CallText(cs, m, 2)
      BY <2>3, <2>4, <2>6, Zenon DEF CallsText
    <2> QED  BY <2>2, <2>5, <2>7, Zenon DEF CallsText, r
  <1> QED  BY <1>3, <1>4, <1>5

-----------------------------------------------------------------------------
(***************************************************************************)
(* The second invariant: what a statement means is what is written, what   *)
(* its loop under way still copies, what the loops after it copy, and what *)
(* the calls after those write.                                            *)
(***************************************************************************)
SoFar == [n \in 1..k |-> mem[dest][n - 1]]
Ahead == IF segs = <<>> THEN <<>> ELSE PieceText(Loop, mem, i) \o LoopsText(Tail(segs), mem)

ShortInv ==
    /\ job.means \in Seq(Chars) /\ Len(job.means) < MaxBytes
    /\ Len(segs) <= 3 /\ Len(calls) <= 3
    /\ \A n \in DOMAIN calls: Len(calls[n].loops) <= 3
    /\ dest = "temp" \/ Len(calls) > 1 => Len(job.means) \in DOMAIN mem["temp"]
BuiltInv ==
    /\ dest = "none" /\ Len(calls) > 1 =>
        /\ \A n \in 2..(Len(calls) - 1): calls[n].append
        /\ job.means = (IF calls[1].append THEN Text(mem["temp"]) ELSE <<>>) \o CallsText(calls, mem)
    /\ dest = "temp" =>
        /\ \A n \in 1..(Len(calls) - 1): calls[n].append
        /\ job.means = SoFar \o (Ahead \o CallsText(calls, mem))
    /\ (IF dest = "none" THEN Len(calls) = 1 ELSE dest # "temp") => Text(mem["temp"]) = job.means
StoredInv ==
    dest \notin {"none", "temp"} =>
        /\ segs # <<>> => Len(segs) = 1 /\ job.means = SoFar \o Ahead
        /\ segs = <<>> => SoFar = Cut(job.means, room - 1)
MeansInv == job # Idle /\ loop = "none" => ShortInv /\ BuiltInv /\ StoredInv

LEMMA SoFarTyped ==
    ASSUME StringsInv, dest # "none"
    PROVE  SoFar \in Seq(Chars) /\ Len(SoFar) = k /\ k \in Nat /\ \A n \in 1..k: SoFar[n] = mem[dest][n - 1]
  <1>1. room \in Nat \ {0} /\ k \in 0..(room - 1) /\ \A n \in 0..(k - 1): mem[dest][n] \in Chars
    BY DEF StringsInv, RunInv
  <1>2. \A n \in 1..k: mem[dest][n - 1] \in Chars
    <2> TAKE n \in 1..k
    <2>1. n - 1 \in 0..(k - 1)
      BY <1>1
    <2> QED  BY <1>1, <2>1
  <1>3. k \in Nat
    BY <1>1
  <1> DEFINE b == mem[dest]
             t == [n \in 1..k |-> b[n - 1]]
  <1> HIDE DEF b
  <1>4. t \in [1..k -> Chars]
    BY <1>2 DEF b
  <1>5. t \in Seq(Chars) /\ Len(t) = k /\ \A n \in 1..k: t[n] = b[n - 1]
    BY <1>3, <1>4
  <1> QED  BY <1>3, <1>5 DEF SoFar, b

LEMMA AheadTyped ==
    ASSUME StringsAssumption, StringsInv, dest # "none", Len(segs) <= 3
    PROVE  /\ Ahead \in Seq(Chars)
           /\ segs # <<>> => /\ Loop \in Loops /\ Readable(Loop, mem) /\ i \in Nat
                             /\ PieceText(Loop, mem, i) \in Seq(Chars)
                             /\ LoopsText(Tail(segs), mem) \in Seq(Chars)
                             /\ AllReadable(Tail(segs), mem) /\ AllReadable(segs, mem)
  <1>1. CASE segs = <<>>
    <2>1. Ahead = <<>>
      BY <1>1, Zenon DEF Ahead
    <2> QED  BY <1>1, <2>1, EmptySeq
  <1>2. CASE segs # <<>>
    <2>1. AllReadable(segs, mem)
      BY RunReadable
    <2>2. Loop \in Loops /\ i \in Nat
      BY <1>2, ReadsClean
    <2>3. Readable(Loop, mem)
      BY <1>2, ReadsClean, Zenon DEF Readable
    <2>4. PieceText(Loop, mem, i) \in Seq(Chars)
      BY <2>2, <2>3, PieceIsText
    <2>5. AllReadable(Tail(segs), mem)
      BY <1>2, <2>1, LoopsAhead, Zenon
    <2>6. LoopsText(Tail(segs), mem) \in Seq(Chars)
      BY <2>5, LoopsTyped
    <2>7. Ahead \in Seq(Chars)
      BY <1>2, <2>4, <2>6, ConcatProperties DEF Ahead
    <2> QED  BY <2>1, <2>2, <2>3, <2>4, <2>5, <2>6, <2>7
  <1> QED  BY <1>1, <1>2

\* One byte moves from what is ahead to what is written.
LEMMA CopyTells ==
    ASSUME StringsAssumption, StringsInv, CopyByte, Len(segs) <= 3
    PROVE  /\ \E c \in Chars: SoFar' = SoFar \o <<c>> /\ Ahead = <<c>> \o Ahead'
           /\ Ahead' \in Seq(Chars)
           /\ \A b \in Buffers: b # dest => mem'[b] = mem[b]
           /\ DOMAIN mem'[dest] = DOMAIN mem[dest]
  <1>1. PICK c \in Loads(Loop.from, i): Goes(c) /\ mem' = [mem EXCEPT ![dest][k] = c]
    BY Zenon DEF CopyByte
  <1>2. /\ dest # "none" /\ segs # <<>> /\ i' = i + 1 /\ k' = k + 1
        /\ UNCHANGED <<job, calls, dest, room, segs, loop, answer>>
    BY Zenon DEF CopyByte
  <1>3. MemInv /\ RunInv /\ job.to \in Vars
    BY <1>2, Zenon DEF StringsInv, JobInv
  <1>4. /\ dest = (IF calls = <<>> THEN job.to ELSE "temp")
        /\ room \in Nat \ {0} /\ DOMAIN mem[dest] = 0..(room - 1) /\ k \in 0..(room - 1)
        /\ SafeLoops(segs, mem, dest)
    BY <1>2, <1>3, Zenon DEF RunInv
  <1>5. dest \in Buffers /\ DOMAIN mem = Buffers
    BY <1>3, <1>4, Names DEF MemInv, Buffers
  <1>6. /\ DOMAIN mem'[dest] = DOMAIN mem[dest] /\ mem'[dest][k] = c
        /\ (\A n \in DOMAIN mem[dest]: n # k => mem'[dest][n] = mem[dest][n])
        /\ \A b \in Buffers: b # dest => mem'[b] = mem[b]
    BY <1>1, <1>4, <1>5
  <1>7. c \in Chars /\ c = mem[Loop.from][i] /\ i < Loop.end /\ i + 1 <= StrLen(mem[Loop.from]) /\ k < room - 1
    BY <1>1, <1>2, ByteRead
  <1>8. SoFar' = SoFar \o <<c>>
    <2>1. SoFar \in Seq(Chars) /\ Len(SoFar) = k /\ k \in Nat /\ \A n \in 1..k: SoFar[n] = mem[dest][n - 1]
      BY <1>2, SoFarTyped
    <2>2. StringsInv' /\ dest' # "none"
      BY <1>2, CopyByteKeeps
    <2>3. SoFar' \in Seq(Chars) /\ Len(SoFar') = k + 1 /\ \A n \in 1..(k + 1): SoFar'[n] = mem'[dest][n - 1]
      <3>1. k' \in 0..(room' - 1) /\ \A n \in 0..(k' - 1): mem'[dest'][n] \in Chars
        BY <2>2, Zenon DEF StringsInv, RunInv
      <3>2. \A n \in 1..(k + 1): mem'[dest][n - 1] \in Chars
        <4> TAKE n \in 1..(k + 1)
        <4>1. n - 1 \in 0..(k' - 1)
          BY <1>2, <2>1
        <4> QED  BY <1>2, <3>1, <4>1
      <3> DEFINE b == mem'[dest]
                 t == [n \in 1..(k + 1) |-> b[n - 1]]
      <3>3. SoFar' = t
        BY <1>2 DEF SoFar
      <3> HIDE DEF b
      <3>4. t \in [1..(k + 1) -> Chars] /\ k + 1 \in Nat
        BY <2>1, <3>2 DEF b
      <3>5. t \in Seq(Chars) /\ Len(t) = k + 1 /\ \A n \in 1..(k + 1): t[n] = b[n - 1]
        BY <3>4
      <3> HIDE DEF t
      <3> QED  BY <3>3, <3>5 DEF b
    <2>4. Append(SoFar, c) = SoFar \o <<c>>
      BY <1>7, <2>1, AppendIsConcat
    <2>5. /\ Append(SoFar, c) \in Seq(Chars) /\ Len(Append(SoFar, c)) = k + 1
          /\ (\A n \in 1..k: Append(SoFar, c)[n] = SoFar[n]) /\ Append(SoFar, c)[k + 1] = c
      BY <1>7, <2>1, AppendProperties
    <2> DEFINE s == SoFar
               u == SoFar'
               v == Append(SoFar, c)
    <2> HIDE DEF s, u, v
    <2>6. ASSUME NEW n \in 1..(k + 1) PROVE u[n] = v[n]
      <3>1. CASE n = k + 1
        <4>1. n - 1 = k
          BY <2>1, <3>1
        <4> QED  BY <1>6, <2>3, <2>5, <3>1, <4>1 DEF u, v
      <3>2. CASE n # k + 1
        <4>1. n \in 1..k /\ n - 1 \in DOMAIN mem[dest] /\ n - 1 # k
          BY <1>4, <2>1, <3>2
        <4>2. v[n] = mem[dest][n - 1] /\ u[n] = mem'[dest][n - 1]
          BY <2>1, <2>3, <2>5, <4>1 DEF u, v
        <4> QED  BY <1>6, <4>1, <4>2
      <3> QED  BY <3>1, <3>2
    <2>7. u \in Seq(Chars) /\ v \in Seq(Chars) /\ Len(u) = k + 1 /\ Len(v) = k + 1
      BY <2>3, <2>5 DEF u, v
    <2>8. u = v
      BY <2>6, <2>7, SeqEqual
    <2> QED  BY <2>4, <2>8 DEF u, v
  <1>9. \A n \in DOMAIN segs: segs[n].from \in Buffers /\ segs[n].from # dest
    <2>1. \A b \in Whence(dest): b \in Buffers /\ b # dest
      BY <1>3, <1>4, <1>5, Names, Zenon DEF Whence, Buffers
    <2> QED  BY <1>4, <2>1, Zenon DEF SafeLoops, SafeLoop
  <1>10. Loop' = Loop /\ Loop = segs[1] /\ 1 \in DOMAIN segs /\ \A n \in DOMAIN Tail(segs): n + 1 \in DOMAIN segs /\ Tail(segs)[n] = segs[n + 1]
    <2>1. segs \in Seq(Loops)
      BY <1>4 DEF SafeLoops
    <2>2. Head(segs) = segs[1] /\ 1 \in DOMAIN segs /\ \A n \in DOMAIN Tail(segs): n + 1 \in DOMAIN segs /\ Tail(segs)[n] = segs[n + 1]
      BY <1>2, <2>1, FirstOf
    <2> QED  BY <1>2, <2>2 DEF Loop
  <1>11. LoopsText(Tail(segs), mem') = LoopsText(Tail(segs), mem)
    <2>1. \A n \in DOMAIN Tail(segs): mem'[Tail(segs)[n].from] = mem[Tail(segs)[n].from]
      BY <1>6, <1>9, <1>10
    <2> QED  BY <2>1, LoopsSame
  <1>12. PieceText(Loop, mem', i + 1) = PieceText(Loop, mem, i + 1)
    <2>1. mem'[Loop.from] = mem[Loop.from]
      BY <1>6, <1>9, <1>10
    <2> QED  BY <2>1 DEF PieceText
  <1> DEFINE P == PieceText(Loop, mem, i + 1)
             R == LoopsText(Tail(segs), mem)
  <1>13. Loop \in Loops /\ Readable(Loop, mem) /\ i \in Nat /\ R \in Seq(Chars)
    BY <1>2, AheadTyped
  <1>14. i < StrLen(mem[Loop.from])
    <2>1. StrLen(mem[Loop.from]) \in Nat
      BY <1>13, CleanLength DEF Readable
    <2> QED  BY <1>7, <1>13, <2>1
  <1>15. PieceText(Loop, mem, i) = <<c>> \o P /\ P \in Seq(Chars)
    <2>1. i + 1 \in Nat
      BY <1>13
    <2>2. P \in Seq(Chars)
      BY <1>13, <2>1, PieceIsText
    <2> QED  BY <1>7, <1>13, <1>14, <2>2, PieceIsText
  <1>16. Ahead' = P \o R
    BY <1>2, <1>10, <1>11, <1>12 DEF Ahead
  <1>17. Ahead = (<<c>> \o P) \o R
    BY <1>2, <1>15 DEF Ahead
  <1> HIDE DEF P, R
  <1>18. <<c>> \in Seq(Chars)
    BY <1>7
  <1>19. (<<c>> \o P) \o R = <<c>> \o (P \o R) /\ P \o R \in Seq(Chars)
    BY <1>13, <1>15, <1>18, ConcatAssociative, ConcatProperties
  <1> QED  BY <1>6, <1>7, <1>8, <1>16, <1>17, <1>19

\* The calls that build are typed.
LEMMA CallsTyped ==
    ASSUME StringsAssumption, StringsInv, dest \notin Vars, Len(calls) <= 3,
           \A n \in DOMAIN calls: Len(calls[n].loops) <= 3
    PROVE  /\ Building3(calls, mem)
           /\ \A x \in 1..(Len(calls) - 1): SafeLoops(calls[x].loops, mem, "temp")
  <1>1. calls \in Seq(CallRecords) /\ Len(calls) \in Nat /\ DOMAIN calls = 1..Len(calls)
    <2>1. calls \in Seq(CallRecords)
      BY DEF StringsInv, CallsInv
    <2> QED  BY <2>1
  <1>2. VarsClean(mem) /\ EmptyClean(mem)
    BY AllClean DEF StringsInv
  <1>3. ASSUME NEW x \in 1..(Len(calls) - 1) PROVE SafeLoops(calls[x].loops, mem, "temp")
    <2>1. calls # <<>>
      BY <1>1
    <2>2. PICK cap \in Nat \ {0}: \A n \in 1..(Len(calls) - 1): Builds(calls[n], mem, cap)
      BY <2>1, Zenon DEF StringsInv, CallsInv, BuildsTemp
    <2> QED  BY <2>2, Zenon DEF Builds
  <1>4. ASSUME NEW x \in 1..(Len(calls) - 1) PROVE AllReadable(calls[x].loops, mem)
    <2>1. x \in DOMAIN calls
      BY <1>1
    <2> QED  BY <1>2, <1>3, <2>1, BuildReadable
  <1> QED  BY <1>1, <1>3, <1>4 DEF Building3

\* A byte copied keeps the second invariant.
LEMMA CopyMeans ==
    ASSUME StringsAssumption, StringsInv, MeansInv, CopyByte
    PROVE  MeansInv'
  <1>1. /\ dest # "none" /\ segs # <<>> /\ UNCHANGED <<job, calls, dest, room, segs, loop, answer>>
    BY Zenon DEF CopyByte
  <1>2. job # Idle /\ loop = "none" /\ job.to \in Vars /\ RunInv /\ MemInv
    BY <1>1, Zenon DEF StringsInv, JobInv
  <1>3. ShortInv /\ BuiltInv /\ StoredInv
    BY <1>2 DEF MeansInv
  <1>4. Len(segs) <= 3 /\ Len(calls) <= 3 /\ \A n \in DOMAIN calls: Len(calls[n].loops) <= 3
    BY <1>3, Zenon DEF ShortInv
  <1>5. PICK c \in Chars: SoFar' = SoFar \o <<c>> /\ Ahead = <<c>> \o Ahead'
    BY <1>4, CopyTells
  <1>6. /\ Ahead' \in Seq(Chars) /\ (\A b \in Buffers: b # dest => mem'[b] = mem[b])
        /\ DOMAIN mem'[dest] = DOMAIN mem[dest]
    BY <1>4, CopyTells
  <1>7. dest = (IF calls = <<>> THEN job.to ELSE "temp")
    BY <1>1, <1>2, Zenon DEF RunInv
  <1>8. SoFar \in Seq(Chars) /\ <<c>> \in Seq(Chars)
    BY <1>1, SoFarTyped
  <1>9. "temp" \in Buffers /\ \A b \in Texts: b \in Buffers /\ b # "temp"
    BY Names DEF Buffers, Texts, StringsAssumption
  <1>10. ShortInv'
    <2>1. DOMAIN mem'["temp"] = DOMAIN mem["temp"]
      BY <1>6, <1>9
    <2> QED  BY <1>1, <1>3, <2>1, Zenon DEF ShortInv
  <1>11. ASSUME NEW X \in Seq(Chars) PROVE SoFar' \o (Ahead' \o X) = SoFar \o (Ahead \o X) /\ SoFar' \o Ahead' = SoFar \o Ahead
    <2> DEFINE A == Ahead'
               s == SoFar
               d == <<c>>
    <2>1. A \in Seq(Chars) /\ s \in Seq(Chars) /\ d \in Seq(Chars)
      BY <1>6, <1>8
    <2> HIDE DEF A, s, d
    <2>2. A \o X \in Seq(Chars) /\ (d \o A) \o X = d \o (A \o X)
      BY <2>1, ConcatProperties, ConcatAssociative
    <2>3. s \o (d \o (A \o X)) = (s \o d) \o (A \o X)
      BY <2>1, <2>2, ConcatAssociative
    <2>4. s \o (d \o A) = (s \o d) \o A
      BY <2>1, ConcatAssociative
    <2>5. SoFar' = s \o d /\ Ahead = d \o A /\ Ahead' = A /\ SoFar = s
      BY <1>5 DEF A, s, d
    <2> QED  BY <2>2, <2>3, <2>4, <2>5
  <1>12. CASE dest = "temp"
    <2>1. dest \notin Vars
      BY <1>12, Names
    <2>2. CallsText(calls, mem) \in Seq(Chars) /\ \A x \in 1..(Len(calls) - 1): SafeLoops(calls[x].loops, mem, "temp")
      BY <1>4, <2>1, CallsTyped, CallsAhead
    <2>3. \A b \in Texts: mem'[b] = mem[b]
      BY <1>6, <1>9, <1>12
    <2>4. calls \in Seq(CallRecords)
      BY DEF StringsInv, CallsInv
    <2>5. CallsText(calls, mem') = CallsText(calls, mem)
      BY <2>2, <2>3, <2>4, CallsSame
    <2>6. job.means = SoFar \o (Ahead \o CallsText(calls, mem)) /\ \A n \in 1..(Len(calls) - 1): calls[n].append
      BY <1>3, <1>12, Zenon DEF BuiltInv
    <2>7. job.means = SoFar' \o (Ahead' \o CallsText(calls, mem'))
      BY <1>11, <2>2, <2>5, <2>6
    <2>8. BuiltInv' /\ StoredInv'
      BY <1>1, <1>12, <2>6, <2>7 DEF BuiltInv, StoredInv
    <2> QED  BY <1>10, <2>8 DEF MeansInv
  <1>13. CASE dest # "temp"
    <2>1. Text(mem'["temp"]) = Text(mem["temp"])
      BY <1>6, <1>9, <1>13
    <2>2. Text(mem["temp"]) = job.means /\ Len(segs) = 1 /\ job.means = SoFar \o Ahead
      BY <1>1, <1>3, <1>13, Zenon DEF BuiltInv, StoredInv
    <2>3. job.means = SoFar' \o Ahead'
      BY <1>11, <2>2, EmptySeq
    <2>4. BuiltInv' /\ StoredInv'
      BY <1>1, <1>13, <2>1, <2>2, <2>3 DEF BuiltInv, StoredInv
    <2> QED  BY <1>10, <2>4 DEF MeansInv
  <1> QED  BY <1>12, <1>13

\* A loop ends at its end, or because the buffer is full.
LEMMA EndTells ==
    ASSUME StringsAssumption, StringsInv, LoopEnds, Len(segs) <= 3
    PROVE  /\ k = room - 1 \/ Ahead = Ahead'
           /\ Ahead' \in Seq(Chars) /\ AllReadable(Tail(segs), mem)
           /\ \E P \in Seq(Chars): Ahead = P \o Ahead'
           /\ SoFar' = SoFar
  <1>1. /\ dest # "none" /\ segs # <<>> /\ segs' = Tail(segs) /\ i' = StartOf(segs')
        /\ UNCHANGED <<mem, job, calls, dest, room, k, loop, answer>>
    BY Zenon DEF LoopEnds
  <1>2. PICK c \in Loads(Loop.from, i): ~Goes(c)
    BY Zenon DEF LoopEnds
  <1> DEFINE P == PieceText(Loop, mem, i)
             r == Tail(segs)
             b == mem[Loop.from]
             n == StrLen(b)
  <1>3. /\ Loop \in Loops /\ Readable(Loop, mem) /\ i \in Nat /\ P \in Seq(Chars)
        /\ LoopsText(r, mem) \in Seq(Chars) /\ AllReadable(r, mem)
    BY <1>1, AheadTyped
  <1>4. Ahead = P \o LoopsText(r, mem)
    BY <1>1 DEF Ahead
  <1>5. Ahead' = LoopsText(r, mem)
    <2>1. CASE r = <<>>
      <3>1. Ahead' = <<>>
        BY <1>1, <2>1 DEF Ahead
      <3> QED  BY <1>3, <2>1, <3>1, LoopsAhead
    <2>2. CASE r # <<>>
      <3>1. r \in Seq(Loops)
        BY <1>3 DEF AllReadable
      <3>2. Head(r) = r[1]
        BY <2>2, <3>1, FirstOf
      <3>3. Ahead' = PieceText(r[1], mem, r[1].start) \o LoopsText(Tail(r), mem)
        BY <1>1, <2>2, <3>2 DEF Ahead, Loop, StartOf
      <3> QED  BY <1>3, <2>2, <3>3, LoopsAhead
    <2> QED  BY <2>1, <2>2
  <1>6. k = room - 1 \/ P = <<>>
    <2>1. room \in Nat \ {0} /\ k \in 0..(room - 1)
      BY <1>1, Zenon DEF StringsInv, RunInv
    <2>2. Loop.nul \in BOOLEAN /\ Loop.end \in Int
      BY <1>3 DEF Loops
    <2>3. IF Loop.nul THEN i <= n ELSE Loop.end <= n
      BY <1>1, ReadsClean
    <2>4. n \in Nat /\ b[n] = NUL /\ \A m \in 0..n: m \in DOMAIN b /\ (b[m] # NUL => m + 1 \in 0..n)
      BY <1>3, CleanLength DEF Readable
    <2>5. i \in DOMAIN b => c = b[i]
      BY <1>2, Zenon DEF Loads
    <2>6. ASSUME i >= n \/ i >= Loop.end PROVE P = <<>>
      BY <1>3, <2>6, PieceIsText
    <2> HIDE DEF b, n, P
    <2>7. ~(i < Loop.end /\ k < room - 1 /\ (Loop.nul => c # NUL))
      BY <1>2, Zenon DEF Goes
    <2>8. CASE ~(i < Loop.end)
      <3>1. i >= Loop.end
        BY <1>3, <2>2, <2>8
      <3> QED  BY <2>6, <3>1
    <2>9. CASE ~(k < room - 1)
      BY <2>1, <2>9
    <2>10. CASE i < Loop.end /\ k < room - 1
      <3>1. Loop.nul /\ c = NUL
        BY <2>7, <2>10
      <3>2. ASSUME i < n PROVE FALSE
        <4>1. Clean(b, CHOOSE size \in Nat \ {0}: Clean(b, size)) /\ (CHOOSE size \in Nat \ {0}: Clean(b, size)) \in Nat
          BY <1>3, Zenon DEF Readable, b
        <4>2. \A m \in 0..(n - 1): b[m] \in Chars
          BY <4>1, CleanLength DEF n
        <4>3. i \in 0..(n - 1) /\ i \in 0..n
          BY <1>3, <2>4, <3>2
        <4>4. b[i] = NUL /\ b[i] \in Chars
          BY <2>4, <2>5, <3>1, <4>2, <4>3
        <4> QED  BY <4>4, CharsAre
      <3>3. i >= n
        BY <1>3, <2>4, <3>2
      <3> QED  BY <2>6, <3>3
    <2> QED  BY <2>8, <2>9, <2>10
  <1>7. P = <<>> => Ahead = Ahead'
    BY <1>3, <1>4, <1>5, ConcatEmptySeq
  <1>8. SoFar' = SoFar
    BY <1>1 DEF SoFar
  <1> QED  BY <1>3, <1>4, <1>5, <1>6, <1>7, <1>8

\* A text is its own prefix, and stays one when something follows it.
LEMMA CutOfJoin ==
    ASSUME NEW S, NEW s \in Seq(S), NEW t \in Seq(S), NEW n \in Nat,
           Len(s) <= n, t = <<>> \/ Len(s) = n
    PROVE  Cut(s \o t, n) = s
  <1> DEFINE u == s \o t
  <1>1. /\ Len(s) \in Nat /\ Len(t) \in Nat /\ (t = <<>> <=> Len(t) = 0)
        /\ u \in Seq(S) /\ Len(u) = Len(s) + Len(t)
        /\ \A x \in 1..(Len(s) + Len(t)): x <= Len(s) => u[x] = s[x]
    <2>1. Len(s) \in Nat /\ Len(t) \in Nat /\ (t = <<>> <=> Len(t) = 0)
      OBVIOUS
    <2>2. u \in Seq(S) /\ Len(u) = Len(s) + Len(t) /\ \A x \in 1..(Len(s) + Len(t)): x <= Len(s) => u[x] = s[x]
      BY ConcatProperties
    <2> QED  BY <2>1, <2>2
  <1> HIDE DEF u
  <1>2. Lowest(n, Len(u)) = Len(s)
    BY <1>1 DEF Lowest
  <1>3. \A x \in 1..Len(s): u[x] = s[x] /\ u[x] \in S
    <2> TAKE x \in 1..Len(s)
    <2>1. x \in 1..(Len(s) + Len(t)) /\ x <= Len(s)
      BY <1>1
    <2> QED  BY <1>1, <2>1, ElementOfSeq
  <1> DEFINE c == SubSeq(u, 1, Len(s))
  <1>4. c \in Seq(S) /\ Len(c) = Len(s) /\ \A x \in 1..Len(s): c[x] = u[x]
    <2>1. /\ c \in Seq(S) /\ Len(c) = (IF 1 <= Len(s) THEN Len(s) - 1 + 1 ELSE 0)
          /\ \A x \in 1..(Len(s) - 1 + 1): c[x] = u[1 + x - 1]
      BY <1>1, <1>3, SubSeqProperties
    <2>2. Len(c) = Len(s)
      BY <1>1, <2>1
    <2>3. ASSUME NEW x \in 1..Len(s) PROVE c[x] = u[x]
      <3>1. x \in 1..(Len(s) - 1 + 1) /\ 1 + x - 1 = x
        BY <1>1
      <3> QED  BY <2>1, <3>1
    <2> QED  BY <2>1, <2>2, <2>3
  <1>5. c = s
    <2> HIDE DEF c
    <2> QED  BY <1>3, <1>4, SeqEqual
  <1> QED  BY <1>2, <1>5 DEF Cut, u

\* A loop that ends, at its text's end or at the limit of its room, keeps it.
LEMMA EndMeans ==
    ASSUME StringsAssumption, StringsInv, MeansInv, LoopEnds
    PROVE  MeansInv'
  <1>1. /\ dest # "none" /\ segs # <<>> /\ segs' = Tail(segs)
        /\ UNCHANGED <<mem, job, calls, dest, room, k, loop, answer>>
    BY Zenon DEF LoopEnds
  <1>2. job # Idle /\ loop = "none" /\ job.to \in Vars /\ RunInv /\ MemInv
    BY <1>1, Zenon DEF StringsInv, JobInv
  <1>3. ShortInv /\ BuiltInv /\ StoredInv
    BY <1>2 DEF MeansInv
  <1>4. Len(segs) <= 3 /\ Len(calls) <= 3 /\ (\A n \in DOMAIN calls: Len(calls[n].loops) <= 3)
    BY <1>3, Zenon DEF ShortInv
  <1>5. /\ dest = (IF calls = <<>> THEN job.to ELSE "temp")
        /\ room \in Nat \ {0} /\ DOMAIN mem[dest] = 0..(room - 1) /\ k \in 0..(room - 1)
        /\ SafeLoops(segs, mem, dest)
    BY <1>1, <1>2, Zenon DEF RunInv
  <1>6. segs \in Seq(Loops) /\ Len(Tail(segs)) = Len(segs) - 1 /\ Len(segs) \in Nat /\ (Tail(segs) = <<>> <=> Len(segs) = 1)
    <2>1. segs \in Seq(Loops)
      BY <1>5 DEF SafeLoops
    <2> QED  BY <1>1, <2>1, FirstOf
  <1> DEFINE s == SoFar
             A == Ahead
             B == Ahead'
  <1>7. /\ k = room - 1 \/ A = B
        /\ B \in Seq(Chars) /\ (\E P \in Seq(Chars): A = P \o B) /\ SoFar' = s
    BY <1>4, EndTells
  <1>8. A \in Seq(Chars) /\ s \in Seq(Chars) /\ Len(s) = k
    BY <1>1, <1>4, AheadTyped, SoFarTyped
  <1>9. A = <<>> => B = <<>>
    <2>1. PICK P \in Seq(Chars): A = P \o B
      BY <1>7
    <2>2. B \in Seq(Chars)
      BY <1>7
    <2> HIDE DEF A, B
    <2>3. P \o B = <<>> <=> P = <<>> /\ B = <<>>
      BY <2>2, ConcatEqualIffEmpty
    <2> QED  BY <2>1, <2>3
  <1>10. ShortInv'
    <2>1. Len(segs') <= 3
      BY <1>1, <1>4, <1>6
    <2> QED  BY <1>1, <1>3, <2>1, Zenon DEF ShortInv
  <1>11. CASE dest = "temp"
    <2> DEFINE C == CallsText(calls, mem)
    <2>1. C \in Seq(Chars)
      <3>1. dest \notin Vars
        BY <1>11, Names
      <3> QED  BY <1>4, <3>1, CallsTyped, CallsAhead
    <2>2. job.means = s \o (A \o C) /\ \A n \in 1..(Len(calls) - 1): calls[n].append
      BY <1>3, <1>11, Zenon DEF BuiltInv
    <2>3. Len(job.means) \in 0..(room - 1)
      BY <1>3, <1>5, <1>11 DEF ShortInv
    <2> HIDE DEF s, A, C, B
    <2>4. A = B
      <3>1. ASSUME k = room - 1 PROVE A = <<>>
        <4>1. A \o C \in Seq(Chars) /\ Len(A \o C) = Len(A) + Len(C)
          BY <1>8, <2>1, ConcatProperties
        <4>2. Len(s \o (A \o C)) = Len(s) + Len(A \o C)
          BY <1>8, <4>1, ConcatProperties
        <4>3. Len(A) \in Nat /\ Len(C) \in Nat /\ (Len(A) = 0 <=> A = <<>>)
          BY <1>8, <2>1
        <4>4. k + (Len(A) + Len(C)) <= room - 1
          BY <1>8, <2>2, <2>3, <4>1, <4>2
        <4> QED  BY <1>5, <3>1, <4>3, <4>4
      <3> QED  BY <1>7, <1>9, <3>1
    <2>5. job.means = SoFar' \o (Ahead' \o CallsText(calls, mem))
      BY <1>7, <2>2, <2>4 DEF s, A, B, C
    <2>6. BuiltInv' /\ StoredInv'
      BY <1>1, <1>11, <2>2, <2>5 DEF BuiltInv, StoredInv
    <2> QED  BY <1>10, <2>6 DEF MeansInv
  <1>12. CASE dest # "temp"
    <2>1. Text(mem["temp"]) = job.means /\ Len(segs) = 1 /\ job.means = s \o A
      BY <1>1, <1>3, <1>12, Zenon DEF BuiltInv, StoredInv
    <2>2. segs' = <<>>
      BY <1>1, <1>6, <2>1
    <2>3. B = <<>>
      BY <2>2 DEF Ahead
    <2> HIDE DEF s, A, B
    <2>4. Cut(s \o A, room - 1) = s
      <3>1. room - 1 \in Nat /\ Len(s) <= room - 1 /\ (A = <<>> \/ Len(s) = room - 1)
        BY <1>5, <1>7, <1>8, <2>3
      <3> QED  BY <1>8, <3>1, CutOfJoin
    <2>5. SoFar' = Cut(job.means, room - 1)
      BY <1>7, <2>1, <2>4
    <2>6. BuiltInv' /\ StoredInv'
      BY <1>1, <1>12, <2>1, <2>2, <2>5, Zenon DEF BuiltInv, StoredInv
    <2> QED  BY <1>10, <2>6 DEF MeansInv
  <1> QED  BY <1>11, <1>12

\* A call ends: with the last one the statement.
LEMMA CallMeans ==
    ASSUME StringsAssumption, StringsInv, MeansInv, CallEnds
    PROVE  MeansInv' /\ EndsMeant
  <1> DEFINE ended == [mem EXCEPT ![dest][k] = NUL]
  <1>1. /\ dest # "none" /\ segs = <<>>
        /\ mem' = IF calls = <<>> THEN [ended EXCEPT !["temp"] = <<>>] ELSE ended
        /\ job' = IF calls = <<>> THEN Idle ELSE job
        /\ dest' = "none" /\ UNCHANGED <<calls, segs, loop, answer>>
    BY Zenon DEF CallEnds
  <1>2. MemInv /\ RunInv /\ job # Idle /\ loop = "none" /\ job.to \in Vars
    BY <1>1, Zenon DEF StringsInv, JobInv
  <1>3. ShortInv /\ BuiltInv /\ StoredInv
    BY <1>2 DEF MeansInv
  <1>4. /\ dest = (IF calls = <<>> THEN job.to ELSE "temp")
        /\ room \in Nat \ {0} /\ DOMAIN mem[dest] = 0..(room - 1) /\ k \in 0..(room - 1)
        /\ \A n \in 0..(k - 1): mem[dest][n] \in Chars
    BY <1>1, <1>2, Zenon DEF RunInv
  <1>5. dest \in Buffers /\ DOMAIN mem = Buffers /\ "temp" \in Buffers /\ job.to # "temp" /\ job.to \in Buffers
    BY <1>2, <1>4, Names DEF MemInv, Buffers
  <1>6. /\ ended[dest] = [mem[dest] EXCEPT ![k] = NUL] /\ DOMAIN ended = Buffers
        /\ \A b \in Buffers: b # dest => ended[b] = mem[b]
    BY <1>5
  <1>7. Text(ended[dest]) = SoFar /\ DOMAIN ended[dest] = DOMAIN mem[dest]
    <2> DEFINE b == mem[dest]
    <2>1. SoFar = [n \in 1..k |-> b[n - 1]]
      BY DEF SoFar
    <2> HIDE DEF b
    <2>2. Text([b EXCEPT ![k] = NUL]) = [n \in 1..k |-> b[n - 1]]
      BY <1>4, EndedText DEF b
    <2>3. DOMAIN [b EXCEPT ![k] = NUL] = DOMAIN b
      OBVIOUS
    <2> QED  BY <1>6, <2>1, <2>2, <2>3 DEF b
  <1> HIDE DEF ended
  <1>8. CASE calls = <<>>
    <2>1. mem'[dest] = ended[dest] /\ dest = job.to /\ dest # "temp"
      BY <1>1, <1>4, <1>5, <1>6, <1>8
    <2>2. SoFar = Cut(job.means, room - 1)
      BY <1>1, <1>3, <2>1, Zenon DEF StoredInv
    <2>3. room = Size[job.to]
      <3>1. 0..(room - 1) = 0..(Size[job.to] - 1) /\ Size[job.to] \in Nat \ {0}
        BY <1>2, <1>4, <2>1, SizesArePositive DEF MemInv
      <3> QED  BY <1>4, <3>1
    <2>4. Text(mem'[job.to]) = Cut(job.means, Size[job.to] - 1)
      BY <1>7, <2>1, <2>2, <2>3
    <2>5. job' = Idle
      BY <1>1, <1>8
    <2> QED  BY <2>4, <2>5 DEF MeansInv, EndsMeant, StatementEnds
  <1>9. CASE calls # <<>>
    <2>1. dest = "temp" /\ mem' = ended /\ job' = job
      BY <1>1, <1>4, <1>9
    <2>2. calls \in Seq(CallRecords) /\ (Len(calls) = 1 \/ (Len(calls) > 1 /\ Len(calls) # 1))
      <3>1. calls \in Seq(CallRecords)
        BY DEF StringsInv, CallsInv
      <3>2. Len(calls) \in Nat /\ Len(calls) > 0
        BY <1>9, <3>1, FirstOf
      <3> QED  BY <3>1, <3>2
    <2>3. /\ Building3(calls, mem)
          /\ \A x \in 1..(Len(calls) - 1): SafeLoops(calls[x].loops, mem, "temp")
      <3>1. dest \notin Vars /\ Len(calls) <= 3 /\ \A n \in DOMAIN calls: Len(calls[n].loops) <= 3
        BY <1>3, <2>1, Names, Zenon DEF ShortInv
      <3> QED  BY <3>1, CallsTyped
    <2>4. CallsText(calls, mem') = CallsText(calls, mem)
      <3>1. \A b \in Texts: b \in Buffers /\ b # "temp"
        BY Names DEF Buffers, Texts, StringsAssumption
      <3>2. \A b \in Texts: mem'[b] = mem[b]
        BY <1>6, <2>1, <3>1
      <3>3. calls \in Seq(CallRecords)
        BY <2>3 DEF Building3
      <3> QED  BY <2>3, <3>2, <3>3, CallsSame
    <2>5. job.means = SoFar \o (Ahead \o CallsText(calls, mem)) /\ \A n \in 1..(Len(calls) - 1): calls[n].append
      BY <1>3, <2>1, Zenon DEF BuiltInv
    <2>6. Ahead = <<>> /\ SoFar \in Seq(Chars) /\ CallsText(calls, mem) \in Seq(Chars)
      <3>1. SoFar \in Seq(Chars)
        BY <1>1, SoFarTyped
      <3>2. CallsText(calls, mem) \in Seq(Chars)
        BY <2>3, CallsAhead
      <3> QED  BY <1>1, <3>1, <3>2 DEF Ahead
    <2>7. job.means = Text(mem'["temp"]) \o CallsText(calls, mem')
      <3>1. Ahead \o CallsText(calls, mem) = CallsText(calls, mem)
        BY <2>6, ConcatEmptySeq
      <3> QED  BY <1>7, <2>1, <2>4, <2>5, <3>1
    <2>8. ShortInv'
      <3>1. DOMAIN mem'["temp"] = DOMAIN mem["temp"]
        BY <1>7, <2>1
      <3> QED  BY <1>1, <1>3, <2>1, <3>1, Zenon DEF ShortInv
    <2>9. StoredInv'
      BY <1>1 DEF StoredInv
    <2>10. BuiltInv'
      <3>1. CASE Len(calls) = 1
        <4>1. CallsText(calls, mem) = <<>>
          <5>1. Len(calls) <= 1
            BY <3>1
          <5> QED  BY <2>3, <5>1, CallsAhead, Zenon
        <4>2. Text(mem'["temp"]) \o <<>> = Text(mem'["temp"])
          BY <1>7, <2>1, <2>6, ConcatEmptySeq
        <4>3. Text(mem'["temp"]) = job.means
          BY <2>4, <2>7, <4>1, <4>2
        <4>4. dest' = "none" /\ ~(Len(calls') > 1) /\ Text(mem'["temp"]) = job'.means
          BY <1>1, <2>1, <3>1, <4>3
        <4> QED  BY <4>4, Zenon DEF BuiltInv
      <3>2. CASE Len(calls) > 1 /\ Len(calls) # 1
        <4>1. calls[1].append /\ (\A n \in 2..(Len(calls) - 1): calls[n].append)
          <5>1. 1 \in 1..(Len(calls) - 1) /\ \A n \in 2..(Len(calls) - 1): n \in 1..(Len(calls) - 1)
            BY <2>2, <3>2
          <5> QED  BY <2>5, <5>1
        <4>2. dest' = "none" /\ dest' # "temp" /\ calls' = calls /\ job' = job /\ Len(calls) # 1
          <5>1. Len(calls) # 1
            BY <2>2, <3>2, Zenon
          <5>2. dest' = "none" /\ calls' = calls
            BY <1>1
          <5> QED  BY <2>1, <5>1, <5>2
        <4>3. job'.means = (IF calls'[1].append THEN Text(mem'["temp"]) ELSE <<>>) \o CallsText(calls', mem')
          BY <2>7, <4>1, <4>2, Zenon
        <4>4. \A n \in 2..(Len(calls') - 1): calls'[n].append
          BY <4>1, <4>2, Zenon
        <4>5. ~(IF dest' = "none" THEN Len(calls') = 1 ELSE dest' # "temp")
          BY <4>2, Zenon
        <4>6. /\ dest' = "none" /\ Len(calls') > 1 =>
                    /\ \A n \in 2..(Len(calls') - 1): calls'[n].append
                    /\ job'.means = (IF calls'[1].append THEN Text(mem'["temp"]) ELSE <<>>) \o CallsText(calls', mem')
          BY <4>3, <4>4, Zenon
        <4>7. dest' # "temp" /\ ~(IF dest' = "none" THEN Len(calls') = 1 ELSE dest' # "temp")
          BY <4>2, <4>5, Zenon
        <4> QED  BY <4>6, <4>7, Zenon DEF BuiltInv
      <3> QED  BY <2>2, <3>1, <3>2, Zenon
    <2>11. EndsMeant
      BY <1>2, <2>1 DEF EndsMeant, StatementEnds
    <2> QED  BY <2>8, <2>9, <2>10, <2>11 DEF MeansInv
  <1> QED  BY <1>8, <1>9

\* A call starts: all its loops are ahead of it.
LEMMA FreshAhead ==
    ASSUME NEW ss, AllReadable(ss, mem'), segs' = ss, i' = StartOf(ss)
    PROVE  Ahead' = LoopsText(ss, mem')
  <1>1. CASE ss = <<>>
    <2>1. Ahead' = <<>>
      BY <1>1 DEF Ahead
    <2> QED  BY <1>1, <2>1, LoopsAhead
  <1>2. CASE ss # <<>>
    <2>1. ss \in Seq(Loops)
      BY DEF AllReadable
    <2>2. Head(ss) = ss[1]
      BY <1>2, <2>1, FirstOf
    <2>3. Ahead' = PieceText(ss[1], mem', ss[1].start) \o LoopsText(Tail(ss), mem')
      BY <1>2, <2>2 DEF Ahead, Loop, StartOf
    <2> QED  BY <1>2, <2>3, LoopsAhead
  <1> QED  BY <1>1, <1>2

\* A call that begins keeps it.
LEMMA StartMeans ==
    ASSUME StringsAssumption, StringsInv, MeansInv, StartCall
    PROVE  MeansInv'
  <1> DEFINE c == calls[1]
             r == Tail(calls)
  <1>1. dest = "none" /\ calls # <<>> /\ job # Idle /\ loop = "none" /\ job.to \in Vars
    BY Zenon DEF StringsInv, JobInv, StartCall
  <1>2. ShortInv /\ BuiltInv /\ CallsInv
    BY <1>1 DEF MeansInv, StringsInv
  <1>3. /\ Head(calls) = c /\ c \in CallRecords /\ r \in Seq(CallRecords)
        /\ DOMAIN calls = 1..Len(calls) /\ Len(calls) \in Nat /\ Len(calls) > 0
        /\ Len(r) = Len(calls) - 1 /\ DOMAIN r = 1..(Len(calls) - 1)
        /\ \A n \in 1..(Len(calls) - 1): r[n] = calls[n + 1]
        /\ (r = <<>> <=> Len(calls) = 1)
    <2>1. calls \in Seq(CallRecords)
      BY <1>2 DEF CallsInv
    <2> QED  BY <1>1, <2>1, FirstOf
  <1>4. /\ dest' = c.to /\ room' = c.cap /\ segs' = c.loops /\ calls' = r
        /\ k' = (IF c.append THEN StrLen(mem[dest']) ELSE 0)
        /\ i' = StartOf(c.loops) /\ mem' = mem /\ job' = job /\ loop' = loop
    BY <1>3, Zenon DEF StartCall
  <1>5. dest \notin Vars
    BY <1>1, Names
  <1>6. /\ job.means \in Seq(Chars) /\ Len(job.means) < MaxBytes
        /\ Len(calls) <= 3 /\ (\A n \in DOMAIN calls: Len(calls[n].loops) <= 3)
        /\ (Len(calls) > 1 => Len(job.means) \in DOMAIN mem["temp"])
    BY <1>2, Zenon DEF ShortInv
  <1>7. \A n \in DOMAIN r: Len(r[n].loops) <= 3
    <2> TAKE n \in DOMAIN r
    <2>1. n + 1 \in DOMAIN calls /\ r[n] = calls[n + 1]
      BY <1>3
    <2> QED  BY <1>6, <2>1
  <1>8. Len(c.loops) <= 3 /\ Len(r) <= 3
    <2>1. 1 \in DOMAIN calls
      BY <1>3
    <2> QED  BY <1>3, <1>6, <2>1
  <1> HIDE DEF c, r
  <1>9. ~c.append => SoFar' = <<>>
    BY <1>4 DEF SoFar
  <1>10. CASE Len(calls) = 1
    <2>1. c = StrLcpy(job.to, Size[job.to], "temp") /\ TempClean
      <3>1. ~(Len(calls) > 1)
        BY <1>10
      <3> QED  BY <1>1, <1>2, <1>10, <3>1, Zenon DEF CallsInv, c
    <2>2. c.to = job.to /\ ~c.append /\ c.loops = <<Whole("temp")>>
      BY <2>1, Zenon DEF StrLcpy, Call
    <2> DEFINE w == Whole("temp")
    <2>3. w.from = "temp" /\ w.start = 0 /\ w.end = NoEnd
      BY Zenon DEF Whole, Copy
    <2>4. w \in Loops
      <3>1. "temp" \in Buffers /\ 0 \in Nat /\ NoEnd \in Int
        BY DEF Buffers, NoEnd
      <3> QED  BY <3>1, Zenon DEF Whole, Copy, Loops
    <2> HIDE DEF w
    <2>5. <<w>> \in Seq(Loops) /\ DOMAIN <<w>> = {1} /\ <<w>>[1] = w /\ Len(<<w>>) = 1
      BY <2>4
    <2>6. Readable(w, mem)
      BY <2>1, <2>3 DEF Readable, TempClean
    <2>7. AllReadable(<<w>>, mem)
      BY <2>5, <2>6 DEF AllReadable
    <2>8. Text(mem["temp"]) = job.means
      BY <1>1, <1>2, <1>10, Zenon DEF BuiltInv
    <2>9. StrLen(mem["temp"]) = Len(job.means) /\ StrLen(mem["temp"]) \in Nat
      <3>1. PICK cap \in Nat \ {0}: Clean(mem["temp"], cap)
        BY <2>1 DEF TempClean
      <3>2. cap \in Nat
        OBVIOUS
      <3>3. Len(Text(mem["temp"])) = StrLen(mem["temp"]) /\ StrLen(mem["temp"]) \in 0..(cap - 1)
        BY <3>1, <3>2, TextFacts
      <3> QED  BY <2>8, <3>2, <3>3
    <2>10. w.end >= StrLen(mem[w.from])
      BY <1>6, <2>3, <2>9 DEF NoEnd, MaxBytes
    <2>11. PieceText(w, mem, 0) = Text(mem["temp"])
      <3>1. 0 \in Nat
        OBVIOUS
      <3> QED  BY <2>3, <2>4, <2>6, <2>10, <3>1, PieceIsText
    <2>12. Ahead' = PieceText(w, mem, 0) \o LoopsText(<<>>, mem)
      <3>1. segs' = <<w>> /\ i' = 0
        BY <1>4, <2>2, <2>3, <2>5 DEF StartOf, w
      <3>2. segs' # <<>> /\ Head(segs') = w /\ Tail(segs') = <<>>
        BY <3>1
      <3> QED  BY <1>4, <3>1, <3>2, Zenon DEF Ahead, Loop
    <2>13. LoopsText(<<>>, mem) = <<>>
      <3>1. AllReadable(<<>>, mem)
        BY DEF AllReadable
      <3> QED  BY <3>1, LoopsAhead
    <2>14. SoFar' \o Ahead' = job.means
      <3>1. job.means \o <<>> = job.means /\ <<>> \o job.means = job.means
        BY <1>6, ConcatEmptySeq
      <3> QED  BY <1>9, <2>2, <2>8, <2>11, <2>12, <2>13, <3>1
    <2>15. segs' # <<>> /\ Len(segs') = 1
      BY <1>4, <2>2
    <2>16. calls' = <<>> /\ dest' = job.to /\ dest' # "temp" /\ dest' # "none" /\ ~(Len(calls') > 1)
      BY <1>1, <1>3, <1>4, <1>10, <2>2, Names
    <2>17. StoredInv'
      BY <1>4, <2>14, <2>15, Zenon DEF StoredInv
    <2>18. BuiltInv'
      BY <1>4, <2>8, <2>16, Zenon DEF BuiltInv
    <2>19. ShortInv'
      <3>1. Len(segs') <= 3 /\ Len(calls') <= 3
        BY <1>4, <1>8
      <3> QED  BY <1>4, <1>6, <1>7, <2>16, <3>1, Zenon DEF ShortInv
    <2> QED  BY <2>17, <2>18, <2>19 DEF MeansInv
  <1>11. CASE Len(calls) > 1
    <2>1. c.to = "temp" /\ SafeLoops(c.loops, mem, "temp")
      <3>1. PICK cap \in Nat \ {0}: \A n \in 1..(Len(calls) - 1): Builds(calls[n], mem, cap)
        BY <1>1, <1>2, Zenon DEF CallsInv, BuildsTemp
      <3>2. 1 \in 1..(Len(calls) - 1)
        BY <1>3, <1>11
      <3> QED  BY <3>1, <3>2, Zenon DEF Builds, c
    <2>2. Building3(calls, mem)
      BY <1>5, <1>6, CallsTyped
    <2>3. CallsText(calls, mem) = LoopsText(c.loops, mem) \o CallsText(r, mem)
      BY <1>11, <2>2, CallsAhead, Zenon DEF c, r
    <2>4. AllReadable(c.loops, mem)
      <3>1. VarsClean(mem) /\ EmptyClean(mem)
        BY <1>5, AllClean DEF StringsInv
      <3> QED  BY <1>8, <2>1, <3>1, BuildReadable
    <2>5. Ahead' = LoopsText(c.loops, mem)
      <3>1. AllReadable(c.loops, mem')
        BY <1>4, <2>4
      <3>2. Ahead' = LoopsText(c.loops, mem')
        BY <1>4, <3>1, FreshAhead
      <3> QED  BY <1>4, <3>2
    <2>6. SoFar' = IF c.append THEN Text(mem["temp"]) ELSE <<>>
      <3>1. CASE c.append
        <4>1. k' = StrLen(mem["temp"]) /\ mem'[dest'] = mem["temp"]
          BY <1>4, <2>1, <3>1
        <4>2. SoFar' = [n \in 1..k' |-> mem'[dest'][n - 1]]
          BY DEF SoFar
        <4> QED  BY <3>1, <4>1, <4>2 DEF Text
      <3> QED  BY <1>9, <3>1
    <2>7. /\ \A n \in 2..(Len(calls) - 1): calls[n].append
          /\ job.means = (IF c.append THEN Text(mem["temp"]) ELSE <<>>) \o CallsText(calls, mem)
      BY <1>1, <1>2, <1>11, Zenon DEF BuiltInv, c
    <2>8. job'.means = SoFar' \o (Ahead' \o CallsText(calls', mem'))
      BY <1>4, <2>3, <2>5, <2>6, <2>7, Zenon
    <2>9. \A n \in 1..(Len(calls') - 1): calls'[n].append
      <3> TAKE n \in 1..(Len(calls') - 1)
      <3>1. n + 1 \in 2..(Len(calls) - 1) /\ calls'[n] = calls[n + 1]
        BY <1>3, <1>4
      <3> QED  BY <2>7, <3>1
    <2>10. dest' = "temp" /\ dest' # "none"
      BY <1>4, <2>1
    <2>11. ShortInv'
      <3>1. Len(segs') <= 3 /\ Len(calls') <= 3
        BY <1>4, <1>8
      <3> QED  BY <1>4, <1>6, <1>7, <1>11, <3>1, Zenon DEF ShortInv
    <2>12. BuiltInv' /\ StoredInv'
      BY <2>8, <2>9, <2>10, Zenon DEF BuiltInv, StoredInv
    <2> QED  BY <2>11, <2>12 DEF MeansInv
  <1>12. Len(calls) = 1 \/ Len(calls) > 1
    BY <1>3
  <1> QED  BY <1>10, <1>11, <1>12

-----------------------------------------------------------------------------
(***************************************************************************)
(* The functions of the language as the stretches their helpers copy: what *)
(* each of plcc_left, plcc_right, plcc_mid and plcc_replace clamps is what *)
(* the function's meaning clamps.                                          *)
(***************************************************************************)

\* What a copy between two indices yields.
LEMMA Stretch ==
    ASSUME NEW S, NEW s \in Seq(S), NEW x \in Nat \ {0}, NEW y \in Int, y <= Len(s)
    PROVE  /\ SubSeq(s, x, y) \in Seq(S)
           /\ Len(SubSeq(s, x, y)) = IF x <= y THEN y - x + 1 ELSE 0
           /\ y < x => SubSeq(s, x, y) = <<>>
  <1>1. \A n \in x..y: s[n] \in S
    <2> TAKE n \in x..y
    <2>1. n \in 1..Len(s)
      OBVIOUS
    <2> QED  BY <2>1, ElementOfSeq
  <1>2. x \in Int
    OBVIOUS
  <1>3. SubSeq(s, x, y) \in Seq(S) /\ Len(SubSeq(s, x, y)) = IF x <= y THEN y - x + 1 ELSE 0
    BY <1>1, <1>2, SubSeqProperties
  <1>4. y < x => SubSeq(s, x, y) = <<>>
    BY <1>2, SubSeqEmpty
  <1> QED  BY <1>3, <1>4

Between(s, at, end) == SubSeq(s, at + 1, Lowest(end, Len(s)))
Front(s, p) == SubSeq(s, 1, From(Len(s), p))
Back(s, l, p) == SubSeq(s, Rest(Len(s), l, p) + 1, Len(s))
Joined(s, t, u) == s \o (t \o u)

\* The clamps the code has, and those of the language.
LEMMA LeftText ==
    ASSUME NEW S, NEW s \in Seq(S), NEW l \in Int
    PROVE  /\ Between(s, 0, l) = Left(s, l)
           /\ Left(s, l) \in Seq(S) /\ Len(Left(s, l)) <= Len(s)
  <1> DEFINE n == Len(s)
             h == Lowest(Highest(l, 0), n)
             g == Lowest(l, n)
  <1>1. n \in Nat
    OBVIOUS
  <1>2. Left(s, l) = SubSeq(s, 1, h)
    BY Zenon DEF Left, Cut
  <1>3. h \in Int /\ g \in Int /\ h <= n /\ g <= n /\ h >= 0 /\ (g = h \/ (g < 1 /\ h < 1))
    BY <1>1 DEF Lowest, Highest
  <1> HIDE DEF h, g
  <1>4. /\ SubSeq(s, 1, h) \in Seq(S) /\ Len(SubSeq(s, 1, h)) = (IF 1 <= h THEN h - 1 + 1 ELSE 0)
        /\ (h < 1 => SubSeq(s, 1, h) = <<>>) /\ (g < 1 => SubSeq(s, 1, g) = <<>>)
    BY <1>3, Stretch
  <1>5. Len(SubSeq(s, 1, h)) <= n
    BY <1>1, <1>3, <1>4
  <1>6. SubSeq(s, 1, g) = SubSeq(s, 1, h)
    BY <1>3, <1>4
  <1>7. 0 + 1 = 1
    OBVIOUS
  <1> QED  BY <1>2, <1>4, <1>5, <1>6, <1>7 DEF g, Between

LEMMA RightText ==
    ASSUME NEW S, NEW s \in Seq(S), NEW l \in Int
    PROVE  /\ Between(s, RightStart(Len(s), l), Len(s)) = Right(s, l)
           /\ Right(s, l) \in Seq(S) /\ Len(Right(s, l)) <= Len(s)
  <1> DEFINE n == Len(s)
             x == n - Clamped(l, 0, n) + 1
             y == RightStart(n, l) + 1
  <1>1. n \in Nat /\ n = Len(s)
    OBVIOUS
  <1>2. Right(s, l) = SubSeq(s, x, n) /\ Lowest(n, n) = n
    BY DEF Right, Lowest
  <1> HIDE DEF n
  <1>3. x \in Nat \ {0} /\ y \in Nat \ {0} /\ (x = y \/ (n < x /\ n < y)) /\ n \in Int /\ n <= Len(s)
    <2> DEFINE u == Clamped(l, 0, n)
               w == RightStart(n, l)
    <2>1. u = (IF l < 0 THEN 0 ELSE IF l < n THEN l ELSE n)
      BY <1>1 DEF Clamped, Lowest, Highest
    <2>2. w = (IF l <= n THEN n - l ELSE 0)
      BY <1>1 DEF RightStart, Highest
    <2>3. x = n - u + 1 /\ y = w + 1
      OBVIOUS
    <2>4. n <= Len(s) /\ n \in Int
      BY <1>1
    <2> HIDE DEF u, w, x, y
    <2>5. CASE l < 0
      BY <1>1, <2>1, <2>2, <2>3, <2>4, <2>5
    <2>6. CASE l >= 0 /\ l <= n
      <3>1. u = l /\ w = n - l
        BY <1>1, <2>1, <2>2, <2>6
      <3> QED  BY <1>1, <2>3, <2>4, <2>6, <3>1
    <2>7. CASE l > n
      <3>1. u = n /\ w = 0
        BY <1>1, <2>1, <2>2, <2>7
      <3> QED  BY <1>1, <2>3, <2>4, <3>1
    <2> QED  BY <1>1, <2>5, <2>6, <2>7
  <1> HIDE DEF x, y
  <1>4. /\ SubSeq(s, x, n) \in Seq(S) /\ Len(SubSeq(s, x, n)) = (IF x <= n THEN n - x + 1 ELSE 0)
        /\ (n < x => SubSeq(s, x, n) = <<>>) /\ (n < y => SubSeq(s, y, n) = <<>>)
    BY <1>3, Stretch
  <1>5. Len(SubSeq(s, x, n)) <= n
    BY <1>1, <1>3, <1>4
  <1>6. SubSeq(s, y, n) = SubSeq(s, x, n)
    BY <1>3, <1>4
  <1> QED  BY <1>2, <1>4, <1>5, <1>6 DEF y, n, Between

LEMMA MidText ==
    ASSUME NEW S, NEW s \in Seq(S), NEW l \in Int, NEW p \in 1..(Len(s) + 1)
    PROVE  /\ Between(s, p - 1, p - 1 + l) = Mid(s, l, p)
           /\ Mid(s, l, p) \in Seq(S) /\ Len(Mid(s, l, p)) <= Len(s)
  <1> DEFINE n == Len(s)
             h == Lowest(p + Highest(l, 0) - 1, n)
             g == Lowest(p - 1 + l, n)
  <1>1. n \in Nat /\ p \in Nat \ {0} /\ (p - 1) + 1 = p
    OBVIOUS
  <1>2. Clamped(p, 1, n + 1) = p
    BY <1>1 DEF Clamped, Lowest, Highest
  <1>3. Mid(s, l, p) = SubSeq(s, p, h)
    BY <1>2 DEF Mid
  <1>4. h \in Int /\ g \in Int /\ h <= n /\ g <= n /\ (g = h \/ (g < p /\ h < p))
    BY <1>1 DEF Lowest, Highest
  <1> HIDE DEF h, g
  <1>5. /\ SubSeq(s, p, h) \in Seq(S) /\ Len(SubSeq(s, p, h)) = (IF p <= h THEN h - p + 1 ELSE 0)
        /\ (h < p => SubSeq(s, p, h) = <<>>) /\ (g < p => SubSeq(s, p, g) = <<>>)
    BY <1>1, <1>4, Stretch
  <1>6. Len(SubSeq(s, p, h)) <= n
    BY <1>1, <1>4, <1>5
  <1>7. SubSeq(s, p, g) = SubSeq(s, p, h)
    BY <1>4, <1>5
  <1> QED  BY <1>1, <1>3, <1>5, <1>6, <1>7 DEF g, n, Between

\* What plcc_replace copies: a front, the other text, a back.
LEMMA ReplaceText ==
    ASSUME NEW S, NEW s \in Seq(S), NEW t \in Seq(S), NEW l \in Int, NEW p \in Int
    PROVE  /\ Between(s, 0, From(Len(s), p)) = Front(s, p)
           /\ Between(s, Rest(Len(s), l, p), Len(s)) = Back(s, l, p)
           /\ Replace(s, t, l, p) = Joined(Front(s, p), t, Back(s, l, p))
           /\ Replace(s, t, l, p) \in Seq(S) /\ Len(Replace(s, t, l, p)) <= Len(s) + Len(t)
           /\ Insert(s, t, p - 1) = Replace(s, t, 0, p)
  <1> DEFINE n == Len(s)
             first == Clamped(p, 1, n + 1)
             f == From(n, p)
             r == Rest(n, l, p)
             x == first + Highest(l, 0)
  <1>1. n \in Nat /\ n = Len(s)
    OBVIOUS
  <1>2. /\ f \in Nat /\ f <= n /\ r \in Nat /\ f <= r /\ r <= n /\ first - 1 = f /\ first = f + 1
        /\ x \in Nat \ {0} /\ (x = r + 1 \/ (n < x /\ n < r + 1))
        /\ Clamped(p - 1, 0, n) = f
    <2> HIDE DEF n
    <2>1. f \in Nat /\ f <= n /\ first = f + 1 /\ Clamped(p - 1, 0, n) = f
      BY <1>1 DEF From, Clamped, Lowest, Highest
    <2> DEFINE h == Highest(l, 0)
    <2>2. h \in Nat
      BY DEF Highest
    <2>3. r = Lowest(f + h, n) /\ x = first + h
      BY DEF Rest
    <2> HIDE DEF h, f, first, r, x
    <2>4. r = IF f + h < n THEN f + h ELSE n
      BY <2>3 DEF Lowest
    <2> QED  BY <1>1, <2>1, <2>2, <2>3, <2>4
  <1>3. Lowest(f, n) = f /\ Lowest(n, n) = n /\ 0 + 1 = 1
    BY <1>1, <1>2 DEF Lowest
  <1>4. Replace(s, t, l, p) = SubSeq(s, 1, first - 1) \o t \o SubSeq(s, x, n)
    BY DEF Replace
  <1>5. Insert(s, t, p - 1) = SubSeq(s, 1, f) \o t \o SubSeq(s, f + 1, n)
    BY <1>2 DEF Insert
  <1>6. Replace(s, t, 0, p) = SubSeq(s, 1, first - 1) \o t \o SubSeq(s, first + 0, n)
    <2>1. Highest(0, 0) = 0
      BY DEF Highest
    <2> QED  BY <2>1 DEF Replace
  <1>7. Insert(s, t, p - 1) = Replace(s, t, 0, p)
    <2>1. first + 0 = f + 1
      BY <1>2
    <2> QED  BY <1>2, <1>5, <1>6, <2>1
  <1> HIDE DEF first, f, r, x
  <1>8. /\ SubSeq(s, 1, f) \in Seq(S) /\ Len(SubSeq(s, 1, f)) = (IF 1 <= f THEN f - 1 + 1 ELSE 0)
        /\ SubSeq(s, r + 1, n) \in Seq(S) /\ Len(SubSeq(s, r + 1, n)) = (IF r + 1 <= n THEN n - (r + 1) + 1 ELSE 0)
        /\ (n < r + 1 => SubSeq(s, r + 1, n) = <<>>) /\ (n < x => SubSeq(s, x, n) = <<>>)
    <2>1. f \in Int /\ n \in Int /\ r + 1 \in Nat \ {0} /\ f <= Len(s) /\ n <= Len(s) /\ 1 \in Nat \ {0}
      BY <1>1, <1>2
    <2> QED  BY <1>2, <2>1, Stretch
  <1>9. SubSeq(s, x, n) = SubSeq(s, r + 1, n)
    BY <1>2, <1>8
  <1> DEFINE A == SubSeq(s, 1, f)
             C == SubSeq(s, r + 1, n)
  <1>10. Len(A) = f /\ Len(C) = n - r
    BY <1>1, <1>2, <1>8
  <1>11. A \in Seq(S) /\ C \in Seq(S)
    BY <1>8
  <1>12. Replace(s, t, l, p) = (A \o t) \o C
    BY <1>2, <1>4, <1>9
  <1> HIDE DEF A, C
  <1>13. (A \o t) \o C = A \o (t \o C)
    BY <1>11, ConcatAssociative
  <1>14. A \o t \in Seq(S) /\ Len(A \o t) = Len(A) + Len(t)
    BY <1>11, ConcatProperties
  <1>15. (A \o t) \o C \in Seq(S) /\ Len((A \o t) \o C) = Len(A \o t) + Len(C)
    BY <1>11, <1>14, ConcatProperties
  <1>16. Len((A \o t) \o C) <= n + Len(t)
    <2>1. Len(t) \in Nat
      OBVIOUS
    <2> QED  BY <1>1, <1>2, <1>10, <1>14, <1>15, <2>1
  <1>17. Between(s, 0, f) = Front(s, p) /\ Front(s, p) = A
    BY <1>3 DEF Between, Front, A, f
  <1>18. Between(s, r, n) = Back(s, l, p) /\ Back(s, l, p) = C
    BY <1>3 DEF Between, Back, C, r
  <1> QED  BY <1>7, <1>12, <1>13, <1>15, <1>16, <1>17, <1>18 DEF f, r, n, Joined

\* The piece a loop copies.
LEMMA PieceOf ==
    ASSUME NEW a, NEW at, NEW end, NEW nul, NEW m, NEW size \in Nat, Clean(m[a], size)
    PROVE  /\ PieceText(Copy(a, at, end, nul), m, Copy(a, at, end, nul).start)
                = Between(Text(m[a]), at, end)
           /\ Len(Text(m[a])) = StrLen(m[a])
  <1>1. Len(Text(m[a])) = StrLen(m[a])
    BY TextFacts
  <1>2. Copy(a, at, end, nul).from = a /\ Copy(a, at, end, nul).start = at /\ Copy(a, at, end, nul).end = end
    BY Zenon DEF Copy
  <1> QED  BY <1>1, <1>2, Zenon DEF PieceText, Between

LEMMA WholeOf ==
    ASSUME NEW a, NEW m, NEW size \in 1..MaxBytes, Clean(m[a], size)
    PROVE  PieceText(Whole(a), m, Whole(a).start) = Text(m[a])
  <1>1. size \in Nat /\ NoEnd \in Int
    BY DEF MaxBytes, NoEnd
  <1> DEFINE t == Text(m[a])
  <1>2. t \in Seq(Chars) /\ Len(t) = StrLen(m[a]) /\ StrLen(m[a]) \in 0..(size - 1)
    BY <1>1, TextFacts
  <1> HIDE DEF t
  <1>3. PieceText(Whole(a), m, Whole(a).start) = Between(t, 0, NoEnd)
    BY <1>1, PieceOf, Zenon DEF Whole, t
  <1>4. 0 + 1 = 1 /\ Lowest(NoEnd, Len(t)) = Len(t)
    <2> DEFINE n == StrLen(m[a])
    <2>1. size <= 32768 /\ n \in 0..(size - 1) /\ Len(t) = n
      BY <1>2 DEF MaxBytes
    <2> HIDE DEF n
    <2>2. Len(t) \in Int /\ Len(t) <= NoEnd /\ Len(t) = n
      BY <1>1, <2>1 DEF NoEnd
    <2> QED  BY <1>1, <2>2 DEF Lowest
  <1>5. SubSeq(t, 1, Len(t)) = t
    BY <1>2, SubSeqFull
  <1> QED  BY <1>3, <1>4, <1>5 DEF t, Between

LEMMA OneLoopText ==
    ASSUME NEW m, NEW s, PieceText(s, m, s.start) \in Seq(Chars)
    PROVE  LoopsText(<<s>>, m) = PieceText(s, m, s.start)
  <1> DEFINE E == <<>>
             P == PieceText(s, m, s.start)
             x == <<s>>
  <1>1. 1 \in DOMAIN x /\ 2 \notin DOMAIN x /\ 3 \notin DOMAIN x /\ x[1] = s
    OBVIOUS
  <1> HIDE DEF x
  <1>2. Piece(x, m, 1) = P /\ Piece(x, m, 2) = E /\ Piece(x, m, 3) = E
    BY <1>1, Zenon DEF Piece
  <1>3. E \o E = E /\ P \o E = P
    BY EmptySeq, ConcatEmptySeq
  <1> QED  BY <1>2, <1>3, Zenon DEF LoopsText, x

LEMMA ThreeLoopText ==
    ASSUME NEW m, NEW s, NEW t, NEW u
    PROVE  LoopsText(<<s, t, u>>, m)
             = Joined(PieceText(s, m, s.start), PieceText(t, m, t.start), PieceText(u, m, u.start))
  <1> DEFINE x == <<s, t, u>>
  <1>1. 1 \in DOMAIN x /\ 2 \in DOMAIN x /\ 3 \in DOMAIN x /\ x[1] = s /\ x[2] = t /\ x[3] = u
    OBVIOUS
  <1> HIDE DEF x
  <1>2. /\ Piece(x, m, 1) = PieceText(s, m, s.start) /\ Piece(x, m, 2) = PieceText(t, m, t.start)
        /\ Piece(x, m, 3) = PieceText(u, m, u.start)
    BY <1>1, Zenon DEF Piece
  <1>3. LoopsText(x, m) = Joined(Piece(x, m, 1), Piece(x, m, 2), Piece(x, m, 3))
    BY Zenon DEF LoopsText, Joined
  <1> QED  BY <1>2, <1>3, Zenon DEF x

LEMMA OneCallText ==
    ASSUME NEW m, NEW c, NEW last, LoopsText(c.loops, m) \in Seq(Chars)
    PROVE  CallsText(Append(<<c>>, last), m) = LoopsText(c.loops, m)
  <1> DEFINE x == Append(<<c>>, last)
             E == <<>>
             P == LoopsText(c.loops, m)
  <1>1. x[1] = c /\ 1 < Len(x) /\ ~(2 < Len(x))
    OBVIOUS
  <1> HIDE DEF x
  <1>2. CallText(x, m, 1) = P /\ CallText(x, m, 2) = E
    BY <1>1, Zenon DEF CallText
  <1>3. P \o E = P
    BY ConcatEmptySeq
  <1> QED  BY <1>2, <1>3, Zenon DEF CallsText, x

LEMMA TwoCallText ==
    ASSUME NEW m, NEW c, NEW d, NEW last
    PROVE  CallsText(Append(<<c, d>>, last), m) = LoopsText(c.loops, m) \o LoopsText(d.loops, m)
  <1> DEFINE x == Append(<<c, d>>, last)
  <1>1. x[1] = c /\ x[2] = d /\ 1 < Len(x) /\ 2 < Len(x)
    OBVIOUS
  <1> HIDE DEF x
  <1>2. CallText(x, m, 1) = LoopsText(c.loops, m) /\ CallText(x, m, 2) = LoopsText(d.loops, m)
    BY <1>1, Zenon DEF CallText
  <1> QED  BY <1>2, Zenon DEF CallsText, x

\* What the calls of a builtin write, and that it fits.
Tells(cs, m, text, cap) ==
    /\ Len(cs) \in {1, 2} /\ (\A n \in 1..Len(cs): Len(cs[n].loops) <= 3)
    /\ \A n \in 2..Len(cs): cs[n].append
    /\ \A last: CallsText(Append(cs, last), m) = text
    /\ text \in Seq(Chars) /\ Len(text) < cap

LEMMA CallTells ==
    ASSUME NEW m, NEW cap, NEW s, NEW text \in Seq(Chars), PieceText(s, m, s.start) = text, Len(text) < cap
    PROVE  Tells(<<Call("temp", cap, FALSE, <<s>>)>>, m, text, cap)
  <1> DEFINE c == Call("temp", cap, FALSE, <<s>>)
             x == <<c>>
  <1>1. c.loops = <<s>> /\ Len(<<s>>) <= 3
    BY DEF Call
  <1>2. LoopsText(c.loops, m) = text
    BY <1>1, OneLoopText
  <1> HIDE DEF c
  <1>3. \A last: CallsText(Append(x, last), m) = text
    BY <1>2, OneCallText
  <1>4. Len(x) = 1 /\ x[1] = c /\ (\A n \in 1..1: n = 1) /\ 2..1 = {}
    OBVIOUS
  <1> HIDE DEF x
  <1>5. (\A n \in 1..Len(x): Len(x[n].loops) <= 3) /\ \A n \in 2..Len(x): x[n].append
    BY <1>1, <1>4
  <1>6. Tells(x, m, text, cap)
    BY <1>3, <1>4, <1>5 DEF Tells
  <1> QED  BY <1>6 DEF x, c

\* A variable's text is shorter than its buffer.
LEMMA TextOfVariable ==
    ASSUME StringsAssumption, NEW m, VarsClean(m), NEW a \in Vars
    PROVE  /\ Size[a] \in 1..MaxBytes /\ Size[a] \in Nat /\ Clean(m[a], Size[a])
           /\ Text(m[a]) \in Seq(Chars) /\ Len(Text(m[a])) = StrLen(m[a])
           /\ Len(Text(m[a])) \in Nat /\ Len(Text(m[a])) <= Size[a] - 1
  <1>1. Size[a] \in 1..MaxBytes
    BY SMT DEF StringsAssumption
  <1>2. Size[a] \in Nat
    BY SizesArePositive
  <1>3. Clean(m[a], Size[a])
    BY DEF VarsClean
  <1>4. Text(m[a]) \in Seq(Chars) /\ Len(Text(m[a])) = StrLen(m[a]) /\ StrLen(m[a]) \in 0..(Size[a] - 1)
    BY <1>2, <1>3, TextFacts
  <1>5. Len(Text(m[a])) \in Nat /\ Len(Text(m[a])) <= Size[a] - 1
    <2> DEFINE n == StrLen(m[a])
    <2>1. n \in 0..(Size[a] - 1) /\ Len(Text(m[a])) = n
      BY <1>4
    <2> HIDE DEF n
    <2> QED  BY <1>2, <2>1
  <1> QED  BY <1>1, <1>2, <1>3, <1>4, <1>5

LEMMA TextOfEmpty ==
    ASSUME NEW m, EmptyClean(m)
    PROVE  Clean(m["empty"], 1) /\ Text(m["empty"]) = <<>> /\ 1 \in 1..MaxBytes
  <1>1. Clean(m["empty"], 1) /\ 1 \in 1..MaxBytes /\ 1 \in Nat
    BY DEF EmptyClean, MaxBytes
  <1>2. Text(m["empty"]) \in Seq(Chars) /\ Len(Text(m["empty"])) = StrLen(m["empty"]) /\ StrLen(m["empty"]) \in 0..(1 - 1)
    BY <1>1, TextFacts
  <1>3. Len(Text(m["empty"])) = 0
    BY <1>2
  <1> QED  BY <1>1, <1>2, <1>3, EmptySeq

\* plcc_replace tells what REPLACE, INSERT and DELETE mean.
LEMMA ReplaceTells ==
    ASSUME NEW m, NEW j, NEW b, NEW size \in 1..MaxBytes, Clean(m[b], size),
           NEW n \in Nat, Clean(m[j.a], n), NEW l \in Int, NEW p \in Int,
           m = mem, ResultBytes(j) \in Nat, Len(Text(m[j.a])) + Len(Text(m[b])) < ResultBytes(j)
    PROVE  Tells(<<ReplaceCall(j, b, l, p)>>, m, Replace(Text(m[j.a]), Text(m[b]), l, p), ResultBytes(j))
  <1> DEFINE s == Text(m[j.a])
             t == Text(m[b])
             c == ReplaceCall(j, b, l, p)
             f == From(Len(s), p)
             r == Rest(Len(s), l, p)
             x == Copy(j.a, 0, f, TRUE)
             y == Whole(b)
             z == Copy(j.a, r, Len(s), TRUE)
             text == Replace(s, t, l, p)
             w == <<c>>
  <1>1. size \in Nat
    BY DEF MaxBytes
  <1>2. s \in Seq(Chars) /\ t \in Seq(Chars) /\ Len(s) = StrLen(m[j.a])
    BY <1>1, TextFacts
  <1>3. c.loops = <<x, y, z>>
    BY <1>2, Zenon DEF ReplaceCall, Call
  <1>4. Between(s, 0, f) = Front(s, p) /\ Between(s, r, Len(s)) = Back(s, l, p) /\ text = Joined(Front(s, p), t, Back(s, l, p))
    <2> HIDE DEF s, t
    <2>1. s \in Seq(Chars) /\ t \in Seq(Chars)
      BY <1>2
    <2>2. Between(s, 0, From(Len(s), p)) = Front(s, p)
      BY <2>1, ReplaceText, Zenon
    <2>3. Between(s, Rest(Len(s), l, p), Len(s)) = Back(s, l, p) /\ Replace(s, t, l, p) \in Seq(Chars)
      BY <2>1, ReplaceText
    <2>4. Replace(s, t, l, p) = Joined(Front(s, p), t, Back(s, l, p))
      BY <2>1, ReplaceText, Zenon
    <2> QED  BY <2>2, <2>3, <2>4
  <1> HIDE DEF f, r, c
  <1>5. Joined(PieceText(x, m, x.start), PieceText(y, m, y.start), PieceText(z, m, z.start)) = text
    <2>0. \A at, end: PieceText(Copy(j.a, at, end, TRUE), m, Copy(j.a, at, end, TRUE).start) = Between(s, at, end)
      BY PieceOf, Zenon
    <2>3. PieceText(y, m, y.start) = t
      BY WholeOf, Zenon
    <2> HIDE DEF s
    <2>1. PieceText(x, m, x.start) = Between(s, 0, f)
      BY <2>0, Zenon
    <2>2. PieceText(z, m, z.start) = Between(s, r, Len(s))
      BY <2>0, Zenon
    <2> HIDE DEF t, x, y, z, text
    <2> QED  BY <1>4, <2>1, <2>2, <2>3, Zenon
  <1> HIDE DEF s, t, x, y, z
  <1>6. text \in Seq(Chars) /\ Len(text) <= Len(s) + Len(t)
    BY <1>2, ReplaceText
  <1> HIDE DEF text
  <1>7. Len(text) < ResultBytes(j)
    <2> DEFINE R == ResultBytes(j)
    <2>1. Len(s) + Len(t) < R /\ R \in Nat
      BY DEF s, t
    <2> HIDE DEF R
    <2> DEFINE q == Len(text)
               d == Len(s) + Len(t)
    <2>2. q \in Nat /\ d \in Nat /\ q <= d /\ d < R
      BY <1>2, <1>6, <2>1
    <2> HIDE DEF q, d
    <2>3. q < R
      BY <2>1, <2>2
    <2> QED  BY <2>3 DEF q, R
  <1>8. LoopsText(c.loops, m) = text /\ Len(c.loops) <= 3
    <2>1. Len(<<x, y, z>>) <= 3
      OBVIOUS
    <2> QED  BY <1>3, <1>5, <2>1, ThreeLoopText
  <1>9. \A last: CallsText(Append(w, last), m) = text
    BY <1>6, <1>8, OneCallText
  <1>10. Len(w) = 1 /\ w[1] = c /\ (\A q \in 1..1: q = 1) /\ 2..1 = {}
    OBVIOUS
  <1> HIDE DEF w
  <1>11. (\A q \in 1..Len(w): Len(w[q].loops) <= 3) /\ \A q \in 2..Len(w): w[q].append
    BY <1>8, <1>10
  <1>12. Tells(w, m, text, ResultBytes(j))
    BY <1>6, <1>7, <1>9, <1>10, <1>11 DEF Tells
  <1> QED  BY <1>12 DEF w, c, text, s, t

\* The calls of a builtin write, between them, what it means.
LEMMA HelpersTell ==
    ASSUME StringsAssumption, VarsClean(mem), EmptyClean(mem),
           NEW j \in Builtins, ~Astray(j)
    PROVE  Tells(HelperCalls(j), mem, Meaning(j), ResultBytes(j))
  <1> DEFINE R == ResultBytes(j)
             a == j.a
             s == Text(mem[a])
             t == Text(mem[j.b])
  <1>0. R \in Nat \ {0} /\ a \in Vars /\ j.b \in Texts
    BY RoomForResult, Zenon DEF Builtins, Plain, Texts
  <1>1. /\ Size[a] \in Nat /\ Clean(mem[a], Size[a]) /\ Size[a] \in 1..MaxBytes
        /\ s \in Seq(Chars) /\ Len(s) = StrLen(mem[a]) /\ Len(s) \in Nat /\ Len(s) <= Size[a] - 1
    BY <1>0, TextOfVariable
  <1>2. j.l \in Int /\ j.p \in Int
    <2>1. j.l \in Counts \cup {0} /\ j.p \in Counts \cup {0}
      BY Zenon DEF Builtins, Plain
    <2>2. Counts \subseteq Int /\ 0 \in Int
      BY SMT DEF StringsAssumption
    <2> QED  BY <2>1, <2>2, Zenon
  <1>3. ASSUME j.op \in {"LEFT", "RIGHT", "MID", "DELETE"} PROVE Len(s) < R
    <2>1. R = Size[a]
      <3>1. j.op \notin {"CONCAT", "INSERT", "REPLACE"} /\ j.op # "NUMBER"
        BY <1>3
      <3> QED  BY <3>1, Zenon DEF ResultBytes
    <2> HIDE DEF R, s, a
    <2> QED  BY <1>1, <2>1
  <1>4. ASSUME j.op \in {"CONCAT", "INSERT", "REPLACE"}
        PROVE  /\ j.b \in Vars /\ Size[j.b] \in 1..MaxBytes /\ Clean(mem[j.b], Size[j.b])
               /\ t \in Seq(Chars) /\ Len(t) \in Nat /\ Len(s) + Len(t) < R
    <2>1. j.b \in Vars
      BY <1>4, Zenon DEF Builtins, Plain
    <2>2. /\ Size[j.b] \in 1..MaxBytes /\ Clean(mem[j.b], Size[j.b]) /\ Size[j.b] \in Nat
          /\ t \in Seq(Chars) /\ Len(t) \in Nat /\ Len(t) <= Size[j.b] - 1
      BY <2>1, TextOfVariable
    <2>3. R = Size[a] + Size[j.b] - 1
      BY <1>4, Zenon DEF ResultBytes
    <2> HIDE DEF R, s, t, a
    <2> QED  BY <1>1, <2>1, <2>2, <2>3
  <1>5. \A at, end, nul: PieceText(Copy(a, at, end, nul), mem, Copy(a, at, end, nul).start) = Between(s, at, end)
    BY <1>1, PieceOf, Zenon
  <1>6. CASE j.op = "LEFT"
    <2>1. HelperCalls(j) = <<LeftCall(j)>> /\ Meaning(j) = Left(s, j.l)
      BY <1>6 DEF HelperCalls, Meaning
    <2> HIDE DEF s
    <2>2. Between(s, 0, j.l) = Left(s, j.l) /\ Left(s, j.l) \in Seq(Chars) /\ Len(Left(s, j.l)) <= Len(s)
      BY <1>1, <1>2, LeftText
    <2>3. Len(Left(s, j.l)) < R
      <3> HIDE DEF R
      <3>1. Len(Left(s, j.l)) \in Nat
        BY <2>2
      <3> QED  BY <1>0, <1>1, <1>3, <1>6, <2>2, <3>1
    <2> QED  BY <1>5, <2>1, <2>2, <2>3, CallTells, Zenon DEF LeftCall
  <1>7. CASE j.op = "RIGHT"
    <2>1. HelperCalls(j) = <<RightCall(j)>> /\ Meaning(j) = Right(s, j.l)
      BY <1>7 DEF HelperCalls, Meaning
    <2> HIDE DEF s
    <2>2. Between(s, RightStart(Len(s), j.l), Len(s)) = Right(s, j.l) /\ Right(s, j.l) \in Seq(Chars) /\ Len(Right(s, j.l)) <= Len(s)
      BY <1>1, <1>2, RightText
    <2>3. Len(Right(s, j.l)) < R
      <3> HIDE DEF R
      <3>1. Len(Right(s, j.l)) \in Nat
        BY <2>2
      <3> QED  BY <1>0, <1>1, <1>3, <1>7, <2>2, <3>1
    <2>4. RightCall(j) = Call("temp", R, FALSE, <<Copy(a, RightStart(Len(s), j.l), Len(s), FALSE)>>)
      BY <1>1, Zenon DEF RightCall
    <2> QED  BY <1>5, <2>1, <2>2, <2>3, <2>4, CallTells, Zenon
  <1>8. CASE j.op = "MID"
    <2>1. HelperCalls(j) = <<MidCall(j)>> /\ Meaning(j) = Mid(s, j.l, j.p)
      BY <1>8 DEF HelperCalls, Meaning
    <2>0. j.p \in 1..(Len(s) + 1)
      BY <1>1, <1>8 DEF Astray
    <2> HIDE DEF s
    <2>2. Between(s, j.p - 1, j.p - 1 + j.l) = Mid(s, j.l, j.p) /\ Mid(s, j.l, j.p) \in Seq(Chars) /\ Len(Mid(s, j.l, j.p)) <= Len(s)
      BY <1>1, <1>2, <2>0, MidText
    <2>3. Len(Mid(s, j.l, j.p)) < R
      <3> HIDE DEF R
      <3>1. Len(Mid(s, j.l, j.p)) \in Nat
        BY <2>2
      <3> QED  BY <1>0, <1>1, <1>3, <1>8, <2>2, <3>1
    <2> QED  BY <1>5, <2>1, <2>2, <2>3, CallTells, Zenon DEF MidCall
  <1>9. CASE j.op = "REPLACE"
    <2>1. HelperCalls(j) = <<ReplaceCall(j, j.b, j.l, j.p)>> /\ Meaning(j) = Replace(s, t, j.l, j.p)
      BY <1>9 DEF HelperCalls, Meaning
    <2>2. R \in Nat
      BY <1>0
    <2> QED  BY <1>1, <1>2, <1>4, <1>9, <2>1, <2>2, ReplaceTells, Zenon
  <1>10. CASE j.op = "INSERT"
    <2>1. HelperCalls(j) = <<ReplaceCall(j, j.b, 0, j.p + 1)>> /\ Meaning(j) = Insert(s, t, j.p)
      BY <1>10 DEF HelperCalls, Meaning
    <2>2. R \in Nat /\ 0 \in Int /\ j.p + 1 \in Int /\ (j.p + 1) - 1 = j.p
      BY <1>0, <1>2
    <2>3. Insert(s, t, j.p) = Replace(s, t, 0, j.p + 1)
      <3>1. s \in Seq(Chars) /\ t \in Seq(Chars)
        BY <1>1, <1>4, <1>10
      <3> HIDE DEF s, t
      <3>2. Insert(s, t, (j.p + 1) - 1) = Replace(s, t, 0, j.p + 1)
        BY <2>2, <3>1, ReplaceText, Zenon
      <3> QED  BY <2>2, <3>2
    <2> QED  BY <1>1, <1>4, <1>10, <2>1, <2>2, <2>3, ReplaceTells, Zenon
  <1>11. CASE j.op = "DELETE"
    <2>1. HelperCalls(j) = <<ReplaceCall(j, "empty", j.l, j.p)>> /\ Meaning(j) = Replace(s, <<>>, j.l, j.p)
      BY <1>11 DEF HelperCalls, Meaning
    <2>2. Clean(mem["empty"], 1) /\ Text(mem["empty"]) = <<>> /\ 1 \in 1..MaxBytes
      BY TextOfEmpty
    <2>3. R \in Nat /\ Len(s) + Len(<<>>) < R
      <3>1. Len(<<>>) = 0
        OBVIOUS
      <3> HIDE DEF R, s
      <3> QED  BY <1>0, <1>1, <1>3, <1>11, <3>1
    <2> QED  BY <1>1, <1>2, <2>1, <2>2, <2>3, ReplaceTells, Zenon
  <1>12. CASE j.op = "CONCAT"
    <2> DEFINE c == StrLcpy("temp", R, a)
               d == StrLcat("temp", R, j.b)
               x == <<c, d>>
               text == s \o t
    <2>1. HelperCalls(j) = x /\ Meaning(j) = text
      BY <1>12 DEF HelperCalls, Meaning
    <2>2. c.loops = <<Whole(a)>> /\ d.loops = <<Whole(j.b)>> /\ d.append
      BY Zenon DEF StrLcpy, StrLcat, Call
    <2>3. s \in Seq(Chars) /\ t \in Seq(Chars) /\ Len(s) + Len(t) < R
      BY <1>1, <1>4, <1>12
    <2>4. PieceText(Whole(a), mem, Whole(a).start) = s /\ PieceText(Whole(j.b), mem, Whole(j.b).start) = t
      BY <1>1, <1>4, <1>12, WholeOf
    <2> HIDE DEF s, t
    <2>5. LoopsText(c.loops, mem) = s /\ LoopsText(d.loops, mem) = t
      BY <2>2, <2>3, <2>4, OneLoopText
    <2> HIDE DEF c, d, R
    <2>6. \A last: CallsText(Append(x, last), mem) = text
      BY <2>5, TwoCallText
    <2>7. text \in Seq(Chars) /\ Len(text) < R
      BY <2>3, ConcatProperties
    <2>8. Len(x) = 2 /\ x[1] = c /\ x[2] = d /\ (\A q \in 1..2: q = 1 \/ q = 2) /\ (\A q \in 2..2: q = 2)
      OBVIOUS
    <2>9. Len(c.loops) <= 3 /\ Len(d.loops) <= 3
      BY <2>2
    <2> HIDE DEF x, text
    <2>10. (\A q \in 1..Len(x): Len(x[q].loops) <= 3) /\ \A q \in 2..Len(x): x[q].append
      BY <2>2, <2>8, <2>9
    <2>11. Tells(x, mem, text, R)
      BY <2>6, <2>7, <2>8, <2>10 DEF Tells
    <2> QED  BY <2>1, <2>11 DEF R
  <1>13. j.op \in {"CONCAT", "LEFT", "RIGHT", "MID", "REPLACE", "INSERT", "DELETE"}
    BY Zenon DEF Builtins, Plain
  <1> QED  BY <1>6, <1>7, <1>8, <1>9, <1>10, <1>11, <1>12, <1>13

\* No result is as long as the widest STRING.
LEMMA ResultFits ==
    ASSUME StringsAssumption, NEW j \in Builtins
    PROVE  ResultBytes(j) <= MaxBytes
  <1>1. j.a \in Vars /\ (j.op \in {"CONCAT", "INSERT", "REPLACE"} => j.b \in Vars) /\ j.op # "NUMBER"
    BY Zenon DEF Builtins, Plain
  <1>2. CASE j.op \in {"CONCAT", "INSERT", "REPLACE"}
    <2>1. ResultBytes(j) = Size[j.a] + Size[j.b] - 1
      BY <1>2, Zenon DEF ResultBytes
    <2>2. \A v, w \in Vars: Size[v] + Size[w] - 1 <= MaxBytes
      BY SMT DEF StringsAssumption
    <2>3. Size[j.a] + Size[j.b] - 1 <= MaxBytes
      BY <1>1, <1>2, <2>2
    <2> QED  BY <2>1, <2>3
  <1>3. CASE j.op \notin {"CONCAT", "INSERT", "REPLACE"}
    <2>1. ResultBytes(j) = Size[j.a]
      BY <1>1, <1>3, Zenon DEF ResultBytes
    <2>2. Size[j.a] \in 1..MaxBytes
      BY <1>1, SMT DEF StringsAssumption
    <2>3. Size[j.a] <= MaxBytes
      <3> DEFINE z == Size[j.a]
      <3>1. z \in 1..MaxBytes
        BY <2>2
      <3> HIDE DEF z
      <3>2. z <= MaxBytes
        BY <3>1 DEF MaxBytes
      <3> QED  BY <3>2 DEF z
    <2> QED  BY <2>1, <2>3
  <1> QED  BY <1>2, <1>3

\* A statement that calls helpers begins: what they will write is meant.
LEMMA AssignBuiltinMeans ==
    ASSUME StringsAssumption, StringsInv, NEW v \in Vars, NEW j \in Builtins, AssignBuiltin(v, j), ~Astray(j)
    PROVE  MeansInv'
  <1> DEFINE R == ResultBytes(j)
             H == HelperCalls(j)
             text == Meaning(j)
             last == StrLcpy(v, Size[v], "temp")
  <1>1. dest = "none" /\ segs = <<>>
    BY Zenon DEF StringsInv, JobInv, AssignBuiltin
  <1>2. MemInv /\ dest \notin Vars
    BY <1>1, Names DEF StringsInv
  <1>3. VarsClean(mem) /\ EmptyClean(mem)
    BY <1>2, AllClean, Zenon DEF AssignBuiltin
  <1>4. Building(H, mem, R) /\ R \in Nat \ {0} /\ R <= MaxBytes /\ Tells(H, mem, text, R)
    BY <1>3, HelperCallsBuild, RoomForResult, ResultFits, HelpersTell, Zenon
  <1>5. /\ mem' = [mem EXCEPT !["temp"] = [n \in 0..(R - 1) |-> Junk]]
        /\ calls' = Append(H, last) /\ job' = [op |-> j.op, to |-> v, means |-> text, astray |-> Astray(j)]
        /\ UNCHANGED <<dest, room, segs, i, k, loop>>
    BY Zenon DEF AssignBuiltin
  <1>6. mem'["temp"] = [n \in 0..(R - 1) |-> Junk] /\ \A b \in Texts: mem'[b] = mem[b]
    BY <1>1, <1>2, <1>5, TempChanges
  <1>7. last.loops = <<Whole("temp")>>
    BY Zenon DEF StrLcpy, Call
  <1>8. Len(last.loops) <= 3
    <2>1. Len(<<Whole("temp")>>) <= 3
      OBVIOUS
    <2> QED  BY <1>7, <2>1, Zenon
  <1> HIDE DEF R, H, text
  <1>9. /\ Len(H) \in {1, 2} /\ (\A n \in 1..Len(H): Len(H[n].loops) <= 3)
        /\ (\A n \in 2..Len(H): H[n].append)
        /\ CallsText(calls', mem) = text /\ text \in Seq(Chars) /\ Len(text) < R
    BY <1>4, <1>5, Zenon DEF Tells
  <1>10. last \in CallRecords /\ H \in Seq(CallRecords) /\ ~H[1].append /\ \A n \in DOMAIN H: Builds(H[n], mem, R)
    BY <1>4, LastCall, Zenon DEF Building
  <1> HIDE DEF last
  <1>11. /\ calls' \in Seq(CallRecords) /\ Len(calls') = Len(H) + 1 /\ calls'[Len(H) + 1] = last
         /\ (\A n \in 1..Len(H): calls'[n] = H[n] /\ n \in DOMAIN H)
    BY <1>5, <1>10, AppendsLast
  <1>12. Len(calls') <= 3 /\ Len(calls') > 1 /\ Len(calls') - 1 = Len(H) /\ 1 \in 1..Len(H) /\ DOMAIN calls' = 1..(Len(H) + 1)
    <2> DEFINE x == Len(H)
               y == Len(calls')
    <2>1. x \in {1, 2} /\ y = x + 1
      BY <1>9, <1>11
    <2>2. DOMAIN calls' = 1..y
      BY <1>11
    <2> HIDE DEF x, y
    <2>3. y <= 3 /\ y > 1 /\ y - 1 = x /\ 1 \in 1..x /\ DOMAIN calls' = 1..(x + 1)
      BY <2>1, <2>2
    <2> QED  BY <2>3 DEF x, y
  <1>13. \A n \in DOMAIN calls': Len(calls'[n].loops) <= 3
    <2> TAKE n \in DOMAIN calls'
    <2>1. n \in 1..Len(H) \/ n = Len(H) + 1
      BY <1>9, <1>12
    <2> QED  BY <1>8, <1>9, <1>11, <2>1
  <1>14. CallsText(calls', mem') = text
    <2>1. \A x \in 1..(Len(calls') - 1): SafeLoops(calls'[x].loops, mem, "temp")
      BY <1>10, <1>11, <1>12, Zenon DEF Builds
    <2>2. CallsText(calls', mem') = CallsText(calls', mem)
      BY <1>6, <1>11, <2>1, CallsSame
    <2> QED  BY <1>9, <2>2
  <1>15. ShortInv'
    <2>1. job'.means = text /\ segs' = <<>>
      BY <1>1, <1>5
    <2>2. Len(text) < MaxBytes /\ Len(text) \in 0..(R - 1)
      <3>1. Len(text) \in Nat /\ R \in Nat /\ MaxBytes \in Nat
        BY <1>4, <1>9 DEF MaxBytes
      <3> QED  BY <1>4, <1>9, <3>1
    <2>3. Len(segs') <= 3
      BY <2>1
    <2>4. Len(text) \in DOMAIN mem'["temp"]
      BY <1>6, <2>2
    <2> QED  BY <1>9, <1>12, <1>13, <2>1, <2>2, <2>3, <2>4, Zenon DEF ShortInv
  <1>16. BuiltInv'
    <2>1. ~calls'[1].append /\ \A n \in 2..(Len(calls') - 1): calls'[n].append
      <3>1. \A n \in 2..Len(H): n \in 1..Len(H)
        BY <1>9
      <3> QED  BY <1>9, <1>10, <1>11, <1>12, <3>1
    <2>2. <<>> \o text = text
      BY <1>9, ConcatEmptySeq
    <2>3. job'.means = (IF calls'[1].append THEN Text(mem'["temp"]) ELSE <<>>) \o CallsText(calls', mem')
      BY <1>5, <1>14, <2>1, <2>2
    <2>4. dest' = "none" /\ dest' # "temp" /\ Len(calls') # 1
      BY <1>1, <1>5, <1>12
    <2>5. dest' # "temp" /\ ~(IF dest' = "none" THEN Len(calls') = 1 ELSE dest' # "temp")
      BY <2>4, Zenon
    <2> QED  BY <2>1, <2>3, <2>5, Zenon DEF BuiltInv
  <1>17. StoredInv'
    BY <1>1, <1>5 DEF StoredInv
  <1> QED  BY <1>15, <1>16, <1>17 DEF MeansInv

-----------------------------------------------------------------------------
(***************************************************************************)
(* Numerals.  The digits plcc_i64_to_str writes weigh their number, and no *)
(* other digits without a leading zero do.                                 *)
(***************************************************************************)
Sums(f, s, base) == f = [n \in 0..Len(s) |-> IF n = 0 THEN 0 ELSE f[n - 1] * base + s[n]]

Summing(f, s, base, m) == \A n \in 0..m: f[n] = IF n = 0 THEN 0 ELSE f[n - 1] * base + s[n]

\* Two running sums over the same digits agree.
LEMMA SumsAgree ==
    ASSUME NEW s, NEW base, NEW m \in Nat, NEW f, NEW g,
           Summing(f, s, base, m), Summing(g, s, base, m)
    PROVE  f[m] = g[m]
  <1> DEFINE T == {n \in Nat: n <= m /\ f[n] # g[n]}
  <1>1. ASSUME T # {} PROVE FALSE
    <2>1. PICK n \in T: \A x \in T: n <= x
      BY <1>1, LeastNumber
    <2>2. n \in 0..m /\ n \in Nat /\ f[n] # g[n]
      BY <2>1
    <2>3. n # 0
      <3>1. 0 \in 0..m
        OBVIOUS
      <3> QED  BY <2>2, <3>1 DEF Summing
    <2>4. n - 1 \in Nat /\ n - 1 <= m /\ ~(n <= n - 1)
      BY <2>2, <2>3
    <2>5. f[n - 1] = g[n - 1]
      BY <2>1, <2>4
    <2>6. f[n] = f[n - 1] * base + s[n] /\ g[n] = g[n - 1] * base + s[n]
      BY <2>2, <2>3 DEF Summing
    <2> QED  BY <2>2, <2>5, <2>6
  <1>2. m \in Nat /\ m <= m
    OBVIOUS
  <1> QED  BY <1>1, <1>2

\* The weight of digits is a running sum.
LEMMA WeightDefined ==
    ASSUME NEW base \in Nat, NEW s \in Seq(Nat)
    PROVE  \E f \in [0..Len(s) -> Nat]:
              /\ Weight(s, base) = f[Len(s)]
              /\ Summing(f, s, base, Len(s))
  <1> DEFINE L == Len(s)
             Q(n) == \E g \in [0..n -> Nat]: Summing(g, s, base, n)
  <1>1. L \in Nat /\ L = Len(s) /\ \A n \in 1..L: s[n] \in Nat
    BY ElementOfSeq
  <1> HIDE DEF L
  <1>2. Q(0)
    <2> DEFINE g == [x \in 0..0 |-> 0]
    <2>1. g \in [0..0 -> Nat] /\ Summing(g, s, base, 0)
      BY DEF Summing
    <2> QED  BY <2>1
  <1>3. ASSUME NEW n \in Nat, n + 1 <= L, Q(n) PROVE Q(n + 1)
    <2>1. PICK g \in [0..n -> Nat]: Summing(g, s, base, n)
      BY <1>3
    <2> DEFINE y == g[n] * base + s[n + 1]
               h == [x \in 0..(n + 1) |-> IF x = n + 1 THEN y ELSE g[x]]
    <2>2. y \in Nat
      <3>1. g[n] \in Nat /\ s[n + 1] \in Nat
        BY <1>1, <1>3
      <3>2. g[n] * base \in Nat
        BY <3>1
      <3> QED  BY <3>1, <3>2
    <2> HIDE DEF y
    <2>3. h \in [0..(n + 1) -> Nat]
      BY <2>2
    <2>4. \A x \in 0..(n + 1): h[x] = IF x = 0 THEN 0 ELSE h[x - 1] * base + s[x]
      <3> TAKE x \in 0..(n + 1)
      <3>1. CASE x = n + 1
        <4>1. h[x] = y /\ x # 0 /\ x - 1 = n /\ h[n] = g[n]
          BY <3>1
        <4>2. h[x] = h[x - 1] * base + s[x]
          BY <3>1, <4>1 DEF y
        <4> QED  BY <4>1, <4>2
      <3>2. CASE x # n + 1
        <4>1. x \in 0..n /\ h[x] = g[x] /\ (x # 0 => h[x - 1] = g[x - 1])
          BY <3>2
        <4>2. g[x] = IF x = 0 THEN 0 ELSE g[x - 1] * base + s[x]
          BY <2>1, <4>1 DEF Summing
        <4> QED  BY <4>1, <4>2
      <3> QED  BY <3>1, <3>2
    <2> HIDE DEF h
    <2> QED  BY <2>3, <2>4 DEF Summing
  <1>4. Q(L)
    <2> DEFINE T == {n \in Nat: n <= L /\ ~Q(n)}
    <2> SUFFICES ASSUME T # {} PROVE FALSE
      BY <1>1
    <2> HIDE DEF Q
    <2>1. PICK n \in T: \A x \in T: n <= x
      BY LeastNumber
    <2>2. n \in Nat /\ n <= L /\ n # 0 /\ ~Q(n)
      BY <1>2
    <2>3. n - 1 \in Nat /\ n - 1 <= L /\ ~(n <= n - 1) /\ (n - 1) + 1 = n
      BY <1>1, <2>2
    <2>4. Q(n - 1)
      BY <2>1, <2>3
    <2> QED  BY <1>3, <2>2, <2>3, <2>4
  <1>5. PICK g \in [0..L -> Nat]: Summing(g, s, base, L)
    BY <1>4
  <1>6. Sums(g, s, base)
    <2>1. g = [x \in 0..L |-> g[x]]
      OBVIOUS
    <2> QED  BY <1>5, <2>1 DEF Sums, Summing, L
  <1> DEFINE F == CHOOSE f: Sums(f, s, base)
  <1>7. Sums(F, s, base)
    BY <1>6, Zenon
  <1>8. Weight(s, base) = F[Len(s)]
    BY Zenon DEF Weight, Sums
  <1> HIDE DEF F
  <1>9. Summing(F, s, base, L)
    BY <1>7 DEF Sums, Summing, L
  <1>10. F[L] = g[L]
    BY <1>1, <1>5, <1>9, SumsAgree
  <1> QED  BY <1>1, <1>5, <1>8, <1>10

\* One digit more.
LEMMA WeightAppend ==
    ASSUME NEW base \in Nat, NEW s \in Seq(Nat), NEW d \in Nat
    PROVE  /\ Weight(s, base) \in Nat /\ Weight(<<>>, base) = 0
           /\ Weight(Append(s, d), base) = Weight(s, base) * base + d
  <1> DEFINE t == Append(s, d)
             L == Len(s)
  <1>1. t \in Seq(Nat) /\ L \in Nat /\ Len(t) = L + 1 /\ t[L + 1] = d /\ \A n \in 1..L: t[n] = s[n]
    BY AppendProperties
  <1> HIDE DEF t
  <1>2. PICK f \in [0..Len(s) -> Nat]: Weight(s, base) = f[Len(s)] /\ Summing(f, s, base, Len(s))
    BY WeightDefined
  <1>3. PICK g \in [0..Len(t) -> Nat]: Weight(t, base) = g[Len(t)] /\ Summing(g, t, base, Len(t))
    BY <1>1, WeightDefined
  <1> HIDE DEF L
  <1>4. Len(s) = L
    BY DEF L
  <1>5. Summing(g, s, base, L)
    <2> SUFFICES ASSUME NEW n \in 0..L PROVE g[n] = IF n = 0 THEN 0 ELSE g[n - 1] * base + s[n]
      BY DEF Summing
    <2>1. n \in 0..Len(t) /\ (n # 0 => t[n] = s[n])
      BY <1>1
    <2>2. g[n] = IF n = 0 THEN 0 ELSE g[n - 1] * base + t[n]
      BY <1>3, <2>1 DEF Summing
    <2> QED  BY <2>1, <2>2
  <1>6. f[L] = g[L]
    BY <1>1, <1>2, <1>4, <1>5, SumsAgree
  <1>7. g[L + 1] = g[L] * base + d
    <2>1. L + 1 \in 0..Len(t) /\ L + 1 # 0 /\ (L + 1) - 1 = L
      BY <1>1
    <2>2. g[L + 1] = g[(L + 1) - 1] * base + t[L + 1]
      BY <1>3, <2>1 DEF Summing
    <2> QED  BY <1>1, <2>1, <2>2
  <1>8. Weight(<<>>, base) = 0
    <2> DEFINE e == <<>>
    <2>1. e \in Seq(Nat) /\ Len(e) = 0
      OBVIOUS
    <2> HIDE DEF e
    <2>2. PICK h \in [0..Len(e) -> Nat]: Weight(e, base) = h[Len(e)] /\ Summing(h, e, base, Len(e))
      BY <2>1, WeightDefined
    <2>3. h[0] = 0
      BY <2>1, <2>2 DEF Summing
    <2> QED  BY <2>1, <2>2, <2>3 DEF e
  <1>9. f[L] \in Nat
    BY <1>1, <1>2, <1>4
  <1> QED  BY <1>1, <1>2, <1>3, <1>4, <1>6, <1>7, <1>8, <1>9 DEF t

\* A numeral without a leading zero weighs something.
LEMMA WeightPositive ==
    ASSUME NEW base \in Nat \ {0, 1}, NEW s \in Seq(Nat), s # <<>>, s[1] # 0
    PROVE  Weight(s, base) # 0
  <1> DEFINE L == Len(s)
  <1>1. L \in Nat /\ L # 0 /\ \A n \in 1..L: s[n] \in Nat
    BY ElementOfSeq
  <1>2. PICK f \in [0..Len(s) -> Nat]: Weight(s, base) = f[Len(s)] /\ Summing(f, s, base, Len(s))
    BY WeightDefined
  <1>3. f \in [0..L -> Nat] /\ Weight(s, base) = f[L] /\ Summing(f, s, base, L)
    BY <1>2
  <1> HIDE DEF L
  <1> DEFINE T == {n \in Nat: n \in 1..L /\ f[n] = 0}
  <1>5. ASSUME T # {} PROVE FALSE
    <2>1. PICK n \in T: \A x \in T: n <= x
      BY <1>5, LeastNumber
    <2>2. n \in 1..L /\ f[n] = 0 /\ f[n - 1] \in Nat /\ s[n] \in Nat
      BY <1>1, <1>3, <2>1
    <2>3. f[n] = f[n - 1] * base + s[n]
      BY <1>1, <1>3, <2>2 DEF Summing
    <2>4. s[n] = 0 /\ f[n - 1] = 0
      <3> DEFINE x == f[n - 1]
      <3>1. x \in Nat /\ x * base + s[n] = 0
        BY <2>2, <2>3
      <3> HIDE DEF x
      <3>2. x * base >= x
        BY <3>1
      <3>3. x = 0 /\ s[n] = 0
        BY <2>2, <3>1, <3>2
      <3> QED  BY <3>3 DEF x
    <2>5. n # 1
      BY <2>4
    <2>6. n - 1 \in Nat /\ n - 1 \in 1..L /\ ~(n <= n - 1)
      BY <1>1, <2>2, <2>5
    <2> QED  BY <2>1, <2>4, <2>6
  <1>6. L \in 1..L
    BY <1>1
  <1>7. f[L] # 0
    BY <1>1, <1>5, <1>6
  <1> QED  BY <1>3, <1>7

\* Quotient and remainder are unique.
LEMMA Quotient ==
    ASSUME NEW b \in Nat \ {0, 1}, NEW q \in Nat, NEW d \in 0..(b - 1), NEW m, m = q * b + d
    PROVE  m \in Nat /\ m \div b = q /\ m % b = d /\ (m < b <=> q = 0)
  <1> DEFINE x == m \div b
             r == m % b
             p == q * b
  <1>1. p \in Nat /\ m = p + d
    OBVIOUS
  <1>2. m \in Nat
    <2> HIDE DEF p
    <2> QED  BY <1>1
  <1>3. x \in Int /\ r \in 0..(b - 1) /\ m = b * x + r
    BY <1>2
  <1> HIDE DEF x, r
  <1> DEFINE y == q - x
  <1>4. b * y = r - d /\ y \in Int
    <2>1. b * y = b * q - b * x
      BY <1>3
    <2>2. b * q = m - d /\ b * x = m - r
      BY <1>1, <1>2, <1>3
    <2> QED  BY <1>2, <1>3, <2>1, <2>2
  <1> HIDE DEF y
  <1>5. y = 0
    <2>1. ASSUME y >= 1 PROVE FALSE
      <3>1. b * y >= b
        BY <1>4, <2>1
      <3> QED  BY <1>3, <1>4, <3>1
    <2>2. ASSUME y <= -1 PROVE FALSE
      <3>1. b * y <= -b
        BY <1>4, <2>2
      <3> QED  BY <1>3, <1>4, <3>1
    <2> QED  BY <1>4, <2>1, <2>2
  <1>6. q = x /\ d = r
    <2>1. b * y = 0
      BY <1>5
    <2> QED  BY <1>3, <1>4, <1>5, <2>1 DEF y
  <1>7. m < b <=> q = 0
    <2>1. q = 0 => p = 0
      OBVIOUS
    <2>2. q # 0 => p >= b
      OBVIOUS
    <2> HIDE DEF p
    <2> QED  BY <1>1, <2>1, <2>2
  <1> QED  BY <1>2, <1>6, <1>7 DEF x, r

Numerals == {s \in Seq(0..(Base - 1)): s # <<>> /\ (Len(s) > 1 => s[1] # 0)}

\* A numeral without its last digit.
LEMMA NumeralSplits ==
    ASSUME StringsAssumption, NEW s \in Numerals
    PROVE  \E t \in Seq(0..(Base - 1)), d \in 0..(Base - 1):
              /\ s = Append(t, d)
              /\ Weight(s, Base) = Weight(t, Base) * Base + d /\ Weight(t, Base) \in Nat
              /\ IF t = <<>> THEN Weight(t, Base) = 0 ELSE t \in Numerals /\ Weight(t, Base) # 0
  <1> DEFINE D == 0..(Base - 1)
  <1>1. Base \in Nat \ {0, 1} /\ D \subseteq Nat
    BY NumbersAssumed
  <1>2. s \in Seq(D) /\ s # <<>> /\ (Len(s) > 1 => s[1] # 0)
    BY DEF Numerals
  <1>3. PICK t \in Seq(D), d \in D: s = Append(t, d)
    BY <1>2, SequenceEmptyOrAppend
  <1>4. t \in Seq(Nat) /\ d \in Nat
    <2>1. d \in Nat
      BY <1>1
    <2>2. t \in Seq(Nat)
      <3> HIDE DEF D
      <3> QED  BY <1>1, SeqMonotonic
    <2> QED  BY <2>1, <2>2
  <1>5. Weight(s, Base) = Weight(t, Base) * Base + d /\ Weight(t, Base) \in Nat /\ Weight(<<>>, Base) = 0
    <2>1. Base \in Nat
      BY <1>1
    <2> QED  BY <1>3, <1>4, <2>1, WeightAppend
  <1>6. ASSUME t # <<>> PROVE t \in Numerals /\ Weight(t, Base) # 0
    <2>1. Len(t) \in Nat /\ Len(t) # 0 /\ Len(s) = Len(t) + 1 /\ s[1] = t[1]
      <3>1. Len(t) \in Nat /\ Len(t) # 0
        BY <1>4, <1>6
      <3>2. 1 \in 1..Len(t)
        BY <3>1
      <3> QED  BY <1>3, <1>4, <3>1, <3>2, AppendProperties
    <2>2. t[1] # 0
      <3>1. Len(s) > 1
        BY <2>1
      <3> QED  BY <1>2, <2>1, <3>1
    <2> QED  BY <1>1, <1>4, <1>6, <2>2, WeightPositive DEF Numerals
  <1> QED  BY <1>3, <1>5, <1>6

Spells(s, m) ==
    /\ Len(s) = Len(DigitsOf[m])
    /\ \A n \in 1..Len(s): Digit(s[n]) = DigitsOf[m][n]

\* The only numeral of a number is the one its digits spell.
LEMMA NumeralUnique ==
    ASSUME StringsAssumption
    PROVE  \A m \in Magnitude: \A s \in Numerals: Weight(s, Base) = m => Spells(s, m)
  <1> DEFINE D == 0..(Base - 1)
             Q(m) == \A s \in Numerals: Weight(s, Base) = m => Spells(s, m)
             T == {m \in Nat: m \in Magnitude /\ ~Q(m)}
  <1>1. Base \in Nat \ {0, 1}
    BY NumbersAssumed
  <1>2. Magnitude \subseteq Nat
    <2>1. Bits \in Nat
      BY NumbersAssumed
    <2>2. TwoTo[Bits] \in Nat
      BY <2>1, TwoToDefined
    <2> QED  BY <2>2 DEF Magnitude
  <1>3. ASSUME T # {} PROVE FALSE
    <2> HIDE DEF Q
    <2>1. PICK m \in T: \A x \in T: m <= x
      BY <1>3, LeastNumber
    <2>2. m \in Nat /\ m \in Magnitude /\ ~Q(m)
      BY <2>1
    <2>3. PICK s \in Numerals: Weight(s, Base) = m /\ ~Spells(s, m)
      BY <2>2 DEF Q
    <2>4. PICK t \in Seq(D), d \in D:
              /\ s = Append(t, d)
              /\ Weight(s, Base) = Weight(t, Base) * Base + d /\ Weight(t, Base) \in Nat
              /\ IF t = <<>> THEN Weight(t, Base) = 0 ELSE t \in Numerals /\ Weight(t, Base) # 0
      BY NumeralSplits
    <2> DEFINE q == Weight(t, Base)
    <2>5. q \in Nat /\ m = q * Base + d
      BY <2>3, <2>4
    <2> HIDE DEF q
    <2>6. m \div Base = q /\ m % Base = d /\ (m < Base <=> q = 0)
      BY <1>1, <2>5, Quotient
    <2>7. DigitsOf[m] = IF m < Base THEN <<Digit(m)>> ELSE Append(DigitsOf[q], Digit(d))
      BY <2>2, <2>6, DigitsDefined
    <2>8. CASE t = <<>>
      <3>1. q = 0
        BY <2>4, <2>8 DEF q
      <3>2. m = d /\ m < Base
        BY <1>1, <2>5, <2>6, <3>1
      <3>3. DigitsOf[m] = <<Digit(d)>> /\ s = <<d>>
        BY <2>4, <2>7, <2>8, <3>2
      <3> QED  BY <2>3, <3>3 DEF Spells
    <2>9. CASE t # <<>>
      <3>1. q # 0 /\ t \in Numerals
        BY <2>4, <2>9 DEF q
      <3>2. ~(m < Base) /\ m >= Base
        BY <1>1, <2>2, <2>6, <3>1
      <3>3. q \in Magnitude /\ q < m
        <4>1. m \div Base \in Magnitude
          BY <2>2, <3>2, DigitsDefined
        <4>2. m \div Base < m
          BY <1>1, <2>2, <3>2, Division
        <4> QED  BY <2>6, <4>1, <4>2
      <3>4. Spells(t, q)
        <4>1. q \notin T
          BY <2>1, <2>2, <2>5, <3>3
        <4>2. Q(q)
          BY <2>5, <3>3, <4>1
        <4> QED  BY <3>1, <4>2 DEF Q, q
      <3>5. DigitsOf[m] = Append(DigitsOf[q], Digit(d)) /\ DigitsOf[q] \in Seq(Chars \ {Minus})
        BY <2>7, <3>2, <3>3, DigitsDefined
      <3> DEFINE u == DigitsOf[q]
                 C == Chars \ {Minus}
      <3>6. u \in Seq(C) /\ Len(t) = Len(u) /\ \A n \in 1..Len(t): Digit(t[n]) = u[n]
        BY <3>4, <3>5 DEF Spells
      <3> HIDE DEF u, C, D
      <3>7. /\ Len(s) = Len(t) + 1 /\ s[Len(t) + 1] = d /\ \A n \in 1..Len(t): s[n] = t[n]
        BY <2>4, AppendProperties
      <3> DEFINE w == Append(u, Digit(d))
      <3>8. /\ Len(w) = Len(u) + 1 /\ w[Len(u) + 1] = Digit(d) /\ (\A n \in 1..Len(u): w[n] = u[n]) /\ Len(u) \in Nat
        BY <3>6
      <3>9. DigitsOf[m] = w
        BY <3>5 DEF u
      <3> HIDE DEF w
      <3>10. ASSUME NEW n \in 1..Len(s) PROVE Digit(s[n]) = w[n]
        <4>1. n \in 1..Len(t) \/ n = Len(t) + 1
          BY <3>6, <3>7, <3>8
        <4> QED  BY <3>6, <3>7, <3>8, <4>1
      <3>11. Spells(s, m)
        BY <3>6, <3>7, <3>8, <3>9, <3>10 DEF Spells
      <3> QED  BY <2>3, <3>11
    <2> QED  BY <2>8, <2>9
  <1> QED  BY <1>2, <1>3

\* Every number has one, no longer than it is large.
LEMMA NumeralExists ==
    ASSUME StringsAssumption
    PROVE  \A m \in Nat: \E s \in Numerals: Weight(s, Base) = m /\ Len(s) <= m + 1
  <1> DEFINE D == 0..(Base - 1)
             Q(m) == \E s \in Numerals: Weight(s, Base) = m /\ Len(s) <= m + 1
             T == {m \in Nat: ~Q(m)}
  <1>1. Base \in Nat \ {0, 1} /\ D \subseteq Nat
    BY NumbersAssumed
  <1>2. ASSUME T # {} PROVE FALSE
    <2> HIDE DEF Q
    <2>1. PICK m \in T: \A x \in T: m <= x
      BY <1>2, LeastNumber
    <2>2. m \in Nat /\ ~Q(m)
      BY <2>1
    <2> DEFINE q == m \div Base
               d == m % Base
    <2>3. q \in Nat /\ (m >= Base => q < m) /\ d \in D /\ m = Base * q + d
      <3>1. m = Base * q + d
        BY <1>1, <2>2
      <3> QED  BY <1>1, <2>2, <3>1, Division
    <2> HIDE DEF q, d
    <2>4. d \in Nat
      BY <1>1, <2>3
    <2>5. CASE m < Base
      <3>1. q = 0 /\ m = d
        <4>1. q # 0 => Base * q >= Base
          BY <1>1, <2>3
        <4> DEFINE p == Base * q
        <4>2. p \in Nat /\ m = p + d /\ (q = 0 => p = 0)
          BY <1>1, <2>3
        <4> HIDE DEF p
        <4>3. q = 0
          BY <1>1, <2>3, <2>4, <2>5, <4>1, <4>2 DEF p
        <4> QED  BY <2>4, <4>2, <4>3
      <3> DEFINE s == Append(<<>>, m)
      <3>2. s = <<m>> /\ m \in D
        BY <2>3, <3>1
      <3> DEFINE e == <<>>
      <3>3. e \in Seq(Nat) /\ Base \in Nat
        BY <1>1
      <3>4. Weight(s, Base) = Weight(e, Base) * Base + m /\ Weight(e, Base) = 0
        BY <2>2, <3>3, WeightAppend
      <3>5. Weight(s, Base) = m
        BY <1>1, <2>2, <3>4
      <3>6. s \in Numerals /\ Len(s) = 1
        <4> HIDE DEF D
        <4>1. <<m>> \in Seq(D) /\ <<m>> # <<>> /\ Len(<<m>>) = 1
          BY <3>2
        <4> QED  BY <3>2, <4>1 DEF Numerals, D
      <3>7. Len(s) <= m + 1
        <4> HIDE DEF s
        <4> QED  BY <2>2, <3>6
      <3> HIDE DEF s
      <3>8. Q(m)
        BY <3>5, <3>6, <3>7, Zenon DEF Q
      <3> QED  BY <2>2, <3>8
    <2>6. CASE m >= Base
      <3>1. q < m /\ q \in Nat /\ q # 0
        <4>1. q = 0 => Base * q = 0
          BY <1>1
        <4>2. d < Base
          BY <1>1, <2>3
        <4> DEFINE p == Base * q
        <4>3. m = p + d /\ (q = 0 => p = 0)
          BY <2>3, <4>1
        <4> HIDE DEF p
        <4> QED  BY <1>1, <2>2, <2>3, <2>4, <2>6, <4>2, <4>3
      <3>2. ~(m <= q)
        BY <2>2, <3>1
      <3>3. Q(q)
        BY <2>1, <3>1, <3>2
      <3>4. PICK t \in Numerals: Weight(t, Base) = q /\ Len(t) <= q + 1
        BY <3>3 DEF Q
      <3> DEFINE s == Append(t, d)
      <3>5. t \in Seq(D) /\ t # <<>> /\ (Len(t) > 1 => t[1] # 0)
        BY DEF Numerals
      <3>6. t \in Seq(Nat) /\ Base \in Nat
        <4>1. Base \in Nat /\ D \subseteq Nat
          BY <1>1
        <4> HIDE DEF D
        <4> QED  BY <3>5, <4>1, SeqMonotonic
      <3>7. Weight(s, Base) = q * Base + d
        BY <2>4, <3>4, <3>6, WeightAppend
      <3>8. Weight(s, Base) = m
        <4>1. q * Base = Base * q
          BY <1>1, <3>1
        <4> QED  BY <2>3, <3>7, <4>1
      <3>9. t[1] # 0
        <4>1. CASE Len(t) > 1
          BY <3>5, <4>1
        <4>2. CASE ~(Len(t) > 1)
          <5>1. PICK u \in Seq(D), c \in D:
                    /\ t = Append(u, c)
                    /\ Weight(t, Base) = Weight(u, Base) * Base + c /\ Weight(u, Base) \in Nat
                    /\ IF u = <<>> THEN Weight(u, Base) = 0 ELSE u \in Numerals /\ Weight(u, Base) # 0
            BY NumeralSplits
          <5>2. u = <<>> /\ t[1] = c
            <6> HIDE DEF D
            <6>1. Len(t) = Len(u) + 1 /\ Len(u) \in Nat /\ t[Len(u) + 1] = c /\ (Len(u) = 0 => u = <<>>)
              BY <5>1, AppendProperties
            <6> QED  BY <4>2, <6>1
          <5>3. q = c
            BY <1>1, <3>4, <5>1, <5>2
          <5> QED  BY <3>1, <5>2, <5>3
        <4> QED  BY <4>1, <4>2
      <3> HIDE DEF D
      <3>10. s \in Seq(D) /\ s # <<>> /\ Len(s) = Len(t) + 1 /\ s[1] = t[1] /\ Len(t) \in Nat
        <4>1. Len(t) \in Nat /\ Len(t) # 0
          BY <3>5
        <4>2. 1 \in 1..Len(t)
          BY <4>1
        <4> QED  BY <2>3, <3>5, <4>1, <4>2, AppendProperties
      <3> HIDE DEF s
      <3>11. s \in Numerals /\ Len(s) <= m + 1
        <4>1. Len(s) <= m + 1
          BY <2>2, <3>1, <3>4, <3>10
        <4> QED  BY <3>9, <3>10, <4>1 DEF Numerals, D
      <3>12. Q(m)
        BY <3>8, <3>11 DEF Q
      <3> QED  BY <2>2, <3>12
    <2> QED  BY <1>1, <2>2, <2>5, <2>6
  <1> QED  BY <1>2

\* A number's digits are its numeral.
LEMMA NumeralIs ==
    ASSUME StringsAssumption, NEW m \in Magnitude
    PROVE  [n \in DOMAIN Numeral(m, Base) |-> Digit(Numeral(m, Base)[n])] = DigitsOf[m]
  <1> DEFINE D == 0..(Base - 1)
             U == UNION {[1..n -> 0..(Base - 1)]: n \in 1..(m + 1)}
             s == Numeral(m, Base)
  <1>1. m \in Nat
    <2>1. Bits \in Nat
      BY NumbersAssumed
    <2>2. TwoTo[Bits] \in Nat
      BY <2>1, TwoToDefined
    <2> QED  BY <2>2 DEF Magnitude
  <1>2. PICK t \in Numerals: Weight(t, Base) = m /\ Len(t) <= m + 1
    BY <1>1, NumeralExists
  <1>3. t \in U /\ (Len(t) > 1 => t[1] # 0)
    <2>1. t \in Seq(D) /\ t # <<>> /\ (Len(t) > 1 => t[1] # 0)
      BY DEF Numerals
    <2> HIDE DEF D
    <2>2. Len(t) \in Nat /\ Len(t) # 0 /\ t \in [1..Len(t) -> D]
      BY <2>1
    <2>3. Len(t) \in 1..(m + 1)
      BY <1>1, <1>2, <2>2
    <2> QED  BY <2>1, <2>2, <2>3 DEF D
  <1>4. s \in U /\ Weight(s, Base) = m /\ (Len(s) > 1 => s[1] # 0)
    <2>1. s = CHOOSE x \in U: Weight(x, Base) = m /\ (Len(x) > 1 => x[1] # 0)
      BY Zenon DEF Numeral
    <2> HIDE DEF U, s
    <2> QED  BY <1>2, <1>3, <2>1, Zenon
  <1> HIDE DEF s
  <1>5. s \in Numerals
    <2>1. PICK n \in 1..(m + 1): s \in [1..n -> D]
      BY <1>4
    <2> HIDE DEF D
    <2>2. s \in Seq(D) /\ Len(s) = n /\ n >= 1
      BY <1>1, <2>1
    <2>3. s # <<>>
      BY <2>2
    <2> QED  BY <1>4, <2>2, <2>3 DEF Numerals, D
  <1>6. Spells(s, m)
    BY <1>4, <1>5, NumeralUnique
  <1>7. DOMAIN s = 1..Len(s)
    <2>1. s \in Seq(D)
      BY <1>5 DEF Numerals
    <2> HIDE DEF D
    <2> QED  BY <2>1
  <1> DEFINE u == DigitsOf[m]
             C == Chars \ {Minus}
  <1>8. u \in Seq(C) /\ Len(s) = Len(u) /\ \A n \in 1..Len(s): Digit(s[n]) = u[n]
    BY <1>6, DigitsDefined DEF Spells
  <1> HIDE DEF u, C
  <1>9. u = [n \in 1..Len(u) |-> u[n]]
    BY <1>8
  <1>10. [n \in DOMAIN s |-> Digit(s[n])] = u
    BY <1>7, <1>8, <1>9
  <1> QED  BY <1>10 DEF s, u

\* plcc_i64_to_str writes the value's numeral, with its sign.
LEMMA WrittenIs ==
    ASSUME StringsAssumption, NEW j \in Conversions
    PROVE  NumberText(j.v, j.unsigned) = Written(j)
  <1> DEFINE Top == TwoTo[Bits]
             half == TwoTo[Bits - 1]
             v == j.v
             numeral(m) == [n \in DOMAIN Numeral(m, Base) |-> Digit(Numeral(m, Base)[n])]
             signed == v - (IF v >= half THEN Top ELSE 0)
  <1>1. v \in Magnitude /\ j.unsigned \in BOOLEAN
    BY Zenon DEF Conversions
  <1>2. Top \in Nat \ {0} /\ half \in Nat \ {0} /\ Top = 2 * half
    <2>1. Bits \in Nat \ {0}
      BY NumbersAssumed
    <2>2. Bits \in 1..Bits /\ Bits \in 0..Bits /\ Bits - 1 \in 0..Bits
      BY <2>1
    <2> QED  BY <2>2, TwoToDefined
  <1>3. Magnitude = 0..(Top - 1)
    BY DEF Magnitude
  <1>4. Written(j) = IF j.unsigned \/ signed >= 0 THEN numeral(v) ELSE <<Minus>> \o numeral(-signed)
    BY Zenon DEF Written
  <1>5. NumberText(v, j.unsigned) =
            IF Negative(v, j.unsigned) THEN <<Minus>> \o DigitsOf[Top - v] ELSE DigitsOf[v]
    BY Zenon DEF NumberText
  <1>6. Negative(v, j.unsigned) <=> ~j.unsigned /\ v >= half
    BY Zenon DEF Negative
  <1>7. \A m \in Magnitude: numeral(m) = DigitsOf[m]
    BY NumeralIs
  <1> HIDE DEF Top, half, v, numeral
  <1>8. signed >= 0 <=> ~(v >= half)
    BY <1>1, <1>2, <1>3
  <1>9. v >= half => -signed = Top - v /\ Top - v \in Magnitude
    BY <1>1, <1>2, <1>3
  <1> HIDE DEF signed
  <1>10. NumberText(v, j.unsigned) = Written(j)
    <2>1. CASE Negative(v, j.unsigned)
      BY <1>4, <1>5, <1>6, <1>7, <1>8, <1>9, <2>1
    <2>2. CASE ~Negative(v, j.unsigned)
      BY <1>1, <1>4, <1>5, <1>6, <1>7, <1>8, <2>2
    <2> QED  BY <2>1, <2>2
  <1> QED  BY <1>10 DEF v

\* A number is written whole before it is copied.
LEMMA AssignNumberMeans ==
    ASSUME StringsAssumption, StringsInv, NEW v \in Vars, NEW j \in Conversions, AssignNumber(v, j)
    PROVE  MeansInv'
  <1> DEFINE s == NumberText(j.v, j.unsigned)
             R == Bits + 2
             t == [n \in 0..(R - 1) |-> IF n < Len(s) THEN s[n + 1] ELSE IF n = Len(s) THEN NUL ELSE Junk]
             last == StrLcpy(v, Size[v], "temp")
  <1>1. dest = "none" /\ segs = <<>>
    BY Zenon DEF StringsInv, JobInv, AssignNumber
  <1>2. MemInv /\ dest \notin Vars
    BY <1>1, Names DEF StringsInv
  <1>3. j.op = "NUMBER" /\ j.v \in Magnitude /\ j.unsigned \in BOOLEAN
    BY Zenon DEF Conversions
  <1>4. s \in Seq(Chars) /\ Len(s) \in 1..(Bits + 1) /\ Bits \in Nat /\ R <= MaxBytes
    <2>1. Bits \in Nat /\ R <= MaxBytes
      BY NumbersAssumed
    <2> QED  BY <1>3, <2>1, NumberFits, Zenon
  <1>5. ResultBytes(j) = R /\ HelperCalls(j) = <<>>
    BY <1>3 DEF ResultBytes, HelperCalls
  <1>6. /\ mem' = [mem EXCEPT !["temp"] = t]
        /\ calls' = Append(<<>>, last) /\ job' = [op |-> j.op, to |-> v, means |-> Written(j), astray |-> FALSE]
        /\ UNCHANGED <<dest, room, segs, i, k, loop>>
    BY <1>5, Zenon DEF AssignNumber
  <1>7. job'.means = s
    BY <1>6, WrittenIs
  <1> HIDE DEF s
  <1>8. last.loops = <<Whole("temp")>>
    BY Zenon DEF StrLcpy, Call
  <1> HIDE DEF last
  <1>9. calls' = <<last>> /\ Len(calls') = 1 /\ DOMAIN calls' = {1} /\ calls'[1] = last
    BY <1>6
  <1>10. Len(last.loops) <= 3
    <2>1. Len(<<Whole("temp")>>) <= 3
      OBVIOUS
    <2> QED  BY <1>8, <2>1, Zenon
  <1>11. R \in Nat \ {0} /\ Len(s) \in 0..(R - 1) /\ Len(s) < MaxBytes
    BY <1>4 DEF MaxBytes
  <1>12. Text(t) = s /\ DOMAIN t = 0..(R - 1)
    <2>1. DOMAIN t = 0..(R - 1) /\ t[Len(s)] = NUL
      BY <1>11
    <2>2. ASSUME NEW n \in 0..(Len(s) - 1) PROVE t[n] = s[n + 1] /\ t[n] \in Chars
      <3>1. n \in 0..(R - 1) /\ n < Len(s) /\ n + 1 \in 1..Len(s)
        BY <1>11
      <3>2. t[n] = s[n + 1]
        BY <3>1
      <3> QED  BY <1>4, <3>1, <3>2, ElementOfSeq
    <2> HIDE DEF t
    <2>3. StrLen(t) = Len(s)
      <3>1. CleanTo(t, Len(s))
        BY <1>11, <2>1, <2>2, Zenon DEF CleanTo
      <3>2. R \in Nat
        BY <1>11
      <3> QED  BY <2>1, <3>1, <3>2, CleanEnds
    <2>4. \A n \in 1..Len(s): t[n - 1] = s[n]
      <3> TAKE n \in 1..Len(s)
      <3>1. n - 1 \in 0..(Len(s) - 1) /\ (n - 1) + 1 = n
        BY <1>11
      <3>2. t[n - 1] = s[(n - 1) + 1]
        BY <2>2, <3>1
      <3> QED  BY <3>1, <3>2
    <2>5. s = [n \in 1..Len(s) |-> s[n]]
      BY <1>4
    <2>6. [n \in 1..Len(s) |-> t[n - 1]] = [n \in 1..Len(s) |-> s[n]]
      BY <2>4
    <2> QED  BY <2>1, <2>3, <2>5, <2>6 DEF Text
  <1> HIDE DEF t
  <1>13. mem'["temp"] = t
    BY <1>1, <1>2, <1>6, TempChanges
  <1>14. ShortInv'
    <2>1. Len(segs') <= 3 /\ Len(calls') <= 3
      BY <1>1, <1>6, <1>9
    <2>2. Len(s) \in DOMAIN mem'["temp"]
      BY <1>11, <1>12, <1>13
    <2>3. \A n \in DOMAIN calls': Len(calls'[n].loops) <= 3
      BY <1>9, <1>10
    <2> QED  BY <1>4, <1>7, <1>11, <2>1, <2>2, <2>3, Zenon DEF ShortInv
  <1>15. BuiltInv'
    <2>1. dest' = "none" /\ dest' # "temp" /\ ~(Len(calls') > 1)
      BY <1>1, <1>6, <1>9
    <2>2. Text(mem'["temp"]) = job'.means
      BY <1>7, <1>12, <1>13
    <2> QED  BY <2>1, <2>2, Zenon DEF BuiltInv
  <1>16. StoredInv'
    BY <1>1, <1>6 DEF StoredInv
  <1> QED  BY <1>14, <1>15, <1>16 DEF MeansInv

-----------------------------------------------------------------------------
LEMMA MeansStart ==
    ASSUME Init
    PROVE  MeansInv
  BY DEF Init, MeansInv

\* Asking and answering involve no statement that builds a text.
LEMMA QueryMeans ==
    ASSUME StringsAssumption, StringsInv, (\E q \in Queries: Ask(q)) \/ Query
    PROVE  MeansInv' /\ EndsMeant
  <1>1. ASSUME NEW q \in Queries, Ask(q) PROVE MeansInv' /\ EndsMeant
    <2>1. job = Idle /\ (job' = job \/ loop' = IF q.op = "FIND" THEN "outer" ELSE "compare")
      BY <1>1, Zenon DEF Ask
    <2>2. job' = Idle \/ loop' # "none"
      BY <2>1
    <2> QED  BY <2>1, <2>2, Zenon DEF MeansInv, EndsMeant, StatementEnds
  <1>2. CASE Query
    <2>1. loop # "none"
      BY <1>2 DEF Query, FindOuter, FindInner, CompareByte
    <2>2. StringsInv' => (job' = Idle \/ loop' # "none")
      <3>1. CASE \E x: Answered(x)
        BY <3>1, Zenon DEF Answered
      <3>2. CASE loop' = loop \/ loop' \in {"outer", "inner"}
        BY <2>1, <3>2
      <3>3. FindOuter => (\E x: Answered(x)) \/ loop' = "inner"
        BY Zenon DEF FindOuter
      <3>4. FindInner => (\E x: Answered(x)) \/ loop' = loop \/ loop' = "outer"
        BY Zenon DEF FindInner
      <3>5. CompareByte => (\E x: Answered(x)) \/ loop' = loop
        BY Zenon DEF CompareByte
      <3> QED  BY <1>2, <3>1, <3>2, <3>3, <3>4, <3>5 DEF Query
    <2>3. StringsInv'
      BY <1>2, FindOuterKeeps, FindInnerKeeps, CompareKeeps, Zenon DEF Query
    <2> QED  BY <2>1, <2>2, <2>3, Zenon DEF MeansInv, EndsMeant, StatementEnds
  <1> QED  BY <1>1, <1>2, Zenon

\* The second invariant is inductive, and what a statement's end owes follows.
LEMMA MeansKept ==
    ASSUME StringsAssumption, StringsInv, MeansInv, ~AstrayBegins, [Next]_vars
    PROVE  MeansInv' /\ (EndsMeant \/ UNCHANGED vars)
  <1>1. CASE Statement
    <2>1. PICK v \in Vars: \/ StoreLiteral(v)
                           \/ \E w \in Vars: CopyVariable(v, w)
                           \/ \E j \in Builtins: AssignBuiltin(v, j)
                           \/ \E j \in Conversions: AssignNumber(v, j)
      BY <1>1, Zenon DEF Statement
    <2>2. job = Idle
      BY <2>1, Zenon DEF StoreLiteral, CopyVariable, AssignBuiltin, AssignNumber
    <2>3. CASE StoreLiteral(v) \/ \E w \in Vars: CopyVariable(v, w)
      <3>1. job' = Idle
        BY <2>2, <2>3, Zenon DEF StoreLiteral, CopyVariable
      <3> QED  BY <2>2, <3>1, Zenon DEF MeansInv, EndsMeant, StatementEnds
    <2>4. EndsMeant
      BY <2>2, Zenon DEF EndsMeant, StatementEnds
    <2> QED  BY <2>1, <2>3, <2>4, AssignBuiltinMeans, AssignNumberMeans, Zenon DEF AstrayBegins
  <1>2. CASE Helper
    <2>1. CASE CallEnds
      BY <2>1, CallMeans
    <2>2. CASE StartCall \/ CopyByte \/ LoopEnds
      <3>1. job' = job
        BY <2>2, Zenon DEF StartCall, CopyByte, LoopEnds
      <3>2. EndsMeant
        BY <3>1, Zenon DEF EndsMeant, StatementEnds
      <3> QED  BY <2>2, <3>2, StartMeans, CopyMeans, EndMeans, Zenon
    <2> QED  BY <1>2, <2>1, <2>2, Zenon DEF Helper
  <1>3. CASE (\E q \in Queries: Ask(q)) \/ Query
    BY <1>3, QueryMeans, Zenon
  <1>4. CASE UNCHANGED vars
    <2>1. UNCHANGED <<mem, job, calls, dest, room, segs, i, k, loop, answer>>
      BY <1>4, Zenon DEF vars
    <2>2. PieceText(Loop, mem, i)' = PieceText(Loop, mem, i) /\ LoopsText(Tail(segs), mem)' = LoopsText(Tail(segs), mem)
      BY <2>1 DEF PieceText, LoopsText, Piece, Loop
    <2>3. Ahead' = Ahead /\ SoFar' = SoFar
      BY <2>1, <2>2 DEF Ahead, SoFar
    <2>4. CallsText(calls, mem)' = CallsText(calls, mem)
      BY <2>1, Zenon
    <2>5. MeansInv'
      BY <2>1, <2>3, <2>4 DEF MeansInv, ShortInv, BuiltInv, StoredInv
    <2> QED  BY <1>4, <2>5
  <1> QED  BY <1>1, <1>2, <1>3, <1>4, Zenon DEF Next

-----------------------------------------------------------------------------
(***************************************************************************)
(* Queries: what LEN, FIND, the comparison and STRING_TO answer.  The      *)
(* third invariant says what a search has ruled out so far, and how far    *)
(* two texts were found alike.                                             *)
(***************************************************************************)
\* Two texts that begin alike.
Alike(s, t, n) == n <= Len(s) /\ n <= Len(t) /\ \A x \in 1..n: s[x] = t[x]

\* An element of a prefix.
LEMMA PrefixElement ==
    ASSUME NEW S, NEW s \in Seq(S), NEW n \in 0..Len(s), NEW x \in 1..n
    PROVE  SubSeq(s, 1, n)[x] = s[x] /\ Len(SubSeq(s, 1, n)) = n
  <1>1. n \in Nat /\ x \in 1..Len(SubSeq(s, 1, n))
    BY SubSeqProperties
  <1> QED  BY <1>1, SubSeqProperties

\* The first n elements are the same exactly when each is.
LEMMA PrefixesSame ==
    ASSUME NEW S, NEW s \in Seq(S), NEW t \in Seq(S), NEW n \in Nat, Alike(s, t, n)
    PROVE  SubSeq(s, 1, n) = SubSeq(t, 1, n)
  <1> DEFINE u == SubSeq(s, 1, n)
             v == SubSeq(t, 1, n)
  <1>1. n \in 0..Len(s) /\ n \in 0..Len(t) /\ \A x \in 1..n: s[x] = t[x]
    BY DEF Alike
  <1>2. u \in Seq(S) /\ v \in Seq(S) /\ Len(u) = n /\ Len(v) = n
    BY <1>1, SubSeqProperties
  <1>3. \A x \in 1..n: u[x] = s[x] /\ v[x] = t[x]
    BY <1>1, PrefixElement
  <1> HIDE DEF u, v
  <1>4. \A x \in 1..n: u[x] = v[x]
    BY <1>1, <1>3
  <1>5. u = v
    BY <1>2, <1>4, SeqEqual
  <1> QED  BY <1>5 DEF u, v

\* The first difference decides, the end of a text first.
LEMMA FirstDifference ==
    ASSUME NEW s \in Seq(Chars), NEW t \in Seq(Chars), NEW n \in Nat, Alike(s, t, n), Base \in Nat
    PROVE  /\ n < Len(s) /\ n < Len(t) /\ s[n + 1] < t[n + 1] => Order(s, t) = -1
           /\ n < Len(s) /\ n < Len(t) /\ s[n + 1] > t[n + 1] => Order(s, t) = 1
           /\ n = Len(s) /\ n < Len(t) => Order(s, t) = -1
           /\ n < Len(s) /\ n = Len(t) => Order(s, t) = 1
           /\ n = Len(s) /\ n = Len(t) => Order(s, t) = 0
  <1>1. /\ Len(s) \in Nat /\ Len(t) \in Nat /\ n <= Len(s) /\ n <= Len(t)
        /\ \A x \in 1..n: s[x] = t[x]
    BY DEF Alike
  <1>2. Chars \subseteq Int
    BY DEF Chars
  <1>3. (\A x \in 1..Len(s): s[x] \in Int) /\ (\A x \in 1..Len(t): t[x] \in Int)
    BY <1>2, ElementOfSeq
  <1>4. SubSeq(s, 1, n) = SubSeq(t, 1, n)
    BY PrefixesSame
  <1>5. ASSUME n < Len(s), n < Len(t), s[n + 1] < t[n + 1] PROVE Order(s, t) = -1
    <2>1. n + 1 \in 1..Lowest(Len(s), Len(t)) /\ (n + 1) - 1 = n
      BY <1>1, <1>5 DEF Lowest
    <2>2. Before(s, t)
      BY <1>4, <1>5, <2>1, Zenon DEF Before
    <2>3. s # t
      <3>1. n + 1 \in 1..Len(s)
        BY <1>1, <1>5
      <3> QED  BY <1>3, <1>5, <3>1
    <2> QED  BY <2>2, <2>3 DEF Order
  <1>6. ASSUME n < Len(s), n < Len(t), s[n + 1] > t[n + 1] PROVE Order(s, t) = 1
    <2>1. n + 1 \in 1..Len(s) /\ n + 1 \in 1..Len(t)
      BY <1>1, <1>6
    <2>2. s # t /\ s[n + 1] # t[n + 1]
      BY <1>3, <1>6, <2>1
    <2>3. ASSUME NEW m \in 1..Lowest(Len(s), Len(t)), s[m] < t[m], SubSeq(s, 1, m - 1) = SubSeq(t, 1, m - 1)
          PROVE FALSE
      <3>1. m \in 1..Len(s) /\ m \in 1..Len(t) /\ m - 1 \in 0..Len(s) /\ m - 1 \in 0..Len(t)
        BY <1>1 DEF Lowest
      <3>2. s[m] # t[m]
        BY <1>3, <2>3, <3>1
      <3>3. ~(m <= n) /\ m # n + 1
        BY <1>1, <1>3, <1>6, <2>1, <2>3, <3>1, <3>2
      <3>4. n + 1 \in 1..(m - 1)
        BY <1>1, <3>1, <3>3
      <3>5. SubSeq(s, 1, m - 1)[n + 1] = s[n + 1] /\ SubSeq(t, 1, m - 1)[n + 1] = t[n + 1]
        BY <3>1, <3>4, PrefixElement
      <3> QED  BY <2>2, <2>3, <3>5
    <2>4. ASSUME Len(s) < Len(t), SubSeq(t, 1, Len(s)) = s PROVE FALSE
      <3>1. Len(s) \in 0..Len(t)
        BY <1>1, <2>4
      <3>2. SubSeq(t, 1, Len(s))[n + 1] = t[n + 1]
        BY <2>1, <3>1, PrefixElement
      <3> QED  BY <2>2, <2>4, <3>2
    <2>5. ~Before(s, t)
      BY <2>3, <2>4, Zenon DEF Before
    <2> QED  BY <2>2, <2>5 DEF Order
  <1>7. ASSUME n = Len(s), n < Len(t) PROVE Order(s, t) = -1
    <2>1. SubSeq(t, 1, Len(s)) = s
      BY <1>1, <1>4, <1>7, SubSeqFull
    <2>2. Before(s, t)
      BY <1>7, <2>1, Zenon DEF Before
    <2>3. s # t
      BY <1>1, <1>7
    <2> QED  BY <2>2, <2>3 DEF Order
  <1>8. ASSUME n < Len(s), n = Len(t) PROVE Order(s, t) = 1
    <2>1. ASSUME NEW m \in 1..Lowest(Len(s), Len(t)) PROVE ~(s[m] < t[m])
      <3>1. m \in 1..n /\ m \in 1..Len(s)
        BY <1>1, <1>8 DEF Lowest
      <3> QED  BY <1>1, <1>3, <3>1
    <2>2. ~(Len(s) < Len(t)) /\ s # t
      BY <1>1, <1>8
    <2>3. ~Before(s, t)
      BY <2>1, <2>2, Zenon DEF Before
    <2> QED  BY <2>2, <2>3 DEF Order
  <1>9. ASSUME n = Len(s), n = Len(t) PROVE Order(s, t) = 0
    <2>1. s = t
      BY <1>1, <1>9, SeqEqual
    <2> QED  BY <2>1 DEF Order
  <1> QED  BY <1>5, <1>6, <1>7, <1>8, <1>9

\* An occurrence, position by position.
LEMMA OccursIs ==
    ASSUME NEW s \in Seq(Chars), NEW t \in Seq(Chars), NEW p \in 1..(Len(s) + 1)
    PROVE  OccursAt(s, t, p) <=> /\ p + Len(t) - 1 <= Len(s)
                                 /\ \A n \in 1..Len(t): s[p + n - 1] = t[n]
  <1> DEFINE m == Len(t)
             u == SubSeq(s, p, p + m - 1)
  <1>1. m \in Nat /\ p \in Nat /\ p >= 1 /\ Len(s) \in Nat /\ t \in Seq(Chars) /\ m = Len(t)
    OBVIOUS
  <1> HIDE DEF m
  <1>2. ASSUME p + m - 1 <= Len(s) PROVE u = t <=> \A n \in 1..m: s[p + n - 1] = t[n]
    <2>1. \A x \in p..(p + m - 1): s[x] \in Chars
      <3> TAKE x \in p..(p + m - 1)
      <3>1. x \in 1..Len(s)
        BY <1>1, <1>2
      <3> QED  BY <3>1, ElementOfSeq
    <2>2. p \in Int /\ p + m - 1 \in Int
      BY <1>1
    <2>3. /\ u \in Seq(Chars)
          /\ Len(u) = (IF p <= p + m - 1 THEN (p + m - 1) - p + 1 ELSE 0)
          /\ \A n \in 1..((p + m - 1) - p + 1): u[n] = s[p + n - 1]
      BY <2>1, <2>2, SubSeqProperties
    <2> HIDE DEF u
    <2>4. Len(u) = m /\ \A n \in 1..m: u[n] = s[p + n - 1]
      BY <1>1, <2>3
    <2>5. ASSUME \A n \in 1..m: s[p + n - 1] = t[n] PROVE u = t
      <3>1. \A n \in 1..Len(u): u[n] = t[n]
        BY <2>4, <2>5
      <3> QED  BY <1>1, <2>3, <2>4, <3>1, SeqEqual
    <2> QED  BY <2>4, <2>5
  <1>3. OccursAt(s, t, p) <=> p + m - 1 <= Len(s) /\ u = t
    BY DEF OccursAt, m
  <1> QED  BY <1>2, <1>3 DEF m

\* The first occurrence is the one found,
LEMMA FindFirst ==
    ASSUME NEW s \in Seq(Chars), NEW t, NEW p \in 1..Len(s), OccursAt(s, t, p),
           \A q \in 1..(p - 1): ~OccursAt(s, t, q)
    PROVE  Find(s, t) = p
  <1> DEFINE P(x) == OccursAt(s, t, x) /\ \A q \in 1..(x - 1): ~OccursAt(s, t, q)
             f == CHOOSE x \in 1..Len(s): P(x)
  <1>1. Find(s, t) = f
    BY Zenon DEF Find
  <1>2. P(p)
    OBVIOUS
  <1> HIDE DEF P
  <1>3. f \in 1..Len(s) /\ P(f)
    BY <1>2, Zenon
  <1> HIDE DEF f
  <1>4. \A x \in 1..Len(s): P(x) => x = p
    <2> TAKE x \in 1..Len(s)
    <2>1. CASE x < p
      <3>1. x \in 1..(p - 1)
        BY <2>1
      <3> QED  BY <3>1 DEF P
    <2>2. CASE p < x
      <3>1. p \in 1..(x - 1)
        BY <2>2
      <3> QED  BY <3>1 DEF P
    <2>3. x \in Int /\ p \in Int
      OBVIOUS
    <2> QED  BY <2>1, <2>2, <2>3
  <1> QED  BY <1>1, <1>3, <1>4

\* and none is 0.
LEMMA FindNone ==
    ASSUME NEW s, NEW t, \A q \in 1..Len(s): ~OccursAt(s, t, q)
    PROVE  Find(s, t) = 0
  BY Zenon DEF Find
\* The value plcc_str_to_i64 finds in digits is what they weigh.
LEMMA DigitsValue ==
    ASSUME StringsAssumption, NEW m \in Magnitude
    PROVE  DigitsFrom(DigitsOf[m]) = m
  <1> DEFINE s == DigitsOf[m]
             L == Len(s)
             V(f) == f = [n \in 0..L |-> IF n = 0 THEN 0
                                         ELSE IF \A x \in 1..n: IsDigit(s[x]) THEN f[n - 1] * Base + s[n] - 2
                                         ELSE f[n - 1]]
  <1>1. Base \in Nat \ {0, 1} /\ m \in Nat
    <2>1. Bits \in Nat /\ Base \in Nat \ {0, 1}
      BY NumbersAssumed
    <2>2. TwoTo[Bits] \in Nat
      BY <2>1, TwoToDefined
    <2> QED  BY <2>1, <2>2 DEF Magnitude
  <1>2. PICK t \in Numerals: Weight(t, Base) = m /\ Len(t) <= m + 1
    BY <1>1, NumeralExists
  <1>3. Len(t) = L /\ \A n \in 1..L: Digit(t[n]) = s[n]
    <2>1. Spells(t, m)
      BY <1>2, NumeralUnique
    <2> QED  BY <2>1 DEF Spells
  <1>4. t \in Seq(Nat) /\ L \in Nat /\ \A n \in 1..L: t[n] \in 0..(Base - 1)
    <2> DEFINE D == 0..(Base - 1)
    <2>1. t \in Seq(D) /\ D \subseteq Nat
      BY <1>1 DEF Numerals
    <2> HIDE DEF D
    <2>2. Len(t) \in Nat /\ \A n \in 1..Len(t): t[n] \in D
      BY <2>1
    <2>3. t \in Seq(Nat)
      BY <2>1, SeqMonotonic
    <2> QED  BY <1>3, <2>2, <2>3 DEF D
  <1> HIDE DEF s, L
  <1>5. \A n \in 1..L: IsDigit(s[n]) /\ s[n] - 2 = t[n]
    <2> TAKE n \in 1..L
    <2>1. t[n] \in 0..(Base - 1) /\ s[n] = t[n] + 2
      BY <1>3, <1>4 DEF Digit
    <2> QED  BY <1>1, <2>1 DEF IsDigit, Digit
  <1>6. PICK f \in [0..L -> Nat]: m = f[L] /\ Summing(f, t, Base, L)
    <2>1. \E f \in [0..Len(t) -> Nat]: Weight(t, Base) = f[Len(t)] /\ Summing(f, t, Base, Len(t))
      BY <1>1, <1>4, WeightDefined
    <2> QED  BY <1>2, <1>3, <2>1, Zenon
  <1>7. \A n \in 1..L: \A x \in 1..n: IsDigit(s[x])
    BY <1>4, <1>5
  <1>8. V(f)
    <2>1. ASSUME NEW n \in 0..L
          PROVE  f[n] = IF n = 0 THEN 0
                        ELSE IF \A x \in 1..n: IsDigit(s[x]) THEN f[n - 1] * Base + s[n] - 2
                        ELSE f[n - 1]
      <3>1. CASE n = 0
        BY <1>6, <2>1, <3>1 DEF Summing
      <3>2. CASE n # 0
        <4>1. n \in 1..L /\ n - 1 \in 0..L
          BY <1>4, <3>2
        <4>2. f[n] = f[n - 1] * Base + t[n]
          BY <1>6, <3>2 DEF Summing
        <4> DEFINE w == f[n - 1] * Base
        <4>3. w \in Nat
          BY <1>1, <1>6, <4>1
        <4> HIDE DEF w
        <4>4. s[n] - 2 = t[n] /\ s[n] = t[n] + 2 /\ t[n] \in Nat
          BY <1>3, <1>4, <1>5, <4>1 DEF Digit
        <4>5. w + s[n] - 2 = w + t[n]
          BY <4>3, <4>4
        <4>6. \A x \in 1..n: IsDigit(s[x])
          BY <1>7, <4>1
        <4> QED  BY <3>2, <4>2, <4>5, <4>6 DEF w
      <3> QED  BY <3>1, <3>2
    <2> QED  BY <1>6, <2>1
  <1>9. DigitsFrom(s) = (CHOOSE g: V(g))[L]
    BY Zenon DEF DigitsFrom, L
  <1> DEFINE g == CHOOSE h: V(h)
  <1>10. V(g)
    <2> HIDE DEF V
    <2> QED  BY <1>8, Zenon
  <1> HIDE DEF g
  <1>11. Summing(g, t, Base, L)
    <2>1. ASSUME NEW n \in 0..L PROVE g[n] = IF n = 0 THEN 0 ELSE g[n - 1] * Base + t[n]
      <3>1. g[n] = IF n = 0 THEN 0
                   ELSE IF \A x \in 1..n: IsDigit(s[x]) THEN g[n - 1] * Base + s[n] - 2
                   ELSE g[n - 1]
        BY <1>10, <2>1, Zenon
      <3>2. CASE n = 0
        BY <3>1, <3>2
      <3>3. CASE n # 0
        <4>1. n \in 1..L
          BY <1>4, <3>3
        <4>2. \A x \in 1..n: IsDigit(s[x])
          BY <1>7, <4>1
        <4>3. g[n] = g[n - 1] * Base + s[n] - 2
          BY <3>1, <3>3, <4>2
        <4>4. s[n] = t[n] + 2 /\ t[n] \in Nat
          BY <1>3, <1>4, <4>1 DEF Digit
        <4> QED  BY <3>3, <4>3, <4>4
      <3> QED  BY <3>2, <3>3
    <2> QED  BY <2>1 DEF Summing
  <1>12. g[L] = f[L]
    BY <1>4, <1>6, <1>11, SumsAgree, Zenon
  <1> QED  BY <1>6, <1>9, <1>12 DEF g, s

\* Going round once more does not change a remainder.
LEMMA Round ==
    ASSUME NEW b \in Nat \ {0}, NEW v \in 0..(b - 1)
    PROVE  v % b = v /\ (v - b) % b = v
  <1>1. v % b = v
    OBVIOUS
  <1>2. (v - b) % b = v
    <2> DEFINE q == (v - b) \div b
               r == (v - b) % b
    <2>1. q \in Int /\ r \in 0..(b - 1) /\ v - b = b * q + r
      OBVIOUS
    <2> HIDE DEF q, r
    <2>2. q = -1
      <3>1. ASSUME q >= 0 PROVE FALSE
        <4>1. b * q >= 0
          BY <3>1, <2>1
        <4> QED  BY <2>1, <4>1
      <3>2. ASSUME q <= -2 PROVE FALSE
        <4>1. b * q <= -(2 * b)
          BY <3>2, <2>1
        <4> QED  BY <2>1, <4>1
      <3> QED  BY <2>1, <3>1, <3>2
    <2>3. b * q = -b
      BY <2>2
    <2>4. r = v
      BY <2>1, <2>3
    <2> QED  BY <2>4 DEF r
  <1> QED  BY <1>1, <1>2

\* A number written is the number read.
LEMMA ReadsWritten ==
    ASSUME StringsAssumption, NEW j \in Conversions
    PROVE  NumberIn(Written(j)) = j.v
  <1> DEFINE Top == TwoTo[Bits]
             half == TwoTo[Bits - 1]
             v == j.v
  <1>1. v \in Magnitude /\ j.unsigned \in BOOLEAN
    BY Zenon DEF Conversions
  <1>2. Top \in Nat \ {0} /\ half \in Nat \ {0} /\ Top = 2 * half
    <2>1. Bits \in Nat \ {0}
      BY NumbersAssumed
    <2>2. Bits \in 1..Bits /\ Bits \in 0..Bits /\ Bits - 1 \in 0..Bits
      BY <2>1
    <2> QED  BY <2>2, TwoToDefined
  <1>3. Magnitude = 0..(Top - 1)
    BY DEF Magnitude
  <1>4. Written(j) = IF Negative(v, j.unsigned) THEN <<Minus>> \o DigitsOf[Top - v] ELSE DigitsOf[v]
    BY WrittenIs, Zenon DEF NumberText
  <1>5. Negative(v, j.unsigned) => v >= half
    BY Zenon DEF Negative
  <1>6. \A x: Wrapped(x) = x % Top
    BY DEF Wrapped
  <1> HIDE DEF Top, half, v
  <1>7. NumberIn(Written(j)) = v
    <2>1. CASE ~Negative(v, j.unsigned)
      <3> DEFINE s == DigitsOf[v]
                 C == Chars \ {Minus}
      <3>1. s \in Seq(C)
        BY <1>1, DigitsDefined
      <3>2. Written(j) = s /\ DigitsFrom(s) = v
        BY <1>1, <1>4, <2>1, DigitsValue
      <3> HIDE DEF s
      <3>3. ~(s # <<>> /\ s[1] = Minus)
        <4> HIDE DEF C
        <4>1. s # <<>> => s[1] \in C
          BY <3>1
        <4> QED  BY <4>1 DEF C
      <3>4. NumberIn(s) = Wrapped(v)
        BY <3>2, <3>3 DEF NumberIn
      <3> QED  BY <1>1, <1>2, <1>3, <1>6, <3>2, <3>4, Round
    <2>2. CASE Negative(v, j.unsigned)
      <3> DEFINE m == Top - v
                 s == DigitsOf[m]
                 u == <<Minus>> \o s
                 C == Chars \ {Minus}
      <3>1. m \in Magnitude /\ v \in 0..(Top - 1) /\ -m = v - Top
        BY <1>1, <1>2, <1>3, <1>5, <2>2
      <3>2. Written(j) = u /\ DigitsFrom(s) = m /\ s \in Seq(C)
        BY <1>4, <2>2, <3>1, DigitsValue, DigitsDefined
      <3> HIDE DEF m, s, C
      <3>3. u # <<>> /\ u[1] = Minus /\ Tail(u) = s
        <4> DEFINE A == C \cup {Minus}
        <4>1. s \in Seq(A) /\ Minus \in A
          BY <3>2, SeqMonotonic
        <4> HIDE DEF A
        <4> QED  BY <4>1
      <3> HIDE DEF u
      <3>4. NumberIn(u) = Wrapped(-m)
        BY <3>2, <3>3 DEF NumberIn
      <3>5. (v - Top) % Top = v
        BY <1>2, <3>1, Round
      <3> QED  BY <1>6, <3>1, <3>2, <3>4, <3>5
    <2> QED  BY <2>1, <2>2
  <1> QED  BY <1>7 DEF v
\* What a search has ruled out, and what it has matched.
SearchInv ==
    LET a == Text(mem[job.a])
        b == Text(mem[job.b])
    IN /\ loop # "none" => job \in Queries
       /\ loop \in {"outer", "inner"} => job.op = "FIND" /\ \A p \in 1..i: ~OccursAt(a, b, p)
       /\ loop = "inner" => k <= Len(b) /\ i + k <= Len(a) /\ \A n \in 1..k: a[i + n] = b[n]
       /\ loop = "compare" => job.op = "COMPARE" /\ Alike(a, b, i)
AnswerInv == (answer # Idle => job = Idle /\ AnswersRight) /\ SearchInv

\* The two texts a query reads.
LEMMA QueryTexts ==
    ASSUME StringsAssumption, StringsInv, loop # "none", NEW x \in {job.a, job.b}
    PROVE  /\ Text(mem[x]) \in Seq(Chars) /\ Len(Text(mem[x])) = StrLen(mem[x]) /\ StrLen(mem[x]) \in Nat
           /\ \A n \in 0..StrLen(mem[x]):
                 /\ Loads(x, n) = {mem[x][n]}
                 /\ IF n = StrLen(mem[x]) THEN mem[x][n] = NUL
                    ELSE mem[x][n] = Text(mem[x])[n + 1] /\ mem[x][n] \in Chars /\ mem[x][n] # NUL
  <1> DEFINE b == mem[x]
             t == Text(b)
             L == StrLen(b)
  <1>1. PICK size \in Nat \ {0}: Clean(b, size)
    BY QueryReads
  <1>2. t \in Seq(Chars) /\ Len(t) = L /\ L \in Nat /\ \A n \in 1..L: t[n] = b[n - 1]
    <2>1. size \in Nat
      OBVIOUS
    <2> QED  BY <1>1, <2>1, TextFacts
  <1>3. b[L] = NUL /\ \A n \in 0..L: Loads(x, n) = {b[n]}
    BY QueryReads
  <1> HIDE DEF b, t, L
  <1>4. ASSUME NEW n \in 0..L, n # L PROVE b[n] = t[n + 1] /\ b[n] \in Chars /\ b[n] # NUL
    <2>1. n + 1 \in 1..L /\ (n + 1) - 1 = n
      BY <1>2, <1>4
    <2>2. t[n + 1] = b[n] /\ t[n + 1] \in Chars
      BY <1>2, <2>1, ElementOfSeq
    <2> QED  BY <2>2, CharsAre
  <1> QED  BY <1>2, <1>3, <1>4 DEF b, t, L

\* A query under way has its texts as they were, and answers at most once.
LEMMA FoundMeans ==
    ASSUME StringsAssumption, StringsInv, AnswerInv, loop # "none", mem' = mem, NEW x, Answered(x),
           job.op = "FIND" => x = Find(Text(mem[job.a]), Text(mem[job.b])),
           job.op = "COMPARE" => x = Order(Text(mem[job.a]), Text(mem[job.b])),
           job.op \in {"FIND", "COMPARE"}
    PROVE  AnswerInv'
  <1>1. answer' = [query |-> job, is |-> x] /\ job' = Idle /\ loop' = "none"
    BY Zenon DEF Answered
  <1>2. answer'.query = job /\ answer'.is = x
    BY <1>1
  <1>3. AnswersRight'
    BY <1>2 DEF AnswersRight
  <1>4. SearchInv'
    BY <1>1 DEF SearchInv
  <1> QED  BY <1>1, <1>3, <1>4 DEF AnswerInv

\* A query goes on.
LEMMA SearchGoesOn ==
    ASSUME StringsInv, AnswerInv, loop # "none", UNCHANGED <<job, answer>>, SearchInv'
    PROVE  AnswerInv'
  <1>1. job # Idle
    BY Zenon DEF StringsInv, JobInv
  <1>2. answer = Idle
    BY <1>1 DEF AnswerInv
  <1> QED  BY <1>2 DEF AnswerInv

\* plcc_find at the end of the haystack, or at its next position.
LEMMA OuterAnswers ==
    ASSUME StringsAssumption, StringsInv, AnswerInv, FindOuter
    PROVE  AnswerInv'
  <1> DEFINE a == Text(mem[job.a])
             b == Text(mem[job.b])
             L == StrLen(mem[job.a])
  <1>1. loop = "outer" /\ mem' = mem
    BY Zenon DEF FindOuter
  <1>2. PICK c \in Loads(job.a, i):
            \/ c = NUL /\ Answered(0)
            \/ c # NUL /\ loop' = "inner" /\ k' = 0 /\ UNCHANGED <<job, i, answer>>
    BY Zenon DEF FindOuter
  <1>3. job \in Queries /\ job.op = "FIND" /\ \A p \in 1..i: ~OccursAt(a, b, p)
    BY <1>1, Zenon DEF AnswerInv, SearchInv
  <1>4. i \in 0..L
    BY <1>1, Zenon DEF StringsInv, QueryInv
  <1>5. a \in Seq(Chars) /\ b \in Seq(Chars) /\ Len(a) = L /\ L \in Nat
    BY <1>1, QueryTexts
  <1>6. IF i = L THEN c = NUL ELSE c # NUL
    <2>1. c = mem[job.a][i]
      BY <1>1, <1>2, <1>4, QueryTexts
    <2> QED  BY <1>1, <1>4, <2>1, QueryTexts
  <1>7. CASE c = NUL /\ Answered(0)
    <2>1. Find(a, b) = 0
      <3>1. \A p \in 1..Len(a): ~OccursAt(a, b, p)
        BY <1>3, <1>5, <1>6, <1>7
      <3> QED  BY <3>1, FindNone
    <2> QED  BY <1>1, <1>3, <1>7, <2>1, FoundMeans
  <1>8. CASE c # NUL /\ loop' = "inner" /\ k' = 0 /\ UNCHANGED <<job, i, answer>>
    <2>1. 0 <= Len(b) /\ i + 0 <= Len(a) /\ \A n \in 1..0: a[i + n] = b[n]
      BY <1>4, <1>5
    <2>2. SearchInv'
      BY <1>1, <1>3, <1>8, <2>1, Zenon DEF SearchInv
    <2> QED  BY <1>1, <1>8, <2>2, SearchGoesOn
  <1> QED  BY <1>2, <1>7, <1>8

\* plcc_find inside the needle: its end, a match, a mismatch.
LEMMA InnerAnswers ==
    ASSUME StringsAssumption, StringsInv, AnswerInv, FindInner
    PROVE  AnswerInv'
  <1> DEFINE a == Text(mem[job.a])
             b == Text(mem[job.b])
             L == StrLen(mem[job.a])
             M == StrLen(mem[job.b])
  <1>1. loop = "inner" /\ mem' = mem
    BY Zenon DEF FindInner
  <1>2. PICK n \in Loads(job.b, k), c \in Loads(job.a, i + k):
          \/ n = NUL /\ Answered(i + 1)
          \/ n # NUL /\ c = n /\ k' = k + 1 /\ UNCHANGED <<job, i, loop, answer>>
          \/ n # NUL /\ c # n /\ i' = NextStart /\ loop' = "outer" /\ UNCHANGED <<job, k, answer>>
    BY Zenon DEF FindInner
  <1>3. /\ job \in Queries /\ job.op = "FIND" /\ \A p \in 1..i: ~OccursAt(a, b, p)
        /\ k <= Len(b) /\ i + k <= Len(a) /\ \A m \in 1..k: a[i + m] = b[m]
    BY <1>1, Zenon DEF AnswerInv, SearchInv
  <1>4. i \in 0..L /\ i + 1 \in 0..L /\ k \in 0..M /\ i + k \in 0..L
    BY <1>1, Zenon DEF StringsInv, QueryInv
  <1>5. a \in Seq(Chars) /\ b \in Seq(Chars) /\ Len(a) = L /\ Len(b) = M /\ L \in Nat /\ M \in Nat
    BY <1>1, QueryTexts
  <1>6. /\ IF k = M THEN n = NUL ELSE n = b[k + 1] /\ n # NUL
        /\ IF i + k = L THEN c = NUL ELSE c = a[(i + k) + 1]
    <2>1. n = mem[job.b][k] /\ c = mem[job.a][i + k]
      BY <1>1, <1>2, <1>4, QueryTexts
    <2>2. IF k = M THEN n = NUL ELSE n = b[k + 1] /\ n # NUL
      BY <1>1, <1>4, <2>1, QueryTexts
    <2>3. IF i + k = L THEN c = NUL ELSE c = a[(i + k) + 1]
      BY <1>1, <1>4, <2>1, QueryTexts
    <2> QED  BY <2>2, <2>3
  <1> DEFINE p == i + 1
  <1>7. p \in 1..Len(a) /\ p \in 1..(Len(a) + 1) /\ i \in Nat /\ k \in Nat
    BY <1>4, <1>5
  <1>8. OccursAt(a, b, p) <=> i + M <= L /\ \A m \in 1..M: a[i + m] = b[m]
    <2>1. OccursAt(a, b, p) <=> p + Len(b) - 1 <= Len(a) /\ \A m \in 1..Len(b): a[p + m - 1] = b[m]
      BY <1>5, <1>7, OccursIs
    <2>2. \A m \in 1..M: p + m - 1 = i + m
      BY <1>5, <1>7
    <2>3. p + M - 1 = i + M
      BY <1>5, <1>7
    <2> QED  BY <1>5, <2>1, <2>2, <2>3
  <1> HIDE DEF a, b, L, M
  <1>9. CASE n = NUL /\ Answered(i + 1)
    <2>1. OccursAt(a, b, p)
      BY <1>3, <1>4, <1>5, <1>6, <1>8, <1>9
    <2>2. \A q \in 1..(p - 1): ~OccursAt(a, b, q)
      BY <1>3, <1>7
    <2>3. Find(a, b) = p
      BY <1>5, <1>7, <2>1, <2>2, FindFirst
    <2> QED  BY <1>1, <1>3, <1>9, <2>3, FoundMeans DEF a, b
  <1>10. CASE n # NUL /\ c = n /\ k' = k + 1 /\ UNCHANGED <<job, i, loop, answer>>
    <2>1. k < M /\ i + k < L
      BY <1>4, <1>5, <1>6, <1>10
    <2>2. k + 1 <= Len(b) /\ i + (k + 1) <= Len(a) /\ \A m \in 1..(k + 1): a[i + m] = b[m]
      <3>1. (i + k) + 1 = i + (k + 1)
        BY <1>7
      <3>2. a[i + (k + 1)] = b[k + 1]
        BY <1>6, <1>10, <2>1, <3>1
      <3> QED  BY <1>3, <1>5, <1>7, <2>1, <3>2
    <2>3. SearchInv'
      BY <1>1, <1>3, <1>10, <2>2, Zenon DEF SearchInv, a, b
    <2> QED  BY <1>1, <1>10, <2>3, SearchGoesOn
  <1>11. CASE n # NUL /\ c # n /\ i' = NextStart /\ loop' = "outer" /\ UNCHANGED <<job, k, answer>>
    <2>1. ~OccursAt(a, b, p)
      <3>1. k < M
        BY <1>4, <1>5, <1>6, <1>11
      <3>2. CASE i + k = L
        BY <1>5, <1>7, <1>8, <3>1, <3>2
      <3>3. CASE i + k # L
        <4>1. (i + k) + 1 = i + (k + 1) /\ k + 1 \in 1..M
          BY <1>5, <1>7, <3>1
        <4>2. a[i + (k + 1)] # b[k + 1]
          BY <1>6, <1>11, <3>1, <3>3, <4>1
        <4> QED  BY <1>8, <4>1, <4>2
      <3> QED  BY <3>2, <3>3
    <2>2. i' = p /\ \A q \in 1..p: ~OccursAt(a, b, q)
      BY <1>3, <1>7, <1>11, <2>1 DEF NextStart
    <2>3. SearchInv'
      <3> HIDE DEF p
      <3> QED  BY <1>1, <1>3, <1>11, <2>2, Zenon DEF SearchInv, a, b
    <2> QED  BY <1>1, <1>11, <2>3, SearchGoesOn
  <1> QED  BY <1>2, <1>9, <1>10, <1>11
\* plcc_strcmp at the first difference, or at the end of both.
LEMMA CompareAnswers ==
    ASSUME StringsAssumption, StringsInv, AnswerInv, CompareByte
    PROVE  AnswerInv'
  <1> DEFINE a == Text(mem[job.a])
             b == Text(mem[job.b])
             L == StrLen(mem[job.a])
             M == StrLen(mem[job.b])
  <1>1. loop = "compare" /\ mem' = mem
    BY Zenon DEF CompareByte
  <1>2. PICK c \in Loads(job.a, i), d \in Loads(job.b, i):
          IF c # d \/ c = NUL THEN Answered(Sign(c - d))
          ELSE i' = i + 1 /\ UNCHANGED <<job, k, loop, answer>>
    BY Zenon DEF CompareByte
  <1>3. job \in Queries /\ job.op = "COMPARE" /\ Alike(a, b, i)
    BY <1>1, Zenon DEF AnswerInv, SearchInv
  <1>4. i \in 0..L /\ i \in 0..M
    BY <1>1, Zenon DEF StringsInv, QueryInv
  <1>5. a \in Seq(Chars) /\ b \in Seq(Chars) /\ Len(a) = L /\ Len(b) = M /\ L \in Nat /\ M \in Nat
    BY <1>1, QueryTexts
  <1>6. /\ IF i = L THEN c = NUL ELSE c = a[i + 1] /\ c \in Chars
        /\ IF i = M THEN d = NUL ELSE d = b[i + 1] /\ d \in Chars
    <2>1. c = mem[job.a][i] /\ d = mem[job.b][i]
      BY <1>1, <1>2, <1>4, QueryTexts
    <2>2. IF i = L THEN c = NUL ELSE c = a[i + 1] /\ c \in Chars
      BY <1>1, <1>4, <2>1, QueryTexts
    <2>3. IF i = M THEN d = NUL ELSE d = b[i + 1] /\ d \in Chars
      BY <1>1, <1>4, <2>1, QueryTexts
    <2> QED  BY <2>2, <2>3
  <1>7. i \in Nat /\ i <= L /\ i <= M /\ Base \in Nat
    <2>1. Base \in Nat
      BY NumbersAssumed
    <2> QED  BY <1>4, <1>5, <2>1
  <1> HIDE DEF a, b, L, M
  <1>8. /\ i < L /\ i < M /\ a[i + 1] < b[i + 1] => Order(a, b) = -1
        /\ i < L /\ i < M /\ a[i + 1] > b[i + 1] => Order(a, b) = 1
        /\ i = L /\ i < M => Order(a, b) = -1
        /\ i < L /\ i = M => Order(a, b) = 1
        /\ i = L /\ i = M => Order(a, b) = 0
    BY <1>3, <1>5, <1>7, FirstDifference
  <1>9. c \in Nat /\ d \in Nat /\ (i # L => c >= 1) /\ (i # M => d >= 1)
    BY <1>6, CharsAre DEF NUL
  <1>10. CASE c # d \/ c = NUL
    <2>1. Sign(c - d) = Order(a, b)
      <3>1. Sign(c - d) = IF c > d THEN 1 ELSE IF c < d THEN -1 ELSE 0
        BY <1>9 DEF Sign
      <3>2. CASE i = L /\ i = M
        <4>1. c = 0 /\ d = 0
          BY <1>6, <3>2 DEF NUL
        <4> QED  BY <1>8, <3>1, <3>2, <4>1
      <3>3. CASE i = L /\ i # M
        <4>1. c = 0 /\ d >= 1 /\ i < M
          BY <1>5, <1>6, <1>7, <1>9, <3>3 DEF NUL
        <4> QED  BY <1>8, <1>9, <3>1, <3>3, <4>1
      <3>4. CASE i # L /\ i = M
        <4>1. d = 0 /\ c >= 1 /\ i < L
          BY <1>5, <1>6, <1>7, <1>9, <3>4 DEF NUL
        <4> QED  BY <1>8, <1>9, <3>1, <3>4, <4>1
      <3>5. CASE i # L /\ i # M
        <4>1. c = a[i + 1] /\ d = b[i + 1] /\ c # d /\ i < L /\ i < M
          <5>1. c # NUL
            BY <1>9, <3>5 DEF NUL
          <5> QED  BY <1>4, <1>5, <1>6, <1>10, <3>5, <5>1
        <4>2. c < d \/ c > d
          BY <1>9, <4>1
        <4> QED  BY <1>8, <1>9, <3>1, <4>1, <4>2
      <3> QED  BY <3>2, <3>3, <3>4, <3>5
    <2>2. Answered(Sign(c - d))
      BY <1>2, <1>10
    <2>3. Answered(Order(a, b))
      BY <2>1, <2>2
    <2> QED  BY <1>1, <1>3, <2>3, FoundMeans DEF a, b
  <1>11. CASE ~(c # d \/ c = NUL)
    <2>1. i' = i + 1 /\ UNCHANGED <<job, k, loop, answer>>
      BY <1>2, <1>11, Zenon
    <2>2. i < L /\ i < M /\ a[i + 1] = b[i + 1]
      BY <1>4, <1>5, <1>6, <1>11
    <2>3. Alike(a, b, i + 1)
      BY <1>3, <1>5, <1>7, <2>2 DEF Alike
    <2>4. SearchInv'
      BY <1>1, <1>3, <2>1, <2>3, Zenon DEF SearchInv, a, b
    <2> QED  BY <1>1, <2>1, <2>4, SearchGoesOn
  <1> QED  BY <1>10, <1>11

\* LEN and STRING_TO answer at once.
LEMMA AskAnswers ==
    ASSUME StringsAssumption, StringsInv, AnswerInv, NEW q \in Queries, Ask(q)
    PROVE  AnswerInv'
  <1>1. job = Idle /\ mem' = mem /\ i' = i /\ k' = k
    BY Zenon DEF Ask
  <1>2. loop = "none" /\ i = 0 /\ dest = "none" /\ MemInv
    BY <1>1, Zenon DEF StringsInv, JobInv
  <1>3. q.a \in Vars /\ Clean(mem[q.a], Size[q.a]) /\ Size[q.a] \in Nat
    <2>1. q.a \in Vars
      BY Zenon DEF Queries
    <2>2. VarsClean(mem)
      BY <1>2, AllClean, Names
    <2> QED  BY <2>1, <2>2, SizesArePositive, Zenon DEF VarsClean
  <1>4. CASE q.op \in {"LEN", "STRING_TO"}
    <2> DEFINE x == IF q.op = "LEN" THEN StrLen(mem[q.a]) ELSE NumberIn(Text(mem[q.a]))
    <2>1. answer' = [query |-> q, is |-> x] /\ job' = Idle /\ loop' = "none"
      BY <1>1, <1>2, <1>4, Zenon DEF Ask
    <2> HIDE DEF x
    <2>2. answer'.query = q /\ answer'.is = x
      BY <2>1
    <2>3. q.op = "LEN" => x = Len(Text(mem[q.a]))
      BY <1>3, TextFacts DEF x
    <2>4. q.op # "LEN" => \A j \in Conversions: Written(j) = Text(mem[q.a]) => x = j.v
      BY ReadsWritten, Zenon DEF x
    <2>5. AnswersRight'
      BY <1>1, <1>4, <2>2, <2>3, <2>4 DEF AnswersRight
    <2>6. SearchInv'
      BY <2>1 DEF SearchInv
    <2> QED  BY <2>1, <2>5, <2>6 DEF AnswerInv
  <1>5. CASE q.op \notin {"LEN", "STRING_TO"}
    <2>1. job' = q /\ loop' = (IF q.op = "FIND" THEN "outer" ELSE "compare") /\ answer' = Idle
      BY <1>5, Zenon DEF Ask
    <2>2. q.op \in {"FIND", "COMPARE"}
      BY <1>5 DEF Queries
    <2>3. Alike(Text(mem[q.a]), Text(mem[q.b]), 0)
      <3>1. Len(Text(mem[q.a])) \in Nat /\ Len(Text(mem[q.b])) \in Nat
        <4>1. q.b \in Vars
          BY <1>5, Zenon DEF Queries
        <4>2. Clean(mem[q.b], Size[q.b]) /\ Size[q.b] \in Nat
          BY <1>2, <4>1, AllClean, Names, SizesArePositive, Zenon DEF VarsClean
        <4> QED  BY <1>3, <4>2, TextFacts
      <3> QED  BY <3>1 DEF Alike
    <2>4. i' = 0 /\ \A p \in 1..0: ~OccursAt(Text(mem[q.a]), Text(mem[q.b]), p)
      BY <1>1, <1>2
    <2>5. SearchInv'
      BY <1>1, <2>1, <2>2, <2>3, <2>4 DEF SearchInv
    <2> QED  BY <2>1, <2>5 DEF AnswerInv
  <1> QED  BY <1>4, <1>5

LEMMA AnswersStart == Init => AnswerInv
  BY DEF Init, AnswerInv, SearchInv

\* The third invariant is inductive.
LEMMA AnswersKept ==
    ASSUME StringsAssumption, StringsInv, AnswerInv, [Next]_vars
    PROVE  AnswerInv'
  <1>1. CASE Statement
    <2>1. PICK v \in Vars: \/ StoreLiteral(v)
                           \/ \E w \in Vars: CopyVariable(v, w)
                           \/ \E j \in Builtins: AssignBuiltin(v, j)
                           \/ \E j \in Conversions: AssignNumber(v, j)
      BY <1>1, Zenon DEF Statement
    <2>2. job = Idle /\ answer' = Idle /\ loop' = loop
      BY <2>1, Zenon DEF StoreLiteral, CopyVariable, AssignBuiltin, AssignNumber
    <2>3. loop' = "none"
      BY <2>2, Zenon DEF StringsInv, JobInv
    <2> QED  BY <2>2, <2>3 DEF AnswerInv, SearchInv
  <1>2. CASE Helper
    <2>1. answer' = answer /\ loop' = loop /\ (calls # <<>> \/ dest # "none")
      BY <1>2, Zenon DEF Helper, StartCall, CopyByte, LoopEnds, CallEnds
    <2>2. job # Idle /\ loop = "none"
      BY <2>1, Zenon DEF StringsInv, JobInv
    <2>3. answer' = Idle /\ loop' = "none"
      BY <2>1, <2>2 DEF AnswerInv
    <2> QED  BY <2>3 DEF AnswerInv, SearchInv
  <1>3. CASE \E q \in Queries: Ask(q)
    BY <1>3, AskAnswers, Zenon
  <1>4. CASE Query
    BY <1>4, OuterAnswers, InnerAnswers, CompareAnswers, Zenon DEF Query
  <1>5. CASE UNCHANGED vars
    <2>1. UNCHANGED <<mem, job, calls, dest, room, segs, i, k, loop, answer>>
      BY <1>5, Zenon DEF vars
    <2> QED  BY <2>1 DEF AnswerInv, SearchInv, AnswersRight
  <1> QED  BY <1>1, <1>2, <1>3, <1>4, <1>5, Zenon DEF Next

-----------------------------------------------------------------------------
(***************************************************************************)
(* A MID whose position is not within its text.  It fills the temporary    *)
(* from wherever it is told to, so of what it loads no more can be said    *)
(* than that it is bytes; what it stores is in the temporary, terminated,  *)
(* and with the end of that call the first invariant holds again.          *)
(***************************************************************************)
Away == job # Idle /\ loop = "none" /\ job.astray

StrayLoops == [from: Vars, start: Int, end: Int, nul: {TRUE}]
FillCall(s, cap) == Call("temp", cap, FALSE, <<s>>)
StoreCall(v) == StrLcpy(v, Size[v], "temp")
Filling(s, cap) ==
    /\ DOMAIN mem["temp"] = 0..(cap - 1)
    /\ \/ dest = "none" /\ segs = <<>> /\ calls = <<FillCall(s, cap), StoreCall(job.to)>>
       \/ /\ dest = "temp" /\ (segs = <<s>> \/ segs = <<>>) /\ calls = <<StoreCall(job.to)>>
          /\ room = cap /\ k \in 0..(cap - 1)
          /\ \A n \in 0..(k - 1): mem["temp"][n] \in Chars
AstrayInv ==
    /\ MemInv /\ Away /\ job.to \in Vars
    /\ \E cap \in Nat \ {0}, s \in StrayLoops: Filling(s, cap)

\* Every byte of a variable, also past its terminator, has been stored there.
VarBytes == \A v \in Vars: \A n \in DOMAIN mem[v]: mem[v][n] \in Chars \cup {NUL}

\* Such a MID begins.
LEMMA AstrayStarts ==
    ASSUME StringsAssumption, StringsInv, AstrayBegins
    PROVE  AstrayInv'
  <1>1. PICK v \in Vars, j \in Builtins: AssignBuiltin(v, j) /\ Astray(j)
    BY Zenon DEF AstrayBegins
  <1> DEFINE R == ResultBytes(j)
             s == Copy(j.a, j.p - 1, j.p - 1 + j.l, TRUE)
  <1>2. dest = "none" /\ loop = "none" /\ segs = <<>> /\ MemInv
    BY <1>1, Zenon DEF StringsInv, JobInv, AssignBuiltin
  <1>3. R \in Nat \ {0} /\ j.op = "MID" /\ j.a \in Vars
    BY <1>1, RoomForResult, Zenon DEF Builtins, Plain, Astray
  <1>4. s \in StrayLoops
    <2>1. j.l \in Counts \cup {0} /\ j.p \in Counts \cup {0}
      BY Zenon DEF Builtins, Plain
    <2>2. Counts \subseteq Int
      BY SMT DEF StringsAssumption
    <2>3. \A x, y \in Counts \cup {0}: x - 1 \in Int /\ x - 1 + y \in Int
      BY <2>2
    <2> QED  BY <1>3, <2>1, <2>3, Zenon DEF Copy, StrayLoops
  <1>5. HelperCalls(j) = <<FillCall(s, R)>>
    <2>1. HelperCalls(j) = <<MidCall(j)>>
      BY <1>3 DEF HelperCalls
    <2> QED  BY <2>1, Zenon DEF MidCall, FillCall
  <1>6. /\ mem' = [mem EXCEPT !["temp"] = [n \in 0..(R - 1) |-> Junk]]
        /\ calls' = Append(HelperCalls(j), StoreCall(v))
        /\ job' = [op |-> j.op, to |-> v, means |-> Meaning(j), astray |-> Astray(j)]
        /\ UNCHANGED <<dest, room, segs, i, k, loop>>
    BY <1>1, Zenon DEF AssignBuiltin, StoreCall
  <1>7. MemInv' /\ mem'["temp"] = [n \in 0..(R - 1) |-> Junk]
    BY <1>2, <1>6, TempChanges
  <1> HIDE DEF R, s
  <1>8. calls' = <<FillCall(s, R), StoreCall(v)>>
    <2> DEFINE x == FillCall(s, R)
               y == StoreCall(v)
    <2>1. Append(<<x>>, y) = <<x, y>>
      <3> HIDE DEF x, y
      <3> DEFINE S == {x, y}
                 cs == Append(<<x>>, y)
      <3>1. <<x>> \in Seq(S) /\ y \in S /\ Len(<<x>>) = 1 /\ <<x>>[1] = x
        OBVIOUS
      <3>2. cs \in Seq(S) /\ Len(cs) = 2 /\ cs[1] = x /\ cs[2] = y
        <4> HIDE DEF S
        <4> QED  BY <3>1, AppendsLast
      <3> HIDE DEF cs, S
      <3>3. cs = <<x, y>>
        BY <3>2
      <3> QED  BY <3>3, Zenon DEF cs
    <2> QED  BY <1>5, <1>6, <2>1, Zenon
  <1>9. job'.to = v /\ job'.op = "MID" /\ job'.astray
    BY <1>1, <1>3, <1>6
  <1>10. job' # Idle
    BY <1>9 DEF Idle
  <1>11. DOMAIN mem'["temp"] = 0..(R - 1)
    BY <1>7
  <1>12. Filling(s, R)'
    BY <1>2, <1>6, <1>8, <1>9, <1>11, Zenon DEF Filling
  <1> QED  BY <1>2, <1>3, <1>4, <1>6, <1>7, <1>9, <1>10, <1>12, Zenon DEF AstrayInv, Away

\* The byte a load yields, wherever it is.
LEMMA StrayByte ==
    ASSUME StringsAssumption, VarBytes, NEW s \in StrayLoops, NEW n, NEW c \in Loads(s.from, n), c # NUL
    PROVE  c \in Chars
  <1>1. s.from \in Vars
    BY Zenon DEF StrayLoops
  <1> QED  BY <1>1, Zenon DEF Loads, VarBytes

\* Only its helpers go on while a statement is under way.
LEMMA OnlyHelpers ==
    ASSUME job # Idle, loop = "none", [Next]_vars
    PROVE  StartCall \/ CopyByte \/ LoopEnds \/ CallEnds \/ UNCHANGED vars
  <1>1. ~Statement
    BY Zenon DEF Statement, StoreLiteral, CopyVariable, AssignBuiltin, AssignNumber
  <1>2. ~(\E q \in Queries: Ask(q))
    BY Zenon DEF Ask
  <1>3. ~Query
    BY DEF Query, FindOuter, FindInner, CompareByte
  <1> QED  BY <1>1, <1>2, <1>3, Zenon DEF Next, Helper

\* The temporary is written, and nothing else.
LEMMA TempWritten ==
    ASSUME StringsAssumption, MemInv, dest = "temp", NEW cap \in Nat \ {0},
           DOMAIN mem["temp"] = 0..(cap - 1), NEW n \in 0..(cap - 1), NEW c,
           mem' = [mem EXCEPT !["temp"][n] = c]
    PROVE  /\ DOMAIN mem'["temp"] = 0..(cap - 1) /\ mem'["temp"] = [mem["temp"] EXCEPT ![n] = c]
           /\ (\A b \in Texts: mem'[b] = mem[b])
           /\ (dest' \in {"temp", "none"} => MemInv')
  <1>1. DOMAIN mem = Buffers /\ "temp" \in Buffers /\ "empty" \in Buffers /\ "empty" # "temp"
    BY DEF MemInv, Buffers
  <1>2. /\ mem'["temp"] = [mem["temp"] EXCEPT ![n] = c]
        /\ DOMAIN mem' = Buffers /\ (\A b \in Buffers: b # "temp" => mem'[b] = mem[b])
    BY <1>1
  <1>3. \A b \in Texts: mem'[b] = mem[b]
    BY <1>1, <1>2, Names, Zenon DEF Texts
  <1>4. \A v \in Vars: v # "temp" /\ v # "none"
    BY Names
  <1>5. dest' \in {"temp", "none"} => MemInv'
    BY <1>2, <1>3, <1>4, Zenon DEF MemInv, EmptyClean, Texts
  <1>6. DOMAIN mem'["temp"] = 0..(cap - 1)
    BY <1>2
  <1> QED  BY <1>2, <1>3, <1>5, <1>6

LEMMA StrayStartsFilling ==
    ASSUME StringsAssumption, AstrayInv, StartCall
    PROVE  AstrayInv'
  <1>1. PICK cap \in Nat \ {0}, s \in StrayLoops: Filling(s, cap)
    BY Zenon DEF AstrayInv
  <1>2. /\ dest = "none" /\ calls # <<>> /\ dest' = Head(calls).to /\ room' = Head(calls).cap
        /\ segs' = Head(calls).loops /\ calls' = Tail(calls)
        /\ k' = (IF Head(calls).append THEN StrLen(mem[dest']) ELSE 0)
        /\ UNCHANGED <<mem, job, loop, answer>>
    BY Zenon DEF StartCall
  <1>3. DOMAIN mem["temp"] = 0..(cap - 1) /\ calls = <<FillCall(s, cap), StoreCall(job.to)>>
    BY <1>1, <1>2 DEF Filling
  <1>4. Head(calls) = FillCall(s, cap) /\ Tail(calls) = <<StoreCall(job.to)>>
    BY <1>3
  <1>5. dest' = "temp" /\ room' = cap /\ segs' = <<s>> /\ k' = 0
    BY <1>2, <1>4 DEF FillCall, Call
  <1>6. 0 \in 0..(cap - 1) /\ \A n \in 0..(0 - 1): FALSE
    OBVIOUS
  <1>7. Filling(s, cap)'
    BY <1>2, <1>3, <1>4, <1>5, <1>6, Zenon DEF Filling
  <1>8. MemInv'
    <2>1. \A v \in Vars: v # "none"
      BY Names
    <2> QED  BY <1>2, <2>1, Zenon DEF AstrayInv, MemInv, EmptyClean
  <1> QED  BY <1>2, <1>7, <1>8, Zenon DEF AstrayInv, Away

LEMMA StrayCopies ==
    ASSUME StringsAssumption, AstrayInv, VarBytes, CopyByte
    PROVE  AstrayInv'
  <1>1. PICK cap \in Nat \ {0}, s \in StrayLoops: Filling(s, cap)
    BY Zenon DEF AstrayInv
  <1>2. PICK c \in Loads(Loop.from, i): Goes(c) /\ mem' = [mem EXCEPT ![dest][k] = c]
    BY Zenon DEF CopyByte
  <1>3. dest # "none" /\ segs # <<>> /\ k' = k + 1 /\ UNCHANGED <<job, calls, dest, room, segs, loop, answer>>
    BY Zenon DEF CopyByte
  <1>4. /\ dest = "temp" /\ segs = <<s>> /\ calls = <<StoreCall(job.to)>> /\ room = cap /\ k \in 0..(cap - 1)
        /\ DOMAIN mem["temp"] = 0..(cap - 1) /\ \A n \in 0..(k - 1): mem["temp"][n] \in Chars
    BY <1>1, <1>3, Zenon DEF Filling
  <1>5. Loop = s /\ s.nul = TRUE
    <2>1. \A x: Head(<<x>>) = x
      OBVIOUS
    <2> QED  BY <1>4, <2>1, Zenon DEF Loop, StrayLoops
  <1>6. c \in Chars /\ k < room - 1
    BY <1>2, <1>5, StrayByte, Zenon DEF Goes
  <1>7. MemInv' /\ DOMAIN mem'["temp"] = 0..(cap - 1) /\ mem'["temp"] = [mem["temp"] EXCEPT ![k] = c]
    BY <1>2, <1>3, <1>4, TempWritten DEF AstrayInv
  <1>8. k' \in 0..(cap - 1)
    BY <1>3, <1>4, <1>6
  <1>9. ASSUME NEW n \in 0..(k' - 1) PROVE mem'["temp"][n] \in Chars
    <2>1. n \in 0..(cap - 1) /\ (n = k \/ n \in 0..(k - 1))
      BY <1>3, <1>4, <1>9
    <2> QED  BY <1>4, <1>6, <1>7, <2>1
  <1>10. Filling(s, cap)'
    BY <1>3, <1>4, <1>7, <1>8, <1>9, Zenon DEF Filling
  <1> QED  BY <1>3, <1>7, <1>10, Zenon DEF AstrayInv, Away

LEMMA StrayLoopEnds ==
    ASSUME StringsAssumption, AstrayInv, LoopEnds
    PROVE  AstrayInv'
  <1>1. PICK cap \in Nat \ {0}, s \in StrayLoops: Filling(s, cap)
    BY Zenon DEF AstrayInv
  <1>2. dest # "none" /\ segs # <<>> /\ segs' = Tail(segs) /\ UNCHANGED <<mem, job, calls, dest, room, k, loop, answer>>
    BY Zenon DEF LoopEnds
  <1>3. segs = <<s>>
    BY <1>1, <1>2, Zenon DEF Filling
  <1>4. segs' = <<>>
    BY <1>2, <1>3
  <1>5. Filling(s, cap)'
    BY <1>1, <1>2, <1>4, Zenon DEF Filling
  <1>6. MemInv'
    BY <1>2, Zenon DEF AstrayInv, MemInv, EmptyClean
  <1> QED  BY <1>2, <1>5, <1>6, Zenon DEF AstrayInv, Away

\* The temporary is filled: from here on the statement is like any other.
LEMMA StrayFills ==
    ASSUME StringsAssumption, AstrayInv, CallEnds
    PROVE  StringsInv'
  <1>1. PICK cap \in Nat \ {0}, s \in StrayLoops: Filling(s, cap)
    BY Zenon DEF AstrayInv
  <1>2. dest # "none" /\ segs = <<>>
    BY Zenon DEF CallEnds
  <1>3. /\ dest = "temp" /\ calls = <<StoreCall(job.to)>> /\ room = cap /\ k \in 0..(cap - 1)
        /\ DOMAIN mem["temp"] = 0..(cap - 1) /\ \A n \in 0..(k - 1): mem["temp"][n] \in Chars
    BY <1>1, <1>2, Zenon DEF Filling
  <1>4. calls # <<>> /\ Len(calls) = 1 /\ calls[1] = StoreCall(job.to) /\ calls[Len(calls)] = StoreCall(job.to)
    BY <1>3
  <1>5. /\ mem' = [mem EXCEPT !["temp"][k] = NUL] /\ job' = job /\ dest' = "none" /\ i' = 0 /\ k' = 0
        /\ UNCHANGED <<calls, segs, loop, answer>>
    BY <1>3, <1>4, Zenon DEF CallEnds
  <1>6. MemInv' /\ DOMAIN mem'["temp"] = 0..(cap - 1) /\ mem'["temp"] = [mem["temp"] EXCEPT ![k] = NUL]
    BY <1>3, <1>5, TempWritten DEF AstrayInv
  <1>7. Clean(mem'["temp"], cap)
    <2> DEFINE b == mem["temp"]
    <2>1. DOMAIN b = 0..(cap - 1) /\ k \in 0..(cap - 1) /\ \A n \in 0..(k - 1): b[n] \in Chars
      BY <1>3
    <2> HIDE DEF b
    <2>2. Clean([b EXCEPT ![k] = NUL], cap)
      BY <2>1, EndedIsClean
    <2> QED  BY <1>6, <2>2, Zenon DEF b
  <1>8. TempClean'
    BY <1>7, Zenon DEF TempClean
  <1>9. BuildsTemp(calls)'
    <2>1. Len(calls') = 1
      BY <1>4, <1>5, Zenon
    <2>2. \A n \in 1..(1 - 1): FALSE
      OBVIOUS
    <2> QED  BY <1>6, <2>1, <2>2, Zenon DEF BuildsTemp
  <1>10. CallsInv'
    <2>1. calls \in Seq(CallRecords)
      <3>1. StoreCall(job.to) \in CallRecords
        BY LastCall, Zenon DEF AstrayInv, StoreCall
      <3> QED  BY <1>3, <3>1
    <2> QED  BY <1>4, <1>5, <1>8, <1>9, <2>1, Zenon DEF CallsInv, StoreCall
  <1>11. JobInv'
    BY <1>2, <1>5, Zenon DEF AstrayInv, Away, JobInv
  <1>12. RunInv' /\ QueryInv'
    <2>1. loop' = "none"
      BY <1>5 DEF AstrayInv, Away
    <2> QED  BY <1>5, <2>1 DEF RunInv, QueryInv
  <1> QED  BY <1>6, <1>10, <1>11, <1>12 DEF StringsInv

LEMMA StrayGoesOn ==
    ASSUME StringsAssumption, AstrayInv, VarBytes, [Next]_vars
    PROVE  AstrayInv' \/ StringsInv'
  <1>1. job # Idle /\ loop = "none"
    BY DEF AstrayInv, Away
  <1>2. CASE UNCHANGED vars
    <2>1. UNCHANGED <<mem, job, calls, dest, room, segs, i, k, loop, answer>>
      BY <1>2, Zenon DEF vars
    <2>2. \A s, cap: Filling(s, cap) => Filling(s, cap)'
      BY <2>1, Zenon DEF Filling
    <2>3. MemInv'
      BY <2>1, Zenon DEF AstrayInv, MemInv, EmptyClean
    <2> QED  BY <2>1, <2>2, <2>3, Zenon DEF AstrayInv, Away
  <1> QED  BY <1>1, <1>2, OnlyHelpers, StrayStartsFilling, StrayCopies, StrayLoopEnds, StrayFills

-----------------------------------------------------------------------------
(* The bytes of the variables. *)

\* A variable gets a value of such bytes.
LEMMA BytesStored ==
    ASSUME StringsAssumption, MemInv, VarBytes, NEW v \in Vars, NEW x,
           \A n \in DOMAIN x: x[n] \in Chars \cup {NUL},
           mem' = [mem EXCEPT ![v] = x]
    PROVE  VarBytes'
  <1>1. DOMAIN mem = Buffers /\ v \in Buffers
    BY Names DEF MemInv
  <1>2. mem'[v] = x /\ \A w \in Vars: w # v => mem'[w] = mem[w]
    <2>1. \A w \in Vars: w \in Buffers
      BY Names
    <2> QED  BY <1>1, <2>1
  <1> QED  BY <1>2, Zenon DEF VarBytes

LEMMA FittedBytes ==
    ASSUME StringsAssumption, NEW s \in Seq(Chars \cup {NUL}), NEW size \in Nat \ {0}, NEW n \in 0..(size - 1)
    PROVE  Fitted(s, size)[n] \in Chars \cup {NUL}
  <1>1. Fitted(s, size)[n] = IF n < Lowest(Len(s), size - 1) THEN s[n + 1] ELSE NUL
    BY DEF Fitted
  <1>2. CASE n < Lowest(Len(s), size - 1)
    <2>1. n + 1 \in 1..Len(s)
      BY <1>2 DEF Lowest
    <2>2. s[n + 1] \in Chars \cup {NUL}
      BY <2>1, ElementOfSeq
    <2> QED  BY <1>1, <1>2, <2>2
  <1> QED  BY <1>1, <1>2

LEMMA VarBytesKept ==
    ASSUME StringsAssumption, StringsInv \/ AstrayInv, VarBytes, [Next]_vars
    PROVE  VarBytes'
  <1>1. MemInv
    BY DEF StringsInv, AstrayInv
  <1>2. ASSUME NEW v \in Vars, StoreLiteral(v) PROVE VarBytes'
    <2>1. PICK s \in Literals: mem' = [mem EXCEPT ![v] = Fitted(s, Size[v])]
      BY <1>2, Zenon DEF StoreLiteral
    <2>2. s \in Seq(Chars \cup {NUL}) /\ Size[v] \in Nat \ {0}
      <3>1. s \in Seq(Chars \cup {NUL})
        BY SMT DEF StringsAssumption
      <3> QED  BY <3>1, SizesArePositive
    <2>3. DOMAIN Fitted(s, Size[v]) = 0..(Size[v] - 1)
      BY DEF Fitted
    <2>4. \A n \in DOMAIN Fitted(s, Size[v]): Fitted(s, Size[v])[n] \in Chars \cup {NUL}
      BY <2>2, <2>3, FittedBytes, Zenon
    <2> QED  BY <1>1, <2>1, <2>4, BytesStored, Zenon
  <1>3. ASSUME NEW v \in Vars, NEW w \in Vars, CopyVariable(v, w) PROVE VarBytes'
    <2>1. mem' = [mem EXCEPT ![v] = Reshaped(mem[w], Size[v])]
      BY <1>3, Zenon DEF CopyVariable
    <2>2. \A n \in DOMAIN mem[w]: mem[w][n] \in Chars \cup {NUL}
      BY Zenon DEF VarBytes
    <2>3. \A n \in DOMAIN Reshaped(mem[w], Size[v]): Reshaped(mem[w], Size[v])[n] \in Chars \cup {NUL}
      BY <2>2 DEF Reshaped
    <2> QED  BY <1>1, <2>1, <2>3, BytesStored, Zenon
  \* Any other write is of a temporary, or of one byte, a character or a terminator.
  <1>4. ASSUME NEW x, mem' = [mem EXCEPT !["temp"] = x] PROVE VarBytes'
    <2>1. \A v \in Vars: v # "temp" /\ v \in Buffers
      BY Names
    <2>2. \A v \in Vars: mem'[v] = mem[v]
      BY <1>1, <1>4, <2>1 DEF MemInv
    <2> QED  BY <2>2, Zenon DEF VarBytes
  <1>5. ASSUME NEW c \in Chars \cup {NUL}, NEW m, m = [mem EXCEPT ![dest][k] = c],
               mem' = m \/ mem' = [m EXCEPT !["temp"] = <<>>]
        PROVE  VarBytes'
    <2>1. \A v \in Vars: v # "temp" /\ v \in Buffers
      BY Names
    <2>2. ASSUME NEW v \in Vars, NEW n \in DOMAIN mem'[v] PROVE mem'[v][n] \in Chars \cup {NUL}
      <3>1. DOMAIN mem = Buffers /\ v # "temp" /\ v \in Buffers
        BY <1>1, <2>1 DEF MemInv
      <3>2. mem'[v] = m[v]
        BY <1>5, <3>1
      <3>3. DOMAIN m[v] = DOMAIN mem[v] /\ (m[v][n] = c \/ m[v][n] = mem[v][n])
        BY <1>5, <2>2, <3>1, <3>2
      <3> QED  BY <2>2, <3>2, <3>3 DEF VarBytes
    <2> QED  BY <2>2, Zenon DEF VarBytes
  <1>6. CASE CopyByte
    <2>1. PICK c \in Loads(Loop.from, i): Goes(c) /\ mem' = [mem EXCEPT ![dest][k] = c]
      BY <1>6, Zenon DEF CopyByte
    <2>2. dest # "none" /\ segs # <<>>
      BY <1>6, Zenon DEF CopyByte
    <2>3. CASE StringsInv
      <3>1. c \in Chars
        BY <2>1, <2>2, <2>3, ByteRead
      <3> QED  BY <1>5, <2>1, <3>1
    <2>4. CASE AstrayInv
      <3>1. PICK cap \in Nat \ {0}, s \in StrayLoops: Filling(s, cap)
        BY <2>4, Zenon DEF AstrayInv
      <3>2. segs = <<s>> /\ s.nul = TRUE
        BY <2>2, <3>1, Zenon DEF Filling, StrayLoops
      <3>3. Loop = s
        BY <3>2 DEF Loop
      <3>4. c \in Chars
        BY <2>1, <3>2, <3>3, StrayByte, Zenon DEF Goes
      <3> QED  BY <1>5, <2>1, <3>4
    <2> QED  BY <2>3, <2>4
  <1>7. CASE CallEnds
    <2>1. \E m: m = [mem EXCEPT ![dest][k] = NUL] /\ (mem' = m \/ mem' = [m EXCEPT !["temp"] = <<>>])
      BY <1>7, Zenon DEF CallEnds
    <2> QED  BY <1>5, <2>1
  <1>8. ASSUME UNCHANGED mem PROVE VarBytes'
    BY <1>8, Zenon DEF VarBytes
  <1>9. ASSUME NEW v \in Vars, NEW j \in Builtins, AssignBuiltin(v, j) PROVE VarBytes'
    BY <1>4, <1>9, Zenon DEF AssignBuiltin
  <1>10. ASSUME NEW v \in Vars, NEW j \in Conversions, AssignNumber(v, j) PROVE VarBytes'
    BY <1>4, <1>10, Zenon DEF AssignNumber
  <1>11. CASE Statement
    BY <1>2, <1>3, <1>9, <1>10, <1>11, Zenon DEF Statement
  <1>12. StartCall \/ LoopEnds \/ (\E q \in Queries: Ask(q)) \/ Query \/ UNCHANGED vars => UNCHANGED mem
    BY Zenon DEF StartCall, LoopEnds, Ask, Query, FindOuter, FindInner, CompareByte, vars
  <1> QED  BY <1>6, <1>7, <1>8, <1>11, <1>12, Zenon DEF Next, Helper

-----------------------------------------------------------------------------
(* The invariants together. *)

HeldInv == VarBytes /\ (StringsInv \/ AstrayInv)
MeansHeld == Away \/ MeansInv

LEMMA HeldStarts ==
    ASSUME StringsAssumption, Init
    PROVE  HeldInv /\ MeansHeld /\ AnswerInv
  <1>1. ASSUME NEW v \in Vars, NEW n \in DOMAIN mem[v] PROVE mem[v][n] = NUL
    <2>1. mem[v] = [x \in 0..(Size[v] - 1) |-> NUL]
      BY Names DEF Init
    <2> QED  BY <1>1, <2>1
  <1> QED  BY <1>1, StringsStart, MeansStart, AnswersStart DEF HeldInv, MeansHeld, VarBytes

LEMMA HeldKept ==
    ASSUME StringsAssumption, HeldInv, [Next]_vars
    PROVE  HeldInv'
  <1>1. VarBytes'
    BY VarBytesKept DEF HeldInv
  <1>2. CASE StringsInv
    BY <1>1, <1>2, AstrayStarts, StringsKept DEF HeldInv
  <1>3. CASE AstrayInv
    BY <1>1, <1>3, StrayGoesOn DEF HeldInv
  <1> QED  BY <1>2, <1>3 DEF HeldInv

LEMMA MeansHeldKept ==
    ASSUME StringsAssumption, HeldInv, MeansHeld, [Next]_vars
    PROVE  MeansHeld' /\ (EndsMeantInText \/ UNCHANGED vars)
  <1>1. CASE Away
    <2>1. (job' = job \/ job' = Idle) /\ loop' = loop
      <3>1. StartCall \/ CopyByte \/ LoopEnds \/ CallEnds \/ UNCHANGED vars
        BY <1>1, OnlyHelpers DEF Away
      <3> QED  BY <3>1, Zenon DEF StartCall, CopyByte, LoopEnds, CallEnds, vars
    <2>2. MeansHeld'
      BY <1>1, <2>1, Zenon DEF Away, MeansHeld, MeansInv
    <2> QED  BY <1>1, <2>2, Zenon DEF Away, EndsMeantInText, StatementEnds
  <1>2. CASE ~Away
    <2>1. StringsInv /\ MeansInv
      BY <1>2, Zenon DEF HeldInv, MeansHeld, AstrayInv
    <2>2. CASE AstrayBegins
      <3>1. job = Idle
        BY <2>2, Zenon DEF AstrayBegins, AssignBuiltin
      <3>2. Away'
        BY <2>1, <2>2, AstrayStarts DEF AstrayInv
      <3> QED  BY <3>1, <3>2, Zenon DEF MeansHeld, EndsMeantInText, StatementEnds
    <2>3. CASE ~AstrayBegins
      <3>1. MeansInv' /\ (EndsMeant \/ UNCHANGED vars)
        BY <2>1, <2>3, MeansKept
      <3> QED  BY <3>1, Zenon DEF MeansHeld, EndsMeant, EndsMeantInText
    <2> QED  BY <2>2, <2>3
  <1> QED  BY <1>1, <1>2

LEMMA AnswersHeld ==
    ASSUME StringsAssumption, HeldInv, AnswerInv, [Next]_vars
    PROVE  AnswerInv'
  <1>1. CASE StringsInv
    BY <1>1, AnswersKept
  <1>2. CASE AstrayInv
    <2>1. job # Idle /\ loop = "none" /\ answer = Idle
      BY <1>2 DEF AstrayInv, Away, AnswerInv
    <2>2. answer' = answer /\ loop' = loop
      <3>1. StartCall \/ CopyByte \/ LoopEnds \/ CallEnds \/ UNCHANGED vars
        BY <2>1, OnlyHelpers
      <3> QED  BY <3>1, Zenon DEF StartCall, CopyByte, LoopEnds, CallEnds, vars
    <2> QED  BY <2>1, <2>2 DEF AnswerInv, SearchInv
  <1> QED  BY <1>1, <1>2 DEF HeldInv

\* What of the promise about buffers the code keeps.
LEMMA HeldInBounds ==
    ASSUME StringsAssumption, HeldInv
    PROVE  OnlyMidStrays /\ AlwaysTerminated
  <1>1. CASE StringsInv
    BY <1>1, StaysInBounds, StaysTerminated, Zenon DEF InBounds, OnlyMidStrays
  <1>2. CASE AstrayInv
    <2>1. PICK cap \in Nat \ {0}, s \in StrayLoops: Filling(s, cap)
      BY <1>2, Zenon DEF AstrayInv
    <2>2. loop = "none" /\ job.astray /\ MemInv
      BY <1>2 DEF AstrayInv, Away
    <2>3. OnlyMidStrays
      <3>1. CASE dest = "none"
        BY <2>1, <2>2, <3>1 DEF Filling, OnlyMidStrays, StoresInBounds, LoadsInBounds
      <3>2. CASE dest = "temp"
        BY <2>1, <2>2, <3>2 DEF Filling, OnlyMidStrays, StoresInBounds, MidStrays
      <3> QED  BY <2>1, <3>1, <3>2 DEF Filling
    <2>4. AlwaysTerminated
      <3>1. \A v \in Vars: dest # v
        BY <2>1, Names DEF Filling
      <3> QED  BY <2>2, <3>1, RestTerminated
    <2> QED  BY <2>3, <2>4
  <1> QED  BY <1>1, <1>2 DEF HeldInv

-----------------------------------------------------------------------------
\* What the language says: every builtin and every conversion leaves in its
\* target what the function means, cut to the target's length, also where the
\* target is an argument (docs/codesys-compatibility.md:246, strings.rs:9-12).
\* True of every set of variables, lengths and counts, and of every statement
\* but a MID whose position is not within its text, which plcc_mid does not
\* clamp; also where such a MID left whatever bytes it met in the arguments.
THEOREM StringsMeanWhatTheySay ==
    ASSUME StringsAssumption
    PROVE  Spec => [][EndsMeantInText]_vars
  <1> DEFINE Inv == HeldInv /\ MeansHeld
  <1>1. Init => Inv
    BY HeldStarts
  <1>2. Inv /\ [Next]_vars => Inv'
    BY HeldKept, MeansHeldKept
  <1>3. Inv /\ [Next]_vars => [EndsMeantInText]_vars
    BY MeansHeldKept
  <1> QED  BY <1>1, <1>2, <1>3, PTL DEF Spec

\* No store of a helper leaves its buffer, no load does but those with which a
\* MID fills the temporary from a position not within its text, and no STRING
\* loses its terminator, whatever the variables, lengths, texts and counts
\* (compiler.rs:2152, 2330, strings.rs:3-15).
THEOREM StringsStayInBounds ==
    ASSUME StringsAssumption
    PROVE  Spec => [](OnlyMidStrays /\ AlwaysTerminated)
  <1>1. Init => HeldInv
    BY HeldStarts
  <1>2. HeldInv /\ [Next]_vars => HeldInv'
    BY HeldKept
  <1>3. HeldInv => OnlyMidStrays /\ AlwaysTerminated
    BY HeldInBounds
  <1> QED  BY <1>1, <1>2, <1>3, PTL DEF Spec

\* LEN, FIND, the comparison and STRING_TO_LINT answer what the language says
\* of the texts, and a number written is the number read back
\* (docs/codesys-compatibility.md:246).
THEOREM QueriesAnswerRight ==
    ASSUME StringsAssumption
    PROVE  Spec => []AnswersRight
  <1>1. Init => HeldInv /\ AnswerInv
    BY HeldStarts
  <1>2. HeldInv /\ AnswerInv /\ [Next]_vars => (HeldInv /\ AnswerInv)'
    BY HeldKept, AnswersHeld
  <1>3. AnswerInv => AnswersRight
    BY DEF AnswerInv, AnswersRight
  <1> QED  BY <1>1, <1>2, <1>3, PTL DEF Spec
=============================================================================
