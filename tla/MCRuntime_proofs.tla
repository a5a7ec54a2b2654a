---------------------------- MODULE MCRuntime_proofs ----------------------------
(***************************************************************************)
(* Proofs about a program between compiler and controller, for every       *)
(* object, layout, board, manifest, instance and file: what the linker     *)
(* accepts the loader takes and starts whole; a download leaves everything *)
(* outside the slot alone and reports success only when the board runs     *)
(* what was built; dates of literals and of CONCAT_DATE agree; the emitted *)
(* string functions stay in their buffers and mean what the language says; *)
(* the function blocks answer what their calls call for; shifts, copies    *)
(* and fills of files do what Logix says.                                  *)
(***************************************************************************)
EXTENDS MCRuntime, FiniteSetTheorems, WellFoundedInduction, TLAPS

-----------------------------------------------------------------------------
(***************************************************************************)
(* Numbers.  Where a definition recurs over the sections of an object, the *)
(* induction is made by the least section at which a claim would fail.     *)
(***************************************************************************)
LEMMA LeastNumber ==
    ASSUME NEW T \in SUBSET Nat, T # {}
    PROVE  \E n \in T: \A k \in T: n <= k
  <1>1. PICK n \in T: \A k \in T: ~(<<k, n>> \in OpToRel(<, Nat))
    BY NatLessThanWellFounded, WFMin
  <1>2. \A k \in T: ~(k < n)
    BY <1>1 DEF OpToRel
  <1> QED  BY <1>2

LEMMA AlignUpFacts ==
    ASSUME NEW n \in Nat, NEW a \in Nat \ {0}
    PROVE  /\ AlignUp(n, a) \in Nat
           /\ AlignUp(n, a) >= n
           /\ AlignUp(n, a) % a = 0
  <1> DEFINE e == (n + a - 1) \div a
             x == e * a
  <1>1. e \in Nat /\ x \in Nat /\ x >= n
    OBVIOUS
  <1> HIDE DEF x
  <1>2. x \div a \in Int /\ x % a \in 0..(a - 1) /\ x = a * (x \div a) + (x % a)
    BY <1>1
  <1> DEFINE f == x \div a
             s == x % a
  <1>3. f \in Int /\ s \in 0..(a - 1) /\ e * a = a * f + s
    BY <1>2 DEF x
  <1> HIDE DEF e, f, s
  <1>4. (e - f) * a = s
    BY <1>1, <1>3
  <1>5. ASSUME e - f >= 1 PROVE FALSE
    <2>1. (e - f) * a >= a
      BY <1>1, <1>3, <1>5
    <2> QED  BY <2>1, <1>3, <1>4
  <1>6. ASSUME f - e >= 0, s # 0 PROVE FALSE
    <2>1. (f - e) * a >= 0
      BY <1>1, <1>3, <1>6
    <2> QED  BY <2>1, <1>1, <1>3, <1>4, <1>6
  <1>7. s = 0
    BY <1>1, <1>3, <1>5, <1>6
  <1> QED  BY <1>1, <1>7 DEF AlignUp, e, s, x

-----------------------------------------------------------------------------
(***************************************************************************)
(* Placing parts.  A part of class c starts aligned where the previous one *)
(* ended or later, so the parts lie one after another.                     *)
(***************************************************************************)
Parts(parts, c) ==
    /\ Len(parts) \in Nat /\ DOMAIN parts = 1..Len(parts)
    /\ \A n \in DOMAIN parts:
          parts[n].class = c => parts[n].size \in Nat /\ parts[n].align \in Nat \ {0}

LEMMA EndsDefined ==
    ASSUME NEW parts, NEW c, Parts(parts, c), NEW from \in Nat
    PROVE  /\ Ends(parts, c, from) \in [0..Len(parts) -> Nat]
           /\ Ends(parts, c, from)[0] = from
           /\ \A n \in 1..Len(parts):
                Ends(parts, c, from)[n] =
                    IF parts[n].class # c THEN Ends(parts, c, from)[n - 1]
                    ELSE AlignUp(Ends(parts, c, from)[n - 1], parts[n].align) + parts[n].size
  <1> DEFINE N == Len(parts)
             S(n, b) == IF parts[n].class # c THEN b ELSE AlignUp(b, parts[n].align) + parts[n].size
             P(n, g) == g = [k \in 0..n |-> IF k = 0 THEN from
                                            ELSE IF parts[k].class # c THEN g[k - 1]
                                            ELSE AlignUp(g[k - 1], parts[k].align) + parts[k].size]
             Q(n) == \E g \in [0..n -> Nat]: P(n, g)
  <1>1. N \in Nat /\ \A n \in 1..N: \A b \in Nat: S(n, b) \in Nat
    <2> SUFFICES ASSUME NEW n \in 1..N, NEW b \in Nat PROVE S(n, b) \in Nat
      BY DEF Parts
    <2>1. CASE parts[n].class # c
      BY <2>1
    <2>2. CASE parts[n].class = c
      <3>1. parts[n].size \in Nat /\ parts[n].align \in Nat \ {0}
        BY <2>2 DEF Parts
      <3>2. AlignUp(b, parts[n].align) \in Nat
        BY <3>1, AlignUpFacts
      <3> QED  BY <2>2, <3>1, <3>2
    <2> QED  BY <2>1, <2>2
  <1>2. Q(0)
    <2> DEFINE g == [k \in 0..0 |-> from]
    <2>1. g \in [0..0 -> Nat] /\ P(0, g)
      OBVIOUS
    <2> QED  BY <2>1
  <1>3. ASSUME NEW n \in Nat, Q(n), n + 1 <= N PROVE Q(n + 1)
    <2>1. PICK g \in [0..n -> Nat]: P(n, g)
      BY <1>3
    <2>0. S(n + 1, g[n]) \in Nat
      BY <1>1, <1>3
    <2> HIDE DEF S
    <2> DEFINE h == [k \in 0..(n + 1) |-> IF k = n + 1 THEN S(n + 1, g[n]) ELSE g[k]]
    <2>2. h \in [0..(n + 1) -> Nat]
      BY <2>0
    <2>3. \A k \in 0..(n + 1): h[k] = IF k = 0 THEN from ELSE S(k, h[k - 1])
      <3> TAKE k \in 0..(n + 1)
      <3>1. CASE k = n + 1
        BY <3>1
      <3>2. CASE k # n + 1
        <4>1. k \in 0..n /\ h[k] = g[k] /\ (k # 0 => h[k - 1] = g[k - 1])
          BY <3>2
        <4>2. g[k] = IF k = 0 THEN from ELSE S(k, g[k - 1])
          BY <2>1, <4>1 DEF S
        <4> QED  BY <4>1, <4>2
      <3> QED  BY <3>1, <3>2
    <2>4. P(n + 1, h)
      <3> HIDE DEF h
      <3> QED  BY <2>2, <2>3 DEF S
    <2> QED  BY <2>2, <2>4
  <1> HIDE DEF P
  <1>4. Q(N)
    <2> DEFINE T == {n \in Nat: n <= N /\ ~Q(n)}
    <2> SUFFICES ASSUME T # {} PROVE FALSE
      BY <1>1
    <2> HIDE DEF Q
    <2>1. PICK n \in T: \A k \in T: n <= k
      BY LeastNumber
    <2>2. n \in Nat /\ n # 0 /\ n <= N /\ ~Q(n)
      BY <1>2
    <2>3. n - 1 \in Nat /\ n - 1 <= N /\ n - 1 \notin T
      <3>1. n - 1 \in Nat /\ n - 1 <= N /\ ~(n <= n - 1)
        BY <1>1, <2>2
      <3> QED  BY <3>1, <2>1
    <2>4. Q(n - 1)
      BY <2>3
    <2>5. (n - 1) + 1 = n
      BY <2>2
    <2>6. Q(n)
      BY <1>3, <2>2, <2>3, <2>4, <2>5
    <2> QED  BY <2>2, <2>6
  <1>5. PICK g \in [0..N -> Nat]: P(N, g)
    BY <1>1, <1>4
  <1>6. P(N, Ends(parts, c, from)) /\ Ends(parts, c, from) = CHOOSE f: P(N, f)
    BY <1>5 DEF Ends, P
  <1> DEFINE E == Ends(parts, c, from)
  <1>7. E = [k \in 0..N |-> IF k = 0 THEN from
                            ELSE IF parts[k].class # c THEN E[k - 1]
                            ELSE AlignUp(E[k - 1], parts[k].align) + parts[k].size]
    BY <1>6 DEF P
  <1> HIDE DEF E
  <1>8. DOMAIN E = 0..N /\ E[0] = from /\ \A k \in 1..N: E[k] = S(k, E[k - 1])
    <2>1. DOMAIN E = 0..N /\ E[0] = from
      BY <1>1, <1>7
    <2>2. ASSUME NEW k \in 1..N PROVE E[k] = S(k, E[k - 1])
      <3>1. k \in 0..N /\ k # 0
        BY <1>1
      <3> QED  BY <3>1, <1>7
    <2> QED  BY <2>1, <2>2
  <1>9. \A k \in 0..N: E[k] \in Nat
    <2> DEFINE T == {k \in Nat: k <= N /\ E[k] \notin Nat}
    <2> SUFFICES ASSUME T # {} PROVE FALSE
      BY <1>1
    <2> HIDE DEF S
    <2>1. PICK n \in T: \A k \in T: n <= k
      BY LeastNumber
    <2>2. n \in Nat /\ n # 0 /\ n <= N /\ E[n] \notin Nat
      BY <1>8
    <2>3. n - 1 \in Nat /\ n - 1 <= N /\ n - 1 \notin T
      <3>1. n - 1 \in Nat /\ n - 1 <= N /\ ~(n <= n - 1)
        BY <1>1, <2>2
      <3> QED  BY <3>1, <2>1
    <2>4. E[n - 1] \in Nat
      BY <2>3
    <2>5. E[n] = S(n, E[n - 1])
      BY <1>8, <2>2
    <2>6. n \in 1..N
      BY <1>1, <2>2
    <2>7. \A b \in Nat: S(n, b) \in Nat
      BY <1>1, <2>6
    <2>8. S(n, E[n - 1]) \in Nat
      BY <2>4, <2>7
    <2> QED  BY <2>2, <2>5, <2>8
  <1>10. E \in [0..N -> Nat]
    BY <1>7, <1>9
  <1> QED  BY <1>8, <1>10 DEF E

LEMMA EndsGrow ==
    ASSUME NEW parts, NEW c, Parts(parts, c), NEW from \in Nat,
           NEW m \in 0..Len(parts), NEW n \in 0..Len(parts), m <= n
    PROVE  Ends(parts, c, from)[m] <= Ends(parts, c, from)[n]
  <1> DEFINE N == Len(parts)
             E == Ends(parts, c, from)
  <1>0. E \in [0..N -> Nat]
    BY EndsDefined
  <1>1. N \in Nat /\ \A k \in 0..N: E[k] \in Nat
    BY <1>0 DEF Parts
  <1>2. ASSUME NEW k \in 1..N PROVE E[k - 1] <= E[k]
    <2>1. k - 1 \in 0..N /\ E[k - 1] \in Nat
      BY <1>1
    <2>2. parts[k].class = c => parts[k].size \in Nat /\ parts[k].align \in Nat \ {0}
      BY DEF Parts
    <2>3. parts[k].class = c => /\ AlignUp(E[k - 1], parts[k].align) \in Nat
                               /\ AlignUp(E[k - 1], parts[k].align) >= E[k - 1]
      BY <2>1, <2>2, AlignUpFacts
    <2>4. E[k] = IF parts[k].class # c THEN E[k - 1] ELSE AlignUp(E[k - 1], parts[k].align) + parts[k].size
      BY EndsDefined
    <2> HIDE DEF E
    <2> QED  BY <2>1, <2>2, <2>3, <2>4
  <1> HIDE DEF E
  <1> DEFINE T == {k \in Nat: k <= N /\ m <= k /\ ~(E[m] <= E[k])}
  <1>3. ASSUME T # {} PROVE FALSE
    <2>1. PICK k \in T: \A j \in T: k <= j
      BY <1>3, LeastNumber
    <2>2. k \in Nat /\ k <= N /\ m <= k /\ ~(E[m] <= E[k]) /\ k # m
      BY <1>1
    <2>3. k - 1 \in Nat /\ k - 1 <= N /\ m <= k - 1 /\ ~(k <= k - 1)
      BY <1>1, <2>2
    <2>4. E[m] <= E[k - 1]
      BY <2>1, <2>3
    <2>5. k \in 1..N /\ k - 1 \in 0..N /\ m \in 0..N
      BY <1>1, <2>2, <2>3
    <2>6. E[k - 1] <= E[k] /\ E[k - 1] \in Nat /\ E[k] \in Nat /\ E[m] \in Nat
      BY <1>1, <1>2, <2>5
    <2> QED  BY <2>2, <2>4, <2>6
  <1>4. E[m] <= E[n]
    BY <1>1, <1>3
  <1> QED  BY <1>4 DEF E

\* at puts the parts of class c, each aligned, one after another between from
\* and to.
InLine(parts, at, c, from, to) ==
    \A k \in DOMAIN parts: parts[k].class = c =>
        /\ at[k] \in Nat /\ from <= at[k] /\ at[k] + parts[k].size <= to
        /\ at[k] % parts[k].align = 0
        /\ \A j \in DOMAIN parts: parts[j].class = c /\ j < k => at[j] + parts[j].size <= at[k]

LEMMA PlaceFacts ==
    ASSUME NEW parts, NEW c, Parts(parts, c), NEW from \in Nat
    PROVE  /\ Place(parts, c, from).end \in Nat
           /\ from <= Place(parts, c, from).end
           /\ DOMAIN Place(parts, c, from).at = {j \in DOMAIN parts: parts[j].class = c}
           /\ InLine(parts, Place(parts, c, from).at, c, from, Place(parts, c, from).end)
  <1> DEFINE N == Len(parts)
             E == Ends(parts, c, from)
             at == Place(parts, c, from).at
             end == Place(parts, c, from).end
  <1>0. E \in [0..N -> Nat] /\ E[0] = from
    BY EndsDefined
  <1>1. N \in Nat /\ DOMAIN parts = 1..N /\ E[0] = from /\ \A k \in 0..N: E[k] \in Nat
    BY <1>0 DEF Parts
  <1>2. end = E[N] /\ at = [k \in {j \in DOMAIN parts: parts[j].class = c} |-> AlignUp(E[k - 1], parts[k].align)]
    BY DEF Place
  <1>3. \A m, n \in 0..N: m <= n => E[m] <= E[n]
    BY EndsGrow
  <1>4. \A k \in 1..N: E[k] = IF parts[k].class # c THEN E[k - 1]
                              ELSE AlignUp(E[k - 1], parts[k].align) + parts[k].size
    BY EndsDefined
  <1>5. \A k \in 1..N: parts[k].class = c => parts[k].size \in Nat /\ parts[k].align \in Nat \ {0}
    BY DEF Parts
  <1> HIDE DEF E, at, end
  <1>6. ASSUME NEW k \in 1..N, parts[k].class = c
        PROVE  /\ at[k] \in Nat /\ at[k] >= E[k - 1] /\ at[k] % parts[k].align = 0
               /\ E[k] = at[k] + parts[k].size /\ k - 1 \in 0..N
    <2>1. k - 1 \in 0..N /\ E[k - 1] \in Nat
      BY <1>1
    <2>2. at[k] = AlignUp(E[k - 1], parts[k].align)
      BY <1>1, <1>2, <1>6
    <2>3. E[k] = at[k] + parts[k].size
      BY <1>4, <1>6, <2>2
    <2> QED  BY <1>5, <1>6, <2>1, <2>2, <2>3, AlignUpFacts
  <1>7. InLine(parts, at, c, from, end)
    <2> SUFFICES ASSUME NEW k \in 1..N, parts[k].class = c
                 PROVE  /\ at[k] \in Nat /\ from <= at[k] /\ at[k] + parts[k].size <= end
                        /\ at[k] % parts[k].align = 0
                        /\ \A j \in 1..N: parts[j].class = c /\ j < k => at[j] + parts[j].size <= at[k]
      BY <1>1 DEF InLine
    <2>1. /\ at[k] \in Nat /\ at[k] >= E[k - 1] /\ at[k] % parts[k].align = 0
          /\ E[k] = at[k] + parts[k].size /\ k - 1 \in 0..N
      BY <1>6
    <2>2. 0 \in 0..N /\ N \in 0..N /\ k \in 0..N /\ 0 <= k - 1 /\ k <= N
      BY <1>1
    <2>3. E[0] <= E[k - 1] /\ E[k] <= E[N] /\ E[k - 1] \in Nat /\ E[k] \in Nat /\ E[N] \in Nat
      BY <1>1, <1>3, <2>1, <2>2
    <2>4. from <= at[k] /\ at[k] + parts[k].size <= end
      BY <1>1, <1>2, <2>1, <2>3
    <2>5. ASSUME NEW j \in 1..N, parts[j].class = c, j < k
          PROVE  at[j] + parts[j].size <= at[k]
      <3>1. E[j] = at[j] + parts[j].size /\ j \in 0..N /\ j <= k - 1
        BY <1>1, <1>6, <2>5
      <3>2. E[j] <= E[k - 1] /\ E[j] \in Nat
        BY <1>1, <1>3, <2>1, <3>1
      <3> QED  BY <2>1, <2>3, <3>1, <3>2
    <2> QED  BY <2>1, <2>4, <2>5
  <1>8. end \in Nat /\ from <= end
    <2>1. 0 \in 0..N /\ N \in 0..N /\ 0 <= N
      BY <1>1
    <2> QED  BY <1>1, <1>2, <1>3, <2>1
  <1>9. DOMAIN at = {j \in DOMAIN parts: parts[j].class = c}
    BY <1>2
  <1> QED  BY <1>7, <1>8, <1>9 DEF at, end

-----------------------------------------------------------------------------
(***************************************************************************)
(* Finite sets of numbers: they have a maximum, and the elements below     *)
(* each one are counted in order.                                          *)
(***************************************************************************)
LEMMA MaxOfBounded ==
    ASSUME NEW S \in SUBSET Nat, S # {}, NEW b \in Nat, \A s \in S: s <= b
    PROVE  Max(S) \in S /\ \A s \in S: s <= Max(S)
  <1> DEFINE T == {n \in Nat: \A s \in S: s <= n}
  <1>1. PICK n \in T: \A k \in T: n <= k
    <2>1. b \in T
      OBVIOUS
    <2> HIDE DEF T
    <2>2. T # {} /\ T \in SUBSET Nat
      BY <2>1 DEF T
    <2> QED  BY <2>2, LeastNumber
  <1>2. n \in S
    <2> SUFFICES ASSUME n \notin S PROVE FALSE
      OBVIOUS
    <2>1. n \in Nat /\ \A s \in S: s \in Nat /\ s <= n /\ s # n
      OBVIOUS
    <2>2. \A s \in S: s <= n - 1 /\ n - 1 \in Nat
      BY <2>1
    <2>3. n - 1 \in T
      BY <2>2
    <2> QED  BY <1>1, <2>1, <2>3
  <1>3. \A s \in S: n >= s
    OBVIOUS
  <1>4. Max(S) \in S /\ \A s \in S: Max(S) >= s
    BY <1>2, <1>3 DEF Max
  <1> QED  BY <1>4

LEMMA FiniteIsBounded ==
    ASSUME NEW S \in SUBSET Nat, IsFiniteSet(S)
    PROVE  \E b \in Nat: \A s \in S: s <= b
  <1> DEFINE Q(n) == \A R \in SUBSET Nat: IsFiniteSet(R) /\ Cardinality(R) = n => \E b \in Nat: \A s \in R: s <= b
             T == {n \in Nat: ~Q(n)}
  <1>1. Q(0)
    <2> SUFFICES ASSUME NEW R \in SUBSET Nat, IsFiniteSet(R), Cardinality(R) = 0
                 PROVE  \E b \in Nat: \A s \in R: s <= b
      OBVIOUS
    <2>1. R = {}
      BY FS_EmptySet
    <2> QED  BY <2>1
  <1>2. ASSUME NEW n \in Nat, Q(n) PROVE Q(n + 1)
    <2> SUFFICES ASSUME NEW R \in SUBSET Nat, IsFiniteSet(R), Cardinality(R) = n + 1
                 PROVE  \E b \in Nat: \A s \in R: s <= b
      OBVIOUS
    <2>1. R # {}
      BY FS_EmptySet
    <2>2. PICK x \in R: TRUE
      BY <2>1
    <2>3. IsFiniteSet(R \ {x}) /\ Cardinality(R \ {x}) = n /\ (R \ {x}) \in SUBSET Nat
      BY FS_RemoveElement
    <2>4. PICK b \in Nat: \A s \in R \ {x}: s <= b
      BY <1>2, <2>3
    <2>5. \A s \in R: s <= b + x
      BY <2>4
    <2> QED  BY <2>5
  <1> HIDE DEF Q
  <1>3. ASSUME T # {} PROVE FALSE
    <2>1. PICK n \in T: \A k \in T: n <= k
      BY <1>3, LeastNumber
    <2>2. n \in Nat /\ n # 0 /\ ~Q(n)
      BY <1>1
    <2>3. n - 1 \in Nat /\ ~(n <= n - 1) /\ (n - 1) + 1 = n
      BY <2>2
    <2>4. Q(n - 1)
      BY <2>1, <2>3
    <2>5. Q((n - 1) + 1)
      BY <1>2, <2>3, <2>4
    <2> QED  BY <2>2, <2>3, <2>5
  <1>4. Cardinality(S) \in Nat
    BY FS_CardinalityType
  <1>5. Q(Cardinality(S))
    BY <1>3, <1>4
  <1> QED  BY <1>5 DEF Q

LEMMA CountBelow ==
    ASSUME NEW U \in SUBSET Nat, IsFiniteSet(U), NEW i \in U
    PROVE  /\ Cardinality({j \in U: j < i}) \in Nat
           /\ Cardinality({j \in U: j < i}) + 1 <= Cardinality(U)
           /\ \A n \in U: i < n => Cardinality({j \in U: j < i}) + 1 <= Cardinality({j \in U: j < n})
  <1> DEFINE B(n) == {j \in U: j < n}
  <1>1. IsFiniteSet(B(i)) /\ Cardinality(B(i)) \in Nat /\ i \notin B(i)
    BY FS_Subset, FS_CardinalityType
  <1>2. IsFiniteSet(B(i) \cup {i}) /\ Cardinality(B(i) \cup {i}) = Cardinality(B(i)) + 1
    BY <1>1, FS_AddElement
  <1>3. Cardinality(B(i) \cup {i}) <= Cardinality(U)
    <2>1. B(i) \cup {i} \in SUBSET U
      OBVIOUS
    <2> QED  BY <2>1, FS_Subset
  <1>4. ASSUME NEW n \in U, i < n PROVE Cardinality(B(i) \cup {i}) <= Cardinality(B(n))
    <2>1. \A j \in B(i) \cup {i}: j \in U /\ j \in Nat /\ j <= i
      OBVIOUS
    <2>3. i \in Nat /\ n \in Nat
      OBVIOUS
    <2>4. \A j \in B(i) \cup {i}: j \in U /\ j < n
      BY <1>4, <2>1, <2>3
    <2>5. B(i) \cup {i} \in SUBSET B(n)
      BY <2>4
    <2>2. IsFiniteSet(B(n))
      BY FS_Subset
    <2> QED  BY <2>2, <2>5, FS_Subset
  <1> QED  BY <1>1, <1>2, <1>3, <1>4

-----------------------------------------------------------------------------
(***************************************************************************)
(* The layout.  In flash: header, text, rodata, one veneer for each used   *)
(* service, the image of .data.  In RAM: .data, .bss, COMMON.              *)
(***************************************************************************)
LoadAlign(o) == Max({DataAlign} \cup {o.secs[k].align : k \in {j \in Kept(o) : o.secs[j].class = "data"}})

LEMMA SequenceFacts ==
    ASSUME NEW R, NEW s \in Seq(R)
    PROVE  Len(s) \in Nat /\ DOMAIN s = 1..Len(s) /\ \A k \in DOMAIN s: s[k] \in R
  OBVIOUS

LEMMA ObjectParts ==
    ASSUME NEW o, WellFormed(o)
    PROVE  /\ \A c: Parts(o.secs, c)
           /\ Parts(Commons(o), "common") /\ Len(Commons(o)) = Len(o.syms)
           /\ DOMAIN Commons(o) = DOMAIN o.syms
           /\ DOMAIN o.syms = 1..Len(o.syms) /\ Len(o.syms) \in Nat
           /\ DOMAIN o.secs = 1..Len(o.secs) /\ Len(o.secs) \in Nat
  <1> DEFINE SR == [class : STRING, size : Nat, align : Nat \ {0}]
             YR == [name : STRING, bind : STRING, sec : Int, value : Nat, size : Nat, thumb : BOOLEAN]
  <1>1. o.secs \in Seq(SR) /\ o.syms \in Seq(YR)
    BY DEF WellFormed
  <1> HIDE DEF SR, YR
  <1>2. /\ Len(o.secs) \in Nat /\ DOMAIN o.secs = 1..Len(o.secs) /\ \A k \in DOMAIN o.secs: o.secs[k] \in SR
        /\ Len(o.syms) \in Nat /\ DOMAIN o.syms = 1..Len(o.syms) /\ \A k \in DOMAIN o.syms: o.syms[k] \in YR
    BY <1>1, SequenceFacts
  <1>3. \A k \in DOMAIN o.secs: o.secs[k].size \in Nat /\ o.secs[k].align \in Nat \ {0}
    BY <1>2 DEF SR
  <1>4. \A k \in DOMAIN o.syms: o.syms[k].sec = -1 => o.syms[k].size \in Nat /\ o.syms[k].value \in Nat \ {0}
    BY <1>2 DEF YR, WellFormed
  <1>5. DOMAIN Commons(o) = 1..Len(o.syms)
    BY <1>2 DEF Commons
  <1>6. Len(Commons(o)) = Len(o.syms)
    <2>1. Commons(o) \in [1..Len(o.syms) -> {Commons(o)[k] : k \in 1..Len(o.syms)}]
      BY <1>2 DEF Commons
    <2> QED  BY <1>2, <1>5, <2>1
  <1>7. \A k \in DOMAIN Commons(o): Commons(o)[k].class = "common" =>
          Commons(o)[k].size \in Nat /\ Commons(o)[k].align \in Nat \ {0}
    BY <1>2, <1>4, <1>5 DEF Commons
  <1> QED  BY <1>2, <1>3, <1>5, <1>6, <1>7 DEF Parts

LEMMA LoadAlignPositive ==
    ASSUME NEW o, WellFormed(o)
    PROVE  LoadAlign(o) \in Nat \ {0}
  <1> DEFINE D == {j \in Kept(o): o.secs[j].class = "data"}
             A == {o.secs[k].align : k \in D}
             f == [k \in D |-> o.secs[k].align]
  <1>1. D \in SUBSET (1..Len(o.secs)) /\ Len(o.secs) \in Nat
    BY ObjectParts DEF Kept
  <1>2. \A k \in D: o.secs[k].align \in Nat \ {0}
    BY ObjectParts DEF Parts, Kept
  <1>3. IsFiniteSet(D)
    <2>1. IsFiniteSet(1..Len(o.secs))
      <3> DEFINE m == Len(o.secs)
      <3>1. 1 \in Int /\ m \in Int
        BY <1>1
      <3> HIDE DEF m
      <3>2. IsFiniteSet(1..m)
        BY <3>1, FS_Interval
      <3> QED  BY <3>2 DEF m
    <2> QED  BY <1>1, <2>1, FS_Subset
  <1>4. f \in Surjection(D, A)
    BY DEF Surjection
  <1>5. IsFiniteSet(A)
    BY <1>3, <1>4, FS_Surjection
  <1>6. A \in SUBSET (Nat \ {0})
    BY <1>2
  <1>7. DataAlign \in Nat \ {0}
    BY ImageAssumption
  <1> DEFINE S == {DataAlign} \cup A
  <1> HIDE DEF A, D
  <1>8. S \in SUBSET (Nat \ {0}) /\ S # {} /\ S \in SUBSET Nat /\ IsFiniteSet(S)
    <2>1. IsFiniteSet({DataAlign})
      BY FS_Singleton
    <2> QED  BY <1>5, <1>6, <1>7, <2>1, FS_Union
  <1>9. \E b \in Nat: \A s \in S: s <= b
    BY <1>8, FiniteIsBounded
  <1>10. Max(S) \in S
    BY <1>8, <1>9, MaxOfBounded
  <1> QED  BY <1>8, <1>10 DEF LoadAlign, A, D

\* What Lay promises of the layout p of o's sections.
Laid(o, L, p) ==
    /\ /\ p.codeEnd \in Nat /\ p.textEnd \in Nat /\ p.dataLoad \in Nat
       /\ p.dataStart \in Nat /\ p.dataEnd \in Nat /\ p.end \in Nat
    /\ L.slot + HeaderSize <= p.codeEnd /\ p.codeEnd <= p.textEnd /\ p.textEnd <= p.dataLoad
    /\ L.ram + RamReserved <= p.dataStart /\ p.dataStart <= p.dataEnd /\ p.dataEnd <= p.end
    /\ DOMAIN p.at = Kept(o) /\ DOMAIN p.common = {k \in DOMAIN o.syms: o.syms[k].sec = -1}
    /\ \E m \in Nat: /\ InLine(o.secs, p.at, "text", L.slot + HeaderSize, m)
                     /\ InLine(o.secs, p.at, "rodata", m, p.codeEnd)
                     /\ L.slot + HeaderSize <= m /\ m <= p.codeEnd
    /\ InLine(o.secs, p.at, "data", p.dataStart, p.dataEnd)
    /\ \E m \in Nat: /\ InLine(o.secs, p.at, "bss", p.dataEnd, m)
                     /\ InLine(Commons(o), p.common, "common", m, p.end)
                     /\ p.dataEnd <= m /\ m <= p.end
    /\ DOMAIN p.veneer = Used(o)
    /\ \A i \in Used(o):
          /\ p.veneer[i] \in Nat /\ p.codeEnd <= p.veneer[i] /\ p.veneer[i] + VeneerSize <= p.textEnd
          /\ \A j \in Used(o): i < j => p.veneer[i] + VeneerSize <= p.veneer[j]

LEMMA InLineSame ==
    ASSUME NEW parts, NEW at, NEW at1, NEW c, NEW from, NEW to,
           InLine(parts, at, c, from, to),
           \A k \in DOMAIN parts: parts[k].class = c => at1[k] = at[k]
    PROVE  InLine(parts, at1, c, from, to)
  BY DEF InLine

LEMMA VeneersInLine ==
    ASSUME NEW U \in SUBSET Nat, IsFiniteSet(U), NEW v \in Nat,
           NEW i \in U
    PROVE  LET at == [n \in U |-> v + VeneerSize * Cardinality({j \in U: j < n})]
           IN /\ at[i] \in Nat /\ v <= at[i]
              /\ at[i] + VeneerSize <= v + VeneerSize * Cardinality(U)
              /\ \A n \in U: i < n => at[i] + VeneerSize <= at[n]
  <1> DEFINE B(n) == Cardinality({j \in U: j < n})
             at == [n \in U |-> v + VeneerSize * B(n)]
  <1>1. VeneerSize \in Nat /\ Cardinality(U) \in Nat
    BY ImageAssumption, FS_CardinalityType
  <1>2. \A n \in U: B(n) \in Nat
    BY CountBelow
  <1>3. B(i) + 1 <= Cardinality(U) /\ \A n \in U: i < n => B(i) + 1 <= B(n)
    BY CountBelow
  <1> HIDE DEF B
  <1>4. ASSUME NEW x \in Nat, NEW y \in Nat, x + 1 <= y
        PROVE  VeneerSize * x + VeneerSize <= VeneerSize * y /\ VeneerSize * x \in Nat /\ VeneerSize * y \in Nat
    <2>1. y - x - 1 \in Nat /\ VeneerSize * (y - x - 1) \in Nat
      BY <1>1, <1>4
    <2>2. VeneerSize * (y - x - 1) = VeneerSize * y - VeneerSize * x - VeneerSize
      BY <1>1
    <2> QED  BY <1>1, <2>1, <2>2
  <1>5. /\ at[i] = v + VeneerSize * B(i) /\ VeneerSize * B(i) \in Nat
        /\ VeneerSize * B(i) + VeneerSize <= VeneerSize * Cardinality(U)
        /\ VeneerSize * Cardinality(U) \in Nat
    BY <1>1, <1>2, <1>3, <1>4
  <1>6. ASSUME NEW n \in U, i < n PROVE at[i] + VeneerSize <= at[n]
    <2>1. at[n] = v + VeneerSize * B(n) /\ VeneerSize * B(n) \in Nat
          /\ VeneerSize * B(i) + VeneerSize <= VeneerSize * B(n)
      BY <1>2, <1>3, <1>4, <1>6
    <2> QED  BY <1>1, <1>5, <2>1
  <1>7. at[i] \in Nat /\ v <= at[i] /\ at[i] + VeneerSize <= v + VeneerSize * Cardinality(U)
    BY <1>1, <1>5
  <1> QED  BY <1>6, <1>7 DEF B

LEMMA LayFacts ==
    ASSUME NEW o, WellFormed(o), NEW L, LayoutFits(L), Used(o) \subseteq 0..(L.services - 1)
    PROVE  Laid(o, L, Lay(o, L))
  <1> DEFINE text == Place(o.secs, "text", L.slot + HeaderSize)
             rodata == Place(o.secs, "rodata", text.end)
             veneers == AlignUp(rodata.end, VeneerAlign)
             used == Used(o)
             textEnd == veneers + VeneerSize * Cardinality(used)
             align == LoadAlign(o)
             data == Place(o.secs, "data", DataStart(L.ram, align))
             bss == Place(o.secs, "bss", data.end)
             common == Place(Commons(o), "common", bss.end)
             vat == [i \in used |-> veneers + VeneerSize * Cardinality({j \in used : j < i})]
             p == Lay(o, L)
  <1>1. /\ p.at = [k \in Kept(o) |-> CASE o.secs[k].class = "text" -> text.at[k]
                                       [] o.secs[k].class = "rodata" -> rodata.at[k]
                                       [] o.secs[k].class = "data" -> data.at[k]
                                       [] o.secs[k].class = "bss" -> bss.at[k]]
        /\ p.codeEnd = rodata.end /\ p.textEnd = textEnd
        /\ p.veneer = vat
        /\ p.dataLoad = AlignUp(textEnd, align) /\ p.dataStart = DataStart(L.ram, align)
        /\ p.dataEnd = data.end /\ p.common = common.at /\ p.end = common.end
    BY DEF Lay, LoadAlign
  <1> HIDE DEF p
  <1>2. /\ HeaderSize \in Nat /\ RamReserved \in Nat /\ VeneerSize \in Nat /\ VeneerAlign \in Nat \ {0}
        /\ L.slot \in Nat /\ L.ram \in Nat /\ L.services \in Nat
    BY ImageAssumption DEF LayoutFits
  <1>3. \A c: Parts(o.secs, c)
    BY ObjectParts
  <1>4. /\ text.end \in Nat /\ L.slot + HeaderSize <= text.end
        /\ InLine(o.secs, text.at, "text", L.slot + HeaderSize, text.end)
    <2>1. L.slot + HeaderSize \in Nat
      BY <1>2
    <2> QED  BY <1>3, <2>1, PlaceFacts
  <1> HIDE DEF text
  <1>5. /\ rodata.end \in Nat /\ text.end <= rodata.end
        /\ InLine(o.secs, rodata.at, "rodata", text.end, rodata.end)
    BY <1>3, <1>4, PlaceFacts
  <1> HIDE DEF rodata
  <1>6. veneers \in Nat /\ rodata.end <= veneers
    BY <1>2, <1>5, AlignUpFacts
  <1> HIDE DEF veneers
  <1>7. used \in SUBSET Nat /\ IsFiniteSet(used) /\ Cardinality(used) \in Nat
    <2>1. 0 \in Int /\ L.services - 1 \in Int
      BY <1>2
    <2>2. IsFiniteSet(0..(L.services - 1))
      BY <2>1, FS_Interval
    <2> QED  BY <1>2, <2>2, FS_Subset, FS_CardinalityType
  <1>8. textEnd \in Nat /\ veneers <= textEnd
    <2>1. VeneerSize * Cardinality(used) \in Nat
      BY <1>2, <1>7
    <2> QED  BY <1>6, <2>1
  <1>9. \A i \in used: /\ vat[i] \in Nat /\ veneers <= vat[i] /\ vat[i] + VeneerSize <= textEnd
                       /\ \A n \in used: i < n => vat[i] + VeneerSize <= vat[n]
    BY <1>6, <1>7, VeneersInLine
  <1> HIDE DEF textEnd, vat
  <1>10. align \in Nat \ {0}
    BY LoadAlignPositive
  <1> HIDE DEF align
  <1>11. AlignUp(textEnd, align) \in Nat /\ textEnd <= AlignUp(textEnd, align)
    BY <1>8, <1>10, AlignUpFacts
  <1>12. DataStart(L.ram, align) \in Nat /\ L.ram + RamReserved <= DataStart(L.ram, align)
    <2>1. L.ram + RamReserved \in Nat
      BY <1>2
    <2> QED  BY <1>10, <2>1, AlignUpFacts DEF DataStart
  <1>13. /\ data.end \in Nat /\ DataStart(L.ram, align) <= data.end
         /\ InLine(o.secs, data.at, "data", DataStart(L.ram, align), data.end)
    BY <1>3, <1>12, PlaceFacts
  <1> HIDE DEF data
  <1>14. /\ bss.end \in Nat /\ data.end <= bss.end
         /\ InLine(o.secs, bss.at, "bss", data.end, bss.end)
    BY <1>3, <1>13, PlaceFacts
  <1> HIDE DEF bss
  <1>15. /\ common.end \in Nat /\ bss.end <= common.end
         /\ DOMAIN common.at = {j \in DOMAIN Commons(o): Commons(o)[j].class = "common"}
         /\ InLine(Commons(o), common.at, "common", bss.end, common.end)
    BY <1>14, ObjectParts, PlaceFacts
  <1>16. DOMAIN common.at = {k \in DOMAIN o.syms: o.syms[k].sec = -1}
    <2>1. \A k \in DOMAIN o.syms: Commons(o)[k].class = "common" <=> o.syms[k].sec = -1
      BY DEF Commons
    <2> QED  BY <1>15, <2>1, ObjectParts
  <1> HIDE DEF common
  <1>17. DOMAIN p.at = Kept(o) /\ DOMAIN p.veneer = Used(o)
    BY <1>1 DEF vat
  <1>18. \A k \in DOMAIN o.secs:
            /\ o.secs[k].class = "text" => p.at[k] = text.at[k]
            /\ o.secs[k].class = "rodata" => p.at[k] = rodata.at[k]
            /\ o.secs[k].class = "data" => p.at[k] = data.at[k]
            /\ o.secs[k].class = "bss" => p.at[k] = bss.at[k]
    <2> SUFFICES ASSUME NEW k \in DOMAIN o.secs, o.secs[k].class \in Classes
                 PROVE  /\ o.secs[k].class = "text" => p.at[k] = text.at[k]
                        /\ o.secs[k].class = "rodata" => p.at[k] = rodata.at[k]
                        /\ o.secs[k].class = "data" => p.at[k] = data.at[k]
                        /\ o.secs[k].class = "bss" => p.at[k] = bss.at[k]
      BY DEF Classes
    <2>1. p.at[k] = CASE o.secs[k].class = "text" -> text.at[k]
                      [] o.secs[k].class = "rodata" -> rodata.at[k]
                      [] o.secs[k].class = "data" -> data.at[k]
                      [] o.secs[k].class = "bss" -> bss.at[k]
      BY <1>1 DEF Kept
    <2> QED  BY <2>1
  <1>19. /\ InLine(o.secs, p.at, "text", L.slot + HeaderSize, text.end)
         /\ InLine(o.secs, p.at, "rodata", text.end, p.codeEnd)
         /\ InLine(o.secs, p.at, "data", p.dataStart, p.dataEnd)
         /\ InLine(o.secs, p.at, "bss", p.dataEnd, bss.end)
         /\ InLine(Commons(o), p.common, "common", bss.end, p.end)
    <2>1. InLine(o.secs, p.at, "text", L.slot + HeaderSize, text.end)
      BY <1>4, <1>18, InLineSame
    <2>2. InLine(o.secs, p.at, "rodata", text.end, rodata.end)
      BY <1>5, <1>18, InLineSame
    <2>3. InLine(o.secs, p.at, "data", DataStart(L.ram, align), data.end)
      BY <1>13, <1>18, InLineSame
    <2>4. InLine(o.secs, p.at, "bss", data.end, bss.end)
      BY <1>14, <1>18, InLineSame
    <2>5. p.codeEnd = rodata.end /\ p.dataStart = DataStart(L.ram, align) /\ p.dataEnd = data.end
          /\ p.common = common.at /\ p.end = common.end
      BY <1>1
    <2> QED  BY <1>15, <2>1, <2>2, <2>3, <2>4, <2>5
  <1>20. \A i \in Used(o): /\ p.veneer[i] \in Nat /\ p.codeEnd <= p.veneer[i]
                           /\ p.veneer[i] + VeneerSize <= p.textEnd
                           /\ \A j \in Used(o): i < j => p.veneer[i] + VeneerSize <= p.veneer[j]
    BY <1>1, <1>5, <1>6, <1>9
  <1>21. /\ p.codeEnd \in Nat /\ p.textEnd \in Nat /\ p.dataLoad \in Nat
         /\ p.dataStart \in Nat /\ p.dataEnd \in Nat /\ p.end \in Nat
         /\ L.slot + HeaderSize <= p.codeEnd /\ p.codeEnd <= p.textEnd /\ p.textEnd <= p.dataLoad
         /\ L.ram + RamReserved <= p.dataStart /\ p.dataStart <= p.dataEnd /\ p.dataEnd <= p.end
         /\ L.slot + HeaderSize <= text.end /\ text.end <= p.codeEnd
         /\ p.dataEnd <= bss.end /\ bss.end <= p.end
    BY <1>1, <1>2, <1>4, <1>5, <1>6, <1>8, <1>11, <1>12, <1>13, <1>14, <1>15
  <1>22. DOMAIN p.common = {k \in DOMAIN o.syms: o.syms[k].sec = -1}
    BY <1>1, <1>16
  <1> QED  BY <1>4, <1>14, <1>17, <1>19, <1>20, <1>21, <1>22 DEF Laid, p

\* Where the sections of a layout lie, and where COMMON symbols do.
LEMMA LaidSections ==
    ASSUME NEW o, WellFormed(o), NEW L, LayoutFits(L), NEW p, Laid(o, L, p), NEW k \in Kept(o)
    PROVE  /\ k \in Nat \ {0} /\ k \in DOMAIN o.secs /\ o.secs[k].class \in Classes
           /\ p.at[k] \in Nat /\ o.secs[k].size \in Nat /\ p.at[k] % o.secs[k].align = 0
           /\ o.secs[k].class \in {"text", "rodata"} =>
                 L.slot + HeaderSize <= p.at[k] /\ p.at[k] + o.secs[k].size <= p.codeEnd
           /\ o.secs[k].class = "data" => p.dataStart <= p.at[k] /\ p.at[k] + o.secs[k].size <= p.dataEnd
           /\ o.secs[k].class = "bss" => p.dataEnd <= p.at[k] /\ p.at[k] + o.secs[k].size <= p.end
  <1>1. k \in DOMAIN o.secs /\ o.secs[k].class \in Classes
    BY DEF Kept
  <1>2. k \in Nat \ {0} /\ o.secs[k].size \in Nat
    <2>1. Parts(o.secs, o.secs[k].class)
      BY ObjectParts
    <2> QED  BY <1>1, <2>1 DEF Parts
  <1>3. PICK m \in Nat: /\ InLine(o.secs, p.at, "text", L.slot + HeaderSize, m)
                        /\ InLine(o.secs, p.at, "rodata", m, p.codeEnd)
                        /\ L.slot + HeaderSize <= m /\ m <= p.codeEnd
    BY DEF Laid
  <1>4. PICK n \in Nat: /\ InLine(o.secs, p.at, "bss", p.dataEnd, n)
                        /\ p.dataEnd <= n /\ n <= p.end
    BY DEF Laid
  <1>5. InLine(o.secs, p.at, "data", p.dataStart, p.dataEnd)
    BY DEF Laid
  <1>6. p.codeEnd \in Nat /\ p.end \in Nat /\ p.dataEnd \in Nat /\ L.slot \in Nat /\ HeaderSize \in Nat
    BY ImageAssumption DEF Laid, LayoutFits
  <1>7. CASE o.secs[k].class = "text"
    <2>1. p.at[k] \in Nat /\ L.slot + HeaderSize <= p.at[k] /\ p.at[k] + o.secs[k].size <= m /\ p.at[k] % o.secs[k].align = 0
      BY <1>1, <1>3, <1>7 DEF InLine
    <2> QED  BY <1>1, <1>2, <1>3, <1>6, <1>7, <2>1
  <1>8. CASE o.secs[k].class = "rodata"
    <2>1. p.at[k] \in Nat /\ m <= p.at[k] /\ p.at[k] + o.secs[k].size <= p.codeEnd /\ p.at[k] % o.secs[k].align = 0
      BY <1>1, <1>3, <1>8 DEF InLine
    <2> QED  BY <1>1, <1>2, <1>3, <1>6, <1>8, <2>1
  <1>9. CASE o.secs[k].class = "data"
    <2>1. p.at[k] \in Nat /\ p.dataStart <= p.at[k] /\ p.at[k] + o.secs[k].size <= p.dataEnd /\ p.at[k] % o.secs[k].align = 0
      BY <1>1, <1>5, <1>9 DEF InLine
    <2> QED  BY <1>1, <1>2, <1>9, <2>1
  <1>10. CASE o.secs[k].class = "bss"
    <2>1. p.at[k] \in Nat /\ p.dataEnd <= p.at[k] /\ p.at[k] + o.secs[k].size <= n /\ p.at[k] % o.secs[k].align = 0
      BY <1>1, <1>4, <1>10 DEF InLine
    <2> QED  BY <1>1, <1>2, <1>4, <1>6, <1>10, <2>1
  <1> QED  BY <1>1, <1>7, <1>8, <1>9, <1>10 DEF Classes

LEMMA LaidCommons ==
    ASSUME NEW o, WellFormed(o), NEW L, LayoutFits(L), NEW p, Laid(o, L, p), NEW k \in DOMAIN p.common
    PROVE  /\ k \in Nat \ {0} /\ k \in DOMAIN o.syms /\ o.syms[k].sec = -1
           /\ o.syms[k].value \in Nat \ {0} /\ o.syms[k].size \in Nat \ {0}
           /\ p.common[k] \in Nat /\ p.common[k] % o.syms[k].value = 0
           /\ p.dataEnd <= p.common[k] /\ p.common[k] + o.syms[k].size <= p.end
  <1>1. k \in DOMAIN o.syms /\ o.syms[k].sec = -1 /\ o.syms[k].value > 0 /\ o.syms[k].size > 0
    BY DEF Laid, WellFormed
  <1>2. /\ Commons(o)[k].class = "common" /\ Commons(o)[k].size = o.syms[k].size
        /\ Commons(o)[k].align = o.syms[k].value /\ k \in DOMAIN Commons(o)
    BY <1>1 DEF Commons
  <1>3. k \in Nat \ {0} /\ o.syms[k].value \in Nat /\ o.syms[k].size \in Nat
    <2>1. Parts(Commons(o), "common")
      BY ObjectParts
    <2> QED  BY <1>2, <2>1 DEF Parts
  <1>4. PICK n \in Nat: /\ InLine(Commons(o), p.common, "common", n, p.end)
                        /\ p.dataEnd <= n /\ n <= p.end
    BY DEF Laid
  <1>5. p.common[k] \in Nat /\ n <= p.common[k] /\ p.common[k] + o.syms[k].size <= p.end
        /\ p.common[k] % o.syms[k].value = 0
    BY <1>2, <1>4 DEF InLine
  <1>6. p.dataEnd \in Nat
    BY DEF Laid
  <1> QED  BY <1>1, <1>3, <1>4, <1>5, <1>6

\* Two parts of one class never overlap, nor do two of classes whose stretches do not.
LEMMA InLineApart ==
    ASSUME NEW parts, NEW at, NEW c, NEW from, NEW to, InLine(parts, at, c, from, to),
           NEW j \in DOMAIN parts, NEW k \in DOMAIN parts, parts[j].class = c, parts[k].class = c,
           j \in Int, k \in Int, j # k
    PROVE  at[j] + parts[j].size <= at[k] \/ at[k] + parts[k].size <= at[j]
  <1>1. j < k \/ k < j
    OBVIOUS
  <1> QED  BY <1>1 DEF InLine

LEMMA SectionsApart ==
    ASSUME NEW o, WellFormed(o), NEW L, LayoutFits(L), NEW p, Laid(o, L, p),
           p.codeEnd <= L.slot + L.slotSize,
           NEW j \in Kept(o), NEW k \in Kept(o), j # k
    PROVE  p.at[j] + o.secs[j].size <= p.at[k] \/ p.at[k] + o.secs[k].size <= p.at[j]

  <1>1. \A x \in {j, k}:
           /\ x \in Nat \ {0} /\ x \in DOMAIN o.secs /\ o.secs[x].class \in Classes
           /\ p.at[x] \in Nat /\ o.secs[x].size \in Nat
           /\ o.secs[x].class \in {"text", "rodata"} => p.at[x] + o.secs[x].size <= p.codeEnd
           /\ o.secs[x].class = "data" => p.dataStart <= p.at[x] /\ p.at[x] + o.secs[x].size <= p.dataEnd
           /\ o.secs[x].class = "bss" => p.dataEnd <= p.at[x]
    BY LaidSections
  <1>2. /\ p.codeEnd \in Nat /\ p.dataStart \in Nat /\ p.dataEnd \in Nat
        /\ p.codeEnd <= p.dataStart /\ p.dataStart <= p.dataEnd
    <2>1. /\ L.slot \in Nat /\ L.slotSize \in Nat /\ L.ram \in Nat /\ L.slot + L.slotSize <= L.ram
          /\ RamReserved \in Nat
      BY ImageAssumption DEF LayoutFits
    <2>2. p.codeEnd \in Nat /\ p.dataStart \in Nat /\ p.dataEnd \in Nat
          /\ L.ram + RamReserved <= p.dataStart /\ p.dataStart <= p.dataEnd
      BY DEF Laid
    <2> QED  BY <2>1, <2>2
  <1>3. CASE o.secs[j].class = o.secs[k].class
    <2>1. \E from, to: InLine(o.secs, p.at, o.secs[j].class, from, to)
      BY <1>1 DEF Laid, Classes
    <2> QED  BY <1>1, <1>3, <2>1, InLineApart
  <1>4. CASE {o.secs[j].class, o.secs[k].class} = {"text", "rodata"}
    <2>1. PICK m \in Nat: /\ InLine(o.secs, p.at, "text", L.slot + HeaderSize, m)
                          /\ InLine(o.secs, p.at, "rodata", m, p.codeEnd)
      BY DEF Laid
    <2>2. \A x \in {j, k}: /\ o.secs[x].class = "text" => p.at[x] + o.secs[x].size <= m
                           /\ o.secs[x].class = "rodata" => m <= p.at[x]
      BY <1>1, <2>1 DEF InLine
    <2>3. \/ o.secs[j].class = "text" /\ o.secs[k].class = "rodata"
          \/ o.secs[k].class = "text" /\ o.secs[j].class = "rodata"
      BY <1>4
    <2> QED  BY <1>1, <2>2, <2>3
  <1>5. CASE \E x, y \in {j, k}: o.secs[x].class \in {"text", "rodata"} /\ o.secs[y].class \in {"data", "bss"}
    <2>1. PICK x, y \in {j, k}: o.secs[x].class \in {"text", "rodata"} /\ o.secs[y].class \in {"data", "bss"}
      BY <1>5
    <2>2. x # y
      BY <2>1
    <2>3. p.at[x] + o.secs[x].size <= p.at[y]
      BY <1>1, <1>2, <2>1
    <2> QED  BY <2>2, <2>3
  <1>6. CASE \E x, y \in {j, k}: o.secs[x].class = "data" /\ o.secs[y].class = "bss"
    <2>1. PICK x, y \in {j, k}: o.secs[x].class = "data" /\ o.secs[y].class = "bss"
      BY <1>6
    <2>2. x # y
      BY <2>1
    <2>3. p.at[x] + o.secs[x].size <= p.at[y]
      BY <1>1, <1>2, <2>1
    <2> QED  BY <2>2, <2>3
  <1> QED  BY <1>1, <1>3, <1>4, <1>5, <1>6 DEF Classes

-----------------------------------------------------------------------------
(***************************************************************************)
(* The cells of an image.  Each section lies in flash where nothing else   *)
(* does, so that the CHOOSEs of Cells have one candidate.                  *)
(***************************************************************************)
\* Long enough for the image of .data, and within its slot.
Holds(L, p, size) ==
    /\ p.codeEnd <= L.slot + L.slotSize
    /\ size \in Nat /\ p.dataLoad + p.dataEnd - p.dataStart <= L.slot + size /\ size <= L.slotSize

LEMMA FlashSections ==
    ASSUME NEW o, WellFormed(o), NEW L, LayoutFits(L), NEW p, Laid(o, L, p),
           NEW k \in Kept(o), o.secs[k].class # "bss"
    PROVE  /\ FlashAt(o, p, k) \in Nat /\ o.secs[k].size \in Nat
           /\ L.slot + HeaderSize <= FlashAt(o, p, k)
           /\ FlashAt(o, p, k) + o.secs[k].size <= p.dataLoad + p.dataEnd - p.dataStart
           /\ IF o.secs[k].class = "data" THEN p.dataLoad <= FlashAt(o, p, k)
              ELSE FlashAt(o, p, k) + o.secs[k].size <= p.codeEnd
  <1>1. /\ p.at[k] \in Nat /\ o.secs[k].size \in Nat /\ o.secs[k].class \in Classes
        /\ o.secs[k].class \in {"text", "rodata"} =>
              L.slot + HeaderSize <= p.at[k] /\ p.at[k] + o.secs[k].size <= p.codeEnd
        /\ o.secs[k].class = "data" => p.dataStart <= p.at[k] /\ p.at[k] + o.secs[k].size <= p.dataEnd
    BY LaidSections
  <1>2. /\ p.codeEnd \in Nat /\ p.textEnd \in Nat /\ p.dataLoad \in Nat /\ p.dataStart \in Nat /\ p.dataEnd \in Nat
        /\ L.slot + HeaderSize <= p.codeEnd /\ p.codeEnd <= p.textEnd /\ p.textEnd <= p.dataLoad
        /\ p.dataStart <= p.dataEnd
    BY DEF Laid
  <1>3. L.slot \in Nat /\ HeaderSize \in Nat
    BY ImageAssumption DEF LayoutFits
  <1>4. CASE o.secs[k].class = "data"
    <2>1. FlashAt(o, p, k) = p.at[k] - p.dataStart + p.dataLoad
      BY <1>4 DEF FlashAt, LoadAddress
    <2> QED  BY <1>1, <1>2, <1>3, <1>4, <2>1
  <1>5. CASE o.secs[k].class # "data"
    <2>1. FlashAt(o, p, k) = p.at[k] /\ o.secs[k].class \in {"text", "rodata"}
      BY <1>1, <1>5 DEF FlashAt, Classes
    <2> QED  BY <1>1, <1>2, <1>3, <1>5, <2>1
  <1> QED  BY <1>4, <1>5

LEMMA FlashApart ==
    ASSUME NEW o, WellFormed(o), NEW L, LayoutFits(L), NEW p, Laid(o, L, p),
           p.codeEnd <= L.slot + L.slotSize,
           NEW j \in Kept(o), o.secs[j].class # "bss",
           NEW k \in Kept(o), o.secs[k].class # "bss", j # k
    PROVE  \/ FlashAt(o, p, j) + o.secs[j].size <= FlashAt(o, p, k)
           \/ FlashAt(o, p, k) + o.secs[k].size <= FlashAt(o, p, j)
  <1>1. \A x \in {j, k}: /\ FlashAt(o, p, x) \in Nat /\ o.secs[x].size \in Nat
                         /\ IF o.secs[x].class = "data" THEN p.dataLoad <= FlashAt(o, p, x)
                            ELSE FlashAt(o, p, x) + o.secs[x].size <= p.codeEnd
    BY FlashSections
  <1>2. p.at[j] + o.secs[j].size <= p.at[k] \/ p.at[k] + o.secs[k].size <= p.at[j]
    BY SectionsApart
  <1>3. \A x \in {j, k}: p.at[x] \in Nat
    BY LaidSections
  <1>4. /\ p.codeEnd \in Nat /\ p.textEnd \in Nat /\ p.dataLoad \in Nat /\ p.dataStart \in Nat
        /\ p.codeEnd <= p.textEnd /\ p.textEnd <= p.dataLoad
    BY DEF Laid
  <1>5. \A x \in {j, k}: FlashAt(o, p, x) = IF o.secs[x].class = "data" THEN p.at[x] - p.dataStart + p.dataLoad
                                            ELSE p.at[x]
    BY DEF FlashAt, LoadAddress
  <1>6. CASE (o.secs[j].class = "data") <=> (o.secs[k].class = "data")
    BY <1>1, <1>2, <1>3, <1>4, <1>5, <1>6
  <1>7. CASE ~((o.secs[j].class = "data") <=> (o.secs[k].class = "data"))
    BY <1>1, <1>4, <1>7
  <1> QED  BY <1>6, <1>7

LEMMA SectionCell ==
    ASSUME NEW o, WellFormed(o), NEW L, LayoutFits(L), NEW p, Laid(o, L, p),
           NEW size, Holds(L, p, size),
           NEW k \in Kept(o), o.secs[k].class # "bss", NEW b \in 0..(o.secs[k].size - 1)
    PROVE  /\ FlashAt(o, p, k) + b - L.slot \in 0..(size - 1)
           /\ Cells(o, L, p, size)[FlashAt(o, p, k) + b - L.slot] = Content(o, p, k, b)
  <1> DEFINE F(x) == FlashAt(o, p, x)
             n == F(k) + b - L.slot
             a == L.slot + n
  <1>1. \A x \in Kept(o): o.secs[x].class # "bss" =>
            /\ F(x) \in Nat /\ o.secs[x].size \in Nat /\ L.slot + HeaderSize <= F(x)
            /\ F(x) + o.secs[x].size <= p.dataLoad + p.dataEnd - p.dataStart
    BY FlashSections
  <1>2. L.slot \in Nat /\ HeaderSize \in Nat /\ size \in Nat
        /\ p.dataLoad \in Nat /\ p.dataStart \in Nat /\ p.dataEnd \in Nat
        /\ p.dataLoad + p.dataEnd - p.dataStart <= L.slot + size
    BY ImageAssumption DEF LayoutFits, Laid, Holds
  <1>3. n \in 0..(size - 1) /\ ~(n < HeaderSize) /\ a = F(k) + b /\ a - F(k) = b
    <2>1. /\ F(k) \in Nat /\ o.secs[k].size \in Nat /\ L.slot + HeaderSize <= F(k)
          /\ F(k) + o.secs[k].size <= p.dataLoad + p.dataEnd - p.dataStart
      BY <1>1
    <2> HIDE DEF F
    <2> QED  BY <1>2, <2>1
  <1>4. SectionsAt(o, p, F(k) + b) = {k}
    <2>1. ASSUME NEW x \in SectionsAt(o, p, F(k) + b), x # k PROVE FALSE
      <3>1. /\ x \in Kept(o) /\ o.secs[x].class # "bss"
            /\ F(x) <= F(k) + b /\ F(k) + b < F(x) + o.secs[x].size
        BY <2>1 DEF SectionsAt
      <3>2. F(x) + o.secs[x].size <= F(k) \/ F(k) + o.secs[k].size <= F(x)
        BY <2>1, <3>1, FlashApart DEF Holds
      <3>3. F(x) \in Nat /\ F(k) \in Nat /\ o.secs[x].size \in Nat /\ o.secs[k].size \in Nat
        BY <1>1, <3>1
      <3> HIDE DEF F
      <3> QED  BY <3>1, <3>2, <3>3
    <2>2. k \in SectionsAt(o, p, F(k) + b)
      <3>1. F(k) \in Nat /\ o.secs[k].size \in Nat
        BY <1>1
      <3> HIDE DEF F
      <3>2. F(k) <= F(k) + b /\ F(k) + b < F(k) + o.secs[k].size
        BY <3>1
      <3> QED  BY <3>2 DEF SectionsAt, F
    <2> QED  BY <2>1, <2>2
  <1> HIDE DEF F, n
  <1>5. SectionsAt(o, p, a) = {k}
    BY <1>3, <1>4
  <1>6. (CHOOSE j \in SectionsAt(o, p, a): TRUE) = k
    BY <1>5
  <1>7. Cells(o, L, p, size)[n] = CellAt(o, L, p, n)
    BY <1>3 DEF Cells
  <1>8. CellAt(o, L, p, n) = Content(o, p, k, a - F(k))
    BY <1>3, <1>5, <1>6 DEF CellAt, F
  <1> QED  BY <1>3, <1>7, <1>8 DEF n, F

LEMMA VeneerCell ==
    ASSUME NEW o, WellFormed(o), NEW L, LayoutFits(L), NEW p, Laid(o, L, p),
           NEW size, Holds(L, p, size), NEW i \in Used(o)
    PROVE  /\ p.veneer[i] - L.slot \in 0..(size - 1)
           /\ Cells(o, L, p, size)[p.veneer[i] - L.slot] = Cell(0, "veneer", i, 0)
  <1> DEFINE n == p.veneer[i] - L.slot
             a == L.slot + n
  <1>1. /\ p.codeEnd \in Nat /\ p.textEnd \in Nat /\ p.dataLoad \in Nat /\ p.dataStart \in Nat /\ p.dataEnd \in Nat
        /\ L.slot + HeaderSize <= p.codeEnd /\ p.codeEnd <= p.textEnd /\ p.textEnd <= p.dataLoad
        /\ p.dataStart <= p.dataEnd
    BY DEF Laid
  <1>2. L.slot \in Nat /\ HeaderSize \in Nat /\ size \in Nat /\ VeneerSize \in Nat \ {0}
        /\ p.dataLoad + p.dataEnd - p.dataStart <= L.slot + size
    BY ImageAssumption DEF LayoutFits, Holds
  <1>3. DOMAIN p.veneer = Used(o) /\ Used(o) \in SUBSET Nat
    <2>1. \A r \in Rels(o): IsService(o.syms[r.sym]) => ServiceIndex[o.syms[r.sym].name] \in Nat
      BY ImageAssumption DEF IsService
    <2> QED  BY <2>1 DEF Laid, Used
  <1>4. \A x \in Used(o): /\ p.veneer[x] \in Nat /\ p.codeEnd <= p.veneer[x]
                          /\ p.veneer[x] + VeneerSize <= p.textEnd
                          /\ \A y \in Used(o): x < y => p.veneer[x] + VeneerSize <= p.veneer[y]
    BY DEF Laid
  <1>5. n \in 0..(size - 1) /\ ~(n < HeaderSize) /\ a = p.veneer[i] /\ a - p.veneer[i] = 0
    <2>1. p.veneer[i] \in Nat /\ p.codeEnd <= p.veneer[i] /\ p.veneer[i] + VeneerSize <= p.textEnd
      BY <1>4
    <2>2. n \in Int /\ 0 <= n /\ n <= size - 1 /\ HeaderSize <= n
      BY <1>1, <1>2, <2>1
    <2> QED  BY <1>2, <2>1, <2>2
  <1>6. SectionsAt(o, p, p.veneer[i]) = {}
    <2> SUFFICES ASSUME NEW x \in SectionsAt(o, p, p.veneer[i]) PROVE FALSE
      OBVIOUS
    <2>1. /\ x \in Kept(o) /\ o.secs[x].class # "bss"
          /\ FlashAt(o, p, x) <= p.veneer[i] /\ p.veneer[i] < FlashAt(o, p, x) + o.secs[x].size
      BY DEF SectionsAt
    <2>2. /\ FlashAt(o, p, x) \in Nat /\ o.secs[x].size \in Nat
          /\ IF o.secs[x].class = "data" THEN p.dataLoad <= FlashAt(o, p, x)
             ELSE FlashAt(o, p, x) + o.secs[x].size <= p.codeEnd
      BY <2>1, FlashSections
    <2> QED  BY <1>1, <1>2, <1>4, <2>1, <2>2
  <1>7. VeneersAt(p, p.veneer[i]) = {i}
    <2>1. ASSUME NEW x \in VeneersAt(p, p.veneer[i]), x # i PROVE FALSE
      <3>1. x \in Used(o) /\ p.veneer[x] <= p.veneer[i] /\ p.veneer[i] < p.veneer[x] + VeneerSize
        BY <1>3, <2>1 DEF VeneersAt
      <3>2. x \in Nat /\ i \in Nat /\ p.veneer[x] \in Nat /\ p.veneer[i] \in Nat
        BY <1>3, <1>4, <3>1
      <3>3. x < i \/ i < x
        BY <2>1, <3>2
      <3>4. p.veneer[x] + VeneerSize <= p.veneer[i] \/ p.veneer[i] + VeneerSize <= p.veneer[x]
        BY <1>4, <3>1, <3>3
      <3> QED  BY <1>2, <3>1, <3>2, <3>4
    <2>2. i \in VeneersAt(p, p.veneer[i])
      BY <1>2, <1>3, <1>4 DEF VeneersAt
    <2> QED  BY <2>1, <2>2
  <1> HIDE DEF n
  <1>8. SectionsAt(o, p, a) = {} /\ VeneersAt(p, a) = {i}
    BY <1>5, <1>6, <1>7
  <1>9. (CHOOSE j \in VeneersAt(p, a): TRUE) = i
    BY <1>8
  <1>10. Cells(o, L, p, size)[n] = CellAt(o, L, p, n)
    BY <1>5 DEF Cells
  <1>11. CellAt(o, L, p, n) = Cell(0, "veneer", i, a - p.veneer[i])
    BY <1>5, <1>8, <1>9 DEF CellAt
  <1>12. Cells(o, L, p, size)[n] = Cell(0, "veneer", i, 0)
    BY <1>5, <1>10, <1>11
  <1> QED  BY <1>5, <1>12 DEF n

-----------------------------------------------------------------------------
(***************************************************************************)
(* What link has checked of the image it returns.                          *)
(***************************************************************************)
Accepts(o, L, p, app, size) ==
    /\ Laid(o, L, p) /\ Holds(L, p, size) /\ p.end <= L.ram + L.ramSize
    /\ Used(o) \subseteq 0..(L.services - 1)
    /\ \A r \in Rels(o): Address(o, p, r.sym) # -1
    /\ app \in GetApps(o) /\ o.syms[app].thumb
    /\ L.slot <= Address(o, p, app) /\ Address(o, p, app) < p.textEnd

LEMMA SymbolFacts ==
    ASSUME NEW o, WellFormed(o), NEW k \in DOMAIN o.syms
    PROVE  /\ o.syms[k].sec \in Int /\ o.syms[k].value \in Nat /\ o.syms[k].size \in Nat
           /\ o.syms[k].thumb \in BOOLEAN
           /\ k \in Nat \ {0}
  <1> DEFINE YR == [name : STRING, bind : STRING, sec : Int, value : Nat, size : Nat, thumb : BOOLEAN]
  <1>1. o.syms \in Seq(YR)
    BY DEF WellFormed
  <1> HIDE DEF YR
  <1>2. o.syms[k] \in YR
    BY <1>1, SequenceFacts
  <1>3. k \in Nat \ {0}
    <2>1. DOMAIN o.syms = 1..Len(o.syms) /\ Len(o.syms) \in Nat
      BY ObjectParts
    <2> QED  BY <2>1
  <1> QED  BY <1>2, <1>3 DEF YR

LEMMA AddressFacts ==
    ASSUME NEW o, WellFormed(o), NEW L, LayoutFits(L), NEW p, Laid(o, L, p), NEW k \in DOMAIN o.syms
    PROVE  Address(o, p, k) \in Int
  <1> DEFINE sym == o.syms[k]
  <1>1. sym.sec \in Int /\ sym.value \in Nat
    BY SymbolFacts
  <1>2. \A i \in DOMAIN p.veneer: p.veneer[i] \in Nat
    BY DEF Laid
  <1>3. sym.sec = -1 => p.common[k] \in Nat
    <2>1. sym.sec = -1 => k \in DOMAIN p.common
      BY DEF Laid
    <2> QED  BY <2>1, LaidCommons
  <1>4. sym.sec \in DOMAIN p.at => p.at[sym.sec] \in Nat
    <2>1. DOMAIN p.at = Kept(o)
      BY DEF Laid
    <2> QED  BY <2>1, LaidSections
  <1> HIDE DEF sym
  <1>5. CASE IsService(sym) /\ ServiceIndex[sym.name] \in DOMAIN p.veneer
    BY <1>2, <1>5 DEF Address, sym
  <1>6. CASE ~(IsService(sym) /\ ServiceIndex[sym.name] \in DOMAIN p.veneer)
    <2>1. Address(o, p, k) = CASE sym.sec = 0 -> IF sym.bind = "weak" THEN 0 ELSE -1
                               [] sym.sec = -1 -> p.common[k]
                               [] OTHER -> IF sym.sec \in DOMAIN p.at THEN p.at[sym.sec] + sym.value ELSE -1
      BY <1>6 DEF Address, sym
    <2>2. CASE sym.sec = 0
      BY <2>1, <2>2
    <2>3. CASE sym.sec = -1
      BY <1>1, <1>3, <2>1, <2>3
    <2>4. CASE sym.sec # 0 /\ sym.sec # -1
      BY <1>1, <1>4, <2>1, <2>4
    <2> QED  BY <2>2, <2>3, <2>4
  <1> QED  BY <1>5, <1>6

LEMMA LinkAccepts ==
    ASSUME NEW o, WellFormed(o), NEW L, LayoutFits(L), Link(o, L).ok
    PROVE  \E p, app, size: Link(o, L) = Linked(o, L, p, app, size) /\ Accepts(o, L, p, app, size)
  <1> DEFINE p == Lay(o, L)
             app == Min(GetApps(o))
             size == AlignUp(p.dataLoad + p.dataEnd - p.dataStart - L.slot, ImageAlign)
             entry == Address(o, p, app)
  <1>1. Failed.ok = FALSE
    BY DEF Failed
  <1>2. Link(o, L) = LinkPlaced(o, L, p) /\ ~(\E i \in Used(o): i >= L.services)
    BY <1>1 DEF Link
  <1>3. /\ ~(p.codeEnd > L.slot + L.slotSize) /\ ~(p.end > L.ram + L.ramSize)
        /\ \A r \in Rels(o): Address(o, p, r.sym) # -1
        /\ GetApps(o) # {} /\ o.syms[app].thumb /\ ~(entry < L.slot) /\ ~(entry >= p.textEnd) /\ ~(size > L.slotSize)
        /\ LinkPlaced(o, L, p) = Linked(o, L, p, app, size)
    <2> HIDE DEF p
    <2> QED  BY <1>1, <1>2 DEF LinkPlaced
  <1>4. L.slot \in Nat /\ L.slotSize \in Nat /\ L.ram \in Nat /\ L.ramSize \in Nat /\ L.services \in Nat
    BY DEF LayoutFits
  <1>5. Used(o) \subseteq 0..(L.services - 1)
    <2>1. \A r \in Rels(o): IsService(o.syms[r.sym]) => ServiceIndex[o.syms[r.sym].name] \in Nat
      BY ImageAssumption DEF IsService
    <2>2. Used(o) \in SUBSET Nat
      BY <2>1 DEF Used
    <2> QED  BY <1>2, <1>4, <2>2
  <1>6. Laid(o, L, p)
    BY <1>5, LayFacts
  <1> HIDE DEF p
  <1>7. /\ p.codeEnd \in Nat /\ p.textEnd \in Nat /\ p.dataLoad \in Nat /\ p.dataStart \in Nat /\ p.dataEnd \in Nat
        /\ p.end \in Nat
        /\ L.slot + HeaderSize <= p.codeEnd /\ p.codeEnd <= p.textEnd /\ p.textEnd <= p.dataLoad
        /\ p.dataStart <= p.dataEnd
    BY <1>6 DEF Laid
  <1>8. HeaderSize \in Nat /\ ImageAlign \in Nat \ {0}
    BY ImageAssumption
  <1>9. size \in Nat /\ p.dataLoad + p.dataEnd - p.dataStart - L.slot <= size
    <2>1. p.dataLoad + p.dataEnd - p.dataStart - L.slot \in Nat
      BY <1>4, <1>7, <1>8
    <2> QED  BY <1>8, <2>1, AlignUpFacts
  <1>10. app \in GetApps(o)
    <2>1. GetApps(o) \in SUBSET Nat
      BY SymbolFacts DEF GetApps
    <2>2. \E n \in GetApps(o): \A k \in GetApps(o): n <= k
      BY <1>3, <2>1, LeastNumber
    <2> QED  BY <2>2 DEF Min
  <1>11. entry \in Int
    <2>1. app \in DOMAIN o.syms
      BY <1>10 DEF GetApps
    <2> QED  BY <1>6, <2>1, AddressFacts
  <1> HIDE DEF app, size, entry
  <1>12. Holds(L, p, size) /\ p.end <= L.ram + L.ramSize /\ L.slot <= entry /\ entry < p.textEnd
    BY <1>3, <1>4, <1>7, <1>9, <1>11 DEF Holds
  <1>13. Accepts(o, L, p, app, size)
    BY <1>3, <1>5, <1>6, <1>10, <1>12 DEF Accepts, entry
  <1> QED  BY <1>2, <1>3, <1>13

\* The entry point lies behind the header.
LEMMA EntryInText ==
    ASSUME NEW o, WellFormed(o), NEW L, LayoutFits(L), NEW p, NEW app, NEW size, Accepts(o, L, p, app, size)
    PROVE  /\ Address(o, p, app) \in Nat
           /\ L.slot + HeaderSize <= Address(o, p, app) /\ Address(o, p, app) < p.textEnd
  <1> DEFINE sym == o.syms[app]
             entry == Address(o, p, app)
  <1>1. /\ app \in DOMAIN o.syms /\ sym.name = "plcc_get_app" /\ sym.sec # 0
        /\ Laid(o, L, p) /\ L.slot <= entry /\ entry < p.textEnd
        /\ p.codeEnd <= L.slot + L.slotSize /\ size \in Nat
        /\ p.dataLoad + p.dataEnd - p.dataStart <= L.slot + size /\ size <= L.slotSize
    BY DEF Accepts, GetApps, Holds
  <1>2. entry \in Int /\ sym.sec \in Int /\ sym.value \in Nat
    BY <1>1, AddressFacts, SymbolFacts
  <1>3. entry = CASE sym.sec = -1 -> p.common[app]
                  [] OTHER -> IF sym.sec \in DOMAIN p.at THEN p.at[sym.sec] + sym.value ELSE -1
    <2>1. ~IsService(sym)
      BY <1>1, ImageAssumption DEF IsService
    <2> HIDE DEF sym
    <2> QED  BY <1>1, <2>1 DEF Address, sym
  <1>4. /\ L.slot \in Nat /\ L.slotSize \in Nat /\ L.ram \in Nat /\ L.slot + L.slotSize <= L.ram
        /\ HeaderSize \in Nat /\ RamReserved \in Nat
    BY ImageAssumption DEF LayoutFits
  <1>5. /\ p.codeEnd \in Nat /\ p.textEnd \in Nat /\ p.dataLoad \in Nat /\ p.dataStart \in Nat /\ p.dataEnd \in Nat
        /\ L.slot + HeaderSize <= p.codeEnd /\ L.ram + RamReserved <= p.dataStart /\ p.dataStart <= p.dataEnd
        /\ DOMAIN p.at = Kept(o) /\ DOMAIN p.common = {k \in DOMAIN o.syms: o.syms[k].sec = -1}
    BY <1>1 DEF Laid
  <1>6. L.slot + HeaderSize \in Nat /\ L.slot + HeaderSize <= p.dataStart /\ L.slot + HeaderSize <= p.dataEnd
    <2> HIDE DEF entry, sym
    <2> QED  BY <1>1, <1>4, <1>5
  <1>7. CASE sym.sec = -1
    <2>1. p.common[app] \in Nat /\ p.dataEnd <= p.common[app]
      BY <1>1, <1>5, <1>7, LaidCommons
    <2>2. entry = p.common[app]
      BY <1>3, <1>7
    <2> HIDE DEF entry
    <2>3. L.slot + HeaderSize <= entry /\ entry \in Nat
      BY <1>5, <1>6, <2>1, <2>2
    <2> QED  BY <1>1, <2>3 DEF entry
  <1>8. CASE sym.sec # -1
    <2>1. sym.sec \in Kept(o) /\ entry = p.at[sym.sec] + sym.value
      <3> HIDE DEF entry, sym
      <3> QED  BY <1>1, <1>2, <1>3, <1>4, <1>5, <1>8
    <2>2. /\ p.at[sym.sec] \in Nat /\ o.secs[sym.sec].class \in Classes
          /\ o.secs[sym.sec].class \in {"text", "rodata"} => L.slot + HeaderSize <= p.at[sym.sec]
          /\ o.secs[sym.sec].class = "data" => p.dataStart <= p.at[sym.sec]
          /\ o.secs[sym.sec].class = "bss" => p.dataEnd <= p.at[sym.sec]
      BY <1>1, <2>1, LaidSections
    <2> HIDE DEF sym
    <2>3. L.slot + HeaderSize <= p.at[sym.sec]
      <3>1. CASE o.secs[sym.sec].class = "data"
        BY <1>5, <1>6, <2>2, <3>1
      <3>2. CASE o.secs[sym.sec].class = "bss"
        BY <1>5, <1>6, <2>2, <3>2
      <3> QED  BY <2>2, <3>1, <3>2 DEF Classes
    <2> HIDE DEF entry
    <2>4. L.slot + HeaderSize <= entry /\ entry \in Nat
      BY <1>2, <1>6, <2>1, <2>2, <2>3
    <2> QED  BY <1>1, <2>4 DEF entry
  <1> QED  BY <1>7, <1>8

LEMMA LinkedChecks ==
    ASSUME NEW o, WellFormed(o), NEW L, LayoutFits(L), NEW p, NEW app, NEW size, Accepts(o, L, p, app, size)
    PROVE  Check(Linked(o, L, p, app, size).header, L, L.version)
  <1> DEFINE h == Linked(o, L, p, app, size).header
             entry == Address(o, p, app)
             services == IF DOMAIN p.veneer = {} THEN 0 ELSE Max(DOMAIN p.veneer) + 1
  <1>1. /\ h.target = L.target /\ h.version = L.version /\ h.abi = L.abi /\ h.services = services
        /\ h.slot = L.slot /\ h.slotSize = L.slotSize /\ h.ram = L.ram /\ h.ramSize = L.ramSize
        /\ h.size = size /\ h.text = L.slot + HeaderSize /\ h.textSize = p.textEnd - L.slot - HeaderSize
        /\ h.dataLoad = p.dataLoad /\ h.data = p.dataStart /\ h.dataSize = p.dataEnd - p.dataStart
        /\ h.bss = p.dataEnd /\ h.bssSize = p.end - p.dataEnd
        /\ h.servicesSlot = L.ram /\ h.getApp = entry /\ h.thumb = o.syms[app].thumb
    BY DEF Linked
  <1> HIDE DEF h
  <1>2. /\ L.version \in Nat /\ L.slot \in Nat /\ L.slotSize \in Nat /\ L.ram \in Nat /\ L.ramSize \in Nat
        /\ L.services \in Nat /\ L.slot + L.slotSize <= L.ram /\ HeaderSize \in Nat /\ RamReserved \in Nat
    BY ImageAssumption DEF LayoutFits
  <1>3. /\ Laid(o, L, p) /\ p.end <= L.ram + L.ramSize /\ Used(o) \subseteq 0..(L.services - 1) /\ o.syms[app].thumb
        /\ size \in Nat /\ p.dataLoad + p.dataEnd - p.dataStart <= L.slot + size /\ size <= L.slotSize
    BY DEF Accepts, Holds
  <1>4. /\ p.codeEnd \in Nat /\ p.textEnd \in Nat /\ p.dataLoad \in Nat /\ p.dataStart \in Nat /\ p.dataEnd \in Nat
        /\ p.end \in Nat
        /\ L.slot + HeaderSize <= p.codeEnd /\ p.codeEnd <= p.textEnd /\ p.textEnd <= p.dataLoad
        /\ L.ram + RamReserved <= p.dataStart /\ p.dataStart <= p.dataEnd /\ p.dataEnd <= p.end
        /\ DOMAIN p.veneer = Used(o)
    BY <1>3 DEF Laid
  <1>5. entry \in Nat /\ L.slot + HeaderSize <= entry /\ entry < p.textEnd
    BY EntryInText
  <1>6. services <= L.services
    <2>1. CASE Used(o) = {}
      BY <1>2, <1>4, <2>1
    <2>2. CASE Used(o) # {}
      <3>1. Used(o) \in SUBSET Nat /\ \A i \in Used(o): i <= L.services - 1 /\ i <= L.services
        BY <1>2, <1>3
      <3>2. Max(Used(o)) \in Used(o)
        BY <1>2, <2>2, <3>1, MaxOfBounded
      <3>3. Max(Used(o)) \in Nat /\ Max(Used(o)) <= L.services - 1
        BY <3>1, <3>2
      <3> QED  BY <1>2, <1>4, <2>2, <3>3
    <2> QED  BY <2>1, <2>2
  <1> HIDE DEF entry, services
  <1>7. HeaderSize <= size
    BY <1>2, <1>3, <1>4
  <1>8. Within(h.text, h.textSize, L.slot + HeaderSize, L.slot + h.size)
    BY <1>1, <1>2, <1>3, <1>4 DEF Within
  <1>9. Within(h.dataLoad, h.dataSize, h.text + h.textSize, L.slot + h.size)
    BY <1>1, <1>2, <1>3, <1>4 DEF Within
  <1>10. Within(h.data, h.dataSize, L.ram + RamReserved, L.ram + L.ramSize)
    BY <1>1, <1>2, <1>3, <1>4 DEF Within
  <1>11. BssAfterData(h, L)
    BY <1>1, <1>2, <1>3, <1>4 DEF Within, BssAfterData
  <1>12. Within(h.getApp, 1, h.text, h.text + h.textSize)
    BY <1>1, <1>2, <1>4, <1>5 DEF Within
  <1>13. L.version <= h.version /\ h.version <= L.version
    BY <1>1, <1>2
  <1>14. Check(h, L, L.version)
    BY <1>1, <1>3, <1>6, <1>7, <1>8, <1>9, <1>10, <1>11, <1>12, <1>13 DEF Check
  <1> QED  BY <1>14 DEF h

\* No two sections or COMMON symbols share a cell, and each lies aligned.
LEMMA LinkedApart ==
    ASSUME NEW o, WellFormed(o), NEW L, LayoutFits(L), NEW p, NEW app, NEW size, Accepts(o, L, p, app, size)
    PROVE  Apart(o, Linked(o, L, p, app, size))
  <1> DEFINE i == Linked(o, L, p, app, size)
             A == {<<k, p.at[k], o.secs[k].size>> : k \in Kept(o)}
             B == {<<-k, p.common[k], o.syms[k].size>> : k \in DOMAIN p.common}
             Off(s, t) == s[2] + s[3] <= t[2] \/ t[2] + t[3] <= s[2]
  <1>1. i.at = p.at /\ i.common = p.common
    BY DEF Linked
  <1> HIDE DEF i
  <1>2. Spans(o, i) = A \cup B
    BY <1>1 DEF Spans
  <1>3. Laid(o, L, p) /\ p.codeEnd <= L.slot + L.slotSize
    BY DEF Accepts, Holds
  <1>4. \A k \in Kept(o): /\ k \in Nat \ {0} /\ p.at[k] \in Nat /\ o.secs[k].size \in Nat
                          /\ p.at[k] % o.secs[k].align = 0
                          /\ p.at[k] + o.secs[k].size <= p.end
    <2> SUFFICES ASSUME NEW k \in Kept(o)
                 PROVE  /\ k \in Nat \ {0} /\ p.at[k] \in Nat /\ o.secs[k].size \in Nat
                        /\ p.at[k] % o.secs[k].align = 0
                        /\ p.at[k] + o.secs[k].size <= p.end
      OBVIOUS
    <2>1. /\ k \in Nat \ {0} /\ o.secs[k].class \in Classes
          /\ p.at[k] \in Nat /\ o.secs[k].size \in Nat /\ p.at[k] % o.secs[k].align = 0
          /\ o.secs[k].class \in {"text", "rodata"} => p.at[k] + o.secs[k].size <= p.codeEnd
          /\ o.secs[k].class = "data" => p.at[k] + o.secs[k].size <= p.dataEnd
          /\ o.secs[k].class = "bss" => p.at[k] + o.secs[k].size <= p.end
      BY <1>3, LaidSections
    <2>2. /\ p.codeEnd \in Nat /\ p.dataEnd \in Nat /\ p.end \in Nat /\ p.dataStart \in Nat
          /\ p.dataStart <= p.dataEnd /\ p.dataEnd <= p.end /\ L.ram + RamReserved <= p.dataStart
      BY <1>3 DEF Laid
    <2>3. /\ L.slot \in Nat /\ L.slotSize \in Nat /\ L.ram \in Nat /\ RamReserved \in Nat /\ L.slot + L.slotSize <= L.ram
      BY ImageAssumption DEF LayoutFits
    <2>4. p.codeEnd <= p.end
      BY <1>3, <2>2, <2>3
    <2> QED  BY <2>1, <2>2, <2>4 DEF Classes
  <1>5. ASSUME NEW s \in A, NEW t \in A, s[1] # t[1] PROVE Off(s, t)
    <2>1. PICK j \in Kept(o): s = <<j, p.at[j], o.secs[j].size>>
      OBVIOUS
    <2>2. PICK k \in Kept(o): t = <<k, p.at[k], o.secs[k].size>>
      OBVIOUS
    <2>3. j # k
      BY <1>5, <2>1, <2>2
    <2>4. p.at[j] + o.secs[j].size <= p.at[k] \/ p.at[k] + o.secs[k].size <= p.at[j]
      BY <1>3, <2>3, SectionsApart
    <2> QED  BY <2>1, <2>2, <2>4
  <1>6. ASSUME NEW s \in B, NEW t \in B, s[1] # t[1] PROVE Off(s, t)
    <2>1. PICK j \in DOMAIN p.common: s = <<-j, p.common[j], o.syms[j].size>>
      OBVIOUS
    <2>2. PICK k \in DOMAIN p.common: t = <<-k, p.common[k], o.syms[k].size>>
      OBVIOUS
    <2>3. j # k
      BY <1>6, <2>1, <2>2
    <2>4. PICK n \in Nat: InLine(Commons(o), p.common, "common", n, p.end)
      BY <1>3 DEF Laid
    <2>5. \A x \in {j, k}: /\ x \in DOMAIN Commons(o) /\ x \in Nat /\ Commons(o)[x].class = "common"
                           /\ Commons(o)[x].size = o.syms[x].size
      BY <1>3, LaidCommons DEF Commons
    <2>6. p.common[j] + o.syms[j].size <= p.common[k] \/ p.common[k] + o.syms[k].size <= p.common[j]
      BY <2>3, <2>4, <2>5, InLineApart
    <2> QED  BY <2>1, <2>2, <2>6
  <1>7. ASSUME NEW s \in A, NEW t \in B PROVE s[2] + s[3] <= t[2]
    <2>1. PICK j \in Kept(o): s = <<j, p.at[j], o.secs[j].size>>
      OBVIOUS
    <2>2. PICK k \in DOMAIN p.common: t = <<-k, p.common[k], o.syms[k].size>>
      OBVIOUS
    <2>3. PICK n \in Nat: /\ InLine(o.secs, p.at, "bss", p.dataEnd, n)
                          /\ InLine(Commons(o), p.common, "common", n, p.end)
                          /\ p.dataEnd <= n
      BY <1>3 DEF Laid
    <2>4. n <= p.common[k] /\ p.common[k] \in Nat
      <3>1. k \in DOMAIN Commons(o) /\ Commons(o)[k].class = "common"
        BY <1>3, LaidCommons DEF Commons
      <3> QED  BY <2>3, <3>1 DEF InLine
    <2>5. p.at[j] + o.secs[j].size <= n
      <3>1. /\ j \in DOMAIN o.secs /\ o.secs[j].class \in Classes
            /\ p.at[j] \in Nat /\ o.secs[j].size \in Nat
            /\ o.secs[j].class \in {"text", "rodata"} => p.at[j] + o.secs[j].size <= p.codeEnd
            /\ o.secs[j].class = "data" => p.at[j] + o.secs[j].size <= p.dataEnd
        BY <1>3, LaidSections
      <3>2. /\ p.codeEnd \in Nat /\ p.dataEnd \in Nat /\ p.end \in Nat /\ p.dataStart \in Nat
            /\ p.dataStart <= p.dataEnd /\ L.ram + RamReserved <= p.dataStart
        BY <1>3 DEF Laid
      <3>3. /\ L.slot \in Nat /\ L.slotSize \in Nat /\ L.ram \in Nat /\ RamReserved \in Nat /\ L.slot + L.slotSize <= L.ram
        BY ImageAssumption DEF LayoutFits
      <3>4. p.codeEnd <= n /\ p.dataEnd <= n
        BY <1>3, <2>3, <3>2, <3>3
      <3>5. CASE o.secs[j].class = "bss"
        BY <2>3, <3>1, <3>5 DEF InLine
      <3>6. CASE o.secs[j].class # "bss"
        BY <3>1, <3>2, <3>4, <3>6 DEF Classes
      <3> QED  BY <3>5, <3>6
    <2> QED  BY <1>4, <2>1, <2>2, <2>4, <2>5
  <1>8. \A s, t \in Spans(o, i): s[1] # t[1] => Off(s, t)
    <2> HIDE DEF A, B, Off
    <2>1. ASSUME NEW s \in A \cup B, NEW t \in A \cup B, s[1] # t[1] PROVE Off(s, t)
      <3>1. s \in A /\ t \in B => Off(s, t)
        BY <1>7 DEF Off
      <3>2. s \in B /\ t \in A => Off(s, t)
        BY <1>7 DEF Off
      <3> QED  BY <1>5, <1>6, <2>1, <3>1, <3>2
    <2> QED  BY <1>2, <2>1
  <1>9. Apart(o, i)
    BY <1>1, <1>4, <1>8 DEF Apart
  <1> QED  BY <1>9 DEF i

-----------------------------------------------------------------------------
(***************************************************************************)
(* The memory a program starts in: its image in flash, and in RAM what     *)
(* prepare left there.                                                     *)
(***************************************************************************)
Starts(o, L, p, size, mem) ==
    /\ \A n \in 0..(size - 1): mem[L.slot + n] = Cells(o, L, p, size)[n]
    /\ \A a \in L.ram..(L.ram + L.ramSize - 1):
          mem[a] = IF a = L.ram THEN Cell(0, "table", 0, 0)
                   ELSE IF p.dataStart <= a /\ a < p.dataEnd
                   THEN Cells(o, L, p, size)[p.dataLoad + a - p.dataStart - L.slot]
                   ELSE ZeroCell

LEMMA StartsClear ==
    ASSUME NEW o, WellFormed(o), NEW L, LayoutFits(L), NEW p, Laid(o, L, p), p.end <= L.ram + L.ramSize,
           NEW size, NEW mem, Starts(o, L, p, size, mem),
           NEW a \in Nat, p.dataEnd <= a, a < p.end
    PROVE  mem[a] = ZeroCell
  <1>1. L.ram \in Nat /\ L.ramSize \in Nat /\ RamReserved \in Nat \ {0}
    BY ImageAssumption DEF LayoutFits
  <1>2. p.dataStart \in Nat /\ p.dataEnd \in Nat /\ p.end \in Nat
        /\ L.ram + RamReserved <= p.dataStart /\ p.dataStart <= p.dataEnd
    BY DEF Laid
  <1>3. a \in L.ram..(L.ram + L.ramSize - 1) /\ a # L.ram /\ ~(a < p.dataEnd)
    BY <1>1, <1>2
  <1> QED  BY <1>3 DEF Starts

LEMMA StartsSections ==
    ASSUME NEW o, WellFormed(o), NEW L, LayoutFits(L), NEW p, Laid(o, L, p), p.end <= L.ram + L.ramSize,
           NEW size, Holds(L, p, size), NEW mem, Starts(o, L, p, size, mem),
           NEW k \in Kept(o), o.secs[k].class # "bss", NEW b \in 0..(o.secs[k].size - 1)
    PROVE  mem[p.at[k] + b] = Content(o, p, k, b)
  <1>1. /\ FlashAt(o, p, k) + b - L.slot \in 0..(size - 1)
        /\ Cells(o, L, p, size)[FlashAt(o, p, k) + b - L.slot] = Content(o, p, k, b)
    BY SectionCell
  <1>2. L.ram \in Nat /\ L.ramSize \in Nat /\ RamReserved \in Nat \ {0} /\ L.slot \in Nat
    BY ImageAssumption DEF LayoutFits
  <1>3. p.dataStart \in Nat /\ p.dataEnd \in Nat /\ p.end \in Nat /\ p.dataLoad \in Nat
        /\ L.ram + RamReserved <= p.dataStart /\ p.dataEnd <= p.end
    BY DEF Laid
  <1>4. /\ p.at[k] \in Nat /\ o.secs[k].size \in Nat
        /\ o.secs[k].class = "data" => p.dataStart <= p.at[k] /\ p.at[k] + o.secs[k].size <= p.dataEnd
    BY LaidSections
  <1>5. CASE o.secs[k].class = "data"
    <2> DEFINE a == p.at[k] + b
    <2>1. a \in L.ram..(L.ram + L.ramSize - 1) /\ a # L.ram /\ p.dataStart <= a /\ a < p.dataEnd
      BY <1>2, <1>3, <1>4, <1>5
    <2>2. FlashAt(o, p, k) + b - L.slot = p.dataLoad + a - p.dataStart - L.slot
      <3>1. FlashAt(o, p, k) = p.at[k] - p.dataStart + p.dataLoad
        BY <1>5 DEF FlashAt, LoadAddress
      <3> QED  BY <1>2, <1>3, <1>4, <3>1
    <2>3. mem[a] = Cells(o, L, p, size)[p.dataLoad + a - p.dataStart - L.slot]
      <3> HIDE DEF a
      <3> QED  BY <2>1 DEF Starts
    <2> QED  BY <1>1, <2>2, <2>3
  <1>6. CASE o.secs[k].class # "data"
    <2> DEFINE n == FlashAt(o, p, k) + b - L.slot
    <2>1. L.slot + n = p.at[k] + b
      <3>1. FlashAt(o, p, k) = p.at[k]
        BY <1>6 DEF FlashAt
      <3> QED  BY <1>2, <1>4, <3>1
    <2>2. mem[L.slot + n] = Cells(o, L, p, size)[n]
      <3> HIDE DEF n
      <3>1. n \in 0..(size - 1)
        BY <1>1 DEF n
      <3> QED  BY <3>1 DEF Starts
    <2> QED  BY <1>1, <2>1, <2>2
  <1> QED  BY <1>5, <1>6

LEMMA StartsVeneers ==
    ASSUME NEW o, WellFormed(o), NEW L, LayoutFits(L), NEW p, Laid(o, L, p),
           NEW size, Holds(L, p, size), NEW mem, Starts(o, L, p, size, mem), NEW i \in Used(o)
    PROVE  mem[p.veneer[i]] = Cell(0, "veneer", i, 0)
  <1> DEFINE n == p.veneer[i] - L.slot
  <1>1. n \in 0..(size - 1) /\ Cells(o, L, p, size)[n] = Cell(0, "veneer", i, 0)
    BY VeneerCell
  <1>2. L.slot + n = p.veneer[i]
    <2>1. p.veneer[i] \in Nat /\ L.slot \in Nat
      BY DEF Laid, LayoutFits
    <2> QED  BY <2>1
  <1>3. mem[L.slot + n] = Cells(o, L, p, size)[n]
    <2> HIDE DEF n
    <2> QED  BY <1>1 DEF Starts
  <1> QED  BY <1>1, <1>2, <1>3

\* What lies at the address of the symbol of a relocation.
LEMMA StartsSymbols ==
    ASSUME NEW o, WellFormed(o), NEW L, LayoutFits(L), NEW p, NEW app, NEW size, Accepts(o, L, p, app, size),
           NEW mem, Starts(o, L, p, size, mem), NEW r \in Rels(o)
    PROVE  IsFirstCell(o, mem, Address(o, p, r.sym), o.syms[r.sym])
  <1> DEFINE k == r.sym
             sym == o.syms[k]
             a == Address(o, p, k)
  <1>1. /\ Laid(o, L, p) /\ Holds(L, p, size) /\ p.end <= L.ram + L.ramSize
        /\ a # -1 /\ k \in DOMAIN o.syms
        /\ DOMAIN p.at = Kept(o) /\ DOMAIN p.veneer = Used(o)
        /\ DOMAIN p.common = {j \in DOMAIN o.syms: o.syms[j].sec = -1}
    BY DEF Accepts, Rels, WellFormed, Laid
  <1>2. sym.sec \in Int /\ sym.value \in Nat
    BY <1>1, SymbolFacts
  <1>3. CASE IsService(sym)
    <2>1. ServiceIndex[sym.name] \in Used(o)
      BY <1>3 DEF Used
    <2>2. a = p.veneer[ServiceIndex[sym.name]]
      BY <1>1, <1>3, <2>1 DEF Address
    <2>3. mem[a] = Cell(0, "veneer", ServiceIndex[sym.name], 0)
      <3>1. \A i \in Used(o): mem[p.veneer[i]] = Cell(0, "veneer", i, 0)
        BY <1>1, StartsVeneers
      <3> HIDE DEF sym
      <3> QED  BY <2>1, <2>2, <3>1
    <2> HIDE DEF a, sym
    <2>4. IsFirstCell(o, mem, a, sym)
      BY <1>3, <2>3 DEF IsFirstCell, IsService
    <2> QED  BY <2>4 DEF a, sym
  <1>4. CASE ~IsService(sym)
    <2>1. a = CASE sym.sec = 0 -> IF sym.bind = "weak" THEN 0 ELSE -1
                [] sym.sec = -1 -> p.common[k]
                [] OTHER -> IF sym.sec \in DOMAIN p.at THEN p.at[sym.sec] + sym.value ELSE -1
      BY <1>4 DEF Address
    <2>2. sym.sec = 0 => a = 0
      BY <1>1, <2>1
    <2>3. ASSUME sym.sec = -1 PROVE mem[a] = ZeroCell /\ a % sym.value = 0
      <3>1. a = p.common[k] /\ k \in DOMAIN p.common
        BY <1>1, <2>1, <2>3
      <3>2. /\ sym.size \in Nat \ {0} /\ p.common[k] \in Nat /\ p.common[k] % sym.value = 0
            /\ p.dataEnd <= p.common[k] /\ p.common[k] + sym.size <= p.end
        BY <1>1, <3>1, LaidCommons
      <3>3. p.end \in Nat
        BY <1>1 DEF Laid
      <3>4. p.common[k] < p.end
        <4> DEFINE s == sym.size
        <4>1. s \in Nat \ {0} /\ p.common[k] + s <= p.end /\ p.common[k] \in Nat
          BY <3>2
        <4> HIDE DEF s
        <4> QED  BY <3>3, <4>1
      <3>5. mem[p.common[k]] = ZeroCell
        BY <1>1, <3>2, <3>4, StartsClear
      <3> QED  BY <3>1, <3>2, <3>5
    <2>4. ASSUME sym.sec # 0, sym.sec # -1, ~(sym.value >= o.secs[sym.sec].size)
          PROVE  IF o.secs[sym.sec].class = "bss" THEN mem[a] = ZeroCell
                 ELSE mem[a] = Cell(o.id, "sec", sym.sec, sym.value) \/ mem[a].k = "ref"
      <3>1. sym.sec \in Kept(o) /\ a = p.at[sym.sec] + sym.value
        BY <1>1, <2>1, <2>4
      <3>2. /\ p.at[sym.sec] \in Nat /\ o.secs[sym.sec].size \in Nat
            /\ o.secs[sym.sec].class = "bss" =>
                  p.dataEnd <= p.at[sym.sec] /\ p.at[sym.sec] + o.secs[sym.sec].size <= p.end
        BY <1>1, <3>1, LaidSections
      <3>3. CASE o.secs[sym.sec].class = "bss"
        <4>1. p.end \in Nat /\ p.dataEnd \in Nat
          BY <1>1 DEF Laid
        <4> HIDE DEF a, sym
        <4>2. a \in Nat /\ p.dataEnd <= a /\ a < p.end
          BY <1>2, <2>4, <3>1, <3>2, <3>3, <4>1
        <4>3. mem[a] = ZeroCell
          BY <1>1, <4>2, StartsClear
        <4> QED  BY <3>3, <4>3
      <3>4. CASE o.secs[sym.sec].class # "bss"
        <4> DEFINE s == sym.sec
                   v == sym.value
        <4>1. v \in 0..(o.secs[s].size - 1) /\ s \in Kept(o) /\ o.secs[s].class # "bss"
          BY <1>2, <2>4, <3>1, <3>2, <3>4
        <4>2. mem[p.at[s] + v] = Content(o, p, s, v)
          <5> HIDE DEF s, v
          <5> QED  BY <1>1, <4>1, StartsSections
        <4>3. mem[a] = Content(o, p, s, v)
          BY <3>1, <4>2
        <4> HIDE DEF s, v, a
        <4>4. mem[a] = Cell(o.id, "sec", s, v) \/ mem[a].k = "ref"
          BY <4>3 DEF Content, Cell
        <4> QED  BY <3>4, <4>4 DEF s, v
      <3> QED  BY <3>3, <3>4
    <2> HIDE DEF a, sym
    <2>5. IsFirstCell(o, mem, a, sym)
      BY <1>4, <2>2, <2>3, <2>4 DEF IsFirstCell, IsService
    <2> QED  BY <2>5 DEF a, sym
  <1> QED  BY <1>3, <1>4

LEMMA StartsWhole ==
    ASSUME NEW o, WellFormed(o), NEW L, LayoutFits(L), NEW p, NEW app, NEW size, Accepts(o, L, p, app, size),
           NEW mem, Starts(o, L, p, size, mem)
    PROVE  Whole(o, Linked(o, L, p, app, size), mem)
  <1> DEFINE i == Linked(o, L, p, app, size)
             At(k, b) == {r \in o.rels: r.sec = k /\ r.off = b}
  <1>1. i.at = p.at
    BY DEF Linked
  <1>2. Laid(o, L, p) /\ Holds(L, p, size) /\ p.end <= L.ram + L.ramSize
    BY DEF Accepts
  <1> HIDE DEF i
  <1> SUFFICES ASSUME NEW k \in Kept(o), NEW b \in 0..(o.secs[k].size - 1)
               PROVE  CASE o.secs[k].class = "bss" -> mem[p.at[k] + b] = ZeroCell
                        [] o.secs[k].class # "bss" /\ At(k, b) = {} -> mem[p.at[k] + b] = Cell(o.id, "sec", k, b)
                        [] OTHER -> /\ mem[p.at[k] + b].k = "ref"
                                    /\ \A r \in At(k, b): IsFirstCell(o, mem, mem[p.at[k] + b].a, o.syms[r.sym])
    BY <1>1 DEF Whole, i
  <1> DEFINE c == mem[p.at[k] + b]
  <1>3. /\ p.at[k] \in Nat /\ o.secs[k].size \in Nat
        /\ o.secs[k].class = "bss" => p.dataEnd <= p.at[k] /\ p.at[k] + o.secs[k].size <= p.end
    BY <1>2, LaidSections
  <1>4. CASE o.secs[k].class = "bss"
    <2>1. p.end \in Nat /\ p.dataEnd \in Nat
      BY <1>2 DEF Laid
    <2>2. p.at[k] + b \in Nat /\ p.dataEnd <= p.at[k] + b /\ p.at[k] + b < p.end
      BY <1>3, <1>4, <2>1
    <2>3. c = ZeroCell
      BY <1>2, <2>2, StartsClear
    <2> QED  BY <1>4, <2>3
  <1>5. CASE o.secs[k].class # "bss"
    <2>1. c = Content(o, p, k, b)
      BY <1>2, <1>5, StartsSections
    <2>2. CASE At(k, b) = {}
      <3>1. c = Cell(o.id, "sec", k, b)
        BY <2>1, <2>2 DEF Content
      <3> HIDE DEF c, At
      <3> QED  BY <1>5, <2>2, <3>1 DEF c
    <2>3. CASE At(k, b) # {}
      <3> DEFINE q == CHOOSE r \in At(k, b): TRUE
      <3>1. q \in At(k, b)
        BY <2>3
      <3>2. \A r \in At(k, b): r = q /\ r \in Rels(o)
        BY <3>1 DEF WellFormed, Rels
      <3>3. c = Cell(0, "ref", Address(o, p, q.sym), 0)
        BY <2>1, <2>3 DEF Content
      <3>4. c.k = "ref" /\ c.a = Address(o, p, q.sym)
        BY <3>3 DEF Cell
      <3>5. \A r \in At(k, b): IsFirstCell(o, mem, c.a, o.syms[r.sym])
        <4> SUFFICES ASSUME NEW r \in At(k, b) PROVE IsFirstCell(o, mem, c.a, o.syms[r.sym])
          OBVIOUS
        <4>1. r = q /\ r \in Rels(o)
          BY <3>2
        <4>2. IsFirstCell(o, mem, Address(o, p, r.sym), o.syms[r.sym])
          BY <4>1, StartsSymbols
        <4> QED  BY <3>4, <4>1, <4>2
      <3> HIDE DEF c, At
      <3> QED  BY <1>5, <2>3, <3>4, <3>5 DEF c
    <2> QED  BY <2>2, <2>3
  <1> QED  BY <1>4, <1>5

\* Flash that holds the image, and RAM prepared from it.
LEMMA PreparedStarts ==
    ASSUME NEW o, WellFormed(o), NEW L, LayoutFits(L), NEW p, NEW app, NEW size, Accepts(o, L, p, app, size),
           NEW D, D.ram = L.ram, D.ramSize = L.ramSize,
           NEW fl, L.slot..(L.slot + size - 1) \subseteq DOMAIN fl,
           \A n \in 0..(size - 1): fl[L.slot + n] = Cells(o, L, p, size)[n],
           NEW mem,
           LET ram == Prepare(fl, Linked(o, L, p, app, size).header, D)
           IN mem = [a \in DOMAIN fl \cup DOMAIN ram |-> IF a \in DOMAIN ram THEN ram[a] ELSE fl[a]]
    PROVE  Starts(o, L, p, size, mem)
  <1> DEFINE h == Linked(o, L, p, app, size).header
             ram == Prepare(fl, h, D)
             window == L.ram..(L.ram + L.ramSize - 1)
  <1>1. /\ h.servicesSlot = L.ram /\ h.data = p.dataStart /\ h.dataSize = p.dataEnd - p.dataStart
        /\ h.dataLoad = p.dataLoad
    BY DEF Linked
  <1>2. ram = [a \in window |-> CASE a = h.servicesSlot -> Cell(0, "table", 0, 0)
                                  [] a # h.servicesSlot /\ h.data <= a /\ a < h.data + h.dataSize ->
                                        fl[h.dataLoad + a - h.data]
                                  [] OTHER -> ZeroCell]
    BY DEF Prepare
  <1>3. mem = [a \in DOMAIN fl \cup window |-> IF a \in window THEN ram[a] ELSE fl[a]]
    <2>1. DOMAIN ram = window
      BY <1>2
    <2> QED  BY <2>1
  <1> HIDE DEF h, ram
  <1>4. /\ L.slot \in Nat /\ L.slotSize \in Nat /\ L.ram \in Nat /\ L.ramSize \in Nat
        /\ L.slot + L.slotSize <= L.ram
    BY DEF LayoutFits
  <1>5. /\ size \in Nat /\ size <= L.slotSize /\ p.dataLoad + p.dataEnd - p.dataStart <= L.slot + size
        /\ Laid(o, L, p)
    BY DEF Accepts, Holds
  <1>6. /\ p.codeEnd \in Nat /\ p.textEnd \in Nat /\ p.dataStart \in Nat /\ p.dataEnd \in Nat /\ p.dataLoad \in Nat
        /\ L.slot + HeaderSize <= p.codeEnd /\ p.codeEnd <= p.textEnd /\ p.textEnd <= p.dataLoad
    BY <1>5 DEF Laid
  <1>7. HeaderSize \in Nat
    BY ImageAssumption
  <1>8. ASSUME NEW n \in 0..(size - 1) PROVE mem[L.slot + n] = Cells(o, L, p, size)[n]
    <2>1. L.slot + n \in L.slot..(L.slot + size - 1) /\ L.slot + n \notin window
      BY <1>4, <1>5
    <2>2. mem[L.slot + n] = fl[L.slot + n]
      <3> HIDE DEF window
      <3> QED  BY <1>3, <2>1
    <2> QED  BY <2>2
  <1>9. ASSUME NEW a \in window
        PROVE  mem[a] = IF a = L.ram THEN Cell(0, "table", 0, 0)
                        ELSE IF p.dataStart <= a /\ a < p.dataEnd
                        THEN Cells(o, L, p, size)[p.dataLoad + a - p.dataStart - L.slot]
                        ELSE ZeroCell
    <2>1. a \in Int
      BY <1>4
    <2>2. mem[a] = ram[a]
      <3> HIDE DEF window
      <3> QED  BY <1>3
    <2>3. ram[a] = CASE a = h.servicesSlot -> Cell(0, "table", 0, 0)
                     [] a # h.servicesSlot /\ h.data <= a /\ a < h.data + h.dataSize -> fl[h.dataLoad + a - h.data]
                     [] OTHER -> ZeroCell
      <3> HIDE DEF window
      <3> QED  BY <1>2
    <2>4. (h.data <= a /\ a < h.data + h.dataSize) <=> (p.dataStart <= a /\ a < p.dataEnd)
      BY <1>1, <1>6, <2>1
    <2>5. ASSUME p.dataStart <= a, a < p.dataEnd
          PROVE  fl[h.dataLoad + a - h.data] = Cells(o, L, p, size)[p.dataLoad + a - p.dataStart - L.slot]
      <3> DEFINE n == p.dataLoad + a - p.dataStart - L.slot
      <3>1. n \in 0..(size - 1) /\ L.slot + n = h.dataLoad + a - h.data
        BY <1>1, <1>4, <1>5, <1>6, <1>7, <2>1, <2>5
      <3>2. fl[L.slot + n] = Cells(o, L, p, size)[n]
        <4> HIDE DEF n
        <4> QED  BY <3>1
      <3> QED  BY <3>1, <3>2
    <2> HIDE DEF window
    <2> QED  BY <1>1, <2>2, <2>3, <2>4, <2>5
  <1> QED  BY <1>8, <1>9 DEF Starts

-----------------------------------------------------------------------------
\* plcc-image and plcc_image.c, for every object and layout: an image that link returns passes the
\* device's check; its sections and COMMON symbols lie aligned, each where no other does; and in the
\* memory the loader starts it in, every cell of every section holds what the object put there, every
\* relocated cell the address of its symbol's first cell or of the veneer of its service.
THEOREM LinkedIsWhole ==
    ASSUME NEW o, WellFormed(o), NEW L, LayoutFits(L)
    PROVE  LinksWhole(o, L)
  <1> DEFINE i == Link(o, L)
  <1> SUFFICES ASSUME i.ok PROVE Check(i.header, L, L.version) /\ Apart(o, i) /\ Whole(o, i, Started(i, L))
    BY DEF LinksWhole
  <1>1. PICK p, app, size: i = Linked(o, L, p, app, size) /\ Accepts(o, L, p, app, size)
    BY LinkAccepts
  <1>2. Check(i.header, L, L.version)
    BY <1>1, LinkedChecks
  <1>3. Apart(o, i)
    BY <1>1, LinkedApart
  <1> HIDE DEF i
  <1> DEFINE fl == [a \in L.slot..(L.slot + i.header.size - 1) |-> i.cells[a - L.slot]]
             mem == Started(i, L)
  <1>4. i.header.size = size /\ i.cells = Cells(o, L, p, size)
    BY <1>1 DEF Linked
  <1>5. L.slot \in Nat /\ size \in Nat
    BY <1>1 DEF LayoutFits, Accepts, Holds
  <1>6. L.slot..(L.slot + size - 1) \subseteq DOMAIN fl
    BY <1>4
  <1>7. ASSUME NEW n \in 0..(size - 1) PROVE fl[L.slot + n] = Cells(o, L, p, size)[n]
    <2> DEFINE a == L.slot + n
    <2>1. a \in L.slot..(L.slot + i.header.size - 1) /\ a - L.slot = n
      BY <1>4, <1>5
    <2> HIDE DEF a
    <2>2. fl[a] = i.cells[a - L.slot]
      BY <2>1
    <2>3. fl[a] = Cells(o, L, p, size)[n]
      BY <1>4, <2>1, <2>2
    <2> QED  BY <2>3 DEF a
  <1>8. LET ram == Prepare(fl, Linked(o, L, p, app, size).header, L)
        IN mem = [a \in DOMAIN fl \cup DOMAIN ram |-> IF a \in DOMAIN ram THEN ram[a] ELSE fl[a]]
    BY <1>1 DEF Started
  <1> HIDE DEF fl, mem
  <1>9. Starts(o, L, p, size, mem)
    BY <1>1, <1>6, <1>7, <1>8, PreparedStarts
  <1>10. Whole(o, i, mem)
    BY <1>1, <1>9, StartsWhole
  <1> QED  BY <1>2, <1>3, <1>10 DEF mem

\* plcc_image_check, for every header of unsigned numbers: one that it takes lets prepare copy and
\* clear only behind the code of its image and within the RAM window, and starts in its code.
THEOREM HeaderStartsSafely ==
    ASSUME NEW h, NEW L, LayoutFits(L),
           {h.size, h.text, h.textSize, h.dataLoad, h.data, h.dataSize, h.bss, h.bssSize, h.getApp} \subseteq Nat
    PROVE  StartsSafely(h, L)
  <1>1. /\ h.size \in Nat /\ h.text \in Nat /\ h.textSize \in Nat /\ h.dataLoad \in Nat /\ h.data \in Nat
        /\ h.dataSize \in Nat /\ h.bss \in Nat /\ h.bssSize \in Nat /\ h.getApp \in Nat
        /\ L.slot \in Nat /\ L.slotSize \in Nat /\ L.ram \in Nat /\ L.ramSize \in Nat
        /\ HeaderSize \in Nat /\ RamReserved \in Nat
    BY ImageAssumption DEF LayoutFits
  <1> SUFFICES ASSUME Check(h, L, L.version)
               PROVE  /\ \A n \in 0..(h.dataSize - 1):
                            /\ h.dataLoad + n \in (h.text + h.textSize)..(L.slot + L.slotSize - 1)
                            /\ h.data + n \in (L.ram + RamReserved)..(L.ram + L.ramSize - 1)
                            /\ h.data + n \notin h.bss..(h.bss + h.bssSize - 1)
                      /\ h.bss + h.bssSize <= L.ram + L.ramSize
                      /\ h.getApp \in (L.slot + HeaderSize)..(L.slot + h.size - 1)
                      /\ h.getApp \notin h.dataLoad..(h.dataLoad + h.dataSize - 1)
    BY DEF StartsSafely
  <1>2. /\ h.size <= L.slotSize /\ h.text = L.slot + HeaderSize
        /\ h.text + h.textSize <= L.slot + h.size
        /\ h.text + h.textSize <= h.dataLoad /\ h.dataLoad + h.dataSize <= L.slot + h.size
        /\ L.ram + RamReserved <= h.data /\ h.data + h.dataSize <= L.ram + L.ramSize
        /\ h.data + h.dataSize <= h.bss /\ h.bss + h.bssSize <= L.ram + L.ramSize
        /\ h.text <= h.getApp /\ h.getApp + 1 <= h.text + h.textSize
    BY DEF Check, BssAfterData, Within
  <1>3. ASSUME NEW n \in 0..(h.dataSize - 1)
        PROVE  /\ h.dataLoad + n \in (h.text + h.textSize)..(L.slot + L.slotSize - 1)
               /\ h.data + n \in (L.ram + RamReserved)..(L.ram + L.ramSize - 1)
               /\ h.data + n \notin h.bss..(h.bss + h.bssSize - 1)
    BY <1>1, <1>2
  <1>4. /\ h.getApp \in (L.slot + HeaderSize)..(L.slot + h.size - 1)
        /\ h.getApp \notin h.dataLoad..(h.dataLoad + h.dataSize - 1)
    BY <1>1, <1>2
  <1> QED  BY <1>2, <1>3, <1>4

-----------------------------------------------------------------------------
(***************************************************************************)
(* The download.  What is known of the images that were built, and of the  *)
(* chunks and sectors a step works on.                                     *)
(***************************************************************************)
\* The builds the linker accepted.
Good == {b \in DOMAIN Builds: Images[b].ok}
SlotOf(b) == Builds[b].layout.slot
SizeOf(b) == Images[b].header.size

LEMMA ObjectIsWellFormed ==
    ASSUME NEW b \in DOMAIN Builds
    PROVE  /\ WellFormed(Object(b)) /\ Object(b).id = b
           /\ LayoutFits(Builds[b].layout) /\ b \in Nat \ {0}
           /\ Images[b] = Link(Object(b), Builds[b].layout)
  <1>1. WellFormed(Builds[b].obj) /\ LayoutFits(Builds[b].layout) /\ b \in Nat \ {0}
    BY DownloadAssumption
  <1>2. Object(b).id = b /\ Object(b).secs = Builds[b].obj.secs /\ Object(b).syms = Builds[b].obj.syms
        /\ Object(b).rels = Builds[b].obj.rels
    BY DEF Object
  <1>3. WellFormed(Object(b))
    BY <1>1, <1>2 DEF WellFormed
  <1> QED  BY <1>1, <1>2, <1>3 DEF Images

\* Only the first cells of an image are a header's.
LEMMA HeaderCells ==
    ASSUME NEW o, NEW L, NEW p, NEW size \in Nat, NEW n \in 0..(size - 1)
    PROVE  /\ n < HeaderSize => Cells(o, L, p, size)[n] = Cell(o.id, "header", 0, n)
           /\ Cells(o, L, p, size)[n].k = "header" => Cells(o, L, p, size)[n].of = o.id
  <1>1. Cells(o, L, p, size)[n] = CellAt(o, L, p, n)
    BY DEF Cells
  <1>2. n < HeaderSize => CellAt(o, L, p, n) = Cell(o.id, "header", 0, n)
    BY DEF CellAt
  <1> DEFINE a == L.slot + n
             k == CHOOSE j \in SectionsAt(o, p, a): TRUE
             i == CHOOSE j \in VeneersAt(p, a): TRUE
  <1>3. \/ CellAt(o, L, p, n) = Cell(o.id, "header", 0, n)
        \/ CellAt(o, L, p, n) = Content(o, p, k, a - FlashAt(o, p, k))
        \/ CellAt(o, L, p, n) = Cell(0, "veneer", i, a - p.veneer[i])
        \/ CellAt(o, L, p, n) = Pad
    <2> HIDE DEF Content, Pad, Cell
    <2> QED  BY DEF CellAt
  <1>4. ASSUME NEW x, NEW y PROVE Content(o, p, x, y).k \in {"sec", "ref"}
    BY DEF Content, Cell
  <1> HIDE DEF k, i, a
  <1>5. CellAt(o, L, p, n).k = "header" => CellAt(o, L, p, n).of = o.id
    <2>1. Content(o, p, k, a - FlashAt(o, p, k)).k # "header"
      BY <1>4
    <2>2. Cell(0, "veneer", i, a - p.veneer[i]).k # "header" /\ Pad.k # "header"
          /\ Cell(o.id, "header", 0, n).of = o.id
      BY DEF Cell, Pad
    <2> QED  BY <1>3, <2>1, <2>2
  <1> QED  BY <1>1, <1>2, <1>5

LEMMA GoodFacts ==
    ASSUME NEW b \in Good
    PROVE  /\ \E p, app: /\ Images[b] = Linked(Object(b), Builds[b].layout, p, app, SizeOf(b))
                         /\ Accepts(Object(b), Builds[b].layout, p, app, SizeOf(b))
                         /\ Images[b].cells = Cells(Object(b), Builds[b].layout, p, SizeOf(b))
           /\ SizeOf(b) \in Nat /\ SlotOf(b) \in Nat /\ HeaderSize <= SizeOf(b)
           /\ Images[b].header.slot = SlotOf(b) /\ Images[b].header.ram = Builds[b].layout.ram
           /\ Images[b].header.ramSize = Builds[b].layout.ramSize
           /\ \A n \in 0..(SizeOf(b) - 1):
                 /\ n < HeaderSize => Images[b].cells[n] = Cell(b, "header", 0, n)
                 /\ Images[b].cells[n].k = "header" => Images[b].cells[n].of = b
  <1> DEFINE o == Object(b)
             L == Builds[b].layout
  <1>1. b \in DOMAIN Builds /\ WellFormed(o) /\ LayoutFits(L) /\ o.id = b /\ Images[b] = Link(o, L) /\ Link(o, L).ok
    BY ObjectIsWellFormed DEF Good
  <1> HIDE DEF o, L
  <1>2. PICK p, app, size: Images[b] = Linked(o, L, p, app, size) /\ Accepts(o, L, p, app, size)
    BY <1>1, LinkAccepts
  <1>3. /\ SizeOf(b) = size /\ Images[b].cells = Cells(o, L, p, size)
        /\ Images[b].header.slot = L.slot /\ Images[b].header.ram = L.ram /\ Images[b].header.ramSize = L.ramSize
    BY <1>2 DEF Linked, SizeOf
  <1>4. size \in Nat /\ L.slot \in Nat
    BY <1>1, <1>2 DEF Accepts, Holds, LayoutFits
  <1>5. HeaderSize <= size
    <2>1. Check(Linked(o, L, p, app, size).header, L, L.version)
      BY <1>1, <1>2, LinkedChecks
    <2>2. Linked(o, L, p, app, size).header.size = size
      BY DEF Linked
    <2> QED  BY <2>1, <2>2 DEF Check
  <1>6. \A n \in 0..(size - 1):
           /\ n < HeaderSize => Cells(o, L, p, size)[n] = Cell(b, "header", 0, n)
           /\ Cells(o, L, p, size)[n].k = "header" => Cells(o, L, p, size)[n].of = b
    BY <1>1, <1>4, HeaderCells
  <1>7. \E q, e: /\ Images[b] = Linked(o, L, q, e, SizeOf(b)) /\ Accepts(o, L, q, e, SizeOf(b))
                 /\ Images[b].cells = Cells(o, L, q, SizeOf(b))
    BY <1>2, <1>3
  <1> QED  BY <1>3, <1>4, <1>5, <1>6, <1>7 DEF o, L, SlotOf

-----------------------------------------------------------------------------
(***************************************************************************)
(* The runtime's program.  A header in flash is one of an image that was   *)
(* linked, whatever else was erased or half written; while a download is   *)
(* under way the board runs nothing; so what the board runs is a build     *)
(* that its loader accepts in the flash as it is.                          *)
(***************************************************************************)
FlashInv == DOMAIN flash = FlashAddresses /\ \A a \in DOMAIN flash: flash[a].k = "header" => flash[a].of \in Good
StepInv ==
    /\ built \in Good \cup {0} /\ pos \in Nat
    /\ step \in {"idle", "plan", "erase", "write", "verify", "leave"}
    /\ step # "idle" => built \in Good /\ loaded = 0 /\ mode = "dfu"
    /\ step \in {"erase", "write", "verify", "leave"} => Allowed(Start, Length, Builds[built].layout)
RunInv ==
    /\ mode \in {"runtime", "dfu"}
    /\ mode = "dfu" => loaded = 0
    /\ loaded # 0 => loaded \in Accepted(flash)
BoardInv == FlashInv /\ StepInv /\ RunInv

LEMMA ChunkFacts ==
    ASSUME StepInv, built \in Good, pos < Length
    PROVE  Chunk \in Nat \ {0} /\ pos + Chunk <= Length /\ pos \in Nat /\ Length \in Nat /\ Start \in Nat
  <1>1. Length \in Nat /\ Start \in Nat
    BY GoodFacts DEF Length, Start, SizeOf, SlotOf
  <1>2. Transfer \in Nat \ {0} /\ pos \in Nat
    BY DownloadAssumption DEF StepInv
  <1> HIDE DEF Length, Start
  <1> QED  BY <1>1, <1>2 DEF Chunk

\* What became of the cell at a: nothing, erased with its sector, or written.
Became(a) ==
    \/ flash'[a] = flash[a]
    \/ /\ step = "erase" /\ flash'[a] = Erased
       /\ \E s \in Overlapping(Start, Length): a \in Sectors[s].start..(Sectors[s].start + Sectors[s].size - 1)
    \/ /\ step = "write" /\ a - Start \in 0..(Length - 1)
       /\ flash'[a] = Erased \/ flash'[a] = Images[built].cells[a - Start]
FlashStep == DOMAIN flash' = DOMAIN flash /\ \A a \in DOMAIN flash: Became(a)

LEMMA ErasingStep ==
    ASSUME FlashInv, step = "erase", NEW s \in Overlapping(Start, Length), NEW n \in Nat, n <= Sectors[s].size,
           flash' = Fill(Sectors[s].start, n, LAMBDA a : Erased)
    PROVE  FlashStep
  <1>1. flash' = [a \in DOMAIN flash |-> IF Sectors[s].start <= a /\ a < Sectors[s].start + n THEN Erased ELSE flash[a]]
    BY DEF Fill
  <1>2. s \in DOMAIN Sectors /\ Sectors[s].start \in Nat /\ Sectors[s].size \in Nat
    BY DownloadAssumption DEF Overlapping
  <1>3. \A a \in DOMAIN flash: a \in Nat
    BY DownloadAssumption DEF FlashInv, FlashAddresses
  <1>4. DOMAIN flash' = DOMAIN flash
    BY <1>1
  <1>5. ASSUME NEW a \in DOMAIN flash PROVE Became(a)
    <2>1. CASE Sectors[s].start <= a /\ a < Sectors[s].start + n
      <3>1. flash'[a] = Erased
        BY <1>1, <2>1
      <3>2. a \in Sectors[s].start..(Sectors[s].start + Sectors[s].size - 1)
        <4> HIDE DEF FlashInv
        <4> QED  BY <1>2, <1>3, <2>1
      <3> QED  BY <3>1, <3>2 DEF Became
    <2>2. CASE ~(Sectors[s].start <= a /\ a < Sectors[s].start + n)
      <3>1. flash'[a] = flash[a]
        BY <1>1, <2>2
      <3> QED  BY <3>1 DEF Became
    <2> QED  BY <2>1, <2>2
  <1> QED  BY <1>4, <1>5 DEF FlashStep

\* The cells of the n first of a chunk, and perhaps one of them wrong.
LEMMA WritingStep ==
    ASSUME FlashInv, StepInv, step = "write", pos < Length, NEW n \in 0..Chunk, NEW w,
           flash' = [Written(n) EXCEPT ![w] = Erased] \/ flash' = Written(n),
           flash' = Written(n) \/ w \in (Start + pos)..(Start + pos + Chunk - 1)
    PROVE  FlashStep
  <1>1. Chunk \in Nat \ {0} /\ pos + Chunk <= Length /\ pos \in Nat /\ Length \in Nat /\ Start \in Nat
    BY ChunkFacts DEF StepInv
  <1>2. Written(n) = [a \in DOMAIN flash |-> IF Start + pos <= a /\ a < Start + pos + n
                                             THEN Images[built].cells[a - Start] ELSE flash[a]]
    BY DEF Written, Fill, Wanted
  <1>3. \A a \in DOMAIN flash: a \in Nat
    BY DownloadAssumption DEF FlashInv, FlashAddresses
  <1> DEFINE len == Length
             from == Start
             size == Chunk
             W == Written(n)
             c(a) == Images[built].cells[a - Start]
  <1> HIDE DEF len, from, size, W, c
  <1>4. DOMAIN flash' = DOMAIN flash
    BY <1>2 DEF W
  <1>5. ASSUME NEW a \in DOMAIN flash PROVE Became(a)
    <2>1. W[a] = IF from + pos <= a /\ a < from + pos + n THEN c(a) ELSE flash[a]
      BY <1>2 DEF W, from, c
    <2>2. \/ flash'[a] = W[a]
          \/ flash'[a] = Erased /\ from + pos <= a /\ a <= from + pos + size - 1
      <3>1. CASE flash' = W
        BY <3>1
      <3>2. CASE flash' = [W EXCEPT ![w] = Erased] /\ w \in (from + pos)..(from + pos + size - 1)
        <4>1. a \in DOMAIN W
          BY <1>2 DEF W
        <4>2. CASE a = w
          BY <3>2, <4>1, <4>2
        <4>3. CASE a # w
          BY <3>2, <4>1, <4>3
        <4> QED  BY <4>2, <4>3
      <3> QED  BY <3>1, <3>2 DEF W, from, size
    <2>3. /\ a \in Nat /\ size \in Nat \ {0} /\ pos + size <= len /\ pos \in Nat /\ len \in Nat /\ from \in Nat
          /\ n \in Nat /\ n <= size
      BY <1>1, <1>3 DEF len, from, size
    <2>4. \/ flash'[a] = flash[a]
          \/ a - from \in 0..(len - 1) /\ (flash'[a] = Erased \/ flash'[a] = c(a))
      <3>1. CASE from + pos <= a /\ a <= from + pos + size - 1
        <4>1. a - from \in 0..(len - 1)
          BY <2>3, <3>1
        <4> QED  BY <2>1, <2>2, <4>1
      <3>2. CASE ~(from + pos <= a /\ a <= from + pos + size - 1)
        <4>1. ~(from + pos <= a /\ a < from + pos + n)
          BY <2>3, <3>2
        <4> QED  BY <2>1, <2>2, <3>2, <4>1
      <3> QED  BY <3>1, <3>2
    <2> QED  BY <2>4 DEF Became, from, len, c
  <1> QED  BY <1>4, <1>5 DEF FlashStep

LEMMA SameFlash ==
    ASSUME UNCHANGED flash
    PROVE  FlashStep
  BY DEF FlashStep, Became

LEMMA StepsTouch ==
    ASSUME FlashInv, StepInv, Next
    PROVE  FlashStep /\ (step \notin {"erase", "write"} => UNCHANGED flash)
  <1>1. CASE \E b \in DOMAIN Builds: Build(b)
    BY <1>1, SameFlash DEF Build
  <1>2. CASE Identify \/ Plan \/ Verify \/ Leave \/ PowerCycle
    BY <1>2, SameFlash DEF Identify, Plan, Verify, Leave, PowerCycle
  <1>3. CASE Erase
    <2> DEFINE s == FirstSector + pos
    <2>1. CASE s \in Overlapping(Start, Length)
      <3>1. flash' = Fill(Sectors[s].start, Sectors[s].size, LAMBDA a : Erased) /\ step = "erase"
        BY <1>3, <2>1 DEF Erase
      <3>2. Sectors[s].size \in Nat /\ Sectors[s].size <= Sectors[s].size
        BY <2>1, DownloadAssumption DEF Overlapping
      <3> HIDE DEF s
      <3> QED  BY <2>1, <3>1, <3>2, ErasingStep
    <2>2. CASE s \notin Overlapping(Start, Length)
      BY <1>3, <2>2, SameFlash DEF Erase
    <2> QED  BY <2>1, <2>2
  <1>4. CASE Write
    <2>1. CASE pos >= Length
      BY <1>4, <2>1, SameFlash DEF Write
    <2>2. CASE ~(pos >= Length)
      <3>1. step = "write" /\ built \in Good /\ pos \in Nat
        BY <1>4 DEF Write, StepInv
      <3>2. Length \in Nat
        BY <3>1, GoodFacts DEF Length, SizeOf
      <3>3. pos < Length
        BY <2>2, <3>1, <3>2
      <3>4. Chunk \in Nat \ {0} /\ Chunk \in 0..Chunk /\ pos + Chunk <= Length /\ Start \in Nat
        BY <3>1, <3>3, ChunkFacts
      <3>5. CASE flash' = Written(Chunk)
        BY <3>1, <3>3, <3>4, <3>5, WritingStep
      <3>6. CASE \E n \in 0..Chunk - 1: flash' = [Written(Chunk) EXCEPT ![Start + pos + n] = Erased]
        <4>1. PICK n \in 0..Chunk - 1: flash' = [Written(Chunk) EXCEPT ![Start + pos + n] = Erased]
          BY <3>6
        <4>2. Start + pos + n \in (Start + pos)..(Start + pos + Chunk - 1)
          BY <3>1, <3>4
        <4> QED  BY <3>1, <3>3, <3>4, <4>1, <4>2, WritingStep
      <3> QED  BY <1>4, <2>2, <3>1, <3>5, <3>6 DEF Write
    <2> QED  BY <2>1, <2>2
  <1>5. CASE Broken
    <2>1. CASE UNCHANGED flash
      BY <2>1, SameFlash
    <2>2. CASE step = "write" /\ \E n \in 1..Chunk: flash' = Written(n)
      <3>1. PICK n \in 1..Chunk: flash' = Written(n)
        BY <2>2
      <3>2. built \in Good /\ pos \in Nat
        BY <2>2 DEF StepInv
      <3>3. Length \in Nat /\ Transfer \in Nat
        BY <3>2, GoodFacts, DownloadAssumption DEF Length, SizeOf
      <3>4. pos < Length
        <4> HIDE DEF Length
        <4>1. Chunk >= 1
          BY <3>2, <3>3 DEF Chunk
        <4> QED  BY <3>2, <3>3, <4>1 DEF Chunk
      <3>5. n \in 0..Chunk
        OBVIOUS
      <3> QED  BY <2>2, <3>1, <3>4, <3>5, WritingStep
    <2>3. CASE /\ step = "erase" /\ FirstSector + pos \in Overlapping(Start, Length)
               /\ \E n \in 1..Sectors[FirstSector + pos].size:
                     flash' = Fill(Sectors[FirstSector + pos].start, n, LAMBDA a : Erased)
      <3> DEFINE s == FirstSector + pos
      <3>1. PICK n \in 1..Sectors[s].size: flash' = Fill(Sectors[s].start, n, LAMBDA a : Erased)
        BY <2>3
      <3>2. s \in Overlapping(Start, Length) /\ Sectors[s].size \in Nat
        BY <2>3, DownloadAssumption DEF Overlapping
      <3> HIDE DEF s
      <3>3. n \in Nat /\ n <= Sectors[s].size
        BY <3>2
      <3> QED  BY <2>3, <3>1, <3>2, <3>3, ErasingStep
    <2> QED  BY <1>5, <2>1, <2>2, <2>3 DEF Broken
  <1> QED  BY <1>1, <1>2, <1>3, <1>4, <1>5 DEF Next

\* What Plan allowed lies in the flash webdfu may write, and in the layout's slot.
LEMMA AllowedFacts ==
    ASSUME StepInv, step \in {"erase", "write"}
    PROVE  /\ built \in Good /\ Start \in Nat /\ Length \in Nat
           /\ FloorMin <= Start /\ Start + Length <= FloorEnd
           /\ Start + Length <= Builds[built].layout.slot + Builds[built].layout.slotSize
           /\ \A s \in Overlapping(Start, Length):
                 /\ s \in DOMAIN Sectors /\ Sectors[s].start \in Nat /\ Sectors[s].size \in Nat
                 /\ Start <= Sectors[s].start /\ Sectors[s].start < Start + Length
                 /\ FloorMin <= Sectors[s].start /\ Sectors[s].start + Sectors[s].size <= FloorEnd
  <1>1. built \in Good /\ Allowed(Start, Length, Builds[built].layout)
    BY DEF StepInv
  <1>2. Start \in Nat /\ Length \in Nat /\ Start = Builds[built].layout.slot
    BY <1>1, GoodFacts DEF Length, Start, SizeOf, SlotOf
  <1>3. FloorMin \in Nat /\ FloorEnd \in Nat
    BY DownloadAssumption
  <1>4. FloorMin <= Start /\ Start + Length <= FloorEnd
        /\ Start + Length <= Builds[built].layout.slot + Builds[built].layout.slotSize
    BY <1>1, <1>2, <1>3 DEF Allowed
  <1>5. ASSUME NEW s \in Overlapping(Start, Length)
        PROVE  /\ s \in DOMAIN Sectors /\ Sectors[s].start \in Nat /\ Sectors[s].size \in Nat
               /\ Start <= Sectors[s].start /\ Sectors[s].start < Start + Length
               /\ FloorMin <= Sectors[s].start /\ Sectors[s].start + Sectors[s].size <= FloorEnd
    <2>1. SectorAllowed(s, Builds[built].layout)
      BY <1>1 DEF Allowed
    <2>2. s \in DOMAIN Sectors /\ Sectors[s].start < Start + Length
      BY DEF Overlapping
    <2>3. Sectors[s].start \in Nat /\ Sectors[s].size \in Nat
      BY <2>2, DownloadAssumption
    <2> QED  BY <1>2, <1>3, <2>1, <2>2, <2>3 DEF SectorAllowed
  <1> QED  BY <1>1, <1>2, <1>4, <1>5

LEMMA StepInFloor ==
    ASSUME FlashInv, StepInv, Next
    PROVE  FloorKept
  <1> SUFFICES ASSUME NEW a \in DOMAIN flash, a \notin FloorMin..(FloorEnd - 1)
               PROVE  flash'[a] = flash[a]
    BY DEF FloorKept
  <1>1. Became(a)
    BY StepsTouch DEF FlashStep
  <1>2. a \in Nat /\ FloorMin \in Nat /\ FloorEnd \in Nat
    BY DownloadAssumption DEF FlashInv, FlashAddresses
  <1>3. ASSUME step = "erase",
               \E s \in Overlapping(Start, Length): a \in Sectors[s].start..(Sectors[s].start + Sectors[s].size - 1)
        PROVE  FALSE
    <2>1. PICK s \in Overlapping(Start, Length): a \in Sectors[s].start..(Sectors[s].start + Sectors[s].size - 1)
      BY <1>3
    <2>2. /\ Sectors[s].start \in Nat /\ Sectors[s].size \in Nat
          /\ FloorMin <= Sectors[s].start /\ Sectors[s].start + Sectors[s].size <= FloorEnd
      BY <1>3, AllowedFacts
    <2> QED  BY <1>2, <2>1, <2>2
  <1>4. ASSUME step = "write", a - Start \in 0..(Length - 1) PROVE FALSE
    <2>1. Start \in Nat /\ Length \in Nat /\ FloorMin <= Start /\ Start + Length <= FloorEnd
      BY <1>4, AllowedFacts
    <2> HIDE DEF Start, Length
    <2> QED  BY <1>2, <1>4, <2>1
  <1> QED  BY <1>1, <1>3, <1>4 DEF Became

\* A step that writes belongs to a build for this board.
SameInv == step # "idle" => SameDevice(built)

LEMMA StepInSlot ==
    ASSUME FlashInv, StepInv, SameInv, OneSlot, SlotEndsOnSector, Next
    PROVE  SlotKept
  <1> SUFFICES ASSUME NEW a \in DOMAIN flash, a \notin Device.slot..(Device.slot + Device.slotSize - 1)
               PROVE  flash'[a] = flash[a]
    BY DEF SlotKept
  <1>1. Became(a)
    BY StepsTouch DEF FlashStep
  <1>2. a \in Nat /\ Device.slot \in Nat /\ Device.slotSize \in Nat
    BY DownloadAssumption DEF FlashInv, FlashAddresses, LayoutFits
  <1>3. ASSUME step \in {"erase", "write"}
        PROVE  /\ Start = Device.slot /\ Length \in Nat /\ Start + Length <= Device.slot + Device.slotSize
    <2>1. /\ built \in Good /\ Length \in Nat
          /\ Start + Length <= Builds[built].layout.slot + Builds[built].layout.slotSize
      BY <1>3, AllowedFacts
    <2>2. Builds[built].layout.slot = Device.slot /\ Builds[built].layout.slotSize = Device.slotSize
      BY <1>3, <2>1 DEF SameInv, OneSlot, Good
    <2> QED  BY <2>1, <2>2 DEF Start
  <1>4. ASSUME step = "erase",
               \E s \in Overlapping(Start, Length): a \in Sectors[s].start..(Sectors[s].start + Sectors[s].size - 1)
        PROVE  FALSE
    <2>1. PICK s \in Overlapping(Start, Length): a \in Sectors[s].start..(Sectors[s].start + Sectors[s].size - 1)
      BY <1>4
    <2>2. /\ s \in DOMAIN Sectors /\ Sectors[s].start \in Nat /\ Sectors[s].size \in Nat
          /\ Start <= Sectors[s].start /\ Sectors[s].start < Start + Length
      BY <1>4, AllowedFacts
    <2>3. Sectors[s].start \in Device.slot..(Device.slot + Device.slotSize - 1)
      <3> HIDE DEF Start, Length
      <3> QED  BY <1>2, <1>3, <1>4, <2>2
    <2>4. Sectors[s].start + Sectors[s].size <= Device.slot + Device.slotSize
      BY <2>2, <2>3 DEF SlotEndsOnSector
    <2>5. Device.slot <= a /\ a <= Device.slot + Device.slotSize - 1
      BY <1>2, <2>1, <2>2, <2>3, <2>4
    <2> QED  BY <1>2, <2>5
  <1>5. ASSUME step = "write", a - Start \in 0..(Length - 1) PROVE FALSE
    <2>1. Start = Device.slot /\ Length \in Nat /\ Start + Length <= Device.slot + Device.slotSize
      BY <1>5, <1>3
    <2> HIDE DEF Start, Length
    <2> QED  BY <1>2, <1>5, <2>1
  <1> QED  BY <1>1, <1>4, <1>5 DEF Became

LEMMA SameBuild ==
    ASSUME built' = built
    PROVE  /\ Start' = Start /\ Length' = Length
           /\ Allowed(Start, Length, Builds[built].layout)' <=> Allowed(Start, Length, Builds[built].layout)
           /\ SameDevice(built)' <=> SameDevice(built)
  BY DEF Start, Length, Allowed, Overlapping, SectorAllowed, SameDevice

LEMMA RunFacts ==
    ASSUME NEW fl
    PROVE  Run(fl) = 0 \/ Run(fl) \in Accepted(fl)
  BY DEF Run

LEMMA BoardInit == Init => BoardInv /\ SameInv
  <1> SUFFICES ASSUME Init PROVE BoardInv /\ SameInv
    OBVIOUS
  <1> DEFINE inSlot(b, a) == a - Device.slot \in 0..Images[b].header.size - 1
             window(a) == a \in Device.slot..Device.slot + Device.slotSize - 1
  <1>1. PICK b \in {0} \cup {d \in DOMAIN Builds: Images[d].ok /\ Builds[d].layout.slot = Device.slot}:
           /\ flash = [a \in FlashAddresses |->
                         CASE b # 0 /\ inSlot(b, a) -> Images[b].cells[a - Device.slot]
                           [] window(a) /\ ~(b # 0 /\ inSlot(b, a)) -> Erased
                           [] OTHER -> Cell(0, "firmware", 0, 0)]
           /\ loaded = Run(flash)
    BY DEF Init
  <1>2. b # 0 => b \in Good
    BY <1>1 DEF Good
  <1> HIDE DEF window
  <1>3. ASSUME NEW a \in DOMAIN flash, flash[a].k = "header" PROVE flash[a].of \in Good
    <2>1. a \in FlashAddresses
      BY <1>1
    <2>2. Erased.k # "header" /\ Cell(0, "firmware", 0, 0).k # "header"
      BY DEF Erased, Cell
    <2> HIDE DEF inSlot
    <2>3. b # 0 /\ inSlot(b, a) /\ flash[a] = Images[b].cells[a - Device.slot]
      BY <1>1, <1>3, <2>1, <2>2
    <2>4. flash[a].of = b
      <3> DEFINE n == a - Device.slot
      <3>1. n \in 0..(SizeOf(b) - 1)
        BY <2>3 DEF inSlot, SizeOf
      <3>2. Images[b].cells[n].k = "header" => Images[b].cells[n].of = b
        <4> HIDE DEF n
        <4> QED  BY <1>2, <2>3, <3>1, GoodFacts
      <3> QED  BY <1>3, <2>3, <3>2
    <2> QED  BY <1>2, <2>3, <2>4
  <1>4. FlashInv
    BY <1>1, <1>3 DEF FlashInv
  <1>5. StepInv /\ SameInv
    BY DEF Init, StepInv, SameInv
  <1>6. RunInv
    <2>1. loaded # 0 => loaded \in Accepted(flash)
      BY <1>1, RunFacts
    <2> QED  BY <2>1 DEF Init, RunInv
  <1> QED  BY <1>4, <1>5, <1>6 DEF BoardInv

LEMMA FlashKept ==
    ASSUME FlashInv, StepInv, Next
    PROVE  FlashInv'
  <1>1. FlashStep
    BY StepsTouch
  <1>2. DOMAIN flash' = FlashAddresses
    BY <1>1 DEF FlashStep, FlashInv
  <1>3. ASSUME NEW a \in DOMAIN flash', flash'[a].k = "header" PROVE flash'[a].of \in Good
    <2>1. a \in DOMAIN flash /\ Became(a)
      BY <1>1 DEF FlashStep
    <2>2. CASE flash'[a] = flash[a]
      BY <1>3, <2>1, <2>2 DEF FlashInv
    <2>3. CASE flash'[a] = Erased
      BY <1>3, <2>3 DEF Erased, Cell
    <2>4. CASE step = "write" /\ a - Start \in 0..(Length - 1) /\ flash'[a] = Images[built].cells[a - Start]
      <3> DEFINE n == a - Start
      <3>1. built \in Good /\ n \in 0..(SizeOf(built) - 1)
        BY <2>4 DEF StepInv, Length, SizeOf
      <3> HIDE DEF n
      <3>2. Images[built].cells[n].k = "header" => Images[built].cells[n].of = built
        BY <3>1, GoodFacts
      <3> QED  BY <1>3, <2>4, <3>1, <3>2 DEF n
    <2> QED  BY <2>1, <2>2, <2>3, <2>4 DEF Became
  <1> QED  BY <1>2, <1>3 DEF FlashInv

LEMMA StepKept ==
    ASSUME FlashInv, StepInv, SameInv, RunInv, Next
    PROVE  StepInv' /\ SameInv'
  <1> DEFINE F == step' = "idle" /\ pos' = 0
             A == Allowed(Start, Length, Builds[built].layout)
  <1>1. CASE \E b \in DOMAIN Builds: Build(b)
    <2>1. /\ built' \in Good \cup {0} /\ step' = "idle" /\ pos' = pos
      BY <1>1 DEF Build, Good
    <2> QED  BY <2>1 DEF StepInv, SameInv
  <1>2. ASSUME step' = "idle", pos' = 0, built' = built PROVE StepInv' /\ SameInv'
    BY <1>2 DEF StepInv, SameInv
  <1>3. CASE Identify
    <2>1. CASE mode = "runtime" /\ SameDevice(built)
      <3>1. /\ step' = "plan" /\ pos' = 0 /\ built' = built /\ loaded' = 0 /\ mode' = "dfu" /\ built \in Good
        BY <1>3, <2>1 DEF Identify, StepInv
      <3> QED  BY <2>1, <3>1, SameBuild DEF StepInv, SameInv
    <2>2. CASE ~(mode = "runtime" /\ SameDevice(built))
      BY <1>2, <1>3, <2>2 DEF Identify, Failure
    <2> QED  BY <2>1, <2>2
  <1>4. CASE Plan
    <2>1. CASE A
      <3>1. step = "plan" /\ step' = "erase" /\ pos' = 0 /\ built' = built /\ loaded' = loaded /\ mode' = mode
        BY <1>4, <2>1 DEF Plan
      <3>2. built \in Good /\ loaded = 0 /\ mode = "dfu"
        BY <3>1 DEF StepInv
      <3> QED  BY <2>1, <3>1, <3>2, SameBuild DEF StepInv, SameInv
    <2>2. CASE ~A
      BY <1>2, <1>4, <2>2 DEF Plan, Failure
    <2> QED  BY <2>1, <2>2
  <1>5. ASSUME step \in {"erase", "write", "verify", "leave"}, built' = built, loaded' = loaded, mode' = mode, pos' \in Nat,
               step' \in {"erase", "write", "verify", "leave"}
        PROVE  StepInv' /\ SameInv'
    BY <1>5, SameBuild DEF StepInv, SameInv
  <1>6. CASE Erase
    BY <1>5, <1>6 DEF Erase, StepInv
  <1>7. CASE Write \/ Verify
    <2>1. /\ step \in {"write", "verify"} /\ built' = built /\ loaded' = loaded /\ mode' = mode /\ built \in Good
      BY <1>7 DEF Write, Verify, StepInv
    <2>2. pos < Length => pos + Chunk \in Nat
      BY <2>1, ChunkFacts
    <2>3. Length \in Nat /\ pos \in Nat
      BY <2>1, GoodFacts DEF StepInv, Length, SizeOf
    <2> HIDE DEF Length, Chunk
    <2>4. \/ step' \in {"erase", "write", "verify", "leave"} /\ pos' \in Nat
          \/ step' = "idle" /\ pos' = 0
      <3>1. CASE pos >= Length
        BY <1>7, <3>1 DEF Write, Verify
      <3>2. CASE ~(pos >= Length)
        <4>1. pos + Chunk \in Nat
          BY <2>2, <2>3, <3>2
        <4> QED  BY <1>7, <3>2, <4>1 DEF Write, Verify, Failure
      <3> QED  BY <3>1, <3>2
    <2> QED  BY <1>2, <1>5, <2>1, <2>4
  <1>8. CASE Leave \/ Broken
    BY <1>2, <1>8 DEF Leave, Broken, Failure
  <1>9. CASE PowerCycle
    <2>1. CASE step = "idle"
      <3>1. step' = "idle" /\ pos' = pos /\ built' = built
        BY <1>9, <2>1 DEF PowerCycle
      <3> QED  BY <3>1 DEF StepInv, SameInv
    <2>2. CASE step # "idle"
      BY <1>2, <1>9, <2>2 DEF PowerCycle, Failure
    <2> QED  BY <2>1, <2>2
  <1> QED  BY <1>1, <1>3, <1>4, <1>6, <1>7, <1>8, <1>9 DEF Next

LEMMA RunKept ==
    ASSUME FlashInv, StepInv, RunInv, Next
    PROVE  RunInv'
  <1>1. step \notin {"erase", "write"} => UNCHANGED flash
    BY StepsTouch
  <1>2. ASSUME loaded' = 0, mode' \in {"runtime", "dfu"} PROVE RunInv'
    BY <1>2 DEF RunInv
  <1>3. ASSUME loaded' = loaded, mode' = mode, flash' = flash PROVE RunInv'
    <2>1. loaded # 0 => loaded \in Accepted(flash')
      BY <1>3 DEF RunInv
    <2>2. Accepted(flash)' = Accepted(flash')
      BY DEF Accepted, InSlot, BodyRight
    <2> QED  BY <1>3, <2>1, <2>2 DEF RunInv
  <1>4. ASSUME loaded' = Run(flash), mode' = "runtime", flash' = flash PROVE RunInv'
    <2>1. loaded' # 0 => loaded' \in Accepted(flash')
      BY <1>4, RunFacts
    <2>2. Accepted(flash)' = Accepted(flash')
      BY DEF Accepted, InSlot, BodyRight
    <2> QED  BY <1>4, <2>1, <2>2 DEF RunInv
  <1>5. CASE \E b \in DOMAIN Builds: Build(b)
    BY <1>3, <1>5 DEF Build
  <1>6. CASE Identify
    BY <1>2, <1>3, <1>6 DEF Identify
  <1>7. CASE Plan
    BY <1>3, <1>7 DEF Plan
  <1>8. CASE Erase \/ Write \/ Verify \/ Broken
    <2>1. step # "idle" /\ loaded' = loaded /\ mode' = mode
      BY <1>8 DEF Erase, Write, Verify, Broken
    <2> QED  BY <1>2, <2>1 DEF StepInv, RunInv
  <1>9. CASE Leave
    BY <1>3, <1>4, <1>9 DEF Leave
  <1>10. CASE PowerCycle
    BY <1>4, <1>10 DEF PowerCycle
  <1> QED  BY <1>5, <1>6, <1>7, <1>8, <1>9, <1>10 DEF Next

\* The invariant of the board, whatever fails and whenever the power goes.
LEMMA BoardInvariant == Spec => [](BoardInv /\ SameInv)
  <1>1. Init => BoardInv /\ SameInv
    BY BoardInit
  <1>2. BoardInv /\ SameInv /\ [Next]_vars => (BoardInv /\ SameInv)'
    <2>1. ASSUME BoardInv, SameInv, Next PROVE (BoardInv /\ SameInv)'
      BY <2>1, FlashKept, StepKept, RunKept DEF BoardInv
    <2>2. ASSUME BoardInv, SameInv, UNCHANGED vars PROVE (BoardInv /\ SameInv)'
      <3>1. built' = built
        BY <2>2 DEF vars
      <3>2. FlashInv' /\ RunInv'
        BY <2>2 DEF BoardInv, FlashInv, RunInv, vars, Accepted, InSlot, BodyRight
      <3>3. StepInv' /\ SameInv'
        BY <2>2, <3>1, SameBuild DEF BoardInv, StepInv, SameInv, vars
      <3> QED  BY <3>2, <3>3 DEF BoardInv
    <2> QED  BY <2>1, <2>2
  <1> QED  BY <1>1, <1>2, PTL DEF Spec

-----------------------------------------------------------------------------
\* dfuse.ts, for every board, manifest and download, whatever fails and whenever the power goes: no cell
\* outside the flash that webdfu may write on the board ever changes.
THEOREM FloorIsKept == Spec => [][FloorKept]_vars
  <1>1. BoardInv /\ [Next]_vars => [FloorKept]_vars
    BY StepInFloor DEF BoardInv
  <1> QED  BY <1>1, BoardInvariant, PTL DEF Spec

\* dfuse.ts with download.ts: when runtimes of one target and ABI have one slot and the slot ends with a
\* sector, no cell outside the slot ever changes.
THEOREM SlotIsKept ==
    ASSUME OneSlot, SlotEndsOnSector
    PROVE  Spec => OnlyTheSlot
  <1>1. BoardInv /\ SameInv /\ [Next]_vars => [SlotKept /\ FloorKept]_vars
    BY StepInFloor, StepInSlot DEF BoardInv
  <1> QED  BY <1>1, BoardInvariant, PTL DEF Spec, OnlyTheSlot

\* The image of an accepted build lies in flash, and its layout is the board's.
LEMMA AcceptedFacts ==
    ASSUME FlashInv, NEW b \in Accepted(flash)
    PROVE  /\ b \in Good /\ SlotOf(b) = Device.slot
           /\ Builds[b].layout.ram = Device.ram /\ Builds[b].layout.ramSize = Device.ramSize
           /\ SizeOf(b) <= Device.slotSize
           /\ \A n \in 0..(SizeOf(b) - 1): flash[Device.slot + n] = Images[b].cells[n]
  <1>1. /\ b \in InSlot(flash) /\ BodyRight(flash, b) /\ Check(Images[b].header, Device, MinVersion)
    BY DEF Accepted
  <1>2. HeaderSize \in Nat \ {0} /\ Device.slot \in Nat /\ Device.slotSize \in Nat /\ HeaderSize <= Device.slotSize
    BY ImageAssumption, DownloadAssumption DEF LayoutFits
  <1>3. Images[b].header.slot = Device.slot /\ Images[b].header.ram = Device.ram
        /\ Images[b].header.ramSize = Device.ramSize /\ SizeOf(b) <= Device.slotSize
    <2>1. /\ Images[b].header.slot = Device.slot /\ Images[b].header.ram = Device.ram
          /\ Images[b].header.ramSize = Device.ramSize
          /\ Images[b].header.size <= Device.slotSize
      BY <1>1 DEF Check
    <2> QED  BY <2>1 DEF SizeOf
  <1>4. b \in Good
    <2>1. flash[Device.slot + 0] = Cell(b, "header", 0, 0)
      BY <1>1, <1>2 DEF InSlot
    <2>2. Device.slot \in Device.slot..(Device.slot + Device.slotSize - 1)
      BY <1>2
    <2>3. Device.slot \in DOMAIN flash
      BY <2>2, DownloadAssumption DEF FlashInv
    <2>4. flash[Device.slot].k = "header" /\ flash[Device.slot].of = b
      BY <1>2, <2>1 DEF Cell
    <2> QED  BY <2>3, <2>4 DEF FlashInv
  <1>5. /\ SizeOf(b) \in Nat /\ Images[b].header.slot = SlotOf(b)
        /\ Images[b].header.ram = Builds[b].layout.ram /\ Images[b].header.ramSize = Builds[b].layout.ramSize
        /\ \A n \in 0..(SizeOf(b) - 1): n < HeaderSize => Images[b].cells[n] = Cell(b, "header", 0, n)
    BY <1>4, GoodFacts
  <1>6. ASSUME NEW n \in 0..(SizeOf(b) - 1) PROVE flash[Device.slot + n] = Images[b].cells[n]
    <2>1. CASE n < HeaderSize
      <3>1. n \in 0..(HeaderSize - 1)
        BY <1>2, <1>5, <2>1
      <3>2. flash[Device.slot + n] = Cell(b, "header", 0, n)
        BY <1>1, <3>1 DEF InSlot
      <3> QED  BY <1>5, <2>1, <3>2
    <2>2. CASE ~(n < HeaderSize)
      <3>1. n \in HeaderSize..(Images[b].header.size - 1)
        BY <1>2, <1>5, <2>2 DEF SizeOf
      <3> QED  BY <1>1, <3>1 DEF BodyRight
    <2> QED  BY <2>1, <2>2
  <1> QED  BY <1>3, <1>4, <1>5, <1>6

LEMMA RunsWholeInv ==
    ASSUME BoardInv
    PROVE  RunsWhole
  <1> SUFFICES ASSUME loaded # 0
               PROVE  Apart(Object(loaded), Images[loaded]) /\ Whole(Object(loaded), Images[loaded], Memory(loaded))
    BY DEF RunsWhole
  <1> DEFINE b == loaded
             o == Object(b)
             L == Builds[b].layout
             size == SizeOf(b)
  <1>1. b \in Accepted(flash) /\ FlashInv
    BY DEF BoardInv, RunInv
  <1>2. /\ b \in Good /\ L.slot = Device.slot /\ L.ram = Device.ram /\ L.ramSize = Device.ramSize
        /\ size <= Device.slotSize
        /\ \A n \in 0..(size - 1): flash[Device.slot + n] = Images[b].cells[n]
    BY <1>1, AcceptedFacts DEF SlotOf
  <1>3. WellFormed(o) /\ LayoutFits(L)
    BY <1>2, ObjectIsWellFormed DEF Good
  <1>4. PICK p, app: /\ Images[b] = Linked(o, L, p, app, size) /\ Accepts(o, L, p, app, size)
                     /\ Images[b].cells = Cells(o, L, p, size)
    BY <1>2, GoodFacts
  <1>5. size \in Nat
    BY <1>2, GoodFacts
  <1>6. Apart(o, Images[b])
    <2> HIDE DEF o, L, size
    <2> QED  BY <1>3, <1>4, LinkedApart
  <1>7. L.slot..(L.slot + size - 1) \subseteq DOMAIN flash
    <2>1. Device.slot..(Device.slot + Device.slotSize - 1) \subseteq DOMAIN flash
      BY <1>1, DownloadAssumption DEF FlashInv
    <2>2. Device.slot \in Nat /\ Device.slotSize \in Nat
      BY DownloadAssumption DEF LayoutFits
    <2>3. Device.slot..(Device.slot + size - 1) \subseteq Device.slot..(Device.slot + Device.slotSize - 1)
      <3> HIDE DEF size
      <3> QED  BY <1>2, <1>5, <2>2
    <2> QED  BY <1>2, <2>1, <2>3
  <1> DEFINE mem == Memory(b)
  <1>8. LET ram == Prepare(flash, Linked(o, L, p, app, size).header, Device)
        IN mem = [a \in DOMAIN flash \cup DOMAIN ram |-> IF a \in DOMAIN ram THEN ram[a] ELSE flash[a]]
    BY <1>4 DEF Memory
  <1>9. \A n \in 0..(size - 1): flash[L.slot + n] = Cells(o, L, p, size)[n]
    BY <1>2, <1>4
  <1> HIDE DEF o, L, size, mem
  <1>10. Starts(o, L, p, size, mem)
    BY <1>2, <1>3, <1>4, <1>7, <1>8, <1>9, PreparedStarts
  <1>11. Whole(o, Images[b], mem)
    BY <1>3, <1>4, <1>10, StartsWhole
  <1> QED  BY <1>6, <1>11 DEF o, mem

\* plcc_image.c and loader.ino with download.ts, for every board and every sequence of builds, downloads,
\* failed requests, wrong writes and power losses: what the runtime starts was linked for its slot and RAM
\* and finds its sections, symbols and services where its object needs them.
THEOREM RunsOnlyWholePrograms == Spec => []RunsWhole
  <1>1. BoardInv => RunsWhole
    BY RunsWholeInv
  <1> QED  BY <1>1, BoardInvariant, PTL

-----------------------------------------------------------------------------
(***************************************************************************)
(* The report.  Verify has compared every cell up to pos, nothing writes   *)
(* after it, and a header names one build only.                            *)
(***************************************************************************)
Holding(n) == \A k \in 0..(n - 1): flash[Start + k] = Images[built].cells[k]
Reported ==
    said = "ok" /\ built # 0 =>
        /\ Start = Device.slot /\ Holding(Length)
        /\ mode = "runtime" /\ Check(Images[built].header, Device, MinVersion) => loaded = built
DeliverInv ==
    /\ step # "idle" => said # "ok"
    /\ step = "verify" => Holding(pos)
    /\ step = "leave" => Holding(Length)
    /\ Reported

LEMMA RunIsBuilt ==
    ASSUME built \in Good, Start = Device.slot, Holding(Length), Check(Images[built].header, Device, MinVersion)
    PROVE  Run(flash) = built
  <1>1. /\ Length \in Nat /\ Length = Images[built].header.size /\ HeaderSize <= Length
        /\ \A n \in 0..(Length - 1): n < HeaderSize => Images[built].cells[n] = Cell(built, "header", 0, n)
    BY GoodFacts DEF Length, SizeOf
  <1>2. HeaderSize \in Nat \ {0}
    BY ImageAssumption
  <1>3. \A n \in 0..(Length - 1): flash[Device.slot + n] = Images[built].cells[n]
    BY DEF Holding
  <1> DEFINE len == Length
  <1> HIDE DEF len
  <1>4. \A n \in 0..(HeaderSize - 1): n \in 0..(len - 1) /\ n < HeaderSize
    BY <1>1, <1>2 DEF len
  <1>5. built \in InSlot(flash)
    BY <1>1, <1>3, <1>4 DEF InSlot, Good, len
  <1>6. \A n \in HeaderSize..(len - 1): n \in 0..(len - 1)
    BY <1>1, <1>2 DEF len
  <1>7. BodyRight(flash, built)
    BY <1>1, <1>3, <1>6 DEF BodyRight, len
  <1>8. built \in Accepted(flash)
    BY <1>5, <1>7 DEF Accepted
  <1>9. ASSUME NEW b \in Accepted(flash) PROVE b = built
    <2>1. b \in InSlot(flash)
      BY DEF Accepted
    <2>2. 0 \in 0..(HeaderSize - 1)
      BY <1>2
    <2>3. Cell(b, "header", 0, 0) = Cell(built, "header", 0, 0)
      BY <1>5, <2>1, <2>2 DEF InSlot
    <2> QED  BY <2>3 DEF Cell
  <1>10. Accepted(flash) = {built}
    BY <1>8, <1>9
  <1> QED  BY <1>10 DEF Run

LEMMA SameHolding ==
    ASSUME built' = built, flash' = flash
    PROVE  /\ Start' = Start /\ Length' = Length /\ \A n: Holding(n)' <=> Holding(n)
  BY DEF Start, Length, Holding

LEMMA DeliverKept ==
    ASSUME OneSlot, BoardInv, SameInv, DeliverInv, Next
    PROVE  DeliverInv'
  <1>1. ASSUME said' # "ok", step' \notin {"verify", "leave"} PROVE DeliverInv'
    BY <1>1 DEF DeliverInv, Reported
  <1>2. CASE (\E b \in DOMAIN Builds: Build(b)) \/ Identify
    BY <1>1, <1>2 DEF Build, Identify, Failure
  <1>3. CASE Plan \/ Erase \/ Broken
    <2>1. step # "idle" /\ said # "ok"
      BY <1>3 DEF Plan, Erase, Broken, DeliverInv
    <2> QED  BY <1>1, <1>3, <2>1 DEF Plan, Erase, Broken, Failure
  <1>4. CASE Write
    <2>1. step = "write" /\ said' = said /\ said # "ok"
      BY <1>4 DEF Write, DeliverInv
    <2>2. CASE pos >= Length
      <3>1. step' = "verify" /\ pos' = 0
        BY <1>4, <2>2 DEF Write
      <3>2. Holding(pos)'
        BY <3>1 DEF Holding
      <3> QED  BY <2>1, <3>1, <3>2 DEF DeliverInv, Reported
    <2>3. CASE ~(pos >= Length)
      BY <1>1, <1>4, <2>1, <2>3 DEF Write
    <2> QED  BY <2>2, <2>3
  <1>5. CASE Verify
    <2>1. /\ step = "verify" /\ flash' = flash /\ built' = built /\ said # "ok" /\ Holding(pos)
          /\ built \in Good /\ pos \in Nat
      BY <1>5 DEF Verify, DeliverInv, BoardInv, StepInv
    <2>2. Length \in Nat
      BY <2>1, GoodFacts DEF Length, SizeOf
    <2>3. CASE pos >= Length
      <3>1. step' = "leave" /\ said' = said
        BY <1>5, <2>3 DEF Verify
      <3>2. Holding(Length)
        <4>1. \A k \in 0..(Length - 1): k \in 0..(pos - 1)
          <5> HIDE DEF Length
          <5> QED  BY <2>1, <2>2, <2>3
        <4> QED  BY <2>1, <4>1 DEF Holding
      <3>3. Holding(Length)'
        BY <2>1, <3>2, SameHolding
      <3> QED  BY <2>1, <3>1, <3>3 DEF DeliverInv, Reported
    <2>4. CASE ~(pos >= Length) /\ Matches(pos)
      <3>1. step' = step /\ said' = said /\ pos' = pos + Chunk
        BY <1>5, <2>4 DEF Verify
      <3>2. Chunk \in Nat \ {0} /\ pos + Chunk <= Length /\ Start \in Nat
        BY <2>1, <2>2, <2>4, ChunkFacts DEF BoardInv
      <3> DEFINE m == pos + Chunk
      <3>3. ASSUME NEW k \in 0..(m - 1) PROVE flash[Start + k] = Images[built].cells[k]
        <4>1. CASE k < pos
          <5>1. k \in 0..(pos - 1)
            BY <2>1, <3>2, <4>1
          <5> QED  BY <2>1, <5>1 DEF Holding
        <4>2. CASE ~(k < pos)
          <5> DEFINE a == Start + k
                     from == Start
                     size == Chunk
          <5> HIDE DEF from, size
          <5>1. a \in (from + pos)..(from + pos + size - 1) /\ a - from = k
            BY <2>1, <3>2, <4>2 DEF from, size
          <5>2. a \in (Start + pos)..(Start + pos + Chunk - 1) /\ a - Start = k
            BY <5>1 DEF from, size
          <5> HIDE DEF a
          <5>3. flash[a] = Images[built].cells[a - Start]
            BY <2>4, <5>2 DEF Matches, Wanted
          <5>4. flash[a] = Images[built].cells[k]
            BY <5>2, <5>3
          <5> QED  BY <5>4 DEF a
        <4> QED  BY <4>1, <4>2
      <3>4. Start' = Start /\ pos' = m
        BY <2>1, <3>1, SameHolding
      <3> HIDE DEF m
      <3>5. Holding(pos)'
        <4>1. \A k \in 0..(m - 1): flash[Start + k] = Images[built].cells[k]
          BY <3>3
        <4>2. \A k \in 0..(pos' - 1): flash'[Start' + k] = Images[built'].cells[k]
          <5> HIDE DEF Start
          <5> QED  BY <2>1, <3>4, <4>1
        <4> QED  BY <4>2 DEF Holding
      <3> QED  BY <2>1, <3>1, <3>5 DEF DeliverInv, Reported
    <2>5. CASE ~(pos >= Length) /\ ~Matches(pos)
      BY <1>1, <1>5, <2>5 DEF Verify, Failure
    <2> QED  BY <2>3, <2>4, <2>5
  <1>6. CASE Leave
    <2>1. /\ step = "leave" /\ flash' = flash /\ built' = built /\ Holding(Length) /\ built \in Good
          /\ step' = "idle" /\ SameDevice(built) /\ loaded = 0
      BY <1>6 DEF Leave, DeliverInv, BoardInv, StepInv, SameInv
    <2>2. Start = Device.slot
      BY <2>1 DEF OneSlot, Good, Start
    <2>3. mode = "dfu"
      BY <2>1 DEF BoardInv, StepInv
    <2>4. ASSUME mode' = "runtime", Check(Images[built].header, Device, MinVersion) PROVE loaded' = built
      <3>1. loaded' = Run(flash)
        BY <1>6, <2>3, <2>4 DEF Leave
      <3> QED  BY <2>1, <2>2, <2>4, <3>1, RunIsBuilt
    <2>5. Start' = Device.slot /\ Holding(Length)'
      BY <2>1, <2>2, SameHolding
    <2>6. Reported'
      BY <2>1, <2>4, <2>5 DEF Reported
    <2> QED  BY <2>1, <2>6 DEF DeliverInv
  <1>7. CASE PowerCycle
    <2>1. flash' = flash /\ built' = built /\ loaded' = Run(flash)
      BY <1>7 DEF PowerCycle
    <2>2. CASE step # "idle"
      BY <1>1, <1>7, <2>2 DEF PowerCycle, Failure
    <2>3. CASE step = "idle"
      <3>1. step' = "idle" /\ said' = said
        BY <1>7, <2>3 DEF PowerCycle
      <3>2. ASSUME said = "ok", built # 0
            PROVE  /\ Start' = Device.slot /\ Holding(Length)'
                   /\ Check(Images[built].header, Device, MinVersion) => loaded' = built
        <4>1. Start = Device.slot /\ Holding(Length) /\ built \in Good
          BY <3>2 DEF DeliverInv, Reported, BoardInv, StepInv
        <4>2. Start' = Device.slot /\ Holding(Length)'
          BY <2>1, <4>1, SameHolding
        <4> QED  BY <2>1, <4>1, <4>2, RunIsBuilt
      <3>3. Reported'
        BY <2>1, <3>1, <3>2 DEF Reported
      <3> QED  BY <3>1, <3>3 DEF DeliverInv
    <2> QED  BY <2>2, <2>3
  <1> QED  BY <1>2, <1>3, <1>4, <1>5, <1>6, <1>7 DEF Next

LEMMA DeliverInvariant ==
    ASSUME OneSlot
    PROVE  Spec => []DeliverInv
  <1>1. Init => DeliverInv
    BY DEF Init, DeliverInv, Reported
  <1>2. BoardInv /\ SameInv /\ DeliverInv /\ [Next]_vars => DeliverInv'
    <2>1. ASSUME DeliverInv, UNCHANGED vars PROVE DeliverInv'
      <3>1. built' = built /\ flash' = flash /\ pos' = pos /\ step' = step /\ said' = said /\ mode' = mode
            /\ loaded' = loaded
        BY <2>1 DEF vars
      <3>2. Holding(pos)' <=> Holding(pos)
        BY <3>1 DEF Holding, Start
      <3>3. (Holding(Length)' <=> Holding(Length)) /\ Start' = Start
        BY <3>1 DEF Holding, Length, Start
      <3>4. Reported'
        BY <2>1, <3>1, <3>3 DEF DeliverInv, Reported
      <3> QED  BY <2>1, <3>1, <3>2, <3>3, <3>4 DEF DeliverInv
    <2> QED  BY <2>1, DeliverKept
  <1> QED  BY <1>1, <1>2, BoardInvariant, PTL DEF Spec

\* download.ts over dfuse.ts, for every board and every sequence of builds, downloads, failed requests,
\* wrong writes and power losses, when runtimes of one target and ABI have one slot: when the studio
\* reports success the slot holds the whole image that was built, and the runtime runs that build as soon
\* as it is back and accepts it; and what it runs is a whole program linked for it.
THEOREM WhatWasBuiltRuns ==
    ASSUME OneSlot
    PROVE  Spec => []DownloadWhole
  <1>1. BoardInv /\ DeliverInv => Delivered
    <2> SUFFICES ASSUME BoardInv, DeliverInv, said = "ok", built # 0
                 PROVE  /\ \A n \in 0..(Length - 1): flash[Device.slot + n] = Images[built].cells[n]
                        /\ mode = "runtime" /\ Check(Images[built].header, Device, MinVersion) => loaded = built
      BY DEF Delivered
    <2> QED  BY DEF DeliverInv, Reported, Holding
  <1>2. BoardInv /\ DeliverInv => DownloadWhole
    BY <1>1, RunsWholeInv DEF DownloadWhole
  <1> QED  BY <1>2, BoardInvariant, DeliverInvariant, PTL

-----------------------------------------------------------------------------
(***************************************************************************)
(* The parts of the run.  A behaviour stays in its part, so an invariant   *)
(* of the part is one of the run: at each step either the part's own       *)
(* next-state relation holds or nothing of it changes.                     *)
(***************************************************************************)
\* The images that are linked and the headers that are checked do not change.
ImagesInv == (part = "object" => v1 \in Objects) /\ (part = "header" => v1 \in Headers)

LEMMA ImagesInvariant == AllSpec => []ImagesInv
  <1>1. AllInit => ImagesInv
    BY Zenon DEF AllInit, ImagesInv
  <1>2. ImagesInv /\ [AllNext]_<<part, others, vars>> => ImagesInv'
    <2>1. part \in {"object", "header"} /\ AllNext => FALSE
      BY DEF AllNext
    <2>2. ImagesInv /\ UNCHANGED <<part, others, vars>> => ImagesInv'
      BY DEF ImagesInv, others
    <2>3. AllNext => part' = part
      BY DEF AllNext
    <2> QED  BY <2>1, <2>2, <2>3 DEF ImagesInv
  <1> QED  BY <1>1, <1>2, PTL DEF AllSpec

\* plcc-image and plcc_image.c, for every layout, every object to link and every header: what the linker
\* accepts the loader takes and starts whole, and a header it takes lets it copy, clear and call only
\* where it may.
THEOREM EveryImageFits ==
    ASSUME ImagesAssumption
    PROVE  AllSpec => []ImagesFit
  <1>1. ImagesInv => ImagesFit
    <2>1. ASSUME v1 \in Objects PROVE LinksWhole(v1, ImageDevice)
      <3>1. WellFormed(v1) /\ LayoutFits(ImageDevice)
        BY <2>1 DEF ImagesAssumption
      <3> QED  BY <3>1, LinkedIsWhole
    <2>2. ASSUME v1 \in Headers PROVE StartsSafely(v1, ImageDevice)
      <3>1. /\ LayoutFits(ImageDevice)
            /\ {v1.size, v1.text, v1.textSize, v1.dataLoad, v1.data, v1.dataSize, v1.bss, v1.bssSize, v1.getApp} \subseteq Nat
        BY <2>2 DEF ImagesAssumption
      <3> QED  BY <3>1, HeaderStartsSafely
    <2> QED  BY <2>1, <2>2 DEF ImagesInv, ImagesFit
  <1> QED  BY <1>1, ImagesInvariant, PTL

-----------------------------------------------------------------------------
(***************************************************************************)
(* Dates.  The proofs of Dates_proofs are about definitions of their own   *)
(* instance; they are those of the run's.                                  *)
(***************************************************************************)
Cal == INSTANCE Dates_proofs WITH year <- v1, month <- v2, first <- v3

LEMMA SameDivision ==
    ASSUME NEW a, NEW b
    PROVE  /\ Calendar!Trunc(a, b) = Cal!Trunc(a, b)
           /\ Calendar!Rem(a, b) = Cal!Rem(a, b)
           /\ Calendar!FloorDiv(a, b) = Cal!FloorDiv(a, b)
           /\ Calendar!FloorMod(a, b) = Cal!FloorMod(a, b)
  <1>1. Calendar!Trunc(a, b) = Cal!Trunc(a, b)
    BY Zenon DEF Calendar!Trunc, Cal!Trunc
  <1>2. Calendar!Rem(a, b) = Cal!Rem(a, b)
    BY <1>1, Zenon DEF Calendar!Rem, Cal!Rem
  <1> QED  BY <1>1, <1>2, Zenon DEF Calendar!FloorDiv, Cal!FloorDiv, Calendar!FloorMod, Cal!FloorMod

LEMMA SameFormulas ==
    ASSUME NEW y, NEW m, NEW d
    PROVE  /\ Calendar!LengthOf(y, m) = Cal!LengthOf(y, m)
           /\ Calendar!MonthFromMarch(m) = Cal!MonthFromMarch(m)
           /\ Calendar!Era(y) = Cal!Era(y)
           /\ Calendar!EmittedDays(y, m, d) = Cal!EmittedDays(y, m, d)
           /\ Calendar!LiteralDays(y, m, d) = Cal!LiteralDays(y, m, d)
           /\ Calendar!DateLiteral(y, m, d) = Cal!DateLiteral(y, m, d)
  <1>1. Calendar!LengthOf(y, m) = Cal!LengthOf(y, m)
    BY Zenon DEF Calendar!LengthOf, Cal!LengthOf, Calendar!Leap, Cal!Leap
  <1>2. Calendar!MonthFromMarch(m) = Cal!MonthFromMarch(m)
    BY Zenon DEF Calendar!MonthFromMarch, Cal!MonthFromMarch
  <1>3. \A n : Calendar!Era(n) = Cal!Era(n)
    BY SameDivision, SMT DEF Calendar!Era, Cal!Era
  <1>4. Calendar!EmittedDays(y, m, d) = Cal!EmittedDays(y, m, d)
    <2> DEFINE v == y - (IF m <= 2 THEN 1 ELSE 0)
               Days(e, p, q, r) == e * 146097 + ((v - e * 400) * 365 + p - q + (r + d - 1)) - 719468
    <2>1. Calendar!EmittedDays(y, m, d) =
            Days(Calendar!FloorDiv(v, 400), Calendar!Trunc(v - Calendar!FloorDiv(v, 400) * 400, 4),
                 Calendar!Trunc(v - Calendar!FloorDiv(v, 400) * 400, 100), Calendar!Trunc(Calendar!MonthFromMarch(m) * 153 + 2, 5))
      BY SMT DEF Calendar!EmittedDays
    <2>2. Cal!EmittedDays(y, m, d) =
            Days(Cal!FloorDiv(v, 400), Cal!Trunc(v - Cal!FloorDiv(v, 400) * 400, 4),
                 Cal!Trunc(v - Cal!FloorDiv(v, 400) * 400, 100), Cal!Trunc(Cal!MonthFromMarch(m) * 153 + 2, 5))
      BY SMT DEF Cal!EmittedDays
    <2> HIDE DEF Days, v
    <2>3. Calendar!FloorDiv(v, 400) = Cal!FloorDiv(v, 400)
      BY SameDivision
    <2>4. \A n : Calendar!Trunc(n, 4) = Cal!Trunc(n, 4) /\ Calendar!Trunc(n, 100) = Cal!Trunc(n, 100)
                 /\ Calendar!Trunc(n, 5) = Cal!Trunc(n, 5)
      BY SameDivision
    <2> QED  BY <1>2, <2>1, <2>2, <2>3, <2>4
  <1>5. Calendar!LiteralDays(y, m, d) = Cal!LiteralDays(y, m, d)
    <2> DEFINE v == IF m <= 2 THEN y - 1 ELSE y
               Days(e, p, q, r) == e * 146097 + ((v - e * 400) * 365 + p - q + (r + d - 1)) - 719468
    <2>1. Calendar!LiteralDays(y, m, d) =
            Days(Calendar!Era(v), Calendar!Trunc(v - Calendar!Era(v) * 400, 4),
                 Calendar!Trunc(v - Calendar!Era(v) * 400, 100), Calendar!Trunc(153 * Calendar!Rem(m + 9, 12) + 2, 5))
      BY SMT DEF Calendar!LiteralDays
    <2>2. Cal!LiteralDays(y, m, d) =
            Days(Cal!Era(v), Cal!Trunc(v - Cal!Era(v) * 400, 4),
                 Cal!Trunc(v - Cal!Era(v) * 400, 100), Cal!Trunc(153 * Cal!Rem(m + 9, 12) + 2, 5))
      BY SMT DEF Cal!LiteralDays
    <2> HIDE DEF Days, v
    <2>3. Calendar!Rem(m + 9, 12) = Cal!Rem(m + 9, 12)
      BY SameDivision
    <2>4. \A n : Calendar!Trunc(n, 4) = Cal!Trunc(n, 4) /\ Calendar!Trunc(n, 100) = Cal!Trunc(n, 100)
                 /\ Calendar!Trunc(n, 5) = Cal!Trunc(n, 5)
      BY SameDivision
    <2> QED  BY <1>3, <2>1, <2>2, <2>3, <2>4
  <1>6. Calendar!DateLiteral(y, m, d) = Cal!DateLiteral(y, m, d)
    BY <1>5, Zenon DEF Calendar!DateLiteral, Cal!DateLiteral
  <1> QED  BY <1>1, <1>2, <1>3, <1>4, <1>5, <1>6, Zenon

LEMMA SameInstants ==
    ASSUME NEW t
    PROVE  /\ Calendar!TodOf(t) = Cal!TodOf(t)
           /\ Calendar!DateOf(t) = Cal!DateOf(t)
           /\ Calendar!DayOfWeek(t) = Cal!DayOfWeek(t)
  <1>1. Calendar!TodOf(t) = Cal!TodOf(t)
    BY SameDivision, Zenon DEF Calendar!TodOf, Cal!TodOf
  <1> QED  BY <1>1, SameDivision, Zenon DEF Calendar!DateOf, Cal!DateOf, Calendar!DayOfWeek, Cal!DayOfWeek

LEMMA CalendarIsTheirs ==
    /\ Calendar!DatesAssumption <=> Cal!DatesAssumption
    /\ Calendar!Init <=> Cal!Init
    /\ Calendar!Next <=> Cal!Next
    /\ Calendar!CalendarAgrees <=> Cal!CalendarAgrees
  <1>1. Calendar!DatesAssumption <=> Cal!DatesAssumption
    BY Zenon DEF Calendar!DatesAssumption, Cal!DatesAssumption
  <1>2. Calendar!Init <=> Cal!Init
    BY Zenon DEF Calendar!Init, Cal!Init
  <1>3. Calendar!Next <=> Cal!Next
    BY SameFormulas, Zenon DEF Calendar!Next, Cal!Next, Calendar!NextMonth, Cal!NextMonth, Calendar!LastMonth, Cal!LastMonth
  <1>4. \A d : Calendar!DateAgrees(d) <=> Cal!DateAgrees(d)
    BY SameFormulas, SameInstants, Zenon DEF Calendar!DateAgrees, Cal!DateAgrees
  <1>5. Calendar!Samples = Cal!Samples
    BY SameFormulas, Zenon DEF Calendar!Samples, Cal!Samples
  <1>6. Calendar!CalendarAgrees <=> Cal!CalendarAgrees
    BY <1>4, <1>5, Zenon DEF Calendar!CalendarAgrees, Cal!CalendarAgrees
  <1> QED  BY <1>1, <1>2, <1>3, <1>6

CalendarPart == part = "calendar" => Cal!CalendarInv

LEMMA CalendarPartInvariant ==
    ASSUME Calendar!DatesAssumption
    PROVE  AllSpec => []CalendarPart
  <1>1. AllInit => CalendarPart
    <2>1. AllInit /\ part = "calendar" => Cal!Init
      BY CalendarIsTheirs DEF AllInit
    <2>2. Cal!Init => Cal!CalendarInv
      BY Cal!CalendarStarts
    <2> QED  BY <2>1, <2>2 DEF CalendarPart
  <1>2. CalendarPart /\ [AllNext]_<<part, others, vars>> => CalendarPart'
    <2>1. AllNext /\ part = "calendar" => Cal!Next
      BY CalendarIsTheirs DEF AllNext
    <2>2. UNCHANGED <<part, others, vars>> => UNCHANGED Cal!vars
      BY DEF others, Cal!vars
    <2>3. Cal!CalendarInv /\ [Cal!Next]_(Cal!vars) => Cal!CalendarInv'
      BY Cal!CalendarStep
    <2>4. [AllNext]_<<part, others, vars>> => part' = part
      BY DEF AllNext
    <2> QED  BY <2>1, <2>2, <2>3, <2>4 DEF CalendarPart
  <1> QED  BY <1>1, <1>2, PTL DEF AllSpec

\* lower.rs and compiler.rs (days_from_civil and the DT splits), for every length of a day and every walk
\* through the calendar: a literal, CONCAT_DATE and the split of an instant give a day its one number.
THEOREM EveryDateAgrees ==
    ASSUME Calendar!DatesAssumption
    PROVE  AllSpec => []CalendarAgrees
  <1>1. CalendarPart => CalendarAgrees
    <2>1. Cal!CalendarInv => Cal!CalendarAgrees
      BY CalendarIsTheirs, Cal!SamplesAgree
    <2> QED  BY <2>1, CalendarIsTheirs DEF CalendarPart, CalendarAgrees
  <1> QED  BY <1>1, CalendarPartInvariant, PTL

-----------------------------------------------------------------------------
(***************************************************************************)
(* The string helpers.  StrP is Strings, word for word.                    *)
(***************************************************************************)
StrP == INSTANCE StringOps_proofs WITH
    Base <- NumberBase,
    mem <- v1, job <- v2, calls <- v3, dest <- v4, room <- v5, segs <- v6, i <- v7, k <- v8, loop <- v9, answer <- v10

LEMMA SameStringsInit == Strings!Init <=> StrP!Init
  BY Zenon
     DEF Strings!NUL, StrP!NUL, Strings!Buffers, StrP!Buffers, Strings!Idle, StrP!Idle,
         Strings!Init, StrP!Init

LEMMA SameReading ==
    ASSUME NEW j
    PROVE  /\ Strings!Idle = StrP!Idle /\ Strings!Magnitude = StrP!Magnitude
           /\ Strings!ResultBytes(j) = StrP!ResultBytes(j)
           /\ Strings!Meaning(j) = StrP!Meaning(j)
           /\ Strings!Written(j) = StrP!Written(j)
           /\ Strings!Astray(j) = StrP!Astray(j)
           /\ Strings!NumberText(j.v, j.unsigned) = StrP!NumberText(j.v, j.unsigned)
  <1>1. Strings!Idle = StrP!Idle
    BY Zenon
       DEF Strings!Idle, StrP!Idle
  <1>2. Strings!Magnitude = StrP!Magnitude
    BY Zenon
       DEF Strings!TwoTo, StrP!TwoTo, Strings!Magnitude, StrP!Magnitude
  <1>3. Strings!ResultBytes(j) = StrP!ResultBytes(j)
    BY Zenon
       DEF Strings!ResultBytes, StrP!ResultBytes
  <1>4. Strings!Meaning(j) = StrP!Meaning(j)
    BY Zenon
       DEF Strings!NUL, StrP!NUL, Strings!Lowest, StrP!Lowest, Strings!Highest, StrP!Highest,
           Strings!Clamped, StrP!Clamped, Strings!Cut, StrP!Cut, Strings!Left, StrP!Left,
           Strings!Right, StrP!Right, Strings!Mid, StrP!Mid, Strings!Replace, StrP!Replace,
           Strings!Insert, StrP!Insert, Strings!StrLen, StrP!StrLen, Strings!Text, StrP!Text,
           Strings!Meaning, StrP!Meaning
  <1>5. Strings!Written(j) = StrP!Written(j)
    BY Zenon
       DEF Strings!Minus, StrP!Minus, Strings!Digit, StrP!Digit, Strings!Weight, StrP!Weight,
           Strings!Numeral, StrP!Numeral, Strings!TwoTo, StrP!TwoTo, Strings!Written, StrP!Written
  <1>6. Strings!Astray(j) = StrP!Astray(j)
    BY Zenon
       DEF Strings!NUL, StrP!NUL, Strings!StrLen, StrP!StrLen, Strings!Astray, StrP!Astray
  <1>7. Strings!NumberText(j.v, j.unsigned) = StrP!NumberText(j.v, j.unsigned)
    <2>1. Strings!TwoTo = StrP!TwoTo
      BY Zenon DEF Strings!TwoTo, StrP!TwoTo
    <2>2. Strings!DigitsOf = StrP!DigitsOf
      BY <1>2, Zenon DEF Strings!DigitsOf, StrP!DigitsOf, Strings!Digit, StrP!Digit
    <2> QED  BY <2>1, <2>2, Zenon DEF Strings!NumberText, StrP!NumberText, Strings!Negative, StrP!Negative,
                Strings!Minus, StrP!Minus
  <1> QED  BY <1>1, <1>2, <1>3, <1>4, <1>5, <1>6, <1>7

LEMMA SameStrLcpy ==
    ASSUME NEW to, NEW cap, NEW from
    PROVE  /\ Strings!Whole(from) = StrP!Whole(from)
           /\ Strings!StrLcpy(to, cap, from) = StrP!StrLcpy(to, cap, from)
           /\ Strings!StrLcat(to, cap, from) = StrP!StrLcat(to, cap, from)
  BY SMT DEF Strings!NoEnd, StrP!NoEnd, Strings!Copy, StrP!Copy, Strings!Whole, StrP!Whole,
             Strings!Call, StrP!Call, Strings!StrLcpy, StrP!StrLcpy, Strings!StrLcat, StrP!StrLcat

LEMMA SameReplaceCall ==
    ASSUME NEW j, NEW b, NEW l, NEW p
    PROVE  Strings!ReplaceCall(j, b, l, p) = StrP!ReplaceCall(j, b, l, p)
  <1> DEFINE n == Strings!StrLen(v1[j.a])
  <1>1. n = StrP!StrLen(v1[j.a])
    BY Zenon
       DEF Strings!NUL, StrP!NUL, Strings!StrLen, StrP!StrLen
  <1> HIDE DEF n
  <1>2. Strings!From(n, p) = StrP!From(n, p) /\ Strings!Rest(n, l, p) = StrP!Rest(n, l, p)
    BY Zenon
       DEF Strings!Lowest, StrP!Lowest, Strings!Highest, StrP!Highest, Strings!From, StrP!From,
           Strings!Rest, StrP!Rest
  <1>3. Strings!ResultBytes(j) = StrP!ResultBytes(j) /\ Strings!Whole(b) = StrP!Whole(b)
    BY SameReading, SameStrLcpy
  <1> QED  BY <1>1, <1>2, <1>3, Zenon
          DEF Strings!Copy, StrP!Copy, Strings!Call, StrP!Call, Strings!ReplaceCall,
              StrP!ReplaceCall, n

LEMMA SameHelperCalls ==
    ASSUME NEW j
    PROVE  Strings!HelperCalls(j) = StrP!HelperCalls(j)
  <1> DEFINE n == Strings!ResultBytes(j)
  <1>1. n = StrP!ResultBytes(j)
    BY SameReading
  <1>2. /\ Strings!StrLcpy("temp", n, j.a) = StrP!StrLcpy("temp", n, j.a)
        /\ Strings!StrLcat("temp", n, j.b) = StrP!StrLcat("temp", n, j.b)
    BY SameStrLcpy
  <1>7. /\ Strings!StrLcpy("temp", Strings!ResultBytes(j), j.a) = StrP!StrLcpy("temp", StrP!ResultBytes(j), j.a)
        /\ Strings!StrLcat("temp", Strings!ResultBytes(j), j.b) = StrP!StrLcat("temp", StrP!ResultBytes(j), j.b)
    BY <1>1, <1>2
  <1>3. /\ Strings!ReplaceCall(j, j.b, j.l, j.p) = StrP!ReplaceCall(j, j.b, j.l, j.p)
        /\ Strings!ReplaceCall(j, j.b, 0, j.p + 1) = StrP!ReplaceCall(j, j.b, 0, j.p + 1)
        /\ Strings!ReplaceCall(j, "empty", j.l, j.p) = StrP!ReplaceCall(j, "empty", j.l, j.p)
    BY SameReplaceCall
  <1>4. Strings!LeftCall(j) = StrP!LeftCall(j)
    BY Zenon
       DEF Strings!Copy, StrP!Copy, Strings!Call, StrP!Call, Strings!ResultBytes, StrP!ResultBytes,
           Strings!LeftCall, StrP!LeftCall
  <1>5. Strings!RightCall(j) = StrP!RightCall(j)
    BY Zenon
       DEF Strings!NUL, StrP!NUL, Strings!Highest, StrP!Highest, Strings!StrLen, StrP!StrLen,
           Strings!Copy, StrP!Copy, Strings!Call, StrP!Call, Strings!ResultBytes, StrP!ResultBytes,
           Strings!RightStart, StrP!RightStart, Strings!RightCall, StrP!RightCall
  <1>6. Strings!MidCall(j) = StrP!MidCall(j)
    BY Zenon
       DEF Strings!Copy, StrP!Copy, Strings!Call, StrP!Call, Strings!ResultBytes, StrP!ResultBytes,
           Strings!MidCall, StrP!MidCall
  <1> QED  BY <1>7, <1>3, <1>4, <1>5, <1>6, Zenon DEF Strings!HelperCalls, StrP!HelperCalls

LEMMA SameStatement == Strings!Statement <=> StrP!Statement
  <1>1. \A v : Strings!StoreLiteral(v) <=> StrP!StoreLiteral(v)
    BY Zenon
       DEF Strings!NUL, StrP!NUL, Strings!Lowest, StrP!Lowest, Strings!Idle, StrP!Idle,
           Strings!Fitted, StrP!Fitted, Strings!StoreLiteral, StrP!StoreLiteral
  <1>2. \A v, w : Strings!CopyVariable(v, w) <=> StrP!CopyVariable(v, w)
    BY Zenon
       DEF Strings!NUL, StrP!NUL, Strings!Idle, StrP!Idle, Strings!Reshaped, StrP!Reshaped,
           Strings!CopyVariable, StrP!CopyVariable
  <1>3. ASSUME NEW v, NEW j PROVE Strings!AssignBuiltin(v, j) <=> StrP!AssignBuiltin(v, j)
    <2>1. /\ Strings!Idle = StrP!Idle /\ Strings!Junk = StrP!Junk
          /\ Strings!ResultBytes(j) = StrP!ResultBytes(j)
          /\ Strings!Meaning(j) = StrP!Meaning(j)
          /\ Strings!Astray(j) = StrP!Astray(j)
          /\ Strings!HelperCalls(j) = StrP!HelperCalls(j)
          /\ Strings!StrLcpy(v, Size[v], "temp") = StrP!StrLcpy(v, Size[v], "temp")
      BY SameReading, SameHelperCalls, SameStrLcpy DEF Strings!Junk, StrP!Junk
    <2> QED  BY <2>1, Zenon DEF Strings!AssignBuiltin, StrP!AssignBuiltin
  <1>4. ASSUME NEW v, NEW j PROVE Strings!AssignNumber(v, j) <=> StrP!AssignNumber(v, j)
    <2>1. /\ Strings!Idle = StrP!Idle /\ Strings!Written(j) = StrP!Written(j)
          /\ Strings!ResultBytes(j) = StrP!ResultBytes(j)
          /\ Strings!NumberText(j.v, j.unsigned) = StrP!NumberText(j.v, j.unsigned)
      BY SameReading
    <2>2. /\ Strings!HelperCalls(j) = StrP!HelperCalls(j)
          /\ Strings!StrLcpy(v, Size[v], "temp") = StrP!StrLcpy(v, Size[v], "temp")
      BY SameHelperCalls, SameStrLcpy
    <2>3. Strings!NUL = StrP!NUL /\ Strings!Junk = StrP!Junk
      BY Zenon DEF Strings!NUL, StrP!NUL, Strings!Junk, StrP!Junk
    <2> QED  BY <2>1, <2>2, <2>3, Zenon DEF Strings!AssignNumber, StrP!AssignNumber
  <1>5. Strings!Builtins = StrP!Builtins
    BY Zenon DEF Strings!Builtins, StrP!Builtins, Strings!Plain, StrP!Plain
  <1>6. Strings!Conversions = StrP!Conversions
    BY SameReading, Zenon DEF Strings!Conversions, StrP!Conversions
  <1> QED  BY <1>1, <1>2, <1>3, <1>4, <1>5, <1>6, Zenon DEF Strings!Statement, StrP!Statement

LEMMA SameHelper == Strings!Helper <=> StrP!Helper
  BY Zenon
     DEF Strings!NUL, StrP!NUL, Strings!Chars, StrP!Chars, Strings!Junk, StrP!Junk, Strings!Idle, StrP!Idle, Strings!StrLen, StrP!StrLen, Strings!Loads,
         StrP!Loads, Strings!Loop, StrP!Loop, Strings!StartOf, StrP!StartOf, Strings!StartCall,
         StrP!StartCall, Strings!Goes, StrP!Goes, Strings!CopyByte, StrP!CopyByte, Strings!LoopEnds,
         StrP!LoopEnds, Strings!CallEnds, StrP!CallEnds, Strings!Helper, StrP!Helper

LEMMA SameQuery == (Strings!Query <=> StrP!Query) /\ ((\E q \in Strings!Queries : Strings!Ask(q)) <=> \E q \in StrP!Queries : StrP!Ask(q))
  BY Zenon
     DEF Strings!NUL, StrP!NUL, Strings!Minus, StrP!Minus, Strings!Digit, StrP!Digit, Strings!Chars,
         StrP!Chars, Strings!Junk, StrP!Junk, Strings!Idle, StrP!Idle,
         Strings!StrLen, StrP!StrLen, Strings!Text, StrP!Text, Strings!Loads, StrP!Loads,
         Strings!TwoTo, StrP!TwoTo, Strings!IsDigit, StrP!IsDigit, Strings!DigitsFrom,
         StrP!DigitsFrom, Strings!Wrapped, StrP!Wrapped, Strings!NumberIn, StrP!NumberIn,
         Strings!Queries, StrP!Queries, Strings!Ask, StrP!Ask, Strings!Answered, StrP!Answered,
         Strings!NextStart, StrP!NextStart, Strings!FindOuter, StrP!FindOuter, Strings!FindInner,
         StrP!FindInner, Strings!Sign, StrP!Sign, Strings!CompareByte, StrP!CompareByte,
         Strings!Query, StrP!Query

LEMMA SameStringsNext == Strings!Next <=> StrP!Next
  BY SameStatement, SameHelper, SameQuery, Zenon DEF Strings!Next, StrP!Next

LEMMA SameStringsAssumption == Strings!StringsAssumption <=> StrP!StringsAssumption
  BY SMT
     DEF Strings!NUL, StrP!NUL, Strings!Chars, StrP!Chars, Strings!MaxBytes, StrP!MaxBytes,
         Strings!StringsAssumption, StrP!StringsAssumption

LEMMA SameStringsProperties ==
    /\ Strings!OnlyMidStrays <=> StrP!OnlyMidStrays
    /\ Strings!AlwaysTerminated <=> StrP!AlwaysTerminated
    /\ Strings!EndsMeantInText <=> StrP!EndsMeantInText
    /\ Strings!AnswersRight <=> StrP!AnswersRight
  BY Zenon
     DEF Strings!NUL, StrP!NUL, Strings!Minus, StrP!Minus, Strings!Digit, StrP!Digit, Strings!Junk,
         StrP!Junk, Strings!Lowest, StrP!Lowest, Strings!Idle, StrP!Idle, Strings!Cut, StrP!Cut,
         Strings!OccursAt, StrP!OccursAt, Strings!Find, StrP!Find, Strings!Before, StrP!Before,
         Strings!Order, StrP!Order, Strings!Weight, StrP!Weight, Strings!Numeral, StrP!Numeral,
         Strings!Terminated, StrP!Terminated, Strings!StrLen, StrP!StrLen, Strings!Text, StrP!Text,
         Strings!TwoTo, StrP!TwoTo, Strings!Magnitude, StrP!Magnitude, Strings!Conversions,
         StrP!Conversions, Strings!Written, StrP!Written, Strings!Loop, StrP!Loop,
         Strings!StoresInBounds, StrP!StoresInBounds, Strings!LoadsInBounds, StrP!LoadsInBounds,
         Strings!MidStrays, StrP!MidStrays, Strings!OnlyMidStrays, StrP!OnlyMidStrays,
         Strings!AlwaysTerminated, StrP!AlwaysTerminated, Strings!StatementEnds,
         StrP!StatementEnds, Strings!EndsMeantInText, StrP!EndsMeantInText,
         Strings!AnswersRight, StrP!AnswersRight

-----------------------------------------------------------------------------
StringsPart == part = "strings" => StrP!HeldInv /\ StrP!MeansHeld /\ StrP!AnswerInv

LEMMA StringsPartStarts ==
    ASSUME Strings!StringsAssumption, AllInit
    PROVE  StringsPart
  <1>1. part = "strings" => StrP!Init
    BY SameStringsInit DEF AllInit
  <1>2. StrP!Init => StrP!HeldInv /\ StrP!MeansHeld /\ StrP!AnswerInv
    BY SameStringsAssumption, StrP!HeldStarts
  <1> QED  BY <1>1, <1>2 DEF StringsPart

\* What every step of the run does, seen from this part.
LEMMA StringsPartStep ==
    ASSUME Strings!StringsAssumption, StringsPart, [AllNext]_<<part, others, vars>>
    PROVE  /\ StringsPart'
           /\ (part = "strings" => Strings!EndsMeantInText) \/ UNCHANGED <<part, others, vars>>
  <1>1. part' = part
    BY DEF AllNext
  <1> SUFFICES ASSUME part = "strings"
               PROVE  /\ StrP!HeldInv' /\ StrP!MeansHeld' /\ StrP!AnswerInv'
                      /\ StrP!EndsMeantInText \/ UNCHANGED <<part, others, vars>>
    BY <1>1, SameStringsProperties DEF StringsPart
  <1>2. AllNext => StrP!Next /\ UNCHANGED vars
    BY SameStringsNext DEF AllNext
  <1>3. [StrP!Next]_(StrP!vars)
    BY <1>2 DEF others, StrP!vars
  <1>4. StrP!StringsAssumption /\ StrP!HeldInv /\ StrP!MeansHeld /\ StrP!AnswerInv
    BY SameStringsAssumption DEF StringsPart
  <1>5. StrP!HeldInv'
    BY <1>3, <1>4, StrP!HeldKept
  <1>6. StrP!MeansHeld' /\ (StrP!EndsMeantInText \/ UNCHANGED StrP!vars)
    BY <1>3, <1>4, StrP!MeansHeldKept
  <1>7. StrP!AnswerInv'
    BY <1>3, <1>4, StrP!AnswersHeld
  <1>8. UNCHANGED StrP!vars => UNCHANGED <<part, others, vars>>
    BY <1>1, <1>2 DEF others, StrP!vars
  <1> QED  BY <1>5, <1>6, <1>7, <1>8

\* The emitted string helpers (compiler.rs, strings.rs), for every set of variables, their lengths, texts
\* and counts: no store leaves its buffer, no load does but those with which a MID fills its temporary from
\* a position not within its text (compiler.rs:2152), no STRING loses its terminator, and queries answer
\* what the language says.
THEOREM EveryStringInBounds ==
    ASSUME Strings!StringsAssumption
    PROVE  AllSpec => []StringsInBounds
  <1>1. AllInit => StringsPart
    BY StringsPartStarts
  <1>2. StringsPart /\ [AllNext]_<<part, others, vars>> => StringsPart'
    BY StringsPartStep
  <1>3. StringsPart => StringsInBounds
    <2>1. StrP!HeldInv /\ StrP!AnswerInv => StrP!OnlyMidStrays /\ StrP!AlwaysTerminated /\ StrP!AnswersRight
      BY SameStringsAssumption, StrP!HeldInBounds, Zenon DEF StrP!AnswerInv, StrP!AnswersRight
    <2> QED  BY <2>1, SameStringsProperties DEF StringsPart, StringsInBounds
  <1> QED  BY <1>1, <1>2, <1>3, PTL DEF AllSpec

\* What a statement leaves in its target, likewise: what the function means, cut to the target's length,
\* whichever variables are both argument and target; of every statement but such a MID, and also after one.
THEOREM EveryStringMeant ==
    ASSUME Strings!StringsAssumption
    PROVE  AllSpec => StringsMean
  <1>1. AllInit => StringsPart
    BY StringsPartStarts
  <1>2. StringsPart /\ [AllNext]_<<part, others, vars>>
            => StringsPart' /\ [part = "strings" => Strings!EndsMeantInText]_<<part, others, vars>>
    BY StringsPartStep
  <1> QED  BY <1>1, <1>2, PTL DEF AllSpec, StringsMean

-----------------------------------------------------------------------------
(***************************************************************************)
(* The standard function blocks.  What an instance keeps sums up the calls *)
(* it got: for every kind there is an invariant that says how, and a lemma *)
(* that a call keeps it.                                                   *)
(***************************************************************************)
LogEntry == [t : Nat, i : [{"a", "b", "c", "d"} -> BOOLEAN]]
BlockState == [q : BOOLEAN, qd : BOOLEAN, v : Int, m : BOOLEAN, m2 : BOOLEAN, run : BOOLEAN, start : Int]
BlocksType ==
    /\ v1 \in Blocks!Kinds /\ v2 \in BlockState /\ v3 \in BlockState /\ v4 \in Seq(LogEntry)
    /\ \A m, n \in 0..Blocks!N : m <= n => Blocks!T(m) <= Blocks!T(n)

\* The log one call later.
Bits4(i) == i.a \in BOOLEAN /\ i.b \in BOOLEAN /\ i.c \in BOOLEAN /\ i.d \in BOOLEAN
Called(i, d, z) ==
    /\ v1' = v1 /\ z \in Nat /\ Blocks!N = z /\ Blocks!N' = z + 1
    /\ \A n \in 0..z : Blocks!T(n) \in Nat /\ Blocks!T(n)' = Blocks!T(n)
    /\ d \in Nat /\ Blocks!T(z + 1)' = Blocks!T(z) + d
    /\ \A n \in 1..z : \A x \in {"a", "b", "c", "d"} : Blocks!In(n, x) \in BOOLEAN /\ Blocks!In(n, x)' = Blocks!In(n, x)
    /\ Blocks!In(z + 1, "a")' = i.a /\ Blocks!In(z + 1, "b")' = i.b /\ Blocks!In(z + 1, "c")' = i.c /\ Blocks!In(z + 1, "d")' = i.d
    /\ Bits4(i)
    /\ v2' = Blocks!StCall(v1, v2, i, Blocks!T(z) + d)
    /\ v3' = Blocks!RtCall(v1, v3, i, d)

LEMMA EntryOf ==
    ASSUME NEW S, NEW s \in Seq(S), NEW n \in 1..Len(s)
    PROVE  s[n] \in S
  OBVIOUS

LEMMA LogLonger ==
    ASSUME NEW S, NEW s \in Seq(S), NEW e \in S
    PROVE  /\ Append(s, e) \in Seq(S) /\ Len(Append(s, e)) = Len(s) + 1
           /\ Append(s, e)[Len(s) + 1] = e
           /\ \A n \in 1..Len(s) : Append(s, e)[n] = s[n]
  OBVIOUS

LEMMA CallLogs ==
    ASSUME Blocks!BlocksAssumption, BlocksType, NEW i \in Blocks!Inputs(v1), NEW d \in Steps, Blocks!Call(i, d),
           NEW z, z = Blocks!N
    PROVE  /\ Called(i, d, z) /\ v4' \in Seq(LogEntry)
           /\ \A m, n \in 0..(z + 1) : m <= n => Blocks!T(m)' <= Blocks!T(n)'
  <1> DEFINE now == d + (IF v4 = <<>> THEN 0 ELSE v4[Len(v4)].t)
             e == [t |-> now, i |-> i]
  <1>1. v4 \in Seq(LogEntry) /\ Len(v4) \in Nat /\ d \in Nat /\ i \in [{"a", "b", "c", "d"} -> BOOLEAN]
    BY DEF BlocksType, Blocks!BlocksAssumption, Blocks!Inputs
  <1>2. \A n \in 1..Len(v4) : v4[n] \in LogEntry
    BY <1>1, EntryOf
  <1>3. /\ v4' = Append(v4, e) /\ v1' = v1
        /\ v2' = Blocks!StCall(v1, v2, i, now) /\ v3' = Blocks!RtCall(v1, v3, i, d)
    BY Zenon DEF Blocks!Call
  <1>4. now = Blocks!T(z) + d /\ z = Len(v4) /\ z \in Nat /\ Blocks!T(z) \in Nat
    <2>1. v4 = <<>> <=> Len(v4) = 0
      BY <1>1
    <2>2. Len(v4) # 0 => v4[Len(v4)].t \in Nat
      BY <1>1, <1>2 DEF LogEntry
    <2> QED  BY <1>1, <2>1, <2>2 DEF Blocks!T, Blocks!N
  <1>5. e \in LogEntry
    BY <1>1, <1>4 DEF LogEntry
  <1> HIDE DEF e
  <1>6. /\ v4' \in Seq(LogEntry) /\ Len(v4') = Len(v4) + 1 /\ v4'[Len(v4) + 1] = e
        /\ \A n \in 1..Len(v4) : v4'[n] = v4[n]
    BY <1>1, <1>3, <1>5, LogLonger
  <1>7. Blocks!N' = z + 1
    BY <1>4, <1>6 DEF Blocks!N
  <1>8. \A n \in 0..z : Blocks!T(n) \in Nat /\ Blocks!T(n)' = Blocks!T(n)
    BY <1>2, <1>4, <1>6 DEF Blocks!T, LogEntry
  <1>9. Blocks!T(z + 1)' = Blocks!T(z) + d
    BY <1>4, <1>6 DEF Blocks!T, e
  <1>10. \A n \in 1..z : \A x \in {"a", "b", "c", "d"} : Blocks!In(n, x) \in BOOLEAN /\ Blocks!In(n, x)' = Blocks!In(n, x)
    BY <1>2, <1>4, <1>6 DEF Blocks!In, LogEntry
  <1>11. \A x \in {"a", "b", "c", "d"} : i[x] \in BOOLEAN /\ Blocks!In(z + 1, x)' = i[x]
    BY <1>1, <1>4, <1>6 DEF Blocks!In, e
  <1>12. /\ Blocks!In(z + 1, "a")' = i.a /\ Blocks!In(z + 1, "b")' = i.b /\ Blocks!In(z + 1, "c")' = i.c /\ Blocks!In(z + 1, "d")' = i.d
         /\ Bits4(i)
    BY <1>11 DEF Bits4
  <1>13. Called(i, d, z)
    BY <1>1, <1>3, <1>4, <1>7, <1>8, <1>9, <1>10, <1>12 DEF Called
  <1>14. ASSUME NEW m \in 0..(z + 1), NEW n \in 0..(z + 1), m <= n PROVE Blocks!T(m)' <= Blocks!T(n)'
    <2>1. CASE n <= z
      <3>1. m \in 0..z /\ n \in 0..z
        BY <1>4, <1>14, <2>1
      <3> QED  BY <1>8, <1>14, <3>1 DEF BlocksType
    <2>2. CASE n = z + 1 /\ m <= z
      <3>1. m \in 0..z /\ z \in 0..z
        BY <1>4, <2>2
      <3>2. Blocks!T(m) <= Blocks!T(z) /\ Blocks!T(m)' = Blocks!T(m) /\ Blocks!T(m) \in Nat
        BY <1>4, <1>8, <2>2, <3>1 DEF BlocksType
      <3> QED  BY <1>1, <1>4, <1>9, <2>2, <3>2
    <2>3. CASE n = z + 1 /\ m = z + 1
      BY <1>1, <1>4, <1>9, <2>3
    <2> QED  BY <1>4, <1>14, <2>1, <2>2, <2>3
  <1> QED  BY <1>6, <1>7, <1>13, <1>14

\* What a call leaves in an instance, field by field.
Presets == PT \in Int /\ PV \in Int /\ IntMax \in Int

LEMMA LatchFields ==
    ASSUME NEW k \in {"SR", "RS", "R_TRIG", "F_TRIG"}, NEW f \in BlockState, NEW g \in BlockState, NEW i, Bits4(i),
           NEW now, NEW d
    PROVE  LET s == Blocks!StCall(k, f, i, now)
               r == Blocks!RtCall(k, g, i, d)
           IN /\ s \in BlockState /\ r \in BlockState
              /\ k = "SR" => (s.q <=> i.a \/ (~i.b /\ f.q)) /\ (r.q <=> i.a \/ (~i.b /\ g.q))
              /\ k = "RS" => (s.q <=> ~i.b /\ (i.a \/ f.q)) /\ (r.q <=> ~i.b /\ (i.a \/ g.q))
              /\ k = "R_TRIG" => /\ (s.q <=> i.a /\ ~f.m) /\ (s.m <=> i.a)
                                 /\ (r.q <=> i.a /\ ~g.m) /\ (r.m <=> i.a)
              /\ k = "F_TRIG" => /\ (s.q <=> ~i.a /\ ~f.m) /\ (s.m <=> ~i.a)
                                 /\ (r.q <=> ~i.a /\ g.m) /\ (r.m <=> i.a)
  <1> USE DEF Bits4, BlockState
  <1>1. CASE k = "SR"
    BY <1>1 DEF Blocks!StCall, Blocks!RtCall
  <1>2. CASE k = "RS"
    BY <1>2 DEF Blocks!StCall, Blocks!RtCall
  <1>3. CASE k = "R_TRIG"
    BY <1>3 DEF Blocks!StCall, Blocks!RtCall
  <1>4. CASE k = "F_TRIG"
    BY <1>4 DEF Blocks!StCall, Blocks!RtCall
  <1> QED  BY <1>1, <1>2, <1>3, <1>4

LEMMA CtuFields ==
    ASSUME NEW k \in {"CTU", "CTD"}, NEW f \in BlockState, NEW g \in BlockState, NEW i, Bits4(i), Presets, NEW now, NEW d
    PROVE  LET s == Blocks!StCall(k, f, i, now)
               r == Blocks!RtCall(k, g, i, d)
           IN /\ s \in BlockState /\ r \in BlockState /\ s.m = i.a /\ r.m = i.a
              /\ k = "CTU" => /\ s.v = (IF i.b THEN 0 ELSE IF i.a /\ ~f.m THEN Blocks!Up(f.v) ELSE f.v)
                              /\ r.v = (IF i.b THEN 0 ELSE IF i.a /\ ~g.m THEN g.v + 1 ELSE g.v)
                              /\ (s.q <=> s.v >= PV) /\ (r.q <=> r.v >= PV)
              /\ k = "CTD" => /\ s.v = (IF i.b THEN PV ELSE IF i.a /\ ~f.m THEN Blocks!Dn(f.v) ELSE f.v)
                              /\ r.v = (IF i.b THEN PV ELSE IF i.a /\ ~g.m THEN g.v - 1 ELSE g.v)
                              /\ (s.q <=> s.v <= 0) /\ (r.q <=> r.v <= 0)
  <1>1. f.v \in Int /\ g.v \in Int /\ f.m \in BOOLEAN /\ g.m \in BOOLEAN
    BY DEF BlockState
  <1>2. Blocks!Up(f.v) \in Int /\ Blocks!Dn(f.v) \in Int
    BY <1>1 DEF Blocks!Up, Blocks!Dn, Presets
  <1>3. CASE k = "CTU"
    <2> DEFINE v == IF i.b THEN 0 ELSE IF i.a /\ ~f.m THEN Blocks!Up(f.v) ELSE f.v
               q == v >= PV
               w == CASE i.b -> 0 [] ~i.b /\ i.a /\ ~g.m -> g.v + 1 [] OTHER -> g.v
               p == w >= PV
    <2>1. v \in Int /\ w \in Int /\ w = (IF i.b THEN 0 ELSE IF i.a /\ ~g.m THEN g.v + 1 ELSE g.v)
      BY <1>1, <1>2 DEF Bits4
    <2>2. (q <=> v >= PV) /\ (p <=> w >= PV)
      OBVIOUS
    <2>4. q \in BOOLEAN /\ p \in BOOLEAN
      OBVIOUS
    <2>3. /\ Blocks!StCall(k, f, i, now) = [f EXCEPT !.v = v, !.m = i.a, !.q = q]
          /\ Blocks!RtCall(k, g, i, d) = [g EXCEPT !.v = w, !.m = i.a, !.q = p]
      BY <1>3 DEF Blocks!StCall, Blocks!StCtu, Blocks!RtCall
    <2> HIDE DEF v, q, w, p
    <2> QED  BY <1>3, <2>1, <2>2, <2>3, <2>4 DEF BlockState, Bits4, v
  <1>4. CASE k = "CTD"
    <2> DEFINE v == IF i.b THEN PV ELSE IF i.a /\ ~f.m THEN Blocks!Dn(f.v) ELSE f.v
               q == v <= 0
               w == CASE i.b -> PV [] ~i.b /\ i.a /\ ~g.m -> g.v - 1 [] OTHER -> g.v
               p == w <= 0
    <2>1. v \in Int /\ w \in Int /\ w = (IF i.b THEN PV ELSE IF i.a /\ ~g.m THEN g.v - 1 ELSE g.v)
      BY <1>1, <1>2 DEF Bits4, Presets
    <2>2. (q <=> v <= 0) /\ (p <=> w <= 0)
      OBVIOUS
    <2>4. q \in BOOLEAN /\ p \in BOOLEAN
      OBVIOUS
    <2>3. /\ Blocks!StCall(k, f, i, now) = [f EXCEPT !.v = v, !.m = i.a, !.q = q]
          /\ Blocks!RtCall(k, g, i, d) = [g EXCEPT !.v = w, !.m = i.a, !.q = p]
      BY <1>4 DEF Blocks!StCall, Blocks!StCtd, Blocks!RtCall
    <2> HIDE DEF v, q, w, p
    <2> QED  BY <1>4, <2>1, <2>2, <2>3, <2>4 DEF BlockState, Bits4, v
  <1> QED  BY <1>3, <1>4

LEMMA CtudFields ==
    ASSUME NEW f \in BlockState, NEW g \in BlockState, NEW i, Bits4(i), Presets, NEW now, NEW d
    PROVE  LET s == Blocks!StCall("CTUD", f, i, now)
               r == Blocks!RtCall("CTUD", g, i, d)
               up(h) == i.a /\ ~h.m
               down(h) == i.c /\ ~h.m2
           IN /\ s \in BlockState /\ r \in BlockState /\ s.m = i.a /\ r.m = i.a /\ s.m2 = i.c /\ r.m2 = i.c
              /\ s.v = (IF i.b THEN 0 ELSE IF i.d THEN PV
                        ELSE IF up(f) /\ ~down(f) THEN Blocks!Up(f.v)
                        ELSE IF down(f) /\ ~up(f) THEN Blocks!Dn(f.v) ELSE f.v)
              /\ r.v = (IF i.b THEN 0 ELSE IF i.d THEN PV
                        ELSE g.v + (IF up(g) THEN 1 ELSE 0) - (IF down(g) THEN 1 ELSE 0))
              /\ (s.q <=> s.v >= PV) /\ (s.qd <=> s.v <= 0) /\ (r.q <=> r.v >= PV)
  <1>1. f.v \in Int /\ g.v \in Int /\ f.m \in BOOLEAN /\ g.m \in BOOLEAN /\ f.m2 \in BOOLEAN /\ g.m2 \in BOOLEAN
    BY DEF BlockState
  <1>2. Blocks!Up(f.v) \in Int /\ Blocks!Dn(f.v) \in Int
    BY <1>1 DEF Blocks!Up, Blocks!Dn, Presets
  <1> DEFINE up == i.a /\ ~f.m
             down == i.c /\ ~f.m2
             v == CASE i.b -> 0
                    [] ~i.b /\ i.d -> PV
                    [] ~i.b /\ ~i.d /\ up /\ ~down -> Blocks!Up(f.v)
                    [] ~i.b /\ ~i.d /\ down /\ ~up -> Blocks!Dn(f.v)
                    [] OTHER -> f.v
             q == v >= PV
             z == v <= 0
             u == IF i.a /\ ~g.m THEN g.v + 1 ELSE g.v
             w == IF i.b THEN 0 ELSE IF i.d THEN PV ELSE IF i.c /\ ~g.m2 THEN u - 1 ELSE u
             p == w >= PV
             y == w <= 0
  <1>3. v = (IF i.b THEN 0 ELSE IF i.d THEN PV
             ELSE IF up /\ ~down THEN Blocks!Up(f.v)
             ELSE IF down /\ ~up THEN Blocks!Dn(f.v) ELSE f.v)
    BY <1>1 DEF Bits4
  <1>4. v \in Int
    BY <1>1, <1>2, <1>3 DEF Bits4, Presets
  <1>5. w = (IF i.b THEN 0 ELSE IF i.d THEN PV
             ELSE g.v + (IF i.a /\ ~g.m THEN 1 ELSE 0) - (IF i.c /\ ~g.m2 THEN 1 ELSE 0))
    BY <1>1 DEF Bits4
  <1>6. w \in Int
    BY <1>1 DEF Bits4, Presets
  <1>7. (q <=> v >= PV) /\ (z <=> v <= 0) /\ (p <=> w >= PV)
    OBVIOUS
  <1>9. q \in BOOLEAN /\ z \in BOOLEAN /\ p \in BOOLEAN /\ y \in BOOLEAN
    OBVIOUS
  <1>8. /\ Blocks!StCall("CTUD", f, i, now) = [f EXCEPT !.v = v, !.m = i.a, !.m2 = i.c, !.q = q, !.qd = z]
        /\ Blocks!RtCall("CTUD", g, i, d) = [g EXCEPT !.v = w, !.m = i.a, !.m2 = i.c, !.q = p, !.qd = y]
    <2>1. Blocks!StCall("CTUD", f, i, now) = Blocks!StCtud(f, i) /\ Blocks!RtCall("CTUD", g, i, d) = Blocks!RtCtud(g, i)
      BY DEF Blocks!StCall, Blocks!RtCall
    <2> QED  BY <2>1, Zenon DEF Blocks!StCtud, Blocks!RtCtud
  <1> HIDE DEF v, q, z, w, p, y
  <1> QED  BY <1>3, <1>4, <1>5, <1>6, <1>7, <1>8, <1>9 DEF BlockState, Bits4

-----------------------------------------------------------------------------
\* SR and RS: set since the last reset that counted.
SetFirst == \E n \in 1..Blocks!N : Blocks!In(n, "a") /\ \A m \in n..Blocks!N : ~(Blocks!In(m, "b") /\ ~Blocks!In(m, "a"))
ResetFirst == \E n \in 1..Blocks!N : Blocks!In(n, "a") /\ \A m \in n..Blocks!N : ~Blocks!In(m, "b")
LatchInv ==
    /\ v1 = "SR" => (v2.q <=> SetFirst) /\ (v3.q <=> SetFirst)
    /\ v1 = "RS" => (v2.q <=> ResetFirst) /\ (v3.q <=> ResetFirst)

LEMMA LatchStep ==
    ASSUME NEW i, NEW d, NEW z, Called(i, d, z), v1 \in {"SR", "RS"}, v2 \in BlockState, v3 \in BlockState, LatchInv
    PROVE  LatchInv'
  <1> USE DEF Called
  <1>1. SetFirst' <=> i.a \/ (~i.b /\ SetFirst)
    <2> z + 1 \in 1..(z + 1) /\ \A m \in (z + 1)..(z + 1) : m = z + 1
      OBVIOUS
    <2>1. ASSUME i.a PROVE SetFirst'
      <3>1. Blocks!In(z + 1, "a")' /\ \A m \in (z + 1)..(z + 1) : ~(Blocks!In(m, "b")' /\ ~Blocks!In(m, "a")')
        BY <2>1, Zenon
      <3> QED  BY <3>1, Zenon DEF SetFirst
    <2>2. ASSUME ~i.a, i.b, SetFirst' PROVE FALSE
      <3>1. PICK n \in 1..(z + 1) : Blocks!In(n, "a")' /\ \A m \in n..(z + 1) : ~(Blocks!In(m, "b")' /\ ~Blocks!In(m, "a")')
        BY <2>2, Zenon DEF SetFirst
      <3>2. z + 1 \in n..(z + 1)
        BY <3>1
      <3> QED  BY <2>2, <3>1, <3>2, Zenon
    <2>3. ASSUME ~i.a, ~i.b, SetFirst PROVE SetFirst'
      <3>1. PICK n \in 1..z : Blocks!In(n, "a") /\ \A m \in n..z : ~(Blocks!In(m, "b") /\ ~Blocks!In(m, "a"))
        BY <2>3 DEF SetFirst
      <3>2. n \in 1..(z + 1) /\ Blocks!In(n, "a")'
        BY <3>1
      <3>3. ASSUME NEW m \in n..(z + 1) PROVE ~(Blocks!In(m, "b")' /\ ~Blocks!In(m, "a")')
        BY <2>3, <3>1, <3>3
      <3> QED  BY <3>2, <3>3 DEF SetFirst
    <2>4. ASSUME ~i.a, ~i.b, SetFirst' PROVE SetFirst
      <3>1. PICK n \in 1..(z + 1) : Blocks!In(n, "a")' /\ \A m \in n..(z + 1) : ~(Blocks!In(m, "b")' /\ ~Blocks!In(m, "a")')
        BY <2>4 DEF SetFirst
      <3>2. n \in 1..z /\ Blocks!In(n, "a")
        BY <2>4, <3>1
      <3>3. ASSUME NEW m \in n..z PROVE ~(Blocks!In(m, "b") /\ ~Blocks!In(m, "a"))
        BY <3>1, <3>2, <3>3
      <3> QED  BY <3>2, <3>3 DEF SetFirst
    <2> QED  BY <2>1, <2>2, <2>3, <2>4
  <1>2. ResetFirst' <=> ~i.b /\ (i.a \/ ResetFirst)
    <2> z + 1 \in 1..(z + 1) /\ \A m \in (z + 1)..(z + 1) : m = z + 1
      OBVIOUS
    <2>1. ASSUME i.a, ~i.b PROVE ResetFirst'
      <3>1. Blocks!In(z + 1, "a")' /\ \A m \in (z + 1)..(z + 1) : ~Blocks!In(m, "b")'
        BY <2>1, Zenon
      <3> QED  BY <3>1, Zenon DEF ResetFirst
    <2>2. ASSUME i.b, ResetFirst' PROVE FALSE
      <3>1. PICK n \in 1..(z + 1) : Blocks!In(n, "a")' /\ \A m \in n..(z + 1) : ~Blocks!In(m, "b")'
        BY <2>2, Zenon DEF ResetFirst
      <3>2. z + 1 \in n..(z + 1)
        BY <3>1
      <3> QED  BY <2>2, <3>1, <3>2, Zenon
    <2>3. ASSUME ~i.b, ResetFirst PROVE ResetFirst'
      <3>1. PICK n \in 1..z : Blocks!In(n, "a") /\ \A m \in n..z : ~Blocks!In(m, "b")
        BY <2>3 DEF ResetFirst
      <3>2. n \in 1..(z + 1) /\ Blocks!In(n, "a")'
        BY <3>1
      <3>3. ASSUME NEW m \in n..(z + 1) PROVE ~Blocks!In(m, "b")'
        BY <2>3, <3>1, <3>3
      <3> QED  BY <3>2, <3>3 DEF ResetFirst
    <2>4. ASSUME ~i.a, ~i.b, ResetFirst' PROVE ResetFirst
      <3>1. PICK n \in 1..(z + 1) : Blocks!In(n, "a")' /\ \A m \in n..(z + 1) : ~Blocks!In(m, "b")'
        BY <2>4 DEF ResetFirst
      <3>2. n \in 1..z /\ Blocks!In(n, "a")
        BY <2>4, <3>1
      <3>3. ASSUME NEW m \in n..z PROVE ~Blocks!In(m, "b")
        BY <3>1, <3>2, <3>3
      <3> QED  BY <3>2, <3>3 DEF ResetFirst
    <2> QED  BY <2>1, <2>2, <2>3, <2>4
  <1> DEFINE s == Blocks!StCall(v1, v2, i, Blocks!T(z) + d)
             r == Blocks!RtCall(v1, v3, i, d)
  <1>3. Bits4(i) /\ v1' = v1 /\ v2' = s /\ v3' = r
    BY Zenon
  <1>4. /\ v1 = "SR" => (s.q <=> i.a \/ (~i.b /\ v2.q)) /\ (r.q <=> i.a \/ (~i.b /\ v3.q))
        /\ v1 = "RS" => (s.q <=> ~i.b /\ (i.a \/ v2.q)) /\ (r.q <=> ~i.b /\ (i.a \/ v3.q))
    BY <1>3, LatchFields, Zenon
  <1> HIDE DEF s, r, Called
  <1>5. CASE v1 = "SR"
    BY <1>1, <1>3, <1>4, <1>5, Zenon DEF LatchInv
  <1>6. CASE v1 = "RS"
    BY <1>2, <1>3, <1>4, <1>6, Zenon DEF LatchInv
  <1> QED  BY <1>5, <1>6

\* R_TRIG and F_TRIG: what IN was, and whether it is an edge.
Last(x) == Blocks!N > 0 /\ Blocks!In(Blocks!N, x)
TrigInv ==
    /\ v1 = "R_TRIG" => /\ (v2.m <=> Last("a")) /\ (v3.m <=> Last("a"))
                        /\ Blocks!N > 0 => (v2.q <=> Blocks!Rises(Blocks!N, "a")) /\ (v3.q <=> Blocks!Rises(Blocks!N, "a"))
    /\ v1 = "F_TRIG" => /\ (v2.m <=> ~Last("a")) /\ (v3.m <=> Last("a"))
                        /\ Blocks!N > 0 => (v2.q <=> Blocks!Falls(Blocks!N)) /\ (v3.q <=> Blocks!Falls(Blocks!N))

LEMMA LastStep ==
    ASSUME NEW i, NEW d, NEW z, Called(i, d, z)
    PROVE  /\ Blocks!N' > 0 /\ Last("a")' = i.a /\ Last("b")' = i.b /\ Last("c")' = i.c
           /\ Last("a") \in BOOLEAN /\ Last("b") \in BOOLEAN /\ Last("c") \in BOOLEAN
           /\ Blocks!Rises(Blocks!N, "a")' <=> i.a /\ ~Last("a")
           /\ Blocks!Rises(Blocks!N, "c")' <=> i.c /\ ~Last("c")
           /\ Blocks!Falls(Blocks!N)' <=> ~i.a /\ Last("a")
  BY DEF Called, Bits4, Last, Blocks!Rises, Blocks!Falls

LEMMA TrigStep ==
    ASSUME NEW i, NEW d, NEW z, Called(i, d, z), v1 \in {"R_TRIG", "F_TRIG"}, v2 \in BlockState, v3 \in BlockState, TrigInv
    PROVE  TrigInv'
  <1> DEFINE s == Blocks!StCall(v1, v2, i, Blocks!T(z) + d)
             r == Blocks!RtCall(v1, v3, i, d)
  <1>3. Bits4(i) /\ v1' = v1 /\ v2' = s /\ v3' = r
    BY Zenon DEF Called
  <1>4. /\ v1 = "R_TRIG" => /\ (s.q <=> i.a /\ ~v2.m) /\ (s.m <=> i.a)
                            /\ (r.q <=> i.a /\ ~v3.m) /\ (r.m <=> i.a)
        /\ v1 = "F_TRIG" => /\ (s.q <=> ~i.a /\ ~v2.m) /\ (s.m <=> ~i.a)
                            /\ (r.q <=> ~i.a /\ v3.m) /\ (r.m <=> i.a)
    BY <1>3, LatchFields, Zenon
  <1> HIDE DEF s, r
  <1>5. CASE v1 = "R_TRIG"
    BY <1>3, <1>4, <1>5, LastStep, Zenon DEF TrigInv
  <1>6. CASE v1 = "F_TRIG"
    BY <1>3, <1>4, <1>6, LastStep, Zenon DEF TrigInv
  <1> QED  BY <1>5, <1>6

-----------------------------------------------------------------------------
\* Counters: the last reset or load, and the edges since.
Latest(x) ==
    /\ Blocks!LastOf(x) \in 0..Blocks!N
    /\ Blocks!LastOf(x) # 0 => Blocks!In(Blocks!LastOf(x), x)
    /\ \A m \in (Blocks!LastOf(x) + 1)..Blocks!N : ~Blocks!In(m, x)

\* LastOf finds the last call with the input, once there is one.
LEMMA LastOfIs ==
    ASSUME NEW x, NEW y \in Nat, Blocks!N' = y, NEW l \in 0..y, l # 0 => Blocks!In(l, x)', \A m \in (l + 1)..y : ~Blocks!In(m, x)'
    PROVE  Blocks!LastOf(x)' = l
  <1>1. CASE l = 0
    <2>1. ~\E n \in 1..y : Blocks!In(n, x)'
      BY <1>1
    <2> QED  BY <1>1, <2>1 DEF Blocks!LastOf
  <1>2. CASE l # 0
    <2>1. l \in 1..y /\ Blocks!In(l, x)'
      BY <1>2
    <2>2. ASSUME NEW n \in 1..y, Blocks!In(n, x)', \A m \in (n + 1)..y : ~Blocks!In(m, x)' PROVE n = l
      <3>1. ~(n < l) /\ ~(l < n)
        BY <2>1, <2>2
      <3> QED  BY <2>1, <2>2, <3>1
    <2> DEFINE P(n) == Blocks!In(n, x)' /\ \A m \in (n + 1)..y : ~Blocks!In(m, x)'
    <2>3. Blocks!LastOf(x)' = CHOOSE n \in 1..y : P(n)
      BY <2>1 DEF Blocks!LastOf
    <2>4. \E n \in 1..y : P(n)
      BY <2>1
    <2>5. \A n \in 1..y : P(n) => n = l
      BY <2>2
    <2> HIDE DEF P
    <2>6. (CHOOSE n \in 1..y : P(n)) = l
      BY <2>4, <2>5
    <2> QED  BY <2>3, <2>6
  <1> QED  BY <1>1, <1>2

LEMMA LastOfStep ==
    ASSUME NEW i, NEW d, NEW z, Called(i, d, z), NEW x \in {"b", "d"}, Latest(x)
    PROVE  Blocks!LastOf(x)' = (IF Blocks!In(z + 1, x)' THEN z + 1 ELSE Blocks!LastOf(x)) /\ Latest(x)'
  <1> PICK l : l = IF Blocks!In(z + 1, x)' THEN z + 1 ELSE Blocks!LastOf(x)
    OBVIOUS
  <1>1. /\ z \in Nat /\ Blocks!N = z /\ Blocks!N' = z + 1 /\ Blocks!In(z + 1, x)' \in BOOLEAN
        /\ \A n \in 1..z : Blocks!In(n, x) \in BOOLEAN /\ Blocks!In(n, x)' = Blocks!In(n, x)
    BY DEF Called, Bits4
  <1>2. Blocks!LastOf(x) \in 0..z
    BY <1>1 DEF Latest
  <1>3. /\ l \in 0..(z + 1)
        /\ l # 0 => Blocks!In(l, x)'
        /\ \A m \in (l + 1)..(z + 1) : ~Blocks!In(m, x)'
    <2>1. CASE Blocks!In(z + 1, x)'
      BY <1>1, <2>1
    <2>2. CASE ~Blocks!In(z + 1, x)'
      <3>1. l = Blocks!LastOf(x) /\ l \in 0..z
        BY <1>2, <2>2
      <3>2. l # 0 => Blocks!In(l, x)'
        BY <1>1, <3>1 DEF Latest
      <3>3. ASSUME NEW m \in (l + 1)..(z + 1) PROVE ~Blocks!In(m, x)'
        <4>1. CASE m = z + 1
          BY <2>2, <4>1
        <4>2. CASE m # z + 1
          <5>1. m \in (l + 1)..z /\ m \in 1..z
            BY <1>1, <3>1, <4>2
          <5> QED  BY <1>1, <3>1, <5>1 DEF Latest
        <4> QED  BY <4>1, <4>2
      <3> QED  BY <1>1, <3>1, <3>2, <3>3
    <2> QED  BY <2>1, <2>2
  <1>4. Blocks!LastOf(x)' = l
    <2>1. z + 1 \in Nat
      BY <1>1
    <2> QED  BY <1>1, <1>3, <2>1, LastOfIs
  <1> QED  BY <1>1, <1>3, <1>4 DEF Latest

LEMMA EdgesStep ==
    ASSUME NEW i, NEW d, NEW z, Called(i, d, z), NEW x \in {"a", "c"}, NEW s \in 0..z
    PROVE  /\ \A n \in s..z : Blocks!Edges(s, n, x) \in Nat /\ Blocks!Edges(s, n, x)' = Blocks!Edges(s, n, x)
           /\ Blocks!Edges(s, z + 1, x)' = Blocks!Edges(s, z, x) + (IF Blocks!Rises(z + 1, x)' THEN 1 ELSE 0)
           /\ Blocks!Edges(z + 1, z + 1, x)' = 0
  <1>1. /\ z \in Nat /\ \A n \in 1..z : Blocks!In(n, x) \in BOOLEAN /\ Blocks!In(n, x)' = Blocks!In(n, x)
    BY DEF Called
  <1>2. ASSUME NEW n \in 1..z PROVE Blocks!Rises(n, x)' <=> Blocks!Rises(n, x)
    BY <1>1 DEF Blocks!Rises
  <1> DEFINE S(n) == {m \in (s + 1)..n : Blocks!Rises(m, x)}
             R(n) == {m \in (s + 1)..n : Blocks!Rises(m, x)'}
  <1>3. ASSUME NEW n \in s..z PROVE /\ R(n) = S(n) /\ IsFiniteSet(S(n)) /\ Cardinality(S(n)) \in Nat
    <2>1. R(n) = S(n)
      <3>1. \A m \in (s + 1)..n : m \in 1..z
        BY <1>1
      <3> QED  BY <1>2, <3>1
    <2>2. IsFiniteSet((s + 1)..n) /\ S(n) \subseteq (s + 1)..n
      BY <1>1, FS_Interval
    <2>3. IsFiniteSet(S(n))
      BY <2>2, FS_Subset
    <2> QED  BY <2>1, <2>3, FS_CardinalityType
  <1>4. \A n \in s..z : Blocks!Edges(s, n, x) = Cardinality(S(n)) /\ Blocks!Edges(s, n, x)' = Cardinality(R(n))
    BY Zenon DEF Blocks!Edges, Blocks!Cardinality, Cardinality
  <1>5. Blocks!Edges(s, z + 1, x)' = Cardinality(R(z + 1)) /\ z \in s..z
    BY <1>1 DEF Blocks!Edges, Blocks!Cardinality, Cardinality
  <1>6. R(z + 1) = (IF Blocks!Rises(z + 1, x)' THEN R(z) \cup {z + 1} ELSE R(z)) /\ z + 1 \notin R(z)
    <2>1. \A m \in (s + 1)..z : m \in (s + 1)..(z + 1)
      BY <1>1
    <2>2. \A m \in (s + 1)..(z + 1) : m = z + 1 \/ m \in (s + 1)..z
      BY <1>1
    <2>3. z + 1 \in (s + 1)..(z + 1) /\ z + 1 \notin (s + 1)..z
      BY <1>1
    <2> QED  BY <2>1, <2>2, <2>3, Zenon
  <1>7. Cardinality(S(z) \cup {z + 1}) = Cardinality(S(z)) + 1
    BY <1>3, <1>5, <1>6, FS_AddElement
  <1>8. Blocks!Edges(z + 1, z + 1, x)' = Cardinality({m \in (z + 1 + 1)..(z + 1) : Blocks!Rises(m, x)'})
    BY DEF Blocks!Edges, Blocks!Cardinality, Cardinality
  <1>9. {m \in (z + 1 + 1)..(z + 1) : Blocks!Rises(m, x)'} = {}
    <2>1. \A m \in (z + 1 + 1)..(z + 1) : FALSE
      BY <1>1
    <2> QED  BY <2>1, Zenon
  <1>10. Blocks!Edges(z + 1, z + 1, x)' = 0
    BY <1>8, <1>9, FS_EmptySet
  <1> HIDE DEF S, R
  <1> QED  BY <1>1, <1>3, <1>4, <1>5, <1>6, <1>7, <1>10

Reset(i) == i.b \/ (v1 = "CTUD" /\ i.d)
Loaded(i) == CASE v1 = "CTU" -> 0 [] v1 = "CTD" -> PV [] OTHER -> IF i.b THEN 0 ELSE PV
Counted(i) ==
    CASE v1 = "CTU" -> (IF i.a /\ ~Last("a") THEN 1 ELSE 0)
      [] v1 = "CTD" -> -(IF i.a /\ ~Last("a") THEN 1 ELSE 0)
      [] OTHER -> (IF i.a /\ ~Last("a") THEN 1 ELSE 0) - (IF i.c /\ ~Last("c") THEN 1 ELSE 0)

LEMMA CountStep ==
    ASSUME NEW i, NEW d, NEW z, Called(i, d, z), Presets, v1 \in Blocks!Counters, Latest("b"), Latest("d")
    PROVE  /\ Reset(i) => Blocks!CountAt(Blocks!N)' = Loaded(i)
           /\ ~Reset(i) => /\ Blocks!CountAt(Blocks!N) \in Int /\ Blocks!CountAt(Blocks!N)' = Blocks!CountAt(Blocks!N) + Counted(i)
                           /\ Blocks!NeverSaturates' => Blocks!NeverSaturates /\ Blocks!InInt(Blocks!CountAt(Blocks!N)')
  <1>1. z \in Nat /\ Blocks!N = z /\ Blocks!N' = z + 1 /\ v1' = v1 /\ Bits4(i)
    BY DEF Called
  <1>2. Blocks!In(z + 1, "b")' = i.b /\ Blocks!In(z + 1, "d")' = i.d
    BY DEF Called
  <1>3. /\ Blocks!LastOf("b") \in 0..z /\ Blocks!LastOf("b")' = (IF i.b THEN z + 1 ELSE Blocks!LastOf("b"))
        /\ Blocks!LastOf("d") \in 0..z /\ Blocks!LastOf("d")' = (IF i.d THEN z + 1 ELSE Blocks!LastOf("d"))
    BY <1>1, <1>2, LastOfStep DEF Latest
  <1>4. PICK s \in 0..z : s = Blocks!Since
    BY <1>3 DEF Blocks!Since
  <1>5. PICK t \in 0..(z + 1) : t = Blocks!Since' /\ (IF Reset(i) THEN t = z + 1 ELSE t = s)
    <2>1. CASE v1 = "CTUD"
      BY <1>1, <1>3, <1>4, <2>1 DEF Blocks!Since, Reset, Bits4
    <2>2. CASE v1 # "CTUD"
      BY <1>1, <1>3, <1>4, <2>2 DEF Blocks!Since, Reset, Bits4
    <2> QED  BY <2>1, <2>2
  <1>6. /\ Blocks!Rises(z + 1, "a")' <=> i.a /\ ~Last("a")
        /\ Blocks!Rises(z + 1, "c")' <=> i.c /\ ~Last("c")
    BY <1>1, LastStep
  <1>7. /\ \A n \in s..z : /\ Blocks!Edges(s, n, "a") \in Nat /\ Blocks!Edges(s, n, "a")' = Blocks!Edges(s, n, "a")
                           /\ Blocks!Edges(s, n, "c") \in Nat /\ Blocks!Edges(s, n, "c")' = Blocks!Edges(s, n, "c")
        /\ Blocks!Edges(s, z + 1, "a")' = Blocks!Edges(s, z, "a") + (IF i.a /\ ~Last("a") THEN 1 ELSE 0)
        /\ Blocks!Edges(s, z + 1, "c")' = Blocks!Edges(s, z, "c") + (IF i.c /\ ~Last("c") THEN 1 ELSE 0)
        /\ Blocks!Edges(z + 1, z + 1, "a")' = 0 /\ Blocks!Edges(z + 1, z + 1, "c")' = 0
    BY <1>6, EdgesStep
  <1>8. ASSUME Reset(i) PROVE Blocks!CountAt(Blocks!N)' = Loaded(i)
    <2>1. Blocks!Since' = z + 1 /\ Blocks!Since' # 0
      BY <1>1, <1>5, <1>8
    <2>2. Blocks!Base' = Loaded(i) /\ Loaded(i) \in Int
      BY <1>1, <1>2, <2>1 DEF Blocks!Base, Loaded, Presets, Blocks!Counters
    <2>3. Blocks!CountAt(Blocks!N)' = Blocks!Base' + (CASE v1 = "CTU" -> 0 [] v1 = "CTD" -> -0 [] OTHER -> 0 - 0)
      BY <1>1, <1>7, <2>1 DEF Blocks!CountAt
    <2> QED  BY <2>2, <2>3
  <1>9. ASSUME ~Reset(i)
        PROVE  /\ \A n \in s..z : Blocks!CountAt(n) \in Int /\ Blocks!CountAt(n)' = Blocks!CountAt(n)
               /\ Blocks!CountAt(z + 1)' = Blocks!CountAt(z) + Counted(i)
               /\ Blocks!NeverSaturates' => Blocks!NeverSaturates /\ Blocks!InInt(Blocks!CountAt(z + 1)')
    <2>1. Blocks!Since' = s
      BY <1>5, <1>9
    <2>2. s # 0 => (Blocks!In(s, "b")' <=> Blocks!In(s, "b"))
      BY <1>1 DEF Called
    <2>3. Blocks!Base' = Blocks!Base /\ Blocks!Base \in Int
      BY <1>1, <1>4, <2>1, <2>2 DEF Blocks!Base, Presets
    <2>4. ASSUME NEW n \in s..z PROVE Blocks!CountAt(n) \in Int /\ Blocks!CountAt(n)' = Blocks!CountAt(n)
      BY <1>1, <1>4, <1>7, <2>1, <2>3 DEF Blocks!CountAt
    <2>5. Blocks!CountAt(z + 1)' = Blocks!CountAt(z) + Counted(i)
      <3>1. z \in s..z
        BY <1>1
      <3> DEFINE ea == Blocks!Edges(s, z, "a")
                 ec == Blocks!Edges(s, z, "c")
                 ra == IF i.a /\ ~Last("a") THEN 1 ELSE 0
                 rc == IF i.c /\ ~Last("c") THEN 1 ELSE 0
                 base == Blocks!Base
      <3>2. Blocks!CountAt(z) = base + (CASE v1 = "CTU" -> ea [] v1 = "CTD" -> -ea [] OTHER -> ea - ec)
        BY <1>4 DEF Blocks!CountAt
      <3>3. Blocks!CountAt(z + 1)' = base + (CASE v1 = "CTU" -> ea + ra [] v1 = "CTD" -> -(ea + ra) [] OTHER -> (ea + ra) - (ec + rc))
        BY <1>1, <1>7, <2>1, <2>3 DEF Blocks!CountAt
      <3>4. Counted(i) = (CASE v1 = "CTU" -> ra [] v1 = "CTD" -> -ra [] OTHER -> ra - rc)
        BY Zenon DEF Counted
      <3>5. ea \in Nat /\ ec \in Nat /\ ra \in Nat /\ rc \in Nat /\ base \in Int
        BY <1>7, <2>3, <3>1
      <3> HIDE DEF ea, ec, ra, rc, base
      <3> QED  BY <3>2, <3>3, <3>4, <3>5
    <2>6. ASSUME Blocks!NeverSaturates' PROVE Blocks!NeverSaturates /\ Blocks!InInt(Blocks!CountAt(z + 1)')
      <3>1. \A n \in s..(z + 1) : Blocks!InInt(Blocks!CountAt(n)')
        BY <1>1, <2>1, <2>6, Zenon DEF Blocks!NeverSaturates, Blocks!InInt
      <3>2. ASSUME NEW n \in s..z PROVE Blocks!InInt(Blocks!CountAt(n))
        <4>1. n \in s..(z + 1)
          BY <1>1
        <4> QED  BY <2>4, <3>1, <4>1, Zenon
      <3>3. z + 1 \in s..(z + 1)
        BY <1>1
      <3> QED  BY <1>1, <1>4, <3>1, <3>2, <3>3, Zenon DEF Blocks!NeverSaturates
    <2> QED  BY <2>4, <2>5, <2>6
  <1>10. z \in s..z
    BY <1>1
  <1> QED  BY <1>1, <1>8, <1>9, <1>10

\* What a counter keeps.
CounterInv ==
    v1 \in Blocks!Counters =>
        /\ Latest("b") /\ Latest("d")
        /\ (v2.m <=> Last("a")) /\ (v3.m <=> Last("a"))
        /\ v1 = "CTUD" => (v2.m2 <=> Last("c")) /\ (v3.m2 <=> Last("c"))
        /\ Blocks!InInt(v2.v)
        /\ Blocks!NeverSaturates => v2.v = Blocks!CountAt(Blocks!N) /\ v3.v = Blocks!CountAt(Blocks!N)
        /\ Blocks!N > 0 =>
            /\ v1 # "CTD" => (v2.q <=> v2.v >= PV) /\ (v3.q <=> v3.v >= PV)
            /\ v1 = "CTD" => (v2.q <=> v2.v <= 0) /\ (v3.q <=> v3.v <= 0)
            /\ v1 = "CTUD" => (v2.qd <=> v2.v <= 0)

\* One more or one less, unless that would leave an INT.
LEMMA UpDown ==
    ASSUME Blocks!BlocksAssumption, NEW v \in Int, Blocks!InInt(v)
    PROVE  /\ Blocks!Up(v) \in Int /\ Blocks!InInt(Blocks!Up(v)) /\ (Blocks!InInt(v + 1) => Blocks!Up(v) = v + 1)
           /\ Blocks!Dn(v) \in Int /\ Blocks!InInt(Blocks!Dn(v)) /\ (Blocks!InInt(v - 1) => Blocks!Dn(v) = v - 1)
           /\ Blocks!InInt(0) /\ Blocks!InInt(PV)
  BY DEF Blocks!BlocksAssumption, Blocks!InInt, Blocks!Up, Blocks!Dn

LEMMA CounterStep ==
    ASSUME Blocks!BlocksAssumption, NEW i, NEW d, NEW z, Called(i, d, z), v1 \in Blocks!Counters,
           v2 \in BlockState, v3 \in BlockState, CounterInv
    PROVE  CounterInv'
  <1> DEFINE s == Blocks!StCall(v1, v2, i, Blocks!T(z) + d)
             r == Blocks!RtCall(v1, v3, i, d)
             up == i.a /\ ~Last("a")
             down == i.c /\ ~Last("c")
  <1>1. /\ z \in Nat /\ Blocks!N = z /\ Blocks!N' = z + 1 /\ Blocks!N' > 0 /\ Bits4(i)
        /\ v1' = v1 /\ v2' = s /\ v3' = r
    BY DEF Called
  <1>2. Presets /\ PV \in Int
    BY DEF Blocks!BlocksAssumption, Presets
  <1>3. /\ Latest("b") /\ Latest("d") /\ Latest("b")' /\ Latest("d")'
        /\ Last("a")' = i.a /\ Last("c")' = i.c
    BY LastOfStep, LastStep DEF CounterInv
  <1>4. /\ v2.v \in Int /\ v3.v \in Int /\ Blocks!InInt(v2.v) /\ (v2.m <=> Last("a")) /\ (v3.m <=> Last("a"))
        /\ v1 = "CTUD" => (v2.m2 <=> Last("c")) /\ (v3.m2 <=> Last("c"))
    BY DEF CounterInv, BlockState
  <1>5. Blocks!NeverSaturates => v2.v = Blocks!CountAt(Blocks!N) /\ v3.v = Blocks!CountAt(Blocks!N)
    BY DEF CounterInv
  <1>6. /\ Reset(i) => Blocks!CountAt(Blocks!N)' = Loaded(i)
        /\ ~Reset(i) => /\ Blocks!CountAt(Blocks!N) \in Int /\ Blocks!CountAt(Blocks!N)' = Blocks!CountAt(Blocks!N) + Counted(i)
                        /\ Blocks!NeverSaturates' => Blocks!NeverSaturates /\ Blocks!InInt(Blocks!CountAt(Blocks!N)')
    BY <1>2, <1>3, CountStep
  <1>13. v1 \in {"CTU", "CTD"} =>
            /\ s \in BlockState /\ r \in BlockState /\ s.m = i.a /\ r.m = i.a
            /\ v1 = "CTU" => /\ s.v = (IF i.b THEN 0 ELSE IF i.a /\ ~v2.m THEN Blocks!Up(v2.v) ELSE v2.v)
                             /\ r.v = (IF i.b THEN 0 ELSE IF i.a /\ ~v3.m THEN v3.v + 1 ELSE v3.v)
                             /\ (s.q <=> s.v >= PV) /\ (r.q <=> r.v >= PV)
            /\ v1 = "CTD" => /\ s.v = (IF i.b THEN PV ELSE IF i.a /\ ~v2.m THEN Blocks!Dn(v2.v) ELSE v2.v)
                             /\ r.v = (IF i.b THEN PV ELSE IF i.a /\ ~v3.m THEN v3.v - 1 ELSE v3.v)
                             /\ (s.q <=> s.v <= 0) /\ (r.q <=> r.v <= 0)
    BY <1>1, <1>2, CtuFields
  <1>14. v1 = "CTUD" =>
            /\ s \in BlockState /\ r \in BlockState /\ s.m = i.a /\ r.m = i.a /\ s.m2 = i.c /\ r.m2 = i.c
            /\ s.v = (IF i.b THEN 0 ELSE IF i.d THEN PV
                      ELSE IF (i.a /\ ~v2.m) /\ ~(i.c /\ ~v2.m2) THEN Blocks!Up(v2.v)
                      ELSE IF (i.c /\ ~v2.m2) /\ ~(i.a /\ ~v2.m) THEN Blocks!Dn(v2.v) ELSE v2.v)
            /\ r.v = (IF i.b THEN 0 ELSE IF i.d THEN PV
                      ELSE v3.v + (IF i.a /\ ~v3.m THEN 1 ELSE 0) - (IF i.c /\ ~v3.m2 THEN 1 ELSE 0))
            /\ (s.q <=> s.v >= PV) /\ (s.qd <=> s.v <= 0) /\ (r.q <=> r.v >= PV)
    BY <1>1, <1>2, CtudFields
  <1>15. v1 = "CTU" \/ v1 = "CTD" \/ v1 = "CTUD"
    BY DEF Blocks!Counters
  <1> HIDE DEF s, r
  <1>7. /\ s \in BlockState /\ r \in BlockState /\ s.m = i.a /\ r.m = i.a
        /\ v1 = "CTUD" => s.m2 = i.c /\ r.m2 = i.c /\ (s.qd <=> s.v <= 0)
        /\ v1 # "CTD" => (s.q <=> s.v >= PV) /\ (r.q <=> r.v >= PV)
        /\ v1 = "CTD" => (s.q <=> s.v <= 0) /\ (r.q <=> r.v <= 0)
    BY <1>13, <1>14, <1>15
  <1>8. ASSUME Reset(i) PROVE s.v = Loaded(i) /\ r.v = Loaded(i)
    <2>1. CASE v1 = "CTU"
      <3>1. i.b /\ v1 # "CTUD"
        BY <1>8, <2>1 DEF Reset
      <3>2. s.v = 0 /\ r.v = 0
        BY <1>1, <1>4, <1>13, <2>1, <3>1
      <3> QED  BY <2>1, <3>2 DEF Loaded
    <2>2. CASE v1 = "CTD"
      <3>1. i.b /\ v1 # "CTUD"
        BY <1>8, <2>2 DEF Reset
      <3>2. s.v = PV /\ r.v = PV
        BY <1>1, <1>4, <1>13, <2>2, <3>1
      <3> QED  BY <2>2, <3>2 DEF Loaded
    <2>3. CASE v1 = "CTUD"
      <3>1. i.b \/ i.d
        BY <1>8, <2>3 DEF Reset
      <3>2. s.v = (IF i.b THEN 0 ELSE PV) /\ r.v = (IF i.b THEN 0 ELSE PV)
        BY <1>1, <1>4, <1>14, <2>3, <3>1
      <3> QED  BY <2>3, <3>2 DEF Loaded
    <2> QED  BY <2>1, <2>2, <2>3 DEF Blocks!Counters
  <1>9. ASSUME ~Reset(i) PROVE /\ Blocks!InInt(s.v) /\ r.v = v3.v + Counted(i)
                               /\ Blocks!InInt(v2.v + Counted(i)) => s.v = v2.v + Counted(i)
    <2>1. CASE v1 = "CTU"
      <3>1. ~i.b /\ Counted(i) = (IF up THEN 1 ELSE 0)
        BY <1>9, <2>1 DEF Reset, Counted
      <3>2. s.v = (IF up THEN Blocks!Up(v2.v) ELSE v2.v) /\ r.v = (IF up THEN v3.v + 1 ELSE v3.v)
        BY <1>1, <1>4, <1>13, <2>1, <3>1
      <3> HIDE DEF up
      <3> QED  BY <1>4, <3>1, <3>2, UpDown
    <2>2. CASE v1 = "CTD"
      <3>1. ~i.b /\ Counted(i) = -(IF up THEN 1 ELSE 0)
        BY <1>9, <2>2 DEF Reset, Counted
      <3>2. s.v = (IF up THEN Blocks!Dn(v2.v) ELSE v2.v) /\ r.v = (IF up THEN v3.v - 1 ELSE v3.v)
        BY <1>1, <1>4, <1>13, <2>2, <3>1
      <3> HIDE DEF up
      <3> QED  BY <1>4, <3>1, <3>2, UpDown
    <2>3. CASE v1 = "CTUD"
      <3>1. ~i.b /\ ~i.d /\ Counted(i) = (IF up THEN 1 ELSE 0) - (IF down THEN 1 ELSE 0)
        BY <1>9, <2>3 DEF Reset, Counted
      <3>2. /\ s.v = (IF up /\ ~down THEN Blocks!Up(v2.v) ELSE IF down /\ ~up THEN Blocks!Dn(v2.v) ELSE v2.v)
            /\ r.v = v3.v + (IF up THEN 1 ELSE 0) - (IF down THEN 1 ELSE 0)
        BY <1>1, <1>4, <1>14, <2>3, <3>1
      <3> HIDE DEF up, down
      <3> QED  BY <1>4, <3>1, <3>2, UpDown
    <2> QED  BY <2>1, <2>2, <2>3 DEF Blocks!Counters
  <1>10. Blocks!InInt(s.v)
    <2>1. Loaded(i) = 0 \/ Loaded(i) = PV
      BY <1>1 DEF Loaded, Bits4
    <2> QED  BY <1>4, <1>8, <1>9, <2>1, UpDown, Zenon
  <1>11. ASSUME Blocks!NeverSaturates' PROVE s.v = Blocks!CountAt(Blocks!N)' /\ r.v = Blocks!CountAt(Blocks!N)'
    <2>1. CASE Reset(i)
      BY <1>6, <1>8, <2>1, Zenon
    <2>2. CASE ~Reset(i)
      <3>1. /\ Blocks!CountAt(Blocks!N)' = Blocks!CountAt(Blocks!N) + Counted(i) /\ Blocks!InInt(Blocks!CountAt(Blocks!N)')
            /\ v2.v = Blocks!CountAt(Blocks!N) /\ v3.v = Blocks!CountAt(Blocks!N)
        BY <1>5, <1>6, <1>11, <2>2, Zenon
      <3>2. Blocks!InInt(v2.v + Counted(i))
        BY <3>1, Zenon
      <3> QED  BY <1>9, <2>2, <3>1, <3>2, Zenon
    <2> QED  BY <2>1, <2>2
  <1>12. /\ (s.m <=> i.a) /\ (r.m <=> i.a) /\ (v1 = "CTUD" => (s.m2 <=> i.c) /\ (r.m2 <=> i.c))
    BY <1>7, Zenon
  <1> QED  BY <1>1, <1>3, <1>7, <1>10, <1>11, <1>12, Zenon DEF CounterInv

-----------------------------------------------------------------------------
\* Timers, field by field.
LEMMA LeastIsInt == ASSUME NEW x \in Int, NEW y \in Int PROVE Blocks!Least(x, y) \in Int
  BY DEF Blocks!Least

TonSays(f, g, i, now, d, s, r) ==
    LET since == IF f.run THEN f.start ELSE now
        elapsed == (IF g.run THEN g.v ELSE 0) + d
    IN /\ s \in BlockState /\ r \in BlockState /\ (s.run <=> i.a) /\ (r.run <=> i.a)
       /\ ~i.a => ~s.q /\ ~r.q
       /\ i.a => s.start = since /\ (s.q <=> now - since >= PT)
       /\ i.a /\ g.q => r.q
       /\ i.a /\ ~g.q => r.v = elapsed /\ (r.q <=> elapsed >= PT)

LEMMA TonFields ==
    ASSUME NEW f \in BlockState, NEW g \in BlockState, NEW i, Bits4(i), Presets, NEW now \in Int, NEW d \in Int
    PROVE  TonSays(f, g, i, now, d, Blocks!StCall("TON", f, i, now), Blocks!RtCall("TON", g, i, d))
  <1> DEFINE since == IF f.run THEN f.start ELSE now
             elapsed == (IF g.run THEN g.v ELSE 0) + d
             q == now - since >= PT
             p == elapsed >= PT
             v == Blocks!Least(now - since, PT)
  <1>1. since \in Int /\ elapsed \in Int
    BY DEF BlockState
  <1>2. v \in Int
    <2>1. now - since \in Int /\ PT \in Int
      BY <1>1 DEF Presets
    <2> HIDE DEF since
    <2> QED  BY <2>1, LeastIsInt
  <1>3. (q <=> now - since >= PT) /\ (p <=> elapsed >= PT)
    OBVIOUS
  <1>4. q \in BOOLEAN /\ p \in BOOLEAN
    OBVIOUS
  <1>5. Blocks!StCall("TON", f, i, now) = (IF ~i.a THEN [f EXCEPT !.run = FALSE, !.v = 0, !.q = FALSE]
                                      ELSE [f EXCEPT !.run = TRUE, !.start = since, !.v = v, !.q = q])
    BY DEF Blocks!StCall, Blocks!StTon
  <1>6. Blocks!RtCall("TON", g, i, d) = (IF ~i.a THEN [g EXCEPT !.run = FALSE, !.q = FALSE, !.v = 0]
                                    ELSE IF g.q THEN [g EXCEPT !.run = TRUE]
                                    ELSE [g EXCEPT !.run = TRUE, !.v = elapsed, !.q = p])
    BY DEF Blocks!RtCall, Blocks!RtTon
  <1> DEFINE s == Blocks!StCall("TON", f, i, now)
             r == Blocks!RtCall("TON", g, i, d)
  <1>7. since = (IF f.run THEN f.start ELSE now) /\ elapsed = (IF g.run THEN g.v ELSE 0) + d
    OBVIOUS
  <1> HIDE DEF since, elapsed, q, p, v, s, r
  <1>8. ASSUME i.a
        PROVE  /\ s \in BlockState /\ s.run /\ s.start = since /\ (s.q <=> q)
               /\ r \in BlockState /\ r.run /\ (g.q => r.q) /\ (~g.q => r.v = elapsed /\ (r.q <=> p))
    <2>1. s = [f EXCEPT !.run = TRUE, !.start = since, !.v = v, !.q = q]
      BY <1>5, <1>8, Zenon DEF s
    <2>2. r = IF g.q THEN [g EXCEPT !.run = TRUE] ELSE [g EXCEPT !.run = TRUE, !.v = elapsed, !.q = p]
      BY <1>6, <1>8, Zenon DEF r
    <2> QED  BY <1>1, <1>2, <1>4, <2>1, <2>2 DEF BlockState
  <1>9. ASSUME ~i.a
        PROVE  s \in BlockState /\ ~s.run /\ ~s.q /\ r \in BlockState /\ ~r.run /\ ~r.q
    <2> PICK o \in Int : o = 0
      OBVIOUS
    <2>1. s = [f EXCEPT !.run = FALSE, !.v = o, !.q = FALSE] /\ r = [g EXCEPT !.run = FALSE, !.q = FALSE, !.v = o]
      BY <1>5, <1>6, <1>9, Zenon DEF s, r
    <2>2. s \in BlockState /\ s.run = FALSE /\ s.q = FALSE
      BY <2>1 DEF BlockState
    <2>3. r \in BlockState /\ r.run = FALSE /\ r.q = FALSE
      BY <2>1 DEF BlockState
    <2> QED  BY <2>2, <2>3
  <1> QED  BY <1>3, <1>7, <1>8, <1>9, Zenon DEF s, r, TonSays

TofSays(f, g, i, now, d, s, r) ==
    LET from == IF f.m THEN now ELSE f.start
    IN /\ s \in BlockState /\ r \in BlockState /\ (s.m <=> i.a)
       /\ i.a => s.q /\ ~s.run /\ r.q /\ r.run /\ r.v = 0
       /\ ~i.a /\ (f.m \/ f.run) => s.start = from /\ (s.q <=> now - from < PT) /\ (s.run <=> s.q)
       /\ ~i.a /\ ~f.m /\ ~f.run => (s.q <=> f.q) /\ ~s.run
       /\ ~i.a /\ g.run => r.v = g.v + d /\ (r.q <=> g.v + d < PT) /\ (r.run <=> r.q)
       /\ ~i.a /\ ~g.run => r = g

LEMMA TofFields ==
    ASSUME NEW f \in BlockState, NEW g \in BlockState, NEW i, Bits4(i), Presets, NEW now \in Int, NEW d \in Int
    PROVE  TofSays(f, g, i, now, d, Blocks!StCall("TOF", f, i, now), Blocks!RtCall("TOF", g, i, d))
  <1> DEFINE from == IF f.m THEN now ELSE f.start
             past == g.v + d
             q == now - from >= PT
             p == past >= PT
             v == Blocks!Least(now - from, PT)
  <1>1. from \in Int /\ past \in Int
    BY DEF BlockState
  <1>2. v \in Int
    <2>1. now - from \in Int /\ PT \in Int
      BY <1>1 DEF Presets
    <2> HIDE DEF from
    <2> QED  BY <2>1, LeastIsInt
  <1>3. (~q <=> now - from < PT) /\ (~p <=> past < PT)
    BY <1>1 DEF Presets
  <1>4. q \in BOOLEAN /\ p \in BOOLEAN
    OBVIOUS
  <1>5. Blocks!StCall("TOF", f, i, now) = (IF i.a THEN [f EXCEPT !.m = TRUE, !.run = FALSE, !.v = 0, !.q = TRUE]
                                      ELSE IF ~(f.m \/ f.run) THEN [f EXCEPT !.m = FALSE]
                                      ELSE [f EXCEPT !.m = FALSE, !.run = ~q, !.start = from, !.v = v, !.q = ~q])
    BY DEF Blocks!StCall, Blocks!StTof
  <1>6. Blocks!RtCall("TOF", g, i, d) = (IF i.a THEN [g EXCEPT !.q = TRUE, !.run = TRUE, !.v = 0]
                                    ELSE IF ~g.run THEN g
                                    ELSE [g EXCEPT !.v = past, !.q = ~p, !.run = ~p])
    <2>1. Blocks!RtCall("TOF", g, i, d) = Blocks!RtTof(g, i, d)
      BY DEF Blocks!RtCall
    <2> QED  BY <2>1, Zenon DEF Blocks!RtTof
  <1>7. past = g.v + d
    OBVIOUS
  <1>8. from = IF f.m THEN now ELSE f.start
    OBVIOUS
  <1> DEFINE s == Blocks!StCall("TOF", f, i, now)
             r == Blocks!RtCall("TOF", g, i, d)
  <1> HIDE DEF from, past, q, p, v, s, r
  <1>9. ASSUME i.a
        PROVE  s \in BlockState /\ s.m /\ s.q /\ ~s.run /\ r \in BlockState /\ r.q /\ r.run /\ r.v = 0
    <2> PICK o \in Int : o = 0
      OBVIOUS
    <2>1. /\ s = [f EXCEPT !.m = TRUE, !.run = FALSE, !.v = o, !.q = TRUE]
          /\ r = [g EXCEPT !.q = TRUE, !.run = TRUE, !.v = o]
      BY <1>5, <1>6, <1>9, Zenon DEF s, r
    <2>2. s \in BlockState /\ s.m = TRUE /\ s.run = FALSE /\ s.q = TRUE
      BY <2>1 DEF BlockState
    <2>3. r \in BlockState /\ r.q = TRUE /\ r.run = TRUE /\ r.v = o
      BY <2>1 DEF BlockState
    <2> QED  BY <2>2, <2>3
  <1>10. ASSUME ~i.a
         PROVE  /\ s \in BlockState /\ ~s.m
                /\ f.m \/ f.run => s.start = from /\ (s.q <=> ~q) /\ (s.run <=> s.q)
                /\ ~f.m /\ ~f.run => (s.q <=> f.q) /\ ~s.run
    <2>1. s = IF ~(f.m \/ f.run) THEN [f EXCEPT !.m = FALSE]
              ELSE [f EXCEPT !.m = FALSE, !.run = ~q, !.start = from, !.v = v, !.q = ~q]
      BY <1>5, <1>10, Zenon DEF s
    <2> QED  BY <1>1, <1>2, <1>4, <2>1 DEF BlockState
  <1>11. ASSUME ~i.a
         PROVE  /\ r \in BlockState
                /\ g.run => r.v = past /\ (r.q <=> ~p) /\ (r.run <=> r.q)
                /\ ~g.run => r = g
    <2>1. r = IF ~g.run THEN g ELSE [g EXCEPT !.v = past, !.q = ~p, !.run = ~p]
      BY <1>6, <1>11, Zenon DEF r
    <2> QED  BY <1>1, <1>4, <2>1 DEF BlockState
  <1> QED  BY <1>3, <1>7, <1>8, <1>9, <1>10, <1>11, Zenon DEF s, r, TofSays

TpSays(f, g, i, now, d, s, r) ==
    LET from == IF i.a /\ ~f.m /\ ~f.run THEN now ELSE f.start
        past == (IF i.a /\ ~g.m /\ ~g.run THEN 0 ELSE g.v) + d
    IN /\ s \in BlockState /\ r \in BlockState /\ (s.m <=> i.a) /\ (r.m <=> i.a)
       /\ f.run \/ (i.a /\ ~f.m) => s.start = from /\ (s.q <=> now - from < PT) /\ (s.run <=> s.q)
       /\ ~f.run /\ ~(i.a /\ ~f.m) => ~s.q /\ ~s.run
       /\ g.run \/ (i.a /\ ~g.m) => r.v = past /\ (r.q <=> past < PT) /\ (r.run <=> r.q)
       /\ ~g.run /\ ~(i.a /\ ~g.m) => (r.q <=> g.q) /\ ~r.run

LEMMA TpFields ==
    ASSUME NEW f \in BlockState, NEW g \in BlockState, NEW i, Bits4(i), Presets, NEW now \in Int, NEW d \in Int
    PROVE  TpSays(f, g, i, now, d, Blocks!StCall("TP", f, i, now), Blocks!RtCall("TP", g, i, d))
  <1> DEFINE edge == i.a /\ ~f.m
             start == IF edge /\ ~f.run THEN now ELSE f.start
             starts == i.a /\ ~g.m /\ ~g.run
             past == (IF starts THEN 0 ELSE g.v) + d
             q == now - start >= PT
             p == past >= PT
             v == Blocks!Least(now - start, PT)
  <1>1. start \in Int /\ past \in Int
    BY DEF BlockState
  <1>2. v \in Int
    <2>1. now - start \in Int /\ PT \in Int
      BY <1>1 DEF Presets
    <2> HIDE DEF start
    <2> QED  BY <2>1, LeastIsInt
  <1>3. (~q <=> now - start < PT) /\ (~p <=> past < PT)
    BY <1>1 DEF Presets
  <1>4. q \in BOOLEAN /\ p \in BOOLEAN
    OBVIOUS
  <1>5. Blocks!StCall("TP", f, i, now) =
            (IF f.run \/ edge THEN [f EXCEPT !.m = i.a, !.run = ~q, !.start = start, !.v = v, !.q = ~q]
             ELSE [f EXCEPT !.m = i.a, !.q = FALSE, !.v = IF i.a THEN f.v ELSE 0])
    <2>1. Blocks!StCall("TP", f, i, now) = Blocks!StTp(f, i, now)
      BY DEF Blocks!StCall
    <2> QED  BY <2>1, Zenon DEF Blocks!StTp
  <1>6. Blocks!RtCall("TP", g, i, d) = (IF starts \/ g.run THEN [g EXCEPT !.m = i.a, !.v = past, !.run = ~p, !.q = ~p]
                                   ELSE [g EXCEPT !.m = i.a])
    <2>1. Blocks!RtCall("TP", g, i, d) = Blocks!RtTp(g, i, d)
      BY DEF Blocks!RtCall
    <2> QED  BY <2>1, Zenon DEF Blocks!RtTp
  <1>7. past = (IF i.a /\ ~g.m /\ ~g.run THEN 0 ELSE g.v) + d
    OBVIOUS
  <1>8. start = IF i.a /\ ~f.m /\ ~f.run THEN now ELSE f.start
    OBVIOUS
  <1> DEFINE s == Blocks!StCall("TP", f, i, now)
             r == Blocks!RtCall("TP", g, i, d)
  <1> HIDE DEF start, past, q, p, v, s, r
  <1>9. /\ s \in BlockState /\ (s.m <=> i.a)
        /\ f.run \/ (i.a /\ ~f.m) => s.start = start /\ (s.q <=> ~q) /\ (s.run <=> s.q)
        /\ ~f.run /\ ~(i.a /\ ~f.m) => ~s.q /\ ~s.run
    <2>1. s = IF f.run \/ edge THEN [f EXCEPT !.m = i.a, !.run = ~q, !.start = start, !.v = v, !.q = ~q]
              ELSE [f EXCEPT !.m = i.a, !.q = FALSE, !.v = IF i.a THEN f.v ELSE 0]
      BY <1>5, Zenon DEF s
    <2>2. CASE f.run \/ edge
      <3>1. s = [f EXCEPT !.m = i.a, !.run = ~q, !.start = start, !.v = v, !.q = ~q]
        BY <2>1, <2>2, Zenon
      <3>2. s \in BlockState /\ (s.m <=> i.a) /\ s.start = start /\ (s.q <=> ~q) /\ (s.run <=> s.q)
        BY <1>1, <1>2, <1>4, <3>1 DEF BlockState, Bits4
      <3> QED  BY <2>2, <3>2, Zenon
    <2>3. CASE ~(f.run \/ edge)
      <3> PICK o \in Int : o = IF i.a THEN f.v ELSE 0
        BY DEF BlockState
      <3>1. s = [f EXCEPT !.m = i.a, !.q = FALSE, !.v = o]
        BY <2>1, <2>3, Zenon
      <3>2. s \in BlockState /\ (s.m <=> i.a) /\ s.q = FALSE /\ s.run = f.run
        BY <3>1 DEF BlockState, Bits4
      <3> QED  BY <2>3, <3>2, Zenon
    <2> QED  BY <2>2, <2>3
  <1>10. /\ r \in BlockState /\ (r.m <=> i.a)
         /\ g.run \/ (i.a /\ ~g.m) => r.v = past /\ (r.q <=> ~p) /\ (r.run <=> r.q)
         /\ ~g.run /\ ~(i.a /\ ~g.m) => (r.q <=> g.q) /\ ~r.run
    <2>1. r = IF starts \/ g.run THEN [g EXCEPT !.m = i.a, !.v = past, !.run = ~p, !.q = ~p]
              ELSE [g EXCEPT !.m = i.a]
      BY <1>6, Zenon DEF r
    <2> QED  BY <1>1, <1>4, <2>1 DEF BlockState, Bits4
  <1> QED  BY <1>3, <1>7, <1>8, <1>9, <1>10, Zenon DEF s, r, TpSays

RtoSays(f, g, i, now, d, s, r) ==
    /\ s \in BlockState /\ r \in BlockState /\ (s.run <=> i.a /\ ~i.b) /\ (s.q <=> s.v >= PT /\ ~i.b)
    /\ i.a /\ ~i.b => s.start = now
    /\ s.v = (IF i.b THEN 0 ELSE IF i.a /\ f.run /\ f.v < PT THEN Blocks!Least(f.v + now - f.start, PT) ELSE f.v)

LEMMA RtoFields ==
    ASSUME NEW f \in BlockState, NEW g \in BlockState, NEW i, Bits4(i), Presets, NEW now \in Int, NEW d \in Int
    PROVE  RtoSays(f, g, i, now, d, Blocks!StCall("RTO", f, i, now), Blocks!RtCall("RTO", g, i, d))
  <1> DEFINE et == IF i.b THEN 0 ELSE IF i.a /\ f.run /\ f.v < PT THEN Blocks!Least(f.v + now - f.start, PT) ELSE f.v
             q == et >= PT /\ ~i.b
  <1>1. et \in Int
    BY LeastIsInt DEF BlockState, Presets
  <1>2. q <=> et >= PT /\ ~i.b
    OBVIOUS
  <1>3. q \in BOOLEAN
    OBVIOUS
  <1>4. Blocks!StCall("RTO", f, i, now) =
            [f EXCEPT !.v = et, !.run = i.a /\ ~i.b, !.start = IF i.a /\ ~i.b THEN now ELSE f.start, !.q = q]
    <2>1. Blocks!StCall("RTO", f, i, now) = Blocks!StRto(f, i, now)
      BY DEF Blocks!StCall
    <2> QED  BY <2>1, Zenon DEF Blocks!StRto
  <1>5. Blocks!RtCall("RTO", g, i, d) = g
    BY DEF Blocks!RtCall
  <1>6. et = IF i.b THEN 0 ELSE IF i.a /\ f.run /\ f.v < PT THEN Blocks!Least(f.v + now - f.start, PT) ELSE f.v
    OBVIOUS
  <1> HIDE DEF et, q
  <1> QED  BY <1>1, <1>2, <1>3, <1>4, <1>5, <1>6 DEF BlockState, Bits4, RtoSays

-----------------------------------------------------------------------------
\* TON: the call at which IN rose, if it has not fallen since.
OnSince(n) ==
    /\ \A m \in n..Blocks!N : Blocks!In(m, "a")
    /\ n = 1 \/ ~Blocks!In(n - 1, "a")
    /\ v2.start = Blocks!T(n) /\ (v2.q <=> Blocks!T(Blocks!N) - Blocks!T(n) >= PT)
    /\ (v3.q <=> Blocks!T(Blocks!N) - Blocks!T(n - 1) >= PT) /\ (~v3.q => v3.v = Blocks!T(Blocks!N) - Blocks!T(n - 1))
TonInv ==
    v1 = "TON" => /\ (v2.run <=> Last("a")) /\ (v3.run <=> Last("a"))
                  /\ ~Last("a") => ~v2.q /\ ~v3.q
                  /\ Last("a") => \E n \in 1..Blocks!N : OnSince(n)

LEMMA TonStep ==
    ASSUME Blocks!BlocksAssumption, NEW i, NEW d, NEW z, Called(i, d, z), v1 = "TON",
           v2 \in BlockState, v3 \in BlockState, TonInv
    PROVE  TonInv'
  <1> DEFINE s == Blocks!StCall("TON", v2, i, Blocks!T(z) + d)
             r == Blocks!RtCall("TON", v3, i, d)
  <1>1. /\ z \in Nat /\ Blocks!N = z /\ Blocks!N' = z + 1 /\ Bits4(i) /\ d \in Nat
        /\ v1' = v1 /\ v2' = s /\ v3' = r
        /\ \A n \in 0..z : Blocks!T(n) \in Nat /\ Blocks!T(n)' = Blocks!T(n)
        /\ Blocks!T(z + 1)' = Blocks!T(z) + d
        /\ \A n \in 1..z : Blocks!In(n, "a") \in BOOLEAN /\ Blocks!In(n, "a")' = Blocks!In(n, "a")
        /\ Blocks!In(z + 1, "a")' = i.a
    BY DEF Called
  <1>2. Presets /\ Blocks!T(z) + d \in Int /\ Blocks!T(z) \in Nat
    BY <1>1 DEF Blocks!BlocksAssumption, Presets
  <1> PICK now \in Int : now = Blocks!T(z) + d
    BY <1>2
  <1> PICK since \in Int : since = IF v2.run THEN v2.start ELSE now
    BY DEF BlockState
  <1> PICK elapsed \in Int : elapsed = (IF v3.run THEN v3.v ELSE 0) + d
    BY <1>1 DEF BlockState
  <1>3. /\ s \in BlockState /\ r \in BlockState /\ (s.run <=> i.a) /\ (r.run <=> i.a)
        /\ ~i.a => ~s.q /\ ~r.q
        /\ i.a => s.start = since /\ (s.q <=> now - since >= PT)
        /\ i.a /\ v3.q => r.q
        /\ i.a /\ ~v3.q => r.v = elapsed /\ (r.q <=> elapsed >= PT)
    <2>1. d \in Int /\ Presets /\ Bits4(i)
      BY <1>1, <1>2
    <2>2. TonSays(v2, v3, i, now, d, s, r)
      BY <2>1, TonFields, Zenon
    <2> HIDE DEF s, r
    <2> QED  BY <2>2 DEF TonSays
  <1> HIDE DEF s, r
  <1>4. /\ Last("a")' = i.a
        /\ (v2.run <=> Last("a")) /\ (v3.run <=> Last("a")) /\ (~Last("a") => ~v2.q /\ ~v3.q)
        /\ Last("a") <=> z > 0 /\ Blocks!In(z, "a")
    BY <1>1, LastStep DEF TonInv, Last
  <1>5. CASE ~i.a
    BY <1>1, <1>3, <1>4, <1>5 DEF TonInv
  <1>6. CASE i.a
    <2>1. ASSUME ~Last("a") PROVE OnSince(z + 1)' /\ z + 1 \in 1..(z + 1)
      <3>1. \A m \in (z + 1)..(z + 1) : m = z + 1
        BY <1>1
      <3>2. \A m \in (z + 1)..(z + 1) : Blocks!In(m, "a")'
        BY <1>1, <1>6, <3>1
      <3>3. z + 1 = 1 \/ ~Blocks!In(z + 1 - 1, "a")'
        BY <1>1, <1>4, <2>1
      <3>4. since = now /\ elapsed = 0 + d
        BY <1>4, <2>1
      <3>5. /\ s.start = since /\ (s.q <=> now - since >= PT)
            /\ r.v = elapsed /\ (r.q <=> elapsed >= PT)
        BY <1>3, <1>4, <1>6, <2>1
      <3>6. Blocks!T(z + 1 - 1)' = Blocks!T(z)
        BY <1>1
      <3>7. /\ (r.q <=> Blocks!T(z + 1)' - Blocks!T(z + 1 - 1)' >= PT)
            /\ r.v = Blocks!T(z + 1)' - Blocks!T(z + 1 - 1)'
        BY <1>1, <1>2, <3>4, <3>5, <3>6
      <3>8. s.start = Blocks!T(z + 1)' /\ (s.q <=> Blocks!T(z + 1)' - Blocks!T(z + 1)' >= PT)
        BY <1>1, <1>2, <3>4, <3>5
      <3> QED  BY <1>1, <3>2, <3>3, <3>7, <3>8 DEF OnSince
    <2>2. ASSUME Last("a") PROVE \E n \in 1..(z + 1) : OnSince(n)'
      <3>1. PICK n \in 1..z : OnSince(n)
        BY <1>1, <2>2 DEF TonInv
      <3>2. n \in 0..z /\ n - 1 \in 0..z /\ n \in 1..(z + 1) /\ z + 1 \in n..(z + 1) /\ z \in 0..z
        BY <1>1
      <3> DEFINE tn == Blocks!T(n)
                 tm == Blocks!T(n - 1)
                 tz == Blocks!T(z)
      <3>3. /\ tn \in Nat /\ tm \in Nat /\ tz \in Nat /\ Blocks!T(n)' = tn /\ Blocks!T(n - 1)' = tm
            /\ Blocks!T(z + 1)' = tz + d
        BY <1>1, <3>2
      <3>4. /\ v2.start = tn /\ (v3.q <=> tz - tm >= PT) /\ (~v3.q => v3.v = tz - tm)
        BY <1>1, <3>1 DEF OnSince
      <3>5. \A m \in n..(z + 1) : Blocks!In(m, "a")'
        <4>1. ASSUME NEW m \in n..(z + 1) PROVE Blocks!In(m, "a")'
          <5>1. CASE m = z + 1
            BY <1>1, <1>6, <5>1
          <5>2. CASE m # z + 1
            <6>1. m \in n..z /\ m \in 1..z
              BY <1>1, <5>2
            <6> QED  BY <1>1, <3>1, <6>1 DEF OnSince
          <5> QED  BY <5>1, <5>2
        <4> QED  BY <4>1
      <3>6. n = 1 \/ ~Blocks!In(n - 1, "a")'
        <4>1. n # 1 => n - 1 \in 1..z
          BY <1>1
        <4> QED  BY <1>1, <3>1, <4>1 DEF OnSince
      <3>7. s.start = tn /\ (s.q <=> tz + d - tn >= PT)
        <4>1. since = tn /\ now = tz + d
          BY <1>4, <2>2, <3>4
        <4> HIDE DEF tn, tz
        <4>2. tn \in Nat /\ tz \in Nat /\ d \in Nat
          BY <1>1, <3>3
        <4> QED  BY <1>3, <1>6, <4>1, <4>2
      <3>8. (v3.q => r.q) /\ (~v3.q => r.v = v3.v + d /\ (r.q <=> v3.v + d >= PT))
        <4>1. elapsed = v3.v + d
          BY <1>4, <2>2
        <4> QED  BY <1>3, <1>6, <4>1
      <3> HIDE DEF tn, tm, tz
      <3>9. /\ (r.q <=> tz + d - tm >= PT) /\ (~r.q => r.v = tz + d - tm)
        <4>1. CASE v3.q
          BY <1>1, <1>2, <3>3, <3>4, <3>8, <4>1 DEF Presets
        <4>2. CASE ~v3.q
          BY <1>1, <1>2, <3>3, <3>4, <3>8, <4>2 DEF Presets
        <4> QED  BY <4>1, <4>2
      <3>10. OnSince(n)'
        BY <1>1, <3>3, <3>5, <3>6, <3>7, <3>9 DEF OnSince
      <3> QED  BY <3>2, <3>10
    <2>3. \E n \in 1..(z + 1) : OnSince(n)'
      BY <2>1, <2>2
    <2> QED  BY <1>1, <1>3, <1>4, <1>6, <2>3, Zenon DEF TonInv
  <1> QED  BY <1>5, <1>6

LEMMA TonAnswers ==
    ASSUME Blocks!BlocksAssumption, BlocksType, v1 = "TON", TonInv
    PROVE  (v2.q <=> Blocks!OnFor(0)) /\ (v3.q <=> Blocks!OnFor(1))
  <1>1. /\ Blocks!N \in Nat /\ \A n \in 0..Blocks!N : Blocks!T(n) \in Int
        /\ \A m, n \in 0..Blocks!N : m <= n => Blocks!T(m) <= Blocks!T(n)
    <2>1. Blocks!N \in Nat /\ \A n \in 1..Blocks!N : v4[n] \in LogEntry
      BY EntryOf DEF BlocksType, Blocks!N
    <2> QED  BY <2>1 DEF BlocksType, Blocks!T, LogEntry
  <1>2. PT \in Int
    BY DEF Blocks!BlocksAssumption
  <1>3. ASSUME NEW n \in 1..Blocks!N, \A m \in n..Blocks!N : Blocks!In(m, "a") PROVE Last("a")
    BY <1>1, <1>3 DEF Last
  <1>4. CASE ~Last("a")
    BY <1>3, <1>4 DEF TonInv, Blocks!OnFor
  <1>5. CASE Last("a")
    <2>1. PICK n \in 1..Blocks!N : OnSince(n)
      BY <1>5 DEF TonInv
    <2>2. /\ \A m \in n..Blocks!N : Blocks!In(m, "a")
          /\ (v2.q <=> Blocks!T(Blocks!N) - Blocks!T(n - 0) >= PT) /\ (v3.q <=> Blocks!T(Blocks!N) - Blocks!T(n - 1) >= PT)
      BY <1>1, <2>1 DEF OnSince
    <2>3. ASSUME NEW k \in 1..Blocks!N, \A m \in k..Blocks!N : Blocks!In(m, "a") PROVE n <= k
      <3>1. CASE n = 1
        BY <3>1
      <3>2. CASE n # 1 /\ k < n
        <4>1. n - 1 \in k..Blocks!N
          BY <1>1, <3>2
        <4> QED  BY <2>1, <2>3, <3>2, <4>1 DEF OnSince
      <3> QED  BY <1>1, <3>1, <3>2
    <2>4. ASSUME NEW late \in {0, 1}, NEW k \in 1..Blocks!N, \A m \in k..Blocks!N : Blocks!In(m, "a"), Blocks!T(Blocks!N) - Blocks!T(k - late) >= PT
          PROVE  Blocks!T(Blocks!N) - Blocks!T(n - late) >= PT
      <3>1. n <= k
        BY <2>3, <2>4
      <3>2. n - late \in 0..Blocks!N /\ k - late \in 0..Blocks!N /\ n - late <= k - late /\ Blocks!N \in 0..Blocks!N
        BY <1>1, <3>1
      <3>3. Blocks!T(n - late) <= Blocks!T(k - late) /\ Blocks!T(n - late) \in Int /\ Blocks!T(k - late) \in Int /\ Blocks!T(Blocks!N) \in Int
        BY <1>1, <3>2
      <3> QED  BY <1>2, <2>4, <3>3
    <2> QED  BY <2>2, <2>4, Zenon DEF Blocks!OnFor
  <1> QED  BY <1>4, <1>5

-----------------------------------------------------------------------------
\* TOF: the call at which IN fell, if it has not risen since.
OffSince(n) ==
    /\ Blocks!Falls(n) /\ \A m \in n..Blocks!N : ~Blocks!In(m, "a")
    /\ (v2.q <=> Blocks!T(Blocks!N) - Blocks!T(n) < PT) /\ (v2.q => v2.start = Blocks!T(n))
    /\ (v3.q <=> Blocks!T(Blocks!N) - Blocks!T(n - 1) < PT) /\ (v3.q => v3.v = Blocks!T(Blocks!N) - Blocks!T(n - 1))
TofInv ==
    v1 = "TOF" => /\ v2.m <=> Last("a")
                  /\ Last("a") => v2.q /\ ~v2.run /\ v3.q /\ v3.run /\ v3.v = 0
                  /\ ~Last("a") => /\ (v2.run <=> v2.q) /\ (v3.run <=> v3.q)
                                   /\ \/ \E n \in 1..Blocks!N : OffSince(n)
                                      \/ (\A m \in 1..Blocks!N : ~Blocks!In(m, "a")) /\ ~v2.q /\ ~v3.q

LEMMA TofStep ==
    ASSUME Blocks!BlocksAssumption, NEW i, NEW d, NEW z, Called(i, d, z), v1 = "TOF",
           v2 \in BlockState, v3 \in BlockState, TofInv
    PROVE  TofInv'
  <1> DEFINE s == Blocks!StCall("TOF", v2, i, Blocks!T(z) + d)
             r == Blocks!RtCall("TOF", v3, i, d)
  <1>1. /\ z \in Nat /\ Blocks!N = z /\ Blocks!N' = z + 1 /\ Bits4(i) /\ d \in Nat
        /\ v1' = v1 /\ v2' = s /\ v3' = r
        /\ \A n \in 0..z : Blocks!T(n) \in Nat /\ Blocks!T(n)' = Blocks!T(n)
        /\ Blocks!T(z + 1)' = Blocks!T(z) + d
        /\ \A n \in 1..z : Blocks!In(n, "a") \in BOOLEAN /\ Blocks!In(n, "a")' = Blocks!In(n, "a")
        /\ Blocks!In(z + 1, "a")' = i.a
    BY DEF Called
  <1>2. Presets /\ PT \in Int /\ Blocks!T(z) + d \in Int /\ Blocks!T(z) \in Nat /\ v3.v \in Int
    BY <1>1 DEF Blocks!BlocksAssumption, Presets, BlockState
  <1> PICK now \in Int : now = Blocks!T(z) + d
    BY <1>2
  <1> PICK from \in Int : from = IF v2.m THEN now ELSE v2.start
    BY DEF BlockState
  <1>3. /\ s \in BlockState /\ r \in BlockState /\ (s.m <=> i.a)
        /\ i.a => s.q /\ ~s.run /\ r.q /\ r.run /\ r.v = 0
        /\ ~i.a /\ (v2.m \/ v2.run) => s.start = from /\ (s.q <=> now - from < PT) /\ (s.run <=> s.q)
        /\ ~i.a /\ ~v2.m /\ ~v2.run => (s.q <=> v2.q) /\ ~s.run
        /\ ~i.a /\ v3.run => r.v = v3.v + d /\ (r.q <=> v3.v + d < PT) /\ (r.run <=> r.q)
        /\ ~i.a /\ ~v3.run => r = v3
    <2>1. d \in Int /\ Presets /\ Bits4(i)
      BY <1>1, <1>2
    <2>2. TofSays(v2, v3, i, now, d, s, r)
      BY <2>1, TofFields, Zenon
    <2> HIDE DEF s, r
    <2> QED  BY <2>2 DEF TofSays
  <1> HIDE DEF s, r
  <1>4. /\ Last("a")' = i.a /\ (v2.m <=> Last("a"))
        /\ Last("a") <=> z > 0 /\ Blocks!In(z, "a")
    BY <1>1, LastStep DEF TofInv, Last
  <1>5. CASE i.a
    BY <1>1, <1>3, <1>4, <1>5 DEF TofInv
  <1>6. CASE ~i.a
    <2>1. ASSUME Last("a")
          PROVE  OffSince(z + 1)' /\ z + 1 \in 1..(z + 1) /\ (s.run <=> s.q) /\ (r.run <=> r.q)
      <3>1. \A m \in (z + 1)..(z + 1) : m = z + 1
        BY <1>1
      <3>2. \A m \in (z + 1)..(z + 1) : ~Blocks!In(m, "a")'
        BY <1>1, <1>6, <3>1
      <3>3. Blocks!Falls(z + 1)'
        BY <1>1, <1>4, <1>6, <2>1 DEF Blocks!Falls
      <3>4. v3.run /\ v3.v = 0 /\ v2.m /\ from = now
        BY <1>4, <2>1 DEF TofInv
      <3>5. /\ s.start = from /\ (s.q <=> now - from < PT) /\ (s.run <=> s.q)
            /\ r.v = 0 + d /\ (r.q <=> 0 + d < PT) /\ (r.run <=> r.q)
        BY <1>3, <1>6, <3>4
      <3>6. Blocks!T(z + 1 - 1)' = Blocks!T(z) /\ Blocks!T(z + 1)' = now
        BY <1>1
      <3>7. /\ (r.q <=> Blocks!T(z + 1)' - Blocks!T(z + 1 - 1)' < PT)
            /\ r.v = Blocks!T(z + 1)' - Blocks!T(z + 1 - 1)'
        BY <1>1, <1>2, <3>5, <3>6
      <3>8. s.start = Blocks!T(z + 1)' /\ (s.q <=> Blocks!T(z + 1)' - Blocks!T(z + 1)' < PT)
        BY <1>1, <1>2, <3>4, <3>5, <3>6
      <3> QED  BY <1>1, <3>2, <3>3, <3>5, <3>7, <3>8 DEF OffSince
    <2>2. ASSUME ~Last("a")
          PROVE  /\ ~v2.m /\ (v2.run <=> v2.q) /\ (v3.run <=> v3.q)
                 /\ (~v2.q => ~s.q /\ ~s.run) /\ (v2.q => s.start = v2.start /\ (s.q <=> now - v2.start < PT) /\ (s.run <=> s.q))
                 /\ (~v3.q => ~r.q /\ ~r.run) /\ (v3.q => r.v = v3.v + d /\ (r.q <=> v3.v + d < PT) /\ (r.run <=> r.q))
      <3>1. ~v2.m /\ (v2.run <=> v2.q) /\ (v3.run <=> v3.q)
        BY <1>4, <2>2 DEF TofInv
      <3>2. from = v2.start
        BY <3>1
      <3> QED  BY <1>3, <1>6, <3>1, <3>2
    <2>3. ASSUME NEW m \in 1..(z + 1) PROVE m \in 1..z \/ (m = z + 1 /\ ~Blocks!In(m, "a")')
      BY <1>1, <1>6
    <2>4. ASSUME ~Last("a"), NEW n \in 1..z, OffSince(n) PROVE OffSince(n)' /\ n \in 1..(z + 1)
      <3>1. n \in 0..z /\ n - 1 \in 0..z /\ n \in 1..(z + 1) /\ z \in 0..z
        BY <1>1
      <3> DEFINE tn == Blocks!T(n)
                 tm == Blocks!T(n - 1)
                 tz == Blocks!T(z)
      <3>2. /\ tn \in Nat /\ tm \in Nat /\ tz \in Nat /\ Blocks!T(n)' = tn /\ Blocks!T(n - 1)' = tm
            /\ Blocks!T(z + 1)' = tz + d /\ now = tz + d
        BY <1>1, <3>1
      <3>3. /\ (v2.q <=> tz - tn < PT) /\ (v2.q => v2.start = tn)
            /\ (v3.q <=> tz - tm < PT) /\ (v3.q => v3.v = tz - tm)
        BY <1>1, <2>4 DEF OffSince
      <3>4. ASSUME NEW m \in n..(z + 1) PROVE ~Blocks!In(m, "a")'
        <4>1. m \in 1..(z + 1) /\ (m \in 1..z => m \in n..z)
          BY <1>1
        <4> QED  BY <1>1, <2>3, <2>4, <4>1 DEF OffSince
      <3>5. Blocks!Falls(n)'
        <4>1. Blocks!Falls(n)
          BY <2>4 DEF OffSince
        <4>2. n > 1 => n - 1 \in 1..z
          BY <1>1
        <4> QED  BY <1>1, <4>1, <4>2 DEF Blocks!Falls
      <3>6. d \in Nat /\ PT \in Int
        BY <1>1, <1>2
      <3> HIDE DEF tn, tm, tz
      <3>7. (s.q <=> tz + d - tn < PT) /\ (s.q => s.start = tn)
        <4>1. CASE v2.q
          BY <2>2, <2>4, <3>2, <3>3, <3>6, <4>1
        <4>2. CASE ~v2.q
          BY <2>2, <2>4, <3>2, <3>3, <3>6, <4>2
        <4> QED  BY <4>1, <4>2
      <3>8. (r.q <=> tz + d - tm < PT) /\ (r.q => r.v = tz + d - tm)
        <4>1. CASE v3.q
          BY <2>2, <2>4, <3>2, <3>3, <3>6, <4>1
        <4>2. CASE ~v3.q
          BY <2>2, <2>4, <3>2, <3>3, <3>6, <4>2
        <4> QED  BY <4>1, <4>2
      <3> QED  BY <1>1, <3>1, <3>2, <3>4, <3>5, <3>7, <3>8 DEF OffSince
    <2>5. ASSUME ~Last("a"), \A m \in 1..z : ~Blocks!In(m, "a"), ~v2.q, ~v3.q
          PROVE  (\A m \in 1..(z + 1) : ~Blocks!In(m, "a")') /\ ~s.q /\ ~r.q
      BY <1>1, <2>2, <2>3, <2>5
    <2>6. (s.run <=> s.q) /\ (r.run <=> r.q)
      BY <2>1, <2>2
    <2>7. (\E n \in 1..(z + 1) : OffSince(n)') \/ ((\A m \in 1..(z + 1) : ~Blocks!In(m, "a")') /\ ~s.q /\ ~r.q)
      <3>1. CASE Last("a")
        BY <2>1, <3>1
      <3>2. CASE ~Last("a")
        <4>1. (\E n \in 1..z : OffSince(n)) \/ ((\A m \in 1..z : ~Blocks!In(m, "a")) /\ ~v2.q /\ ~v3.q)
          BY <1>1, <3>2, Zenon DEF TofInv
        <4> QED  BY <2>4, <2>5, <3>2, <4>1, Zenon
      <3> QED  BY <3>1, <3>2
    <2> QED  BY <1>1, <1>3, <1>4, <1>6, <2>6, <2>7, Zenon DEF TofInv
  <1> QED  BY <1>5, <1>6

LEMMA TofAnswers ==
    ASSUME BlocksType, v1 = "TOF", TofInv, Blocks!N > 0
    PROVE  /\ v2.q <=> Blocks!In(Blocks!N, "a") \/ Blocks!OffWithin(0)
           /\ v3.q <=> Blocks!In(Blocks!N, "a") \/ Blocks!OffWithin(1)
  <1>1. Blocks!N \in Nat
    BY DEF BlocksType, Blocks!N
  <1>2. Last("a") <=> Blocks!In(Blocks!N, "a")
    BY DEF Last
  <1>3. CASE Last("a")
    BY <1>2, <1>3 DEF TofInv
  <1>4. CASE ~Last("a") /\ \A m \in 1..Blocks!N : ~Blocks!In(m, "a")
    <2>1. ASSUME NEW n \in 1..Blocks!N PROVE ~Blocks!Falls(n)
      <3>1. n > 1 => n - 1 \in 1..Blocks!N
        BY <1>1
      <3> QED  BY <1>4, <3>1, Zenon DEF Blocks!Falls
    <2>2. ~v2.q /\ ~v3.q
      <3>1. ~\E n \in 1..Blocks!N : OffSince(n)
        BY <2>1 DEF OffSince
      <3> QED  BY <1>4, <3>1, Zenon DEF TofInv
    <2> QED  BY <1>2, <1>4, <2>1, <2>2, Zenon DEF Blocks!OffWithin
  <1>5. ASSUME ~Last("a"), NEW n \in 1..Blocks!N, OffSince(n)
        PROVE  (v2.q <=> Blocks!OffWithin(0)) /\ (v3.q <=> Blocks!OffWithin(1))
    <2>1. ASSUME NEW k \in 1..Blocks!N, Blocks!Falls(k), \A m \in k..Blocks!N : ~Blocks!In(m, "a") PROVE k = n
      <3>1. Blocks!Falls(n) /\ \A m \in n..Blocks!N : ~Blocks!In(m, "a")
        BY <1>5 DEF OffSince
      <3>2. ~(n < k)
        <4>1. n < k => k - 1 \in n..Blocks!N
          BY <1>1
        <4> QED  BY <2>1, <3>1, <4>1 DEF Blocks!Falls
      <3>3. ~(k < n)
        <4>1. k < n => n - 1 \in k..Blocks!N
          BY <1>1
        <4> QED  BY <2>1, <3>1, <4>1 DEF Blocks!Falls
      <3> QED  BY <3>2, <3>3
    <2>2. n - 0 = n
      OBVIOUS
    <2>3. /\ (v2.q <=> Blocks!T(Blocks!N) - Blocks!T(n - 0) < PT) /\ (v3.q <=> Blocks!T(Blocks!N) - Blocks!T(n - 1) < PT)
          /\ Blocks!Falls(n) /\ \A m \in n..Blocks!N : ~Blocks!In(m, "a")
      BY <1>5, <2>2 DEF OffSince
    <2> QED  BY <2>1, <2>3, Zenon DEF Blocks!OffWithin
  <1> QED  BY <1>2, <1>3, <1>4, <1>5 DEF TofInv

-----------------------------------------------------------------------------
\* TP: the recursion that says which pulse runs after each call.
PulseNext(p, n, late) ==
    LET s == IF p # 0 THEN p ELSE IF Blocks!Rises(n, "a") THEN n ELSE 0
    IN IF s # 0 /\ Blocks!T(n) - Blocks!T(s - late) < PT THEN s ELSE 0
PulsesRun(g, late) ==
    g = [n \in 0..Blocks!N |-> IF n = 0 THEN 0 ELSE PulseNext(g[n - 1], n, late)]
TpInv ==
    v1 = "TP" =>
        /\ (v2.m <=> Last("a")) /\ (v3.m <=> Last("a")) /\ (v2.run <=> v2.q) /\ (v3.run <=> v3.q)
        /\ \A late \in {0, 1} : \E g : PulsesRun(g, late)
        /\ \A g : PulsesRun(g, 0) => /\ g[Blocks!N] \in 0..Blocks!N
                                     /\ v2.q <=> g[Blocks!N] # 0
                                     /\ v2.q => v2.start = Blocks!T(g[Blocks!N])
        /\ \A g : PulsesRun(g, 1) => /\ g[Blocks!N] \in 0..Blocks!N
                                     /\ v3.q <=> g[Blocks!N] # 0
                                     /\ v3.q => v3.v = Blocks!T(Blocks!N) - Blocks!T(g[Blocks!N] - 1)

LEMMA PulseNextSame ==
    ASSUME NEW i, NEW d, NEW z, Called(i, d, z), NEW late \in {0, 1}, NEW n \in 1..z, NEW p \in 0..(n - 1)
    PROVE  PulseNext(p, n, late)' = PulseNext(p, n, late)
  <1>1. /\ z \in Nat /\ Blocks!In(n, "a") \in BOOLEAN /\ Blocks!In(n, "a")' = Blocks!In(n, "a")
        /\ n # 1 => n - 1 \in 1..z /\ Blocks!In(n - 1, "a")' = Blocks!In(n - 1, "a")
        /\ \A k \in 0..z : Blocks!T(k)' = Blocks!T(k)
    BY DEF Called
  <1>2. Blocks!Rises(n, "a")' = Blocks!Rises(n, "a")
    BY <1>1 DEF Blocks!Rises
  <1>3. n \in 0..z /\ n - late \in 0..z /\ (p # 0 => p - late \in 0..z)
    BY <1>1
  <1>4. CASE p # 0
    BY <1>1, <1>3, <1>4 DEF PulseNext
  <1>5. CASE p = 0
    BY <1>1, <1>2, <1>3, <1>5 DEF PulseNext
  <1> QED  BY <1>4, <1>5

LEMMA PulseRange ==
    ASSUME NEW i, NEW d, NEW z, Called(i, d, z), NEW late \in {0, 1}, NEW g, PulsesRun(g, late)'
    PROVE  \A n \in 0..(z + 1) : g[n] \in 0..n
  <1>1. z \in Nat /\ Blocks!N' = z + 1
    BY DEF Called
  <1>2. g = [n \in 0..(z + 1) |-> IF n = 0 THEN 0 ELSE PulseNext(g[n - 1], n, late)']
    BY <1>1, Zenon DEF PulsesRun
  <1>3. g[0] = 0 /\ \A n \in 1..(z + 1) : g[n] = PulseNext(g[n - 1], n, late)'
    BY <1>1, <1>2
  <1>4. ASSUME NEW n \in 1..(z + 1), NEW p \in 0..(n - 1) PROVE PulseNext(p, n, late)' \in 0..n
    <2> PICK s : s = IF p # 0 THEN p ELSE IF Blocks!Rises(n, "a")' THEN n ELSE 0
      OBVIOUS
    <2>1. s \in 0..n /\ 0 \in 0..n
      BY <1>1
    <2>2. PulseNext(p, n, late)' = (IF s # 0 /\ Blocks!T(n)' - Blocks!T(s - late)' < PT THEN s ELSE 0)
      BY Zenon DEF PulseNext
    <2> QED  BY <2>1, <2>2, Zenon
  <1> DEFINE Bad == {n \in 0..(z + 1) : g[n] \notin 0..n}
  <1> SUFFICES ASSUME Bad # {} PROVE FALSE
    OBVIOUS
  <1>5. Bad \in SUBSET Nat
    OBVIOUS
  <1>6. PICK n \in Bad : \A k \in Bad : n <= k
    BY <1>5, LeastNumber, Zenon
  <1>7. n \in 1..(z + 1) /\ n - 1 \in 0..(z + 1) /\ ~(n <= n - 1)
    BY <1>1, <1>3, <1>6
  <1>8. g[n - 1] \in 0..(n - 1)
    BY <1>6, <1>7
  <1> QED  BY <1>3, <1>4, <1>6, <1>7, <1>8, Zenon

\* One call more: the recursion goes one step on, whatever function obeys it.
LEMMA PulsesGoOn ==
    ASSUME NEW i, NEW d, NEW z, Called(i, d, z), NEW late \in {0, 1}
    PROVE  /\ \A g : PulsesRun(g, late)' =>
                  \E h : PulsesRun(h, late) /\ h[z] = g[z] /\ g[z] \in 0..z /\ g[z + 1] = PulseNext(g[z], z + 1, late)'
           /\ (\E h : PulsesRun(h, late) /\ h[z] \in 0..z) => \E g : PulsesRun(g, late)'
  <1>1. z \in Nat /\ Blocks!N = z /\ Blocks!N' = z + 1
    BY DEF Called
  <1>2. ASSUME NEW g, PulsesRun(g, late)'
        PROVE  \E h : PulsesRun(h, late) /\ h[z] = g[z] /\ g[z] \in 0..z /\ g[z + 1] = PulseNext(g[z], z + 1, late)'
    <2> DEFINE h == [n \in 0..z |-> g[n]]
    <2>1. g = [n \in 0..(z + 1) |-> IF n = 0 THEN 0 ELSE PulseNext(g[n - 1], n, late)']
      BY <1>1, <1>2, Zenon DEF PulsesRun
    <2>2. g[0] = 0 /\ \A n \in 1..(z + 1) : g[n] = PulseNext(g[n - 1], n, late)'
      BY <1>1, <2>1
    <2>3. \A n \in 0..(z + 1) : g[n] \in 0..n
      BY <1>2, PulseRange, Zenon
    <2>4. ASSUME NEW n \in 0..z PROVE h[n] = IF n = 0 THEN 0 ELSE PulseNext(h[n - 1], n, late)
      <3>1. CASE n = 0
        BY <1>1, <2>2, <3>1
      <3>2. CASE n # 0
        <4>1. n \in 1..z /\ n \in 1..(z + 1) /\ n - 1 \in 0..(z + 1) /\ n - 1 \in 0..z
          BY <1>1, <3>2
        <4>2. h[n] = g[n] /\ h[n - 1] = g[n - 1] /\ g[n - 1] \in 0..(n - 1)
          BY <2>3, <4>1
        <4> PICK p \in 0..(n - 1) : p = g[n - 1]
          BY <4>2
        <4>4. PulseNext(p, n, late)' = PulseNext(p, n, late)
          BY <4>1, PulseNextSame
        <4>3. PulseNext(g[n - 1], n, late)' = PulseNext(g[n - 1], n, late)
          BY <4>4, Zenon
        <4> HIDE DEF h
        <4> QED  BY <2>2, <3>2, <4>1, <4>2, <4>3
      <3> QED  BY <3>1, <3>2
    <2>5. h = [n \in 0..z |-> h[n]] /\ h[z] = g[z] /\ g[z] \in 0..z /\ z + 1 \in 1..(z + 1) /\ z + 1 - 1 = z
      BY <1>1, <2>3
    <2> HIDE DEF h
    <2>6. h = [n \in 0..z |-> IF n = 0 THEN 0 ELSE PulseNext(h[n - 1], n, late)]
      BY <2>4, <2>5
    <2>7. PulsesRun(h, late)
      BY <1>1, <2>6, Zenon DEF PulsesRun
    <2>8. g[z + 1] = PulseNext(g[z], z + 1, late)'
      <3> PICK k \in 1..(z + 1) : k = z + 1
        BY <2>5
      <3>1. g[k] = PulseNext(g[k - 1], k, late)'
        BY <2>2, Zenon
      <3>2. k - 1 = z
        BY <1>1
      <3>3. g[k] = PulseNext(g[z], k, late)'
        BY <3>1, <3>2, Zenon
      <3> QED  BY <3>3, Zenon
    <2> QED  BY <2>5, <2>7, <2>8
  <1>3. ASSUME NEW h, PulsesRun(h, late), h[z] \in 0..z PROVE \E g : PulsesRun(g, late)'
    <2> PICK e : e = PulseNext(h[z], z + 1, late)'
      OBVIOUS
    <2> DEFINE g == [n \in 0..(z + 1) |-> IF n = z + 1 THEN e ELSE h[n]]
    <2>1. h = [n \in 0..z |-> IF n = 0 THEN 0 ELSE PulseNext(h[n - 1], n, late)]
      BY <1>1, <1>3, Zenon DEF PulsesRun
    <2>2. h[0] = 0 /\ \A n \in 1..z : h[n] = PulseNext(h[n - 1], n, late)
      BY <1>1, <2>1
    <2>3. g[z + 1] = e /\ \A n \in 0..z : g[n] = h[n]
      BY <1>1
    <2> HIDE DEF g
    <2>4. \A n \in 0..z : h[n] \in 0..n
      <3> DEFINE Bad == {n \in 0..z : h[n] \notin 0..n}
      <3> SUFFICES ASSUME Bad # {} PROVE FALSE
        OBVIOUS
      <3>1. Bad \in SUBSET Nat
        OBVIOUS
      <3>2. PICK n \in Bad : \A k \in Bad : n <= k
        BY <3>1, LeastNumber, Zenon
      <3>3. n \in 1..z /\ n - 1 \in 0..z /\ ~(n <= n - 1)
        BY <1>1, <2>2, <3>2
      <3>4. h[n - 1] \in 0..(n - 1)
        BY <3>2, <3>3
      <3> PICK p \in 0..(n - 1) : p = h[n - 1]
        BY <3>4
      <3>5. h[n] = PulseNext(p, n, late)
        BY <2>2, <3>3
      <3> PICK s : s = IF p # 0 THEN p ELSE IF Blocks!Rises(n, "a") THEN n ELSE 0
        OBVIOUS
      <3>6. s \in 0..n /\ 0 \in 0..n
        BY <1>1, <3>3
      <3>7. PulseNext(p, n, late) = (IF s # 0 /\ Blocks!T(n) - Blocks!T(s - late) < PT THEN s ELSE 0)
        BY Zenon DEF PulseNext
      <3> QED  BY <3>2, <3>5, <3>6, <3>7, Zenon
    <2>5. ASSUME NEW n \in 0..(z + 1) PROVE g[n] = IF n = 0 THEN 0 ELSE PulseNext(g[n - 1], n, late)'
      <3>1. CASE n = 0
        BY <1>1, <2>2, <2>3, <3>1
      <3>2. CASE n \in 1..z
        <4>1. n # 0 /\ n \in 0..z /\ n - 1 \in 0..z /\ g[n] = h[n] /\ g[n - 1] = h[n - 1] /\ h[n - 1] \in 0..(n - 1)
          BY <1>1, <2>3, <2>4, <3>2
        <4>2. PulseNext(g[n - 1], n, late)' = PulseNext(g[n - 1], n, late)
          <5> PICK p : p = g[n - 1]
            OBVIOUS
          <5>1. p \in 0..(n - 1)
            BY <4>1
          <5>2. PulseNext(p, n, late)' = PulseNext(p, n, late)
            BY <3>2, <5>1, PulseNextSame, Zenon
          <5>3. g' = g
            OBVIOUS
          <5> QED  BY <5>2, Zenon
        <4> QED  BY <2>2, <3>2, <4>1, <4>2
      <3>3. CASE n = z + 1
        <4>1. n # 0 /\ z \in 0..z /\ n - 1 = z /\ g[n - 1] = h[z]
          BY <1>1, <2>3, <3>3
        <4> QED  BY <2>3, <3>3, <4>1
      <3> QED  BY <1>1, <3>1, <3>2, <3>3
    <2>6. g = [n \in 0..(z + 1) |-> g[n]]
      BY DEF g
    <2>7. g = [n \in 0..(z + 1) |-> IF n = 0 THEN 0 ELSE PulseNext(g[n - 1], n, late)']
      BY <2>5, <2>6
    <2> QED  BY <1>1, <2>7 DEF PulsesRun
  <1> QED  BY <1>2, <1>3, Zenon

LEMMA TpStep ==
    ASSUME Blocks!BlocksAssumption, NEW i, NEW d, NEW z, Called(i, d, z), v1 = "TP",
           v2 \in BlockState, v3 \in BlockState, TpInv
    PROVE  TpInv'
  <1> DEFINE s == Blocks!StCall("TP", v2, i, Blocks!T(z) + d)
             r == Blocks!RtCall("TP", v3, i, d)
  <1>1. /\ z \in Nat /\ Blocks!N = z /\ Blocks!N' = z + 1 /\ Bits4(i) /\ d \in Nat
        /\ v1' = v1 /\ v2' = s /\ v3' = r
        /\ \A n \in 0..z : Blocks!T(n) \in Nat /\ Blocks!T(n)' = Blocks!T(n)
        /\ Blocks!T(z + 1)' = Blocks!T(z) + d
    BY DEF Called
  <1>2. Presets /\ PT \in Int /\ Blocks!T(z) + d \in Int /\ Blocks!T(z) \in Nat /\ v3.v \in Int /\ v2.start \in Int
    BY <1>1 DEF Blocks!BlocksAssumption, Presets, BlockState
  <1> PICK now \in Int : now = Blocks!T(z) + d
    BY <1>2
  <1> PICK from \in Int : from = IF i.a /\ ~v2.m /\ ~v2.run THEN now ELSE v2.start
    BY DEF BlockState
  <1> PICK past \in Int : past = (IF i.a /\ ~v3.m /\ ~v3.run THEN 0 ELSE v3.v) + d
    BY <1>1 DEF BlockState
  <1>3. /\ s \in BlockState /\ r \in BlockState /\ (s.m <=> i.a) /\ (r.m <=> i.a)
        /\ v2.run \/ (i.a /\ ~v2.m) => s.start = from /\ (s.q <=> now - from < PT) /\ (s.run <=> s.q)
        /\ ~v2.run /\ ~(i.a /\ ~v2.m) => ~s.q /\ ~s.run
        /\ v3.run \/ (i.a /\ ~v3.m) => r.v = past /\ (r.q <=> past < PT) /\ (r.run <=> r.q)
        /\ ~v3.run /\ ~(i.a /\ ~v3.m) => (r.q <=> v3.q) /\ ~r.run
    <2>1. d \in Int /\ Presets /\ Bits4(i)
      BY <1>1, <1>2
    <2>2. TpSays(v2, v3, i, now, d, s, r)
      BY <2>1, TpFields, Zenon
    <2> HIDE DEF s, r
    <2> QED  BY <2>2 DEF TpSays
  <1> HIDE DEF s, r
  <1>4. /\ (v2.m <=> Last("a")) /\ (v3.m <=> Last("a")) /\ (v2.run <=> v2.q) /\ (v3.run <=> v3.q)
        /\ Last("a")' = i.a
        /\ Blocks!Rises(z + 1, "a")' <=> i.a /\ ~Last("a")
    BY <1>1, LastStep DEF TpInv
  <1>5. ASSUME NEW p \in 0..z
        PROVE  PulseNext(p, z + 1, 0)' =
                   (IF p # 0 THEN (IF now - Blocks!T(p) < PT THEN p ELSE 0)
                    ELSE IF i.a /\ ~Last("a") /\ now - now < PT THEN z + 1 ELSE 0)
    <2>1. /\ p - 0 = p /\ z + 1 # 0 /\ Blocks!T(p)' = Blocks!T(p) /\ Blocks!T(z + 1)' = now
          /\ Blocks!T(z + 1 - 0)' = now
      BY <1>1
    <2>2. CASE p # 0
      BY <2>1, <2>2 DEF PulseNext
    <2> PICK s0 : s0 = IF p # 0 THEN p ELSE IF Blocks!Rises(z + 1, "a")' THEN z + 1 ELSE 0
      OBVIOUS
    <2>5. PulseNext(p, z + 1, 0)' = IF s0 # 0 /\ Blocks!T(z + 1)' - Blocks!T(s0 - 0)' < PT THEN s0 ELSE 0
      BY Zenon DEF PulseNext
    <2>3. CASE p = 0 /\ i.a /\ ~Last("a")
      <3>1. s0 = z + 1
        BY <1>4, <2>3
      <3>2. Blocks!T(s0 - 0)' = now
        BY <1>1, <3>1
      <3> QED  BY <2>1, <2>3, <2>5, <3>1, <3>2, Zenon
    <2>4. CASE p = 0 /\ ~(i.a /\ ~Last("a"))
      <3>1. s0 = 0
        BY <1>4, <2>4
      <3> QED  BY <2>4, <2>5, <3>1, Zenon
    <2> QED  BY <2>2, <2>3, <2>4
  <1>6. ASSUME NEW p \in 0..z
        PROVE  PulseNext(p, z + 1, 1)' =
                   (IF p # 0 THEN (IF now - Blocks!T(p - 1) < PT THEN p ELSE 0)
                    ELSE IF i.a /\ ~Last("a") /\ now - Blocks!T(z) < PT THEN z + 1 ELSE 0)
    <2>1. /\ z + 1 # 0 /\ Blocks!T(z)' = Blocks!T(z) /\ Blocks!T(z + 1)' = now
          /\ Blocks!T(z + 1 - 1)' = Blocks!T(z)
      BY <1>1
    <2>2. CASE p # 0
      <3>1. Blocks!T(p - 1)' = Blocks!T(p - 1)
        <4>1. p - 1 \in 0..z
          BY <1>1, <2>2
        <4> QED  BY <1>1, <4>1
      <3> QED  BY <2>1, <2>2, <3>1 DEF PulseNext
    <2> PICK s0 : s0 = IF p # 0 THEN p ELSE IF Blocks!Rises(z + 1, "a")' THEN z + 1 ELSE 0
      OBVIOUS
    <2>5. PulseNext(p, z + 1, 1)' = IF s0 # 0 /\ Blocks!T(z + 1)' - Blocks!T(s0 - 1)' < PT THEN s0 ELSE 0
      BY Zenon DEF PulseNext
    <2>3. CASE p = 0 /\ i.a /\ ~Last("a")
      <3>1. s0 = z + 1
        BY <1>4, <2>3
      <3>2. Blocks!T(s0 - 1)' = Blocks!T(z)
        BY <1>1, <3>1
      <3> QED  BY <2>1, <2>3, <2>5, <3>1, <3>2, Zenon
    <2>4. CASE p = 0 /\ ~(i.a /\ ~Last("a"))
      <3>1. s0 = 0
        BY <1>4, <2>4
      <3> QED  BY <2>4, <2>5, <3>1, Zenon
    <2> QED  BY <2>2, <2>3, <2>4
  <1>7. ASSUME NEW g, PulsesRun(g, 0)'
        PROVE  g[z + 1] \in 0..(z + 1) /\ (s.q <=> g[z + 1] # 0) /\ (s.q => s.start = Blocks!T(g[z + 1])')
    <2>1. PICK h : PulsesRun(h, 0) /\ h[z] = g[z] /\ g[z] \in 0..z /\ g[z + 1] = PulseNext(g[z], z + 1, 0)'
      BY <1>7, PulsesGoOn
    <2> PICK p \in 0..z : p = h[z]
      BY <2>1
    <2> PICK e : e = g[z + 1]
      OBVIOUS
    <2>2. (v2.q <=> p # 0) /\ (v2.q => v2.start = Blocks!T(p))
      BY <1>1, <2>1, Zenon DEF TpInv
    <2>3. e = (IF p # 0 THEN (IF now - Blocks!T(p) < PT THEN p ELSE 0)
               ELSE IF i.a /\ ~Last("a") /\ now - now < PT THEN z + 1 ELSE 0)
      BY <1>5, <2>1, Zenon
    <2>4. e \in 0..(z + 1) /\ (s.q <=> e # 0) /\ (s.q => s.start = Blocks!T(e)')
      <3>1. CASE p # 0
        <4>1. from = Blocks!T(p) /\ Blocks!T(p)' = Blocks!T(p) /\ p \in 0..(z + 1)
          BY <1>1, <1>4, <2>2, <3>1
        <4>2. s.start = from /\ (s.q <=> now - from < PT)
          BY <1>3, <1>4, <2>2, <3>1, Zenon
        <4>3. e = IF now - from < PT THEN p ELSE 0
          BY <2>3, <3>1, <4>1, Zenon
        <4>4. 0 \in 0..(z + 1)
          BY <1>1
        <4> QED  BY <3>1, <4>1, <4>2, <4>3, <4>4, Zenon
      <3>2. CASE p = 0 /\ i.a /\ ~Last("a")
        <4>1. from = now /\ Blocks!T(z + 1)' = now /\ z + 1 \in 0..(z + 1) /\ z + 1 # 0
          BY <1>1, <1>4, <2>2, <3>2
        <4>2. s.start = from /\ (s.q <=> now - from < PT)
          BY <1>3, <1>4, <2>2, <3>2, Zenon
        <4>3. e = IF now - from < PT THEN z + 1 ELSE 0
          BY <2>3, <3>2, <4>1, Zenon
        <4>4. 0 \in 0..(z + 1)
          BY <1>1
        <4> QED  BY <4>1, <4>2, <4>3, <4>4, Zenon
      <3>3. CASE p = 0 /\ ~(i.a /\ ~Last("a"))
        <4>1. ~s.q /\ e = 0
          BY <1>3, <1>4, <2>2, <2>3, <3>3, Zenon
        <4>2. 0 \in 0..(z + 1)
          BY <1>1
        <4> QED  BY <4>1, <4>2, Zenon
      <3> QED  BY <3>1, <3>2, <3>3
    <2> QED  BY <2>4, Zenon
  <1>8. ASSUME NEW g, PulsesRun(g, 1)'
        PROVE  g[z + 1] \in 0..(z + 1) /\ (r.q <=> g[z + 1] # 0) /\ (r.q => r.v = Blocks!T(z + 1)' - Blocks!T(g[z + 1] - 1)')
    <2>1. PICK h : PulsesRun(h, 1) /\ h[z] = g[z] /\ g[z] \in 0..z /\ g[z + 1] = PulseNext(g[z], z + 1, 1)'
      BY <1>8, PulsesGoOn
    <2> PICK p \in 0..z : p = h[z]
      BY <2>1
    <2> PICK e : e = g[z + 1]
      OBVIOUS
    <2>2. (v3.q <=> p # 0) /\ (v3.q => v3.v = Blocks!T(z) - Blocks!T(p - 1))
      BY <1>1, <2>1, Zenon DEF TpInv
    <2>3. e = (IF p # 0 THEN (IF now - Blocks!T(p - 1) < PT THEN p ELSE 0)
               ELSE IF i.a /\ ~Last("a") /\ now - Blocks!T(z) < PT THEN z + 1 ELSE 0)
      BY <1>6, <2>1, Zenon
    <2>5. 0 \in 0..(z + 1) /\ Blocks!T(z + 1)' = now
      BY <1>1
    <2>4. e \in 0..(z + 1) /\ (r.q <=> e # 0) /\ (r.q => r.v = Blocks!T(z + 1)' - Blocks!T(e - 1)')
      <3>1. CASE p # 0
        <4>1. p - 1 \in 0..z /\ p \in 0..(z + 1)
          BY <1>1, <3>1
        <4>2. past = now - Blocks!T(p - 1) /\ Blocks!T(p - 1)' = Blocks!T(p - 1)
          BY <1>1, <1>4, <2>2, <3>1, <4>1
        <4>3. r.v = past /\ (r.q <=> past < PT)
          BY <1>3, <1>4, <2>2, <3>1, Zenon
        <4>4. e = IF past < PT THEN p ELSE 0
          BY <2>3, <3>1, <4>2, Zenon
        <4> QED  BY <2>5, <3>1, <4>1, <4>2, <4>3, <4>4, Zenon
      <3>2. CASE p = 0 /\ i.a /\ ~Last("a")
        <4>1. past = now - Blocks!T(z) /\ Blocks!T(z + 1 - 1)' = Blocks!T(z) /\ z + 1 \in 0..(z + 1) /\ z + 1 # 0
          BY <1>1, <1>4, <2>2, <3>2
        <4>2. r.v = past /\ (r.q <=> past < PT)
          BY <1>3, <1>4, <2>2, <3>2, Zenon
        <4>3. e = IF past < PT THEN z + 1 ELSE 0
          BY <2>3, <3>2, <4>1, Zenon
        <4>4. CASE past < PT
          <5>3. e = z + 1
            BY <4>3, <4>4, Zenon
          <5>1. e = z + 1 /\ Blocks!T(e - 1)' = Blocks!T(z)
            BY <1>1, <5>3
          <5>2. past = Blocks!T(z + 1)' - Blocks!T(e - 1)'
            BY <2>5, <4>1, <5>1, Zenon
          <5> QED  BY <4>1, <4>2, <4>4, <5>1, <5>2, Zenon
        <4>5. CASE ~(past < PT)
          BY <2>5, <4>2, <4>3, <4>5, Zenon
        <4> QED  BY <4>4, <4>5
      <3>3. CASE p = 0 /\ ~(i.a /\ ~Last("a"))
        <4>1. ~r.q /\ e = 0
          BY <1>3, <1>4, <2>2, <2>3, <3>3, Zenon
        <4> QED  BY <2>5, <4>1, Zenon
      <3> QED  BY <3>1, <3>2, <3>3
    <2> QED  BY <2>4, Zenon
  <1>9. \A late \in {0, 1} : \E g : PulsesRun(g, late)'
    <2>1. ASSUME NEW late \in {0, 1} PROVE \E g : PulsesRun(g, late)'
      <3>1. PICK h : PulsesRun(h, late)
        BY Zenon DEF TpInv
      <3>2. late = 0 \/ late = 1
        OBVIOUS
      <3>3. h[z] \in 0..z
        BY <1>1, <3>1, <3>2, Zenon DEF TpInv
      <3> QED  BY <3>1, <3>3, PulsesGoOn
    <2> QED  BY <2>1
  <1>10. (s.run <=> s.q) /\ (r.run <=> r.q)
    BY <1>3, <1>4
  <1> QED  BY <1>1, <1>3, <1>4, <1>7, <1>8, <1>9, <1>10, Zenon DEF TpInv

LEMMA TpAnswers ==
    ASSUME v1 = "TP", TpInv
    PROVE  (v2.q <=> Blocks!Pulses(0) # 0) /\ (v3.q <=> Blocks!Pulses(1) # 0)
  <1>1. ASSUME NEW late \in {0, 1} PROVE \E g : PulsesRun(g, late) /\ Blocks!Pulses(late) = g[Blocks!N]
    <2> DEFINE g == CHOOSE g : g = [n \in 0..Blocks!N |-> IF n = 0 THEN 0 ELSE PulseNext(g[n - 1], n, late)]
    <2>1. \E h : h = [n \in 0..Blocks!N |-> IF n = 0 THEN 0 ELSE PulseNext(h[n - 1], n, late)]
      BY Zenon DEF TpInv, PulsesRun
    <2>2. g = [n \in 0..Blocks!N |-> IF n = 0 THEN 0 ELSE PulseNext(g[n - 1], n, late)]
      BY <2>1, Zenon
    <2>3. PulsesRun(g, late)
      BY <2>2, Zenon DEF PulsesRun
    <2>4. Blocks!Pulses(late) = g[Blocks!N]
      BY Zenon DEF Blocks!Pulses, PulseNext
    <2> HIDE DEF g
    <2> QED  BY <2>3, <2>4, Zenon
  <1> QED  BY <1>1, Zenon DEF TpInv

-----------------------------------------------------------------------------
\* RTO: the recursion that adds up the time IN was held.
Held == {n \in (Blocks!LastOf("b") + 2)..Blocks!N : Blocks!In(n, "a") /\ Blocks!In(n - 1, "a")}
HeldAt(n) == IF n \in Held THEN Blocks!T(n) - Blocks!T(n - 1) ELSE 0
SumsUp(g) == g = [n \in 0..Blocks!N |-> IF n = 0 THEN 0 ELSE g[n - 1] + HeldAt(n)]
RtoInv ==
    v1 = "RTO" =>
        /\ Latest("b")
        /\ v2.run <=> Last("a") /\ ~Last("b")
        /\ v2.run => v2.start = Blocks!T(Blocks!N)
        /\ \E g : SumsUp(g)
        /\ \A g : SumsUp(g) => /\ g[Blocks!N] \in Int
                               /\ g[Blocks!N] >= PT => v2.v >= PT
                               /\ g[Blocks!N] < PT => v2.v = g[Blocks!N]
        /\ Blocks!N > 0 => (v2.q <=> v2.v >= PT /\ ~Blocks!In(Blocks!N, "b"))

LEMMA HeldStep ==
    ASSUME NEW i, NEW d, NEW z, Called(i, d, z), Latest("b"), v2.run <=> Last("a") /\ ~Last("b")
    PROVE  /\ i.b => \A n \in 1..(z + 1) : HeldAt(n)' = 0
           /\ ~i.b => /\ \A n \in 1..z : HeldAt(n)' = HeldAt(n)
                      /\ HeldAt(z + 1)' = IF i.a /\ v2.run THEN d ELSE 0
  <1>1. /\ z \in Nat /\ Blocks!N = z /\ Blocks!N' = z + 1 /\ Bits4(i) /\ d \in Nat
        /\ \A n \in 0..z : Blocks!T(n) \in Nat /\ Blocks!T(n)' = Blocks!T(n)
        /\ Blocks!T(z + 1)' = Blocks!T(z) + d
        /\ \A n \in 1..z : Blocks!In(n, "a") \in BOOLEAN /\ Blocks!In(n, "a")' = Blocks!In(n, "a")
        /\ Blocks!In(z + 1, "a")' = i.a /\ Blocks!In(z + 1, "b")' = i.b
    BY DEF Called
  <1> PICK l : l = Blocks!LastOf("b")
    OBVIOUS
  <1>2. /\ l \in 0..z /\ Blocks!LastOf("b")' = (IF i.b THEN z + 1 ELSE l)
        /\ l # 0 => Blocks!In(l, "b")
        /\ \A m \in (l + 1)..z : ~Blocks!In(m, "b")
    BY <1>1, LastOfStep DEF Latest
  <1>3. Last("b") <=> l = z /\ z # 0
    <2>1. CASE l = z
      BY <1>1, <1>2, <2>1 DEF Last
    <2>2. CASE l # z
      <3>1. z \in (l + 1)..z
        BY <1>1, <1>2, <2>2
      <3> QED  BY <1>1, <1>2, <2>2, <3>1 DEF Last
    <2> QED  BY <2>1, <2>2
  <1>4. Last("a") <=> z > 0 /\ Blocks!In(z, "a")
    BY <1>1 DEF Last
  <1>5. ASSUME i.b, NEW n \in 1..(z + 1) PROVE HeldAt(n)' = 0
    <2>1. n \notin Held'
      <3>1. \A m \in (z + 1 + 2)..(z + 1) : FALSE
        BY <1>1
      <3>2. Held' = {m \in (z + 1 + 2)..(z + 1) : Blocks!In(m, "a")' /\ Blocks!In(m - 1, "a")'}
        BY <1>1, <1>2, <1>5, Zenon DEF Held
      <3> QED  BY <3>1, <3>2, Zenon
    <2> QED  BY <2>1, Zenon DEF HeldAt
  <1>6. ASSUME ~i.b PROVE Held' = {n \in (l + 2)..(z + 1) : Blocks!In(n, "a")' /\ Blocks!In(n - 1, "a")'}
    BY <1>1, <1>2, <1>6, Zenon DEF Held
  <1>7. ASSUME ~i.b, NEW n \in 1..z PROVE HeldAt(n)' = HeldAt(n)
    <2>1. n \in Held' <=> n \in (l + 2)..(z + 1) /\ Blocks!In(n, "a")' /\ Blocks!In(n - 1, "a")'
      BY <1>6, <1>7
    <2>2. n \in Held <=> n \in (l + 2)..z /\ Blocks!In(n, "a") /\ Blocks!In(n - 1, "a")
      BY <1>1 DEF Held
    <2>3. /\ n \in (l + 2)..(z + 1) <=> n \in (l + 2)..z
          /\ n \in (l + 2)..z => n - 1 \in 1..z
      BY <1>1, <1>2
    <2>4. n \in Held' <=> n \in Held
      BY <1>1, <2>1, <2>2, <2>3
    <2>5. n \in 0..z /\ n - 1 \in 0..z
      BY <1>1
    <2>6. Blocks!T(n)' = Blocks!T(n) /\ Blocks!T(n - 1)' = Blocks!T(n - 1)
      BY <1>1, <2>5
    <2> QED  BY <2>4, <2>6, Zenon DEF HeldAt
  <1>8. ASSUME ~i.b PROVE HeldAt(z + 1)' = IF i.a /\ v2.run THEN d ELSE 0
    <2> PICK k : k = z + 1
      OBVIOUS
    <2>1. k \in Held' <=> k \in (l + 2)..(z + 1) /\ Blocks!In(k, "a")' /\ Blocks!In(k - 1, "a")'
      BY <1>6, <1>8
    <2>2. k \in (l + 2)..(z + 1) <=> l # z
      BY <1>1, <1>2
    <2>3. Blocks!In(k, "a")' = i.a /\ (z # 0 => Blocks!In(k - 1, "a")' = Blocks!In(z, "a"))
      <3>1. k - 1 = z /\ (z # 0 => z \in 1..z)
        BY <1>1
      <3> QED  BY <1>1, <3>1, Zenon
    <2>4. k \in Held' <=> i.a /\ v2.run
      BY <1>1, <1>2, <1>3, <1>4, <2>1, <2>2, <2>3
    <2>5. Blocks!T(k)' - Blocks!T(k - 1)' = d
      <3>1. k - 1 = z /\ z \in 0..z
        BY <1>1
      <3>2. Blocks!T(k - 1)' = Blocks!T(z) /\ Blocks!T(k)' = Blocks!T(z) + d /\ Blocks!T(z) \in Nat
        BY <1>1, <3>1, Zenon
      <3> QED  BY <1>1, <3>2
    <2>6. HeldAt(k)' = IF i.a /\ v2.run THEN d ELSE 0
      BY <2>4, <2>5, Zenon DEF HeldAt
    <2> QED  BY <2>6, Zenon
  <1> QED  BY <1>5, <1>7, <1>8

LEMMA SumsGoOn ==
    ASSUME NEW i, NEW d, NEW z, Called(i, d, z), Latest("b"), v2.run <=> Last("a") /\ ~Last("b")
    PROVE  /\ i.b => (\E g : SumsUp(g)') /\ (\A g : SumsUp(g)' => g[z + 1] = 0)
           /\ ~i.b => /\ \A g : SumsUp(g)' =>
                            \E h : SumsUp(h) /\ h[z] = g[z] /\ g[z + 1] = g[z] + (IF i.a /\ v2.run THEN d ELSE 0)
                      /\ (\E h : SumsUp(h)) => \E g : SumsUp(g)'
  <1>1. z \in Nat /\ Blocks!N = z /\ Blocks!N' = z + 1
    BY DEF Called
  <1>2. \A g : SumsUp(g)' <=> g = [n \in 0..(z + 1) |-> IF n = 0 THEN 0 ELSE g[n - 1] + HeldAt(n)']
    BY <1>1, Zenon DEF SumsUp
  <1>3. \A h : SumsUp(h) <=> h = [n \in 0..z |-> IF n = 0 THEN 0 ELSE h[n - 1] + HeldAt(n)]
    BY <1>1, Zenon DEF SumsUp
  <1>4. ASSUME NEW g, SumsUp(g)'
        PROVE  g[0] = 0 /\ \A n \in 1..(z + 1) : g[n] = g[n - 1] + HeldAt(n)'
    <2>1. g = [n \in 0..(z + 1) |-> IF n = 0 THEN 0 ELSE g[n - 1] + HeldAt(n)']
      BY <1>2, <1>4, Zenon
    <2> QED  BY <1>1, <2>1
  <1>5. ASSUME i.b PROVE \E g : SumsUp(g)'
    <2> DEFINE g == [n \in 0..(z + 1) |-> 0]
    <2>1. ASSUME NEW n \in 0..(z + 1) PROVE g[n] = IF n = 0 THEN 0 ELSE g[n - 1] + HeldAt(n)'
      <3>1. CASE n = 0
        BY <3>1
      <3>2. CASE n # 0
        <4>1. n \in 1..(z + 1) /\ n - 1 \in 0..(z + 1)
          BY <1>1, <3>2
        <4>2. HeldAt(n)' = 0
          BY <1>5, <4>1, HeldStep
        <4>3. g[n - 1] = 0 /\ g[n] = 0
          BY <4>1
        <4> QED  BY <3>2, <4>2, <4>3
      <3> QED  BY <3>1, <3>2
    <2>2. g = [n \in 0..(z + 1) |-> g[n]]
      OBVIOUS
    <2> HIDE DEF g
    <2>3. g = [n \in 0..(z + 1) |-> IF n = 0 THEN 0 ELSE g[n - 1] + HeldAt(n)']
      BY <2>1, <2>2
    <2> QED  BY <1>2, <2>3, Zenon
  <1>6. ASSUME i.b, NEW g, SumsUp(g)' PROVE g[z + 1] = 0
    <2>1. g[0] = 0 /\ \A n \in 1..(z + 1) : g[n] = g[n - 1] + 0
      BY <1>4, <1>6, HeldStep
    <2> DEFINE Bad == {n \in 0..(z + 1) : g[n] # 0}
    <2> SUFFICES ASSUME Bad # {} PROVE FALSE
      BY <1>1
    <2>2. Bad \in SUBSET Nat
      OBVIOUS
    <2>3. PICK n \in Bad : \A k \in Bad : n <= k
      BY <2>2, LeastNumber, Zenon
    <2>4. n \in 1..(z + 1) /\ n - 1 \in 0..(z + 1) /\ ~(n <= n - 1)
      BY <1>1, <2>1, <2>3
    <2>5. g[n - 1] = 0
      BY <2>3, <2>4
    <2> QED  BY <2>1, <2>3, <2>4, <2>5
  <1>7. ASSUME ~i.b, NEW g, SumsUp(g)'
        PROVE  \E h : SumsUp(h) /\ h[z] = g[z] /\ g[z + 1] = g[z] + (IF i.a /\ v2.run THEN d ELSE 0)
    <2> DEFINE h == [n \in 0..z |-> g[n]]
    <2>1. ASSUME NEW n \in 0..z PROVE h[n] = IF n = 0 THEN 0 ELSE h[n - 1] + HeldAt(n)
      <3>1. CASE n = 0
        BY <1>1, <1>4, <1>7, <3>1
      <3>2. CASE n # 0
        <4>1. n \in 1..z /\ n \in 1..(z + 1) /\ n - 1 \in 0..z
          BY <1>1, <3>2
        <4>2. HeldAt(n)' = HeldAt(n)
          BY <1>7, <4>1, HeldStep
        <4>3. g[n] = g[n - 1] + HeldAt(n)' /\ h[n] = g[n] /\ h[n - 1] = g[n - 1]
          BY <1>4, <1>7, <4>1
        <4> HIDE DEF h
        <4> QED  BY <3>2, <4>2, <4>3, Zenon
      <3> QED  BY <3>1, <3>2
    <2>2. h = [n \in 0..z |-> h[n]] /\ h[z] = g[z] /\ z + 1 \in 1..(z + 1)
      BY <1>1
    <2> HIDE DEF h
    <2>3. h = [n \in 0..z |-> IF n = 0 THEN 0 ELSE h[n - 1] + HeldAt(n)]
      BY <2>1, <2>2
    <2>4. SumsUp(h)
      BY <1>3, <2>3, Zenon
    <2>5. g[z + 1] = g[z] + (IF i.a /\ v2.run THEN d ELSE 0)
      <3> PICK k \in 1..(z + 1) : k = z + 1
        BY <2>2
      <3>1. g[k] = g[k - 1] + HeldAt(k)'
        BY <1>4, <1>7, Zenon
      <3>2. k - 1 = z
        BY <1>1
      <3>3. HeldAt(k)' = IF i.a /\ v2.run THEN d ELSE 0
        BY <1>7, HeldStep, Zenon
      <3> QED  BY <3>1, <3>2, <3>3, Zenon
    <2> QED  BY <2>2, <2>4, <2>5
  <1>8. ASSUME ~i.b, NEW h, SumsUp(h) PROVE \E g : SumsUp(g)'
    <2> PICK e : e = h[z] + HeldAt(z + 1)'
      OBVIOUS
    <2> DEFINE g == [n \in 0..(z + 1) |-> IF n = z + 1 THEN e ELSE h[n]]
    <2>1. h = [n \in 0..z |-> IF n = 0 THEN 0 ELSE h[n - 1] + HeldAt(n)]
      BY <1>3, <1>8, Zenon
    <2>2. h[0] = 0 /\ \A n \in 1..z : h[n] = h[n - 1] + HeldAt(n)
      BY <1>1, <2>1
    <2>3. g[z + 1] = e /\ \A n \in 0..z : g[n] = h[n]
      BY <1>1
    <2>4. g = [n \in 0..(z + 1) |-> g[n]]
      OBVIOUS
    <2> HIDE DEF g
    <2>5. ASSUME NEW n \in 0..(z + 1) PROVE g[n] = IF n = 0 THEN 0 ELSE g[n - 1] + HeldAt(n)'
      <3>1. CASE n = 0
        BY <1>1, <2>2, <2>3, <3>1
      <3>2. CASE n \in 1..z
        <4>1. n # 0 /\ n \in 0..z /\ n - 1 \in 0..z
          BY <1>1, <3>2
        <4>2. g[n] = h[n] /\ g[n - 1] = h[n - 1] /\ h[n] = h[n - 1] + HeldAt(n)
          BY <2>2, <2>3, <3>2, <4>1
        <4>3. HeldAt(n)' = HeldAt(n)
          BY <1>8, <3>2, HeldStep
        <4> QED  BY <4>1, <4>2, <4>3, Zenon
      <3>3. CASE n = z + 1
        <4>1. n # 0 /\ z \in 0..z /\ n - 1 = z
          BY <1>1, <3>3
        <4>2. g[n] = e /\ g[n - 1] = h[z]
          BY <2>3, <3>3, <4>1, Zenon
        <4> QED  BY <3>3, <4>1, <4>2, Zenon
      <3> QED  BY <1>1, <3>1, <3>2, <3>3
    <2>6. g = [n \in 0..(z + 1) |-> IF n = 0 THEN 0 ELSE g[n - 1] + HeldAt(n)']
      BY <2>4, <2>5
    <2> QED  BY <1>2, <2>6, Zenon
  <1> QED  BY <1>5, <1>6, <1>7, <1>8, Zenon

LEMMA RtoStep ==
    ASSUME Blocks!BlocksAssumption, NEW i, NEW d, NEW z, Called(i, d, z), v1 = "RTO",
           v2 \in BlockState, v3 \in BlockState, RtoInv
    PROVE  RtoInv'
  <1> DEFINE s == Blocks!StCall("RTO", v2, i, Blocks!T(z) + d)
             r == Blocks!RtCall("RTO", v3, i, d)
  <1>1. /\ z \in Nat /\ Blocks!N = z /\ Blocks!N' = z + 1 /\ Bits4(i) /\ d \in Nat
        /\ v1' = v1 /\ v2' = s /\ Blocks!T(z + 1)' = Blocks!T(z) + d /\ Blocks!T(z) \in Nat
        /\ Blocks!In(z + 1, "b")' = i.b
    BY DEF Called
  <1>2. Presets /\ PT \in Int /\ v2.v \in Int
    BY DEF Blocks!BlocksAssumption, Presets, BlockState
  <1> PICK now \in Int : now = Blocks!T(z) + d
    BY <1>1
  <1>3. /\ s \in BlockState /\ (s.run <=> i.a /\ ~i.b) /\ (s.q <=> s.v >= PT /\ ~i.b)
        /\ i.a /\ ~i.b => s.start = now
        /\ s.v = (IF i.b THEN 0
                  ELSE IF i.a /\ v2.run /\ v2.v < PT THEN Blocks!Least(v2.v + now - v2.start, PT) ELSE v2.v)
    <2>1. d \in Int /\ Presets /\ Bits4(i)
      BY <1>1, <1>2
    <2>2. RtoSays(v2, v3, i, now, d, s, r)
      BY <2>1, RtoFields, Zenon
    <2> HIDE DEF s, r
    <2> QED  BY <2>2 DEF RtoSays
  <1> HIDE DEF s, r
  <1>4. /\ Last("a")' = i.a /\ Last("b")' = i.b /\ Latest("b") /\ Latest("b")'
        /\ v2.run <=> Last("a") /\ ~Last("b")
        /\ v2.run => v2.start = Blocks!T(z)
    BY <1>1, LastStep, LastOfStep DEF RtoInv
  <1>5. \E g : SumsUp(g)'
    <2>1. \E h : SumsUp(h)
      BY Zenon DEF RtoInv
    <2> QED  BY <1>4, <2>1, SumsGoOn, Zenon
  <1>6. ASSUME NEW g, SumsUp(g)'
        PROVE  g[z + 1] \in Int /\ (g[z + 1] >= PT => s.v >= PT) /\ (g[z + 1] < PT => s.v = g[z + 1])
    <2>1. CASE i.b
      <3>1. g[z + 1] = 0
        BY <1>4, <1>6, <2>1, SumsGoOn, Zenon
      <3> QED  BY <1>3, <2>1, <3>1
    <2>2. CASE ~i.b
      <3>1. PICK h : SumsUp(h) /\ h[z] = g[z] /\ g[z + 1] = g[z] + (IF i.a /\ v2.run THEN d ELSE 0)
        BY <1>4, <1>6, <2>2, SumsGoOn
      <3> PICK a : a = g[z]
        OBVIOUS
      <3>2. a \in Int /\ (a >= PT => v2.v >= PT) /\ (a < PT => v2.v = a)
        BY <1>1, <3>1, Zenon DEF RtoInv
      <3> PICK b : b = g[z + 1]
        OBVIOUS
      <3>3. b = a + (IF i.a /\ v2.run THEN d ELSE 0)
        BY <3>1
      <3>4. s.v = (IF i.a /\ v2.run /\ v2.v < PT THEN Blocks!Least(v2.v + d, PT) ELSE v2.v)
        <4>1. v2.run => v2.v + now - v2.start = v2.v + d
          BY <1>1, <1>2, <1>4
        <4> QED  BY <1>3, <2>2, <4>1, Zenon
      <3>5. b \in Int /\ (b >= PT => s.v >= PT) /\ (b < PT => s.v = b)
        <4>1. CASE i.a /\ v2.run
          BY <1>1, <1>2, <3>2, <3>3, <3>4, <4>1 DEF Blocks!Least
        <4>2. CASE ~(i.a /\ v2.run)
          BY <1>1, <1>2, <3>2, <3>3, <3>4, <4>2
        <4> QED  BY <4>1, <4>2
      <3> QED  BY <3>5
    <2> QED  BY <2>1, <2>2
  <1>7. (s.run <=> i.a /\ ~i.b) /\ (s.run => s.start = Blocks!T(z + 1)')
    BY <1>1, <1>3
  <1> QED  BY <1>1, <1>3, <1>4, <1>5, <1>6, <1>7, Zenon DEF RtoInv

LEMMA RtoAnswers ==
    ASSUME Blocks!BlocksAssumption, v1 = "RTO", v2 \in BlockState, RtoInv, Blocks!N > 0
    PROVE  v2.q <=> Blocks!Accumulated >= PT /\ ~Blocks!In(Blocks!N, "b")
  <1> DEFINE g == CHOOSE g : g = [n \in 0..Blocks!N |-> IF n = 0 THEN 0 ELSE g[n - 1] + HeldAt(n)]
  <1>1. \E h : h = [n \in 0..Blocks!N |-> IF n = 0 THEN 0 ELSE h[n - 1] + HeldAt(n)]
    BY Zenon DEF RtoInv, SumsUp
  <1>2. SumsUp(g)
    BY <1>1, Zenon DEF SumsUp
  <1>3. Blocks!Accumulated = g[Blocks!N]
    BY Zenon DEF Blocks!Accumulated, HeldAt, Held
  <1> HIDE DEF g
  <1>4. /\ g[Blocks!N] \in Int
        /\ g[Blocks!N] >= PT => v2.v >= PT
        /\ g[Blocks!N] < PT => v2.v = g[Blocks!N]
        /\ v2.q <=> v2.v >= PT /\ ~Blocks!In(Blocks!N, "b")
    BY <1>2, Zenon DEF RtoInv
  <1>5. PT \in Int /\ v2.v \in Int
    BY DEF Blocks!BlocksAssumption, BlockState
  <1>6. v2.v >= PT <=> g[Blocks!N] >= PT
    BY <1>4, <1>5
  <1> QED  BY <1>3, <1>4, <1>6, Zenon

-----------------------------------------------------------------------------
\* All blocks together.
BlocksInv ==
    /\ BlocksType /\ LatchInv /\ TrigInv /\ CounterInv
    /\ TonInv /\ TofInv /\ TpInv /\ RtoInv

LEMMA BlocksStart == ASSUME Blocks!BlocksAssumption, Blocks!Init PROVE BlocksInv
  <1>1. v1 \in Blocks!Kinds /\ v2 = Blocks!New(v1) /\ v3 = Blocks!RtNew /\ v4 = <<>>
    BY DEF Blocks!Init
  <1>2. Blocks!N = 0 /\ v4 \in Seq(LogEntry)
    BY <1>1 DEF Blocks!N
  <1>3. v2 = [q |-> FALSE, qd |-> FALSE, v |-> 0, m |-> v1 = "F_TRIG", m2 |-> FALSE, run |-> FALSE, start |-> 0]
    BY <1>1, Zenon DEF Blocks!New
  <1>4. v3 = [Blocks!New("any") EXCEPT !.m = FALSE]
    BY <1>1, Zenon DEF Blocks!RtNew
  <1> PICK b \in BOOLEAN : b <=> v1 = "F_TRIG"
    OBVIOUS
  <1> PICK o \in Int : o = 0
    OBVIOUS
  <1>5. /\ v2 \in BlockState /\ ~v2.q /\ v2.v = 0 /\ (v2.m <=> v1 = "F_TRIG") /\ ~v2.m2 /\ ~v2.run
    <2>1. v2 = [q |-> FALSE, qd |-> FALSE, v |-> o, m |-> b, m2 |-> FALSE, run |-> FALSE, start |-> o]
      BY <1>3
    <2> QED  BY <2>1 DEF BlockState
  <1>6. /\ v3 \in BlockState /\ ~v3.q /\ v3.v = 0 /\ ~v3.m /\ ~v3.m2 /\ ~v3.run
    <2> PICK c \in BOOLEAN : c <=> "any" = "F_TRIG"
      OBVIOUS
    <2>1. Blocks!New("any") = [q |-> FALSE, qd |-> FALSE, v |-> o, m |-> c, m2 |-> FALSE, run |-> FALSE, start |-> o]
      BY DEF Blocks!New
    <2> PICK f : f = Blocks!New("any")
      OBVIOUS
    <2>4. f = [q |-> FALSE, qd |-> FALSE, v |-> o, m |-> c, m2 |-> FALSE, run |-> FALSE, start |-> o]
      BY <2>1, Zenon
    <2>5. ASSUME NEW h, NEW k \in BOOLEAN,
                 h = [q |-> FALSE, qd |-> FALSE, v |-> o, m |-> k, m2 |-> FALSE, run |-> FALSE, start |-> o]
          PROVE  h \in BlockState /\ ~h.q /\ h.v = o /\ ~h.m2 /\ ~h.run
      BY <2>5 DEF BlockState
    <2>2. f \in BlockState /\ ~f.q /\ f.v = o /\ ~f.m2 /\ ~f.run
      BY <2>4, <2>5, Zenon
    <2>3. v3 = [f EXCEPT !.m = FALSE]
      BY <1>4, Zenon
    <2> QED  BY <2>2, <2>3 DEF BlockState
  <1>7. BlocksType
    <2>1. \A m, n \in 0..Blocks!N : Blocks!T(m) <= Blocks!T(n)
      BY <1>2 DEF Blocks!T
    <2> QED  BY <1>1, <1>2, <1>5, <1>6, <2>1 DEF BlocksType
  <1>8. ~Last("a") /\ ~Last("b") /\ ~Last("c")
    BY <1>2 DEF Last
  <1>9. LatchInv
    BY <1>2, <1>5, <1>6 DEF LatchInv, SetFirst, ResetFirst
  <1>10. TrigInv
    BY <1>2, <1>5, <1>6, <1>8 DEF TrigInv
  <1>11. Blocks!LastOf("b") = 0 /\ Blocks!LastOf("d") = 0 /\ Latest("b") /\ Latest("d")
    BY <1>2 DEF Blocks!LastOf, Latest
  <1>12. CounterInv
    <2>1. Blocks!InInt(0)
      BY DEF Blocks!BlocksAssumption, Blocks!InInt
    <2>2. ASSUME v1 \in Blocks!Counters PROVE Blocks!CountAt(0) = 0
      <3>1. Blocks!Since = 0 /\ Blocks!Base = 0
        BY <1>11 DEF Blocks!Since, Blocks!Base
      <3>2. Blocks!Edges(0, 0, "a") = 0 /\ Blocks!Edges(0, 0, "c") = 0
        <4>1. ASSUME NEW x PROVE Blocks!Edges(0, 0, x) = 0
          <5>1. Blocks!Edges(0, 0, x) = Cardinality({n \in (0 + 1)..0 : Blocks!Rises(n, x)})
            BY DEF Blocks!Edges, Blocks!Cardinality, Cardinality
          <5>2. {n \in (0 + 1)..0 : Blocks!Rises(n, x)} = {}
            <6>1. \A n \in (0 + 1)..0 : FALSE
              OBVIOUS
            <6> QED  BY <6>1, Zenon
          <5> QED  BY <5>1, <5>2, FS_EmptySet
        <4> QED  BY <4>1
      <3> QED  BY <3>1, <3>2 DEF Blocks!CountAt
    <2> QED  BY <1>2, <1>5, <1>6, <1>8, <1>11, <2>1, <2>2 DEF CounterInv, Blocks!Counters
  <1>13. TonInv
    BY <1>5, <1>6, <1>8 DEF TonInv
  <1>14. TofInv
    BY <1>2, <1>5, <1>6, <1>8 DEF TofInv
  <1>15. TpInv
    <2> DEFINE g == [n \in 0..0 |-> 0]
    <2>1. ASSUME NEW late, NEW h PROVE PulsesRun(h, late) <=> h = g
      <3>1. \A n \in 0..0 : n = 0
        OBVIOUS
      <3>2. PulsesRun(h, late) <=> h = [n \in 0..0 |-> IF n = 0 THEN 0 ELSE PulseNext(h[n - 1], n, late)]
        BY <1>2, Zenon DEF PulsesRun
      <3>3. [n \in 0..0 |-> IF n = 0 THEN 0 ELSE PulseNext(h[n - 1], n, late)] = g
        BY <3>1
      <3> QED  BY <3>2, <3>3, Zenon
    <2>2. g[0] = 0
      OBVIOUS
    <2> HIDE DEF g
    <2> QED  BY <1>2, <1>5, <1>6, <1>8, <2>1, <2>2 DEF TpInv
  <1>16. RtoInv
    <2> DEFINE g == [n \in 0..0 |-> 0]
    <2>1. ASSUME NEW h PROVE SumsUp(h) <=> h = g
      <3>1. \A n \in 0..0 : n = 0
        OBVIOUS
      <3>2. SumsUp(h) <=> h = [n \in 0..0 |-> IF n = 0 THEN 0 ELSE h[n - 1] + HeldAt(n)]
        BY <1>2, Zenon DEF SumsUp
      <3>3. [n \in 0..0 |-> IF n = 0 THEN 0 ELSE h[n - 1] + HeldAt(n)] = g
        BY <3>1
      <3> QED  BY <3>2, <3>3, Zenon
    <2>2. g[0] = 0
      OBVIOUS
    <2>3. PT \in Int
      BY DEF Blocks!BlocksAssumption
    <2> HIDE DEF g
    <2> QED  BY <1>2, <1>5, <1>8, <1>11, <2>1, <2>2, <2>3 DEF RtoInv
  <1> QED  BY <1>7, <1>9, <1>10, <1>12, <1>13, <1>14, <1>15, <1>16 DEF BlocksInv

LEMMA CallKeepsStates ==
    ASSUME Blocks!BlocksAssumption, NEW i, NEW d, NEW z, Called(i, d, z), v1 \in Blocks!Kinds, v2 \in BlockState, v3 \in BlockState
    PROVE  v2' \in BlockState /\ v3' \in BlockState
  <1> PICK now \in Int : now = Blocks!T(z) + d
    BY DEF Called
  <1>1. /\ Bits4(i) /\ d \in Int /\ Presets
        /\ v2' = Blocks!StCall(v1, v2, i, now) /\ v3' = Blocks!RtCall(v1, v3, i, d)
    BY DEF Called, Blocks!BlocksAssumption, Presets
  <1>2. CASE v1 \in {"SR", "RS", "R_TRIG", "F_TRIG"}
    BY <1>1, <1>2, LatchFields
  <1>3. CASE v1 \in {"CTU", "CTD"}
    BY <1>1, <1>3, CtuFields
  <1>4. CASE v1 = "CTUD"
    BY <1>1, <1>4, CtudFields
  <1>5. CASE v1 = "TON"
    <2>1. TonSays(v2, v3, i, now, d, v2', v3')
      BY <1>1, <1>5, TonFields
    <2> QED  BY <2>1, Zenon DEF TonSays
  <1>6. CASE v1 = "TOF"
    <2>1. TofSays(v2, v3, i, now, d, v2', v3')
      BY <1>1, <1>6, TofFields
    <2> QED  BY <2>1, Zenon DEF TofSays
  <1>7. CASE v1 = "TP"
    <2>1. TpSays(v2, v3, i, now, d, v2', v3')
      BY <1>1, <1>7, TpFields
    <2> QED  BY <2>1, Zenon DEF TpSays
  <1>8. CASE v1 = "RTO"
    <2>1. RtoSays(v2, v3, i, now, d, v2', v3')
      BY <1>1, <1>8, RtoFields
    <2> QED  BY <2>1, Zenon DEF RtoSays
  <1> QED  BY <1>2, <1>3, <1>4, <1>5, <1>6, <1>7, <1>8 DEF Blocks!Kinds

LEMMA BlocksStep == ASSUME Blocks!BlocksAssumption, BlocksInv, Blocks!Next PROVE BlocksInv'
  <1> PICK i \in Blocks!Inputs(v1), d \in Steps : Blocks!Call(i, d)
    BY Zenon DEF Blocks!Next
  <1> PICK z : z = Blocks!N
    OBVIOUS
  <1>1. BlocksType /\ v1 \in Blocks!Kinds /\ v2 \in BlockState /\ v3 \in BlockState
    BY DEF BlocksInv, BlocksType
  <1>2. /\ Called(i, d, z) /\ v4' \in Seq(LogEntry) /\ Blocks!N' = z + 1 /\ v1' = v1
        /\ \A m, n \in 0..(z + 1) : m <= n => Blocks!T(m)' <= Blocks!T(n)'
    <2>1. /\ Called(i, d, z) /\ v4' \in Seq(LogEntry)
          /\ \A m, n \in 0..(z + 1) : m <= n => Blocks!T(m)' <= Blocks!T(n)'
      BY <1>1, CallLogs
    <2> QED  BY <2>1 DEF Called
  <1>3. v2' \in BlockState /\ v3' \in BlockState
    BY <1>1, <1>2, CallKeepsStates
  <1>4. BlocksType'
    BY <1>1, <1>2, <1>3, Zenon DEF BlocksType
  <1>5. LatchInv'
    <2>1. CASE v1 \in {"SR", "RS"}
      BY <1>1, <1>2, <2>1, LatchStep DEF BlocksInv
    <2> QED  BY <1>2, <2>1 DEF LatchInv
  <1>6. TrigInv'
    <2>1. CASE v1 \in {"R_TRIG", "F_TRIG"}
      BY <1>1, <1>2, <2>1, TrigStep DEF BlocksInv
    <2> QED  BY <1>2, <2>1 DEF TrigInv
  <1>7. CounterInv'
    <2>1. CASE v1 \in Blocks!Counters
      BY <1>1, <1>2, <2>1, CounterStep DEF BlocksInv
    <2> QED  BY <1>2, <2>1, Zenon DEF CounterInv, Blocks!Counters
  <1>8. TonInv'
    <2>1. CASE v1 = "TON"
      BY <1>1, <1>2, <2>1, TonStep DEF BlocksInv
    <2> QED  BY <1>2, <2>1, Zenon DEF TonInv
  <1>9. TofInv'
    <2>1. CASE v1 = "TOF"
      BY <1>1, <1>2, <2>1, TofStep DEF BlocksInv
    <2> QED  BY <1>2, <2>1, Zenon DEF TofInv
  <1>10. TpInv'
    <2>1. CASE v1 = "TP"
      BY <1>1, <1>2, <2>1, TpStep DEF BlocksInv
    <2> QED  BY <1>2, <2>1, Zenon DEF TpInv
  <1>11. RtoInv'
    <2>1. CASE v1 = "RTO"
      BY <1>1, <1>2, <2>1, RtoStep DEF BlocksInv
    <2> QED  BY <1>2, <2>1, Zenon DEF RtoInv
  <1> QED  BY <1>4, <1>5, <1>6, <1>7, <1>8, <1>9, <1>10, <1>11 DEF BlocksInv

\* What the calls say, kind by kind.
LEMMA LatchAnswers ==
    ASSUME v1 \in {"SR", "RS", "R_TRIG", "F_TRIG"}, BlocksInv, Blocks!N > 0, NEW late
    PROVE  v2.q = Blocks!Answer(late) /\ v3.q = Blocks!Answer(late)
  <1>1. v2.q \in BOOLEAN /\ v3.q \in BOOLEAN /\ Blocks!N \in Nat
    BY DEF BlocksInv, BlocksType, BlockState, Blocks!N
  <1>2. CASE v1 = "SR"
    <2> DEFINE resets == {n \in 1..Blocks!N : Blocks!In(n, "b") /\ ~Blocks!In(n, "a")}
    <2>1. Blocks!Answer(late) = \E n \in 1..Blocks!N : Blocks!In(n, "a") /\ \A m \in n..Blocks!N : m \notin resets
      BY <1>2 DEF Blocks!Answer
    <2>2. ASSUME NEW n \in 1..Blocks!N, NEW m \in n..Blocks!N PROVE m \in resets <=> Blocks!In(m, "b") /\ ~Blocks!In(m, "a")
      BY <1>1
    <2>3. (\E n \in 1..Blocks!N : Blocks!In(n, "a") /\ \A m \in n..Blocks!N : m \notin resets) <=> SetFirst
      BY <2>2, Zenon DEF SetFirst
    <2> HIDE DEF resets
    <2>4. (v2.q <=> SetFirst) /\ (v3.q <=> SetFirst)
      BY <1>2 DEF BlocksInv, LatchInv
    <2> QED  BY <1>1, <2>1, <2>3, <2>4
  <1>3. CASE v1 = "RS"
    BY <1>1, <1>3 DEF BlocksInv, LatchInv, Blocks!Answer, ResetFirst
  <1>4. CASE v1 = "R_TRIG"
    <2>1. Blocks!Answer(late) = Blocks!Rises(Blocks!N, "a") /\ Blocks!Rises(Blocks!N, "a") \in BOOLEAN
      BY <1>4 DEF Blocks!Answer, Blocks!Rises
    <2> QED  BY <1>1, <1>4, <2>1 DEF BlocksInv, TrigInv
  <1>5. CASE v1 = "F_TRIG"
    <2>1. Blocks!Answer(late) = Blocks!Falls(Blocks!N) /\ Blocks!Falls(Blocks!N) \in BOOLEAN
      BY <1>5 DEF Blocks!Answer, Blocks!Falls
    <2> QED  BY <1>1, <1>5, <2>1 DEF BlocksInv, TrigInv
  <1> QED  BY <1>2, <1>3, <1>4, <1>5

LEMMA CounterAnswers ==
    ASSUME v1 \in Blocks!Counters, BlocksInv, Blocks!N > 0, NEW late
    PROVE  /\ Blocks!InInt(v2.v) /\ (v1 = "CTUD" => v2.qd = (v2.v <= 0) /\ v2.q = (v2.v >= PV))
           /\ Blocks!NeverSaturates => /\ v2.v = Blocks!CountAt(Blocks!N) /\ v3.v = v2.v /\ v3.q = v2.q
                                  /\ v2.q = Blocks!Answer(late) /\ v3.q = Blocks!Answer(late)
  <1>1. /\ v2.q \in BOOLEAN /\ v3.q \in BOOLEAN /\ v2.qd \in BOOLEAN
        /\ Blocks!InInt(v2.v)
        /\ Blocks!NeverSaturates => v2.v = Blocks!CountAt(Blocks!N) /\ v3.v = Blocks!CountAt(Blocks!N)
        /\ v1 # "CTD" => (v2.q <=> v2.v >= PV) /\ (v3.q <=> v3.v >= PV)
        /\ v1 = "CTD" => (v2.q <=> v2.v <= 0) /\ (v3.q <=> v3.v <= 0)
        /\ v1 = "CTUD" => (v2.qd <=> v2.v <= 0)
    <2>1. v2.q \in BOOLEAN /\ v3.q \in BOOLEAN /\ v2.qd \in BOOLEAN
      BY DEF BlocksInv, BlocksType, BlockState
    <2>2. /\ Blocks!InInt(v2.v)
          /\ Blocks!NeverSaturates => v2.v = Blocks!CountAt(Blocks!N) /\ v3.v = Blocks!CountAt(Blocks!N)
      BY Zenon DEF BlocksInv, CounterInv
    <2>3. v1 # "CTD" => (v2.q <=> v2.v >= PV) /\ (v3.q <=> v3.v >= PV)
      BY Zenon DEF BlocksInv, CounterInv
    <2>4. v1 = "CTD" => (v2.q <=> v2.v <= 0) /\ (v3.q <=> v3.v <= 0)
      BY Zenon DEF BlocksInv, CounterInv
    <2>5. v1 = "CTUD" => (v2.qd <=> v2.v <= 0)
      BY Zenon DEF BlocksInv, CounterInv
    <2> QED  BY <2>1, <2>2, <2>3, <2>4, <2>5, Zenon
  <1>2. v1 # "CTD" => Blocks!Answer(late) = (Blocks!CountAt(Blocks!N) >= PV)
    BY DEF Blocks!Answer, Blocks!Counters
  <1>3. v1 = "CTD" => Blocks!Answer(late) = (Blocks!CountAt(Blocks!N) <= 0)
    BY DEF Blocks!Answer
  <1> PICK c : c = Blocks!CountAt(Blocks!N)
    OBVIOUS
  <1>4. v1 = "CTUD" => v1 # "CTD"
    OBVIOUS
  <1> QED  BY <1>1, <1>2, <1>3, <1>4

LEMMA TimerAnswers ==
    ASSUME Blocks!BlocksAssumption, v1 \in {"TON", "TOF", "TP", "RTO"}, BlocksInv, Blocks!N > 0
    PROVE  v2.q = Blocks!Answer(0) /\ (v1 # "RTO" => v3.q = Blocks!Answer(1))
  <1>1. v2.q \in BOOLEAN /\ v3.q \in BOOLEAN /\ v2 \in BlockState
    BY DEF BlocksInv, BlocksType, BlockState
  <1>2. CASE v1 = "TON"
    <2>1. \A late : Blocks!Answer(late) = Blocks!OnFor(late) /\ Blocks!OnFor(late) \in BOOLEAN
      BY <1>2 DEF Blocks!Answer, Blocks!OnFor
    <2> QED  BY <1>1, <1>2, <2>1, TonAnswers DEF BlocksInv
  <1>3. CASE v1 = "TOF"
    <2>1. \A late : Blocks!Answer(late) = (Blocks!In(Blocks!N, "a") \/ Blocks!OffWithin(late))
      BY <1>3 DEF Blocks!Answer
    <2>2. /\ v2.q <=> Blocks!In(Blocks!N, "a") \/ Blocks!OffWithin(0)
          /\ v3.q <=> Blocks!In(Blocks!N, "a") \/ Blocks!OffWithin(1)
      BY <1>3, TofAnswers DEF BlocksInv
    <2> QED  BY <1>1, <2>1, <2>2
  <1>4. CASE v1 = "TP"
    <2>1. \A late : Blocks!Answer(late) = (Blocks!Pulses(late) # 0)
      BY <1>4 DEF Blocks!Answer
    <2> QED  BY <1>1, <1>4, <2>1, TpAnswers DEF BlocksInv
  <1>5. CASE v1 = "RTO"
    <2>1. Blocks!Answer(0) = (Blocks!Accumulated >= PT /\ ~Blocks!In(Blocks!N, "b"))
      BY <1>5 DEF Blocks!Answer
    <2> QED  BY <1>1, <1>5, <2>1, RtoAnswers DEF BlocksInv
  <1> QED  BY <1>2, <1>3, <1>4, <1>5

LEMMA BlocksAnswer ==
    ASSUME Blocks!BlocksAssumption, BlocksInv
    PROVE  Blocks!AnswersHistory /\ Blocks!RuntimeAgrees
  <1> SUFFICES ASSUME Blocks!N > 0 PROVE Blocks!AnswersHistory /\ Blocks!RuntimeAgrees
    BY Zenon DEF Blocks!AnswersHistory, Blocks!RuntimeAgrees
  <1>1. CASE v1 \in {"SR", "RS", "R_TRIG", "F_TRIG"}
    <2>1. v1 \notin Blocks!Counters /\ v1 \notin Blocks!Timers /\ v1 # "CTUD"
      BY <1>1 DEF Blocks!Counters, Blocks!Timers
    <2> QED  BY <1>1, <2>1, LatchAnswers, Zenon DEF Blocks!AnswersHistory, Blocks!RuntimeAgrees
  <1>2. CASE v1 \in Blocks!Counters
    <2>1. v1 \notin Blocks!Timers
      BY <1>2 DEF Blocks!Counters, Blocks!Timers
    <2> QED  BY <1>2, <2>1, CounterAnswers, Zenon DEF Blocks!AnswersHistory, Blocks!RuntimeAgrees
  <1>3. CASE v1 \in {"TON", "TOF", "TP", "RTO"}
    <2>1. v1 \notin Blocks!Counters /\ v1 # "CTUD" /\ (v1 # "RTO" => v1 \in Blocks!Timers)
      BY <1>3 DEF Blocks!Counters, Blocks!Timers
    <2> QED  BY <1>3, <2>1, TimerAnswers, Zenon DEF Blocks!AnswersHistory, Blocks!RuntimeAgrees
  <1> QED  BY <1>1, <1>2, <1>3 DEF BlocksInv, BlocksType, Blocks!Kinds, Blocks!Counters

\* Without a call the history says the same.
LEMMA HistoryStays ==
    ASSUME BlocksInv, v1' = v1, v2' = v2, v3' = v3, v4' = v4
    PROVE  /\ \A g, late : PulsesRun(g, late)' <=> PulsesRun(g, late)
           /\ v1 \in Blocks!Counters \cup {"RTO"} => Blocks!LastOf("b")' = Blocks!LastOf("b")
           /\ v1 \in Blocks!Counters => Blocks!LastOf("d")' = Blocks!LastOf("d")
           /\ v1 \in Blocks!Counters => Blocks!Since' = Blocks!Since /\ \A n : Blocks!CountAt(n)' = Blocks!CountAt(n)
           /\ v1 = "RTO" => \A g : SumsUp(g)' <=> SumsUp(g)
  <1>1. Blocks!N' = Blocks!N /\ Blocks!N \in Nat
    BY DEF Blocks!N, BlocksInv, BlocksType
  <1>2. (\A n : Blocks!T(n)' = Blocks!T(n)) /\ (\A n, x : Blocks!In(n, x)' = Blocks!In(n, x))
    BY Zenon DEF Blocks!T, Blocks!In
  <1>3. \A n, x : Blocks!Rises(n, x)' <=> Blocks!Rises(n, x)
    BY <1>2, Zenon DEF Blocks!Rises
  <1>4. ASSUME NEW p, NEW n, NEW late PROVE PulseNext(p, n, late)' = PulseNext(p, n, late)
    <2> PICK s : s = IF p # 0 THEN p ELSE IF Blocks!Rises(n, "a") THEN n ELSE 0
      OBVIOUS
    <2>1. PulseNext(p, n, late) = (IF s # 0 /\ Blocks!T(n) - Blocks!T(s - late) < PT THEN s ELSE 0)
      BY Zenon DEF PulseNext
    <2>2. s = IF p # 0 THEN p ELSE IF Blocks!Rises(n, "a")' THEN n ELSE 0
      BY <1>3, Zenon
    <2>3. PulseNext(p, n, late)' = (IF s # 0 /\ Blocks!T(n)' - Blocks!T(s - late)' < PT THEN s ELSE 0)
      BY <2>2, Zenon DEF PulseNext
    <2>4. Blocks!T(n)' = Blocks!T(n) /\ Blocks!T(s - late)' = Blocks!T(s - late)
      BY <1>2, Zenon
    <2> QED  BY <2>1, <2>3, <2>4
  <1>5. ASSUME NEW g, NEW late PROVE PulsesRun(g, late)' <=> PulsesRun(g, late)
    <2>1. \A n \in 0..Blocks!N : PulseNext(g[n - 1], n, late)' = PulseNext(g[n - 1], n, late)
      BY <1>4, Zenon
    <2>2. [n \in 0..Blocks!N |-> IF n = 0 THEN 0 ELSE PulseNext(g[n - 1], n, late)']
          = [n \in 0..Blocks!N |-> IF n = 0 THEN 0 ELSE PulseNext(g[n - 1], n, late)]
      BY <2>1
    <2>3. PulsesRun(g, late)' <=> g = [n \in 0..Blocks!N |-> IF n = 0 THEN 0 ELSE PulseNext(g[n - 1], n, late)']
      BY <1>1, Zenon DEF PulsesRun
    <2> QED  BY <2>2, <2>3, Zenon DEF PulsesRun
  <1>6. ASSUME NEW x, Latest(x) PROVE Blocks!LastOf(x)' = Blocks!LastOf(x)
    <2> PICK l : l = Blocks!LastOf(x)
      OBVIOUS
    <2> PICK y \in Nat : y = Blocks!N
      BY <1>1
    <2>1. l \in 0..y /\ Blocks!N' = y /\ (l # 0 => Blocks!In(l, x)') /\ \A m \in (l + 1)..y : ~Blocks!In(m, x)'
      BY <1>1, <1>2, <1>6, Zenon DEF Latest
    <2> QED  BY <2>1, LastOfIs
  <1>7. v1 \in Blocks!Counters \cup {"RTO"} => Blocks!LastOf("b")' = Blocks!LastOf("b")
    BY <1>6 DEF BlocksInv, CounterInv, RtoInv
  <1>8. v1 \in Blocks!Counters => Blocks!LastOf("d")' = Blocks!LastOf("d")
    BY <1>6, Zenon DEF BlocksInv, CounterInv
  <1>9. ASSUME v1 \in Blocks!Counters PROVE Blocks!Since' = Blocks!Since /\ \A n : Blocks!CountAt(n)' = Blocks!CountAt(n)
    <2>1. Blocks!Since' = Blocks!Since
      BY <1>7, <1>8, <1>9, Zenon DEF Blocks!Since
    <2>2. Blocks!Base' = Blocks!Base
      BY <1>2, <2>1, Zenon DEF Blocks!Base
    <2>3. ASSUME NEW s, NEW n, NEW x PROVE Blocks!Edges(s, n, x)' = Blocks!Edges(s, n, x)
      <3>1. {m \in (s + 1)..n : Blocks!Rises(m, x)'} = {m \in (s + 1)..n : Blocks!Rises(m, x)}
        BY <1>3, Zenon
      <3>2. /\ Blocks!Edges(s, n, x)' = Cardinality({m \in (s + 1)..n : Blocks!Rises(m, x)'})
            /\ Blocks!Edges(s, n, x) = Cardinality({m \in (s + 1)..n : Blocks!Rises(m, x)})
        BY DEF Blocks!Edges, Blocks!Cardinality, Cardinality
      <3> QED  BY <3>1, <3>2, Zenon
    <2> PICK t : t = Blocks!Since
      OBVIOUS
    <2>4. ASSUME NEW n PROVE Blocks!CountAt(n)' = Blocks!CountAt(n)
      <3>1. Blocks!Edges(t, n, "a")' = Blocks!Edges(t, n, "a") /\ Blocks!Edges(t, n, "c")' = Blocks!Edges(t, n, "c") /\ Blocks!Since' = t
        BY <2>1, <2>3, Zenon
      <3> QED  BY <2>2, <3>1, Zenon DEF Blocks!CountAt
    <2> QED  BY <2>1, <2>4
  <1>10. ASSUME v1 = "RTO", NEW g PROVE SumsUp(g)' <=> SumsUp(g)
    <2>1. Held' = Held
      <3>1. Blocks!LastOf("b")' = Blocks!LastOf("b")
        BY <1>7, <1>10
      <3>2. Held' = {n \in (Blocks!LastOf("b") + 2)..Blocks!N : Blocks!In(n, "a")' /\ Blocks!In(n - 1, "a")'}
        BY <1>1, <3>1, Zenon DEF Held
      <3> QED  BY <1>2, <3>2, Zenon DEF Held
    <2>2. \A n : HeldAt(n)' = HeldAt(n)
      BY <1>2, <2>1, Zenon DEF HeldAt
    <2>3. [n \in 0..Blocks!N |-> IF n = 0 THEN 0 ELSE g[n - 1] + HeldAt(n)']
          = [n \in 0..Blocks!N |-> IF n = 0 THEN 0 ELSE g[n - 1] + HeldAt(n)]
      BY <2>2
    <2>4. SumsUp(g)' <=> g = [n \in 0..Blocks!N |-> IF n = 0 THEN 0 ELSE g[n - 1] + HeldAt(n)']
      BY <1>1, Zenon DEF SumsUp
    <2> QED  BY <2>3, <2>4, Zenon DEF SumsUp
  <1> QED  BY <1>5, <1>7, <1>8, <1>9, <1>10

BlocksPart == part = "blocks" => BlocksInv

\* plcc-stdlib's function blocks and plcc-runtime's, for every preset, INT and number and spacing of calls:
\* what an instance answers is what the calls it got say.
THEOREM EveryBlockAnswers ==
    ASSUME Blocks!BlocksAssumption
    PROVE  AllSpec => []BlocksExact
  <1>1. AllInit => BlocksPart
    <2>1. AllInit /\ part = "blocks" => Blocks!Init
      BY DEF AllInit
    <2> QED  BY <2>1, BlocksStart DEF BlocksPart
  <1>2. BlocksPart /\ [AllNext]_<<part, others, vars>> => BlocksPart'
    <2> SUFFICES ASSUME BlocksPart, [AllNext]_<<part, others, vars>>, part' = "blocks" PROVE BlocksInv'
      BY DEF BlocksPart
    <2>1. part = "blocks"
      BY DEF AllNext
    <2>2. BlocksInv
      BY <2>1 DEF BlocksPart
    <2>3. CASE AllNext
      <3>1. Blocks!Next
        BY <2>1, <2>3 DEF AllNext
      <3> QED  BY <2>2, <3>1, BlocksStep
    <2>4. CASE UNCHANGED <<part, others, vars>>
      <3>1. v1' = v1 /\ v2' = v2 /\ v3' = v3 /\ v4' = v4
        BY <2>4 DEF others
      <3>2. BlocksType'
        BY <2>2, <3>1, Zenon DEF BlocksInv, BlocksType, Blocks!N, Blocks!T
      <3>3. LatchInv' /\ TrigInv'
        BY <2>2, <3>1, Zenon
           DEF BlocksInv, LatchInv, SetFirst, ResetFirst, TrigInv, Last, Blocks!N, Blocks!In, Blocks!Rises, Blocks!Falls
      <3>7. /\ v1 \in Blocks!Counters \cup {"RTO"} => (Latest("b")' <=> Latest("b"))
            /\ v1 \in Blocks!Counters => (Latest("d")' <=> Latest("d"))
        BY <2>2, <3>1, HistoryStays, Zenon DEF Latest, Blocks!N, Blocks!In
      <3>8. /\ Blocks!N' = Blocks!N /\ (\A x : Last(x)' <=> Last(x)) /\ (\A n : Blocks!T(n)' = Blocks!T(n))
            /\ Blocks!In(Blocks!N, "b")' = Blocks!In(Blocks!N, "b")
        BY <3>1, Zenon DEF Last, Blocks!N, Blocks!In, Blocks!T
      <3>9. CounterInv'
        <4> SUFFICES ASSUME v1 \in Blocks!Counters PROVE CounterInv'
          BY <3>1, Zenon DEF CounterInv
        <4>1. Blocks!Since' = Blocks!Since /\ \A n : Blocks!CountAt(n)' = Blocks!CountAt(n)
          BY <2>2, <3>1, HistoryStays, Zenon
        <4>2. Blocks!NeverSaturates' <=> Blocks!NeverSaturates
          <5> PICK s : s = Blocks!Since
            OBVIOUS
          <5>1. \A n : Blocks!InInt(Blocks!CountAt(n))' <=> Blocks!InInt(Blocks!CountAt(n))
            BY <4>1, Zenon DEF Blocks!InInt
          <5>2. /\ Blocks!NeverSaturates <=> \A n \in s..Blocks!N : Blocks!InInt(Blocks!CountAt(n))
                /\ Blocks!NeverSaturates' <=> \A n \in s..Blocks!N : Blocks!InInt(Blocks!CountAt(n))'
            BY <3>8, <4>1, Zenon DEF Blocks!NeverSaturates
          <5> QED  BY <5>1, <5>2, Zenon
        <4>3. Blocks!CountAt(Blocks!N)' = Blocks!CountAt(Blocks!N)
          <5> PICK z : z = Blocks!N
            OBVIOUS
          <5> QED  BY <3>8, <4>1, Zenon DEF Blocks!CountAt
        <4>4. CounterInv
          BY <2>2 DEF BlocksInv
        <4> QED  BY <3>1, <3>7, <3>8, <4>2, <4>3, <4>4, Zenon DEF CounterInv, Blocks!InInt
      <3>4. RtoInv'
        <4> SUFFICES ASSUME v1 = "RTO" PROVE RtoInv'
          BY <3>1, Zenon DEF RtoInv
        <4>1. (\A g : SumsUp(g)' <=> SumsUp(g)) /\ RtoInv
          BY <2>2, <3>1, HistoryStays, Zenon DEF BlocksInv
        <4>2. Blocks!T(Blocks!N)' = Blocks!T(Blocks!N)
          BY <3>1, Zenon DEF Blocks!T, Blocks!N
        <4> QED  BY <3>1, <3>7, <3>8, <4>1, <4>2, Zenon DEF RtoInv
      <3>5. TonInv' /\ TofInv'
        BY <2>2, <3>1, Zenon DEF BlocksInv, TonInv, OnSince, TofInv, OffSince, Last, Blocks!N, Blocks!In, Blocks!T, Blocks!Falls
      <3>6. TpInv'
        BY <2>2, <3>1, HistoryStays, Zenon DEF BlocksInv, TpInv, Last, Blocks!N, Blocks!In, Blocks!T
      <3> QED  BY <3>2, <3>3, <3>9, <3>4, <3>5, <3>6 DEF BlocksInv
    <2> QED  BY <2>3, <2>4
  <1>3. BlocksPart => BlocksExact
    BY BlocksAnswer DEF BlocksPart, BlocksExact
  <1> QED  BY <1>1, <1>2, <1>3, PTL DEF AllSpec

-----------------------------------------------------------------------------
(***************************************************************************)
(* The loops of the file instructions.  A loop that makes a state of the   *)
(* one before leaves a function from counts of iterations to states; what  *)
(* it has done after n iterations follows by the least n at which it would *)
(* not.                                                                    *)
(***************************************************************************)
Iterations(N, T) == [1..N -> [T -> T]]
Terminates(N, T, a, s) == \E f \in [0..N -> T] : f[0] = a /\ \A n \in 1..N : f[n] = s[n][f[n - 1]]

LEMMA LoopRuns ==
    ASSUME NEW N \in Nat, NEW T, NEW a \in T, NEW s \in Iterations(N, T)
    PROVE  Terminates(N, T, a, s)
  <1>0. s \in [1..N -> [T -> T]]
    BY DEF Iterations
  <1> DEFINE Runs(n, f) == f \in [0..n -> T] /\ f[0] = a /\ \A m \in 1..n : f[m] = s[m][f[m - 1]]
             Stuck == {n \in 0..N : ~\E f : Runs(n, f)}
  <1> HIDE DEF Runs
  <1>1. ASSUME Stuck # {} PROVE FALSE
    <2>1. PICK n \in Stuck : \A m \in Stuck : n <= m
      <3> HIDE DEF Stuck
      <3>1. Stuck \subseteq Nat
        BY DEF Stuck
      <3> QED  BY <1>1, <3>1, LeastNumber
    <2>2. n \in 0..N /\ ~(\E f : Runs(n, f)) /\ \A m \in 0..N : m < n => \E f : Runs(m, f)
      BY <2>1
    <2>4. n # 0
      <3>1. Runs(0, [m \in 0..0 |-> a])
        BY DEF Runs
      <3> QED  BY <2>2, <3>1
    <2>5. PICK f : Runs(n - 1, f)
      BY <2>2, <2>4
    <2>6. f[n - 1] \in T /\ s[n] \in [T -> T]
      BY <1>0, <2>2, <2>4, <2>5 DEF Runs
    <2>7. Runs(n, [m \in 0..n |-> IF m = n THEN s[n][f[n - 1]] ELSE f[m]])
      BY <2>2, <2>4, <2>5, <2>6 DEF Runs
    <2> QED  BY <2>2, <2>7
  <1>2. \E f : Runs(N, f)
    BY <1>1
  <1> QED  BY <1>2 DEF Runs, Terminates

\* The place of bit i of a file in its array, and the least of three numbers.
LEMMA BitPlace ==
    ASSUME NEW w \in Nat \ {0}, NEW i \in Nat
    PROVE  /\ i \div w \in Nat /\ i % w \in 0..(w - 1) /\ i = (i \div w) * w + (i % w)
           /\ \A d \in Int, r \in 0..(w - 1) : d * w + r = i => d = i \div w /\ r = i % w
  <1> DEFINE q == i \div w
             t == i % w
  <1>1. q \in Nat /\ t \in 0..(w - 1) /\ i = w * q + t
    OBVIOUS
  <1> HIDE DEF q, t
  <1>2. ASSUME NEW d \in Int, NEW r \in 0..(w - 1), d * w + r = i PROVE d = q /\ r = t
    <2>1. (d - q) * w = t - r
      BY <1>1, <1>2
    <2>2. ~(d - q >= 1)
      <3>1. d - q >= 1 => (d - q) * w >= w
        BY <1>1
      <3> QED  BY <1>1, <2>1, <3>1
    <2>3. ~(q - d >= 1)
      <3>1. q - d >= 1 => (q - d) * w >= w
        BY <1>1
      <3>2. (q - d) * w = r - t
        BY <1>1, <1>2
      <3> QED  BY <1>1, <3>1, <3>2
    <2>4. d = q
      BY <1>1, <2>2, <2>3
    <2> QED  BY <1>1, <2>1, <2>4
  <1>3. q * w = w * q
    BY <1>1
  <1> QED  BY <1>1, <1>2, <1>3 DEF q, t

LeastOf(n, a, b, c) == n \in {a, b, c} /\ n <= a /\ n <= b /\ n <= c

LEMMA LeastOfThree ==
    ASSUME NEW a \in Int, NEW b \in Int, NEW c \in Int
    PROVE  LeastOf(Files!Least({a, b, c}), a, b, c)
  <1>1. \E n \in {a, b, c} : \A m \in {a, b, c} : n <= m
    <2>1. \E n \in {a, b, c} : n <= a /\ n <= b /\ n <= c
      OBVIOUS
    <2> QED  BY <2>1
  <1> QED  BY <1>1 DEF Files!Least, LeastOf

-----------------------------------------------------------------------------
\* Words of a file, of which those bits that are not the first n of the file are as they were.
FileArray == [0..(FileWords - 1) -> [0..(FileBits - 1) -> BOOLEAN]]
KeptPast(us, ws, n) ==
    \A m \in 0..(FileWords - 1), k \in 0..(FileBits - 1) :
        (m < FileFirst \/ (m - FileFirst) * FileBits + k >= n) => us[m][k] = ws[m][k]

LEMMA BitIn ==
    ASSUME Files!FilesAssumption, NEW i \in 0..(Files!Capacity - 1)
    PROVE  /\ FileFirst + (i \div FileBits) \in FileFirst..(FileWords - 1) /\ i % FileBits \in 0..(FileBits - 1)
           /\ i = (i \div FileBits) * FileBits + (i % FileBits)
           /\ \A d \in Int, r \in 0..(FileBits - 1) : d * FileBits + r = i => d = i \div FileBits /\ r = i % FileBits
  <1>1. FileBits \in Nat \ {0} /\ FileWords \in Nat /\ FileFirst \in 0..FileWords
    BY DEF Files!FilesAssumption
  <1>2. i \in Nat /\ i < (FileWords - FileFirst) * FileBits
    BY <1>1 DEF Files!Capacity
  <1> DEFINE q == i \div FileBits
  <1>3. /\ q \in Nat /\ i % FileBits \in 0..(FileBits - 1) /\ i = q * FileBits + (i % FileBits)
        /\ \A d \in Int, r \in 0..(FileBits - 1) : d * FileBits + r = i => d = q /\ r = i % FileBits
    BY <1>1, <1>2, BitPlace
  <1> HIDE DEF q
  <1>4. ~(q >= FileWords - FileFirst)
    <2> DEFINE e == q - (FileWords - FileFirst)
    <2>1. e >= 0 => e * FileBits >= 0
      BY <1>1, <1>3
    <2>2. e * FileBits = q * FileBits - (FileWords - FileFirst) * FileBits
      BY <1>1, <1>3
    <2>3. e * FileBits < 0
      BY <1>1, <1>2, <1>3, <2>2
    <2> QED  BY <1>1, <1>3, <2>1, <2>3
  <1> QED  BY <1>1, <1>3, <1>4 DEF q

OneBitWritten(us, ws, i, b) ==
    /\ us \in FileArray
    /\ \A j \in 0..(Files!Capacity - 1) : Files!Bit(ws, j) \in BOOLEAN /\ Files!Bit(us, j) = IF j = i THEN b ELSE Files!Bit(ws, j)
    /\ \A n \in Int : n > i => KeptPast(us, ws, n)

LEMMA BitWritten ==
    ASSUME Files!FilesAssumption, NEW ws \in FileArray, NEW i \in 0..(Files!Capacity - 1), NEW b \in BOOLEAN
    PROVE  OneBitWritten(Files!WithBit(ws, i, b), ws, i, b)
  <1>0. FileBits \in Nat \ {0} /\ FileWords \in Nat /\ FileFirst \in 0..FileWords
    BY DEF Files!FilesAssumption
  <1> PICK q : q = i \div FileBits
    OBVIOUS
  <1> PICK t : t = i % FileBits
    OBVIOUS
  <1>1. /\ q \in Int /\ FileFirst + q \in FileFirst..(FileWords - 1) /\ t \in 0..(FileBits - 1) /\ i = q * FileBits + t
        /\ \A d \in Int, r \in 0..(FileBits - 1) : d * FileBits + r = i => d = q /\ r = t
    BY <1>0, BitIn
  <1> PICK m : m = FileFirst + q
    OBVIOUS
  <1>2. m \in 0..(FileWords - 1)
    BY <1>0, <1>1
  <1>3. Files!WithBit(ws, i, b) = [ws EXCEPT ![m][t] = b]
    BY Zenon DEF Files!WithBit
  <1> PICK us : us = Files!WithBit(ws, i, b)
    OBVIOUS
  <1>4. us = [ws EXCEPT ![m][t] = b]
    BY <1>3, Zenon
  <1>5. /\ us \in FileArray
        /\ \A x \in 0..(FileWords - 1), k \in 0..(FileBits - 1) : us[x][k] = IF x = m /\ k = t THEN b ELSE ws[x][k]
    <2> PICK row : row = [ws[m] EXCEPT ![t] = b]
      OBVIOUS
    <2>1. us = [ws EXCEPT ![m] = row]
      BY <1>4
    <2>2. /\ row \in [0..(FileBits - 1) -> BOOLEAN]
          /\ \A k \in 0..(FileBits - 1) : row[k] = IF k = t THEN b ELSE ws[m][k]
      BY <1>1, <1>2 DEF FileArray
    <2>3. us \in FileArray /\ \A x \in 0..(FileWords - 1) : us[x] = IF x = m THEN row ELSE ws[x]
      BY <1>2, <2>1, <2>2 DEF FileArray
    <2> QED  BY <2>2, <2>3
  <1>6. ASSUME NEW j \in 0..(Files!Capacity - 1)
        PROVE  Files!Bit(ws, j) \in BOOLEAN /\ Files!Bit(us, j) = IF j = i THEN b ELSE Files!Bit(ws, j)
    <2> PICK e : e = j \div FileBits
      OBVIOUS
    <2> PICK r : r = j % FileBits
      OBVIOUS
    <2>1. e \in Int /\ FileFirst + e \in 0..(FileWords - 1) /\ r \in 0..(FileBits - 1) /\ j = e * FileBits + r
      BY <1>0, BitIn
    <2>2. Files!Bit(ws, j) = ws[FileFirst + e][r] /\ Files!Bit(us, j) = us[FileFirst + e][r]
      BY Zenon DEF Files!Bit
    <2>3. ws[FileFirst + e][r] \in BOOLEAN
      BY <2>1 DEF FileArray
    <2>4. FileFirst + e = m /\ r = t <=> j = i
      <3>1. FileFirst + e = m => e = q
        <4>1. FileFirst \in Int /\ e \in Int /\ q \in Int
          BY <1>0, <1>1, <2>1
        <4>2. FileFirst + e = FileFirst + q => e = q
          BY <4>1
        <4> QED  BY <4>2, Zenon
      <3>2. e = q /\ r = t => j = i
        BY <1>1, <2>1
      <3>3. j = i => e = q /\ r = t
        BY <1>1, <2>1
      <3> QED  BY <3>1, <3>2, <3>3
    <2> QED  BY <1>5, <2>1, <2>2, <2>3, <2>4
  <1>7. ASSUME NEW n \in Int, n > i PROVE KeptPast(us, ws, n)
    <2>1. ASSUME NEW x \in 0..(FileWords - 1), NEW k \in 0..(FileBits - 1), x < FileFirst \/ (x - FileFirst) * FileBits + k >= n
          PROVE  ~(x = m /\ k = t)
      <3> SUFFICES ASSUME x = m, k = t PROVE FALSE
        OBVIOUS
      <3>1. FileFirst \in Int /\ q \in Int /\ x = FileFirst + q /\ m >= FileFirst
        BY <1>0, <1>1
      <3>2. x - FileFirst = q /\ ~(x < FileFirst)
        BY <3>1
      <3>3. q * FileBits + t >= n
        BY <2>1, <3>2
      <3> QED  BY <1>1, <1>7, <3>3
    <2> QED  BY <1>5, <2>1 DEF KeptPast
  <1>8. OneBitWritten(us, ws, i, b)
    BY <1>5, <1>6, <1>7 DEF OneBitWritten
  <1> QED  BY <1>8, Zenon

LEMMA BitRead ==
    ASSUME Files!FilesAssumption, NEW ws \in FileArray, NEW j \in 0..(Files!Capacity - 1)
    PROVE  Files!Bit(ws, j) \in BOOLEAN
  <1> PICK b \in BOOLEAN : b = FALSE
    OBVIOUS
  <1> QED  BY BitWritten, Zenon DEF OneBitWritten

\* The loop of BSL moves each bit of a file up, the loop of BSR each down; the bit they leave to
\* the Source keeps its value, and so does all that is not the file.
LEMMA ShiftedLeft ==
    ASSUME Files!FilesAssumption, NEW ws \in FileArray, NEW n \in 1..Files!Capacity
    PROVE  /\ Files!ShiftLeft(ws, n) \in FileArray /\ KeptPast(Files!ShiftLeft(ws, n), ws, n)
           /\ \A j \in 1..(n - 1) : Files!Bit(Files!ShiftLeft(ws, n), j) = Files!Bit(ws, j - 1)
  <1>0. n \in Nat \ {0} /\ Files!Capacity \in Int /\ n <= Files!Capacity
    BY DEF Files!FilesAssumption, Files!Capacity
  <1> DEFINE Moved(m, w) == Files!WithBit(w, n - m, Files!Bit(w, n - m - 1))
             P(f) == f = [m \in 0..(n - 1) |-> IF m = 0 THEN ws ELSE Moved(m, f[m - 1])]
  <1>1. Files!ShiftLeft(ws, n) = (CHOOSE f : P(f))[n - 1]
    BY Zenon DEF Files!ShiftLeft
  <1>2. ASSUME NEW m \in 1..(n - 1), NEW w \in FileArray
        PROVE  /\ Moved(m, w) \in FileArray
               /\ \A j \in 0..(n - 1) : Files!Bit(w, j) \in BOOLEAN /\ Files!Bit(Moved(m, w), j) = IF j = n - m THEN Files!Bit(w, n - m - 1) ELSE Files!Bit(w, j)
               /\ KeptPast(Moved(m, w), w, n)
    <2>1. n - m \in 0..(Files!Capacity - 1) /\ n - m - 1 \in 0..(Files!Capacity - 1) /\ n \in Int /\ n > n - m
      BY <1>0
    <2> PICK i \in 0..(Files!Capacity - 1) : i = n - m
      BY <2>1
    <2> PICK h \in 0..(Files!Capacity - 1) : h = n - m - 1
      BY <2>1
    <2>2. Files!Bit(w, h) \in BOOLEAN
      BY BitRead, Zenon
    <2> PICK b \in BOOLEAN : b = Files!Bit(w, h)
      BY <2>2
    <2>3. Moved(m, w) = Files!WithBit(w, i, b)
      BY Zenon
    <2> HIDE DEF Moved
    <2>4. \A j \in 0..(n - 1) : j \in 0..(Files!Capacity - 1)
      BY <1>0
    <2> PICK v : v = Moved(m, w)
      OBVIOUS
    <2>5. v = Files!WithBit(w, i, b)
      BY <2>3, Zenon
    <2>6. OneBitWritten(Files!WithBit(w, i, b), w, i, b)
      BY BitWritten, Zenon
    <2>7. /\ v \in FileArray
          /\ \A j \in 0..(Files!Capacity - 1) :
                Files!Bit(w, j) \in BOOLEAN /\ Files!Bit(v, j) = IF j = i THEN b ELSE Files!Bit(w, j)
          /\ \A k \in Int : k > i => KeptPast(v, w, k)
      BY <2>5, <2>6, Zenon DEF OneBitWritten
    <2>8. \A j \in 0..(n - 1) : Files!Bit(w, j) \in BOOLEAN /\ Files!Bit(v, j) = IF j = n - m THEN Files!Bit(w, n - m - 1) ELSE Files!Bit(w, j)
      BY <2>4, <2>7, Zenon
    <2>9. KeptPast(v, w, n)
      BY <2>1, <2>7
    <2> QED  BY <2>7, <2>8, <2>9, Zenon
  <1>3. \E f : P(f)
    <2> DEFINE s == [m \in 1..(n - 1) |-> [w \in FileArray |-> Moved(m, w)]]
    <2>1. s \in [1..(n - 1) -> [FileArray -> FileArray]]
      BY <1>2
    <2>2. \A m \in 1..(n - 1), w \in FileArray : s[m][w] = Moved(m, w)
      OBVIOUS
    <2> HIDE DEF s
    <2> PICK N \in Nat : N = n - 1
      BY <1>0
    <2>7. s \in Iterations(N, FileArray)
      BY <2>1, Zenon DEF Iterations
    <2>8. Terminates(N, FileArray, ws, s)
      BY <2>7, LoopRuns, Zenon
    <2>3. PICK f \in [0..N -> FileArray] : f[0] = ws /\ \A m \in 1..N : f[m] = s[m][f[m - 1]]
      BY <2>8, Zenon DEF Terminates
    <2> HIDE DEF Moved
    <2>4. ASSUME NEW m \in 0..N PROVE f[m] = IF m = 0 THEN ws ELSE Moved(m, f[m - 1])
      <3>1. CASE m = 0
        BY <2>3, <3>1
      <3>2. CASE m # 0
        <4>1. m \in 1..N /\ f[m - 1] \in FileArray
          BY <2>3, <3>2
        <4> QED  BY <2>2, <2>3, <3>2, <4>1
      <3> QED  BY <3>1, <3>2
    <2>5. f = [m \in 0..N |-> f[m]]
      BY <2>3
    <2>6. f = [m \in 0..N |-> IF m = 0 THEN ws ELSE Moved(m, f[m - 1])]
      BY <2>4, <2>5
    <2> QED  BY <2>6
  <1> HIDE DEF Moved
  <1> PICK u : P(u) /\ Files!ShiftLeft(ws, n) = u[n - 1]
    BY <1>1, <1>3
  <1>4. u[0] = ws /\ \A m \in 1..(n - 1) : u[m] = Moved(m, u[m - 1])
    BY <1>0
  <1> HIDE DEF P
  <1> DEFINE Done(m) == /\ u[m] \in FileArray /\ KeptPast(u[m], ws, n)
                        /\ \A j \in 0..(n - 1) : Files!Bit(u[m], j) = IF j >= n - m THEN Files!Bit(ws, j - 1) ELSE Files!Bit(ws, j)
             Left == {m \in 0..(n - 1) : ~Done(m)}
  <1>5. Done(0)
    BY <1>0, <1>4 DEF KeptPast
  <1>6. ASSUME NEW m \in 1..(n - 1), Done(m - 1) PROVE Done(m)
    <2> PICK w : w = u[m - 1]
      OBVIOUS
    <2> PICK v : v = u[m]
      OBVIOUS
    <2>1. /\ w \in FileArray /\ KeptPast(w, ws, n)
          /\ \A j \in 0..(n - 1) : Files!Bit(w, j) = IF j >= n - m + 1 THEN Files!Bit(ws, j - 1) ELSE Files!Bit(ws, j)
      BY <1>0, <1>6
    <2>2. /\ v \in FileArray /\ KeptPast(v, w, n)
          /\ \A j \in 0..(n - 1) : Files!Bit(v, j) = IF j = n - m THEN Files!Bit(w, n - m - 1) ELSE Files!Bit(w, j)
      <3>1. v = Moved(m, w)
        BY <1>4
      <3> QED  BY <1>2, <2>1, <3>1
    <2>3. KeptPast(v, ws, n)
      BY <2>1, <2>2 DEF KeptPast
    <2>4. ASSUME NEW j \in 0..(n - 1) PROVE Files!Bit(v, j) = IF j >= n - m THEN Files!Bit(ws, j - 1) ELSE Files!Bit(ws, j)
      <3>1. CASE j = n - m
        <4>1. n - m - 1 \in 0..(n - 1) /\ ~(n - m - 1 >= n - m + 1) /\ j - 1 = n - m - 1
          BY <1>0, <3>1
        <4> QED  BY <1>0, <2>1, <2>2, <3>1, <4>1
      <3>2. CASE j # n - m
        BY <1>0, <2>1, <2>2, <3>2
      <3> QED  BY <3>1, <3>2
    <2> QED  BY <2>2, <2>3, <2>4
  <1>7. Left = {}
    <2> SUFFICES ASSUME Left # {} PROVE FALSE
      OBVIOUS
    <2>1. PICK m \in Left : \A k \in Left : m <= k
      <3> HIDE DEF Left
      <3>1. Left \subseteq Nat
        BY DEF Left
      <3> QED  BY <3>1, LeastNumber
    <2> HIDE DEF Done
    <2>2. m \in 0..(n - 1) /\ ~Done(m) /\ \A k \in 0..(n - 1) : k < m => Done(k)
      BY <2>1
    <2>3. m \in 1..(n - 1) /\ Done(m - 1)
      BY <1>0, <1>5, <2>2
    <2> QED  BY <1>6, <2>2, <2>3
  <1>8. Done(n - 1)
    BY <1>0, <1>7
  <1>9. \A j \in 1..(n - 1) : j \in 0..(n - 1) /\ j >= n - (n - 1)
    BY <1>0
  <1> QED  BY <1>8, <1>9

LEMMA ShiftedRight ==
    ASSUME Files!FilesAssumption, NEW ws \in FileArray, NEW n \in 1..Files!Capacity
    PROVE  /\ Files!ShiftRight(ws, n) \in FileArray /\ KeptPast(Files!ShiftRight(ws, n), ws, n)
           /\ \A j \in 0..(n - 2) : Files!Bit(Files!ShiftRight(ws, n), j) = Files!Bit(ws, j + 1)
  <1>0. n \in Nat \ {0} /\ Files!Capacity \in Int /\ n <= Files!Capacity
    BY DEF Files!FilesAssumption, Files!Capacity
  <1> DEFINE Moved(m, w) == Files!WithBit(w, m - 1, Files!Bit(w, m))
             P(f) == f = [m \in 0..(n - 1) |-> IF m = 0 THEN ws ELSE Moved(m, f[m - 1])]
  <1>1. Files!ShiftRight(ws, n) = (CHOOSE f : P(f))[n - 1]
    BY Zenon DEF Files!ShiftRight
  <1>2. ASSUME NEW m \in 1..(n - 1), NEW w \in FileArray
        PROVE  /\ Moved(m, w) \in FileArray
               /\ \A j \in 0..(n - 1) : Files!Bit(w, j) \in BOOLEAN /\ Files!Bit(Moved(m, w), j) = IF j = m - 1 THEN Files!Bit(w, m) ELSE Files!Bit(w, j)
               /\ KeptPast(Moved(m, w), w, n)
    <2>1. m - 1 \in 0..(Files!Capacity - 1) /\ m \in 0..(Files!Capacity - 1) /\ n \in Int /\ n > m - 1
      BY <1>0
    <2> PICK i \in 0..(Files!Capacity - 1) : i = m - 1
      BY <2>1
    <2> PICK h \in 0..(Files!Capacity - 1) : h = m
      BY <2>1
    <2>2. Files!Bit(w, h) \in BOOLEAN
      BY BitRead, Zenon
    <2> PICK b \in BOOLEAN : b = Files!Bit(w, h)
      BY <2>2
    <2>3. Moved(m, w) = Files!WithBit(w, i, b)
      BY Zenon
    <2> HIDE DEF Moved
    <2>4. \A j \in 0..(n - 1) : j \in 0..(Files!Capacity - 1)
      BY <1>0
    <2> PICK v : v = Moved(m, w)
      OBVIOUS
    <2>5. v = Files!WithBit(w, i, b)
      BY <2>3, Zenon
    <2>6. OneBitWritten(Files!WithBit(w, i, b), w, i, b)
      BY BitWritten, Zenon
    <2>7. /\ v \in FileArray
          /\ \A j \in 0..(Files!Capacity - 1) :
                Files!Bit(w, j) \in BOOLEAN /\ Files!Bit(v, j) = IF j = i THEN b ELSE Files!Bit(w, j)
          /\ \A k \in Int : k > i => KeptPast(v, w, k)
      BY <2>5, <2>6, Zenon DEF OneBitWritten
    <2>8. \A j \in 0..(n - 1) : Files!Bit(w, j) \in BOOLEAN /\ Files!Bit(v, j) = IF j = m - 1 THEN Files!Bit(w, m) ELSE Files!Bit(w, j)
      BY <2>4, <2>7, Zenon
    <2>9. KeptPast(v, w, n)
      BY <2>1, <2>7
    <2> QED  BY <2>7, <2>8, <2>9, Zenon
  <1>3. \E f : P(f)
    <2> DEFINE s == [m \in 1..(n - 1) |-> [w \in FileArray |-> Moved(m, w)]]
    <2>1. s \in [1..(n - 1) -> [FileArray -> FileArray]]
      BY <1>2
    <2>2. \A m \in 1..(n - 1), w \in FileArray : s[m][w] = Moved(m, w)
      OBVIOUS
    <2> HIDE DEF s
    <2> PICK N \in Nat : N = n - 1
      BY <1>0
    <2>7. s \in Iterations(N, FileArray)
      BY <2>1, Zenon DEF Iterations
    <2>8. Terminates(N, FileArray, ws, s)
      BY <2>7, LoopRuns, Zenon
    <2>3. PICK f \in [0..N -> FileArray] : f[0] = ws /\ \A m \in 1..N : f[m] = s[m][f[m - 1]]
      BY <2>8, Zenon DEF Terminates
    <2> HIDE DEF Moved
    <2>4. ASSUME NEW m \in 0..N PROVE f[m] = IF m = 0 THEN ws ELSE Moved(m, f[m - 1])
      <3>1. CASE m = 0
        BY <2>3, <3>1
      <3>2. CASE m # 0
        <4>1. m \in 1..N /\ f[m - 1] \in FileArray
          BY <2>3, <3>2
        <4> QED  BY <2>2, <2>3, <3>2, <4>1
      <3> QED  BY <3>1, <3>2
    <2>5. f = [m \in 0..N |-> f[m]]
      BY <2>3
    <2>6. f = [m \in 0..N |-> IF m = 0 THEN ws ELSE Moved(m, f[m - 1])]
      BY <2>4, <2>5
    <2> QED  BY <2>6
  <1> HIDE DEF Moved
  <1> PICK u : P(u) /\ Files!ShiftRight(ws, n) = u[n - 1]
    BY <1>1, <1>3
  <1>4. u[0] = ws /\ \A m \in 1..(n - 1) : u[m] = Moved(m, u[m - 1])
    BY <1>0
  <1> HIDE DEF P
  <1> DEFINE Done(m) == /\ u[m] \in FileArray /\ KeptPast(u[m], ws, n)
                        /\ \A j \in 0..(n - 1) : Files!Bit(u[m], j) = IF j < m THEN Files!Bit(ws, j + 1) ELSE Files!Bit(ws, j)
             Left == {m \in 0..(n - 1) : ~Done(m)}
  <1>5. Done(0)
    BY <1>0, <1>4 DEF KeptPast
  <1>6. ASSUME NEW m \in 1..(n - 1), Done(m - 1) PROVE Done(m)
    <2> PICK w : w = u[m - 1]
      OBVIOUS
    <2> PICK v : v = u[m]
      OBVIOUS
    <2>1. /\ w \in FileArray /\ KeptPast(w, ws, n)
          /\ \A j \in 0..(n - 1) : Files!Bit(w, j) = IF j < m - 1 THEN Files!Bit(ws, j + 1) ELSE Files!Bit(ws, j)
      BY <1>0, <1>6
    <2>2. /\ v \in FileArray /\ KeptPast(v, w, n)
          /\ \A j \in 0..(n - 1) : Files!Bit(v, j) = IF j = m - 1 THEN Files!Bit(w, m) ELSE Files!Bit(w, j)
      <3>1. v = Moved(m, w)
        BY <1>4
      <3> QED  BY <1>2, <2>1, <3>1
    <2>3. KeptPast(v, ws, n)
      BY <2>1, <2>2 DEF KeptPast
    <2>4. ASSUME NEW j \in 0..(n - 1) PROVE Files!Bit(v, j) = IF j < m THEN Files!Bit(ws, j + 1) ELSE Files!Bit(ws, j)
      <3>1. CASE j = m - 1
        <4>1. m \in 0..(n - 1) /\ ~(m < m - 1) /\ j + 1 = m
          BY <1>0, <3>1
        <4> QED  BY <1>0, <2>1, <2>2, <3>1, <4>1
      <3>2. CASE j # m - 1
        BY <1>0, <2>1, <2>2, <3>2
      <3> QED  BY <3>1, <3>2
    <2> QED  BY <2>2, <2>3, <2>4
  <1>7. Left = {}
    <2> SUFFICES ASSUME Left # {} PROVE FALSE
      OBVIOUS
    <2>1. PICK m \in Left : \A k \in Left : m <= k
      <3> HIDE DEF Left
      <3>1. Left \subseteq Nat
        BY DEF Left
      <3> QED  BY <3>1, LeastNumber
    <2> HIDE DEF Done
    <2>2. m \in 0..(n - 1) /\ ~Done(m) /\ \A k \in 0..(n - 1) : k < m => Done(k)
      BY <2>1
    <2>3. m \in 1..(n - 1) /\ Done(m - 1)
      BY <1>0, <1>5, <2>2
    <2> QED  BY <1>6, <2>2, <2>3
  <1>8. Done(n - 1)
    BY <1>0, <1>7
  <1>9. \A j \in 0..(n - 2) : j \in 0..(n - 1) /\ j < n - 1
    BY <1>0
  <1> QED  BY <1>8, <1>9

-----------------------------------------------------------------------------
\* What BSL and BSR keep of their words and their CONTROL, and what a rising edge does to them.
FileControl == [LEN : Int, POS : Int, EN : BOOLEAN, DN : BOOLEAN, ER : BOOLEAN, UL : BOOLEAN]
FilesInv == v1 \in BOOLEAN /\ v2 \in BOOLEAN /\ v3 \in FileArray /\ v4 \in FileControl /\ ~(v4.DN /\ v4.ER)

LEMMA FilesStart ==
    ASSUME Files!FilesAssumption, Files!Init \/ Files!CopyInit
    PROVE  FilesInv
  <1>1. FileBits \in Nat /\ FileWords \in Nat /\ FileLens \subseteq Int
    BY DEF Files!FilesAssumption
  <1>2. CASE Files!Init
    <2>1. /\ v1 \in BOOLEAN /\ v2 \in BOOLEAN /\ v3 \in FileArray
          /\ v4 \in [LEN : FileLens, POS : {0}, EN : {FALSE}, DN : {FALSE}, ER : {FALSE}, UL : {FALSE}]
      BY <1>2 DEF Files!Init, Files!BitsOf, FileArray
    <2>2. v4 \in FileControl
      <3>1. {0} \subseteq Int /\ {FALSE} \subseteq BOOLEAN
        OBVIOUS
      <3> PICK O, Off : O = {0} /\ Off = {FALSE}
        OBVIOUS
      <3>2. v4 \in [LEN : FileLens, POS : O, EN : Off, DN : Off, ER : Off, UL : Off] /\ O \subseteq Int /\ Off \subseteq BOOLEAN
        BY <2>1, <3>1, Zenon
      <3> QED  BY <1>1, <3>2 DEF FileControl
    <2>3. ~v4.DN
      BY <2>1
    <2> QED  BY <2>1, <2>2, <2>3 DEF FilesInv
  <1>3. CASE Files!CopyInit
    <2>1. /\ v1 = TRUE /\ v2 = FALSE
          /\ v3 = [i \in 0..(FileWords - 1) |-> [k \in 0..(FileBits - 1) |-> FALSE]]
          /\ v4 = [LEN |-> 0, POS |-> 0, EN |-> FALSE, DN |-> FALSE, ER |-> FALSE, UL |-> FALSE]
      BY <1>3 DEF Files!CopyInit
    <2>2. v3 \in FileArray
      BY <2>1 DEF FileArray
    <2> PICK o \in Int : o = 0
      OBVIOUS
    <2>3. v4 = [LEN |-> o, POS |-> o, EN |-> FALSE, DN |-> FALSE, ER |-> FALSE, UL |-> FALSE]
      BY <2>1
    <2>4. v4 \in FileControl /\ ~v4.DN
      BY <2>3 DEF FileControl
    <2> QED  BY <2>1, <2>2, <2>4 DEF FilesInv
  <1> QED  BY <1>2, <1>3

\* The CONTROL after an edge.
LEMMA EdgeReports ==
    ASSUME Files!FilesAssumption, FilesInv, NEW b \in BOOLEAN, Files!ShiftEdge(b)
    PROVE  /\ v4' \in FileControl /\ v4'.EN /\ ~(v4'.DN /\ v4'.ER) /\ v4'.LEN = v4.LEN
           /\ v4'.ER <=> Files!Misfit(v4.LEN)
           /\ ~Files!Shifts => v3' = v3
           /\ Files!Shifts =>
                /\ v4'.UL = Files!Bit(v3, IF v1 THEN v4.LEN - 1 ELSE 0)
                /\ v3' = Files!WithBit(IF v1 THEN Files!ShiftLeft(v3, v4.LEN) ELSE Files!ShiftRight(v3, v4.LEN),
                                   IF v1 THEN 0 ELSE v4.LEN - 1, IF v2 THEN v4'.UL ELSE b)

  <1>0. v1 \in BOOLEAN /\ v2 \in BOOLEAN /\ v3 \in FileArray /\ v4 \in FileControl
    BY DEF FilesInv
  <1>1. /\ v4.LEN \in Int /\ Files!Capacity \in Int /\ Files!Capacity >= 0
    <2>1. FileBits \in Nat /\ FileWords - FileFirst \in Nat
      BY DEF Files!FilesAssumption
    <2>2. (FileWords - FileFirst) * FileBits \in Nat
      BY <2>1
    <2> QED  BY <1>0, <2>2 DEF Files!Capacity, FileControl
  <1>2. Files!Misfit(v4.LEN) <=> v4.LEN < 0 \/ v4.LEN > Files!Capacity
    BY DEF Files!Misfit
  <1>3. Files!Shifts <=> v4.LEN # 0 /\ ~Files!Misfit(v4.LEN)
    BY <1>1, <1>2 DEF Files!Shifts
  <1> PICK e : e = [v4 EXCEPT !.EN = TRUE, !.DN = FALSE, !.ER = FALSE, !.UL = FALSE]
    OBVIOUS
  <1>4. e \in FileControl /\ e.LEN = v4.LEN /\ e.EN /\ ~e.DN /\ ~e.ER /\ ~e.UL
    BY <1>0 DEF FileControl
  <1>5. CASE v4.LEN = 0
    <2>1. ~Files!Misfit(v4.LEN)
      BY <1>1, <1>2, <1>5
    <2> PICK y \in BOOLEAN : y = IF v2 THEN e.UL ELSE b
      BY <1>0, <1>4 DEF FileControl
    <2> PICK o \in Int : o = 0
      OBVIOUS
    <2>2. v4' = [e EXCEPT !.DN = TRUE, !.POS = 0, !.UL = IF v2 THEN e.UL ELSE b] /\ v3' = v3
      BY <1>5, <2>1 DEF Files!ShiftEdge
    <2>3. v4' = [e EXCEPT !.DN = TRUE, !.POS = o, !.UL = y]
      BY <2>2
    <2>4. v4' \in FileControl /\ v4'.EN /\ v4'.DN /\ ~v4'.ER /\ v4'.LEN = v4.LEN
      BY <1>4, <2>3 DEF FileControl
    <2> QED  BY <1>3, <1>5, <2>1, <2>2, <2>4
  <1>6. CASE Files!Misfit(v4.LEN)
    <2>1. v4.LEN # 0
      BY <1>1, <1>2, <1>6
    <2>2. v4' = [e EXCEPT !.ER = TRUE] /\ v3' = v3
      BY <1>6, <2>1 DEF Files!ShiftEdge
    <2>3. v4' \in FileControl /\ v4'.EN /\ ~v4'.DN /\ v4'.ER /\ v4'.LEN = v4.LEN
      BY <1>4, <2>2 DEF FileControl
    <2> QED  BY <1>3, <1>6, <2>2, <2>3
  <1>7. CASE v4.LEN # 0 /\ ~Files!Misfit(v4.LEN)
    <2> PICK top : top = Files!Bit(v3, IF v1 THEN v4.LEN - 1 ELSE 0)
      OBVIOUS
    <2>3. top \in BOOLEAN
      <3>1. (IF v1 THEN v4.LEN - 1 ELSE 0) \in 0..(Files!Capacity - 1)
        BY <1>0, <1>1, <1>2, <1>7
      <3> QED  BY <1>0, <3>1, BitRead
    <2> PICK n \in Int : n = v4.LEN
      BY <1>1
    <2> PICK u : u = [e EXCEPT !.UL = top, !.DN = TRUE, !.POS = n]
      OBVIOUS
    <2>1. /\ v4' = u
          /\ v3' = Files!WithBit(IF v1 THEN Files!ShiftLeft(v3, v4.LEN) ELSE Files!ShiftRight(v3, v4.LEN),
                             IF v1 THEN 0 ELSE v4.LEN - 1, IF v2 THEN u.UL ELSE b)
      BY <1>7 DEF Files!ShiftEdge
    <2>2. /\ u.UL = top /\ u.DN /\ ~u.ER /\ u.EN /\ u.LEN = v4.LEN /\ u \in FileControl
      BY <1>4, <2>3 DEF FileControl
    <2> QED  BY <1>3, <1>7, <2>1, <2>2
  <1> QED  BY <1>5, <1>6, <1>7

\* One edge with a usable LEN is a step of the delay line.
LEMMA EdgeShifts ==
    ASSUME Files!FilesAssumption, FilesInv, NEW b \in BOOLEAN, Files!ShiftEdge(b), Files!Shifts
    PROVE  /\ v3' \in FileArray /\ KeptPast(v3', v3, v4.LEN)
           /\ v4'.UL = Files!Bit(v3, IF v1 THEN v4.LEN - 1 ELSE 0)
           /\ \A j \in 0..(v4.LEN - 1) :
                Files!Bit(v3', j) = IF v1 THEN (IF j = 0 THEN (IF v2 THEN v4'.UL ELSE b) ELSE Files!Bit(v3, j - 1))
                                ELSE IF j = v4.LEN - 1 THEN (IF v2 THEN v4'.UL ELSE b) ELSE Files!Bit(v3, j + 1)
  <1>1. v1 \in BOOLEAN /\ v2 \in BOOLEAN /\ v3 \in FileArray /\ v4 \in FileControl /\ v4' \in FileControl
    BY EdgeReports DEF FilesInv
  <1> PICK n \in Int : n = v4.LEN
    BY <1>1 DEF FileControl
  <1>2. Files!Capacity \in Int /\ n \in 1..Files!Capacity
    <2>1. Files!Capacity \in Int
      BY DEF Files!Capacity, Files!FilesAssumption
    <2>2. 0 < n /\ n <= Files!Capacity
      BY Zenon DEF Files!Shifts
    <2> QED  BY <2>1, <2>2
  <1> PICK s : s = IF v1 THEN Files!ShiftLeft(v3, n) ELSE Files!ShiftRight(v3, n)
    OBVIOUS
  <1> PICK i : i = IF v1 THEN 0 ELSE n - 1
    OBVIOUS
  <1> PICK x : x = IF v2 THEN v4'.UL ELSE b
    OBVIOUS
  <1>3. /\ i \in 0..(Files!Capacity - 1) /\ i < n /\ x \in BOOLEAN
    BY <1>1, <1>2 DEF FileControl
  <1>4. v4'.UL = Files!Bit(v3, IF v1 THEN n - 1 ELSE 0) /\ v3' = Files!WithBit(s, i, x)
    BY EdgeReports, Zenon
  <1>5. s \in FileArray /\ KeptPast(s, v3, n)
    BY <1>1, <1>2, ShiftedLeft, ShiftedRight
  <1>6. \A j \in 0..(n - 1) : j # i => Files!Bit(s, j) = IF v1 THEN Files!Bit(v3, j - 1) ELSE Files!Bit(v3, j + 1)
    <2>1. CASE v1
      <3>1. \A j \in 1..(n - 1) : Files!Bit(s, j) = Files!Bit(v3, j - 1)
        BY <1>1, <1>2, <2>1, ShiftedLeft
      <3> QED  BY <2>1, <3>1
    <2>2. CASE ~v1
      <3>1. \A j \in 0..(n - 2) : Files!Bit(s, j) = Files!Bit(v3, j + 1)
        BY <1>1, <1>2, <2>2, ShiftedRight
      <3> QED  BY <1>2, <2>2, <3>1
    <2> QED  BY <1>1, <2>1, <2>2
  <1>7. OneBitWritten(v3', s, i, x)
    BY <1>3, <1>4, <1>5, BitWritten, Zenon
  <1>8. KeptPast(v3', v3, n)
    <2>1. KeptPast(v3', s, n)
      BY <1>3, <1>7 DEF OneBitWritten
    <2> QED  BY <1>5, <2>1, Zenon DEF KeptPast
  <1>9. ASSUME NEW j \in 0..(n - 1)
        PROVE  Files!Bit(v3', j) = IF v1 THEN (IF j = 0 THEN x ELSE Files!Bit(v3, j - 1))
                               ELSE IF j = n - 1 THEN x ELSE Files!Bit(v3, j + 1)
    <2>1. Files!Bit(v3', j) = IF j = i THEN x ELSE Files!Bit(s, j)
      <3>1. j \in 0..(Files!Capacity - 1)
        BY <1>2
      <3> QED  BY <1>7, <3>1, Zenon DEF OneBitWritten
    <2> QED  BY <1>6, <2>1
  <1> QED  BY <1>4, <1>7, <1>8, <1>9 DEF OneBitWritten

LEMMA ShiftsExact ==
    ASSUME Files!FilesAssumption, FilesInv, Files!ShiftNext
    PROVE  FilesInv' /\ Files!ConfinedStep /\ Files!ShiftStep
  <1>1. /\ v1 \in BOOLEAN /\ v2 \in BOOLEAN /\ v3 \in FileArray /\ v4 \in FileControl /\ ~(v4.DN /\ v4.ER)
        /\ v4.LEN \in Int /\ v1' = v1 /\ v2' = v2
    BY DEF FilesInv, FileControl, Files!ShiftNext, Files!Shift
  <1> PICK n \in Int : n = v4.LEN
    BY <1>1
  <1>2. PICK rc \in BOOLEAN, b \in BOOLEAN : Files!Shift(rc, b)
    BY DEF Files!ShiftNext
  <1>3. CASE ~rc \/ v4.EN
    <2>1. /\ v3' = v3 /\ v4' \in FileControl /\ ~(v4'.DN /\ v4'.ER) /\ ~(v4'.EN /\ ~v4.EN)
      <3>1. CASE ~rc
        <4>1. v3' = v3 /\ v4' = Files!Released(v4)
          BY <1>2, <3>1 DEF Files!Shift
        <4> PICK o \in Int : o = 0
          OBVIOUS
        <4>2. v4' = [v4 EXCEPT !.EN = FALSE, !.DN = FALSE, !.ER = FALSE, !.POS = o]
          BY <4>1 DEF Files!Released
        <4>3. v4' \in FileControl /\ ~v4'.EN /\ ~v4'.DN
          BY <1>1, <4>2 DEF FileControl
        <4> QED  BY <4>1, <4>3
      <3>2. CASE rc /\ v4.EN
        BY <1>1, <1>2, <3>2 DEF Files!Shift
      <3> QED  BY <1>2, <1>3, <3>1, <3>2
    <2>2. FilesInv'
      BY <1>1, <2>1 DEF FilesInv
    <2>3. Files!ConfinedStep
      BY <2>1 DEF Files!ConfinedStep, FileControl
    <2>4. CASE v4.EN
      BY <2>2, <2>3, <2>4 DEF Files!ShiftStep
    <2>5. CASE ~v4.EN
      <3>1. Files!ShiftStep
        <4> SUFFICES ASSUME NEW a \in BOOLEAN, Files!Shift(TRUE, a) PROVE FALSE
          BY DEF Files!ShiftStep
        <4>1. Files!ShiftEdge(a)
          BY <2>5 DEF Files!Shift
        <4>2. v4'.EN
          BY <4>1, EdgeReports
        <4> QED  BY <2>1, <2>5, <4>2
      <3> QED  BY <2>2, <2>3, <3>1
    <2> QED  BY <2>4, <2>5
  <1>4. CASE rc /\ ~v4.EN
    <2>1. Files!ShiftEdge(b)
      BY <1>2, <1>4 DEF Files!Shift
    <2>2. /\ v4' \in FileControl /\ v4'.EN /\ ~(v4'.DN /\ v4'.ER) /\ v4'.LEN = v4.LEN
          /\ v4'.ER <=> Files!Misfit(v4.LEN)
          /\ ~Files!Shifts => v3' = v3
      BY <2>1, EdgeReports
    <2>3. Files!Shifts => v3' \in FileArray /\ KeptPast(v3', v3, v4.LEN)
      BY <2>1, EdgeShifts
    <2>4. FilesInv'
      BY <1>1, <2>2, <2>3 DEF FilesInv
    <2>5. Files!ConfinedStep
      <3>1. v3' # v3 => Files!Shifts /\ ~v4.EN /\ v4'.EN
        BY <1>4, <2>2
      <3>2. \A i \in 0..(FileWords - 1), k \in 0..(FileBits - 1) :
                (i < FileFirst \/ (i - FileFirst) * FileBits + k >= v4.LEN) => v3'[i][k] = v3[i][k]
        BY <2>2, <2>3, Zenon DEF KeptPast
      <3>3. v4'.ER = (v4.LEN < 0 \/ v4.LEN > Files!Capacity)
        BY <2>2 DEF Files!Misfit, FileControl
      <3> QED  BY <2>2, <3>1, <3>2, <3>3, Zenon DEF Files!ConfinedStep
    <2>6. Files!ShiftStep
      <3> SUFFICES ASSUME NEW a \in BOOLEAN, Files!Shift(TRUE, a), Files!Shifts
                   PROVE  LET in == IF v2 THEN v4'.UL ELSE a
                              m == v4.LEN
                          IN /\ v4'.UL = Files!File(v3)[IF v1 THEN m - 1 ELSE 0]
                             /\ Files!File(v3') = [i \in 0..(m - 1) |->
                                     IF v1 THEN IF i = 0 THEN in ELSE Files!File(v3)[i - 1]
                                     ELSE IF i = m - 1 THEN in ELSE Files!File(v3)[i + 1]]
        BY Zenon DEF Files!ShiftStep
      <3>1. Files!ShiftEdge(a)
        BY <1>4 DEF Files!Shift
      <3> PICK x : x = IF v2 THEN v4'.UL ELSE a
        OBVIOUS
      <3>2. /\ v4'.UL = Files!Bit(v3, IF v1 THEN n - 1 ELSE 0)
            /\ \A j \in 0..(n - 1) :
                  Files!Bit(v3', j) = IF v1 THEN (IF j = 0 THEN x ELSE Files!Bit(v3, j - 1))
                                  ELSE IF j = n - 1 THEN x ELSE Files!Bit(v3, j + 1)
        BY <3>1, EdgeShifts, Zenon
      <3>3. 0 < n
        BY Zenon DEF Files!Shifts
      <3> PICK f : f = Files!File(v3)
        OBVIOUS
      <3>4. \A j \in 0..(n - 1) : f[j] = Files!Bit(v3, j)
        BY DEF Files!File
      <3>5. Files!File(v3') = [j \in 0..(n - 1) |-> Files!Bit(v3', j)]
        BY Zenon DEF Files!File
      <3>6. Files!File(v3') = [j \in 0..(n - 1) |-> IF v1 THEN IF j = 0 THEN x ELSE f[j - 1]
                                                ELSE IF j = n - 1 THEN x ELSE f[j + 1]]
        <4>1. \A j \in 0..(n - 1) : Files!Bit(v3', j) = IF v1 THEN IF j = 0 THEN x ELSE f[j - 1]
                                                    ELSE IF j = n - 1 THEN x ELSE f[j + 1]
          BY <3>2, <3>3, <3>4
        <4> QED  BY <3>5, <4>1
      <3>7. v4'.UL = f[IF v1 THEN n - 1 ELSE 0]
        BY <3>2, <3>3, <3>4
      <3> QED  BY <3>6, <3>7, Zenon
    <2> QED  BY <2>4, <2>5, <2>6
  <1> QED  BY <1>2, <1>3, <1>4

-----------------------------------------------------------------------------
\* Arrays of elements of z bytes.
ElementArray(z) == [0..(FileElements - 1) -> [0..(z - 1) -> Int]]
OneByteWritten(us, a, z, k, v) ==
    /\ us \in ElementArray(z)
    /\ \A x \in 0..(FileElements * z - 1) : Files!ByteAt(a, x) \in Int /\ Files!ByteAt(us, x) = IF x = k THEN v ELSE Files!ByteAt(a, x)

LEMMA SizeIs ==
    ASSUME FileElements \in Nat \ {0}, NEW z \in Nat \ {0}, NEW a \in ElementArray(z)
    PROVE  Files!SizeOf(a) = z
  <1>1. DOMAIN a[0] = 0..(z - 1)
    BY DEF ElementArray
  <1>2. Cardinality(0..(z - 1)) = z
    <2> PICK t \in Int : t = z - 1
      OBVIOUS
    <2>1. Cardinality(0..t) = IF 0 > t THEN 0 ELSE t - 0 + 1
      BY FS_Interval
    <2> QED  BY <2>1
  <1>3. Files!SizeOf(a) = Cardinality(DOMAIN a[0])
    BY Zenon DEF Files!SizeOf, Files!Cardinality, Cardinality
  <1> QED  BY <1>1, <1>2, <1>3, Zenon

LEMMA ByteIn ==
    ASSUME NEW E \in Nat, NEW z \in Nat \ {0}, NEW i \in 0..(E * z - 1)
    PROVE  /\ i \div z \in 0..(E - 1) /\ i % z \in 0..(z - 1) /\ i = (i \div z) * z + (i % z)
  <1> DEFINE q == i \div z
  <1>1. i \in Nat /\ i < E * z
    OBVIOUS
  <1>2. q \in Nat /\ i % z \in 0..(z - 1) /\ i = q * z + (i % z)
    BY <1>1, BitPlace
  <1> HIDE DEF q
  <1>3. ~(q >= E)
    <2> DEFINE e == q - E
    <2>1. e >= 0 => e * z >= 0
      BY <1>2
    <2>2. e * z = q * z - E * z
      BY <1>2
    <2>3. e * z < 0
      BY <1>1, <1>2, <2>2
    <2> QED  BY <1>2, <2>1, <2>3
  <1> QED  BY <1>2, <1>3 DEF q

LEMMA ByteWritten ==
    ASSUME FileElements \in Nat \ {0}, NEW z \in Nat \ {0}, NEW a \in ElementArray(z),
           NEW k \in 0..(FileElements * z - 1), NEW v \in Int
    PROVE  OneByteWritten(Files!WithByte(a, k, v), a, z, k, v)
  <1> PICK m : m = k \div z
    OBVIOUS
  <1> PICK t : t = k % z
    OBVIOUS
  <1>1. m \in 0..(FileElements - 1) /\ t \in 0..(z - 1) /\ k = m * z + t
    BY ByteIn
  <1> PICK us : us = Files!WithByte(a, k, v)
    OBVIOUS
  <1>2. us = [a EXCEPT ![m][t] = v]
    <2>1. Files!SizeOf(a) = z
      BY SizeIs
    <2> QED  BY <2>1, Zenon DEF Files!WithByte
  <1>3. /\ us \in ElementArray(z)
        /\ \A x \in 0..(FileElements - 1), y \in 0..(z - 1) : us[x][y] = IF x = m /\ y = t THEN v ELSE a[x][y]
    <2> PICK row : row = [a[m] EXCEPT ![t] = v]
      OBVIOUS
    <2>1. us = [a EXCEPT ![m] = row]
      BY <1>2
    <2>2. /\ row \in [0..(z - 1) -> Int]
          /\ \A y \in 0..(z - 1) : row[y] = IF y = t THEN v ELSE a[m][y]
      BY <1>1 DEF ElementArray
    <2>3. us \in ElementArray(z) /\ \A x \in 0..(FileElements - 1) : us[x] = IF x = m THEN row ELSE a[x]
      BY <1>1, <2>1, <2>2 DEF ElementArray
    <2> QED  BY <2>2, <2>3
  <1>4. Files!SizeOf(a) = z /\ Files!SizeOf(us) = z
    BY <1>3, SizeIs
  <1>5. ASSUME NEW j \in 0..(FileElements * z - 1)
        PROVE  Files!ByteAt(a, j) \in Int /\ Files!ByteAt(us, j) = IF j = k THEN v ELSE Files!ByteAt(a, j)
    <2> PICK e : e = j \div z
      OBVIOUS
    <2> PICK r : r = j % z
      OBVIOUS
    <2>1. e \in 0..(FileElements - 1) /\ r \in 0..(z - 1) /\ j = e * z + r
      BY ByteIn
    <2>2. Files!ByteAt(a, j) = a[e][r] /\ Files!ByteAt(us, j) = us[e][r]
      BY <1>4, Zenon DEF Files!ByteAt
    <2>3. a[e][r] \in Int
      BY <2>1 DEF ElementArray
    <2>4. e = m /\ r = t <=> j = k
      <3>1. e = m /\ r = t => j = k
        BY <1>1, <2>1
      <3>2. j = k => e = m /\ r = t
        OBVIOUS
      <3> QED  BY <3>1, <3>2
    <2> QED  BY <1>3, <2>1, <2>2, <2>3, <2>4
  <1>6. OneByteWritten(us, a, z, k, v)
    BY <1>3, <1>5 DEF OneByteWritten
  <1> QED  BY <1>6, Zenon

LEMMA ByteRead ==
    ASSUME FileElements \in Nat \ {0}, NEW z \in Nat \ {0}, NEW a \in ElementArray(z), NEW k \in 0..(FileElements * z - 1)
    PROVE  Files!ByteAt(a, k) \in Int
  <1> PICK o \in Int : o = 0
    OBVIOUS
  <1>1. OneByteWritten(Files!WithByte(a, k, o), a, z, k, o)
    BY ByteWritten, Zenon
  <1> QED  BY <1>1, Zenon DEF OneByteWritten

BytesLoop(c, I, J) ==
    (CHOOSE f : f = [m \in 0..c |-> IF m = 0 THEN v6
                                    ELSE Files!WithByte(f[m - 1], m - 1 + J, Files!ByteAt(v5, m - 1 + I))])[c]

\* COP between integers: byte k of what is copied comes from byte k of the source.
LEMMA BytesCopied ==
    ASSUME FileElements \in Nat \ {0}, NEW y \in Nat \ {0}, NEW z \in Nat \ {0},
           v5 \in ElementArray(y), v6 \in ElementArray(z),
           NEW n \in Int, NEW i \in 0..(FileElements - 1), NEW j \in 0..(FileElements - 1), Files!CopyBytes(n, i, j)
    PROVE  \A k \in 0..(FileElements * Files!SizeOf(v6) - 1) :
                LET at == k - j * Files!SizeOf(v6) IN
                Files!ByteAt(v6', k) =
                    IF 0 <= at /\ k < (j + n) * Files!SizeOf(v6) /\ at + i * Files!SizeOf(v5) < FileElements * Files!SizeOf(v5)
                    THEN Files!ByteAt(v5, at + i * Files!SizeOf(v5)) ELSE Files!ByteAt(v6, k)
  <1>1. Files!SizeOf(v5) = y /\ Files!SizeOf(v6) = z
    BY SizeIs
  <1> PICK I : I = i * y
    OBVIOUS
  <1> PICK J : J = j * z
    OBVIOUS
  <1> PICK c \in Int : c = Files!ByteCount(n, i, j)
    <2>1. n * z \in Int /\ (FileElements - j) * z \in Int /\ (FileElements - i) * y \in Int
      OBVIOUS
    <2> PICK p \in Int, q \in Int, r \in Int :
            p = n * z /\ q = (FileElements - j) * z /\ r = (FileElements - i) * y
      BY <2>1
    <2>2. LeastOf(Files!Least({p, q, r}), p, q, r)
      BY LeastOfThree, Zenon
    <2>3. Files!ByteCount(n, i, j) = Files!Least({p, q, r})
      BY <1>1, Zenon DEF Files!ByteCount
    <2> QED  BY <2>2, <2>3 DEF LeastOf
  <1>2. /\ I \in Nat /\ J \in Nat /\ FileElements * y \in Nat /\ FileElements * z \in Nat /\ n * z \in Int
        /\ (j + n) * z = J + n * z
    OBVIOUS
  <1>3. /\ c <= n * z /\ c <= FileElements * z - J /\ c <= FileElements * y - I
        /\ c \in {n * z, FileElements * z - J, FileElements * y - I}
    <2>1. n * z \in Int /\ (FileElements - j) * z \in Int /\ (FileElements - i) * y \in Int
      OBVIOUS
    <2>2. (FileElements - j) * z = FileElements * z - J /\ (FileElements - i) * y = FileElements * y - I
      OBVIOUS
    <2>3. c = Files!Least({n * z, (FileElements - j) * z, (FileElements - i) * y})
      BY <1>1, Zenon DEF Files!ByteCount
    <2> PICK p \in Int : p = n * z
      BY <2>1
    <2> PICK q \in Int : q = FileElements * z - J
      BY <1>2
    <2> PICK r \in Int : r = FileElements * y - I
      BY <1>2
    <2>4. c = Files!Least({p, q, r})
      BY <2>2, <2>3, Zenon
    <2>5. LeastOf(c, p, q, r)
      BY <2>4, LeastOfThree, Zenon
    <2> QED  BY <2>5 DEF LeastOf
  <1> DEFINE Moved(m, w) == Files!WithByte(w, m - 1 + J, Files!ByteAt(v5, m - 1 + I))
             P(f) == f = [m \in 0..c |-> IF m = 0 THEN v6 ELSE Moved(m, f[m - 1])]
             Copied(m, k) == IF k >= J /\ k < J + m THEN Files!ByteAt(v5, k - J + I) ELSE Files!ByteAt(v6, k)
  <1>4. v6' = IF c <= 0 THEN v6 ELSE (CHOOSE f : P(f))[c]
    <2>1. v6' = IF Files!ByteCount(n, i, j) <= 0 THEN v6
                ELSE BytesLoop(Files!ByteCount(n, i, j), i * Files!SizeOf(v5), j * Files!SizeOf(v6))
      BY Zenon DEF Files!CopyBytes, BytesLoop
    <2>2. v6' = IF c <= 0 THEN v6 ELSE BytesLoop(c, I, J)
      BY <1>1, <2>1, Zenon
    <2> QED  BY <2>2, Zenon DEF BytesLoop
  <1>5. ASSUME \A k \in 0..(FileElements * z - 1) : Files!ByteAt(v6', k) = IF c <= 0 THEN Files!ByteAt(v6, k) ELSE Copied(c, k)
        PROVE  \A k \in 0..(FileElements * z - 1) :
                LET at == k - J IN
                Files!ByteAt(v6', k) = IF 0 <= at /\ k < (j + n) * z /\ at + I < FileElements * y
                                   THEN Files!ByteAt(v5, at + I) ELSE Files!ByteAt(v6, k)
    BY <1>2, <1>3, <1>5
  <1>6. CASE c <= 0
    BY <1>1, <1>4, <1>5, <1>6
  <1>7. CASE c > 0
    <2>1. ASSUME NEW m \in 1..c, NEW w \in ElementArray(z)
          PROVE  /\ Moved(m, w) \in ElementArray(z)
                 /\ \A k \in 0..(FileElements * z - 1) :
                      Files!ByteAt(Moved(m, w), k) = IF k = m - 1 + J THEN Files!ByteAt(v5, m - 1 + I) ELSE Files!ByteAt(w, k)
      <3> PICK k \in 0..(FileElements * z - 1) : k = m - 1 + J
        BY <1>2, <1>3
      <3> PICK h \in 0..(FileElements * y - 1) : h = m - 1 + I
        BY <1>2, <1>3
      <3> PICK v \in Int : v = Files!ByteAt(v5, h)
        BY ByteRead
      <3> PICK x : x = Moved(m, w)
        OBVIOUS
      <3>1. x = Files!WithByte(w, k, v)
        BY Zenon
      <3> HIDE DEF Moved
      <3>2. OneByteWritten(x, w, z, k, v)
        BY <3>1, ByteWritten, Zenon
      <3> QED  BY <3>2, Zenon DEF OneByteWritten
    <2>2. \E f : P(f)
      <3> DEFINE s == [m \in 1..c |-> [w \in ElementArray(z) |-> Moved(m, w)]]
      <3>1. s \in [1..c -> [ElementArray(z) -> ElementArray(z)]]
        BY <2>1
      <3>2. \A m \in 1..c, w \in ElementArray(z) : s[m][w] = Moved(m, w)
        OBVIOUS
      <3>3. s \in Iterations(c, ElementArray(z)) /\ c \in Nat
        BY <1>7, <3>1 DEF Iterations
      <3> HIDE DEF s
      <3>4. Terminates(c, ElementArray(z), v6, s)
        BY <3>3, LoopRuns, Zenon
      <3>5. PICK f \in [0..c -> ElementArray(z)] : f[0] = v6 /\ \A m \in 1..c : f[m] = s[m][f[m - 1]]
        BY <3>4, Zenon DEF Terminates
      <3> HIDE DEF Moved
      <3>6. ASSUME NEW m \in 0..c PROVE f[m] = IF m = 0 THEN v6 ELSE Moved(m, f[m - 1])
        <4>1. CASE m = 0
          BY <3>5, <4>1
        <4>2. CASE m # 0
          <5>1. m \in 1..c /\ f[m - 1] \in ElementArray(z)
            BY <3>5, <4>2
          <5> QED  BY <3>2, <3>5, <4>2, <5>1
        <4> QED  BY <4>1, <4>2
      <3>7. f = [m \in 0..c |-> f[m]]
        BY <3>5
      <3>8. f = [m \in 0..c |-> IF m = 0 THEN v6 ELSE Moved(m, f[m - 1])]
        BY <3>6, <3>7
      <3> QED  BY <3>8
    <2> HIDE DEF Moved, P
    <2> PICK u : P(u) /\ v6' = u[c]
      <3>1. v6' = (CHOOSE f : P(f))[c]
        BY <1>4, <1>7
      <3> QED  BY <2>2, <3>1, Zenon
    <2> USE DEF P
    <2>3. u[0] = v6 /\ \A m \in 1..c : u[m] = Moved(m, u[m - 1])
      BY <1>7
    <2> HIDE DEF P
    <2> DEFINE Done(m) == u[m] \in ElementArray(z) /\ \A k \in 0..(FileElements * z - 1) : Files!ByteAt(u[m], k) = Copied(m, k)
               Left == {m \in 0..c : ~Done(m)}
    <2>4. Done(0)
      BY <1>2, <2>3
    <2>5. ASSUME NEW m \in 1..c, Done(m - 1) PROVE Done(m)
      <3> PICK w : w = u[m - 1]
        OBVIOUS
      <3> PICK v : v = u[m]
        OBVIOUS
      <3>1. /\ w \in ElementArray(z)
            /\ \A k \in 0..(FileElements * z - 1) :
                  Files!ByteAt(w, k) = IF k >= J /\ k < J + m - 1 THEN Files!ByteAt(v5, k - J + I) ELSE Files!ByteAt(v6, k)
        BY <1>2, <2>5
      <3>2. /\ v \in ElementArray(z)
            /\ \A k \in 0..(FileElements * z - 1) :
                  Files!ByteAt(v, k) = IF k = m - 1 + J THEN Files!ByteAt(v5, m - 1 + I) ELSE Files!ByteAt(w, k)
        BY <2>1, <2>3, <3>1
      <3>3. ASSUME NEW k \in 0..(FileElements * z - 1) PROVE Files!ByteAt(v, k) = Copied(m, k)
        <4>1. k = m - 1 + J => k - J + I = m - 1 + I
          BY <1>2
        <4> QED  BY <1>2, <3>1, <3>2, <4>1
      <3> QED  BY <3>2, <3>3
    <2>6. Left = {}
      <3> SUFFICES ASSUME Left # {} PROVE FALSE
        OBVIOUS
      <3>1. PICK m \in Left : \A k \in Left : m <= k
        <4> HIDE DEF Left
        <4>1. Left \subseteq Nat
          BY DEF Left
        <4> QED  BY <4>1, LeastNumber
      <3> HIDE DEF Done
      <3>2. m \in 0..c /\ ~Done(m) /\ \A k \in 0..c : k < m => Done(k)
        BY <3>1
      <3>3. m \in 1..c /\ Done(m - 1)
        BY <2>4, <3>2
      <3> QED  BY <2>5, <3>2, <3>3
    <2>7. Done(c)
      BY <1>7, <2>6
    <2> QED  BY <1>1, <1>5, <1>7, <2>7
  <1> QED  BY <1>6, <1>7

\* COP inside an array: an element the loop has written already is read again.
ElementsLoop(c, i, j) ==
    (CHOOSE f : f = [m \in 0..c |-> IF m = 0 THEN v5
                                    ELSE [f[m - 1] EXCEPT ![j + m - 1] = f[m - 1][i + m - 1]]])[c]

\* A number has one quotient and one remainder.
SamePlace(w, d, r, q, t) == d * w + r = q * w + t => r = t

LEMMA OnePlace ==
    ASSUME NEW w \in Nat \ {0}, NEW d \in Int, NEW q \in Int, NEW r \in 0..(w - 1), NEW t \in 0..(w - 1)
    PROVE  SamePlace(w, d, r, q, t)
  <1> SUFFICES ASSUME d * w + r = q * w + t PROVE r = t
    BY DEF SamePlace
  <1>1. (d - q) * w = t - r
    OBVIOUS
  <1>2. ~(d - q >= 1)
    <2>1. d - q >= 1 => (d - q) * w >= w
      OBVIOUS
    <2> QED  BY <1>1, <2>1
  <1>3. ~(q - d >= 1)
    <2>1. q - d >= 1 => (q - d) * w >= w
      OBVIOUS
    <2>2. (q - d) * w = r - t
      OBVIOUS
    <2> QED  BY <2>1, <2>2
  <1>4. d = q
    BY <1>2, <1>3
  <1> QED  BY <1>1, <1>4

LEMMA RepeatsAt ==
    ASSUME NEW d \in Nat \ {0}, NEW y \in Nat
    PROVE  /\ y < d => y % d = y
           /\ y >= d => (y - d) % d = y % d
           /\ y % d \in 0..(d - 1)
  <1> PICK a \in Nat : a = y \div d
    OBVIOUS
  <1> PICK t \in 0..(d - 1) : t = y % d
    OBVIOUS
  <1>1. y = a * d + t
    BY BitPlace
  <1>2. y < d => y % d = y
    <2> SUFFICES ASSUME y < d PROVE y = t
      OBVIOUS
    <2>1. y \in 0..(d - 1) /\ 0 \in Int /\ a \in Int
      OBVIOUS
    <2>2. SamePlace(d, 0, y, a, t)
      BY <2>1, OnePlace, Zenon
    <2>3. 0 * d + y = a * d + t
      BY <1>1
    <2> QED  BY <2>2, <2>3, Zenon DEF SamePlace
  <1>3. ASSUME y >= d PROVE (y - d) % d = y % d
    <2> PICK x \in Nat : x = y - d
      BY <1>3
    <2> PICK q \in Nat : q = x \div d
      OBVIOUS
    <2> PICK r \in 0..(d - 1) : r = x % d
      OBVIOUS
    <2>1. x = q * d + r
      BY BitPlace
    <2>2. (q + 1) * d + r = a * d + t
      BY <1>1, <2>1
    <2>3. SamePlace(d, q + 1, r, a, t)
      <3>1. q + 1 \in Int /\ a \in Int
        OBVIOUS
      <3> QED  BY <3>1, OnePlace, Zenon
    <2>4. r = t
      BY <2>2, <2>3, Zenon DEF SamePlace
    <2> QED  BY <2>4, Zenon
  <1> QED  BY <1>2, <1>3

LEMMA ElementsCopied ==
    ASSUME FileElements \in Nat \ {0}, NEW y \in Nat \ {0}, v5 \in ElementArray(y),
           NEW n \in Int, NEW i \in 0..(FileElements - 1), NEW j \in 0..(FileElements - 1), Files!CopyWithin(n, i, j)
    PROVE  \A k \in 0..(FileElements - 1) :
                v5'[k] = IF k < j \/ k >= j + n \/ i + k - j >= FileElements THEN v5[k]
                         ELSE v5[i + IF i < j THEN (k - j) % (j - i) ELSE k - j]
  <1> PICK p \in Int, q \in Int : p = FileElements - i /\ q = FileElements - j
    OBVIOUS
  <1> PICK c \in Int : c = Files!Count(n, i, j) /\ LeastOf(c, n, p, q)
    <2>1. LeastOf(Files!Least({n, p, q}), n, p, q)
      BY LeastOfThree, Zenon
    <2>2. Files!Count(n, i, j) = Files!Least({n, p, q})
      BY Zenon DEF Files!Count
    <2> QED  BY <2>1, <2>2 DEF LeastOf
  <1>1. /\ c <= n /\ c <= FileElements - i /\ c <= FileElements - j
        /\ c \in {n, FileElements - i, FileElements - j}
    BY DEF LeastOf
  <1> DEFINE T == ElementArray(y)
             Moved(m, w) == [w EXCEPT ![j + m - 1] = w[i + m - 1]]
             P(f) == f = [m \in 0..c |-> IF m = 0 THEN v5 ELSE Moved(m, f[m - 1])]
             From(k) == i + IF i < j THEN (k - j) % (j - i) ELSE k - j
             Copied(m, k) == IF k >= j /\ k < j + m THEN v5[From(k)] ELSE v5[k]
  <1>2. v5' = IF c <= 0 THEN v5 ELSE (CHOOSE f : P(f))[c]
    <2>1. v5' = IF Files!Count(n, i, j) <= 0 THEN v5 ELSE ElementsLoop(Files!Count(n, i, j), i, j)
      BY Zenon DEF Files!CopyWithin, ElementsLoop
    <2>2. v5' = IF c <= 0 THEN v5 ELSE ElementsLoop(c, i, j)
      BY <2>1, Zenon
    <2> QED  BY <2>2, Zenon DEF ElementsLoop
  <1> HIDE DEF From
  <1>3. ASSUME \A k \in 0..(FileElements - 1) : v5'[k] = IF c <= 0 THEN v5[k] ELSE Copied(c, k)
        PROVE  \A k \in 0..(FileElements - 1) :
                v5'[k] = IF k < j \/ k >= j + n \/ i + k - j >= FileElements THEN v5[k] ELSE v5[From(k)]
    BY <1>1, <1>3
  <1>4. CASE c <= 0
    <2>1. v5' = v5
      BY <1>2, <1>4
    <2> QED  BY <1>3, <1>4, <2>1 DEF From
  <1>5. CASE c > 0
    <2>1. ASSUME NEW m \in 1..c, NEW w \in T
          PROVE  /\ Moved(m, w) \in T
                 /\ \A k \in 0..(FileElements - 1) : Moved(m, w)[k] = IF k = j + m - 1 THEN w[i + m - 1] ELSE w[k]
      <3> PICK k \in 0..(FileElements - 1) : k = j + m - 1
        BY <1>1
      <3> PICK h \in 0..(FileElements - 1) : h = i + m - 1
        BY <1>1
      <3>1. w[h] \in [0..(y - 1) -> Int]
        BY DEF ElementArray
      <3> PICK x : x = [w EXCEPT ![k] = w[h]]
        OBVIOUS
      <3>2. x \in T /\ \A l \in 0..(FileElements - 1) : x[l] = IF l = k THEN w[h] ELSE w[l]
        BY <3>1 DEF ElementArray
      <3>3. x = Moved(m, w)
        BY Zenon
      <3> HIDE DEF Moved, T
      <3> QED  BY <3>2, <3>3, Zenon
    <2> HIDE DEF T, Moved
    <2>2. \E f : P(f)
      <3> DEFINE s == [m \in 1..c |-> [w \in T |-> Moved(m, w)]]
      <3>1. s \in [1..c -> [T -> T]]
        BY <2>1
      <3>2. \A m \in 1..c, w \in T : s[m][w] = Moved(m, w)
        OBVIOUS
      <3>3. s \in Iterations(c, T) /\ c \in Nat /\ v5 \in T
        BY <1>5, <3>1 DEF Iterations, T
      <3> HIDE DEF s
      <3>4. Terminates(c, T, v5, s)
        BY <3>3, LoopRuns, Zenon
      <3>5. PICK f \in [0..c -> T] : f[0] = v5 /\ \A m \in 1..c : f[m] = s[m][f[m - 1]]
        BY <3>4, Zenon DEF Terminates
      <3>6. ASSUME NEW m \in 0..c PROVE f[m] = IF m = 0 THEN v5 ELSE Moved(m, f[m - 1])
        <4>1. CASE m = 0
          BY <3>5, <4>1
        <4>2. CASE m # 0
          <5>1. m \in 1..c /\ f[m - 1] \in T
            BY <3>5, <4>2
          <5> QED  BY <3>2, <3>5, <4>2, <5>1
        <4> QED  BY <4>1, <4>2
      <3>7. f = [m \in 0..c |-> f[m]]
        BY <3>5
      <3>8. f = [m \in 0..c |-> IF m = 0 THEN v5 ELSE Moved(m, f[m - 1])]
        BY <3>6, <3>7
      <3> QED  BY <3>8
    <2> HIDE DEF P
    <2> PICK u : P(u) /\ v5' = u[c]
      <3>1. v5' = (CHOOSE f : P(f))[c]
        BY <1>2, <1>5
      <3> QED  BY <2>2, <3>1, Zenon
    <2>3. u[0] = v5 /\ \A m \in 1..c : u[m] = Moved(m, u[m - 1])
      BY <1>5 DEF P
    <2> DEFINE Done(m) == u[m] \in T /\ \A k \in 0..(FileElements - 1) : u[m][k] = Copied(m, k)
               Left == {m \in 0..c : ~Done(m)}
    <2>4. Done(0)
      BY <2>3 DEF T
    <2>5. ASSUME NEW m \in 1..c, Done(m - 1) PROVE Done(m)
      <3> PICK w : w = u[m - 1]
        OBVIOUS
      <3> PICK v : v = u[m]
        OBVIOUS
      <3>1. /\ w \in T
            /\ \A k \in 0..(FileElements - 1) : w[k] = IF k >= j /\ k < j + m - 1 THEN v5[From(k)] ELSE v5[k]
        BY <2>5
      <3>2. /\ v \in T
            /\ \A k \in 0..(FileElements - 1) : v[k] = IF k = j + m - 1 THEN w[i + m - 1] ELSE w[k]
        BY <2>1, <2>3, <3>1
      <3>3. w[i + m - 1] = v5[From(j + m - 1)]
        <4> PICK h \in 0..(FileElements - 1) : h = i + m - 1
          BY <1>1
        <4>1. CASE i >= j
          <5>1. From(j + m - 1) = h /\ ~(h < j + m - 1)
            BY <4>1 DEF From
          <5> QED  BY <3>1, <5>1
        <4>2. CASE i < j
          <5> PICK d \in Nat \ {0} : d = j - i
            BY <4>2
          <5> PICK t \in Nat : t = m - 1
            OBVIOUS
          <5>1. From(j + m - 1) = i + (t % d)
            <6>1. From(j + m - 1) = i + ((j + m - 1 - j) % (j - i))
              BY <4>2 DEF From
            <6>2. j + m - 1 - j = t
              OBVIOUS
            <6> QED  BY <6>1, <6>2, Zenon
          <5>2. CASE h < j
            <6>1. t < d /\ h = i + t
              BY <5>2
            <6>2. t % d = t
              BY <6>1, RepeatsAt
            <6> QED  BY <3>1, <5>1, <5>2, <6>1, <6>2
          <5>3. CASE h >= j
            <6> PICK x \in Nat : x = t - d
              BY <5>3
            <6>1. t >= d /\ h - j = x /\ h < j + m - 1
              BY <5>3
            <6>2. x % d = t % d
              BY <6>1, RepeatsAt
            <6>3. From(h) = i + (x % d)
              <7>1. From(h) = i + ((h - j) % (j - i))
                BY <4>2 DEF From
              <7> QED  BY <6>1, <7>1, Zenon
            <6> QED  BY <3>1, <5>1, <5>3, <6>1, <6>2, <6>3
          <5> QED  BY <5>2, <5>3
        <4> QED  BY <4>1, <4>2
      <3>4. ASSUME NEW k \in 0..(FileElements - 1) PROVE v[k] = Copied(m, k)
        <4>1. CASE k = j + m - 1
          BY <3>2, <3>3, <4>1
        <4>2. CASE k # j + m - 1
          BY <3>1, <3>2, <4>2
        <4> QED  BY <4>1, <4>2
      <3> QED  BY <3>2, <3>4
    <2>6. Left = {}
      <3> SUFFICES ASSUME Left # {} PROVE FALSE
        OBVIOUS
      <3>1. PICK m \in Left : \A k \in Left : m <= k
        <4> HIDE DEF Left
        <4>1. Left \subseteq Nat
          BY DEF Left
        <4> QED  BY <4>1, LeastNumber
      <3> HIDE DEF Done
      <3>2. m \in 0..c /\ ~Done(m) /\ \A k \in 0..c : k < m => Done(k)
        BY <3>1
      <3>3. m \in 1..c /\ Done(m - 1)
        BY <2>4, <3>2
      <3> QED  BY <2>5, <3>2, <3>3
    <2>7. Done(c)
      BY <1>5, <2>6
    <2> QED  BY <1>3, <1>5, <2>7 DEF From
  <1> QED  BY <1>4, <1>5

\* FLL: an element of the array into each that fits.
LEMMA ElementsFilled ==
    ASSUME FileElements \in Nat \ {0}, NEW y \in Nat \ {0}, v5 \in ElementArray(y),
           NEW n \in Int, NEW i \in 0..(FileElements - 1), NEW j \in 0..(FileElements - 1), Files!Fill(n, i, j)
    PROVE  /\ v5' \in ElementArray(y)
           /\ \A k \in 0..(FileElements - 1) : v5'[k] = IF j <= k /\ k < j + n THEN v5[i] ELSE v5[k]
  <1> PICK q \in Int : q = FileElements - j
    OBVIOUS
  <1> PICK c \in Int : c = Files!Count(n, j, j) /\ LeastOf(c, n, q, q)
    <2>1. LeastOf(Files!Least({n, q, q}), n, q, q)
      BY LeastOfThree, Zenon
    <2>2. Files!Count(n, j, j) = Files!Least({n, q, q})
      BY Zenon DEF Files!Count
    <2> QED  BY <2>1, <2>2 DEF LeastOf
  <1>1. c <= n /\ c <= q /\ (c = n \/ c = q)
    BY DEF LeastOf
  <1>2. v5' = [k \in 0..(FileElements - 1) |-> IF k \in Files!Filled(n, j) THEN v5[i] ELSE v5[k]]
    BY DEF Files!Fill
  <1>3. \A k \in 0..(FileElements - 1) : k \in Files!Filled(n, j) <=> j <= k /\ k < j + c
    BY DEF Files!Filled
  <1>4. \A k \in 0..(FileElements - 1) : k \in Files!Filled(n, j) <=> j <= k /\ k < j + n
    BY <1>1, <1>3
  <1>5. \A k \in 0..(FileElements - 1) : v5[k] \in [0..(y - 1) -> Int]
    BY DEF ElementArray
  <1>6. v5' \in ElementArray(y)
    BY <1>2, <1>5 DEF ElementArray
  <1> QED  BY <1>2, <1>4, <1>6

\* A step of a copy, which starts with numbered bytes in both arrays and no file to shift.
LEMMA NumberedArray ==
    ASSUME NEW z \in Nat \ {0}, NEW b \in Int, FileElements \in Nat
    PROVE  Files!Numbered(z, b) \in ElementArray(z)
  <1>1. \A i \in 0..(FileElements - 1), k \in 0..(z - 1) : b + i * z + k \in Int
    OBVIOUS
  <1> QED  BY <1>1 DEF Files!Numbered, ElementArray

LEMMA CopiesExact ==
    ASSUME Files!FilesAssumption, FilesInv, Files!CopyInit, Files!CopyNext
    PROVE  FilesInv' /\ Files!ConfinedStep /\ Files!ShiftStep /\ Files!CopyStep
  <1>1. /\ v1' = v1 /\ v2' = v2 /\ v3' = v3 /\ v4' = v4 /\ FileElements \in Nat \ {0}
    BY DEF Files!CopyNext, Files!CopyBytes, Files!CopyWithin, Files!Fill, Files!FilesAssumption
  <1>2. FilesInv'
    BY <1>1 DEF FilesInv
  <1>3. ~v4.EN /\ v4.LEN = 0
    BY DEF Files!CopyInit
  <1>4. Files!ConfinedStep
    <2>1. ~(v4'.DN /\ v4'.ER)
      BY <1>2 DEF FilesInv
    <2> QED  BY <1>1, <1>3, <2>1 DEF Files!ConfinedStep
  <1>5. Files!ShiftStep
    <2>1. ~Files!Shifts
      BY <1>3 DEF Files!Shifts
    <2> QED  BY <2>1, Zenon DEF Files!ShiftStep
  <1>6. PICK y \in Nat \ {0}, z \in Nat \ {0} : v5 \in ElementArray(y) /\ v6 \in ElementArray(z)
    <2>1. PICK y \in FileSizes, z \in FileSizes : v5 = Files!Numbered(y, 0) /\ v6 = Files!Numbered(z, FileElements * y)
      BY DEF Files!CopyInit
    <2>2. y \in Nat \ {0} /\ z \in Nat \ {0} /\ FileElements * y \in Int /\ 0 \in Int
      BY <1>1 DEF Files!FilesAssumption
    <2> PICK b \in Int : b = FileElements * y
      BY <2>2
    <2>3. v5 \in ElementArray(y)
      BY <1>1, <2>1, <2>2, NumberedArray
    <2>4. v6 \in ElementArray(z)
      BY <1>1, <2>1, <2>2, NumberedArray
    <2> QED  BY <2>2, <2>3, <2>4
  <1>7. ASSUME NEW n \in (-1)..(FileElements + 1), NEW i \in 0..(FileElements - 1), NEW j \in 0..(FileElements - 1)
        PROVE
        /\ Files!CopyBytes(n, i, j) =>
            \A k \in 0..(FileElements * Files!SizeOf(v6) - 1) :
                LET at == k - j * Files!SizeOf(v6) IN
                Files!ByteAt(v6', k) =
                    IF 0 <= at /\ k < (j + n) * Files!SizeOf(v6) /\ at + i * Files!SizeOf(v5) < FileElements * Files!SizeOf(v5)
                    THEN Files!ByteAt(v5, at + i * Files!SizeOf(v5)) ELSE Files!ByteAt(v6, k)
        /\ Files!CopyWithin(n, i, j) =>
            \A k \in 0..(FileElements - 1) :
                v5'[k] = IF k < j \/ k >= j + n \/ i + k - j >= FileElements THEN v5[k]
                         ELSE v5[i + IF i < j THEN (k - j) % (j - i) ELSE k - j]
        /\ Files!Fill(n, i, j) =>
            \A k \in 0..(FileElements - 1) : v5'[k] = IF j <= k /\ k < j + n THEN v5[i] ELSE v5[k]
    <2>1. n \in Int
      BY <1>1
    <2>2. ASSUME Files!CopyBytes(n, i, j)
          PROVE  \A k \in 0..(FileElements * Files!SizeOf(v6) - 1) :
                LET at == k - j * Files!SizeOf(v6) IN
                Files!ByteAt(v6', k) =
                    IF 0 <= at /\ k < (j + n) * Files!SizeOf(v6) /\ at + i * Files!SizeOf(v5) < FileElements * Files!SizeOf(v5)
                    THEN Files!ByteAt(v5, at + i * Files!SizeOf(v5)) ELSE Files!ByteAt(v6, k)
      BY <1>1, <1>6, <2>1, <2>2, BytesCopied, Zenon
    <2>3. ASSUME Files!CopyWithin(n, i, j)
          PROVE  \A k \in 0..(FileElements - 1) :
                v5'[k] = IF k < j \/ k >= j + n \/ i + k - j >= FileElements THEN v5[k]
                         ELSE v5[i + IF i < j THEN (k - j) % (j - i) ELSE k - j]
      BY <1>1, <1>6, <2>1, <2>3, ElementsCopied, Zenon
    <2>4. ASSUME Files!Fill(n, i, j)
          PROVE  \A k \in 0..(FileElements - 1) : v5'[k] = IF j <= k /\ k < j + n THEN v5[i] ELSE v5[k]
      BY <1>1, <1>6, <2>1, <2>4, ElementsFilled, Zenon
    <2> QED  BY <2>2, <2>3, <2>4, Zenon
  <1>8. Files!CopyStep
    BY <1>7, Zenon DEF Files!CopyStep
  <1> QED  BY <1>2, <1>4, <1>5, <1>8

\* Over the whole specification: the invariant of the part, and what its steps do.
FilesPart == part = "files" => FilesInv

LEMMA FilesPartStep ==
    ASSUME Files!FilesAssumption, FilesPart, [AllNext]_<<part, others, vars>>
    PROVE  FilesPart' /\ [part = "files" => Files!ConfinedStep /\ Files!ShiftStep /\ Files!CopyStep]_<<part, others>>
  <1>1. CASE UNCHANGED <<part, others, vars>>
    <2>1. part' = part /\ UNCHANGED <<part, others>> /\ v1' = v1 /\ v2' = v2 /\ v3' = v3 /\ v4' = v4
      BY <1>1 DEF others
    <2>2. FilesInv' = FilesInv
      BY <2>1 DEF FilesInv
    <2> QED  BY <2>1, <2>2 DEF FilesPart
  <1>2. CASE AllNext /\ part # "files"
    BY <1>2 DEF AllNext, FilesPart
  <1>3. CASE AllNext /\ part = "files"
    <2>1. FilesInv /\ part' = part
      BY <1>3 DEF FilesPart, AllNext
    <2>2. (v5 = <<>> /\ Files!ShiftNext) \/ (Files!CopyInit /\ Files!CopyNext)
      BY <1>3, Zenon DEF AllNext
    <2>3. CASE v5 = <<>> /\ Files!ShiftNext
      <3>1. FilesInv' /\ Files!ConfinedStep /\ Files!ShiftStep
        BY <2>1, <2>3, ShiftsExact, Zenon
      <3>2. Files!CopyStep
        BY <2>3, Zenon DEF Files!CopyStep
      <3> QED  BY <2>1, <3>1, <3>2, Zenon DEF FilesPart
    <2>4. CASE Files!CopyInit /\ Files!CopyNext
      <3>1. FilesInv' /\ Files!ConfinedStep /\ Files!ShiftStep /\ Files!CopyStep
        BY <2>1, <2>4, CopiesExact, Zenon
      <3> QED  BY <2>1, <3>1, Zenon DEF FilesPart
    <2> QED  BY <2>2, <2>3, <2>4, Zenon
  <1> QED  BY <1>1, <1>2, <1>3

\* Of every file: BSL and BSR are one step of a delay line, and change only their file, with the report
\* in the CONTROL that their LEN calls for; COP and FLL move the bytes that fit in both arrays and no
\* other (plcc-l5x/src/rll.rs).
THEOREM EveryFileExact ==
    ASSUME Files!FilesAssumption
    PROVE  AllSpec => FilesExact
  <1>1. AllInit => FilesPart
    <2> SUFFICES ASSUME AllInit, part = "files" PROVE FilesInv
      BY Zenon DEF FilesPart
    <2>1. Files!Init \/ Files!CopyInit
      BY DEF AllInit
    <2> QED  BY <2>1, FilesStart, Zenon
  <1>2. FilesPart /\ [AllNext]_<<part, others, vars>>
            => FilesPart' /\ [part = "files" => Files!ConfinedStep /\ Files!ShiftStep /\ Files!CopyStep]_<<part, others>>
    BY FilesPartStep
  <1> QED  BY <1>1, <1>2, PTL DEF AllSpec, FilesExact
=============================================================================
