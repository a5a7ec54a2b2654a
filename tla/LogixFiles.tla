----------------------------- MODULE LogixFiles -----------------------------
(* BSL, BSR, COP and FLL of plcc-l5x/src/rll.rs: the loops that shift the    *)
(* bits of a file and copy or fill elements.  A word is the function of its  *)
(* W bits, least significant first; copied elements are functions of their   *)
(* bytes.                                                                    *)
EXTENDS Integers, FiniteSets

CONSTANTS W,       \* bits of a word (a DINT has 32)
          Words,   \* words of the shifted array
          First,   \* first word of the file
          Lens,    \* values of LEN
          Sizes,   \* bytes of an element of src and of dst
          Elements \* elements of src and of dst

\* The file is a part of the array, and lengths are integers of any sign.
FilesAssumption ==
    /\ W \in Nat \ {0} /\ Words \in Nat /\ First \in 0 .. Words /\ Lens \subseteq Int
    /\ Sizes \subseteq Nat \ {0} /\ Elements \in Nat

VARIABLES
    left, own,  \* BSL or BSR; the Source bit is the CONTROL's own UL
    words, c,   \* the file, its CONTROL: LEN, POS, EN, DN, ER, UL
    src, dst    \* arrays of elements of a size of their own
vars == <<left, own, words, c, src, dst>>

BitsOf(len) == [0 .. len - 1 -> BOOLEAN]
Capacity == (Words - First) * W
Bit(ws, i) == ws[First + i \div W][i % W]
WithBit(ws, i, b) == [ws EXCEPT ![First + i \div W][i % W] = b]

(* the FOR loops: bit i takes its neighbour's value, one bit after another *)
ShiftLeft_Mut(ws, len) ==
    LET up[i \in Nat] == IF i = 0 THEN ws ELSE WithBit(up[i - 1], i, Bit(up[i - 1], i - 1)) IN up[len - 1]
ShiftLeft(ws, len) ==
    LET up[n \in 0 .. len - 1] ==        \* the words when the uppermost n bits are written
            IF n = 0 THEN ws ELSE WithBit(up[n - 1], len - n, Bit(up[n - 1], len - n - 1))
    IN up[len - 1]

(* and downwards *)
ShiftRight(ws, len) ==
    LET down[i \in 0 .. len - 1] == IF i = 0 THEN ws ELSE WithBit(down[i - 1], i - 1, Bit(down[i - 1], i)) IN down[len - 1]

Control == [LEN : Lens, POS : Lens \cup {0}, EN : BOOLEAN, DN : BOOLEAN, ER : BOOLEAN, UL : BOOLEAN]

Misfit(len) == len < 0 \/ len > Capacity

(* the false-to-true transition: UL is written before the Source is read *)
ShiftEdge(b) ==
    LET e == [c EXCEPT !.EN = TRUE, !.DN = FALSE, !.ER = FALSE, !.UL = FALSE]
        source(r) == IF own THEN r.UL ELSE b
    IN CASE c.LEN = 0 ->
              /\ c' = [e EXCEPT !.DN = TRUE, !.POS = 0, !.UL = source(e)]
              /\ UNCHANGED words
         [] Misfit(c.LEN) -> c' = [e EXCEPT !.ER = TRUE] /\ UNCHANGED words
         [] OTHER ->
              LET u == [e EXCEPT !.UL = Bit(words, IF left THEN c.LEN - 1 ELSE 0), !.DN = TRUE, !.POS = c.LEN] IN
              /\ c' = u
              /\ words' = WithBit(IF left THEN ShiftLeft(words, c.LEN) ELSE ShiftRight(words, c.LEN),
                                  IF left THEN 0 ELSE c.LEN - 1, source(u))

Released(r) == [r EXCEPT !.EN = FALSE, !.DN = FALSE, !.ER = FALSE, !.POS = 0]

(* BSL and BSR; a false rung and the prescan release the CONTROL *)
Shift(rc, b) ==
    /\ IF ~rc
       THEN c' = Released(c) /\ UNCHANGED words
       ELSE IF c.EN THEN UNCHANGED <<c, words>> ELSE ShiftEdge(b)
    /\ UNCHANGED <<left, own, src, dst>>
-----------------------------------------------------------------------------
SizeOf(a) == Cardinality(DOMAIN a[0])
ByteAt(a, k) == a[k \div SizeOf(a)][k % SizeOf(a)]
WithByte(a, k, v) == [a EXCEPT ![k \div SizeOf(a)][k % SizeOf(a)] = v]
Least(S) == CHOOSE n \in S : \A m \in S : n <= m

(* COP between integers: Length elements of the destination, as bytes, never *)
(* past the end of either array                                              *)
ByteCount(n, si, di) == Least({n * SizeOf(dst), (Elements - di) * SizeOf(dst), (Elements - si) * SizeOf(src)})
CopyBytes(n, si, di) ==
    LET count == ByteCount(n, si, di)
        copied[k \in 0 .. count] ==
            IF k = 0 THEN dst
            ELSE WithByte(copied[k - 1], k - 1 + di * SizeOf(dst), ByteAt(src, k - 1 + si * SizeOf(src)))
    IN /\ dst' = IF count <= 0 THEN dst ELSE copied[count]
       /\ UNCHANGED <<left, own, words, c, src>>

(* COP inside an array, element after element from the first *)
Count(n, i, j) == Least({n, Elements - i, Elements - j})
CopyWithin(n, si, di) ==
    LET copied[k \in 0 .. Count(n, si, di)] ==
            IF k = 0 THEN src ELSE [copied[k - 1] EXCEPT ![di + k - 1] = copied[k - 1][si + k - 1]]
    IN /\ src' = IF Count(n, si, di) <= 0 THEN src ELSE copied[Count(n, si, di)]
       /\ UNCHANGED <<left, own, words, c, dst>>

(* FLL with an element of src *)
Filled(n, di) == {i \in 0 .. Elements - 1 : di <= i /\ i < di + Count(n, di, di)}
Fill(n, s, di) ==
    /\ src' = [i \in 0 .. Elements - 1 |-> IF i \in Filled(n, di) THEN src[s] ELSE src[i]]
    /\ UNCHANGED <<left, own, words, c, dst>>
-----------------------------------------------------------------------------
Init ==
    /\ left \in BOOLEAN /\ own \in BOOLEAN
    /\ words \in [0 .. Words - 1 -> BitsOf(W)]
    /\ c \in [LEN : Lens, POS : {0}, EN : {FALSE}, DN : {FALSE}, ER : {FALSE}, UL : {FALSE}]
    /\ src = <<>> /\ dst = <<>>

(* a start for the copies, which look at no byte: each byte is told apart *)
Numbered(n, b) == [i \in 0 .. Elements - 1 |-> [k \in 0 .. n - 1 |-> b + i * n + k]]
CopyInit ==
    /\ left = TRUE /\ own = FALSE
    /\ words = [i \in 0 .. Words - 1 |-> [k \in 0 .. W - 1 |-> FALSE]]
    /\ c = [LEN |-> 0, POS |-> 0, EN |-> FALSE, DN |-> FALSE, ER |-> FALSE, UL |-> FALSE]
    /\ \E m, n \in Sizes : src = Numbered(m, 0) /\ dst = Numbered(n, Elements * m)

CopyNext ==
    \E n \in -1 .. Elements + 1, i, j \in 0 .. Elements - 1 :
        CopyBytes(n, i, j) \/ CopyWithin(n, i, j) \/ Fill(n, i, j)
ShiftNext == \E rc, b \in BOOLEAN : Shift(rc, b)
-----------------------------------------------------------------------------
File(ws) == [i \in 0 .. c.LEN - 1 |-> Bit(ws, i)]
Shifts == 0 < c.LEN /\ c.LEN <= Capacity

(* A rising edge is one step of a delay line: every bit of the file moves to *)
(* its neighbour although the loop writes the words in place, UL is the bit  *)
(* that leaves, the Source comes in at the other end (the bit that left,     *)
(* when the Source is UL itself), and no bit beyond LEN moves.               *)
ShiftStep ==
    \A b \in BOOLEAN : Shift(TRUE, b) /\ ~c.EN /\ Shifts =>
        LET in == IF own THEN c'.UL ELSE b
            n == c.LEN
        IN /\ c'.UL = File(words)[IF left THEN n - 1 ELSE 0]
           /\ File(words') = [i \in 0 .. n - 1 |->
                   IF left THEN IF i = 0 THEN in ELSE File(words)[i - 1]
                   ELSE IF i = n - 1 THEN in ELSE File(words)[i + 1]]

(* Only an edge with a usable LEN changes the array, and only the file's     *)
(* bits; a LEN no file has is reported in ER and DN never says otherwise.    *)
ConfinedStep ==
    /\ words' # words => Shifts /\ ~c.EN /\ c'.EN
    /\ \A i \in 0 .. Words - 1, k \in 0 .. W - 1 :
          (i < First \/ (i - First) * W + k >= c.LEN) => words'[i][k] = words[i][k]
    /\ ~(c'.DN /\ c'.ER)
    /\ c'.EN /\ ~c.EN => c'.ER = (c.LEN < 0 \/ c.LEN > Capacity)

(* A copy moves the bytes that fit in both arrays, whatever the sizes of     *)
(* their elements, and leaves every other byte of the destination alone.  A  *)
(* copy or a fill inside an array stops at its end; a copy that overlaps     *)
(* itself upwards repeats the elements in front of its destination.          *)
CopyStep ==
    src # <<>> => \A n \in -1 .. Elements + 1, i, j \in 0 .. Elements - 1 :
        /\ CopyBytes(n, i, j) =>
            \A k \in 0 .. Elements * SizeOf(dst) - 1 :
                LET at == k - j * SizeOf(dst) IN
                ByteAt(dst', k) =
                    IF 0 <= at /\ k < (j + n) * SizeOf(dst) /\ at + i * SizeOf(src) < Elements * SizeOf(src)
                    THEN ByteAt(src, at + i * SizeOf(src)) ELSE ByteAt(dst, k)
        /\ CopyWithin(n, i, j) =>
            \A k \in 0 .. Elements - 1 :
                src'[k] = IF k < j \/ k >= j + n \/ i + k - j >= Elements THEN src[k]
                          ELSE src[i + IF i < j THEN (k - j) % (j - i) ELSE k - j]
        /\ Fill(n, i, j) =>
            \A k \in 0 .. Elements - 1 : src'[k] = IF j <= k /\ k < j + n THEN src[i] ELSE src[k]
=============================================================================
