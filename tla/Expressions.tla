---------------------------- MODULE Expressions ----------------------------
(* Integer expressions as plcc-codegen compiles them: the width and the      *)
(* signedness every operator runs at, the static type the compiler believes   *)
(* the result has, and the conversions at a store.  The state is the value    *)
(* compiled so far; every step makes it an operand of a larger expression, so *)
(* expressions of every depth are reached.  Beside the bits the emitted code  *)
(* computes, "exact" follows the same expression in the integers.             *)
EXTENDS Integers, Bitwise

CONSTANTS
    Bits,       \* standard width (1, 8, 16, 32, 64) -> number of bits modelled
    Variables,  \* variables an expression may read: <<type, value>>
    Literals,   \* integer literals (a minus sign is an operator)
    AnyArgument \* FALSE: MIN, MAX, LIMIT, SEL and MUX take arguments of one type, with values it holds

Widths == {8, 16, 32, 64}
Type(n, s) == [n |-> n, s |-> s]
Bool == Type(1, "U")
Types == {Bool} \cup {Type(n, s) : n \in Widths, s \in {"S", "U"}}
NoType == Type(0, "A")      \* rvalue_iec_type answered None: the operand adapts

ExpressionsAssumption ==
    /\ DOMAIN Bits = {1} \cup Widths
    /\ Bits[1] = 1 /\ Bits[8] < Bits[16] /\ Bits[16] < Bits[32] /\ Bits[32] < Bits[64]
    /\ Bits[64] <= 2^(Bits[8] - 1)      \* as 64 <= 128: a negative count is a huge one
    /\ \A v \in Variables : v[1] \in Types
    /\ AnyArgument \in BOOLEAN

VARIABLES
    ty,     \* the static type of the expression (rvalue_iec_type)
    w,      \* the width of its LLVM value
    bits,   \* its bits, as a natural number
    exact,  \* what the expression is worth
    ref     \* the type the language gives it: signedness and width

vars == <<ty, w, bits, exact, ref>>

-----------------------------------------------------------------------------
(* Two's complement.                                                          *)
Low(x, n) == x % 2^Bits[n]
Signed(b, n) == IF b >= 2^(Bits[n] - 1) THEN b - 2^Bits[n] ELSE b
Read(b, n, s) == IF s = "U" THEN b ELSE Signed(b, n)
InRange(x, n, s) == IF s = "U" THEN 0 <= x /\ x < 2^Bits[n]
                               ELSE -(2^(Bits[n] - 1)) <= x /\ x < 2^(Bits[n] - 1)
Wrap(x, t) == Read(Low(x, t.n), t.n, t.s)

Larger(a, b) == IF a > b THEN a ELSE b
Storage(t) == IF t = Bool THEN 8 ELSE t.n       \* a BOOL is kept in a byte

(* Widening keeps the value of an unsigned operand by zero extension and of   *)
(* every other by sign extension; narrowing keeps the low bits.               *)
Resize(b, from, s, to) == IF to <= from THEN Low(b, to) ELSE Low(Read(b, from, s), to)

LiteralWidth(v) == IF InRange(v, 16, "S") THEN 16 ELSE IF InRange(v, 32, "S") THEN 32 ELSE 64

Operand(t, x, n) == [ty |-> t, w |-> n, bits |-> Low(x, n), exact |-> x,
                     ref |-> IF t = NoType THEN Type(n, "A") ELSE t]
Operands == {Operand(v[1], v[2], Storage(v[1])) : v \in Variables}
            \cup {Operand(NoType, v, LiteralWidth(v)) : v \in Literals}
            \cup {Operand(NoType, -v, Larger(LiteralWidth(v), 32)) : v \in Literals}    \* minus a literal

-----------------------------------------------------------------------------
(* The compiler's promotion rules.                                            *)
Promoted(n) == IF n <= 8 THEN 16 ELSE IF n <= 16 THEN 32 ELSE 64

PromoteMixed_Mut(un, sn) == IF un < sn THEN <<sn, "S">> ELSE <<un, "U">>
\* Mixed signedness: signed, in a type that holds both, and unsigned at 64 bits.
PromoteMixed(un, sn) ==
    IF un < sn THEN <<sn, "S">> ELSE IF un >= 64 THEN <<64, "U">> ELSE <<Larger(un, Promoted(un)), "S">>

\* Width and signedness an operator runs at.
Promote(ln, ls, rn, rs) ==
    CASE {ls, rs} = {"U", "S"} -> IF ls = "U" THEN PromoteMixed(ln, rn) ELSE PromoteMixed(rn, ln)
      [] {ls, rs} \in {{"U"}, {"U", "A"}} -> <<Larger(ln, rn), "U">>
      [] OTHER -> <<Larger(ln, rn), "S">>

\* The static type the compiler gives the result of an operator.
IntLike(t) == t.n >= 8
Signless(p) == Type(IF p[1] <= 8 THEN 8 ELSE IF p[1] <= 16 THEN 16 ELSE IF p[1] <= 32 THEN 32 ELSE 64, "S")
ArithResultType(l, r) ==
    LET p == Promote(l.n, l.s, r.n, r.s)
    IN CASE NoType \in {l, r} -> NoType
         [] IntLike(l) /\ IntLike(r) /\ l.s # r.s /\ p[2] = "S" -> Signless(p)
         [] OTHER -> IF r.n > l.n THEN r ELSE l

\* In an operator a literal contributes nothing and the typed side wins.
OperatorType(l, r) == IF l = NoType THEN r ELSE IF r = NoType THEN l ELSE ArithResultType(l, r)

Arithmetic == {"+", "-", "*", "/", "MOD"}
Bitwises == {"AND", "OR", "XOR"}
Comparisons == {"=", "<>", "<", "<=", ">", ">="}

\* Arithmetic runs at the native width at least.
RunsAt(op, p) == <<IF op \in Arithmetic THEN Larger(p[1], 32) ELSE p[1], p[2]>>

Quotient(a, b) == LET q == (IF a < 0 THEN -a ELSE a) \div (IF b < 0 THEN -b ELSE b)
                  IN IF (a < 0) = (b < 0) THEN q ELSE -q
Holds(op, a, b) == CASE op = "=" -> a = b [] op = "<>" -> a # b [] op = "<" -> a < b
                     [] op = "<=" -> a <= b [] op = ">" -> a > b [] op = ">=" -> a >= b

\* Both operands brought to one width, then the LLVM instruction.  A zero divisor
\* faults before it divides; MIN / -1 divides by 1 instead.
Computed(op, l, r) ==
    LET q == Promote(l.w, l.ty.s, r.w, r.ty.s)
        p == RunsAt(op, q)
        a == Resize(Resize(l.bits, l.w, l.ty.s, q[1]), q[1], q[2], p[1])
        b == Resize(Resize(r.bits, r.w, r.ty.s, q[1]), q[1], q[2], p[1])
        x == Read(a, p[1], p[2])
        y == Read(b, p[1], p[2])
        safe == IF p[2] = "S" /\ a = 2^(Bits[p[1]] - 1) /\ y = -1 THEN 1 ELSE y
    IN CASE op = "+" -> Low(a + b, p[1])
         [] op = "-" -> Low(a - b, p[1])
         [] op = "*" -> Low(a * b, p[1])
         [] op = "/" -> Low(Quotient(x, safe), p[1])
         [] op = "MOD" -> Low(x - safe * Quotient(x, safe), p[1])
         [] op = "AND" -> a & b
         [] op = "OR" -> a | b
         [] op = "XOR" -> a ^^ b
         [] OTHER -> IF Holds(op, x, y) THEN 1 ELSE 0

-----------------------------------------------------------------------------
(* What the language means.  Mixed signedness is computed in the narrowest    *)
(* signed type that holds both operands' types, at least "floor" wide, or in  *)
(* 64 unsigned bits where there is none; a literal takes its context's type.  *)
Holds2(t, u, n) == InRange(IF t.s = "U" THEN 2^Bits[t.n] - 1 ELSE 0, n, "S")
                   /\ InRange(IF u.s = "U" THEN 2^Bits[u.n] - 1 ELSE 0, n, "S") /\ n >= t.n /\ n >= u.n
Common(t, u, floor) ==
    LET wide == {n \in Widths : n >= floor /\ Holds2(t, u, n)}
        same == Larger(floor, Larger(t.n, u.n))
    IN CASE {t.s, u.s} = {"A"} -> Type(same, "A")
         [] {t.s, u.s} \in {{"U"}, {"U", "A"}} -> Type(same, "U")
         [] {t.s, u.s} \in {{"S"}, {"S", "A"}} -> Type(same, "S")
         [] OTHER -> IF wide = {} THEN Type(64, "U")
                     ELSE Type(CHOOSE n \in wide : \A m \in wide : n <= m, "S")

\* The bits of an integer in the widest type stand for its infinite two's complement.
Pattern(op, a, b) == Signed(CASE op = "AND" -> Low(a, 64) & Low(b, 64) [] op = "OR" -> Low(a, 64) | Low(b, 64)
                              [] op = "XOR" -> Low(a, 64) ^^ Low(b, 64), 64)
Meaning(op, a, b) ==
    CASE op = "+" -> a + b [] op = "-" -> a - b [] op = "*" -> a * b
      [] op = "/" -> Quotient(a, b) [] op = "MOD" -> a - b * Quotient(a, b)
      [] op \in Bitwises -> Pattern(op, a, b)
      [] OTHER -> IF Holds(op, a, b) THEN 1 ELSE 0

-----------------------------------------------------------------------------
Value == [ty |-> ty, w |-> w, bits |-> bits, exact |-> exact, ref |-> ref]
Becomes(t, n, b, x, r) == ty' = t /\ w' = n /\ bits' = b /\ exact' = x /\ ref' = r

Init == \E v \in Operands : ty = v.ty /\ w = v.w /\ bits = v.bits /\ exact = v.exact /\ ref = v.ref

(* A binary operator.  An overflow, a zero divisor and an operand outside the *)
(* common type are left to the language; nothing is claimed of them.          *)
NeedsRange(op) == op \in Comparisons \cup {"/", "MOD"}
Apply(op, l, r) ==
    LET c == Common(l.ref, r.ref, IF op \in Arithmetic THEN 32 ELSE 8)
        x == Meaning(op, l.exact, r.exact)
        p == RunsAt(op, Promote(l.w, l.ty.s, r.w, r.ty.s))
    IN /\ op \in {"/", "MOD"} => r.exact # 0
       /\ NeedsRange(op) => InRange(l.exact, c.n, c.s) /\ InRange(r.exact, c.n, c.s)
       /\ InRange(x, c.n, c.s)
       /\ "S" \in {l.ref.s, r.ref.s} /\ c.s = "U" => op \in Comparisons     \* no type holds both
       /\ Bool \in {l.ty, r.ty} => l.ty = r.ty /\ op \in Bitwises \cup {"=", "<>"}
       /\ IF op \in Comparisons THEN Becomes(Bool, 1, Computed(op, l, r), x, Bool)
          ELSE IF l.ty = Bool THEN Becomes(Bool, Larger(l.w, r.w), Computed(op, l, r), x, Bool)
          ELSE Becomes(OperatorType(l.ty, r.ty), p[1], Computed(op, l, r), x, c)

Binary == \E op \in Arithmetic \cup Bitwises \cup Comparisons, v \in Operands :
              Apply(op, Value, v) \/ Apply(op, v, Value)

(* Unary minus runs at the native width and leaves the type open; NOT is      *)
(* logical on a BOOL and bitwise on everything else.                          *)
Neg == LET n == Larger(w, 32)
       IN /\ ty # Bool /\ InRange(-exact, n, "S")
          /\ Becomes(NoType, n, Low(-Resize(bits, w, ty.s, n), n), -exact, Type(n, "A"))
Complement ==
       \/ ty = Bool /\ Becomes(ty, w, IF bits = 0 THEN 1 ELSE 0, 1 - exact, ref)
       \/ /\ ty \notin {Bool, NoType}      \* NOT of a literal has no width of its own
          /\ Becomes(ty, w, 2^Bits[w] - 1 - bits, IF ref.s = "U" THEN 2^Bits[w] - 1 - exact ELSE -1 - exact, ref)
Abs == /\ ty # Bool /\ (exact < 0 => InRange(-exact, w, "S"))
       /\ Becomes(ty, w, IF ty.s # "U" /\ Signed(bits, w) < 0 THEN Low(-bits, w) ELSE bits,
                  IF exact < 0 THEN -exact ELSE exact, ref)

-----------------------------------------------------------------------------
(* Shifts and rotates keep IN at the width of its own type, whatever the      *)
(* temporary's; a count of that width or more shifts everything out.          *)
ShiftOperand(b, n, t) == IF t # NoType /\ t.n < n THEN Low(b, t.n) ELSE b
ShiftWidth(n, t) == IF t # NoType /\ t.n < n THEN t.n ELSE n
Shift(left) ==
    \E v \in Operands :
        LET n == ShiftWidth(w, ty)
            b == ShiftOperand(bits, w, ty)
            count == v.bits             \* compared unsigned: a negative count is huge
            t == Type(n, ref.s)
            pattern == Low(exact, n)
        IN /\ ty \notin {Bool, NoType} /\ v.ty # Bool
           /\ Becomes(ty, n, CASE count >= Bits[n] -> 0
                                [] left -> Low(b * 2^count, n)
                                [] OTHER -> b \div 2^count,
                      Wrap(CASE v.exact < 0 \/ v.exact >= Bits[n] -> 0
                             [] left -> pattern * 2^v.exact
                             [] OTHER -> pattern \div 2^v.exact, t), t)
\* llvm.fshl takes the count modulo the width, after it was brought to that width.
Rotate ==
    \E v \in Operands :
        LET n == ShiftWidth(w, ty)
            b == ShiftOperand(bits, w, ty)
            k == Resize(v.bits, v.w, v.ty.s, n) % Bits[n]
            t == Type(n, ref.s)
            pattern == Low(exact, n)
            left == v.exact % Bits[n]
        IN /\ ty \notin {Bool, NoType} /\ v.ty # Bool /\ InRange(v.exact, n, "U")
           /\ Becomes(ty, n, Low(b * 2^k, n) + b \div 2^(Bits[n] - k),
                      Wrap(Low(pattern * 2^left, n) + pattern \div 2^(Bits[n] - left), t), t)

-----------------------------------------------------------------------------
(* Selection builtins: the values compete, or are chosen, in one type, and    *)
(* the call takes the type the compiler computes for its arguments.           *)
Uniform(l, r) == AnyArgument \/ (/\ l.ty = r.ty /\ l.ty # NoType
                                 /\ \A x \in {l.exact, r.exact} : InRange(x, l.ty.n, l.ty.s))
Best(l, r, min) ==
    LET p == Promote(l.w, l.ty.s, r.w, r.ty.s)
        a == Resize(l.bits, l.w, l.ty.s, p[1])
        b == Resize(r.bits, r.w, r.ty.s, p[1])
        first == IF min THEN Read(a, p[1], p[2]) < Read(b, p[1], p[2]) ELSE Read(a, p[1], p[2]) > Read(b, p[1], p[2])
        c == Common(l.ref, r.ref, 8)
    IN /\ Bool \notin {l.ty, r.ty} /\ Uniform(l, r)
       /\ InRange(l.exact, c.n, c.s) /\ InRange(r.exact, c.n, c.s)
       /\ Becomes(ArithResultType(l.ty, r.ty), p[1], IF first THEN a ELSE b,
                  IF (l.exact < r.exact) = min THEN l.exact ELSE r.exact, c)
MinMax == \E v \in Operands, min \in BOOLEAN : Best(Value, v, min) \/ Best(v, Value, min)

(* LIMIT(v, value, u) settles one width for the three before it compares.     *)
Combined(a, b) == IF "S" \in {a, b} THEN "S" ELSE IF "U" \in {a, b} THEN "U" ELSE "A"
Limit ==
    \E v, u \in Operands :
        LET q == Promote(v.w, v.ty.s, w, ty.s)
            p == Promote(q[1], Combined(v.ty.s, ty.s), u.w, u.ty.s)
            lo == Resize(v.bits, v.w, v.ty.s, p[1])
            in == Resize(bits, w, ty.s, p[1])
            hi == Resize(u.bits, u.w, u.ty.s, p[1])
            capped == IF Read(in, p[1], p[2]) < Read(hi, p[1], p[2]) THEN in ELSE hi
            c == Common(Common(v.ref, ref, 8), u.ref, 8)
            least == IF exact < u.exact THEN exact ELSE u.exact
        IN /\ Bool \notin {ty, v.ty, u.ty} /\ Uniform(v, u) /\ Uniform(Value, v)
           /\ \A x \in {exact, v.exact, u.exact} : InRange(x, c.n, c.s)
           /\ Becomes(ArithResultType(ArithResultType(v.ty, ty), u.ty), p[1],
                      IF Read(capped, p[1], p[2]) > Read(lo, p[1], p[2]) THEN capped ELSE lo,
                      IF least > v.exact THEN least ELSE v.exact, c)

(* SEL brings arguments of different LLVM types to the common type first, and *)
(* MUX brings all of them.                                                    *)
Coerce(v, t) == Resize(v.bits, v.w, IF v.ty = NoType THEN t.s ELSE v.ty.s, Storage(t))
Sel == \E v \in Operands, g \in BOOLEAN :
        LET chosen == IF g THEN v ELSE Value
            known == ArithResultType(ty, v.ty)
            common == IF known = NoType THEN Type(Larger(w, v.w), "S") ELSE known
            c == IF ty = v.ty /\ ty # NoType THEN ty ELSE Common(ref, v.ref, 8)
        IN /\ Bool \notin {ty, v.ty} /\ Uniform(Value, v)
           /\ InRange(exact, c.n, c.s) /\ InRange(v.exact, c.n, c.s)
           /\ IF w = v.w THEN Becomes(known, w, chosen.bits, chosen.exact, c)
              ELSE Becomes(known, common.n, Coerce(chosen, common), chosen.exact, c)
Mux == \E v \in Operands, k \in BOOLEAN :
        LET chosen == IF k THEN v ELSE Value
            known == ArithResultType(ty, v.ty)
            c == IF ty = v.ty /\ ty # NoType THEN ty ELSE Common(ref, v.ref, 8)
        IN /\ Bool \notin {ty, v.ty} /\ Uniform(Value, v)
           /\ InRange(exact, c.n, c.s) /\ InRange(v.exact, c.n, c.s)
           /\ IF known = NoType THEN w = v.w /\ Becomes(known, w, chosen.bits, chosen.exact, c)
              ELSE Becomes(known, known.n, Coerce(chosen, known), chosen.exact, c)

-----------------------------------------------------------------------------
(* A store into a variable of type t, which is then read back: the source's   *)
(* signedness widens, the destination's if the source has no type.            *)
Store(t) ==
    /\ (ty = Bool) = (t = Bool)
    /\ InRange(exact, t.n, t.s) \/ ref.s # "A" \/ t.n <= w
    /\ Becomes(t, Storage(t), Coerce(Value, t), Wrap(exact, t), t)

(* TO_<t>: by the argument's type, or as a LINT if it has none.  A BOOL       *)
(* counts 0 or 1, and anything but 0 is TRUE.                                 *)
Convert(t) ==
    IF t = Bool THEN Becomes(Bool, 8, IF bits = 0 THEN 0 ELSE 1, IF exact = 0 THEN 0 ELSE 1, Bool)
    ELSE Becomes(t, t.n, Resize(bits, w, ty.s, t.n), Wrap(exact, t), t)

Next == \/ Binary \/ Neg \/ Complement \/ Abs
        \/ (\E left \in BOOLEAN : Shift(left)) \/ Rotate
        \/ MinMax \/ Limit \/ Sel \/ Mux
        \/ (\E t \in Types : Store(t) \/ Convert(t))

Spec == Init /\ [][Next]_vars

-----------------------------------------------------------------------------
(* Read at its width, with the signedness of the type the compiler believes   *)
(* it has, the computed value is what the expression is worth: no operator,   *)
(* builtin or store picked a width too small, widened an operand by the wrong *)
(* sign, or reported a type its own evaluation does not match                 *)
(* (promote_int_operands, arith_result_type, rvalue_iec_type, coerce_value).  *)
ValueIsExact == Read(bits, w, ty.s) = exact
=============================================================================
