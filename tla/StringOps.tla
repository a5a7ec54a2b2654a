------------------------------ MODULE StringOps ------------------------------
(***************************************************************************)
(* The code the compiler emits for STRINGs: what the helpers it builds     *)
(* (plcc_strlen, plcc_left, plcc_replace, ...) do to NUL-terminated byte   *)
(* buffers, one iteration of a loop at a time.  A builtin builds its       *)
(* result in a temporary, and the assignment copies that into the target.  *)
(***************************************************************************)
EXTENDS Integers, Sequences, FiniteSets

CONSTANTS Vars,      \* the STRING variables of the program
          Size,      \* bytes of each, its terminator included
          Counts,    \* the L and P arguments a program passes
          Literals,  \* the texts it assigns
          Base,      \* of numbers in text (10 in the code)
          Bits       \* of the widest integer (64)

NUL == 0
Minus == 1
Digit(d) == d + 2
Chars == 1..(Base + 1)
Junk == -1    \* what a fresh stack slot holds

\* A STRING of 32768 characters or more would wrap strlen's i16
\* (compiler.rs:1571).
MaxBytes == 32768
StringsAssumption ==
    /\ Size \in [Vars -> 1..MaxBytes]
    /\ \A v, w \in Vars: Size[v] + Size[w] - 1 <= MaxBytes
    /\ Counts \subseteq Int
    /\ Literals \subseteq Seq(Chars \cup {NUL})
    /\ Base \in Nat \ {0, 1}
    /\ Bits \in Nat \ {0} /\ Bits + 2 <= MaxBytes
    /\ {"empty", "temp", "none"} \cap Vars = {}

VARIABLES mem,    \* the bytes of every buffer
          job,    \* the statement under way
          calls,  \* helper calls it still makes
          dest,   \* the buffer the call under way writes
          room,   \* its capacity, as that call was told
          segs,   \* the copy loops that call still runs, the first one running
          i, k,   \* that loop's read and write index
          loop,   \* the loop of a query under way
          answer  \* a query and what it returned
vars == <<mem, job, calls, dest, room, segs, i, k, loop, answer>>

\* Buffers: the variables, the literal '' and the statement's temporary.
Buffers == Vars \cup {"empty", "temp"}
Lowest(x, y) == IF x < y THEN x ELSE y
Highest(x, y) == IF x > y THEN x ELSE y

NoEnd == 2147483647
Idle == [op |-> "idle"]

-----------------------------------------------------------------------------
(***************************************************************************)
(* What the string functions of the language mean: a STRING is a sequence  *)
(* of characters, and so is a function's result (docs/                     *)
(* codesys-compatibility.md:246).  Positions and counts out of range are   *)
(* clamped.  Storage, terminators and buffers do not exist here.           *)
(***************************************************************************)
Clamped(x, low, high) == Highest(low, Lowest(x, high))

Cut(s, n) == SubSeq(s, 1, Lowest(n, Len(s)))

Left(s, n)  == Cut(s, Highest(n, 0))
Right(s, n) == SubSeq(s, Len(s) - Clamped(n, 0, Len(s)) + 1, Len(s))

\* l characters from position p on.
Mid(s, l, p) ==
    LET first == Clamped(p, 1, Len(s) + 1)
    IN  SubSeq(s, first, Lowest(first + Highest(l, 0) - 1, Len(s)))

\* The l characters from p on give way to t.
Replace(s, t, l, p) ==
    LET first == Clamped(p, 1, Len(s) + 1)
    IN  SubSeq(s, 1, first - 1) \o t \o SubSeq(s, first + Highest(l, 0), Len(s))

Insert(s, t, p) == SubSeq(s, 1, Clamped(p, 0, Len(s))) \o t
                   \o SubSeq(s, Clamped(p, 0, Len(s)) + 1, Len(s))

OccursAt(s, t, p) == p + Len(t) - 1 <= Len(s) /\ SubSeq(s, p, p + Len(t) - 1) = t

\* The first position of t in s, 0 when there is none.
Find(s, t) ==
    IF \E p \in 1..Len(s): OccursAt(s, t, p)
    THEN CHOOSE p \in 1..Len(s):
            OccursAt(s, t, p) /\ \A q \in 1..(p - 1): ~OccursAt(s, t, q)
    ELSE 0

\* -1, 0 or 1: bytewise, a prefix first.
Before(x, y) ==
    \/ \E n \in 1..Lowest(Len(x), Len(y)):
          /\ x[n] < y[n]
          /\ SubSeq(x, 1, n - 1) = SubSeq(y, 1, n - 1)
    \/ Len(x) < Len(y) /\ SubSeq(y, 1, Len(x)) = x
Order(s, t) == IF s = t THEN 0 ELSE IF Before(s, t) THEN -1 ELSE 1

\* The numeral of m: no leading zero, and its digits weigh m.
Weight(s, base) ==
    LET sum[n \in 0..Len(s)] == IF n = 0 THEN 0 ELSE sum[n - 1] * base + s[n]
    IN  sum[Len(s)]
Numeral(m, base) ==
    CHOOSE s \in UNION {[1..n -> 0..(base - 1)]: n \in 1..(m + 1)}:
        Weight(s, base) = m /\ (Len(s) > 1 => s[1] # 0)

-----------------------------------------------------------------------------
(* Reading buffers. *)

Terminated(b) == \E n \in DOMAIN b: b[n] = NUL
\* plcc_strlen
StrLen(b) == CHOOSE n \in DOMAIN b: b[n] = NUL /\ \A m \in DOMAIN b: m < n => b[m] # NUL
Text(b) == [n \in 1..StrLen(b) |-> b[n - 1]]

\* A load outside the buffer yields whatever byte lies there.
Loads(b, n) == IF n \in DOMAIN mem[b] THEN {mem[b][n]} ELSE Chars \cup {NUL}

\* A literal or a value of another STRING's size in a variable's buffer.
Fitted(s, size) == [n \in 0..(size - 1) |->
                       IF n < Lowest(Len(s), size - 1) THEN s[n + 1] ELSE NUL]
\* A STRING stored as a value: same size as is, else byte by byte.
Reshaped_Mut(b, size) ==
    [n \in 0..(size - 1) |-> IF n \in DOMAIN b THEN b[n] ELSE NUL]
Reshaped(b, size) ==
    IF DOMAIN b = 0..(size - 1) THEN b
    ELSE [n \in 0..(size - 1) |->
             IF n \in DOMAIN b /\ n < size - 1 THEN b[n] ELSE NUL]

-----------------------------------------------------------------------------
(* Numbers. *)

TwoTo[n \in 0..Bits] == IF n = 0 THEN 1 ELSE 2 * TwoTo[n - 1]
Magnitude == 0..(TwoTo[Bits] - 1)
DigitsOf[m \in Magnitude] ==
    IF m < Base THEN <<Digit(m)>> ELSE Append(DigitsOf[m \div Base], Digit(m % Base))
\* plcc_i64_to_str of a bit pattern.
Negative(v, unsigned) == ~unsigned /\ v >= TwoTo[Bits - 1]
NumberText(v, unsigned) ==
    IF Negative(v, unsigned) THEN <<Minus>> \o DigitsOf[TwoTo[Bits] - v] ELSE DigitsOf[v]

\* plcc_str_to_i64: the digits from a position on, then the sign.
IsDigit(c) == c \in Digit(0)..Digit(Base - 1)
DigitsFrom(s) ==
    LET value[n \in 0..Len(s)] ==
          IF n = 0 THEN 0
          ELSE IF \A m \in 1..n: IsDigit(s[m]) THEN value[n - 1] * Base + s[n] - 2
          ELSE value[n - 1]
    IN  value[Len(s)]
Wrapped(x) == x % TwoTo[Bits]
NumberIn(s) ==
    IF s # <<>> /\ s[1] = Minus THEN Wrapped(-DigitsFrom(Tail(s)))
    ELSE Wrapped(DigitsFrom(s))

-----------------------------------------------------------------------------
(* What the compiler emits for a builtin. *)

Copy(from, start, end, nul) == [from |-> from, start |-> start, end |-> end, nul |-> nul]
Whole(from) == Copy(from, 0, NoEnd, TRUE)
Call(to, cap, append, loops) ==
    [to |-> to, cap |-> cap, append |-> append, loops |-> loops]
StrLcpy(to, cap, from) == Call(to, cap, FALSE, <<Whole(from)>>)
StrLcat(to, cap, from) == Call(to, cap, TRUE, <<Whole(from)>>)

\* Room for any result the arguments can produce.
ResultBytes(j) ==
    CASE j.op \in {"CONCAT", "INSERT", "REPLACE"} -> Size[j.a] + Size[j.b] - 1
      [] j.op = "NUMBER" -> Bits + 2
      [] OTHER -> Size[j.a]

LeftCall(j) == Call("temp", ResultBytes(j), FALSE, <<Copy(j.a, 0, j.l, TRUE)>>)
\* plcc_right copies between two indices and looks at no terminator.
RightStart(n, l) == Highest(0, n - l)
RightCall(j) ==
    LET n == StrLen(mem[j.a])
    IN  Call("temp", ResultBytes(j), FALSE, <<Copy(j.a, RightStart(n, j.l), n, FALSE)>>)
MidCall(j) ==
    Call("temp", ResultBytes(j), FALSE, <<Copy(j.a, j.p - 1, j.p - 1 + j.l, TRUE)>>)

\* The clamps of plcc_replace, as indices from 0.
From(n, p) == Lowest(Highest(p - 1, 0), n)
Rest_Mut(n, l, p) == Lowest(From(n, p) + l, n)
Rest(n, l, p) == Lowest(From(n, p) + Highest(l, 0), n)
ReplaceCall(j, b, l, p) ==
    LET n == StrLen(mem[j.a])
    IN  Call("temp", ResultBytes(j), FALSE,
             << Copy(j.a, 0, From(n, p), TRUE), Whole(b), Copy(j.a, Rest(n, l, p), n, TRUE) >>)

HelperCalls(j) ==
    CASE j.op = "CONCAT"  -> << StrLcpy("temp", ResultBytes(j), j.a),
                              StrLcat("temp", ResultBytes(j), j.b) >>
      [] j.op = "LEFT"    -> << LeftCall(j) >>
      [] j.op = "RIGHT"   -> << RightCall(j) >>
      [] j.op = "MID"     -> << MidCall(j) >>
      [] j.op = "REPLACE" -> << ReplaceCall(j, j.b, j.l, j.p) >>
      [] j.op = "INSERT"  -> << ReplaceCall(j, j.b, 0, j.p + 1) >>
      [] j.op = "DELETE"  -> << ReplaceCall(j, "empty", j.l, j.p) >>
      [] j.op = "NUMBER"  -> << >>

-----------------------------------------------------------------------------
(* The program's statements. *)

Plain(op, as, bs, ls, ps) == [op: {op}, a: as, b: bs, l: ls, p: ps]
Builtins == Plain("CONCAT", Vars, Vars, {0}, {0})
            \cup Plain("LEFT", Vars, {"empty"}, Counts, {0})
            \cup Plain("RIGHT", Vars, {"empty"}, Counts, {0})
            \cup Plain("MID", Vars, {"empty"}, Counts, Counts)
            \cup Plain("DELETE", Vars, {"empty"}, Counts, Counts)
            \cup Plain("INSERT", Vars, Vars, {0}, Counts)
            \cup Plain("REPLACE", Vars, Vars, Counts, Counts)
Conversions == [op: {"NUMBER"}, v: Magnitude, unsigned: BOOLEAN]

\* What IEC says the builtin yields.
Meaning(j) ==
    LET a == Text(mem[j.a])
        b == Text(mem[j.b])
    IN  CASE j.op = "CONCAT"  -> a \o b
          [] j.op = "LEFT"    -> Left(a, j.l)
          [] j.op = "RIGHT"   -> Right(a, j.l)
          [] j.op = "MID"     -> Mid(a, j.l, j.p)
          [] j.op = "DELETE"  -> Replace(a, <<>>, j.l, j.p)
          [] j.op = "INSERT"  -> Insert(a, b, j.p)
          [] j.op = "REPLACE" -> Replace(a, b, j.l, j.p)

\* A value's decimal text: the value is v, or v - TwoTo[Bits] when it is signed.
Written(j) ==
    LET numeral(m) == [n \in DOMAIN Numeral(m, Base) |-> Digit(Numeral(m, Base)[n])]
        signed == j.v - (IF j.v >= TwoTo[Bits - 1] THEN TwoTo[Bits] ELSE 0)
    IN  IF j.unsigned \/ signed >= 0 THEN numeral(j.v)
        ELSE <<Minus>> \o numeral(-signed)

Init ==
    /\ mem = [b \in Buffers |->
                IF b \in Vars THEN [n \in 0..(Size[b] - 1) |-> NUL]
                ELSE IF b = "empty" THEN [n \in {0} |-> NUL] ELSE <<>>]
    /\ job = Idle /\ answer = Idle
    /\ calls = <<>> /\ segs = <<>>
    /\ dest = "none" /\ loop = "none"
    /\ i = 0 /\ k = 0 /\ room = 0

\* s := 'abc';
StoreLiteral(v) ==
    /\ job = Idle
    /\ \E s \in Literals: mem' = [mem EXCEPT ![v] = Fitted(s, Size[v])]
    /\ answer' = Idle
    /\ UNCHANGED <<job, calls, dest, room, segs, i, k, loop>>

\* s := t;
CopyVariable(v, w) ==
    /\ job = Idle
    /\ mem' = [mem EXCEPT ![v] = Reshaped(mem[w], Size[v])]
    /\ answer' = Idle
    /\ UNCHANGED <<job, calls, dest, room, segs, i, k, loop>>

\* plcc_mid takes its position as it comes, where plcc_replace clamps it; astray
\* remembers that a statement's position was not within its text.
Astray(j) == j.op = "MID" /\ j.p \notin 1..(StrLen(mem[j.a]) + 1)

\* s := CONCAT(a, b); and the like.
AssignBuiltin(v, j) ==
    /\ job = Idle
    /\ job' = [op |-> j.op, to |-> v, means |-> Meaning(j), astray |-> Astray(j)]
    /\ mem' = [mem EXCEPT !["temp"] = [n \in 0..(ResultBytes(j) - 1) |-> Junk]]
    /\ calls' = Append(HelperCalls(j), StrLcpy(v, Size[v], "temp"))
    /\ answer' = Idle
    /\ UNCHANGED <<dest, room, segs, i, k, loop>>

\* s := DINT_TO_STRING(n);
AssignNumber(v, j) ==
    /\ job = Idle
    /\ job' = [op |-> j.op, to |-> v, means |-> Written(j), astray |-> FALSE]
    /\ mem' = [mem EXCEPT !["temp"] =
                  [n \in 0..(ResultBytes(j) - 1) |->
                      IF n < Len(NumberText(j.v, j.unsigned))
                      THEN NumberText(j.v, j.unsigned)[n + 1]
                      ELSE IF n = Len(NumberText(j.v, j.unsigned)) THEN NUL ELSE Junk]]
    /\ calls' = Append(HelperCalls(j), StrLcpy(v, Size[v], "temp"))
    /\ answer' = Idle
    /\ UNCHANGED <<dest, room, segs, i, k, loop>>

-----------------------------------------------------------------------------
(* A helper call: its copy loops, one iteration a step. *)

Loop == Head(segs)
StartOf(s) == IF s = <<>> THEN 0 ELSE Head(s).start

StartCall ==
    /\ dest = "none" /\ calls # <<>>
    /\ dest' = Head(calls).to
    /\ room' = Head(calls).cap
    /\ segs' = Head(calls).loops
    /\ calls' = Tail(calls)
    /\ k' = IF Head(calls).append THEN StrLen(mem[dest']) ELSE 0
    /\ i' = StartOf(segs')
    /\ UNCHANGED <<mem, job, loop, answer>>

\* copy_head's condition, on the character loaded.
Goes(c) ==
    /\ i < Loop.end
    /\ k < room - 1
    /\ Loop.nul => c # NUL

CopyByte ==
    /\ dest # "none" /\ segs # <<>>
    /\ \E c \in Loads(Loop.from, i):
          /\ Goes(c)
          /\ mem' = [mem EXCEPT ![dest][k] = c]
    /\ i' = i + 1 /\ k' = k + 1
    /\ UNCHANGED <<job, calls, dest, room, segs, loop, answer>>

LoopEnds ==
    /\ dest # "none" /\ segs # <<>>
    /\ \E c \in Loads(Loop.from, i): ~Goes(c)
    /\ segs' = Tail(segs)
    /\ i' = StartOf(segs')
    /\ UNCHANGED <<mem, job, calls, dest, room, k, loop, answer>>

\* The call terminates what it wrote; the last one ends the statement.
CallEnds ==
    /\ dest # "none" /\ segs = <<>>
    /\ LET ended == [mem EXCEPT ![dest][k] = NUL]
       IN  mem' = IF calls = <<>> THEN [ended EXCEPT !["temp"] = <<>>] ELSE ended
    /\ job' = IF calls = <<>> THEN Idle ELSE job
    /\ dest' = "none"
    /\ i' = 0 /\ k' = 0 /\ room' = 0
    /\ UNCHANGED <<calls, segs, loop, answer>>

-----------------------------------------------------------------------------
(* Queries: LEN, FIND, the comparison, STRING_TO_LINT. *)

Queries == [op: {"LEN", "STRING_TO"}, a: Vars, b: {"empty"}]
           \cup [op: {"FIND", "COMPARE"}, a: Vars, b: Vars]

Ask(q) ==
    /\ job = Idle
    /\ IF q.op \in {"LEN", "STRING_TO"}
       THEN /\ answer' = [query |-> q, is |-> IF q.op = "LEN" THEN StrLen(mem[q.a])
                                              ELSE NumberIn(Text(mem[q.a]))]
            /\ UNCHANGED <<job, loop>>
       ELSE /\ job' = q
            /\ loop' = IF q.op = "FIND" THEN "outer" ELSE "compare"
            /\ answer' = Idle
    /\ UNCHANGED <<mem, calls, dest, room, segs, i, k>>

Answered(x) ==
    /\ answer' = [query |-> job, is |-> x]
    /\ job' = Idle /\ loop' = "none"
    /\ i' = 0 /\ k' = 0

\* A mismatch starts over one position on, however much had matched.
NextStart == i + 1

\* plcc_find: at each position of the haystack the needle from its start.
FindOuter ==
    /\ loop = "outer"
    /\ \E c \in Loads(job.a, i):
          \/ c = NUL /\ Answered(0)
          \/ c # NUL /\ loop' = "inner" /\ k' = 0 /\ UNCHANGED <<job, i, answer>>
    /\ UNCHANGED <<mem, calls, dest, room, segs>>

FindInner ==
    /\ loop = "inner"
    /\ \E n \in Loads(job.b, k), c \in Loads(job.a, i + k):
          \/ n = NUL /\ Answered(i + 1)
          \/ /\ n # NUL /\ c = n
             /\ k' = k + 1
             /\ UNCHANGED <<job, i, loop, answer>>
          \/ /\ n # NUL /\ c # n
             /\ i' = NextStart /\ loop' = "outer"
             /\ UNCHANGED <<job, k, answer>>
    /\ UNCHANGED <<mem, calls, dest, room, segs>>

Sign(x) == IF x > 0 THEN 1 ELSE IF x < 0 THEN -1 ELSE 0
\* plcc_strcmp
CompareByte ==
    /\ loop = "compare"
    /\ \E c \in Loads(job.a, i), d \in Loads(job.b, i):
          IF c # d \/ c = NUL THEN Answered(Sign(c - d))
          ELSE i' = i + 1 /\ UNCHANGED <<job, k, loop, answer>>
    /\ UNCHANGED <<mem, calls, dest, room, segs>>

-----------------------------------------------------------------------------
Statement ==
    \E v \in Vars:
        \/ StoreLiteral(v)
        \/ \E w \in Vars: CopyVariable(v, w)
        \/ \E j \in Builtins: AssignBuiltin(v, j)
        \/ \E j \in Conversions: AssignNumber(v, j)
Helper == StartCall \/ CopyByte \/ LoopEnds \/ CallEnds
Query == FindOuter \/ FindInner \/ CompareByte

Next == Statement \/ Helper \/ (\E q \in Queries: Ask(q)) \/ Query

\* A program runs on: emitted code is not pre-empted for ever.
Spec == Init /\ [][Next]_vars /\ WF_vars(Helper) /\ WF_vars(Query)

-----------------------------------------------------------------------------
\* No store of the emitted loops leaves its buffer, and no load does.
StoresInBounds == dest # "none" => k \in DOMAIN mem[dest]
LoadsInBounds ==
    /\ segs # <<>> => (Loop.nul \/ i < Loop.end => i \in DOMAIN mem[Loop.from])
    /\ loop \in {"outer", "compare"} => i \in DOMAIN mem[job.a]
    /\ loop = "compare" => i \in DOMAIN mem[job.b]
    /\ loop = "inner" =>
          /\ k \in DOMAIN mem[job.b]
          /\ mem[job.b][k] # NUL => i + k \in DOMAIN mem[job.a]

\* "Out-of-range positions and lengths are clamped (never read or write outside
\* a buffer)" (docs/codesys-compatibility.md:246; compiler.rs:2330, "this load
\* stays inside the string").  The code breaks it: see OnlyMidStrays.
InBounds == StoresInBounds /\ LoadsInBounds

\* What the code does keep of InBounds, whatever the arguments: no store leaves its
\* buffer at all, and the only loads that do are those with which a MID whose
\* position is not within its text fills the temporary (compiler.rs:2152).
MidStrays == dest = "temp" /\ job.astray
OnlyMidStrays == StoresInBounds /\ (LoadsInBounds \/ MidStrays)

\* A variable not being written is terminated, keeps its size, and holds no
\* byte of a fresh stack slot before its terminator: every reader depends on
\* it (strings.rs:3-15).
AlwaysTerminated ==
    \A v \in Vars:
        /\ DOMAIN mem[v] = 0..(Size[v] - 1)
        /\ dest # v => /\ Terminated(mem[v])
                       /\ \A n \in 0..(StrLen(mem[v]) - 1): mem[v][n] # Junk

\* A statement leaves in its target what the function means, positions and
\* lengths clamped, cut to the target's length, whichever variables are both
\* argument and target (strings.rs:9-12, codesys-compatibility.md:246).  The code
\* breaks it: see EndsMeantInText.
StatementEnds == job # Idle /\ job' = Idle /\ loop = "none"
EndsMeant ==
    StatementEnds => Text(mem'[job.to]) = Cut(job.means, Size[job.to] - 1)

\* What the code does keep of EndsMeant: every statement but a MID whose position
\* is not within its text, whatever bytes such a MID left in the arguments.
EndsMeantInText ==
    StatementEnds /\ ~job.astray => Text(mem'[job.to]) = Cut(job.means, Size[job.to] - 1)

\* Queries answer what the language says of the texts.
AnswersRight ==
    answer # Idle =>
        LET a == Text(mem[answer.query.a])
            b == Text(mem[answer.query.b])
        IN  CASE answer.query.op = "LEN"     -> answer.is = Len(a)
              [] answer.query.op = "FIND"    -> answer.is = Find(a, b)
              [] answer.query.op = "COMPARE" -> answer.is = Order(a, b)
              [] OTHER -> \A j \in Conversions: Written(j) = a => answer.is = j.v
=============================================================================
