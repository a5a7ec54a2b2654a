----------------------------- MODULE LogixStack -----------------------------
(* FFL FFU LFL LFU of plcc-l5x/src/rll.rs: the Structured Text that a Logix  *)
(* FIFO or LIFO pair becomes, over an array arr and one CONTROL structure c. *)
(* The pair may be executed in any order, with any rung condition; LEN is    *)
(* what the program gives it and the file lies inside the array.             *)
EXTENDS Integers, Sequences

CONSTANTS Values,  \* what an element holds
          Zero,    \* the zero of the element's type
          Size,    \* elements of the array
          First,   \* index of the file's first element in the array
          Lens     \* values of LEN

ASSUME StackAssumption ==
    /\ Zero \in Values
    /\ Size \in Nat /\ First \in Nat /\ First < Size
    /\ Lens \subseteq Int /\ \A n \in Lens : First + n <= Size

VARIABLES
    lifo,     \* LFL and LFU, or FFL and FFU
    literal,  \* the POS operand is the number 0
    arr, dest,
    c         \* the CONTROL: LEN, POS, EN, EU, DN, EM
vars == <<lifo, literal, arr, dest, c>>

Index == 0 .. Size - 1
Control == [LEN : Lens, POS : Int, EN : BOOLEAN, EU : BOOLEAN, DN : BOOLEAN, EM : BOOLEAN]

(* element k of the file, an index into the array *)
At(k) == First + k

Broken(r) == r.LEN <= 0 \/ r.POS < 0
Status(r) == [r EXCEPT !.DN = Broken(r) \/ r.POS >= r.LEN, !.EM = Broken(r) \/ r.POS = 0]
Idle(r) == [r EXCEPT !.DN = TRUE, !.EM = TRUE]

Init ==
    /\ lifo \in BOOLEAN /\ literal \in BOOLEAN
    /\ arr \in [Index -> Values] /\ dest \in Values
    /\ \E n \in Lens :
        c = Status([LEN |-> n, POS |-> 0, EN |-> TRUE, EU |-> TRUE, DN |-> FALSE, EM |-> FALSE])

(* the false-to-true transition of the load rung *)
HasRoom_Mut(r) == r.POS <= r.LEN
HasRoom(r) == r.POS + 1 <= r.LEN
LoadEdge(v) ==
    /\ c' = [c EXCEPT !.EN = TRUE, !.EM = FALSE, !.DN = c.POS + 1 >= c.LEN,
                      !.POS = IF HasRoom(c) THEN @ + 1 ELSE @]
    /\ arr' = IF HasRoom(c) THEN [arr EXCEPT ![At(c.POS)] = v] ELSE arr

(* FFL and LFL *)
Load(rc, v) ==
    /\ CASE ~rc -> c' = Status([c EXCEPT !.EN = FALSE]) /\ UNCHANGED arr
         [] rc /\ Broken(c) -> c' = Idle(c) /\ UNCHANGED arr
         [] rc /\ ~Broken(c) /\ ~c.EN -> LoadEdge(v)
         [] OTHER -> c' = Status(c) /\ UNCHANGED arr
    /\ UNCHANGED <<lifo, literal, dest>>

(* elements 1..LEN-1 of a FIFO move down by one *)
Shifted(a) == [i \in Index |-> IF At(0) <= i /\ i < At(c.LEN - 1) THEN a[i + 1] ELSE a[i]]

(* the new position of an unload: LFU first brings POS back to LEN *)
Taken(r) == IF lifo /\ r.POS > r.LEN THEN r.LEN - 1 ELSE r.POS - 1

Emptied_Mut(r) == r.POS < 1
Emptied(r) == r.POS <= 1
UnloadEdge ==
    LET e == [c EXCEPT !.EU = TRUE, !.DN = FALSE, !.EM = Emptied(c)] IN
    IF c.POS < 1
    THEN c' = e /\ dest' = Zero /\ UNCHANGED arr
    ELSE /\ c' = [e EXCEPT !.POS = Taken(c)]
         /\ dest' = arr[At(IF lifo THEN Taken(c) ELSE 0)]
         /\ arr' = IF lifo THEN [arr EXCEPT ![At(Taken(c))] = Zero] ELSE Shifted(arr)

(* FFU and LFU *)
Unload(rc) ==
    /\ CASE ~rc -> c' = Status([c EXCEPT !.EU = FALSE]) /\ UNCHANGED <<arr, dest>>
         [] rc /\ Broken(c) -> c' = Idle(c) /\ UNCHANGED <<arr, dest>>
         [] rc /\ ~Broken(c) /\ ~c.EU -> UnloadEdge
         [] OTHER -> c' = Status(c) /\ UNCHANGED <<arr, dest>>
    /\ UNCHANGED <<lifo, literal>>

(* the program's start: the prescan of both instructions *)
Prescan ==
    /\ c' = Status([c EXCEPT !.EN = TRUE, !.EU = TRUE, !.POS = IF literal THEN 0 ELSE @])
    /\ UNCHANGED <<lifo, literal, arr, dest>>

(* RES of the CONTROL *)
Reset ==
    /\ c' = [c EXCEPT !.POS = 0, !.EN = FALSE, !.EU = FALSE, !.DN = FALSE, !.EM = FALSE]
    /\ UNCHANGED <<lifo, literal, arr, dest>>

Next ==
    \/ \E rc \in BOOLEAN, v \in Values : Load(rc, v)
    \/ \E rc \in BOOLEAN : Unload(rc)
    \/ Prescan
    \/ Reset
Spec == Init /\ [][Next]_vars
-----------------------------------------------------------------------------
(* POS counts the items of the file: its elements below POS hold them in the *)
(* order they were loaded.                                                    *)
Items == [k \in 1 .. c.POS |-> arr[At(k - 1)]]
Store == INSTANCE BoundedStore WITH
    cap <- IF c.LEN > 0 THEN c.LEN ELSE 0, items <- Items, out <- dest,
    loading <- c.EN, unloading <- c.EU

TypeOK ==
    /\ lifo \in BOOLEAN /\ literal \in BOOLEAN
    /\ arr \in [Index -> Values] /\ dest \in Values /\ c \in Control
    /\ c.POS \in 0 .. Size /\ (c.LEN > 0 => c.POS <= c.LEN) /\ (c.LEN <= 0 => c.POS = 0)

(* The four instructions keep the promise of a bounded store: no item is     *)
(* lost, taken twice or out of order, whatever the order in which the rungs  *)
(* run, turn true and false, restart or are reset (LEN is not changed).      *)
ImplementsStore == Store!Spec

(* An instruction that executes leaves DN and EM telling whether the file is *)
(* full and empty, although each sets them by a path of its own; a RES may   *)
(* leave EM false over an empty file until then.                             *)
StatusExact ==
    [][(\E rc \in BOOLEAN, v \in Values : Load(rc, v) \/ Unload(rc)) =>
           (c'.DN <=> (c'.LEN <= 0 \/ c'.POS = c'.LEN)) /\ (c'.EM <=> (c'.LEN <= 0 \/ c'.POS = 0))]_vars

(* No instruction writes an element of the array outside the file: before    *)
(* its first element or from LEN on, whichever branch a full, an empty or a  *)
(* just reset CONTROL takes.                                                 *)
OutsideKept ==
    [][\A i \in Index : i < First \/ i >= First + c.LEN => arr'[i] = arr[i]]_vars

(* The pair as its rungs see it: status and position, and nothing else.      *)
StackExact == StatusExact /\ OutsideKept
=============================================================================
