---------------------------- MODULE BoundedStore ----------------------------
(* What a FIFO or LIFO pair of Logix instructions promises (docs/l5x.md, FFL *)
(* FFU LFL LFU): at most cap items, one loaded per rising edge of the load   *)
(* rung while there is room, one taken per rising edge of the unload rung,   *)
(* the oldest of a FIFO and the newest of a LIFO, Zero from an empty store.  *)
EXTENDS Integers, Sequences

CONSTANTS Values, Zero

VARIABLES lifo, cap, items, out, loading, unloading
vars == <<lifo, cap, items, out, loading, unloading>>

Init ==
    /\ lifo \in BOOLEAN /\ cap \in Nat
    /\ items = <<>> /\ out \in Values
    /\ loading = TRUE /\ unloading = TRUE

Push(v) ==
    /\ cap > 0
    /\ loading' = TRUE
    /\ items' = IF ~loading /\ Len(items) < cap THEN Append(items, v) ELSE items
    /\ UNCHANGED <<lifo, cap, out, unloading>>

Last(s) == s[Len(s)]
Front(s) == SubSeq(s, 1, Len(s) - 1)

Pop ==
    /\ cap > 0
    /\ unloading' = TRUE
    /\ IF unloading
       THEN UNCHANGED <<items, out>>
       ELSE IF items = <<>>
            THEN out' = Zero /\ UNCHANGED items
            ELSE /\ out' = IF lifo THEN Last(items) ELSE Head(items)
                 /\ items' = IF lifo THEN Front(items) ELSE Tail(items)
    /\ UNCHANGED <<lifo, cap, loading>>

LoadOff == loading' = FALSE /\ UNCHANGED <<lifo, cap, items, out, unloading>>
UnloadOff == unloading' = FALSE /\ UNCHANGED <<lifo, cap, items, out, loading>>

(* the program starts: no edge is seen until a rung has been false; the items *)
(* stay, or go when the program gives POS as a number                         *)
Start ==
    /\ loading' = TRUE /\ unloading' = TRUE
    /\ items' \in {items, <<>>}
    /\ UNCHANGED <<lifo, cap, out>>

Reset ==
    /\ loading' = FALSE /\ unloading' = FALSE /\ items' = <<>>
    /\ UNCHANGED <<lifo, cap, out>>

Next == (\E v \in Values : Push(v)) \/ Pop \/ LoadOff \/ UnloadOff \/ Start \/ Reset
Spec == Init /\ [][Next]_vars
=============================================================================
