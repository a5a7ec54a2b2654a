------------------------- MODULE LogixStack_proofs -------------------------
(***************************************************************************)
(* Proofs about LogixStack, for every array, file, LEN and set of values.  *)
(***************************************************************************)
EXTENDS LogixStack, SequenceTheorems, TLAPS

(***************************************************************************)
(* The CONTROL and the file                                                *)
(***************************************************************************)
LEMMA Numbers ==
    ASSUME NEW r \in Control
    PROVE  /\ r.LEN \in Lens /\ r.LEN \in Int /\ r.POS \in Int
           /\ First \in Nat /\ Size \in Nat /\ First + r.LEN <= Size
           /\ r.EN \in BOOLEAN /\ r.EU \in BOOLEAN
  BY StackAssumption DEF StackAssumption, Control

LEMMA InArray ==
    ASSUME NEW n \in Lens, NEW k \in Nat, k < n
    PROVE  At(k) \in Index
  BY StackAssumption DEF StackAssumption, At, Index

LEMMA StatusFields ==
    ASSUME NEW r \in Control
    PROVE  /\ Status(r) \in Control
           /\ Status(r).LEN = r.LEN /\ Status(r).POS = r.POS
           /\ Status(r).EN = r.EN /\ Status(r).EU = r.EU
           /\ Status(r).DN <=> Broken(r) \/ r.POS >= r.LEN
           /\ Status(r).EM <=> Broken(r) \/ r.POS = 0
  <1>1. ASSUME NEW a \in BOOLEAN, NEW b \in BOOLEAN
        PROVE  [r EXCEPT !.DN = a, !.EM = b] \in Control
    BY Zenon DEF Control
  <1>2. (Broken(r) \/ r.POS >= r.LEN) \in BOOLEAN /\ (Broken(r) \/ r.POS = 0) \in BOOLEAN
    BY Zenon
  <1>3. Status(r) \in Control
    BY <1>1, <1>2, Zenon DEF Status
  <1> QED  BY <1>3, Zenon DEF Status, Control

LEMMA IdleFields ==
    ASSUME NEW r \in Control
    PROVE  /\ Idle(r) \in Control
           /\ Idle(r).LEN = r.LEN /\ Idle(r).POS = r.POS
           /\ Idle(r).EN = r.EN /\ Idle(r).EU = r.EU
           /\ Idle(r).DN /\ Idle(r).EM
  BY Zenon DEF Idle, Control

\* What DN and EM say of a CONTROL that is in order.
Told(r) == /\ r.DN <=> (r.LEN <= 0 \/ r.POS = r.LEN)
           /\ r.EM <=> (r.LEN <= 0 \/ r.POS = 0)

InFile(r) == r.POS \in 0 .. Size /\ (r.LEN > 0 => r.POS <= r.LEN) /\ (r.LEN <= 0 => r.POS = 0)

LEMMA StatusTells ==
    ASSUME NEW r \in Control, InFile(r)
    PROVE  Told(Status(r)) /\ InFile(Status(r)) /\ (Broken(r) <=> r.LEN <= 0)
  <1>1. Broken(r) <=> r.LEN <= 0
    BY Numbers DEF Broken, InFile
  <1>2. /\ Broken(r) \/ r.POS >= r.LEN <=> r.LEN <= 0 \/ r.POS = r.LEN
        /\ Broken(r) \/ r.POS = 0 <=> r.LEN <= 0 \/ r.POS = 0
    BY <1>1, Numbers DEF InFile
  <1>3. Told(Status(r))
    BY <1>2, StatusFields, Zenon DEF Told
  <1>4. InFile(Status(r))
    BY StatusFields, Zenon DEF InFile
  <1> QED  BY <1>1, <1>3, <1>4

LEMMA Typed == TypeOK <=> /\ lifo \in BOOLEAN /\ literal \in BOOLEAN
                          /\ arr \in [Index -> Values] /\ dest \in Values
                          /\ c \in Control /\ InFile(c)
  BY DEF TypeOK, InFile

(***************************************************************************)
(* What each instruction does to the pair                                  *)
(***************************************************************************)
\* Nothing but the memory of the rung conditions.
Kept == UNCHANGED <<lifo, literal, arr, dest>> /\ c'.LEN = c.LEN /\ c'.POS = c.POS

LEMMA LoadDoes ==
    ASSUME TypeOK, NEW rc \in BOOLEAN, NEW v \in Values, Load(rc, v)
    PROVE  /\ c' \in Control /\ Told(c') /\ InFile(c')
           /\ \/ Kept /\ c'.EU = c.EU /\ c'.EN \in {c.EN, FALSE}
              \/ Kept /\ c'.EU = c.EU /\ c'.EN = TRUE /\ c.LEN > 0 /\ c.POS = c.LEN /\ c.EN = FALSE
              \/ /\ UNCHANGED <<lifo, literal, dest>> /\ c'.EU = c.EU /\ c'.EN = TRUE /\ c.EN = FALSE
                 /\ c.LEN > 0 /\ c.POS < c.LEN /\ c'.LEN = c.LEN /\ c'.POS = c.POS + 1
                 /\ At(c.POS) \in Index /\ arr' = [arr EXCEPT ![At(c.POS)] = v]
  <1>0. c \in Control /\ InFile(c)
    BY Typed
  <1>1. CASE ~rc
    <2>1. [c EXCEPT !.EN = FALSE] \in Control
      BY <1>0, Zenon DEF Control
    <2>2. /\ [c EXCEPT !.EN = FALSE].LEN = c.LEN /\ [c EXCEPT !.EN = FALSE].POS = c.POS
          /\ [c EXCEPT !.EN = FALSE].EU = c.EU /\ [c EXCEPT !.EN = FALSE].EN = FALSE
      BY <1>0, Zenon DEF Control
    <2>3. InFile([c EXCEPT !.EN = FALSE])
      BY <1>0, <2>2, Zenon DEF InFile
    <2>4. c' = Status([c EXCEPT !.EN = FALSE]) /\ UNCHANGED <<lifo, literal, arr, dest>>
      BY <1>1, Zenon DEF Load
    <2>5. c' \in Control /\ Told(c') /\ InFile(c')
      BY <2>1, <2>3, <2>4, StatusFields, StatusTells, Zenon
    <2> QED  BY <2>1, <2>2, <2>4, <2>5, StatusFields, Zenon DEF Kept
  <1>2. CASE rc /\ Broken(c)
    <2>1. c' = Idle(c) /\ UNCHANGED <<lifo, literal, arr, dest>>
      BY <1>2, Zenon DEF Load
    <2>2. Told(c') /\ InFile(c')
      BY <1>0, <1>2, <2>1, IdleFields, StatusTells, Zenon DEF Told, InFile
    <2> QED  BY <1>0, <2>1, <2>2, IdleFields, Zenon DEF Kept
  <1>3. CASE rc /\ ~Broken(c) /\ c.EN
    <2>1. c' = Status(c) /\ UNCHANGED <<lifo, literal, arr, dest>>
      BY <1>3, Zenon DEF Load
    <2>2. Told(c') /\ InFile(c')
      BY <1>0, <2>1, StatusTells, Zenon
    <2> QED  BY <1>0, <2>1, <2>2, StatusFields, Zenon DEF Kept
  <1>4. CASE rc /\ ~Broken(c) /\ ~c.EN
    <2>1. LoadEdge(v) /\ UNCHANGED <<lifo, literal, dest>>
      BY <1>4, Zenon DEF Load
    <2>2. c.LEN > 0 /\ c.POS \in 0 .. c.LEN /\ c.EN = FALSE
      BY <1>0, <1>4, Numbers DEF Broken, InFile
    <2>3. ASSUME NEW a \in BOOLEAN, NEW p \in Int
          PROVE  [c EXCEPT !.EN = TRUE, !.EM = FALSE, !.DN = a, !.POS = p] \in Control
      BY <1>0, Zenon DEF Control
    <2>4. (c.POS + 1 >= c.LEN) \in BOOLEAN /\ (IF HasRoom(c) THEN c.POS + 1 ELSE c.POS) \in Int
      BY <1>0, Numbers
    <2>5. c' = [c EXCEPT !.EN = TRUE, !.EM = FALSE, !.DN = c.POS + 1 >= c.LEN,
                         !.POS = IF HasRoom(c) THEN c.POS + 1 ELSE c.POS]
      BY <1>0, <2>1, Zenon DEF LoadEdge, Control
    <2>6. /\ c' \in Control /\ c'.LEN = c.LEN /\ c'.EU = c.EU /\ c'.EN = TRUE /\ c'.EM = FALSE
          /\ c'.DN <=> c.POS + 1 >= c.LEN
          /\ c'.POS = IF HasRoom(c) THEN c.POS + 1 ELSE c.POS
      BY <1>0, <2>3, <2>4, <2>5, Zenon DEF Control
    <2>7. InFile(c') /\ (c'.DN <=> c'.POS = c'.LEN) /\ c'.POS # 0 /\ ~(c'.LEN <= 0)
      BY <1>0, <2>2, <2>6, Numbers DEF HasRoom, InFile
    <2>8. Told(c')
      BY <2>6, <2>7, Zenon DEF Told
    <2>9. CASE HasRoom(c)
      <3>1. c.POS < c.LEN /\ c.POS \in Nat
        BY <1>0, <2>2, <2>9, Numbers DEF HasRoom
      <3>2. At(c.POS) \in Index
        BY <1>0, <3>1, Numbers, InArray
      <3>3. arr' = [arr EXCEPT ![At(c.POS)] = v]
        BY <2>1, <2>9, Zenon DEF LoadEdge
      <3> QED  BY <2>1, <2>2, <2>6, <2>7, <2>8, <2>9, <3>1, <3>2, <3>3
    <2>10. CASE ~HasRoom(c)
      <3>1. c.POS = c.LEN
        BY <1>0, <2>2, <2>10, Numbers DEF HasRoom
      <3>2. arr' = arr
        BY <2>1, <2>10, Zenon DEF LoadEdge
      <3> QED  BY <2>1, <2>2, <2>6, <2>7, <2>8, <2>10, <3>1, <3>2 DEF Kept
    <2> QED  BY <2>9, <2>10
  <1> QED  BY <1>1, <1>2, <1>3, <1>4, Zenon

LEMMA UnloadDoes ==
    ASSUME TypeOK, NEW rc \in BOOLEAN, Unload(rc)
    PROVE  /\ c' \in Control /\ Told(c') /\ InFile(c')
           /\ \/ Kept /\ c'.EN = c.EN /\ c'.EU \in {c.EU, FALSE}
              \/ /\ UNCHANGED <<lifo, literal, arr>> /\ dest' = Zero /\ c'.EN = c.EN /\ c'.EU = TRUE /\ c.EU = FALSE
                 /\ c.LEN > 0 /\ c.POS = 0 /\ c'.LEN = c.LEN /\ c'.POS = 0
              \/ /\ UNCHANGED <<lifo, literal>> /\ c'.EN = c.EN /\ c'.EU = TRUE /\ c.EU = FALSE
                 /\ c.POS \in 1 .. c.LEN /\ c'.LEN = c.LEN /\ c'.POS = c.POS - 1
                 /\ At(0) \in Index /\ At(c.POS - 1) \in Index
                 /\ dest' = arr[At(IF lifo THEN c.POS - 1 ELSE 0)]
                 /\ arr' = IF lifo THEN [arr EXCEPT ![At(c.POS - 1)] = Zero] ELSE Shifted(arr)
  <1>0. c \in Control /\ InFile(c)
    BY Typed
  <1>1. CASE ~rc
    <2>1. [c EXCEPT !.EU = FALSE] \in Control
      BY <1>0, Zenon DEF Control
    <2>2. /\ [c EXCEPT !.EU = FALSE].LEN = c.LEN /\ [c EXCEPT !.EU = FALSE].POS = c.POS
          /\ [c EXCEPT !.EU = FALSE].EN = c.EN /\ [c EXCEPT !.EU = FALSE].EU = FALSE
      BY <1>0, Zenon DEF Control
    <2>3. InFile([c EXCEPT !.EU = FALSE])
      BY <1>0, <2>2, Zenon DEF InFile
    <2>4. c' = Status([c EXCEPT !.EU = FALSE]) /\ UNCHANGED <<lifo, literal, arr, dest>>
      BY <1>1, Zenon DEF Unload
    <2>5. c' \in Control /\ Told(c') /\ InFile(c')
      BY <2>1, <2>3, <2>4, StatusFields, StatusTells, Zenon
    <2> QED  BY <2>1, <2>2, <2>4, <2>5, StatusFields, Zenon DEF Kept
  <1>2. CASE rc /\ Broken(c)
    <2>1. c' = Idle(c) /\ UNCHANGED <<lifo, literal, arr, dest>>
      BY <1>2, Zenon DEF Unload
    <2>2. Told(c') /\ InFile(c')
      BY <1>0, <1>2, <2>1, IdleFields, StatusTells, Zenon DEF Told, InFile
    <2> QED  BY <1>0, <2>1, <2>2, IdleFields, Zenon DEF Kept
  <1>3. CASE rc /\ ~Broken(c) /\ c.EU
    <2>1. c' = Status(c) /\ UNCHANGED <<lifo, literal, arr, dest>>
      BY <1>3, Zenon DEF Unload
    <2>2. Told(c') /\ InFile(c')
      BY <1>0, <2>1, StatusTells, Zenon
    <2> QED  BY <1>0, <2>1, <2>2, StatusFields, Zenon DEF Kept
  <1>4. CASE rc /\ ~Broken(c) /\ ~c.EU
    <2>1. UnloadEdge /\ UNCHANGED <<lifo, literal>>
      BY <1>4, Zenon DEF Unload
    <2>2. c.LEN > 0 /\ c.POS \in 0 .. c.LEN /\ c.EU = FALSE
      BY <1>0, <1>4, Numbers DEF Broken, InFile
    <2>3. Emptied(c) \in BOOLEAN
      BY <1>0, Numbers DEF Emptied
    <2>4. CASE c.POS < 1
      <3>1. c' = [c EXCEPT !.EU = TRUE, !.DN = FALSE, !.EM = Emptied(c)] /\ dest' = Zero /\ UNCHANGED arr
        BY <2>1, <2>4, Zenon DEF UnloadEdge
      <3>2. c' \in Control
        BY <1>0, <2>3, <3>1, Zenon DEF Control
      <3>3. /\ c'.LEN = c.LEN /\ c'.POS = c.POS /\ c'.EN = c.EN /\ c'.EU = TRUE
            /\ c'.DN = FALSE /\ (c'.EM <=> Emptied(c))
        BY <1>0, <3>1, Zenon DEF Control
      <3>4. c.POS = 0 /\ Emptied(c) /\ InFile(c')
        BY <1>0, <2>2, <2>4, <3>3, Numbers DEF Emptied, InFile
      <3>5. ~(c'.LEN <= 0) /\ c'.POS # c'.LEN /\ c'.POS = 0
        BY <1>0, <2>2, <3>3, <3>4, Numbers
      <3>6. Told(c')
        BY <3>3, <3>4, <3>5, Zenon DEF Told
      <3> QED  BY <2>1, <2>2, <3>1, <3>2, <3>3, <3>4, <3>6, Zenon
    <2>5. CASE ~(c.POS < 1)
      <3>1. c.POS \in 1 .. c.LEN /\ Taken(c) = c.POS - 1 /\ c.POS - 1 \in Nat /\ c.POS - 1 < c.LEN /\ 0 < c.LEN
        BY <1>0, <2>2, <2>5, Numbers DEF Taken
      <3>2. At(c.POS - 1) \in Index /\ At(0) \in Index
        BY <1>0, <3>1, Numbers, InArray
      <3>3. /\ c' = [c EXCEPT !.EU = TRUE, !.DN = FALSE, !.EM = Emptied(c), !.POS = Taken(c)]
            /\ dest' = arr[At(IF lifo THEN Taken(c) ELSE 0)]
            /\ arr' = IF lifo THEN [arr EXCEPT ![At(Taken(c))] = Zero] ELSE Shifted(arr)
        BY <1>0, <2>1, <2>5, Zenon DEF UnloadEdge, Control
      <3>4. ASSUME NEW a \in BOOLEAN, NEW p \in Int
            PROVE  [c EXCEPT !.EU = TRUE, !.DN = FALSE, !.EM = a, !.POS = p] \in Control
        BY <1>0, Zenon DEF Control
      <3>5. Taken(c) \in Int
        BY <1>0, <3>1, Numbers
      <3>6. c' \in Control
        BY <2>3, <3>3, <3>4, <3>5, Zenon
      <3>7. /\ c'.LEN = c.LEN /\ c'.POS = c.POS - 1 /\ c'.EN = c.EN /\ c'.EU = TRUE
            /\ c'.DN = FALSE /\ (c'.EM <=> Emptied(c))
        BY <1>0, <3>1, <3>3, Zenon DEF Control
      <3>8. InFile(c') /\ ~(c'.LEN <= 0) /\ c'.POS # c'.LEN /\ (Emptied(c) <=> c'.POS = 0)
        BY <1>0, <3>1, <3>7, Numbers DEF Emptied, InFile
      <3>9. Told(c')
        BY <3>7, <3>8, Zenon DEF Told
      <3> QED  BY <2>1, <2>2, <3>1, <3>2, <3>3, <3>6, <3>7, <3>8, <3>9, Zenon
    <2> QED  BY <2>4, <2>5, Zenon
  <1> QED  BY <1>1, <1>2, <1>3, <1>4, Zenon

LEMMA PrescanDoes ==
    ASSUME TypeOK, Prescan
    PROVE  /\ c' \in Control /\ InFile(c') /\ UNCHANGED <<lifo, literal, arr, dest>>
           /\ c'.LEN = c.LEN /\ c'.POS \in {c.POS, 0} /\ c'.EN = TRUE /\ c'.EU = TRUE
  <1>0. c \in Control /\ InFile(c)
    BY Typed
  <1> DEFINE r == [c EXCEPT !.EN = TRUE, !.EU = TRUE, !.POS = IF literal THEN 0 ELSE c.POS]
  <1>1. (IF literal THEN 0 ELSE c.POS) \in Int
    BY <1>0, Numbers
  <1>2. r \in Control /\ r.LEN = c.LEN /\ r.POS \in {c.POS, 0} /\ r.EN = TRUE /\ r.EU = TRUE
    BY <1>0, <1>1, Zenon DEF Control
  <1>3. c' = Status(r) /\ UNCHANGED <<lifo, literal, arr, dest>>
    BY <1>0, Zenon DEF Prescan, Control
  <1>4. InFile(r)
    BY <1>0, <1>2, Numbers DEF InFile
  <1> HIDE DEF r
  <1> QED  BY <1>2, <1>3, <1>4, StatusFields, StatusTells, Zenon

LEMMA ResetDoes ==
    ASSUME TypeOK, Reset
    PROVE  /\ c' \in Control /\ InFile(c') /\ UNCHANGED <<lifo, literal, arr, dest>>
           /\ c'.LEN = c.LEN /\ c'.POS = 0 /\ c'.EN = FALSE /\ c'.EU = FALSE
  <1>0. c \in Control /\ InFile(c)
    BY Typed
  <1>1. 0 \in Int
    OBVIOUS
  <1>2. /\ c' \in Control /\ c'.LEN = c.LEN /\ c'.POS = 0 /\ c'.EN = FALSE /\ c'.EU = FALSE
        /\ UNCHANGED <<lifo, literal, arr, dest>>
    BY <1>0, <1>1, Zenon DEF Reset, Control
  <1>3. InFile(c')
    BY <1>0, <1>2, Numbers DEF InFile
  <1> QED  BY <1>2, <1>3, Zenon

(***************************************************************************)
(* Types                                                                   *)
(***************************************************************************)
LEMMA InitType == Init => TypeOK
  <1> SUFFICES ASSUME Init PROVE TypeOK
    OBVIOUS
  <1>1. PICK n \in Lens :
           c = Status([LEN |-> n, POS |-> 0, EN |-> TRUE, EU |-> TRUE, DN |-> FALSE, EM |-> FALSE])
    BY Zenon DEF Init
  <1> DEFINE r == [LEN |-> n, POS |-> 0, EN |-> TRUE, EU |-> TRUE, DN |-> FALSE, EM |-> FALSE]
  <1>2. 0 \in Int
    OBVIOUS
  <1>3. r \in Control /\ r.LEN = n /\ r.POS = 0
    BY <1>2, Zenon DEF Control
  <1>4. InFile(r)
    BY <1>3, Numbers DEF InFile
  <1>5. c = Status(r)
    BY <1>1
  <1> HIDE DEF r
  <1>6. c \in Control /\ InFile(c)
    BY <1>3, <1>4, <1>5, StatusFields, StatusTells, Zenon
  <1> QED  BY <1>6, Typed DEF Init

LEMMA ShiftedType ==
    ASSUME TypeOK, c.POS \in 1 .. c.LEN
    PROVE  Shifted(arr) \in [Index -> Values]
  <1>1. c \in Control
    BY Typed
  <1>2. \A i \in Index : At(0) <= i /\ i < At(c.LEN - 1) => i + 1 \in Index
    BY <1>1, Numbers DEF At, Index
  <1> QED  BY <1>2 DEF Shifted, TypeOK

LEMMA NextType == TypeOK /\ [Next]_vars => TypeOK'
  <1> SUFFICES ASSUME TypeOK, [Next]_vars PROVE TypeOK'
    OBVIOUS
  <1>0. Zero \in Values
    BY StackAssumption DEF StackAssumption
  <1>t. /\ lifo \in BOOLEAN /\ literal \in BOOLEAN /\ arr \in [Index -> Values] /\ dest \in Values
        /\ c \in Control /\ InFile(c)
    BY Typed
  <1> SUFFICES /\ lifo' \in BOOLEAN /\ literal' \in BOOLEAN /\ arr' \in [Index -> Values] /\ dest' \in Values
               /\ c' \in Control /\ InFile(c')
    BY DEF TypeOK, InFile
  <1>1. ASSUME NEW rc \in BOOLEAN, NEW v \in Values, Load(rc, v)
        PROVE  /\ lifo' \in BOOLEAN /\ literal' \in BOOLEAN /\ arr' \in [Index -> Values] /\ dest' \in Values
               /\ c' \in Control /\ InFile(c')
    <2>1. c' \in Control /\ InFile(c')
      BY <1>1, LoadDoes, Zenon
    <2>2. /\ UNCHANGED <<lifo, literal, dest>>
          /\ arr' = arr \/ (At(c.POS) \in Index /\ arr' = [arr EXCEPT ![At(c.POS)] = v])
      BY <1>1, LoadDoes, Zenon DEF Kept
    <2>3. arr' \in [Index -> Values]
      BY <1>t, <2>2
    <2> QED  BY <1>t, <2>1, <2>2, <2>3
  <1>2. ASSUME NEW rc \in BOOLEAN, Unload(rc)
        PROVE  /\ lifo' \in BOOLEAN /\ literal' \in BOOLEAN /\ arr' \in [Index -> Values] /\ dest' \in Values
               /\ c' \in Control /\ InFile(c')
    <2>1. c' \in Control /\ InFile(c')
      BY <1>2, UnloadDoes, Zenon
    <2>2. /\ UNCHANGED <<lifo, literal>>
          /\ \/ UNCHANGED <<arr, dest>>
             \/ arr' = arr /\ dest' = Zero
             \/ /\ c.POS \in 1 .. c.LEN /\ At(0) \in Index /\ At(c.POS - 1) \in Index
                /\ dest' = arr[At(IF lifo THEN c.POS - 1 ELSE 0)]
                /\ arr' = IF lifo THEN [arr EXCEPT ![At(c.POS - 1)] = Zero] ELSE Shifted(arr)
      BY <1>2, UnloadDoes, Zenon DEF Kept
    <2>3. arr' \in [Index -> Values] /\ dest' \in Values
      <3>1. CASE UNCHANGED <<arr, dest>> \/ (arr' = arr /\ dest' = Zero)
        BY <1>0, <1>t, <3>1
      <3>2. CASE /\ c.POS \in 1 .. c.LEN /\ At(0) \in Index /\ At(c.POS - 1) \in Index
                 /\ dest' = arr[At(IF lifo THEN c.POS - 1 ELSE 0)]
                 /\ arr' = IF lifo THEN [arr EXCEPT ![At(c.POS - 1)] = Zero] ELSE Shifted(arr)
        <4>1. Shifted(arr) \in [Index -> Values]
          BY <3>2, ShiftedType
        <4>2. [arr EXCEPT ![At(c.POS - 1)] = Zero] \in [Index -> Values]
          BY <1>0, <1>t, <3>2
        <4>3. dest' \in Values
          BY <1>t, <3>2
        <4> QED  BY <3>2, <4>1, <4>2, <4>3
      <3> QED  BY <2>2, <3>1, <3>2
    <2> QED  BY <1>t, <2>1, <2>2, <2>3
  <1>3. CASE Prescan
    BY <1>3, <1>t, PrescanDoes, Zenon
  <1>4. CASE Reset
    BY <1>4, <1>t, ResetDoes, Zenon
  <1>5. CASE UNCHANGED vars
    BY <1>5, <1>t DEF vars, InFile
  <1> QED  BY <1>1, <1>2, <1>3, <1>4, <1>5 DEF Next

\* The state of a pair is well formed: POS lies in the file, and is 0 when LEN leaves no file.
THEOREM TypeCorrect == Spec => []TypeOK
  BY InitType, NextType, PTL DEF Spec

(***************************************************************************)
(* The pair as its rungs see it                                            *)
(***************************************************************************)
LEMMA ExecutedTells ==
    ASSUME TypeOK, NEW rc \in BOOLEAN, NEW v \in Values, Load(rc, v) \/ Unload(rc)
    PROVE  (c'.DN <=> (c'.LEN <= 0 \/ c'.POS = c'.LEN)) /\ (c'.EM <=> (c'.LEN <= 0 \/ c'.POS = 0))
  BY LoadDoes, UnloadDoes, Zenon DEF Told

LEMMA OutsideUntouched ==
    ASSUME TypeOK, [Next]_vars, NEW i \in Index, i < First \/ i >= First + c.LEN
    PROVE  arr'[i] = arr[i]
  <1>t. c \in Control /\ InFile(c) /\ arr \in [Index -> Values]
    BY Typed
  <1>0. i \in Int /\ c.LEN \in Int /\ c.POS \in Int /\ First \in Nat
    BY <1>t, Numbers DEF Index
  <1>1. ASSUME NEW rc \in BOOLEAN, NEW v \in Values, Load(rc, v) PROVE arr'[i] = arr[i]
    <2>1. arr' = arr \/ (c.POS < c.LEN /\ At(c.POS) \in Index /\ arr' = [arr EXCEPT ![At(c.POS)] = v])
      BY <1>1, LoadDoes, Zenon DEF Kept
    <2>2. c.POS < c.LEN => At(c.POS) # i
      BY <1>t, <1>0 DEF At, InFile
    <2> QED  BY <1>t, <2>1, <2>2
  <1>2. ASSUME NEW rc \in BOOLEAN, Unload(rc) PROVE arr'[i] = arr[i]
    <2>1. \/ arr' = arr
          \/ c.POS \in 1 .. c.LEN /\ arr' = IF lifo THEN [arr EXCEPT ![At(c.POS - 1)] = Zero] ELSE Shifted(arr)
      BY <1>2, UnloadDoes, Zenon DEF Kept
    <2>2. c.POS \in 1 .. c.LEN => At(c.POS - 1) # i /\ ~(At(0) <= i /\ i < At(c.LEN - 1))
      BY <1>0 DEF At
    <2>3. CASE c.POS \in 1 .. c.LEN /\ arr' = [arr EXCEPT ![At(c.POS - 1)] = Zero]
      BY <1>t, <2>2, <2>3
    <2>4. CASE c.POS \in 1 .. c.LEN /\ arr' = Shifted(arr)
      BY <2>2, <2>4 DEF Shifted
    <2> QED  BY <2>1, <2>3, <2>4
  <1>3. CASE Prescan \/ Reset \/ UNCHANGED vars
    BY <1>3 DEF Prescan, Reset, vars
  <1> QED  BY <1>1, <1>2, <1>3 DEF Next

\* After every instruction that executes DN and EM tell whether the file is full and empty, and no
\* instruction writes an element of the array that is not in the file.
THEOREM StackIsExact == Spec => StackExact
  <1>1. TypeOK /\ [Next]_vars =>
            [(\E rc \in BOOLEAN, v \in Values : Load(rc, v) \/ Unload(rc)) =>
               (c'.DN <=> (c'.LEN <= 0 \/ c'.POS = c'.LEN)) /\ (c'.EM <=> (c'.LEN <= 0 \/ c'.POS = 0))]_vars
    BY ExecutedTells
  <1>2. TypeOK /\ [Next]_vars => [\A i \in Index : i < First \/ i >= First + c.LEN => arr'[i] = arr[i]]_vars
    BY OutsideUntouched
  <1> QED  BY <1>1, <1>2, TypeCorrect, PTL DEF Spec, StackExact, StatusExact, OutsideKept

(***************************************************************************)
(* The pair is a bounded store                                             *)
(***************************************************************************)
\* The first n elements of the file of an array, as a sequence.
Held(a, n) == [k \in 1 .. n |-> a[At(k - 1)]]

LEMMA HeldSequence ==
    ASSUME NEW a \in [Index -> Values], NEW l \in Lens, NEW n \in 0 .. Size, l > 0 => n <= l, l <= 0 => n = 0
    PROVE  /\ Held(a, n) \in Seq(Values) /\ Len(Held(a, n)) = n
           /\ \A k \in 1 .. n : Held(a, n)[k] = a[At(k - 1)]
  <1>0. /\ l \in Int /\ First \in Nat /\ Size \in Nat /\ First + l <= Size /\ n \in Nat
    BY StackAssumption DEF StackAssumption
  <1>1. \A k \in 1 .. n : At(k - 1) \in Index
    BY <1>0 DEF At, Index
  <1>2. Held(a, n) \in [1 .. n -> Values]
    BY <1>1 DEF Held
  <1>3. Held(a, n) \in Seq(Values)
    BY <1>0, <1>2, SMT
  <1>4. Len(Held(a, n)) = n
    BY <1>0, <1>2, <1>3, SMT
  <1> QED  BY <1>3, <1>4 DEF Held

LEMMA ItemsHeld ==
    ASSUME TypeOK
    PROVE  /\ Items = Held(arr, c.POS) /\ c.POS \in 0 .. Size /\ c.LEN \in Lens /\ arr \in [Index -> Values]
           /\ c.LEN > 0 => c.POS <= c.LEN
           /\ c.LEN <= 0 => c.POS = 0
           /\ Items \in Seq(Values) /\ Len(Items) = c.POS
           /\ \A k \in 1 .. c.POS : Items[k] = arr[At(k - 1)]
  <1>1. Items = Held(arr, c.POS)
    BY DEF Items, Held
  <1>2. c \in Control /\ InFile(c) /\ arr \in [Index -> Values]
    BY Typed
  <1>3. c.LEN \in Lens /\ c.POS \in 0 .. Size /\ (c.LEN > 0 => c.POS <= c.LEN) /\ (c.LEN <= 0 => c.POS = 0)
    BY <1>2, Numbers DEF InFile
  <1> QED  BY <1>1, <1>2, <1>3, HeldSequence

\* A load into the free element behind the last item appends it.
LEMMA LoadAppends ==
    ASSUME TypeOK, NEW v \in Values, c.LEN > 0, c.POS < c.LEN, At(c.POS) \in Index,
           arr' = [arr EXCEPT ![At(c.POS)] = v], c'.POS = c.POS + 1
    PROVE  Items' = Append(Items, v)
  <1>t. c \in Control
    BY Typed
  <1>0. First \in Nat /\ Size \in Nat /\ c.LEN \in Int /\ First + c.LEN <= Size /\ c.POS \in Nat
    BY <1>t, Numbers, ItemsHeld
  <1>1. arr' \in [Index -> Values]
    BY ItemsHeld
  <1>2. Items' = Held(arr', c.POS + 1)
    BY DEF Items, Held
  <1>3. c.POS + 1 \in 0 .. Size /\ c.POS + 1 <= c.LEN
    BY <1>0
  <1>4. /\ Items' \in Seq(Values) /\ Len(Items') = c.POS + 1
        /\ \A k \in 1 .. c.POS + 1 : Items'[k] = arr'[At(k - 1)]
    <2> DEFINE a == arr'
    <2>1. a \in [Index -> Values] /\ Items' = Held(a, c.POS + 1)
      BY <1>1, <1>2
    <2>2. /\ Held(a, c.POS + 1) \in Seq(Values) /\ Len(Held(a, c.POS + 1)) = c.POS + 1
          /\ \A k \in 1 .. c.POS + 1 : Held(a, c.POS + 1)[k] = a[At(k - 1)]
      <3> HIDE DEF a
      <3> QED  BY <1>0, <1>3, <2>1, ItemsHeld, HeldSequence
    <2> QED  BY <2>1, <2>2
  <1>5. \A k \in 1 .. c.POS : Items'[k] = Items[k]
    <2> TAKE k \in 1 .. c.POS
    <2>1. At(k - 1) # At(c.POS) /\ At(k - 1) \in Index
      BY <1>0 DEF At, Index
    <2>2. Items'[k] = arr'[At(k - 1)] /\ Items[k] = arr[At(k - 1)]
      BY <1>0, <1>4, ItemsHeld
    <2>3. arr'[At(k - 1)] = arr[At(k - 1)]
      BY <2>1, ItemsHeld
    <2> QED  BY <2>2, <2>3
  <1>6. Items'[c.POS + 1] = v
    <2>1. Items'[c.POS + 1] = arr'[At(c.POS)]
      BY <1>0, <1>4
    <2> QED  BY <2>1, ItemsHeld
  <1>7. /\ Append(Items, v) \in Seq(Values) /\ Len(Append(Items, v)) = c.POS + 1
        /\ \A k \in 1 .. c.POS + 1 : Append(Items, v)[k] = IF k = c.POS + 1 THEN v ELSE Items[k]
    BY <1>0, ItemsHeld, AppendProperties
  <1>8. \A k \in 1 .. Len(Items') : Items'[k] = Append(Items, v)[k]
    BY <1>0, <1>4, <1>5, <1>6, <1>7
  <1> QED  BY <1>4, <1>7, <1>8, SeqEqual

\* What is left of the file after its first or its last item went.
LEMMA UnloadTakes ==
    ASSUME TypeOK, c.POS \in 1 .. c.LEN, c'.POS = c.POS - 1,
           arr' = IF lifo THEN [arr EXCEPT ![At(c.POS - 1)] = Zero] ELSE Shifted(arr)
    PROVE  Items' = IF lifo THEN SubSeq(Items, 1, Len(Items) - 1) ELSE Tail(Items)
  <1>t. c \in Control /\ arr \in [Index -> Values]
    BY Typed
  <1>0. First \in Nat /\ Size \in Nat /\ c.LEN \in Int /\ First + c.LEN <= Size /\ c.POS \in Nat \ {0}
    BY <1>t, Numbers, ItemsHeld
  <1>z. Zero \in Values /\ At(c.POS - 1) \in Index
    BY <1>0, StackAssumption DEF StackAssumption, At, Index
  <1>1. arr' \in [Index -> Values]
    BY <1>t, <1>z, ShiftedType
  <1>2. Items' = Held(arr', c.POS - 1)
    BY DEF Items, Held
  <1>3. /\ Items' \in Seq(Values) /\ Len(Items') = c.POS - 1
        /\ \A k \in 1 .. c.POS - 1 : Items'[k] = arr'[At(k - 1)]
    <2> DEFINE a == arr'
    <2>1. a \in [Index -> Values] /\ Items' = Held(a, c.POS - 1)
      BY <1>1, <1>2
    <2>2. /\ Held(a, c.POS - 1) \in Seq(Values) /\ Len(Held(a, c.POS - 1)) = c.POS - 1
          /\ \A k \in 1 .. c.POS - 1 : Held(a, c.POS - 1)[k] = a[At(k - 1)]
      <3> HIDE DEF a
      <3>1. c.POS - 1 \in 0 .. Size /\ c.POS - 1 <= c.LEN /\ c.LEN > 0
        BY <1>0
      <3> QED  BY <3>1, <2>1, ItemsHeld, HeldSequence
    <2> QED  BY <2>1, <2>2
  <1>4. CASE lifo
    <2>1. /\ SubSeq(Items, 1, c.POS - 1) \in Seq(Values) /\ Len(SubSeq(Items, 1, c.POS - 1)) = c.POS - 1
          /\ \A k \in 1 .. c.POS - 1 : SubSeq(Items, 1, c.POS - 1)[k] = Items[k]
      BY <1>0, ItemsHeld, SMT
    <2>2. \A k \in 1 .. c.POS - 1 : Items'[k] = Items[k]
      <3> TAKE k \in 1 .. c.POS - 1
      <3>1. At(k - 1) # At(c.POS - 1) /\ At(k - 1) \in Index /\ k \in 1 .. c.POS
        BY <1>0 DEF At, Index
      <3>2. Items'[k] = arr'[At(k - 1)] /\ Items[k] = arr[At(k - 1)]
        BY <1>3, <3>1, ItemsHeld
      <3>3. arr'[At(k - 1)] = arr[At(k - 1)]
        BY <1>4, <1>t, <3>1
      <3> QED  BY <3>2, <3>3
    <2>3. Len(Items) = c.POS
      BY ItemsHeld
    <2>4. Items' = SubSeq(Items, 1, c.POS - 1)
      BY <1>3, <2>1, <2>2, SeqEqual
    <2> QED  BY <1>4, <2>3, <2>4
  <1>5. CASE ~lifo
    <2>1. /\ Tail(Items) \in Seq(Values) /\ Len(Tail(Items)) = c.POS - 1
          /\ \A k \in 1 .. c.POS - 1 : Tail(Items)[k] = Items[k + 1]
      BY <1>0, ItemsHeld, SMT
    <2>2. \A k \in 1 .. c.POS - 1 : Items'[k] = Items[k + 1]
      <3> TAKE k \in 1 .. c.POS - 1
      <3>1. /\ At(k - 1) \in Index /\ At(0) <= At(k - 1) /\ At(k - 1) < At(c.LEN - 1)
            /\ At(k - 1) + 1 = At((k + 1) - 1) /\ k + 1 \in 1 .. c.POS
        BY <1>0 DEF At, Index
      <3>2. Items'[k] = arr'[At(k - 1)] /\ Items[k + 1] = arr[At((k + 1) - 1)]
        BY <1>3, <3>1, ItemsHeld
      <3>3. arr'[At(k - 1)] = arr[At(k - 1) + 1]
        BY <1>5, <3>1 DEF Shifted
      <3> QED  BY <3>1, <3>2, <3>3
    <2>3. Items' = Tail(Items)
      BY <1>3, <2>1, <2>2, SeqEqual
    <2> QED  BY <1>5, <2>3
  <1> QED  BY <1>4, <1>5

LEMMA ItemsStay ==
    ASSUME arr' = arr, c'.POS = c.POS
    PROVE  Items' = Items
  BY DEF Items

LEMMA EmptiedItems ==
    ASSUME c'.POS = 0
    PROVE  Items' = <<>>
  <1>1. Items' = [k \in 1 .. 0 |-> arr'[At(k - 1)]]
    BY DEF Items
  <1> QED  BY <1>1, SMT

LEMMA InitStore == Init => Store!Init
  <1> SUFFICES ASSUME Init PROVE Store!Init
    OBVIOUS
  <1>1. PICK n \in Lens :
           c = Status([LEN |-> n, POS |-> 0, EN |-> TRUE, EU |-> TRUE, DN |-> FALSE, EM |-> FALSE])
    BY Zenon DEF Init
  <1> DEFINE r == [LEN |-> n, POS |-> 0, EN |-> TRUE, EU |-> TRUE, DN |-> FALSE, EM |-> FALSE]
  <1>2. 0 \in Int
    OBVIOUS
  <1>3. r \in Control /\ r.POS = 0 /\ r.EN = TRUE /\ r.EU = TRUE
    BY <1>2, Zenon DEF Control
  <1>4. c = Status(r)
    BY <1>1
  <1> HIDE DEF r
  <1>5. c.POS = 0 /\ c.EN = TRUE /\ c.EU = TRUE /\ c \in Control
    BY <1>3, <1>4, StatusFields, Zenon
  <1>6. Items = <<>>
    BY <1>5, InitType, ItemsHeld, EmptySeq
  <1>7. (IF c.LEN > 0 THEN c.LEN ELSE 0) \in Nat
    BY <1>5, Numbers
  <1> QED  BY <1>5, <1>6, <1>7 DEF Init, Store!Init

LEMMA NextStore ==
    ASSUME TypeOK, [Next]_vars
    PROVE  [Store!Next]_(Store!vars)
  <1> DEFINE cap == IF c.LEN > 0 THEN c.LEN ELSE 0
  <1>t. c \in Control /\ c.LEN \in Int /\ c.EN \in BOOLEAN /\ c.EU \in BOOLEAN
    BY Typed, Numbers
  <1>1. ASSUME NEW rc \in BOOLEAN, NEW v \in Values, Load(rc, v)
        PROVE  [Store!Next]_(Store!vars)
    <2>1. CASE Kept /\ c'.EU = c.EU /\ c'.EN = c.EN
      BY <2>1, ItemsStay DEF Kept, Store!vars
    <2>2. CASE Kept /\ c'.EU = c.EU /\ c'.EN = FALSE
      <3>1. Store!LoadOff
        BY <2>2, ItemsStay DEF Kept, Store!LoadOff
      <3> QED  BY <3>1 DEF Store!Next
    <2>3. CASE Kept /\ c'.EU = c.EU /\ c'.EN = TRUE /\ c.LEN > 0 /\ c.POS = c.LEN /\ c.EN = FALSE
      <3>1. Store!Push(v)
        BY <1>t, <2>3, ItemsStay, ItemsHeld DEF Kept, Store!Push
      <3> QED  BY <3>1 DEF Store!Next
    <2>4. CASE /\ UNCHANGED <<lifo, literal, dest>> /\ c'.EU = c.EU /\ c'.EN = TRUE /\ c.EN = FALSE
               /\ c.LEN > 0 /\ c.POS < c.LEN /\ c'.LEN = c.LEN /\ c'.POS = c.POS + 1
               /\ At(c.POS) \in Index /\ arr' = [arr EXCEPT ![At(c.POS)] = v]
      <3>1. Items' = Append(Items, v) /\ Len(Items) = c.POS
        BY <2>4, LoadAppends, ItemsHeld
      <3>2. Store!Push(v)
        BY <1>t, <2>4, <3>1 DEF Store!Push
      <3> QED  BY <3>2 DEF Store!Next
    <2> QED  BY <1>1, <2>1, <2>2, <2>3, <2>4, LoadDoes, Zenon
  <1>2. ASSUME NEW rc \in BOOLEAN, Unload(rc)
        PROVE  [Store!Next]_(Store!vars)
    <2>1. CASE Kept /\ c'.EN = c.EN /\ c'.EU = c.EU
      BY <2>1, ItemsStay DEF Kept, Store!vars
    <2>2. CASE Kept /\ c'.EN = c.EN /\ c'.EU = FALSE
      <3>1. Store!UnloadOff
        BY <2>2, ItemsStay DEF Kept, Store!UnloadOff
      <3> QED  BY <3>1 DEF Store!Next
    <2>3. CASE /\ UNCHANGED <<lifo, literal, arr>> /\ dest' = Zero /\ c'.EN = c.EN /\ c'.EU = TRUE /\ c.EU = FALSE
               /\ c.LEN > 0 /\ c.POS = 0 /\ c'.LEN = c.LEN /\ c'.POS = 0
      <3>1. Items' = Items /\ Items = <<>>
        BY <2>3, ItemsStay, ItemsHeld, EmptySeq
      <3>2. Store!Pop
        BY <1>t, <2>3, <3>1 DEF Store!Pop
      <3> QED  BY <3>2 DEF Store!Next
    <2>4. CASE /\ UNCHANGED <<lifo, literal>> /\ c'.EN = c.EN /\ c'.EU = TRUE /\ c.EU = FALSE
               /\ c.POS \in 1 .. c.LEN /\ c'.LEN = c.LEN /\ c'.POS = c.POS - 1
               /\ At(0) \in Index /\ At(c.POS - 1) \in Index
               /\ dest' = arr[At(IF lifo THEN c.POS - 1 ELSE 0)]
               /\ arr' = IF lifo THEN [arr EXCEPT ![At(c.POS - 1)] = Zero] ELSE Shifted(arr)
      <3>1. Items' = IF lifo THEN SubSeq(Items, 1, Len(Items) - 1) ELSE Tail(Items)
        BY <2>4, UnloadTakes
      <3>2. /\ Len(Items) = c.POS /\ Items # <<>> /\ c.LEN > 0
            /\ Items[Len(Items)] = arr[At(c.POS - 1)] /\ Head(Items) = arr[At(0)]
        BY <1>t, <2>4, ItemsHeld, EmptySeq
      <3>3. dest' = IF lifo THEN Items[Len(Items)] ELSE Head(Items)
        BY <2>4, <3>2
      <3>4. Store!Pop
        BY <1>t, <2>4, <3>1, <3>2, <3>3 DEF Store!Pop, Store!Last, Store!Front
      <3> QED  BY <3>4 DEF Store!Next
    <2> QED  BY <1>2, <2>1, <2>2, <2>3, <2>4, UnloadDoes, Zenon
  <1>3. CASE Prescan
    <2>1. /\ UNCHANGED <<lifo, literal, arr, dest>> /\ c'.LEN = c.LEN /\ c'.POS \in {c.POS, 0}
          /\ c'.EN = TRUE /\ c'.EU = TRUE
      BY <1>3, PrescanDoes
    <2>2. Items' \in {Items, <<>>}
      <3>1. CASE c'.POS = c.POS
        BY <2>1, <3>1, ItemsStay
      <3>2. CASE c'.POS = 0
        BY <1>3, <3>2, EmptiedItems
      <3> QED  BY <2>1, <3>1, <3>2
    <2>3. Store!Start
      BY <2>1, <2>2 DEF Store!Start
    <2> QED  BY <2>3 DEF Store!Next
  <1>4. CASE Reset
    <2>1. /\ UNCHANGED <<lifo, literal, arr, dest>> /\ c'.LEN = c.LEN /\ c'.POS = 0
          /\ c'.EN = FALSE /\ c'.EU = FALSE
      BY <1>4, ResetDoes
    <2>2. Items' = <<>>
      BY <2>1, EmptiedItems
    <2>3. Store!Reset
      BY <2>1, <2>2 DEF Store!Reset
    <2> QED  BY <2>3 DEF Store!Next
  <1>5. CASE UNCHANGED vars
    BY <1>5 DEF vars, Items, Store!vars
  <1> QED  BY <1>1, <1>2, <1>3, <1>4, <1>5 DEF Next

\* The four instructions keep the promise of a bounded store, for every file of every array.
THEOREM PairIsBoundedStore == Spec => ImplementsStore
  <1>1. TypeOK /\ [Next]_vars => [Store!Next]_(Store!vars)
    BY NextStore
  <1> QED  BY <1>1, InitStore, TypeCorrect, PTL DEF Spec, ImplementsStore, Store!Spec
=============================================================================
