------------------------------ MODULE VectorProofs ------------------------------
(* Whatever its memory held before, a vector leaves its block only when it *)
(* is used as recycled memory left it; from zeroed memory or vector_init   *)
(* on it acts as a list, for every initial capacity, every set of items,   *)
(* and whichever reallocs fail.                                            *)
EXTENDS Vector, SequenceTheorems, TLAPS

(* Once ready, the capacity field tells the truth about the block, the     *)
(* items fit in it, and the first total of them have been written.         *)
Sound ==
  /\ ptr # "wild"
  /\ DOMAIN items = 0..capacity - 1
  /\ total <= capacity
  /\ \A i \in 0..total - 1 : items[i] \in Items

(* Before that nothing is allocated, and a use either changes nothing or   *)
(* goes wild.                                                              *)
RawShape == DOMAIN items = {} /\ (ptr = "wild" \/ (total # 0 /\ capacity = 0))

IInv == /\ TypeOK
        /\ ready => ~ wild /\ Sound
        /\ ~ ready /\ ~ wild => RawShape

LEMMA Constants == /\ InitCap \in Nat /\ InitCap > 0 /\ MaxTotal \in Nat
                   /\ RawStructs \subseteq [capacity : Nat, total : Nat]
  BY VectorAssumption

LEMMA InitIInv == VectorInit => IInv
  <1> SUFFICES ASSUME VectorInit PROVE IInv
    OBVIOUS
  <1>1. PICK s \in RawStructs : /\ capacity = s.capacity /\ total = s.total
                                /\ ptr = IF s = Zero THEN "null" ELSE "wild"
                                /\ ready = (s = Zero)
    BY DEF VectorInit
  <1>2. s \in [capacity : Nat, total : Nat]
    BY Constants
  <1>3. DOMAIN items = {}
    BY DEF VectorInit, Empty
  <1>4. TypeOK
    <2>1. ready \in BOOLEAN
      BY <1>1, Zenon
    <2>2. QED
      BY <1>1, <1>2, <1>3, <2>1, Constants DEF VectorInit, TypeOK
  <1>5. ASSUME ready PROVE Sound
    <2>1. s = Zero
      BY <1>1, <1>5
    <2>2. capacity = 0 /\ total = 0 /\ ptr = "null"
      BY <1>1, <2>1 DEF Zero
    <2>3. QED
      BY <2>2, <1>3 DEF Sound
  <1>6. ~ ready => ptr = "wild"
    BY <1>1, Zenon
  <1>7. ~ wild
    BY DEF VectorInit
  <1>8. QED
    BY <1>3, <1>4, <1>5, <1>6, <1>7, Zenon DEF IInv, RawShape

(* realloc keeps what fits, and pads the rest.                             *)
LEMMA ReallocBlock ==
  ASSUME NEW block, NEW n \in Nat
  PROVE  /\ DOMAIN Realloc(block, n) = 0..n - 1
         /\ \A i \in 0..n - 1 : i \in DOMAIN block => Realloc(block, n)[i] = block[i]
         /\ \A i \in 0..n - 1 : Realloc(block, n)[i] \in {block[i], Junk}
  BY DEF Realloc

(* One more item stored in a block with room for it keeps the vector sound.*)
LEMMA StoreSound ==
  ASSUME IInv, ready, NEW x \in Items, NEW block, NEW n \in Nat,
         Store(block, x), DOMAIN block = 0..n - 1, total < n,
         \A i \in 0..total - 1 : block[i] \in Items,
         \A i \in 0..n - 1 : block[i] \in Items \cup {Junk},
         capacity' = n, ptr' # "wild", ptr' \in {"null", "block"}, ready' = ready
  PROVE  IInv'
  <1>1. /\ total \in Nat /\ ptr # "wild" /\ ~ wild
        /\ total' = total + 1
        /\ items' = [i \in 0..n - 1 |-> IF i = total THEN x ELSE block[i]]
        /\ ret' = TRUE /\ ~ wild'
    BY DEF IInv, TypeOK, Sound, Store
  <1>2. DOMAIN items' = 0..n - 1
    BY <1>1
  <1>3. \A i \in 0..n - 1 : items'[i] \in Items \cup {Junk}
    BY <1>1
  <1>4. \A i \in 0..total : items'[i] \in Items
    BY <1>1
  <1>5. TypeOK'
    <2>1. total' \in Nat /\ DOMAIN items' \subseteq Nat
      BY <1>1, <1>2
    <2>2. \A i \in DOMAIN items' : items'[i] \in Items \cup {Junk}
      BY <1>2, <1>3
    <2>3. ret' \in Items \cup {Null, TRUE, FALSE}
      BY <1>1, Zenon
    <2>4. ready' \in BOOLEAN
      BY DEF IInv, TypeOK
    <2>5. wild' \in BOOLEAN
      BY Zenon DEF Store
    <2>6. capacity' \in Nat /\ ptr' \in {"null", "block", "wild"}
      OBVIOUS
    <2>7. QED
      BY <2>1, <2>2, <2>3, <2>4, <2>5, <2>6, Zenon DEF TypeOK
  <1>6. Sound'
    <2>1. 0..total' - 1 = 0..total
      BY <1>1
    <2>2. total' <= n
      BY <1>1
    <2>3. QED
      BY <1>2, <1>4, <2>1, <2>2 DEF Sound
  <1>7. QED
    BY <1>1, <1>5, <1>6 DEF IInv

(* What a call leaves of a struct that nobody made a vector of.            *)
RawOK == TypeOK /\ ~ ready /\ (~ wild => RawShape)

LEMMA RawIInvNext == RawOK' => IInv'
  BY DEF RawOK, IInv

LEMMA RawStore ==
  ASSUME RawOK, ~ wild, NEW x \in Items, NEW block, Store(block, x), ready' = ready,
         DOMAIN block \subseteq Nat, \A i \in DOMAIN block : block[i] \in {Junk},
         ptr = "wild" \/ total \notin DOMAIN block,
         capacity' \in Nat, ptr' \in {"null", "block", "wild"}
  PROVE  RawOK'
  <1>1. wild' /\ wild' \in BOOLEAN /\ ret' = TRUE /\ total' = total + 1
    BY Zenon DEF Store
  <1>2. total' \in Nat
    BY <1>1 DEF RawOK, TypeOK
  <1>3. DOMAIN items' \subseteq Nat /\ \A i \in DOMAIN items' : items'[i] \in Items \cup {Junk}
    BY DEF Store
  <1>4. ret' \in Items \cup {Null, TRUE, FALSE}
    BY <1>1, Zenon
  <1>5. ready' \in BOOLEAN /\ ~ ready'
    BY DEF RawOK, TypeOK
  <1>6. TypeOK'
    BY <1>1, <1>2, <1>3, <1>4, <1>5, Zenon DEF TypeOK
  <1>7. QED
    BY <1>1, <1>5, <1>6 DEF RawOK

LEMMA RawAdd == ASSUME IInv, ~ wild, ~ ready, NEW x \in Items, Add(x) PROVE RawOK'
  <1>1. RawOK /\ DOMAIN items = {} /\ capacity \in Nat /\ total \in Nat
        /\ ptr \in {"null", "block", "wild"} /\ (ptr = "wild" \/ total # capacity)
    BY DEF IInv, RawOK, RawShape, TypeOK
  <1>2. CASE AddFits(x)
    BY <1>1, <1>2, RawStore DEF AddFits
  <1>3. CASE AddGrows(x)
    <2> DEFINE n == NewCap(2 * capacity)
    <2>1. n \in Nat
      BY <1>1, Constants DEF NewCap
    <2> HIDE DEF n
    <2>2. /\ DOMAIN Realloc(items, n) \subseteq Nat
          /\ \A i \in DOMAIN Realloc(items, n) : Realloc(items, n)[i] \in {Junk}
      BY <1>1, <2>1 DEF Realloc
    <2>3. QED
      BY <1>1, <1>3, <2>1, <2>2, RawStore DEF AddGrows, Full, n
  <1>4. CASE AddFails
    <2>1. wild' \in BOOLEAN /\ UNCHANGED <<capacity, total, items, ptr, ready>> /\ ret' = FALSE
      BY <1>4, Zenon DEF AddFails, fields
    <2>2. ret' \in Items \cup {Null, TRUE, FALSE}
      BY <2>1, Zenon
    <2>3. TypeOK'
      BY <1>1, <2>1, <2>2, Zenon DEF RawOK, TypeOK
    <2>4. QED
      BY <1>1, <2>1, <2>3 DEF RawOK, RawShape
  <1>5. QED
    BY <1>2, <1>3, <1>4 DEF Add

(* The other calls: an index out of range changes nothing, and one in      *)
(* range goes wild.                                                        *)
LEMMA RawIndexed ==
  ASSUME IInv, ~ wild, ~ ready, NEW i \in Nat, NEW x,
         Get(i) \/ Delete(i) \/ Set(i, x)
  PROVE  RawOK'
  <1>1. /\ TypeOK /\ DOMAIN items = {}
        /\ RawShape /\ total \in Nat /\ capacity \in Nat
    BY DEF IInv, RawShape, TypeOK
  <1>2. CASE Get(i)
    <2>1. UNCHANGED <<fields, ready>> /\ wild' \in BOOLEAN /\ ret' = Null
      BY <1>1, <1>2, Zenon DEF Get
    <2>2. TypeOK'
      BY <1>1, <2>1, Zenon DEF TypeOK, fields
    <2>3. QED
      BY <1>1, <2>1, <2>2 DEF RawOK, RawShape, fields
  <1>3. CASE Set(i, x)
    <2>1. UNCHANGED <<capacity, total, ptr, ready>> /\ ret' = Null /\ DOMAIN items' = {}
      BY <1>1, <1>3 DEF Set
    <2>2. wild' \in BOOLEAN
      BY <1>1, <1>3, Zenon DEF Set, TypeOK
    <2>3. TypeOK'
      BY <1>1, <2>1, <2>2, Zenon DEF TypeOK
    <2>4. QED
      BY <1>1, <2>1, <2>3 DEF RawOK, RawShape
  <1>4. CASE Delete(i) /\ Deletable(i)
    <2>1. total' = total - 1 /\ total > 0 /\ ret' = TRUE /\ ready' = ready
      BY <1>1, <1>4 DEF Delete, Deletable
    <2>2. wild' /\ wild' \in BOOLEAN
      BY <1>1, <1>4, Zenon DEF Delete
    <2>3. /\ capacity' \in Nat /\ ptr' \in {"null", "block", "wild"}
          /\ DOMAIN items' \subseteq Nat
          /\ \A j \in DOMAIN items' : items'[j] \in Items \cup {Junk}
      <3>1. DOMAIN Shifted(i) = {}
        BY <1>1 DEF Shifted
      <3>2. CASE items' = Shifted(i) /\ UNCHANGED <<capacity, ptr>>
        BY <1>1, <3>1, <3>2 DEF TypeOK
      <3>3. CASE /\ capacity' = NewCap(capacity \div 2)
                 /\ items' = Realloc(Shifted(i), NewCap(capacity \div 2))
                 /\ ptr' = "block"
        <4> DEFINE n == NewCap(capacity \div 2)
        <4>1. n \in Nat
          BY <1>1, Constants DEF NewCap
        <4> HIDE DEF n
        <4>2. capacity' = n /\ items' = Realloc(Shifted(i), n) /\ ptr' = "block"
          BY <3>3 DEF n
        <4>3. QED
          BY <3>1, <4>1, <4>2 DEF Realloc
      <3>4. QED
        BY <1>4, <3>2, <3>3 DEF Delete
    <2>4. total' \in Nat
      BY <1>1, <2>1
    <2>5. TypeOK'
      BY <1>1, <2>1, <2>2, <2>3, <2>4, Zenon DEF TypeOK
    <2>6. QED
      BY <2>1, <2>2, <2>5 DEF RawOK
  <1>5. CASE Delete(i) /\ ~ Deletable(i)
    <2>1. UNCHANGED <<fields, ready, wild>> /\ ret' = FALSE
      BY <1>5 DEF Delete
    <2>2. TypeOK'
      BY <1>1, <2>1, Zenon DEF TypeOK, fields
    <2>3. QED
      BY <1>1, <2>1, <2>2 DEF RawOK, RawShape, fields
  <1>6. QED
    BY <1>2, <1>3, <1>4, <1>5

LEMMA AddIInv == ASSUME IInv, ready, NEW x \in Items, Add(x) PROVE IInv'
  <1>1. ready /\ Sound
    BY DEF Add, IInv
  <1>2. CASE AddFits(x)
    <2>1. /\ Store(items, x) /\ capacity' = capacity /\ ptr' = ptr /\ ready' = ready
          /\ capacity # total
      BY <1>2 DEF AddFits, Full
    <2>2. capacity \in Nat /\ total \in Nat /\ total < capacity /\ ptr \in {"null", "block"}
      BY <1>1, <2>1 DEF IInv, TypeOK, Sound
    <2>3. \A i \in 0..capacity - 1 : items[i] \in Items \cup {Junk}
      BY <1>1 DEF IInv, TypeOK, Sound
    <2>4. QED
      BY <1>1, <2>1, <2>2, <2>3, StoreSound DEF Sound
  <1>3. CASE AddGrows(x)
    <2> DEFINE n == NewCap(2 * capacity)
    <2>1. n \in Nat /\ capacity < n
      BY Constants DEF IInv, TypeOK, NewCap
    <2>2. total < n /\ total = capacity
      BY <1>3, <2>1 DEF AddGrows, Full
    <2> HIDE DEF n
    <2>3. /\ DOMAIN Realloc(items, n) = 0..n - 1
          /\ \A i \in 0..n - 1 : i \in DOMAIN items => Realloc(items, n)[i] = items[i]
          /\ \A i \in 0..n - 1 : i \notin DOMAIN items => Realloc(items, n)[i] = Junk
      BY <2>1 DEF Realloc
    <2>4. \A i \in 0..total - 1 : Realloc(items, n)[i] \in Items
      BY <1>1, <2>1, <2>2, <2>3 DEF Sound, IInv, TypeOK
    <2>5. \A i \in 0..n - 1 : Realloc(items, n)[i] \in Items \cup {Junk}
      BY <2>3 DEF IInv, TypeOK
    <2>6. /\ Store(Realloc(items, n), x) /\ capacity' = n
          /\ ptr' = "block" /\ ready' = ready
      BY <1>3 DEF AddGrows, n
    <2>7. QED
      BY <1>1, <2>1, <2>2, <2>3, <2>4, <2>5, <2>6, StoreSound
  <1>4. CASE AddFails
    BY <1>4 DEF AddFails, fields, IInv, TypeOK, Sound
  <1>5. QED
    BY <1>2, <1>3, <1>4 DEF Add

LEMMA DeleteIInv == ASSUME IInv, ready, NEW i \in Nat, Delete(i) PROVE IInv'
  <1>1. ready /\ Sound
    BY DEF Delete, IInv
  <1>2. CASE ~ Deletable(i)
    BY <1>1, <1>2 DEF Delete, fields, IInv, TypeOK, Sound
  <1>3. CASE Deletable(i)
    <2>1. /\ capacity \in Nat /\ total \in Nat /\ total > 0 /\ total <= capacity
          /\ total' = total - 1 /\ ret' = TRUE /\ ready' /\ ready' \in BOOLEAN
      BY <1>1, <1>3 DEF Delete, Deletable, IInv, TypeOK, Sound
    <2>2. ~ wild' /\ wild' \in BOOLEAN
      <3>1. total - 1 \in DOMAIN items /\ ~ wild
        BY <1>1, <2>1 DEF IInv, Sound
      <3>2. wild' = (wild \/ total - 1 \notin DOMAIN items)
        BY <1>3, Zenon DEF Delete
      <3>3. QED
        BY <3>1, <3>2, Zenon
    <2>3. /\ DOMAIN Shifted(i) = 0..capacity - 1
          /\ \A j \in 0..capacity - 1 : Shifted(i)[j] \in Items \cup {Junk}
          /\ \A j \in 0..total - 2 : Shifted(i)[j] \in Items
      BY <1>1, <2>1 DEF Shifted, IInv, TypeOK, Sound
    <2>4. ASSUME NEW n \in Nat, n <= capacity, total - 1 <= n, capacity' = n,
                 ptr' \in {"null", "block"}, DOMAIN items' = 0..n - 1,
                 \A j \in 0..n - 1 : items'[j] = Shifted(i)[j]
          PROVE  IInv'
      <3>1. \A j \in 0..n - 1 : items'[j] \in Items \cup {Junk}
        BY <2>1, <2>3, <2>4
      <3>2. \A j \in 0..total - 2 : items'[j] \in Items
        BY <2>1, <2>3, <2>4
      <3>3. TypeOK'
        <4>1. total' \in Nat /\ DOMAIN items' \subseteq Nat
          BY <2>1, <2>4
        <4>2. \A j \in DOMAIN items' : items'[j] \in Items \cup {Junk}
          BY <2>4, <3>1
        <4>3. ret' \in Items \cup {Null, TRUE, FALSE} /\ ready' \in BOOLEAN
          BY <2>1, Zenon DEF Delete
        <4>4. capacity' \in Nat /\ ptr' \in {"null", "block", "wild"}
          BY <2>4
        <4>5. QED
          BY <2>2, <4>1, <4>2, <4>3, <4>4, Zenon DEF TypeOK
      <3>4. 0..total' - 1 = 0..total - 2 /\ total' <= n
        BY <2>1, <2>4
      <3>5. Sound'
        BY <2>4, <3>2, <3>4 DEF Sound
      <3>6. QED
        BY <2>1, <2>2, <3>3, <3>5 DEF IInv
    <2>5. CASE /\ Shrinks
               /\ capacity' = NewCap(capacity \div 2)
               /\ items' = Realloc(Shifted(i), NewCap(capacity \div 2))
               /\ ptr' = "block"
      <3>1. /\ capacity' \in Nat /\ capacity' <= capacity /\ total - 1 <= capacity'
            /\ items' = Realloc(Shifted(i), capacity')
        BY <2>1, <2>5, Constants DEF Shrinks, NewCap
      <3>2. /\ DOMAIN items' = 0..capacity' - 1
            /\ \A j \in 0..capacity' - 1 : items'[j] = Shifted(i)[j]
        <4> DEFINE n == capacity'
                   block == Shifted(i)
        <4>1. \A j \in 0..n - 1 : j \in DOMAIN block
          <5>1. capacity \in Nat /\ n \in Nat /\ n <= capacity
            BY <2>1, <3>1
          <5>2. DOMAIN block = 0..capacity - 1
            BY <2>3
          <5> HIDE DEF n, block
          <5>3. QED
            BY <5>1, <5>2
        <4>2. n \in Nat /\ items' = Realloc(block, n)
          BY <3>1
        <4> HIDE DEF n, block
        <4>3. DOMAIN items' = 0..n - 1 /\ \A j \in 0..n - 1 : items'[j] = block[j]
          BY <4>1, <4>2 DEF Realloc
        <4>4. QED
          BY <4>3 DEF n, block
      <3>3. QED
        BY <2>4, <2>5, <3>1, <3>2
    <2>6. CASE items' = Shifted(i) /\ UNCHANGED <<capacity, ptr>>
      <3>1. ptr \in {"null", "block"}
        BY <1>1 DEF IInv, TypeOK, Sound
      <3>2. QED
        BY <2>1, <2>3, <2>4, <2>6, <3>1
    <2>7. QED
      BY <1>3, <2>5, <2>6 DEF Delete
  <1>4. QED
    BY <1>2, <1>3

LEMMA SetIInv == ASSUME IInv, ready, NEW i \in Nat, NEW x \in Items, Set(i, x) PROVE IInv'
  BY DEF Set, IInv, TypeOK, Sound

LEMMA GetIInv == ASSUME IInv, ready, NEW i \in Nat, Get(i) PROVE IInv'
  <1>1. ready /\ Sound
    BY DEF Get, IInv
  <1>2. ret' \in Items \cup {Null}
    BY <1>1 DEF Get, Sound, IInv, TypeOK
  <1>3. ~ wild'
    BY <1>1 DEF Get, Sound, IInv, TypeOK
  <1>4. QED
    BY <1>1, <1>2, <1>3 DEF Get, fields, IInv, TypeOK, Sound

LEMMA LifecycleIInv ==
  ASSUME IInv, ~ wild, InitOk \/ InitFail \/ Free
  PROVE  IInv'
  <1>1. CASE InitOk
    BY <1>1, Constants DEF InitOk, IInv, TypeOK, Sound
  <1>2. CASE InitFail
    <2>1. /\ DOMAIN items' = {} /\ capacity' = 0 /\ ptr' = "null" /\ total' = total
          /\ wild' = wild /\ ret' = Null /\ ready' = (total = 0)
      BY <1>2 DEF InitFail, Empty
    <2>2. ready' \in BOOLEAN
      BY <2>1, Zenon
    <2>3. TypeOK'
      BY <2>1, <2>2 DEF IInv, TypeOK
    <2>4. ready' => Sound' /\ ~ wild'
      <3>1. ready' => total' = 0
        BY <2>1, Zenon
      <3>2. ~ wild'
        BY <2>1, Zenon
      <3>3. QED
        BY <2>1, <3>1, <3>2 DEF Sound
    <2>5. ~ ready' => RawShape'
      BY <2>1, Zenon DEF RawShape
    <2>6. QED
      BY <2>3, <2>4, <2>5, Zenon DEF IInv
  <1>3. CASE Free
    <2>1. /\ DOMAIN items' = {} /\ capacity' = 0 /\ ptr' = "null" /\ total' = 0 /\ ret' = Null
      BY <1>3 DEF Free, Empty
    <2>2. wild' = (ptr = "wild") /\ ready' = (ready \/ ~ wild')
      BY <1>3 DEF Free
    <2>3. wild' \in BOOLEAN /\ ready' \in BOOLEAN
      BY <2>2, Zenon
    <2>4. TypeOK'
      BY <2>1, <2>3 DEF TypeOK
    <2>5. ready => ~ wild'
      BY <2>2 DEF IInv, Sound
    <2>6. Sound' /\ (~ wild' => ready')
      <3>1. Sound'
        BY <2>1 DEF Sound
      <3>2. QED
        BY <2>2, <3>1, Zenon
    <2>7. wild' => ~ ready'
      BY <2>2, <2>5, Zenon
    <2>8. QED
      BY <2>4, <2>6, <2>7, Zenon DEF IInv
  <1>4. QED
    BY <1>1, <1>2, <1>3

LEMMA StepIInv == IInv /\ [VectorNext]_vectorVars => IInv'
  <1> SUFFICES ASSUME IInv, [VectorNext]_vectorVars PROVE IInv'
    OBVIOUS
  <1>1. CASE ~ wild /\ (InitOk \/ InitFail \/ Free)
    BY <1>1, LifecycleIInv
  <1>2. ASSUME ~ wild, NEW x \in Items, Add(x) PROVE IInv'
    <2>1. CASE ready
      BY <1>2, <2>1, AddIInv
    <2>2. CASE ~ ready
      BY <1>2, <2>2, RawAdd, RawIInvNext
    <2>3. QED
      BY <2>1, <2>2
  <1>3. ASSUME ~ wild, NEW i \in Nat, Get(i) \/ Delete(i) PROVE IInv'
    <2>1. CASE ready
      BY <1>3, <2>1, GetIInv, DeleteIInv
    <2>2. CASE ~ ready
      BY <1>3, <2>2, RawIndexed, RawIInvNext
    <2>3. QED
      BY <2>1, <2>2
  <1>4. ASSUME ~ wild, NEW i \in Nat, NEW x \in Items, Set(i, x) PROVE IInv'
    <2>1. CASE ready
      BY <1>4, <2>1, SetIInv
    <2>2. CASE ~ ready
      BY <1>4, <2>2, RawIndexed, RawIInvNext
    <2>3. QED
      BY <2>1, <2>2
  <1>5. CASE UNCHANGED vectorVars
    BY <1>5 DEF vectorVars, fields, IInv, TypeOK, Sound, RawShape
  <1>6. QED
    BY <1>1, <1>2, <1>3, <1>4, <1>5, Constants DEF VectorNext

LEMMA SpecIInv == VectorSpec => []IInv
  BY InitIInv, StepIInv, PTL DEF VectorSpec

-----------------------------------------------------------------------------
(* The fields stay within what their types can hold.                       *)
THEOREM VectorTypeOK == VectorSpec => []TypeOK
  <1>1. IInv => TypeOK
    BY DEF IInv
  <1>2. QED
    BY <1>1, SpecIInv, PTL

(* No call reads or writes outside the block, or reallocates or frees a    *)
(* pointer malloc did not return, unless the vector is used as recycled    *)
(* memory left it.                                                         *)
THEOREM VectorWildOnlyRecycled == VectorSpec => []WildOnlyRecycled
  <1>1. IInv => WildOnlyRecycled
    BY DEF IInv, WildOnlyRecycled
  <1>2. QED
    BY <1>1, SpecIInv, PTL

(* And then there is no luck to be had: the first vector_add, which is how *)
(* parser.c begins with the memory malloc gave it, goes wild whatever the  *)
(* memory held, unless all of it was zero.                                 *)
AddGoesWild == [][\A x \in Items : ~ ready /\ Add(x) => wild']_vectorVars

THEOREM VectorRecycledAddGoesWild == VectorSpec => AddGoesWild
  <1>1. ASSUME IInv, [VectorNext]_vectorVars
        PROVE  [\A x \in Items : ~ ready /\ Add(x) => wild']_vectorVars
    <2>1. SUFFICES ASSUME ~ wild, NEW x \in Items, ~ ready, Add(x) PROVE wild'
      BY <1>1 DEF VectorNext
    <2>2. DOMAIN items = {} /\ (ptr = "wild" \/ total # capacity)
      BY <1>1, <2>1 DEF IInv, RawShape
    <2>3. CASE AddFits(x)
      BY <2>2, <2>3, Zenon DEF AddFits, Store
    <2>4. CASE Full
      <3>1. ptr = "wild"
        BY <2>2, <2>4 DEF Full
      <3>2. QED
        BY <2>1, <2>4, <3>1, Zenon DEF Add, AddFits, AddGrows, AddFails, Store
    <2>5. QED
      BY <2>1, <2>3, <2>4 DEF Add, AddGrows, AddFails
  <1>2. QED
    BY <1>1, SpecIInv, PTL DEF VectorSpec, AddGoesWild

(* A call that changes the capacity leaves room for one more add and one   *)
(* more delete: the vector does not reallocate back and forth.             *)
Settled == (ready /\ ready' /\ capacity' \notin {0, capacity})
             => /\ total' = total + 1 => ~ Shrinks'
                /\ total' < total => ~ Full'

LEMMA GrowthSettles == ASSUME IInv, NEW x \in Items, Add(x) PROVE Settled
  <1>1. /\ capacity \in Nat /\ total \in Nat /\ InitCap \in Nat /\ InitCap > 0
    BY Constants DEF IInv, TypeOK
  <1>2. CASE AddGrows(x)
    <2>1. total = capacity /\ total' = total + 1 /\ capacity' = NewCap(2 * capacity)
      BY <1>2 DEF AddGrows, Full, Store
    <2>2. CASE capacity = 0
      BY <1>1, <2>1, <2>2 DEF Settled, Shrinks, NewCap
    <2>3. CASE capacity # 0
      <3>1. capacity' = 2 * capacity /\ total' - 1 = capacity /\ capacity > 0
        BY <1>1, <2>1, <2>3 DEF NewCap
      <3>2. ~ (total' - 1 <= capacity' \div 4)
        BY <1>1, <3>1
      <3>3. QED
        BY <1>1, <2>1, <3>2 DEF Settled, Shrinks
    <2>4. QED
      BY <2>2, <2>3
  <1>3. QED
    BY <1>2 DEF Add, AddFits, AddFails, fields, Settled

LEMMA ShrinkingSettles == ASSUME IInv, NEW i \in Nat, Delete(i) PROVE Settled
  <1>1. /\ capacity \in Nat /\ total \in Nat /\ InitCap \in Nat /\ InitCap > 0
    BY Constants DEF IInv, TypeOK
  <1>2. SUFFICES ASSUME ready, ready', capacity' \notin {0, capacity} PROVE Settled
    BY DEF Settled
  <1>3. total' = total - 1 /\ Shrinks /\ capacity' = NewCap(capacity \div 2)
    BY <1>2 DEF Delete, fields
  <1>4. capacity > InitCap /\ total' <= capacity \div 4 /\ capacity' = capacity \div 2
    BY <1>1, <1>3 DEF Shrinks, NewCap
  <1>5. total' < capacity'
    BY <1>1, <1>3, <1>4
  <1>6. QED
    BY <1>1, <1>3, <1>5 DEF Settled, Full

THEOREM VectorResizeSettles == VectorSpec => ResizeSettles
  <1>1. ASSUME IInv, [VectorNext]_vectorVars PROVE [Settled]_vectorVars
    <2>1. CASE UNCHANGED vectorVars
      BY <2>1
    <2>2. CASE InitOk \/ InitFail
      BY <2>2 DEF InitOk, InitFail, Settled
    <2>3. CASE Free
      BY <2>3 DEF Free, Settled
    <2>4. CASE \E x \in Items : Add(x)
      BY <1>1, <2>4, GrowthSettles
    <2>5. CASE \E i \in 0..MaxTotal : Delete(i)
      BY <1>1, <2>5, ShrinkingSettles, Constants
    <2>6. CASE \E i \in 0..MaxTotal : Get(i) \/ (\E x \in Items : Set(i, x))
      BY <2>6 DEF Get, Set, fields, Settled
    <2>7. QED
      BY <1>1, <2>1, <2>2, <2>3, <2>4, <2>5, <2>6 DEF VectorNext
  <1>2. QED
    BY <1>1, SpecIInv, PTL DEF VectorSpec, ResizeSettles, Settled

-----------------------------------------------------------------------------
(* The refinement of ItemList *)

(* Contents of n items taken from a block, as a sequence.                  *)
LEMMA BlockSeq ==
  ASSUME NEW block, NEW n \in Nat, \A i \in 0..n - 1 : block[i] \in Items
  PROVE  LET s == [i \in 1..n |-> block[i - 1]]
         IN  s \in Seq(Items) /\ Len(s) = n /\ \A i \in 1..n : s[i] = block[i - 1]
  <1> DEFINE s == [i \in 1..n |-> block[i - 1]]
  <1>1. \A i \in 1..n : block[i - 1] \in Items
    OBVIOUS
  <1>2. s \in [1..n -> Items]
    BY <1>1
  <1>3. s \in Seq(Items)
    BY <1>2, SeqDef
  <1>4. Len(s) = n
    BY <1>3
  <1>5. QED
    BY <1>3, <1>4

LEMMA ContentsSeq ==
  ASSUME IInv, ready
  PROVE  /\ Contents \in Seq(Items) /\ Len(Contents) = total /\ total \in Nat
         /\ \A i \in 1..total : Contents[i] = items[i - 1]
  <1>1. total \in Nat /\ \A i \in 0..total - 1 : items[i] \in Items
    BY DEF IInv, TypeOK, Sound
  <1>2. Contents = [i \in 1..total |-> items[i - 1]]
    BY DEF Contents
  <1>3. QED
    BY <1>1, <1>2, BlockSeq

(* Two states with the same items hold the same list.                      *)
LEMMA ContentsAre ==
  ASSUME IInv', ready', NEW s \in Seq(Items), Len(s) = total',
         \A i \in 1..total' : s[i] = items'[i - 1]
  PROVE  Contents' = s
  <1>1. total' \in Nat /\ \A i \in 0..total' - 1 : items'[i] \in Items
    BY DEF IInv, TypeOK, Sound
  <1>2. Contents' = [i \in 1..total' |-> items'[i - 1]]
    BY DEF Contents
  <1>3. /\ Contents' \in Seq(Items) /\ Len(Contents') = total'
        /\ \A i \in 1..total' : Contents'[i] = items'[i - 1]
    BY <1>1, <1>2, BlockSeq
  <1>4. QED
    BY <1>3, SeqEqual

(* Storing one item appends it.                                            *)
LEMMA StoreAppends ==
  ASSUME IInv, IInv', ready, ready', NEW x \in Items, NEW block, Store(block, x),
         total \in DOMAIN block,
         \A i \in 0..total - 1 : i \in DOMAIN block /\ block[i] = items[i]
  PROVE  Contents' = Append(Contents, x) /\ ret' = TRUE
  <1>1. /\ Contents \in Seq(Items) /\ Len(Contents) = total /\ total \in Nat
        /\ \A i \in 1..total : Contents[i] = items[i - 1]
    BY ContentsSeq
  <1>2. /\ total' = total + 1 /\ ret' = TRUE
        /\ items' = [i \in DOMAIN block |-> IF i = total THEN x ELSE block[i]]
    BY DEF Store
  <1>3. /\ Append(Contents, x) \in Seq(Items)
        /\ Len(Append(Contents, x)) = total + 1
        /\ \A i \in 1..total : Append(Contents, x)[i] = Contents[i]
        /\ Append(Contents, x)[total + 1] = x
    BY <1>1, AppendProperties
  <1>4. \A i \in 1..total : items'[i - 1] = items[i - 1]
    BY <1>1, <1>2
  <1>5. items'[total] = x
    BY <1>2
  <1>6. \A i \in 1..total' : Append(Contents, x)[i] = items'[i - 1]
    BY <1>1, <1>2, <1>3, <1>4, <1>5
  <1>7. QED
    BY <1>2, <1>3, <1>6, ContentsAre

LEMMA AddRefines ==
  ASSUME IInv, IInv', ready, NEW x \in Items, Add(x) PROVE List!Add(x)
  <1>1. ready /\ Sound /\ total \in Nat /\ capacity \in Nat
    BY DEF Add, IInv, TypeOK
  <1>2. CASE AddFits(x)
    <2>1. Store(items, x) /\ ready' /\ total < capacity
      BY <1>1, <1>2 DEF AddFits, Full, Sound
    <2>2. total \in DOMAIN items /\ \A i \in 0..total - 1 : i \in DOMAIN items
      BY <1>1, <2>1 DEF Sound
    <2>3. QED
      BY <1>1, <2>1, <2>2, StoreAppends DEF List!Add, Result
  <1>3. CASE AddGrows(x)
    <2> DEFINE n == NewCap(2 * capacity)
    <2>1. n \in Nat /\ total < n /\ total = capacity
      BY <1>1, <1>3, Constants DEF NewCap, AddGrows, Full
    <2>2. Store(Realloc(items, n), x) /\ ready'
      BY <1>1, <1>3 DEF AddGrows
    <2> HIDE DEF n
    <2>3. /\ total \in DOMAIN Realloc(items, n)
          /\ \A i \in 0..total - 1 : /\ i \in DOMAIN Realloc(items, n)
                                     /\ Realloc(items, n)[i] = items[i]
      BY <1>1, <2>1 DEF Realloc, Sound
    <2>4. QED
      BY <1>1, <2>2, <2>3, StoreAppends DEF List!Add, Result
  <1>4. CASE AddFails
    BY <1>1, <1>4 DEF AddFails, fields, Contents, List!Add, Result
  <1>5. QED
    BY <1>2, <1>3, <1>4 DEF Add

(* A list without its (i+1)st member.                                      *)
LEMMA Without ==
  ASSUME NEW S, NEW s \in Seq(S), NEW i \in 0..Len(s) - 1
  PROVE  LET t == SubSeq(s, 1, i) \o SubSeq(s, i + 2, Len(s))
         IN  /\ t \in Seq(S) /\ Len(t) = Len(s) - 1
             /\ \A k \in 1..Len(s) - 1 : t[k] = IF k <= i THEN s[k] ELSE s[k + 1]
  <1> DEFINE a == SubSeq(s, 1, i)
             b == SubSeq(s, i + 2, Len(s))
  <1>1. Len(s) \in Nat /\ i \in Nat /\ i < Len(s) /\ \A k \in 1..Len(s) : s[k] \in S
    OBVIOUS
  <1>2. a \in Seq(S) /\ Len(a) = i /\ \A k \in 1..i : a[k] = s[k]
    <2>1. \A k \in 1..i : s[k] \in S
      BY <1>1
    <2>2. QED
      BY <1>1, <2>1, SubSeqProperties
  <1>3. /\ b \in Seq(S) /\ Len(b) = Len(s) - i - 1
        /\ \A k \in 1..Len(s) - i - 1 : b[k] = s[k + i + 1]
    <2>1. \A k \in i + 2..Len(s) : s[k] \in S
      BY <1>1
    <2>2. i + 2 \in Int /\ Len(s) \in Int
      BY <1>1
    <2>3. /\ b \in Seq(S) /\ Len(b) = IF i + 2 <= Len(s) THEN Len(s) - (i + 2) + 1 ELSE 0
          /\ \A k \in 1..Len(s) - (i + 2) + 1 : b[k] = s[(i + 2) + k - 1]
      BY <2>1, <2>2, SubSeqProperties
    <2> HIDE DEF b
    <2>4. Len(b) = Len(s) - i - 1
      BY <1>1, <2>3
    <2>5. ASSUME NEW k \in 1..Len(s) - i - 1 PROVE b[k] = s[k + i + 1]
      <3>1. k \in 1..Len(s) - (i + 2) + 1 /\ (i + 2) + k - 1 = k + i + 1
        BY <1>1
      <3>2. QED
        BY <2>3, <3>1
    <2>6. QED
      BY <2>3, <2>4, <2>5
  <1> HIDE DEF a, b
  <1>4. /\ a \o b \in Seq(S) /\ Len(a \o b) = Len(a) + Len(b)
        /\ \A k \in 1..Len(a) + Len(b) :
             (a \o b)[k] = IF k <= Len(a) THEN a[k] ELSE b[k - Len(a)]
    <2>1. a \in Seq(S) /\ b \in Seq(S)
      BY <1>2, <1>3
    <2>2. QED
      BY <2>1, ConcatProperties
  <1>5. Len(a) = i /\ Len(b) = Len(s) - i - 1 /\ Len(a) + Len(b) = Len(s) - 1
    BY <1>1, <1>2, <1>3
  <1>6. ASSUME NEW k \in 1..Len(s) - 1
        PROVE  (a \o b)[k] = IF k <= i THEN s[k] ELSE s[k + 1]
    <2>1. (a \o b)[k] = IF k <= i THEN a[k] ELSE b[k - i]
      BY <1>4, <1>5
    <2>2. CASE k <= i
      <3>1. k \in 1..i
        BY <1>1, <2>2
      <3>2. QED
        BY <1>2, <2>1, <2>2, <3>1
    <2>3. CASE ~ (k <= i)
      <3>1. k - i \in 1..Len(s) - i - 1 /\ (k - i) + i + 1 = k + 1
        BY <1>1, <2>3
      <3>2. b[k - i] = s[(k - i) + i + 1]
        BY <1>3, <3>1
      <3>3. QED
        BY <2>1, <2>3, <3>1, <3>2
    <2>4. QED
      BY <2>2, <2>3
  <1>7. QED
    BY <1>4, <1>5, <1>6 DEF a, b

LEMMA DeleteRefines ==
  ASSUME IInv, IInv', ready, NEW i \in Nat, Delete(i)
  PROVE  List!Delete(i)
  <1>1. /\ Contents \in Seq(Items) /\ Len(Contents) = total /\ total \in Nat
        /\ \A j \in 1..total : Contents[j] = items[j - 1]
    BY ContentsSeq DEF Delete
  <1>2. CASE ~ (i < total)
    BY <1>1, <1>2 DEF Delete, Deletable, fields, Contents, List!Delete, Result
  <1>3. CASE i < total
    <2> DEFINE t == SubSeq(Contents, 1, i) \o SubSeq(Contents, i + 2, Len(Contents))
    <2>1. ret' = TRUE /\ ready' /\ total' = total - 1 /\ i \in 0..Len(Contents) - 1
      BY <1>1, <1>3 DEF Delete, Deletable
    <2>2. /\ t \in Seq(Items) /\ Len(t) = total'
          /\ \A k \in 1..total' : t[k] = IF k <= i THEN Contents[k] ELSE Contents[k + 1]
      BY <1>1, <2>1, Without
    <2> HIDE DEF t
    <2>3. ASSUME NEW j \in 0..total - 2
          PROVE  items'[j] = IF j < i THEN items[j] ELSE items[j + 1]
      <3>0. j \in 0..total - 1 /\ total <= capacity /\ capacity \in Nat /\ total \in Nat
        BY <1>1 DEF Delete, IInv, Sound, TypeOK
      <3>1. j \in DOMAIN items
        BY <3>0 DEF Delete, IInv, Sound
      <3>2. Shifted(i)[j] = IF j < i THEN items[j] ELSE items[j + 1]
        BY <1>1, <3>1 DEF Shifted
      <3>3. CASE items' = Shifted(i)
        BY <3>2, <3>3
      <3>4. CASE /\ Shrinks
                 /\ items' = Realloc(Shifted(i), NewCap(capacity \div 2))
        <4>1. DOMAIN Shifted(i) = DOMAIN items
          BY DEF Shifted
        <4>2. DOMAIN items' = 0..NewCap(capacity \div 2) - 1
          BY <3>4 DEF Realloc
        <4>3. j \in DOMAIN items'
          <5>1. DOMAIN items' = 0..capacity' - 1 /\ total' <= capacity' /\ capacity' \in Nat
            BY <2>1 DEF IInv, Sound, TypeOK
          <5>2. QED
            BY <3>0, <2>1, <5>1
        <4>4. QED
          BY <3>1, <3>2, <3>4, <4>1, <4>2, <4>3 DEF Realloc
      <3>5. QED
        BY <1>3, <3>3, <3>4 DEF Delete, Deletable
    <2>4. ASSUME NEW k \in 1..total' PROVE t[k] = items'[k - 1]
      <3>1. k - 1 \in 0..total - 2 /\ (k - 1 < i <=> k <= i) /\ k \in 1..total
            /\ k + 1 \in 1..total /\ (k - 1) + 1 = k /\ (k + 1) - 1 = k
        BY <1>1, <1>3, <2>1
      <3>2. items'[k - 1] = IF k - 1 < i THEN items[k - 1] ELSE items[k]
        BY <2>3, <3>1
      <3>3. t[k] = IF k <= i THEN Contents[k] ELSE Contents[k + 1]
        BY <2>2
      <3>4. Contents[k] = items[k - 1] /\ Contents[k + 1] = items[k]
        BY <1>1, <3>1
      <3>5. QED
        BY <3>1, <3>2, <3>3, <3>4
    <2>5. Contents' = t
      BY <2>1, <2>2, <2>4, ContentsAre
    <2>6. QED
      BY <1>1, <1>3, <2>1, <2>5 DEF List!Delete, Result, t
  <1>4. QED
    BY <1>2, <1>3

LEMMA SetRefines ==
  ASSUME IInv, IInv', ready, NEW i \in Nat, NEW x \in Items, Set(i, x)
  PROVE  List!Set(i, x)
  <1>1. /\ Contents \in Seq(Items) /\ Len(Contents) = total /\ total \in Nat
        /\ \A j \in 1..total : Contents[j] = items[j - 1]
    BY ContentsSeq DEF Set
  <1>2. ready' /\ total' = total /\ ret' = Null
    BY DEF Set
  <1> DEFINE t == [j \in DOMAIN Contents |-> IF j = i + 1 THEN x ELSE Contents[j]]
  <1>3. /\ t \in Seq(Items) /\ Len(t) = total
        /\ \A j \in 1..total : t[j] = IF j = i + 1 THEN x ELSE items[j - 1]
    <2>1. DOMAIN Contents = 1..total /\ \A j \in 1..total : Contents[j] \in Items
      BY <1>1
    <2>2. t \in [1..total -> Items]
      BY <2>1
    <2>3. t \in Seq(Items)
      BY <1>1, <2>2, SeqDef
    <2>4. Len(t) = total
      BY <1>1, <2>1, <2>3
    <2>5. QED
      BY <1>1, <2>1, <2>3, <2>4
  <1> HIDE DEF t
  <1>4. ASSUME NEW j \in 1..total PROVE t[j] = items'[j - 1]
    <2>1. /\ j - 1 \in 0..total - 1 /\ DOMAIN items = 0..capacity - 1
          /\ total <= capacity /\ capacity \in Nat
      BY <1>1 DEF Set, IInv, Sound, TypeOK
    <2>2. j - 1 \in DOMAIN items /\ (j - 1 = i <=> j = i + 1)
      BY <1>1, <2>1
    <2>3. CASE i < total
      BY <1>3, <2>2, <2>3 DEF Set
    <2>4. CASE ~ (i < total)
      <3>1. j # i + 1 /\ items' = items
        BY <1>1, <2>4 DEF Set
      <3>2. QED
        BY <1>3, <3>1
    <2>5. QED
      BY <2>3, <2>4
  <1>5. Contents' = t
    BY <1>2, <1>3, <1>4, ContentsAre
  <1>6. QED
    BY <1>2, <1>5 DEF List!Set, Result, t

LEMMA GetRefines ==
  ASSUME IInv, ready, NEW i \in Nat, Get(i)
  PROVE  List!Get(i)
  <1>1. /\ Contents \in Seq(Items) /\ Len(Contents) = total /\ total \in Nat
        /\ \A j \in 1..total : Contents[j] = items[j - 1]
    BY ContentsSeq DEF Get
  <1>2. Contents' = Contents
    BY DEF Get, fields, Contents
  <1>3. i < total => i \in DOMAIN items /\ Contents[i + 1] = items[i]
    <2>1. DOMAIN items = 0..capacity - 1 /\ total <= capacity /\ capacity \in Nat
      BY DEF Get, IInv, Sound, TypeOK
    <2>2. QED
      BY <1>1, <2>1
  <1>4. ret' = IF i < Len(Contents) THEN Contents[i + 1] ELSE Null
    BY <1>1, <1>3 DEF Get
  <1>5. QED
    BY <1>2, <1>4 DEF List!Get, Result, Get

(* An index beyond the end does what the first index past the end does.    *)
LEMMA IndexRefines ==
  ASSUME NEW n \in Nat, Len(Contents) = n, NEW i \in Nat
  PROVE  /\ List!Get(i) => \E j \in 0..n : List!Get(j)
         /\ List!Delete(i) => \E j \in 0..n : List!Delete(j)
  <1>1. CASE i <= n
    BY <1>1
  <1>2. CASE ~ (i <= n)
    <2>1. n \in 0..n /\ ~ (i < n) /\ ~ (n < n)
      BY <1>2
    <2>2. List!Get(i) => List!Get(n)
      BY <2>1 DEF List!Get, Result
    <2>3. List!Delete(i) => List!Delete(n)
      BY <2>1 DEF List!Delete, Result
    <2>4. QED
      BY <2>1, <2>2, <2>3
  <1>3. QED
    BY <1>1, <1>2

LEMMA SetIndexRefines ==
  ASSUME NEW n \in Nat, Contents \in Seq(Items), Len(Contents) = n,
         NEW i \in Nat, NEW x \in Items, List!Set(i, x)
  PROVE  \E j \in 0..n : List!Set(j, x)
  <1>1. CASE i <= n
    BY <1>1
  <1>2. CASE ~ (i <= n)
    <2>1. n \in 0..n /\ DOMAIN Contents = 1..n
      BY LenProperties
    <2>2. \A j \in DOMAIN Contents : j # i + 1 /\ j # n + 1
      BY <1>2, <2>1
    <2>3. [j \in DOMAIN Contents |-> IF j = i + 1 THEN x ELSE Contents[j]]
            = [j \in DOMAIN Contents |-> IF j = n + 1 THEN x ELSE Contents[j]]
      BY <2>2
    <2>4. QED
      BY <2>1, <2>3 DEF List!Set, Result
  <1>3. QED
    BY <1>1, <1>2

LEMMA StepRefines ==
  ASSUME IInv, IInv', [VectorNext]_vectorVars
  PROVE  [List!Next]_(List!listVars)
  <1>1. CASE UNCHANGED vectorVars
    BY <1>1 DEF vectorVars, fields, Contents, List!listVars, Result
  <1>2. CASE InitOk
    BY <1>2, BlockSeq DEF InitOk, Contents, List!Next, List!Clear, Result
  <1>3. CASE InitFail
    <2>1. ~ ready /\ ret' = Null /\ (ready' => total' = 0)
      BY <1>3 DEF InitFail
    <2>2. Contents' = << >>
      BY <2>1 DEF Contents
    <2>3. QED
      BY <2>1, <2>2 DEF Contents, List!listVars, Result
  <1>4. CASE Free
    <2>1. Contents' = << >>
      BY <1>4 DEF Free, Contents
    <2>2. QED
      BY <1>4, <2>1 DEF Free, List!Next, List!Clear, Result
  <1>5. ASSUME ready, NEW x \in Items, Add(x) PROVE List!Next
    BY <1>5, AddRefines DEF List!Next
  <1>6. ready => Contents \in Seq(Items) /\ Len(Contents) \in Nat
    BY ContentsSeq
  <1>7. ASSUME ready, NEW i \in Nat, Get(i) PROVE List!Next
    <2>1. List!Get(i) /\ Len(Contents) \in Nat
      BY <1>6, <1>7, GetRefines DEF Get
    <2>2. QED
      BY <2>1, IndexRefines DEF List!Next
  <1>8. ASSUME ready, NEW i \in Nat, Delete(i) PROVE List!Next
    <2>1. List!Delete(i) /\ Len(Contents) \in Nat
      BY <1>6, <1>8, DeleteRefines DEF Delete
    <2>2. QED
      BY <2>1, IndexRefines DEF List!Next
  <1>9. ASSUME ready, NEW i \in Nat, NEW x \in Items, Set(i, x) PROVE List!Next
    <2>1. List!Set(i, x) /\ Contents \in Seq(Items) /\ Len(Contents) \in Nat
      BY <1>6, <1>9, SetRefines DEF Set
    <2>2. \E j \in 0..Len(Contents) : List!Set(j, x)
      BY <2>1, SetIndexRefines
    <2>3. QED
      BY <2>2 DEF List!Next
  <1>10. 0..MaxTotal \subseteq Nat
    BY Constants
  <1>11. CASE ready
    BY <1>1, <1>2, <1>3, <1>4, <1>5, <1>7, <1>8, <1>9, <1>10, <1>11 DEF VectorNext
  <1>12. ASSUME ~ ready, ready' = ready PROVE UNCHANGED List!listVars
    BY <1>12 DEF Contents, Result, List!listVars
  <1>13. CASE ~ ready
    <2>1. ASSUME NEW x \in Items, Add(x) PROVE ready' = ready
      BY <2>1 DEF Add, AddFits, AddGrows, AddFails
    <2>2. ASSUME NEW i \in Nat, NEW x, Get(i) \/ Delete(i) \/ Set(i, x) PROVE ready' = ready
      BY <2>2 DEF Get, Delete, Set
    <2>3. QED
      BY <1>1, <1>2, <1>3, <1>4, <1>10, <1>12, <1>13, <2>1, <2>2 DEF VectorNext
  <1>14. QED
    BY <1>11, <1>13

LEMMA InitRefines == ASSUME VectorInit, IInv PROVE List!Init
  <1>1. Contents = << >>
    <2>1. CASE ~ ready
      BY <2>1 DEF Contents
    <2>2. CASE ready
      <3>1. DOMAIN items = {} /\ total \in Nat /\ capacity \in Nat /\ DOMAIN items = 0..capacity - 1
            /\ total <= capacity
        BY <2>2 DEF VectorInit, Empty, IInv, Sound, TypeOK
      <3>2. total = 0
        BY <3>1
      <3>3. QED
        BY <2>2, <3>2 DEF Contents
    <2>3. QED
      BY <2>1, <2>2
  <1>2. QED
    BY <1>1 DEF VectorInit, List!Init, Result

(* Whatever the allocator does, the vector is to its users the list of     *)
(* ItemList: each call returns and changes what a call on a list would.    *)
THEOREM VectorActsAsList == VectorSpec => ActsAsList
  <1>1. VectorInit => IInv
    BY InitIInv
  <1>2. VectorInit /\ IInv => List!Init
    BY InitRefines
  <1>3. IInv /\ IInv' /\ [VectorNext]_vectorVars => [List!Next]_(List!listVars)
    BY StepRefines
  <1>4. VectorSpec => []IInv
    BY SpecIInv
  <1>5. QED
    BY <1>1, <1>2, <1>3, <1>4, PTL DEF VectorSpec, ActsAsList, List!Spec
=============================================================================
