--------------------------------- MODULE Vector ---------------------------------
(***************************************************************************)
(* vector.h: the growing array that holds the methods of a service and the *)
(* parameters of a method.  The struct starts as whatever the memory it    *)
(* lies in holds, and may be used as it is, which is what parser.c does;   *)
(* vector_init, which nothing in the program calls, would make it empty.   *)
(* realloc may fail at any call.  A wild access is the end of what the     *)
(* code defines, and the module goes no further.                           *)
(***************************************************************************)
EXTENDS Naturals, Sequences

CONSTANTS Items,      \* the pointers stored
          Null,       \* NULL, and the result of calls that return nothing
          Junk,       \* what memory holds before it is written
          InitCap,    \* VECTOR_INIT_CAPACITY
          RawStructs, \* [capacity, total] the struct may hold before vector_init
          MaxTotal    \* bound: no program adds to a vector this long

ASSUME VectorAssumption ==
  /\ InitCap \in Nat \ {0} /\ MaxTotal \in Nat
  /\ RawStructs \subseteq [capacity : Nat, total : Nat]

VARIABLES
  capacity, total,  \* the fields of the struct
  items,            \* the block v->items points at: index -> pointer
  ptr,              \* that pointer itself: null, block or wild
  ready,            \* the struct began as zeroes, or vector_init has made it empty
  ret,              \* what the last call returned
  wild              \* an access left the block, or realloc got a wild pointer

fields     == <<capacity, total, items, ptr>>
vectorVars == <<fields, ready, ret, wild>>

Zero == [capacity |-> 0, total |-> 0]
Empty == [i \in {} |-> Junk]

(* Zeroed memory is a NULL pointer; anything else points nowhere.          *)
VectorInit ==
  /\ \E s \in RawStructs :
       /\ capacity = s.capacity /\ total = s.total
       /\ ptr = IF s = Zero THEN "null" ELSE "wild"
       /\ ready = (s = Zero)
  /\ items = Empty
  /\ ret = Null /\ wild = FALSE

-----------------------------------------------------------------------------
(* vector_init: when malloc fails total keeps what it was, and only with   *)
(* luck is the vector an empty one.                                        *)
InitOk ==
  /\ ~ ready
  /\ capacity' = InitCap /\ total' = 0
  /\ items' = [i \in 0..InitCap - 1 |-> Junk] /\ ptr' = "block"
  /\ ready' = TRUE /\ ret' = Null
  /\ UNCHANGED wild

InitFail ==
  /\ ~ ready
  /\ capacity' = 0 /\ ptr' = "null" /\ items' = Empty
  /\ ready' = (total = 0) /\ ret' = Null
  /\ UNCHANGED <<total, wild>>

(* The block after realloc to n pointers.                                  *)
Realloc(block, n) == [i \in 0..n - 1 |-> IF i \in DOMAIN block THEN block[i] ELSE Junk]

(* vector_resize: the capacity it settles on.                              *)
NewCap(n) == IF capacity = 0 THEN InitCap ELSE n

(* v->items[v->total++] = item, in the block v->items has come to name.    *)
Store(block, x) ==
  /\ items' = [i \in DOMAIN block |-> IF i = total THEN x ELSE block[i]]
  /\ wild' = (wild \/ ptr = "wild" \/ total \notin DOMAIN block)
  /\ total' = total + 1
  /\ ret' = TRUE

FullLate == total > capacity                               \* mutant: grows one item too late
Full == capacity = total

AddFits(x) ==
  /\ ~ Full
  /\ Store(items, x)
  /\ UNCHANGED <<capacity, ptr, ready>>

AddGrows(x) ==
  /\ Full
  /\ Store(Realloc(items, NewCap(2 * capacity)), x)
  /\ capacity' = NewCap(2 * capacity) /\ ptr' = "block"
  /\ UNCHANGED ready

AddFails ==
  /\ Full
  /\ ret' = FALSE
  /\ wild' = (wild \/ ptr = "wild")
  /\ UNCHANGED <<fields, ready>>

Add(x) == /\ total < MaxTotal
          /\ AddFits(x) \/ AddGrows(x) \/ AddFails

Set(i, x) ==
  /\ IF i < total
       THEN /\ items' = [j \in DOMAIN items |-> IF j = i THEN x ELSE items[j]]
            /\ wild' = (wild \/ i \notin DOMAIN items)
       ELSE UNCHANGED <<items, wild>>
  /\ ret' = Null
  /\ UNCHANGED <<capacity, total, ptr, ready>>

Get(i) ==
  /\ ret' = IF i < total /\ i \in DOMAIN items THEN items[i] ELSE Null
  /\ wild' = (wild \/ (i < total /\ i \notin DOMAIN items))
  /\ UNCHANGED <<fields, ready>>

(* The loop of vector_delete moves every later item one place down.        *)
ShiftedShort(i) ==                                         \* mutant: the loop stops one item early
  [j \in DOMAIN items |-> IF i <= j /\ j + 2 < total THEN items[j + 1] ELSE items[j]]
Shifted(i) ==
  [j \in DOMAIN items |-> IF i <= j /\ j + 1 < total THEN items[j + 1] ELSE items[j]]

ShrinksEager == capacity > InitCap /\ total - 1 <= capacity \div 2  \* mutant: shrinks at half
Shrinks == capacity > InitCap /\ total - 1 <= capacity \div 4

Deletable(i) == i < total

(* A failing realloc is ignored, and the vector keeps its old capacity.    *)
Delete(i) ==
  /\ IF Deletable(i)
       THEN /\ total' = total - 1
            /\ ret' = TRUE
            /\ wild' = (wild \/ total - 1 \notin DOMAIN items)
            /\ \/ /\ items' = Shifted(i)
                  /\ UNCHANGED <<capacity, ptr>>
               \/ /\ Shrinks
                  /\ capacity' = NewCap(capacity \div 2)
                  /\ items' = Realloc(Shifted(i), NewCap(capacity \div 2))
                  /\ ptr' = "block"
       ELSE /\ ret' = FALSE
            /\ UNCHANGED <<fields, wild>>
  /\ UNCHANGED ready

(* vector_free leaves an empty vector that can be added to again.          *)
Free ==
  /\ items' = Empty /\ ptr' = "null" /\ capacity' = 0 /\ total' = 0
  /\ wild' = (wild \/ ptr = "wild")
  /\ ready' = (ready \/ ~ wild')
  /\ ret' = Null

VectorNext ==
  /\ ~ wild
  /\ \/ InitOk \/ InitFail \/ Free
     \/ \E x \in Items : Add(x)
     \/ \E i \in 0..MaxTotal : Get(i) \/ Delete(i) \/ (\E x \in Items : Set(i, x))

VectorSpec == VectorInit /\ [][VectorNext]_vectorVars

-----------------------------------------------------------------------------
(* Properties *)

(* The fields hold what their C types can hold.                            *)
TypeOK ==
  /\ capacity \in Nat /\ total \in Nat
  /\ ptr \in {"null", "block", "wild"}
  /\ DOMAIN items \subseteq Nat
  /\ \A i \in DOMAIN items : items[i] \in Items \cup {Junk}
  /\ ready \in BOOLEAN /\ wild \in BOOLEAN
  /\ ret \in Items \cup {Null, TRUE, FALSE}

(* No access leaves the block, and no pointer is reallocated or freed that *)
(* malloc did not return, with one exception: a struct used as it was      *)
(* found in recycled memory.  Neither a failed realloc, nor a shrink, nor  *)
(* an index out of range, nor a use after vector_free is another.          *)
WildOnlyRecycled == wild => ~ ready

(* Growth and shrinking leave slack on both sides: right after the         *)
(* capacity has changed, one more call never changes it back, so no order  *)
(* of adds and deletes reallocates at every call.                          *)
ResizeSettles ==
  [][(ready /\ ready' /\ capacity' \notin {0, capacity})
       => /\ total' = total + 1 => ~ Shrinks'
          /\ total' < total => ~ Full']_vectorVars

(* To its users the vector is a list (ItemList), from vector_init or       *)
(* zeroed memory on.                                                       *)
Contents == IF ready THEN [i \in 1..total |-> items[i - 1]] ELSE <<>>
Result == IF ready THEN ret ELSE Null
List == INSTANCE ItemList WITH list <- Contents, ret <- Result
ActsAsList == List!Spec
=============================================================================
