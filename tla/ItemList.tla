-------------------------------- MODULE ItemList --------------------------------
(* What vector.h promises its users: a list that is added to at the end,   *)
(* changed and shortened anywhere, and whose calls report what they did.   *)
EXTENDS Naturals, Sequences

CONSTANTS Items,  \* what the list holds: the void pointers of the caller
          Null    \* the result of a call that returns no item

VARIABLES list,   \* the items, in order
          ret     \* what the last call returned

listVars == <<list, ret>>

Init == list = <<>> /\ ret = Null

(* A full heap may refuse an item; the caller is told.                     *)
Add(x) == \/ list' = Append(list, x) /\ ret' = TRUE
          \/ UNCHANGED list /\ ret' = FALSE

(* Indices count from zero.                                                *)
Set(i, x) == /\ list' = [j \in DOMAIN list |-> IF j = i + 1 THEN x ELSE list[j]]
             /\ ret' = Null

Get(i) == /\ ret' = IF i < Len(list) THEN list[i + 1] ELSE Null
          /\ UNCHANGED list

Delete(i) ==
  IF i < Len(list)
    THEN /\ list' = SubSeq(list, 1, i) \o SubSeq(list, i + 2, Len(list))
         /\ ret' = TRUE
    ELSE UNCHANGED list /\ ret' = FALSE

Clear == list' = <<>> /\ ret' = Null

(* Every index past the end does what Len(list) does.                      *)
Next == \/ \E x \in Items : Add(x)
        \/ \E i \in 0..Len(list) : Get(i) \/ Delete(i) \/ (\E x \in Items : Set(i, x))
        \/ Clear

Spec == Init /\ [][Next]_listVars
=============================================================================
