-------------------------------- MODULE VectorMC --------------------------------
(* Contents of the memory a vector may be declared in.                     *)
EXTENDS Vector

RecycledMemory == [capacity : {0, 2, 3}, total : {0, 2, 3}]
=============================================================================
