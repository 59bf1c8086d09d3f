------------------------------ MODULE IsPrimeRpcMC ------------------------------
(* An int of eight bits, from -128 to 127.                                 *)
EXTENDS IsPrimeRpc

SomeNumbers == {25, 113}

SomeGarbage == {[i \in 1..Word |-> 0], [i \in 1..Word |-> 1]}
=============================================================================
