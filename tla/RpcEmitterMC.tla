------------------------------ MODULE RpcEmitterMC ------------------------------
(* Lengths on both sides of the first capacity, and one that doubles it    *)
(* more than once.                                                         *)
EXTENDS RpcEmitter

Lengths == {0, 1, 6, 7, 20}
=============================================================================
