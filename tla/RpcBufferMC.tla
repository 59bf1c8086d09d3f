------------------------------ MODULE RpcBufferMC ------------------------------
(* A scaled-down machine: 2-byte words holding 0..15, a size_t of 0..127   *)
(* and allocations of at most 32 bytes keep every relation between the     *)
(* widths of a 64-bit build, so each overflow test sees both outcomes that *)
(* such a build can produce.                                               *)
EXTENDS RpcBuffer

MCStrLens == 0..U32Max
=============================================================================
