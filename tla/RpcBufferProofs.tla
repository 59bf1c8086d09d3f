---------------------------- MODULE RpcBufferProofs ----------------------------
(* Memory safety of RpcBuffer for every width of word and size_t, every    *)
(* initial capacity and every set of string lengths.                       *)
EXTENDS RpcBuffer, TLAPS

(* The strengthening that makes the invariants inductive: the capacity     *)
(* field tells the truth about the allocation, the array always keeps one  *)
(* spare byte behind length, a buffer being read holds a payload whose     *)
(* length came as a uint32, and every call in progress runs in its role.   *)
IInv ==
  /\ TypeOK
  /\ capacity = data
  /\ length <= capacity /\ (capacity > 0 => length < capacity)
  /\ position <= length
  /\ role = "fresh" => length = 0
  /\ role = "rx" => length <= U32Max
  /\ op # "none" => newCap > 0
  /\ op \in {"word", "string"} => role = "tx"
  /\ op = "fill" => role = "rx"
  /\ op = "string" => arg \in StrLens
  /\ InBounds
  /\ StringFits

LEMMA Constants ==
  /\ SizeMax \in Nat /\ U32Max \in Nat /\ I32Max \in Nat /\ WordBytes \in Nat
  /\ InitCap \in Nat /\ HeapMax \in Nat
  /\ WordBytes > 0 /\ InitCap > 0 /\ InitCap <= SizeMax
  /\ \A n \in StrLens : n \in Nat /\ n <= U32Max
  /\ 2 * (HeapMax + U32Max + WordBytes + 1) <= SizeMax
  BY ConstantsAssumption, WideSizeAssumption

(* What a call in progress may ask for, and the room the assumption on     *)
(* size_t leaves for doubling towards it.                                  *)
LEMMA RequestSize ==
  ASSUME IInv, op # "none"
  PROVE  /\ ReqCap \in Nat
         /\ ReqCap = length + AddLen(op, arg) + 1
         /\ AddLen(op, arg) \in Nat
         /\ AddLen(op, arg) <= U32Max + WordBytes
         /\ 2 * ReqCap <= SizeMax
  BY Constants DEF IInv, TypeOK, ReqCap, AddLen, Ops

LEMMA InitIInv == Init => IInv
  BY Constants DEF Init, IInv, TypeOK, InBounds, StringFits, Roles, Ops

LEMMA BeginIInv ==
  ASSUME IInv, NEW o \in Ops, NEW n \in 0..U32Max, Begin(o, n),
         o = "string" => n \in StrLens,
         o \in {"word", "string"} => role' = "tx",
         o = "fill" => role = "fresh" /\ role' \in {"dropped", "rx"}
                       /\ (op' = "fill" => role' = "rx")
  PROVE  IInv'
  BY Constants DEF IInv, TypeOK, Begin, GrowFrom, InBounds, StringFits, Roles, Ops

LEMMA StepIInv == IInv /\ [Next]_vars => IInv'
  <1> SUFFICES ASSUME IInv, [Next]_vars
               PROVE  IInv'
    OBVIOUS
  <1>1. CASE SerializeWord
    BY <1>1, BeginIInv, Constants DEF SerializeWord, Ops
  <1>2. CASE SerializeString
    BY <1>2, BeginIInv, Constants DEF SerializeString, Ops
  <1>3. CASE RecvPayload
    <2>1. PICK n \in 0..U32Max : Begin("fill", n)
      BY <1>3 DEF RecvPayload
    <2>2. role = "fresh" /\ role' \in {"dropped", "rx"} /\ (op' = "fill" => role' = "rx")
      BY <1>3 DEF RecvPayload
    <2>3. QED
      BY <2>1, <2>2, BeginIInv DEF Ops
  <1>4. CASE Double
    BY <1>4, RequestSize, Constants DEF Double, Twice, IInv, TypeOK, InBounds, StringFits
  <1>5. CASE ReallocOk
    BY <1>5, RequestSize, Constants DEF ReallocOk, IInv, TypeOK, InBounds, StringFits
  <1>6. CASE ReallocFail
    BY <1>6, Constants DEF ReallocFail, IInv, TypeOK, InBounds, StringFits, Roles, Ops
  <1>7. CASE AppendBytes
    BY <1>7, RequestSize, Constants
    DEF AppendBytes, AddLen, IInv, TypeOK, InBounds, StringFits, Roles, Ops
  <1>8. CASE Fill
    BY <1>8, RequestSize, Constants
    DEF Fill, AddLen, IInv, TypeOK, InBounds, StringFits, Roles, Ops
  <1>9. CASE DeserializeWord
    BY <1>9, Constants
    DEF DeserializeWord, CanRead, IInv, TypeOK, InBounds, StringFits, Roles, Ops
  <1>10. CASE DeserializeString
    <2>1. CASE StringPrefixMissing
      BY <1>10, <2>1, Constants
      DEF DeserializeString, StringPrefixMissing, IInv, TypeOK, InBounds, StringFits, Roles, Ops
    <2>2. CASE \E n \in 0..U32Max : CanRead(position, WordBytes) /\ StringRead(n)
      BY <1>10, <2>2, Constants
      DEF DeserializeString, StringRead, StringAlloc, CanRead, IInv, TypeOK, InBounds,
          StringFits, Roles, Ops
    <2>3. CASE \E n \in 0..U32Max : CanRead(position, WordBytes) /\ StringRefused(n)
      BY <1>10, <2>3, Constants
      DEF DeserializeString, StringRefused, CanRead, IInv, TypeOK, InBounds, StringFits,
          Roles, Ops
    <2>4. QED
      BY <1>10, <2>1, <2>2, <2>3 DEF DeserializeString
  <1>11. CASE Free
    BY <1>11, Constants DEF Free, IInv, TypeOK, InBounds, StringFits, Roles, Ops
  <1>12. CASE UNCHANGED vars
    BY <1>12 DEF vars, IInv, TypeOK, InBounds, StringFits
  <1>13. QED
    BY <1>1, <1>2, <1>3, <1>4, <1>5, <1>6, <1>7, <1>8, <1>9, <1>10, <1>11, <1>12
    DEF Next, Grow

LEMMA SpecIInv == Spec => []IInv
  BY InitIInv, StepIInv, PTL DEF Spec

(* Every field of the buffer stays within the range of its C type.         *)
THEOREM BufferTypeOK == Spec => []TypeOK
  <1>1. IInv => TypeOK
    BY DEF IInv
  <1>2. QED
    BY <1>1, SpecIInv, PTL

(* No access through buffer->data leaves the allocation.                   *)
THEOREM BufferInBounds == Spec => []InBounds
  <1>1. IInv => InBounds
    BY DEF IInv
  <1>2. QED
    BY <1>1, SpecIInv, PTL

(* The 32-bit len + 1 of rpc_deserialize_string never wraps: every string  *)
(* and its terminator fit what malloc was asked for.                       *)
THEOREM BufferStringFits == Spec => []StringFits
  <1>1. IInv => StringFits
    BY DEF IInv
  <1>2. QED
    BY <1>1, SpecIInv, PTL

(* Doubling reaches every capacity asked for before it wraps size_t.       *)
THEOREM BufferGrowthNeverWraps == Spec => []GrowthNeverWraps
  <1>1. IInv => GrowthNeverWraps
    BY RequestSize, Constants DEF IInv, TypeOK, GrowthNeverWraps
  <1>2. QED
    BY <1>1, SpecIInv, PTL
=============================================================================
