------------------------------- MODULE RpcBuffer -------------------------------
(***************************************************************************)
(* The RpcBuffer of the generated serialization.h: a growing byte array    *)
(* with a write end (length) and a read end (position).  Only the numbers  *)
(* are kept, not the bytes: how much is allocated, how much each memcpy or *)
(* recv touches, what each size computation yields in its C type.          *)
(*                                                                         *)
(* One RpcBuffer is followed through the order of calls both generated     *)
(* programs make: serialise fields and send (tx), free, receive one        *)
(* payload and deserialise fields from it (rx), free or drop.              *)
(***************************************************************************)
EXTENDS Naturals

CONSTANTS SizeMax,   \* SIZE_MAX
          U32Max,    \* largest uint32_t
          I32Max,    \* INT_MAX, the largest result recv_all can report as >= 0
          WordBytes, \* sizeof(uint32_t)
          InitCap,   \* BUF_INIT_CAPACITY
          HeapMax,   \* no single allocation is larger than this
          StrLens    \* lengths of the strings the application serialises

ASSUME ConstantsAssumption ==
  /\ {SizeMax, U32Max, I32Max, WordBytes, InitCap, HeapMax} \subseteq Nat
  /\ WordBytes > 0 /\ InitCap \in 1..SizeMax /\ I32Max <= U32Max
  /\ StrLens \subseteq 0..U32Max

(* size_t is wide enough that a request on top of the largest allocation   *)
(* can be doubled: true of every 64-bit build.                             *)
ASSUME WideSizeAssumption == 2 * (HeapMax + U32Max + WordBytes + 1) <= SizeMax

VARIABLES
  length, capacity, position,  \* the fields of RpcBuffer
  data,      \* bytes allocated at buffer->data, 0 for NULL
  role,      \* what the program is using the buffer for
  op, arg,   \* the call in progress ("none" between calls), its size argument
  newCap,    \* new_cap of rpc_buffer_ensure_capacity
  touched,   \* end of the last memory access made through data
  str,       \* bytes allocated for the last deserialised string
  strEnd     \* end of the last access made through that string

vars == <<length, capacity, position, data, role, op, arg, newCap, touched,
          str, strEnd>>

Roles == {"fresh", "tx", "rx", "dropped"}
Ops   == {"word", "string", "fill"}

Init ==
  /\ length = 0 /\ capacity = 0 /\ position = 0 /\ data = 0
  /\ role = "fresh" /\ op = "none" /\ arg = 0 /\ newCap = 0
  /\ touched = 0 /\ str = 0 /\ strEnd = 0

-----------------------------------------------------------------------------
(* rpc_buffer_ensure_capacity *)

(* add_len as each caller computes it. *)
AddLenUnprefixed(o, n) == IF o = "word" THEN WordBytes ELSE n  \* mutant: forgets the length prefix
AddLen(o, n) == CASE o = "word"   -> WordBytes
                  [] o = "string" -> WordBytes + n
                  [] OTHER -> n

ReqCap == length + AddLen(op, arg) + 1

(* new_cap's first value. *)
GrowFromZero == capacity                                   \* mutant: no BUF_INIT_CAPACITY
GrowFrom == IF capacity = 0 THEN InitCap ELSE capacity

(* new_cap *= 2 in size_t. *)
Twice(n) == IF 2 * n > SizeMax THEN 2 * n - (SizeMax + 1) ELSE 2 * n

(* Entry of a call that needs room: the overflow test makes it return at   *)
(* once, otherwise new_cap gets its first value.                           *)
Begin(o, n) ==
  LET refused == AddLen(o, n) > SizeMax - length - 1 IN
  /\ op = "none"
  /\ op' = IF refused THEN "none" ELSE o
  /\ arg' = n
  /\ newCap' = GrowFrom
  /\ UNCHANGED <<length, capacity, position, data, touched, str, strEnd>>

SerializeWord == /\ role \in {"fresh", "tx"}
                 /\ Begin("word", 0)
                 /\ role' = "tx"

SerializeString == /\ role \in {"fresh", "tx"}
                   /\ \E n \in StrLens : Begin("string", n)
                   /\ role' = "tx"

(* recv_rpc_buffer after the header: any payload_length can arrive.        *)
RecvPayload == /\ role = "fresh"
               /\ \E n \in 0..U32Max : Begin("fill", n)
               /\ role' = IF op' = "none" THEN "dropped" ELSE "rx"

(* while (new_cap < req_cap) new_cap *= 2; *)
Double ==
  /\ op # "none" /\ capacity < ReqCap /\ newCap < ReqCap
  /\ newCap' = Twice(newCap)
  /\ UNCHANGED <<length, capacity, position, data, role, op, arg, touched,
                 str, strEnd>>

ReallocOk ==
  /\ op # "none" /\ capacity < ReqCap /\ newCap >= ReqCap
  /\ newCap <= HeapMax
  /\ data' = newCap /\ capacity' = newCap
  /\ UNCHANGED <<length, position, role, op, arg, newCap, touched, str, strEnd>>

(* realloc returns NULL: the call returns 0 and the buffer keeps its old   *)
(* array; a failed receive makes the program drop the buffer, a failed     *)
(* serialise is not noticed by the client stub, which goes on.             *)
ReallocFail ==
  /\ op # "none" /\ capacity < ReqCap /\ newCap >= ReqCap
  /\ op' = "none"
  /\ role' = IF op = "fill" THEN "dropped" ELSE role
  /\ UNCHANGED <<length, capacity, position, data, arg, newCap, touched,
                 str, strEnd>>

(* The copies made once there is room: htonl'd word, or prefix and bytes.  *)
AppendBytes ==
  /\ op \in {"word", "string"} /\ capacity >= ReqCap
  /\ length' = length + (IF op = "word" THEN WordBytes ELSE WordBytes + arg)
  /\ touched' = length'
  /\ op' = "none"
  /\ UNCHANGED <<capacity, position, data, role, arg, newCap, str, strEnd>>

(* recv_all into data, then length and position are set, whether or not    *)
(* the bytes arrived (recv_all reports a failure as 0, the test is < 0).   *)
(* Only a complete payload above INT_MAX reads as negative and is refused. *)
Fill ==
  /\ op = "fill" /\ capacity >= ReqCap
  /\ op' = "none" /\ touched' = arg
  /\ \/ /\ length' = arg /\ position' = 0
        /\ UNCHANGED role
     \/ /\ arg > I32Max
        /\ role' = "dropped"
        /\ UNCHANGED <<length, position>>
  /\ UNCHANGED <<capacity, data, arg, newCap, str, strEnd>>

-----------------------------------------------------------------------------
(* Reading *)

(* The bounds test of rpc_buffer_read_packed_val. *)
CanReadFresh(at, n) == n <= length                         \* mutant: forgets what was read before
CanRead(at, n) == at <= length /\ n <= length - at

(* malloc(len + 1), the sum in uint32_t. *)
StringAllocBare(n) == n                                    \* mutant: no room for the '\0'
StringAlloc(n) == IF n = U32Max THEN 0 ELSE n + 1

(* rpc_deserialize_u32, _i32, _bool; a bool above 1 fails after the read.  *)
DeserializeWord ==
  /\ op = "none" /\ role = "rx"
  /\ IF CanRead(position, WordBytes)
       THEN /\ position' = position + WordBytes
            /\ touched' = position'
            /\ role' \in {"rx", "dropped"}
       ELSE /\ role' = "dropped"
            /\ UNCHANGED <<position, touched>>
  /\ UNCHANGED <<length, capacity, data, op, arg, newCap, str, strEnd>>

(* rpc_deserialize_string: n is whatever the peer's prefix says.  It is    *)
(* tested before the malloc and again by the copy.                         *)
StringRead(n) ==
  /\ CanRead(position + WordBytes, n)
  /\ str' = StringAlloc(n)
  /\ position' = position + WordBytes + n
  /\ touched' = position'
  /\ strEnd' = n + 1
  /\ UNCHANGED role

StringRefused(n) ==
  /\ position' = position + WordBytes
  /\ touched' = position'
  /\ role' = "dropped"
  /\ UNCHANGED <<str, strEnd>>

StringPrefixMissing ==
  /\ ~ CanRead(position, WordBytes)
  /\ role' = "dropped"
  /\ UNCHANGED <<position, touched, str, strEnd>>

(* StringRefused is also what a NULL from malloc does, whatever n is.      *)
DeserializeString ==
  /\ op = "none" /\ role = "rx"
  /\ \/ StringPrefixMissing
     \/ /\ CanRead(position, WordBytes)
        /\ \E n \in 0..U32Max : StringRead(n) \/ StringRefused(n)
  /\ UNCHANGED <<length, capacity, data, op, arg, newCap>>

(* rpc_buffer_free; a program that drops the buffer without freeing it     *)
(* goes on with a new RpcBuffer = {0}, which is the same state.            *)
Free ==
  /\ op = "none"
  /\ length' = 0 /\ capacity' = 0 /\ position' = 0 /\ data' = 0
  /\ touched' = 0
  /\ role' = "fresh"
  /\ UNCHANGED <<op, arg, newCap, str, strEnd>>

Grow == Double \/ ReallocOk \/ ReallocFail

Next == \/ SerializeWord \/ SerializeString \/ RecvPayload
        \/ Grow \/ AppendBytes \/ Fill
        \/ DeserializeWord \/ DeserializeString \/ Free

Spec == Init /\ [][Next]_vars

(* The thread that entered the growth loop keeps running: nothing in it    *)
(* waits for anyone.                                                       *)
FairSpec == Spec /\ WF_vars(Grow)

-----------------------------------------------------------------------------
(* Properties *)

TypeOK ==
  /\ length \in 0..HeapMax /\ capacity \in 0..HeapMax
  /\ position \in 0..HeapMax /\ data \in 0..HeapMax
  /\ role \in Roles
  /\ op \in Ops \cup {"none"} /\ arg \in 0..U32Max
  /\ newCap \in 0..SizeMax
  /\ touched \in Nat /\ str \in 0..U32Max /\ strEnd \in 0..(U32Max + 1)

(* No memcpy and no recv goes past the bytes allocated for the buffer,     *)
(* whatever sizes were asked for, whichever reallocs failed, and whatever  *)
(* lengths the peer put in the payload.                                    *)
InBounds == touched <= data

(* The string a peer's length prefix describes fits the malloc made for    *)
(* it, terminator included: len + 1, computed in 32 bits, does not wrap.   *)
StringFits == strEnd <= str

(* The doubling loop starts above zero and never wraps size_t before it    *)
(* reaches the capacity asked for.                                         *)
GrowthNeverWraps ==
  (op # "none" /\ newCap < ReqCap) => (newCap > 0 /\ 2 * newCap <= SizeMax)

(* A call that must grow the buffer gets its room or fails; it does not    *)
(* stay in the doubling loop.                                              *)
Growing == op # "none" /\ capacity < ReqCap
GrowTerminates == Growing ~> ~Growing
=============================================================================
