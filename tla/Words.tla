---------------------------------- MODULE Words ---------------------------------
(***************************************************************************)
(* int32_t and uint32_t in memory and on the network.  A word has four     *)
(* bytes; a byte has ByteSize values (256 in the code), so that 32-bit     *)
(* arithmetic wraps within reach of a model.                               *)
(***************************************************************************)
EXTENDS Integers, Sequences

CONSTANT ByteSize

ASSUME ByteSizeAssumption == ByteSize \in Nat /\ ByteSize % 2 = 0 /\ ByteSize > 0

Word == 4
U32 == ByteSize * ByteSize * ByteSize * ByteSize
Bytes == 0..ByteSize - 1
Orders == {"big", "little"}

Quotients(v) == LET q == v \div ByteSize IN <<q, q \div ByteSize, (q \div ByteSize) \div ByteSize>>
BigEndian(v) == LET q == Quotients(v)
                IN  <<q[3] % ByteSize, q[2] % ByteSize, q[1] % ByteSize, v % ByteSize>>
FromBigEndian(b) == ((b[1] * ByteSize + b[2]) * ByteSize + b[3]) * ByteSize + b[4]

Swapped(b) == <<b[4], b[3], b[2], b[1]>>

(* external: a word in the memory of a machine, and back; htonl and ntohl. *)
InMemory(v, order) == IF order = "big" THEN BigEndian(v) ELSE Swapped(BigEndian(v))
FromMemory(b, order) == FromBigEndian(IF order = "big" THEN b ELSE Swapped(b))
htonl(v, order) == FromMemory(BigEndian(v), order)
ntohl(v, order) == FromBigEndian(InMemory(v, order))

(* The same four bytes read as a uint32_t and as an int32_t.               *)
Bits(v) == v % U32
SignedBare(u) == u                                 \* mutant: the word stays unsigned
Signed(u) == IF u >= U32 \div 2 THEN u - U32 ELSE u
=============================================================================
