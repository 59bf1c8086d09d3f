------------------------------ MODULE RpcWireProofs -----------------------------
(* Theorems of RpcWire: for every request, every size of a byte, both byte *)
(* orders on both sides, and however the transfers are cut up.             *)
EXTENDS RpcWire, SequenceTheorems, FiniteSetTheorems, WellFoundedInduction, TLAPS

-----------------------------------------------------------------------------
(* Words: what survives between two machines, for every size of a byte.    *)

USE DEF Word

LEMMA Positive == ByteSize \in Nat \ {0}
BY ByteSizeAssumption

(* Division by a positive number, and the only way to write x = n * q + r. *)
LEMMA Division ==
  ASSUME NEW n \in Nat \ {0}, NEW x \in Int
  PROVE  x = n * (x \div n) + (x % n) /\ x % n \in 0..n - 1 /\ x \div n \in Int
OBVIOUS

LEMMA OnlyDivision ==
  ASSUME NEW n \in Nat \ {0}, NEW q \in Int, NEW r \in 0..n - 1
  PROVE  (n * q + r) \div n = q /\ (n * q + r) % n = r
OBVIOUS

LEMMA QuotientBelow ==
  ASSUME NEW n \in Nat \ {0}, NEW m \in Nat, NEW x \in Nat, x < n * m
  PROVE  x \div n \in 0..m - 1
OBVIOUS

LEMMA RemainderOfSmall ==
  ASSUME NEW n \in Nat \ {0}, NEW x \in Int, -n <= x, x < n
  PROVE  x % n = IF x < 0 THEN x + n ELSE x
<1>1. x < 0 => x % n = x + n  OBVIOUS
<1>2. x >= 0 => x % n = x  OBVIOUS
<1> QED  BY <1>1, <1>2

LEMMA ByteOfByte ==
  ASSUME NEW d \in Bytes
  PROVE  d % ByteSize = d
<1>1. d \in Int /\ -ByteSize <= d /\ d < ByteSize /\ ~(d < 0)  BY Positive DEF Bytes
<1> QED  BY <1>1, Positive, RemainderOfSmall

LEMMA AppendDigit ==
  ASSUME NEW v \in Nat, NEW d \in Bytes
  PROVE  /\ v * ByteSize + d \in Nat
         /\ (v * ByteSize + d) \div ByteSize = v
         /\ (v * ByteSize + d) % ByteSize = d
         /\ \A m \in Nat : v < m => v * ByteSize + d < m * ByteSize
<1> DEFINE n == ByteSize
<1>1. n \in Nat \ {0} /\ d \in 0..n - 1  BY Positive DEF Bytes
<1>2. v * ByteSize + d = n * v + d  BY <1>1
<1>3. (n * v + d) \div n = v /\ (n * v + d) % n = d
  <2> HIDE DEF n
  <2> QED  BY <1>1, OnlyDivision
<1>4. ASSUME NEW m \in Nat, v < m  PROVE  n * v + d < m * n
  <2>1. v + 1 <= m  BY <1>4
  <2> HIDE DEF n
  <2>2. n * (v + 1) <= n * m  BY <1>1, <2>1
  <2>3. n * (v + 1) = n * v + n /\ n * m = m * n  BY <1>1
  <2> QED  BY <1>1, <2>2, <2>3
<1>5. n * v + d \in Nat
  <2> HIDE DEF n
  <2> QED  BY <1>1
<1> QED  BY <1>2, <1>3, <1>4, <1>5

(* Four bytes are the digits of the word they make.                        *)
LEMMA WordOfDigits ==
  ASSUME NEW a \in Bytes, NEW b \in Bytes, NEW c \in Bytes, NEW d \in Bytes
  PROVE  /\ FromBigEndian(<<a, b, c, d>>) \in 0..U32 - 1
         /\ BigEndian(FromBigEndian(<<a, b, c, d>>)) = <<a, b, c, d>>
<1> DEFINE n == ByteSize
           v1 == a
           v2 == v1 * n + b
           v3 == v2 * n + c
           v4 == v3 * n + d
<1>1. n \in Nat \ {0} /\ v1 \in Nat /\ v1 < n  BY Positive DEF Bytes
<1>2. v2 \in Nat /\ v2 \div n = v1 /\ v2 % n = b /\ v2 < n * n
  BY <1>1, AppendDigit
<1>3. n * n \in Nat /\ n * n * n \in Nat /\ n * n * n * n \in Nat  BY <1>1
<1>4. v3 \in Nat /\ v3 \div n = v2 /\ v3 % n = c /\ v3 < n * n * n
  <2> HIDE DEF v2
  <2> QED  BY <1>2, <1>3, AppendDigit
<1>5. v4 \in Nat /\ v4 \div n = v3 /\ v4 % n = d /\ v4 < n * n * n * n
  <2> HIDE DEF v3
  <2> QED  BY <1>3, <1>4, AppendDigit
<1>6. FromBigEndian(<<a, b, c, d>>) = v4  BY DEF FromBigEndian
<1>7. v4 \in 0..U32 - 1
  <2> HIDE DEF v4
  <2> QED  BY <1>3, <1>5 DEF U32
<1>8. a % n = a  BY ByteOfByte
<1>9. BigEndian(v4) = <<a, b, c, d>>
  <2>1. Quotients(v4) = <<v3, v2, v1>>
    <3> HIDE DEF v1, v2, v3, v4
    <3> QED  BY <1>2, <1>4, <1>5 DEF Quotients
  <2> HIDE DEF v2, v3, v4
  <2> QED  BY <2>1, <1>2, <1>4, <1>5, <1>8 DEF BigEndian
<1> QED  BY <1>6, <1>7, <1>9

(* The four digits of a word are bytes and give the word back.             *)
LEMMA DigitsOfWord ==
  ASSUME NEW v \in 0..U32 - 1
  PROVE  /\ \A i \in 1..Word : BigEndian(v)[i] \in Bytes
         /\ BigEndian(v) = <<BigEndian(v)[1], BigEndian(v)[2], BigEndian(v)[3], BigEndian(v)[4]>>
         /\ FromBigEndian(BigEndian(v)) = v
<1> DEFINE n == ByteSize
           q1 == v \div n
           q2 == q1 \div n
           q3 == q2 \div n
<1>1. n \in Nat \ {0} /\ n * n \in Nat /\ n * n * n \in Nat  BY Positive
<1>2. n * n * n * n = n * (n * n * n) /\ n * n * n = n * (n * n)  BY <1>1
<1>3. v \in Nat /\ v < n * (n * n * n)
  <2>1. U32 = n * n * n * n /\ U32 \in Nat  BY <1>1 DEF U32
  <2> QED  BY <1>2, <2>1
<1>4. q1 \in Nat /\ q1 < n * (n * n)
  <2>1. q1 \in 0..n * n * n - 1  BY <1>1, <1>3, QuotientBelow
  <2> HIDE DEF q1
  <2> QED  BY <1>1, <1>2, <2>1
<1>5. q2 \in Nat /\ q2 < n * n
  <2>1. q2 \in 0..n * n - 1
    <3> HIDE DEF q1
    <3> QED  BY <1>1, <1>4, QuotientBelow
  <2> HIDE DEF q2
  <2> QED  BY <1>1, <2>1
<1>6. q3 \in 0..n - 1
  <2> HIDE DEF q2
  <2> QED  BY <1>1, <1>5, QuotientBelow
<1>7. v = q1 * n + (v % n) /\ v % n \in Bytes
  BY <1>1, <1>3, Division DEF Bytes
<1>8. q1 = q2 * n + (q1 % n) /\ q1 % n \in Bytes
  <2> HIDE DEF q1
  <2> QED  BY <1>1, <1>4, Division DEF Bytes
<1>9. q2 = q3 * n + (q2 % n) /\ q2 % n \in Bytes
  <2> HIDE DEF q2
  <2> QED  BY <1>1, <1>5, Division DEF Bytes
<1>10. q3 % n = q3 /\ q3 \in Bytes
  <2> HIDE DEF q3
  <2> QED  BY <1>1, <1>6, RemainderOfSmall DEF Bytes
<1>11. BigEndian(v) = <<q3 % n, q2 % n, q1 % n, v % n>>
  BY DEF BigEndian, Quotients
<1> HIDE DEF q1, q2, q3
<1>12. FromBigEndian(BigEndian(v)) = v
  BY <1>7, <1>8, <1>9, <1>10, <1>11 DEF FromBigEndian
<1>13. \A i \in 1..Word : BigEndian(v)[i] \in Bytes
  BY <1>7, <1>8, <1>9, <1>10, <1>11
<1> QED  BY <1>11, <1>12, <1>13

LEMMA SwappedWord ==
  ASSUME NEW v \in 0..U32 - 1
  PROVE  /\ FromBigEndian(Swapped(BigEndian(v))) \in 0..U32 - 1
         /\ BigEndian(FromBigEndian(Swapped(BigEndian(v)))) = Swapped(BigEndian(v))
         /\ Swapped(Swapped(BigEndian(v))) = BigEndian(v)
<1> DEFINE b == BigEndian(v)
<1>1. b[1] \in Bytes /\ b[2] \in Bytes /\ b[3] \in Bytes /\ b[4] \in Bytes
  BY DigitsOfWord
<1>2. Swapped(b) = <<b[4], b[3], b[2], b[1]>>  BY DEF Swapped
<1>3. Swapped(Swapped(b)) = b  BY DigitsOfWord DEF Swapped
<1> HIDE DEF b
<1>4. FromBigEndian(Swapped(b)) \in 0..U32 - 1 /\ BigEndian(FromBigEndian(Swapped(b))) = Swapped(b)
  BY <1>1, <1>2, WordOfDigits
<1> QED  BY <1>3, <1>4 DEF b

(* What is packed is the word, its most significant byte first.            *)
LEMMA PackedIsBigEndian ==
  ASSUME NEW v \in 0..U32 - 1, NEW from \in Orders
  PROVE  InMemory(htonl(v, from), from) = BigEndian(v)
<1>1. CASE from = "big"
  BY <1>1, DigitsOfWord DEF InMemory, htonl, FromMemory
<1>2. CASE from = "little"
  BY <1>2, SwappedWord DEF InMemory, htonl, FromMemory
<1> QED  BY <1>1, <1>2 DEF Orders

(* htonl on one machine, ntohl on another: whatever the byte orders of the *)
(* two, the word deserialised is the word serialised.                      *)
THEOREM WordArrives ==
  ASSUME NEW v \in 0..U32 - 1, NEW from \in Orders, NEW to \in Orders
  PROVE  ntohl(FromMemory(InMemory(htonl(v, from), from), to), to) = v
<1>1. InMemory(htonl(v, from), from) = BigEndian(v)
  BY PackedIsBigEndian
<1>2. ntohl(FromMemory(BigEndian(v), to), to) = v
  <2>1. CASE to = "big"
    BY <2>1, DigitsOfWord DEF ntohl, InMemory, FromMemory
  <2>2. CASE to = "little"
    BY <2>2, SwappedWord, DigitsOfWord DEF ntohl, InMemory, FromMemory
  <2> QED  BY <2>1, <2>2 DEF Orders
<1> QED  BY <1>1, <1>2

LEMMA U32Positive == U32 \in Nat \ {0}
<1> DEFINE n == ByteSize
<1>1. n \in Nat \ {0}  BY Positive
<1>2. n * n \in Nat \ {0}  BY <1>1
<1>3. n * n * n \in Nat \ {0}  BY <1>1, <1>2
<1>4. n * n * n * n \in Nat \ {0}  BY <1>1, <1>3
<1> QED  BY <1>4 DEF U32

(* An int32_t copied into a uint32_t and back, as rpc_serialize_i32 and    *)
(* rpc_deserialize_i32 do, keeps its sign and its value.                   *)
THEOREM SignArrives ==
  ASSUME NEW v \in -(U32 \div 2)..(U32 \div 2) - 1
  PROVE  Bits(v) \in 0..U32 - 1 /\ Signed(Bits(v)) = v
<1> DEFINE half == U32 \div 2
<1>1. U32 \in Nat \ {0}  BY U32Positive
<1>2. half \in Nat /\ U32 = 2 * half
  <2> DEFINE k == ByteSize \div 2
             m == ByteSize * ByteSize * ByteSize
  <2>1. ByteSize = 2 * k /\ k \in Nat  BY ByteSizeAssumption
  <2>2. m \in Nat  BY Positive
  <2>3. U32 = m * ByteSize  BY DEF U32
  <2> HIDE DEF k, m
  <2>4. U32 = 2 * (m * k) /\ m * k \in Nat  BY <2>1, <2>2, <2>3
  <2> QED  BY <2>4
<1>3. v \in Int /\ -half <= v /\ v < half  BY <1>2
<1> HIDE DEF half
<1>4. v % U32 = IF v < 0 THEN v + U32 ELSE v
  <2>1. -U32 <= v /\ v < U32  BY <1>2, <1>3
  <2> QED  BY <1>1, <1>3, <2>1, RemainderOfSmall
<1>5. CASE v < 0
  BY <1>1, <1>2, <1>3, <1>4, <1>5 DEF Bits, Signed, half
<1>6. CASE v >= 0
  BY <1>1, <1>2, <1>3, <1>4, <1>6 DEF Bits, Signed, half
<1> QED  BY <1>3, <1>5, <1>6

HIDE DEF Word

-----------------------------------------------------------------------------
(* Induction over the naturals, for a set rather than a predicate. *)

LEMMA Least ==
  ASSUME NEW S \in SUBSET Nat, S # {}
  PROVE  \E m \in S : \A n \in S : m <= n
  <1>1. IsWellFoundedOn(OpToRel(<,Nat), Nat)
    BY NatLessThanWellFounded
  <1>2. PICK R : R = OpToRel(<,Nat)
    OBVIOUS
  <1>3. PICK x \in S : \A y \in S : ~ (<<y, x>> \in R)
    BY <1>1, <1>2, WFMin
  <1>4. \A y, z \in Nat : y < z => <<y, z>> \in R
    BY <1>2 DEF OpToRel
  <1>5. ASSUME NEW n \in S  PROVE  x <= n
    <2>1. n \in Nat /\ x \in Nat
      OBVIOUS
    <2>2. ~ (n < x)
      BY <1>3, <1>4, <2>1
    <2>3. QED
      BY <2>1, <2>2
  <1>6. QED
    BY <1>5

LEMMA Induction ==
  ASSUME NEW T, 0 \in T, \A n \in Nat : n \in T => n + 1 \in T
  PROVE  Nat \subseteq T
  <1> DEFINE S == {n \in Nat : n \notin T}
  <1>1. ASSUME S # {}  PROVE  FALSE
    <2>1. S \in SUBSET Nat
      OBVIOUS
    <2>2. PICK m \in S : \A n \in S : m <= n
      <3> HIDE DEF S
      <3>1. QED
        BY <1>1, <2>1, Least
    <2>3. m \in Nat /\ m # 0
      OBVIOUS
    <2>4. m - 1 \in Nat /\ m - 1 \notin S
      BY <2>2, <2>3
    <2>5. (m - 1) + 1 \in T /\ (m - 1) + 1 = m
      BY <2>3, <2>4
    <2>6. QED
      BY <2>5
  <1>2. QED
    BY <1>1

-----------------------------------------------------------------------------
(* Requests *)

(* The bytes of a request, those of its length among them.                 *)
Out == Bytes \cup {Packed(total_len)[i] : i \in 1..Word}

(* The word a field begins with.                                           *)
WordOf(f) == CASE f.type = "uint32" -> f.value
               [] f.type = "int32"  -> Bits(f.value)
               [] f.type = "string" -> Len(f.value)

-----------------------------------------------------------------------------
(* The inductive invariant of the stream *)

GivenOK == /\ request \in Requests /\ method_id \in MethodIds
           /\ corder \in Orders /\ sorder \in Orders

LengthsOK ==
  /\ next \in 0..Len(Fields)
  /\ buffer \in Seq(Out) /\ onwire \in Seq(Out) /\ header \in Seq(Out) /\ payload \in Seq(Out)
  /\ sent \in Nat /\ taken \in 0..Len(onwire)
  /\ Len(header) <= Word /\ Len(header) + Len(payload) = taken
  /\ Len(header) < Word => payload = <<>>
  /\ next < Len(Fields) => onwire = <<>> /\ sent = 0

(* What the server received is the stream, byte by byte.                   *)
ReceivedOK == /\ \A i \in 1..Len(header) : header[i] = onwire[i]
              /\ \A i \in 1..Len(payload) : payload[i] = onwire[Word + i]

(* What the client sent is its buffer, as long as the buffer's length and  *)
(* with it the counter of send_all fit in 32 bits.                         *)
SentOK == Len(buffer) < U32 =>
            /\ sent = Len(onwire) /\ Len(onwire) <= Len(buffer)
            /\ \A i \in 1..Len(onwire) : onwire[i] = buffer[i]

StreamInv == GivenOK /\ LengthsOK /\ ReceivedOK /\ SentOK

-----------------------------------------------------------------------------
(* Fields, and the bytes they become *)

LEMMA RequestFacts ==
  ASSUME GivenOK
  PROVE  /\ request \in Seq(Values) /\ Len(request) \in Nat
         /\ DOMAIN request = 1..Len(request)
         /\ \A i \in 1..Len(request) : request[i] \in Values
         /\ method_id \in 0..U32 - 1
  BY RequestsAssumption, ElementOfSeq, LenProperties DEF GivenOK

LEMMA FieldFacts ==
  ASSUME GivenOK
  PROVE  /\ Len(Fields) = Len(request) + 2
         /\ Fields \in Seq(Values \cup {Fields[1], Fields[2]})
         /\ Fields[1] = [type |-> "uint32", value |-> total_len]
         /\ Fields[2] = [type |-> "uint32", value |-> method_id]
         /\ \A i \in 3..Len(request) + 2 : Fields[i] = request[i - 2]
         /\ Len(Types) = Len(request) + 1
         /\ \A k \in 1..Len(Types) : Types[k] = Fields[k + 1].type
  <1> DEFINE a == [type |-> "uint32", value |-> total_len]
             b == [type |-> "uint32", value |-> method_id]
             S == Values \cup {a, b}
             T == {"uint32"} \cup {request[i].type : i \in DOMAIN request}
             ts == [i \in DOMAIN request |-> request[i].type]
  <1>1. request \in Seq(Values) /\ Len(request) \in Nat /\ DOMAIN request = 1..Len(request)
    BY RequestFacts
  <1>2. request \in Seq(S)
    BY <1>1, SeqMonotonic
  <1>3. <<a, b>> \in Seq(S) /\ Len(<<a, b>>) = 2 /\ <<a, b>>[1] = a /\ <<a, b>>[2] = b
    OBVIOUS
  <1>4. Fields = <<a, b>> \o request
    BY DEF Fields
  <1> HIDE DEF a, b
  <1>5. /\ Fields \in Seq(S) /\ Len(Fields) = 2 + Len(request)
        /\ \A i \in 1..2 + Len(request) : Fields[i] = IF i <= 2 THEN <<a, b>>[i] ELSE request[i - 2]
    <2> HIDE DEF S
    <2>1. QED
      BY <1>2, <1>3, <1>4, ConcatProperties
  <1>6. Fields[1] = a /\ Fields[2] = b /\ \A i \in 3..Len(request) + 2 : Fields[i] = request[i - 2]
    BY <1>1, <1>3, <1>5
  <1>7. ts \in Seq(T) /\ Len(ts) = Len(request) /\ \A i \in 1..Len(request) : ts[i] = request[i].type
    <2>1. ts \in [1..Len(request) -> T]
      BY <1>1
    <2>2. ts \in Seq(T)
      BY <1>1, <2>1, SeqDef
    <2>3. DOMAIN ts = 1..Len(ts) /\ Len(ts) \in Nat
      BY <2>2, LenProperties
    <2>4. QED
      BY <1>1, <2>2, <2>3
  <1>8. /\ <<"uint32">> \in Seq(T) /\ Len(<<"uint32">>) = 1 /\ <<"uint32">>[1] = "uint32"
    OBVIOUS
  <1>9. Types = <<"uint32">> \o ts
    BY DEF Types
  <1> HIDE DEF ts, T
  <1>10. /\ Len(Types) = 1 + Len(request)
         /\ \A k \in 1..1 + Len(request) : Types[k] = IF k <= 1 THEN "uint32" ELSE ts[k - 1]
    <2>1. /\ Len(Types) = 1 + Len(ts)
          /\ \A k \in 1..1 + Len(ts) :
               Types[k] = IF k <= 1 THEN <<"uint32">>[k] ELSE ts[k - 1]
      BY <1>7, <1>8, <1>9, ConcatProperties
    <2>2. QED
      BY <1>1, <1>7, <1>8, <2>1
  <1>11. ASSUME NEW k \in 1..Len(Types)
         PROVE  Types[k] = Fields[k + 1].type
    <2>1. CASE k = 1
      <3>1. Types[k] = "uint32"
        BY <1>1, <1>10, <2>1
      <3>2. QED
        BY <1>6, <2>1, <3>1 DEF b
    <2>2. CASE k # 1
      <3>1. k \in Nat /\ k - 1 \in 1..Len(request) /\ k + 1 \in 3..Len(request) + 2
            /\ (k + 1) - 2 = k - 1 /\ ~ (k <= 1)
        BY <1>1, <1>10, <2>2
      <3>2. Types[k] = ts[k - 1] /\ Fields[k + 1] = request[(k + 1) - 2]
        BY <1>6, <1>10, <3>1
      <3>3. QED
        BY <1>7, <3>1, <3>2
    <2>3. QED
      BY <2>1, <2>2
  <1>12. Fields \in Seq(Values \cup {Fields[1], Fields[2]})
    BY <1>5, <1>6
  <1>13. QED
    BY <1>1, <1>5, <1>6, <1>10, <1>11, <1>12 DEF a, b

LEMMA PackedFacts ==
  ASSUME GivenOK, NEW v \in 0..U32 - 1
  PROVE  /\ Packed(v) \in Seq(Bytes) /\ Packed(v) \in Seq(Out) /\ Len(Packed(v)) = Word
         /\ ntohl(FromMemory(Packed(v), sorder), sorder) = v
  <1>1. Packed(v) = BigEndian(v)
    BY PackedIsBigEndian DEF Packed, GivenOK
  <1>2. /\ \A i \in 1..Word : BigEndian(v)[i] \in Bytes
        /\ BigEndian(v) = <<BigEndian(v)[1], BigEndian(v)[2], BigEndian(v)[3], BigEndian(v)[4]>>
    BY DigitsOfWord
  <1> DEFINE a == BigEndian(v)[1]
             b == BigEndian(v)[2]
             c == BigEndian(v)[3]
             d == BigEndian(v)[4]
  <1>3. a \in Bytes /\ b \in Bytes /\ c \in Bytes /\ d \in Bytes
    BY <1>2 DEF Word
  <1>4. Packed(v) = <<a, b, c, d>>
    BY <1>1, <1>2
  <1> HIDE DEF a, b, c, d
  <1>5. Packed(v) \in Seq(Bytes) /\ Len(Packed(v)) = Word
    BY <1>3, <1>4 DEF Word
  <1>6. Packed(v) \in Seq(Out)
    BY <1>5, SeqMonotonic DEF Out
  <1>7. ntohl(FromMemory(Packed(v), sorder), sorder) = v
    BY WordArrives DEF GivenOK, Packed
  <1>8. QED
    BY <1>5, <1>6, <1>7

LEMMA RemainderBelow ==
  ASSUME NEW n \in Nat \ {0}, NEW x \in Nat
  PROVE  x % n \in 0..n - 1 /\ x % n <= x /\ (x < n => x % n = x)
  <1>1. x % n \in 0..n - 1
    BY Division
  <1>2. x < n => x % n = x
    BY RemainderOfSmall
  <1>3. x >= n => x % n <= x
    BY <1>1
  <1>4. QED
    BY <1>1, <1>2, <1>3

(* A field of a type that is serialised begins with a word; a string goes  *)
(* on with its characters.                                                 *)
LEMMA SerializedFacts ==
  ASSUME GivenOK, NEW i \in 1..Len(Fields)
  PROVE  /\ Serialized(Fields[i]) \in Seq(Out)
         /\ i = 1 => Len(Serialized(Fields[i])) = Word
  <1>1. Len(request) \in Nat /\ Len(Fields) = Len(request) + 2 /\ U32 \in Nat \ {0}
    BY RequestFacts, FieldFacts, U32Positive
  <1>2. CASE i = 1
    <2>1. Serialized(Fields[i]) = Packed(total_len)
      BY <1>2, FieldFacts DEF Serialized
    <2>2. \E a, b, c, d : Packed(total_len) = <<a, b, c, d>>
      BY DEF Packed, InMemory, Swapped, BigEndian
    <2>3. PICK a, b, c, d : Packed(total_len) = <<a, b, c, d>>
      BY <2>2
    <2>4. a \in Out /\ b \in Out /\ c \in Out /\ d \in Out
      BY <2>3 DEF Out, Word
    <2>5. QED
      BY <2>1, <2>3, <2>4 DEF Word
  <1>3. CASE i = 2
    <2>1. Serialized(Fields[i]) = Packed(method_id)
      BY <1>3, FieldFacts DEF Serialized
    <2>2. QED
      BY <1>3, <2>1, RequestFacts, PackedFacts
  <1>4. CASE i > 2
    <2> DEFINE f == Fields[i]
    <2>1. f = request[i - 2] /\ i - 2 \in 1..Len(request)
      BY <1>1, <1>4, FieldFacts
    <2>2. f \in Values
      BY <2>1, RequestFacts
    <2> HIDE DEF f
    <2>3. CASE f.type = "int32"
      <3>1. f.value \in -(U32 \div 2)..(U32 \div 2) - 1
        BY <2>2, <2>3 DEF Values
      <3>2. Bits(f.value) \in 0..U32 - 1
        BY <3>1, SignArrives
      <3>3. Serialized(f) = Packed(Bits(f.value))
        BY <2>3 DEF Serialized
      <3>4. QED
        BY <1>4, <3>2, <3>3, PackedFacts DEF f
    <2>4. CASE f.type = "bool"
      <3>1. Serialized(f) = <<>>
        BY <2>4 DEF Serialized
      <3>2. QED
        BY <1>4, <3>1 DEF f
    <2>5. CASE f.type = "string"
      <3> DEFINE len == Len(f.value) % U32
      <3>1. f.value \in Seq(Bytes)
        BY <2>2, <2>5 DEF Values
      <3>2. Serialized(f) = Packed(len) \o SubSeq(f.value, 1, len)
        BY <2>5 DEF Serialized
      <3>3. Len(f.value) \in Nat
        BY <3>1, LenProperties
      <3>4. len \in 0..U32 - 1 /\ len <= Len(f.value)
        BY <1>1, <3>3, RemainderBelow
      <3> HIDE DEF len
      <3>5. Packed(len) \in Seq(Out)
        BY <3>4, PackedFacts
      <3>6. SubSeq(f.value, 1, len) \in Seq(Out)
        <4>1. \A k \in 1..len : f.value[k] \in Out
          BY <3>1, <3>3, <3>4 DEF Out
        <4>2. len \in Int
          BY <3>4
        <4>3. QED
          BY <4>1, <4>2, SubSeqProperties
      <3>7. Serialized(f) \in Seq(Out)
        BY <3>2, <3>5, <3>6, ConcatProperties
      <3>8. QED
        BY <1>4, <3>7 DEF f
    <2>6. f.type \in {"int32", "bool", "string"}
      BY <2>2 DEF Values
    <2>7. QED
      BY <2>3, <2>4, <2>5, <2>6
  <1>5. QED
    BY <1>1, <1>2, <1>3, <1>4

-----------------------------------------------------------------------------
(* The length of the payload *)

(* Running sums of the sizes a, from c on: the function exists, its values *)
(* are natural numbers, and it never decreases.                            *)
IsSum(f, c, a, n) == f = [i \in 0..n |-> IF i = 0 THEN c ELSE f[i - 1] + a[i]]

Running(f, c, a, k) == /\ f \in [0..k -> Nat] /\ f[0] = c
                       /\ \A i \in 1..k : f[i] = f[i - 1] + a[i]

LEMMA SumExists ==
  ASSUME NEW n \in Nat, NEW c \in Nat, NEW a \in [1..n -> Nat]
  PROVE  \E f : IsSum(f, c, a, n)
  <1> DEFINE T == {k \in Nat : k <= n => \E f : Running(f, c, a, k)}
  <1>1. 0 \in T
    <2> DEFINE g == [i \in 0..0 |-> c]
    <2>1. g \in [0..0 -> Nat] /\ g[0] = c /\ \A i \in 1..0 : g[i] = g[i - 1] + a[i]
      OBVIOUS
    <2> HIDE DEF g
    <2>2. \E f : Running(f, c, a, 0)
      BY <2>1 DEF Running
    <2>3. QED
      BY <2>2
  <1>2. ASSUME NEW k \in Nat, k \in T
        PROVE  k + 1 \in T
    <2> SUFFICES ASSUME k + 1 <= n
                 PROVE  \E f : Running(f, c, a, k + 1)
      OBVIOUS
    <2>0. PICK f : Running(f, c, a, k)
      BY <1>2
    <2>1. f \in [0..k -> Nat] /\ f[0] = c /\ \A i \in 1..k : f[i] = f[i - 1] + a[i]
      BY <2>0 DEF Running
    <2> DEFINE g == [i \in 0..k + 1 |-> IF i = k + 1 THEN f[k] + a[k + 1] ELSE f[i]]
    <2>2. a[k + 1] \in Nat /\ f[k] \in Nat
      BY <2>1
    <2>3. g \in [0..k + 1 -> Nat] /\ g[0] = c
      BY <2>1, <2>2
    <2>4. ASSUME NEW i \in 1..k + 1
          PROVE  g[i] = g[i - 1] + a[i]
      <3>1. i - 1 \in 0..k /\ i - 1 # k + 1 /\ i - 1 \in 0..k + 1 /\ g[i - 1] = f[i - 1]
        OBVIOUS
      <3>2. CASE i = k + 1
        <4>1. g[i] = f[k] + a[k + 1] /\ i - 1 = k
          BY <3>2
        <4> HIDE DEF g
        <4>2. QED
          BY <3>1, <3>2, <4>1
      <3>3. CASE i \in 1..k
        <4>1. g[i] = f[i]
          BY <3>3
        <4> HIDE DEF g
        <4>2. QED
          BY <2>1, <3>1, <3>3, <4>1
      <3>4. QED
        BY <3>2, <3>3
    <2>5. Running(g, c, a, k + 1)
      <3> HIDE DEF g
      <3>1. QED
        BY <2>3, <2>4 DEF Running
    <2> HIDE DEF g
    <2>6. QED
      BY <2>5
  <1>3. n \in T
    <2> HIDE DEF T
    <2>1. Nat \subseteq T
      BY <1>1, <1>2, Induction
    <2>2. QED
      BY <2>1
  <1>31. PICK f : Running(f, c, a, n)
    BY <1>3
  <1>4. f \in [0..n -> Nat] /\ f[0] = c /\ \A i \in 1..n : f[i] = f[i - 1] + a[i]
    BY <1>31 DEF Running
  <1>5. ASSUME NEW i \in 0..n
        PROVE  f[i] = IF i = 0 THEN c ELSE f[i - 1] + a[i]
    BY <1>4
  <1>6. IsSum(f, c, a, n)
    <2>1. f = [i \in 0..n |-> f[i]]
      BY <1>4
    <2>2. QED
      BY <1>5, <2>1 DEF IsSum
  <1>7. QED
    BY <1>6

LEMMA SumFacts ==
  ASSUME NEW n \in Nat, NEW c \in Nat, NEW a \in [1..n -> Nat], NEW f, IsSum(f, c, a, n)
  PROVE  /\ f \in [0..n -> Nat] /\ f[0] = c
         /\ \A i \in 1..n : f[i] = f[i - 1] + a[i]
         /\ \A i \in 1..n : c + a[i] <= f[n] /\ f[i] <= f[n]
  <1>1. f = [i \in 0..n |-> f[i]] /\ \A i \in 0..n : f[i] = IF i = 0 THEN c ELSE f[i - 1] + a[i]
    BY DEF IsSum
  <1>2. f[0] = c /\ \A i \in 1..n : f[i] = f[i - 1] + a[i]
    <2>1. 0 \in 0..n /\ \A i \in 1..n : i \in 0..n /\ i # 0
      OBVIOUS
    <2>2. QED
      BY <1>1, <2>1
  <1> DEFINE T == {k \in Nat : k <= n => /\ \A i \in 0..k : f[i] \in Nat
                                         /\ c <= f[k]
                                         /\ \A i \in 1..k : c + a[i] <= f[k] /\ f[i] <= f[k]}
  <1>3. 0 \in T
    BY <1>2
  <1>4. ASSUME NEW k \in Nat, k \in T
        PROVE  k + 1 \in T
    <2> SUFFICES ASSUME k + 1 <= n
                 PROVE  /\ \A i \in 0..k + 1 : f[i] \in Nat
                        /\ c <= f[k + 1]
                        /\ \A i \in 1..k + 1 : c + a[i] <= f[k + 1] /\ f[i] <= f[k + 1]
      OBVIOUS
    <2>1. /\ f[k] \in Nat /\ c <= f[k] /\ \A i \in 1..k : c + a[i] <= f[k] /\ f[i] <= f[k]
          /\ \A i \in 0..k : f[i] \in Nat
      BY <1>4
    <2> HIDE DEF T
    <2>2. a[k + 1] \in Nat /\ k + 1 \in 1..n /\ (k + 1) - 1 = k
      OBVIOUS
    <2>3. f[k + 1] = f[k] + a[k + 1]
      BY <1>2, <2>2
    <2>4. f[k + 1] \in Nat /\ c <= f[k + 1] /\ f[k] <= f[k + 1]
      BY <2>1, <2>2, <2>3
    <2>5. ASSUME NEW i \in 1..k + 1
          PROVE  c + a[i] <= f[k + 1] /\ f[i] <= f[k + 1]
      <3>1. CASE i \in 1..k
        <4>1. a[i] \in Nat /\ f[i] <= f[k] /\ c + a[i] <= f[k]
          BY <2>1, <3>1
        <4>2. f[i] \in Nat
          BY <2>1, <3>1
        <4>3. QED
          BY <2>1, <2>4, <4>1, <4>2
      <3>2. CASE i = k + 1
        BY <2>1, <2>2, <2>3, <2>4, <3>2
      <3>3. QED
        BY <3>1, <3>2
    <2>6. ASSUME NEW i \in 0..k + 1
          PROVE  f[i] \in Nat
      <3>1. i \in 0..k \/ i = k + 1
        OBVIOUS
      <3>2. QED
        BY <2>1, <2>4, <3>1
    <2>7. QED
      BY <2>4, <2>5, <2>6
  <1>5. Nat \subseteq T
    <2> HIDE DEF T
    <2>1. QED
      BY <1>3, <1>4, Induction
  <1>6. \A k \in 0..n : f[k] \in Nat
    BY <1>5
  <1>7. f \in [0..n -> Nat]
    BY <1>1, <1>6
  <1>8. \A i \in 1..n : c + a[i] <= f[n] /\ f[i] <= f[n]
    BY <1>5
  <1>9. QED
    BY <1>2, <1>7, <1>8

(* The payload of every call has a length of 32 bits, and so has what is   *)
(* sent of it, behind its length.                                          *)
RequestsFit == \A r \in Requests : Word + SumOfSizes(r) < U32

(* The sizes of the arguments one after the other: a string's is its       *)
(* length and a word, any other's a word.                                  *)
LEMMA SizeFacts ==
  ASSUME GivenOK
  PROVE  /\ SizeUpTo(request)[0] = Word /\ SumOfSizes(request) \in Nat
         /\ \A i \in 0..Len(request) : SizeUpTo(request)[i] \in Nat
         /\ \A i \in 1..Len(request) :
              /\ Size(request[i]) \in Nat
              /\ SizeUpTo(request)[i] = SizeUpTo(request)[i - 1] + Size(request[i])
              /\ SizeUpTo(request)[i] <= SumOfSizes(request)
              /\ Word + Size(request[i]) <= SumOfSizes(request)
  <1> DEFINE n == Len(request)
             a == [i \in 1..n |-> Size(request[i])]
             f == SizeUpTo(request)
  <1>1. n \in Nat /\ Word \in Nat /\ \A i \in 1..n : request[i] \in Values
    BY RequestFacts DEF Word
  <1>2. ASSUME NEW v \in Values  PROVE  Size(v) \in Nat
    <2>1. CASE v.type = "string"
      <3>1. v.value \in Seq(Bytes)
        BY <2>1 DEF Values
      <3>2. QED
        BY <2>1, <3>1, LenProperties DEF Size, Word
    <2>2. CASE v.type # "string"
      BY <2>2 DEF Size, Word
    <2>3. QED
      BY <2>1, <2>2
  <1>3. a \in [1..n -> Nat] /\ \A i \in 1..n : a[i] = Size(request[i])
    BY <1>1, <1>2
  <1>4. PICK g : IsSum(g, Word, a, n)
    <2> HIDE DEF a, n
    <2>1. QED
      BY <1>1, <1>3, SumExists
  <1>5. \A h : IsSum(h, Word, a, n)
                <=> h = [i \in 0..n |-> IF i = 0 THEN Word ELSE h[i - 1] + Size(request[i])]
    <2>1. ASSUME NEW h
          PROVE  [i \in 0..n |-> IF i = 0 THEN Word ELSE h[i - 1] + a[i]]
                 = [i \in 0..n |-> IF i = 0 THEN Word ELSE h[i - 1] + Size(request[i])]
      <3>1. ASSUME NEW i \in 0..n, i # 0  PROVE  a[i] = Size(request[i])
        <4>1. i \in 1..n
          BY <1>1, <3>1
        <4>2. QED
          BY <1>3, <4>1
      <3> HIDE DEF a, n
      <3>2. QED
        BY <3>1
    <2>2. QED
      BY <2>1 DEF IsSum
  <1>6. IsSum(f, Word, a, n)
    <2>1. f = CHOOSE h : h = [i \in 0..n |-> IF i = 0 THEN Word ELSE h[i - 1] + Size(request[i])]
      BY DEF SizeUpTo
    <2>2. \E h : h = [i \in 0..n |-> IF i = 0 THEN Word ELSE h[i - 1] + Size(request[i])]
      BY <1>4, <1>5
    <2> HIDE DEF a, n, f
    <2>3. f = [i \in 0..n |-> IF i = 0 THEN Word ELSE f[i - 1] + Size(request[i])]
      BY <2>1, <2>2
    <2>4. QED
      BY <1>5, <2>3
  <1>7. /\ f \in [0..n -> Nat] /\ f[0] = Word
        /\ \A i \in 1..n : f[i] = f[i - 1] + a[i]
        /\ \A i \in 1..n : Word + a[i] <= f[n] /\ f[i] <= f[n]
    <2> HIDE DEF a, n, f
    <2>1. QED
      BY <1>1, <1>3, <1>6, SumFacts
  <1>8. SumOfSizes(request) = f[n]
    BY DEF SumOfSizes
  <1> HIDE DEF a, f
  <1>9. QED
    BY <1>1, <1>3, <1>7, <1>8 DEF f

-----------------------------------------------------------------------------
(* The stream *)

(* Gluing a stretch of the stream t, k bytes behind its beginning, to the  *)
(* bytes received before it.                                               *)
LEMMA Received ==
  ASSUME NEW S, NEW s \in Seq(S), NEW t \in Seq(S), NEW k \in Nat, NEW n \in Nat \ {0},
         k + Len(s) + n <= Len(t), \A i \in 1..Len(s) : s[i] = t[k + i],
         NEW at \in Nat, at = k + Len(s)
  PROVE  LET r == s \o SubSeq(t, at + 1, at + n)
         IN  r \in Seq(S) /\ Len(r) = Len(s) + n /\ \A i \in 1..Len(r) : r[i] = t[k + i]
  <1> DEFINE u == SubSeq(t, at + 1, at + n)
  <1>1. Len(s) \in Nat /\ Len(t) \in Nat
    BY LenProperties
  <1>2. u \in Seq(S) /\ Len(u) = n /\ \A i \in 1..n : u[i] = t[at + i]
    <2>1. \A i \in at + 1..at + n : t[i] \in S
      BY <1>1
    <2>2. at + 1 \in Int /\ at + n \in Int /\ (at + n) - (at + 1) + 1 = n /\ at + 1 <= at + n
      OBVIOUS
    <2>3. u \in Seq(S) /\ Len(u) = n /\ \A i \in 1..n : u[i] = t[(at + 1) + i - 1]
      BY <2>1, <2>2, SubSeqProperties
    <2>4. \A i \in 1..n : (at + 1) + i - 1 = at + i
      OBVIOUS
    <2>5. QED
      BY <2>3, <2>4
  <1> HIDE DEF u
  <1>3. /\ s \o u \in Seq(S) /\ Len(s \o u) = Len(s) + n
        /\ \A i \in 1..Len(s) + n : (s \o u)[i] = IF i <= Len(s) THEN s[i] ELSE u[i - Len(s)]
    BY <1>2, ConcatProperties
  <1>4. ASSUME NEW i \in 1..Len(s) + n
        PROVE  (s \o u)[i] = t[k + i]
    <2>1. CASE i <= Len(s)
      BY <1>1, <1>3, <2>1
    <2>2. CASE i > Len(s)
      <3>1. i - Len(s) \in 1..n /\ at + (i - Len(s)) = k + i
        BY <1>1, <2>2
      <3>2. (s \o u)[i] = u[i - Len(s)]
        BY <1>1, <1>3, <2>2
      <3>3. QED
        BY <1>2, <3>1, <3>2
    <2>3. QED
      <3>1. i <= Len(s) \/ i > Len(s)
        BY <1>1
      <3>2. QED
        BY <2>1, <2>2, <3>1
  <1>5. QED
    BY <1>3, <1>4 DEF u

LEMMA StreamInit == Init => StreamInv
  <1> SUFFICES ASSUME Init PROVE StreamInv
    OBVIOUS
  <1>1. GivenOK
    BY DEF Init, GivenOK
  <1>2. Len(Fields) \in Nat /\ Len(Fields) > 0
    BY <1>1, RequestFacts, FieldFacts
  <1>3. \A S : <<>> \in Seq(S) /\ Len(<<>>) = 0
    BY EmptySeq
  <1>4. LengthsOK
    BY <1>2, <1>3 DEF LengthsOK, Init, Word
  <1>5. ReceivedOK /\ SentOK
    BY <1>3 DEF ReceivedOK, SentOK, Init
  <1>6. QED
    BY <1>1, <1>4, <1>5 DEF StreamInv

(* What the caller gave stays, and with it everything made of it.          *)
LEMMA GivenStays ==
  ASSUME GivenOK, [Next]_vars
  PROVE  /\ GivenOK' /\ Fields' = Fields /\ Out' = Out /\ Types' = Types
         /\ request' = request /\ \A f : Serialized(f)' = Serialized(f)
  <1>1. UNCHANGED <<request, method_id, corder, sorder>>
    BY DEF Next, vars, Client, Server, Serialize, Send, RecvHeader, RecvPayload, Deserialize
  <1>2. total_len' = total_len
    BY <1>1 DEF total_len
  <1>3. \A v : Packed(v)' = Packed(v)
    BY <1>1 DEF Packed
  <1>4. QED
    BY <1>1, <1>2, <1>3 DEF GivenOK, Fields, Out, Types, Serialized

LEMMA LengthTypes ==
  ASSUME StreamInv
  PROVE  /\ Len(Fields) \in Nat /\ Len(buffer) \in Nat /\ Len(onwire) \in Nat
         /\ Len(header) \in Nat /\ Len(payload) \in Nat
         /\ next \in Nat /\ sent \in Nat /\ taken \in Nat /\ Word = 4 /\ U32 \in Nat \ {0}
  <1>1. GivenOK /\ LengthsOK
    BY DEF StreamInv
  <1>2. Len(Fields) \in Nat
    BY <1>1, RequestFacts, FieldFacts
  <1>3. Len(buffer) \in Nat /\ Len(onwire) \in Nat /\ Len(header) \in Nat /\ Len(payload) \in Nat
    BY <1>1, LenProperties DEF LengthsOK
  <1>4. QED
    BY <1>1, <1>2, <1>3, U32Positive DEF LengthsOK, Word

LEMMA HeaderFirst ==
  ASSUME LengthsOK
  PROVE  Len(header) = Word \/ Len(payload) = 0
  <1>1. Len(header) \in Nat /\ Len(header) <= 4
    BY LenProperties DEF LengthsOK, Word
  <1>2. CASE Len(header) = 4
    BY <1>2 DEF Word
  <1>3. CASE Len(header) < 4
    <2>1. payload = <<>>
      BY <1>3 DEF LengthsOK, Word
    <2>2. QED
      BY <2>1
  <1>4. \A n \in Nat : n <= 4 => (n = 4 \/ n < 4)
    OBVIOUS
  <1>5. QED
    BY <1>1, <1>2, <1>3, <1>4

LEMMA SerializeKeepsStream ==
  ASSUME StreamInv, [Next]_vars, Serialize
  PROVE  StreamInv'
  <1> DEFINE bytes == Serialized(Fields[next + 1])
  <1>1. GivenOK /\ LengthsOK /\ ReceivedOK
    BY DEF StreamInv
  <1>2. GivenOK' /\ Fields' = Fields /\ Out' = Out
    BY <1>1, GivenStays
  <1>3. /\ Len(Fields) \in Nat /\ next \in Nat /\ next + 1 \in 1..Len(Fields) /\ next' = next + 1
        /\ next < Len(Fields) /\ onwire = <<>> /\ sent = 0 /\ onwire' = onwire /\ sent' = sent
        /\ taken' = taken /\ header' = header /\ payload' = payload /\ buffer' = buffer \o bytes
    BY <1>1, LengthTypes DEF Serialize, LengthsOK, serverVars
  <1>4. bytes \in Seq(Out)
    BY <1>1, <1>3, SerializedFacts
  <1> HIDE DEF bytes
  <1>5. buffer' \in Seq(Out)
    BY <1>1, <1>3, <1>4, ConcatProperties DEF LengthsOK
  <1>6. LengthsOK'
    BY <1>1, <1>2, <1>3, <1>5 DEF LengthsOK
  <1>7. ReceivedOK'
    BY <1>1, <1>3 DEF ReceivedOK
  <1>8. SentOK'
    <2>1. Len(onwire') = 0 /\ sent' = 0
      BY <1>3, EmptySeq
    <2>2. Len(buffer') \in Nat
      BY <1>5, LenProperties
    <2>3. QED
      BY <2>1, <2>2 DEF SentOK
  <1>9. QED
    BY <1>2, <1>6, <1>7, <1>8 DEF StreamInv

LEMMA SendKeepsStream ==
  ASSUME StreamInv, [Next]_vars, Send
  PROVE  StreamInv'
  <1>1. GivenOK /\ LengthsOK /\ ReceivedOK /\ SentOK
    BY DEF StreamInv
  <1>2. GivenOK' /\ Fields' = Fields /\ Out' = Out
    BY <1>1, GivenStays
  <1>3. /\ next = Len(Fields) /\ sent < Len(buffer) /\ next' = next /\ buffer' = buffer
        /\ taken' = taken /\ header' = header /\ payload' = payload
    BY DEF Send, serverVars
  <1>4. PICK n \in 1..Len(buffer) - sent :
             /\ onwire' = onwire \o SubSeq(FromSent, 1, n) /\ sent' = (sent + n) % U32
    BY DEF Send
  <1> DEFINE u == SubSeq(FromSent, 1, n)
  <1>5. /\ Len(Fields) \in Nat /\ Len(buffer) \in Nat /\ Len(onwire) \in Nat /\ sent \in Nat
        /\ taken \in Nat /\ U32 \in Nat \ {0} /\ n \in Nat \ {0} /\ sent + n <= Len(buffer)
        /\ Len(header) \in Nat /\ Len(payload) \in Nat
    BY <1>4, LengthTypes
  <1>6. u \in Seq(Out) /\ Len(u) = n /\ \A i \in 1..n : u[i] = buffer[sent + i]
    <2>1. buffer \in Seq(Out)
      BY <1>1 DEF LengthsOK
    <2>2. \A i \in sent + 1..Len(buffer) : buffer[i] \in Out
      BY <1>5, <2>1
    <2>3. /\ FromSent \in Seq(Out) /\ Len(FromSent) = Len(buffer) - sent
          /\ \A i \in 1..Len(buffer) - sent : FromSent[i] = buffer[sent + i]
      <3>1. sent + 1 \in Int /\ Len(buffer) \in Int /\ sent + 1 <= Len(buffer)
            /\ Len(buffer) - (sent + 1) + 1 = Len(buffer) - sent
        BY <1>5
      <3>2. /\ FromSent \in Seq(Out) /\ Len(FromSent) = Len(buffer) - sent
            /\ \A i \in 1..Len(buffer) - sent : FromSent[i] = buffer[(sent + 1) + i - 1]
        BY <2>2, <3>1, SubSeqProperties DEF FromSent
      <3>3. \A i \in 1..Len(buffer) - sent : (sent + 1) + i - 1 = sent + i
        BY <1>5
      <3>4. QED
        BY <3>2, <3>3
    <2>4. \A i \in 1..n : FromSent[i] \in Out
      BY <1>5, <2>3
    <2>5. 1 \in Int /\ n \in Int /\ 1 <= n /\ n - 1 + 1 = n /\ \A i \in 1..n : 1 + i - 1 = i
      BY <1>5
    <2>6. u \in Seq(Out) /\ Len(u) = n /\ \A i \in 1..n : u[i] = FromSent[1 + i - 1]
      BY <2>4, <2>5, SubSeqProperties
    <2>7. \A i \in 1..n : i \in 1..Len(buffer) - sent
      BY <1>5
    <2>8. QED
      BY <2>3, <2>5, <2>6, <2>7
  <1> HIDE DEF u
  <1>7. /\ onwire' \in Seq(Out) /\ Len(onwire') = Len(onwire) + n
        /\ \A i \in 1..Len(onwire) + n :
             onwire'[i] = IF i <= Len(onwire) THEN onwire[i] ELSE u[i - Len(onwire)]
    <2>1. onwire \in Seq(Out) /\ onwire' = onwire \o u
      BY <1>1, <1>4 DEF LengthsOK, u
    <2>2. QED
      BY <1>6, <2>1, ConcatProperties
  <1>8. sent' \in Nat
    <2>1. sent + n \in Nat
      BY <1>5
    <2>2. (sent + n) % U32 \in 0..U32 - 1
      BY <1>5, <2>1, RemainderBelow
    <2>3. QED
      BY <1>4, <1>5, <2>2
  <1>9. LengthsOK'
    BY <1>1, <1>2, <1>3, <1>5, <1>7, <1>8 DEF LengthsOK
  <1>10. ReceivedOK'
    <2>1. \A i \in 1..Len(header) : i \in 1..Len(onwire)
      BY <1>1, <1>5 DEF LengthsOK
    <2>2. \A i \in 1..Len(payload) : Word + i \in 1..Len(onwire)
      <3>1. Len(header) = Word \/ Len(payload) = 0
        BY <1>1, HeaderFirst
      <3>2. Len(header) + Len(payload) = taken /\ taken <= Len(onwire)
        BY <1>1 DEF LengthsOK
      <3>3. CASE Len(header) = Word
        BY <1>5, <3>2, <3>3 DEF Word
      <3>4. CASE Len(payload) = 0
        BY <1>5, <3>4
      <3>5. QED
        BY <3>1, <3>3, <3>4
    <2>3. \A i \in 1..Len(onwire) : onwire'[i] = onwire[i]
      BY <1>5, <1>7
    <2>4. QED
      BY <1>1, <1>3, <2>1, <2>2, <2>3 DEF ReceivedOK
  <1>11. SentOK'
    <2> SUFFICES ASSUME Len(buffer) < U32
                 PROVE  /\ sent' = Len(onwire') /\ Len(onwire') <= Len(buffer)
                        /\ \A i \in 1..Len(onwire') : onwire'[i] = buffer[i]
      BY <1>3 DEF SentOK
    <2>1. sent = Len(onwire) /\ \A i \in 1..Len(onwire) : onwire[i] = buffer[i]
      BY <1>1 DEF SentOK
    <2>2. sent + n < U32 /\ sent + n \in Nat
      BY <1>5
    <2>3. sent' = sent + n
      BY <1>4, <1>5, <2>2, RemainderBelow
    <2>4. ASSUME NEW i \in 1..Len(onwire')
          PROVE  onwire'[i] = buffer[i]
      <3>1. CASE i <= Len(onwire)
        BY <1>5, <1>7, <2>1, <3>1
      <3>2. CASE i > Len(onwire)
        <4>1. i - Len(onwire) \in 1..n /\ sent + (i - Len(onwire)) = i
          BY <1>5, <1>7, <2>1, <3>2
        <4>2. onwire'[i] = u[i - Len(onwire)]
          BY <1>5, <1>7, <3>2
        <4>3. QED
          BY <1>6, <4>1, <4>2
      <3>3. QED
        BY <1>5, <1>7, <3>1, <3>2
    <2>5. QED
      BY <1>5, <1>7, <2>1, <2>3, <2>4
  <1>12. QED
    BY <1>2, <1>9, <1>10, <1>11 DEF StreamInv

LEMMA RecvHeaderKeepsStream ==
  ASSUME StreamInv, [Next]_vars, RecvHeader
  PROVE  StreamInv'
  <1>1. GivenOK /\ LengthsOK /\ ReceivedOK /\ SentOK
    BY DEF StreamInv
  <1>2. GivenOK' /\ Fields' = Fields /\ Out' = Out
    BY <1>1, GivenStays
  <1>3. /\ next' = next /\ buffer' = buffer /\ sent' = sent /\ onwire' = onwire
        /\ payload' = payload /\ Len(header) < Word
    BY DEF RecvHeader, clientVars
  <1>4. PICK n \in 1..Word - Len(header) :
             n <= InFlight /\ header' = header \o Arrived(n) /\ taken' = taken + n
    BY DEF RecvHeader
  <1>5. /\ Len(onwire) \in Nat /\ taken \in Nat /\ Len(header) \in Nat /\ Len(payload) \in Nat
        /\ n \in Nat \ {0} /\ Len(header) + n <= Word /\ taken + n <= Len(onwire) /\ Word = 4
    BY <1>4, LengthTypes DEF InFlight
  <1>6. payload = <<>> /\ Len(payload) = 0 /\ taken = Len(header)
    BY <1>1, <1>3, <1>5, EmptySeq DEF LengthsOK
  <1>7. header \in Seq(Out) /\ onwire \in Seq(Out) /\ \A i \in 1..Len(header) : header[i] = onwire[0 + i]
    BY <1>1 DEF LengthsOK, ReceivedOK
  <1>8. header' = header \o SubSeq(onwire, taken + 1, taken + n)
    BY <1>4 DEF Arrived
  <1>9. /\ header' \in Seq(Out) /\ Len(header') = Len(header) + n
        /\ \A i \in 1..Len(header') : header'[i] = onwire[0 + i]
    <2>1. 0 \in Nat /\ 0 + Len(header) + n <= Len(onwire) /\ taken = 0 + Len(header)
      BY <1>5, <1>6
    <2>2. QED
      BY <1>5, <1>7, <1>8, <2>1, Received
  <1>10. LengthsOK'
    BY <1>1, <1>2, <1>3, <1>4, <1>5, <1>6, <1>9 DEF LengthsOK
  <1>11. ReceivedOK' /\ SentOK'
    BY <1>1, <1>3, <1>6, <1>9 DEF ReceivedOK, SentOK
  <1>12. QED
    BY <1>2, <1>10, <1>11 DEF StreamInv

LEMMA RecvPayloadKeepsStream ==
  ASSUME StreamInv, [Next]_vars, RecvPayload
  PROVE  StreamInv'
  <1>1. GivenOK /\ LengthsOK /\ ReceivedOK /\ SentOK
    BY DEF StreamInv
  <1>2. GivenOK' /\ Fields' = Fields /\ Out' = Out
    BY <1>1, GivenStays
  <1>3. /\ next' = next /\ buffer' = buffer /\ sent' = sent /\ onwire' = onwire
        /\ header' = header /\ Len(header) = Word
    BY DEF RecvPayload, clientVars
  <1>4. PICK n \in 1..payload_length - Len(payload) :
             n <= InFlight /\ payload' = payload \o Arrived(n) /\ taken' = taken + n
    BY DEF RecvPayload
  <1>5. n \in Int /\ n >= 1
    BY <1>4
  <1>6. /\ Len(onwire) \in Nat /\ taken \in Nat /\ Len(payload) \in Nat
        /\ n \in Nat \ {0} /\ taken + n <= Len(onwire) /\ Word = 4 /\ taken = Word + Len(payload)
    BY <1>1, <1>3, <1>4, <1>5, LengthTypes DEF InFlight, LengthsOK
  <1>7. payload \in Seq(Out) /\ onwire \in Seq(Out)
        /\ \A i \in 1..Len(payload) : payload[i] = onwire[Word + i]
    BY <1>1 DEF LengthsOK, ReceivedOK
  <1>8. payload' = payload \o SubSeq(onwire, taken + 1, taken + n)
    BY <1>4 DEF Arrived
  <1>9. /\ payload' \in Seq(Out) /\ Len(payload') = Len(payload) + n
        /\ \A i \in 1..Len(payload') : payload'[i] = onwire[Word + i]
    <2>1. Word \in Nat /\ Word + Len(payload) + n <= Len(onwire)
      BY <1>6
    <2>2. QED
      BY <1>6, <1>7, <1>8, <2>1, Received
  <1>10. LengthsOK'
    BY <1>1, <1>2, <1>3, <1>4, <1>6, <1>9 DEF LengthsOK
  <1>11. ReceivedOK' /\ SentOK'
    BY <1>1, <1>3, <1>9 DEF ReceivedOK, SentOK
  <1>12. QED
    BY <1>2, <1>10, <1>11 DEF StreamInv

LEMMA StreamStep == StreamInv /\ [Next]_vars => StreamInv'
  <1> SUFFICES ASSUME StreamInv, [Next]_vars PROVE StreamInv'
    OBVIOUS
  <1>1. CASE Serialize
    BY <1>1, SerializeKeepsStream
  <1>2. CASE Send
    BY <1>2, SendKeepsStream
  <1>3. CASE RecvHeader
    BY <1>3, RecvHeaderKeepsStream
  <1>4. CASE RecvPayload
    BY <1>4, RecvPayloadKeepsStream
  <1>5. CASE Deserialize \/ UNCHANGED vars
    <2>1. GivenOK' /\ Fields' = Fields /\ Out' = Out
      BY GivenStays DEF StreamInv
    <2>2. /\ next' = next /\ buffer' = buffer /\ sent' = sent /\ onwire' = onwire
          /\ taken' = taken /\ header' = header /\ payload' = payload
      BY <1>5 DEF Deserialize, vars, clientVars, serverVars
    <2>3. QED
      BY <2>1, <2>2 DEF StreamInv, LengthsOK, ReceivedOK, SentOK
  <1>6. QED
    BY <1>1, <1>2, <1>3, <1>4, <1>5 DEF Next, Client, Server

LEMMA StreamGivesEveryByteOnce == StreamInv /\ Len(buffer) < U32 => EveryByteOnce
  <1> SUFFICES ASSUME StreamInv, Len(buffer) < U32 PROVE EveryByteOnce
    OBVIOUS
  <1>1. LengthsOK /\ ReceivedOK /\ SentOK
    BY DEF StreamInv
  <1>2. /\ buffer \in Seq(Out) /\ onwire \in Seq(Out) /\ header \in Seq(Out) /\ payload \in Seq(Out)
        /\ Len(buffer) \in Nat /\ Len(onwire) \in Nat /\ Len(header) \in Nat /\ Len(payload) \in Nat
        /\ taken \in 0..Len(onwire)
    BY <1>1, LengthTypes DEF LengthsOK
  <1>3. Len(onwire) <= Len(buffer) /\ \A i \in 1..Len(onwire) : onwire[i] = buffer[i]
    BY <1>1 DEF SentOK
  <1>4. IsPrefix(onwire, buffer)
    <2> DEFINE v == SubSeq(buffer, 1, Len(onwire))
    <2>1. \A i \in 1..Len(onwire) : buffer[i] \in Out /\ 1 + i - 1 = i
      BY <1>2, <1>3
    <2>2. 1 \in Int /\ Len(onwire) \in Int /\ Len(onwire) - 1 + 1 = Len(onwire)
          /\ (~ (1 <= Len(onwire)) => Len(onwire) = 0)
      BY <1>2
    <2>3. v \in Seq(Out) /\ Len(v) = Len(onwire) /\ \A i \in 1..Len(onwire) : v[i] = buffer[1 + i - 1]
      BY <2>1, <2>2, SubSeqProperties
    <2> HIDE DEF v
    <2>4. v = onwire
      BY <1>2, <1>3, <2>1, <2>3, SeqEqual
    <2>5. SubSeq(onwire, 1, Len(onwire)) = onwire
      BY <1>2, SubSeqFull
    <2>6. QED
      BY <1>3, <2>4, <2>5 DEF IsPrefix, v
  <1>5. header \o payload = SubSeq(onwire, 1, taken)
    <2> DEFINE v == SubSeq(onwire, 1, taken)
               w == header \o payload
    <2>1. \A i \in 1..taken : onwire[i] \in Out /\ 1 + i - 1 = i
      BY <1>2
    <2>2. 1 \in Int /\ taken \in Int /\ taken - 1 + 1 = taken /\ (~ (1 <= taken) => taken = 0)
      BY <1>2
    <2>3. v \in Seq(Out) /\ Len(v) = taken /\ \A i \in 1..taken : v[i] = onwire[1 + i - 1]
      BY <2>1, <2>2, SubSeqProperties
    <2>4. /\ w \in Seq(Out) /\ Len(w) = Len(header) + Len(payload)
          /\ \A i \in 1..Len(header) + Len(payload) :
               w[i] = IF i <= Len(header) THEN header[i] ELSE payload[i - Len(header)]
      BY <1>2, ConcatProperties
    <2> HIDE DEF v, w
    <2>5. Len(header) + Len(payload) = taken /\ (Len(header) = Word \/ Len(payload) = 0)
      BY <1>1, HeaderFirst DEF LengthsOK
    <2>6. ASSUME NEW i \in 1..taken
          PROVE  w[i] = v[i]
      <3>1. CASE i <= Len(header)
        <4>1. w[i] = header[i] /\ i \in 1..Len(header)
          BY <1>2, <2>4, <2>5, <3>1
        <4>2. header[i] = onwire[i]
          BY <1>1, <4>1 DEF ReceivedOK
        <4>3. QED
          BY <2>1, <2>3, <4>1, <4>2
      <3>2. CASE i > Len(header)
        <4>0. i \in Int /\ i <= Len(header) + Len(payload) /\ Len(header) = Word /\ Word = 4
          BY <1>2, <2>5, <3>2 DEF Word
        <4>1. i - Len(header) \in 1..Len(payload) /\ Word + (i - Len(header)) = i
          BY <1>2, <3>2, <4>0
        <4>2. w[i] = payload[i - Len(header)]
          BY <1>2, <2>4, <2>5, <3>2
        <4>3. payload[i - Len(header)] = onwire[Word + (i - Len(header))]
          BY <1>1, <4>1 DEF ReceivedOK
        <4>4. QED
          BY <2>1, <2>3, <4>1, <4>2, <4>3
      <3>3. QED
        BY <1>2, <3>1, <3>2
    <2>7. w = v
      BY <2>3, <2>4, <2>5, <2>6, SeqEqual
    <2>8. QED
      BY <2>7 DEF v, w
  <1>6. QED
    BY <1>4, <1>5 DEF EveryByteOnce

(* Every byte of a buffer whose length fits in 32 bits is put on the       *)
(* stream once and in order by send_all, and recv_rpc_buffer gets the      *)
(* stream as it is, for every request and every way of cutting it up.      *)
THEOREM WireEveryByteOnce == Spec => [](Len(buffer) < U32 => EveryByteOnce)
  <1>1. Init => StreamInv
    BY StreamInit
  <1>2. StreamInv /\ [Next]_vars => StreamInv'
    BY StreamStep
  <1>3. StreamInv => (Len(buffer) < U32 => EveryByteOnce)
    BY StreamGivesEveryByteOnce
  <1>4. QED
    BY <1>1, <1>2, <1>3, PTL DEF Spec

-----------------------------------------------------------------------------
(* Where the fields lie in the client's buffer, and what the server has    *)
(* made of them.                                                           *)

(* cut[k] is the offset behind the first k fields.                         *)
FieldsLie(cut) ==
  /\ cut \in [0..next -> 0..Len(buffer)]
  /\ cut[0] = 0 /\ cut[next] = Len(buffer)
  /\ \A k \in 1..next :
       LET bytes == Serialized(Fields[k])
       IN  /\ cut[k] = cut[k - 1] + Len(bytes)
           /\ \A i \in 1..Len(bytes) : buffer[cut[k - 1] + i] = bytes[i]

(* The server is at the beginning of the next field.                       *)
FieldsRead(cut) ==
  /\ decoded \in Seq(Values \cup {Fields[2]}) /\ Len(decoded) < Len(Fields)
  /\ position \in Nat /\ position + Word = cut[Len(decoded) + 1]
  /\ \A i \in 1..Len(decoded) : decoded[i] = Fields[i + 1]

(* Every value of this request can be sent: the server takes a bool, which *)
(* the client does not send, and a length has 32 bits.                     *)
Sendable == /\ Bools = {}
            /\ \A i \in DOMAIN request : request[i].type = "string" => Len(request[i].value) < U32

FieldInv ==
  /\ next < Len(Fields) => decoded = <<>> /\ position = 0
  /\ \E cut : /\ FieldsLie(cut)
              /\ next = Len(Fields) /\ Len(buffer) < U32 /\ Sendable => FieldsRead(cut)

LEMMA FieldBytes ==
  ASSUME GivenOK, Sendable, NEW j \in 2..Len(Fields)
  PROVE  LET f     == Fields[j]
             w     == WordOf(f)
             bytes == Serialized(f)
         IN  /\ f.type \in {"uint32", "int32", "string"} /\ f = [type |-> f.type, value |-> f.value]
             /\ w \in 0..U32 - 1
             /\ \A i \in 1..Word : bytes[i] = Packed(w)[i]
             /\ f.type = "uint32" => f.value = w /\ Len(bytes) = Word
             /\ f.type = "int32"  => f.value = Signed(w) /\ Len(bytes) = Word
             /\ f.type = "string" => /\ f.value \in Seq(Bytes) /\ Len(f.value) = w
                                     /\ Len(bytes) = Word + w
                                     /\ \A i \in 1..w : bytes[Word + i] = f.value[i]
  <1> DEFINE f     == Fields[j]
             w     == WordOf(f)
             bytes == Serialized(f)
  <1>1. /\ request \in Seq(Values) /\ Len(request) \in Nat /\ DOMAIN request = 1..Len(request)
        /\ method_id \in 0..U32 - 1 /\ Len(Fields) = Len(request) + 2 /\ U32 \in Nat \ {0}
    BY RequestFacts, FieldFacts, U32Positive
  <1>2. CASE j = 2
    <2>1. f = [type |-> "uint32", value |-> method_id]
      BY <1>2, FieldFacts
    <2>2. f.type = "uint32" /\ f.value = method_id
      BY <2>1
    <2>3. w = method_id /\ bytes = Packed(method_id)
      BY <2>2 DEF WordOf, Serialized
    <2>4. Len(bytes) = Word
      BY <1>1, <2>3, PackedFacts
    <2> HIDE DEF f, w, bytes
    <2>5. f = [type |-> f.type, value |-> f.value]
      BY <2>1
    <2>6. QED
      BY <1>1, <2>2, <2>3, <2>4, <2>5 DEF f, w, bytes
  <1>3. CASE j # 2
    <2>1. j - 2 \in DOMAIN request /\ j \in 3..Len(request) + 2
      BY <1>1, <1>3
    <2>2. f = request[j - 2]
      BY <2>1, FieldFacts
    <2>3. f \in Values
      BY <1>1, <2>1, <2>2, RequestFacts
    <2>4. f.type # "bool"
      BY <2>1, <2>2 DEF Sendable, Bools
    <2>5. f.type = "string" => Len(f.value) < U32
      BY <2>1, <2>2 DEF Sendable
    <2> HIDE DEF f
    <2>6. f.type \in {"int32", "string"} /\ f = [type |-> f.type, value |-> f.value]
      BY <2>3, <2>4 DEF Values
    <2>7. CASE f.type = "int32"
      <3>1. f.value \in -(U32 \div 2)..(U32 \div 2) - 1
        BY <2>3, <2>7 DEF Values
      <3>2. w = Bits(f.value) /\ bytes = Packed(w)
        BY <2>7 DEF WordOf, Serialized
      <3>3. w \in 0..U32 - 1 /\ Signed(w) = f.value
        BY <3>1, <3>2, SignArrives
      <3>4. Len(bytes) = Word
        BY <3>2, <3>3, PackedFacts
      <3> HIDE DEF w, bytes
      <3>5. QED
        BY <2>6, <2>7, <3>2, <3>3, <3>4 DEF f, w, bytes
    <2>8. CASE f.type = "string"
      <3>1. f.value \in Seq(Bytes) /\ Len(f.value) \in Nat
        BY <2>3, <2>8, LenProperties DEF Values
      <3>2. w = Len(f.value)
        BY <2>8 DEF WordOf
      <3>3. Len(f.value) % U32 = Len(f.value)
        BY <1>1, <2>5, <2>8, <3>1, RemainderBelow
      <3>4. bytes = Packed(w) \o SubSeq(f.value, 1, w)
        BY <2>8, <3>2, <3>3 DEF Serialized
      <3>5. SubSeq(f.value, 1, w) = f.value
        BY <3>1, <3>2, SubSeqFull
      <3>6. w \in 0..U32 - 1
        BY <1>1, <2>5, <2>8, <3>1, <3>2
      <3> HIDE DEF w, bytes
      <3>7. bytes = Packed(w) \o f.value
        BY <3>4, <3>5
      <3>8. Packed(w) \in Seq(Bytes) /\ Len(Packed(w)) = Word
        BY <3>6, PackedFacts
      <3>9. /\ Len(bytes) = Word + w
            /\ \A i \in 1..Word + w : bytes[i] = IF i <= Word THEN Packed(w)[i] ELSE f.value[i - Word]
        BY <3>1, <3>2, <3>7, <3>8, ConcatProperties
      <3>10. \A i \in 1..Word : bytes[i] = Packed(w)[i]
        BY <3>6, <3>9 DEF Word
      <3>11. ASSUME NEW i \in 1..w
             PROVE  bytes[Word + i] = f.value[i]
        <4>1. Word + i \in 1..Word + w /\ ~ (Word + i <= Word) /\ (Word + i) - Word = i
          BY <3>6 DEF Word
        <4>2. QED
          BY <3>9, <4>1
      <3>12. f.type \in {"uint32", "int32", "string"}
        BY <2>8
      <3>13. QED
        BY <2>6, <2>8, <3>1, <3>2, <3>6, <3>9, <3>10, <3>11, <3>12 DEF f, w, bytes
    <2>9. QED
      BY <2>6, <2>7, <2>8
  <1>4. QED
    BY <1>2, <1>3

(* What lies in the payload behind the server's position is the field that *)
(* begins there.                                                           *)
LEMMA PayloadBytes ==
  ASSUME StreamInv, NEW cut, FieldsLie(cut), next = Len(Fields), Len(buffer) < U32,
         NEW j \in 1..Len(Fields), position \in Nat, position + Word = cut[j - 1],
         Len(header) = Word,
         NEW i \in 1..Len(Serialized(Fields[j])), position + i <= Len(payload)
  PROVE  payload[position + i] = Serialized(Fields[j])[i]
  <1> DEFINE bytes == Serialized(Fields[j])
  <1>1. LengthsOK /\ ReceivedOK /\ SentOK
    BY DEF StreamInv
  <1>2. /\ Len(header) + Len(payload) = taken /\ taken <= Len(onwire)
        /\ Len(payload) \in Nat /\ Len(onwire) \in Nat /\ taken \in Nat /\ Word = 4
    BY <1>1, LengthTypes DEF LengthsOK
  <1>3. i \in Int /\ i >= 1
    OBVIOUS
  <1>4. position + i \in 1..Len(payload) /\ Word + (position + i) \in 1..Len(onwire)
    BY <1>2, <1>3
  <1>5. payload[position + i] = onwire[Word + (position + i)]
    BY <1>1, <1>4 DEF ReceivedOK
  <1>6. onwire[Word + (position + i)] = buffer[Word + (position + i)]
    BY <1>1, <1>4 DEF SentOK
  <1>7. Word + (position + i) = cut[j - 1] + i
    <2>1. Word + (position + i) = (position + Word) + i
      BY <1>2, <1>3
    <2>2. QED
      BY <2>1
  <1>8. buffer[cut[j - 1] + i] = bytes[i]
    BY DEF FieldsLie
  <1>9. QED
    BY <1>5, <1>6, <1>7, <1>8

(* ... so the word there is the field's.                                   *)
LEMMA PayloadWord ==
  ASSUME StreamInv, NEW cut, FieldsLie(cut), next = Len(Fields), Len(buffer) < U32, Sendable,
         NEW j \in 2..Len(Fields), position \in Nat, position + Word = cut[j - 1],
         Len(header) = Word, HasWord
  PROVE  Unpacked(position) = WordOf(Fields[j])
  <1> DEFINE f     == Fields[j]
             w     == WordOf(f)
             bytes == Serialized(f)
             s     == SubSeq(payload, position + 1, position + Word)
  <1>1. GivenOK /\ LengthsOK
    BY DEF StreamInv
  <1>2. payload \in Seq(Out) /\ Len(payload) \in Nat /\ Word = 4 /\ Len(Fields) \in Nat
    BY <1>1, LengthTypes DEF LengthsOK
  <1>3. /\ w \in 0..U32 - 1 /\ \A i \in 1..Word : bytes[i] = Packed(w)[i]
        /\ Len(bytes) = Word \/ Len(bytes) = Word + w
    BY <1>1, FieldBytes
  <1>4. j \in 1..Len(Fields) /\ position + 4 <= Len(payload)
    BY <1>2 DEF HasWord
  <1> HIDE DEF w, bytes
  <1>5. ASSUME NEW i \in 1..4
        PROVE  payload[position + i] = Packed(w)[i]
    <2>1. i \in 1..Len(bytes) /\ position + i <= Len(payload)
      BY <1>2, <1>3, <1>4
    <2>2. payload[position + i] = bytes[i]
      BY <1>4, <2>1, PayloadBytes DEF bytes
    <2>3. QED
      BY <1>2, <1>3, <2>2
  <1>6. Packed(w) \in Seq(Out) /\ Len(Packed(w)) = Word
    BY <1>1, <1>3, PackedFacts
  <1>7. s \in Seq(Out) /\ Len(s) = 4 /\ \A i \in 1..4 : s[i] = payload[position + i]
    <2>1. \A i \in position + 1..position + 4 : payload[i] \in Out
      BY <1>2, <1>4
    <2>2. /\ position + 1 \in Int /\ position + 4 \in Int /\ position + 1 <= position + 4
          /\ (position + 4) - (position + 1) + 1 = 4
          /\ \A i \in 1..4 : (position + 1) + i - 1 = position + i
      OBVIOUS
    <2>3. /\ s \in Seq(Out) /\ Len(s) = 4 /\ \A i \in 1..4 : s[i] = payload[(position + 1) + i - 1]
      BY <1>2, <2>1, <2>2, SubSeqProperties
    <2>4. QED
      BY <2>2, <2>3
  <1> HIDE DEF s
  <1>8. s = Packed(w)
    BY <1>2, <1>5, <1>6, <1>7, SeqEqual
  <1>9. ntohl(FromMemory(Packed(w), sorder), sorder) = w
    BY <1>1, <1>3, PackedFacts
  <1>10. QED
    BY <1>8, <1>9 DEF Unpacked, s, w

(* A string behind its word.                                               *)
LEMMA PayloadString ==
  ASSUME StreamInv, NEW cut, FieldsLie(cut), next = Len(Fields), Len(buffer) < U32, Sendable,
         NEW j \in 2..Len(Fields), position \in Nat, position + Word = cut[j - 1],
         Len(header) = Word, Fields[j].type = "string",
         position + Word + WordOf(Fields[j]) <= Len(payload)
  PROVE  SubSeq(payload, position + Word + 1, position + Word + WordOf(Fields[j])) = Fields[j].value
  <1> DEFINE f     == Fields[j]
             w     == WordOf(f)
             bytes == Serialized(f)
             s     == SubSeq(payload, position + Word + 1, position + Word + w)
  <1>1. GivenOK /\ LengthsOK
    BY DEF StreamInv
  <1>2. payload \in Seq(Out) /\ Len(payload) \in Nat /\ Word = 4 /\ Len(Fields) \in Nat
    BY <1>1, LengthTypes DEF LengthsOK
  <1>3. /\ w \in Nat /\ f.value \in Seq(Bytes) /\ Len(f.value) = w
        /\ Len(bytes) = Word + w /\ \A i \in 1..w : bytes[Word + i] = f.value[i]
    <2>1. w \in 0..U32 - 1
      BY <1>1, FieldBytes
    <2>2. w \in Nat
      BY <2>1, U32Positive
    <2>3. /\ f.value \in Seq(Bytes) /\ Len(f.value) = w /\ Len(bytes) = Word + w
          /\ \A i \in 1..w : bytes[Word + i] = f.value[i]
      BY <1>1, FieldBytes
    <2>4. QED
      BY <2>2, <2>3
  <1>4. j \in 1..Len(Fields) /\ position + 4 + w <= Len(payload)
    BY <1>2
  <1> HIDE DEF w, bytes
  <1>5. ASSUME NEW i \in 1..w
        PROVE  payload[position + 4 + i] = f.value[i]
    <2>1. 4 + i \in 1..Len(bytes) /\ position + (4 + i) <= Len(payload)
          /\ position + (4 + i) = position + 4 + i
      BY <1>2, <1>3, <1>4
    <2>2. payload[position + (4 + i)] = bytes[4 + i]
      BY <1>4, <2>1, PayloadBytes DEF bytes
    <2>3. QED
      BY <1>2, <1>3, <2>1, <2>2
  <1>6. s \in Seq(Out) /\ Len(s) = w /\ \A i \in 1..w : s[i] = payload[position + 4 + i]
    <2> DEFINE m == position + 4 + 1
               n == position + 4 + w
    <2>1. \A i \in m..n : payload[i] \in Out
      BY <1>2, <1>3, <1>4
    <2>2. /\ m \in Int /\ n \in Int /\ n - m + 1 = w /\ (~ (m <= n) => w = 0)
          /\ \A i \in 1..w : m + i - 1 = position + 4 + i
      BY <1>3
    <2>3. s = SubSeq(payload, m, n)
      BY <1>2
    <2> HIDE DEF m, n, s
    <2>4. /\ s \in Seq(Out) /\ Len(s) = w /\ \A i \in 1..w : s[i] = payload[m + i - 1]
      BY <2>1, <2>2, <2>3, SubSeqProperties
    <2>5. QED
      BY <2>2, <2>4
  <1> HIDE DEF s
  <1>7. s \in Seq(Out \cup Bytes) /\ f.value \in Seq(Out \cup Bytes)
    BY <1>3, <1>6, SeqMonotonic
  <1>8. s = f.value
    <2> HIDE DEF f
    <2>1. Len(s) = Len(f.value) /\ \A i \in 1..Len(s) : s[i] = f.value[i]
      BY <1>3, <1>5, <1>6
    <2>2. QED
      BY <1>7, <2>1, SeqEqual
  <1>9. QED
    BY <1>8 DEF s, w

(* Deserialising reads the field that is next.                             *)
LEMMA DeserializeReads ==
  ASSUME StreamInv, NEW cut, FieldsLie(cut), next = Len(Fields), Len(buffer) < U32, Sendable,
         FieldsRead(cut), Deserialize
  PROVE  LET f == Fields[Len(decoded) + 2]
         IN  /\ Len(decoded) \in Nat /\ Len(decoded) + 2 \in 2..Len(Fields)
             /\ f \in Values \cup {Fields[2]}
             /\ decoded' = Append(decoded, f)
             /\ position' = position + Len(Serialized(f))
  <1> DEFINE j == Len(decoded) + 2
             f == Fields[j]
             w == WordOf(f)
  <1>1. GivenOK /\ LengthsOK
    BY DEF StreamInv
  <1>2. /\ decoded \in Seq(Values \cup {Fields[2]}) /\ Len(decoded) < Len(Fields)
        /\ position \in Nat /\ position + Word = cut[Len(decoded) + 1]
    BY DEF FieldsRead
  <1>3. Len(decoded) \in Nat
    BY <1>2, LenProperties
  <1>4. /\ Len(header) = Word /\ Len(decoded) < Len(Types) /\ Acceptable(Types[Len(decoded) + 1])
        /\ decoded' = Append(decoded, [type  |-> Types[Len(decoded) + 1],
                                       value |-> Deserialized(Types[Len(decoded) + 1])])
        /\ position' = position + Consumed(Types[Len(decoded) + 1])
    BY DEF Deserialize
  <1>5. Len(request) \in Nat /\ Len(Fields) = Len(request) + 2 /\ Len(Types) = Len(request) + 1
    BY <1>1, RequestFacts, FieldFacts
  <1>6. j \in 2..Len(Fields) /\ j - 1 = Len(decoded) + 1 /\ Len(decoded) + 1 \in 1..Len(Types)
        /\ (Len(decoded) + 1) + 1 = j
    BY <1>3, <1>4, <1>5
  <1>7. Types[Len(decoded) + 1] = f.type
    <2>1. Types[Len(decoded) + 1] = Fields[(Len(decoded) + 1) + 1].type
      BY <1>1, <1>6, FieldFacts
    <2>2. QED
      BY <1>6, <2>1
  <1>8. f \in Values \cup {Fields[2]}
    <2>1. CASE j = 2
      BY <2>1
    <2>2. CASE j # 2
      <3>1. j \in 3..Len(request) + 2 /\ j - 2 \in 1..Len(request)
        BY <1>5, <1>6, <2>2
      <3>2. f = request[j - 2]
        BY <1>1, <3>1, FieldFacts
      <3>3. QED
        BY <1>1, <3>1, <3>2, RequestFacts
    <2>3. QED
      BY <2>1, <2>2
  <1> HIDE DEF j
  <1>9. position + Word = cut[j - 1]
    BY <1>2, <1>6
  <1>10. /\ f.type \in {"uint32", "int32", "string"} /\ f = [type |-> f.type, value |-> f.value]
         /\ w \in 0..U32 - 1
         /\ f.type = "uint32" => f.value = w /\ Len(Serialized(f)) = Word
         /\ f.type = "int32"  => f.value = Signed(w) /\ Len(Serialized(f)) = Word
         /\ f.type = "string" => Len(Serialized(f)) = Word + w
    BY <1>1, <1>6, FieldBytes
  <1>11. HasWord
    BY <1>4, <1>7, <1>10 DEF Acceptable, HasString
  <1>12. Unpacked(position) = w
    BY <1>1, <1>2, <1>4, <1>6, <1>9, <1>11, PayloadWord
  <1> HIDE DEF w
  <1>13. Deserialized(f.type) = f.value /\ Consumed(f.type) = Len(Serialized(f))
    <2>1. CASE f.type = "uint32"
      <3>1. Deserialized(f.type) = w
        BY <1>12, <2>1 DEF Deserialized
      <3>2. Consumed(f.type) = Word
        BY <2>1 DEF Consumed, Word
      <3>3. QED
        BY <1>10, <2>1, <3>1, <3>2
    <2>2. CASE f.type = "int32"
      <3>1. Deserialized(f.type) = Signed(w)
        BY <1>12, <2>2 DEF Deserialized
      <3>2. Consumed(f.type) = Word
        BY <2>2 DEF Consumed, Word
      <3>3. QED
        BY <1>10, <2>2, <3>1, <3>2
    <2>3. CASE f.type = "string"
      <3>1. w <= Len(payload) - position - Word
        BY <1>4, <1>7, <1>12, <2>3 DEF Acceptable, HasString
      <3>2. Len(payload) \in Nat /\ w \in Nat /\ Word = 4
        BY <1>10, LengthTypes
      <3>3. position + Word + w <= Len(payload)
        BY <1>2, <3>1, <3>2
      <3>4. SubSeq(payload, position + Word + 1, position + Word + w) = f.value
        BY <1>2, <1>4, <1>6, <1>9, <2>3, <3>3, PayloadString DEF w
      <3>5. Deserialized(f.type) = f.value
        BY <1>12, <2>3, <3>4 DEF Deserialized
      <3>6. Consumed(f.type) = Word + w
        BY <1>12, <2>3 DEF Consumed
      <3>7. QED
        BY <1>10, <2>3, <3>5, <3>6
    <2>4. QED
      BY <1>10, <2>1, <2>2, <2>3
  <1>14. decoded' = Append(decoded, f) /\ position' = position + Len(Serialized(f))
    <2>1. [type |-> f.type, value |-> Deserialized(f.type)] = f
      BY <1>10, <1>13
    <2>2. QED
      BY <1>4, <1>7, <1>13, <2>1
  <1>15. QED
    BY <1>3, <1>6, <1>8, <1>14 DEF j

LEMMA FieldInit == Init => FieldInv
  <1> SUFFICES ASSUME Init PROVE FieldInv
    OBVIOUS
  <1> DEFINE cut == [k \in 0..0 |-> 0]
  <1>1. Len(Fields) \in Nat /\ Len(Fields) > 0
    BY RequestFacts, FieldFacts DEF Init, GivenOK
  <1>2. next = 0 /\ buffer = <<>> /\ decoded = <<>> /\ position = 0
    BY DEF Init
  <1>3. Len(buffer) = 0
    BY <1>2
  <1>4. cut \in [0..0 -> 0..0] /\ cut[0] = 0
    OBVIOUS
  <1> HIDE DEF cut
  <1>5. FieldsLie(cut)
    BY <1>2, <1>3, <1>4 DEF FieldsLie
  <1>6. QED
    BY <1>1, <1>2, <1>5 DEF FieldInv

LEMMA SerializeKeepsFields ==
  ASSUME StreamInv, FieldInv, [Next]_vars, Serialize
  PROVE  FieldInv'
  <1> DEFINE bytes == Serialized(Fields[next + 1])
  <1>1. GivenOK /\ LengthsOK
    BY DEF StreamInv
  <1>2. GivenOK' /\ Fields' = Fields /\ request' = request /\ \A f : Serialized(f)' = Serialized(f)
    BY <1>1, GivenStays
  <1>3. /\ next < Len(Fields) /\ next' = next + 1 /\ buffer' = buffer \o bytes
        /\ position' = position /\ decoded' = decoded
    BY DEF Serialize, serverVars
  <1>4. decoded = <<>> /\ position = 0
    BY <1>3 DEF FieldInv
  <1>5. next \in Nat /\ Len(Fields) \in Nat /\ Len(buffer) \in Nat /\ next + 1 \in 1..Len(Fields)
        /\ Len(Fields) = Len(request) + 2 /\ Len(request) \in Nat
    BY <1>1, <1>3, LengthTypes, RequestFacts, FieldFacts
  <1>6. bytes \in Seq(Out) /\ (next = 0 => Len(bytes) = Word)
    BY <1>1, <1>5, SerializedFacts
  <1> HIDE DEF bytes
  <1>7. /\ Len(bytes) \in Nat /\ Len(buffer') = Len(buffer) + Len(bytes)
        /\ \A i \in 1..Len(buffer) + Len(bytes) :
             buffer'[i] = IF i <= Len(buffer) THEN buffer[i] ELSE bytes[i - Len(buffer)]
    BY <1>1, <1>3, <1>6, LenProperties, ConcatProperties DEF LengthsOK
  <1>8. PICK cut : FieldsLie(cut)
    BY DEF FieldInv
  <1>9. cut \in [0..next -> 0..Len(buffer)] /\ cut[0] = 0 /\ cut[next] = Len(buffer)
    BY <1>8 DEF FieldsLie
  <1>10. ASSUME NEW k \in 1..next
         PROVE  /\ cut[k] = cut[k - 1] + Len(Serialized(Fields[k]))
                /\ \A i \in 1..Len(Serialized(Fields[k])) : buffer[cut[k - 1] + i] = Serialized(Fields[k])[i]
    BY <1>8 DEF FieldsLie
  <1>11. PICK new : /\ new \in [0..next + 1 -> 0..Len(buffer')]
                    /\ new[0] = 0 /\ new[next + 1] = Len(buffer')
                    /\ \A k \in 0..next : new[k] = cut[k]
    <2> DEFINE c == [k \in 0..next + 1 |-> IF k <= next THEN cut[k] ELSE Len(buffer')]
    <2>1. /\ c \in [0..next + 1 -> 0..Len(buffer')] /\ c[0] = 0 /\ c[next + 1] = Len(buffer')
          /\ \A k \in 0..next : c[k] = cut[k]
      BY <1>5, <1>7, <1>9
    <2> HIDE DEF c
    <2>2. QED
      BY <2>1
  <1>12. ASSUME NEW k \in 1..next + 1
         PROVE  /\ new[k] = new[k - 1] + Len(Serialized(Fields[k]))
                /\ \A i \in 1..Len(Serialized(Fields[k])) : buffer'[new[k - 1] + i] = Serialized(Fields[k])[i]
    <2>1. CASE k \in 1..next
      <3> DEFINE b == Serialized(Fields[k])
      <3>1. k - 1 \in 0..next /\ k \in 0..next /\ k \in 1..Len(Fields)
        BY <1>5, <2>1
      <3>2. new[k] = cut[k] /\ new[k - 1] = cut[k - 1] /\ cut[k] \in 0..Len(buffer) /\ cut[k - 1] \in 0..Len(buffer)
        BY <1>9, <1>11, <3>1
      <3>3. b \in Seq(Out)
        BY <1>1, <3>1, SerializedFacts
      <3>4. Len(b) \in Nat
        BY <3>3, LenProperties
      <3>5. cut[k] = cut[k - 1] + Len(b) /\ \A i \in 1..Len(b) : buffer[cut[k - 1] + i] = b[i]
        BY <1>10, <2>1
      <3> HIDE DEF b
      <3>6. ASSUME NEW i \in 1..Len(b)
            PROVE  buffer'[new[k - 1] + i] = b[i]
        <4>1. cut[k - 1] + i \in 1..Len(buffer) + Len(bytes) /\ cut[k - 1] + i <= Len(buffer)
          BY <1>5, <1>7, <3>2, <3>4, <3>5
        <4>2. buffer'[cut[k - 1] + i] = buffer[cut[k - 1] + i]
          BY <1>7, <4>1
        <4>3. QED
          BY <3>2, <3>5, <4>2
      <3>7. QED
        BY <3>2, <3>5, <3>6 DEF b
    <2>2. CASE k = next + 1
      <3>1. k - 1 = next /\ next \in 0..next /\ Serialized(Fields[k]) = bytes
        BY <1>5, <2>2 DEF bytes
      <3>2. new[k - 1] = Len(buffer) /\ new[k] = Len(buffer) + Len(bytes)
        BY <1>7, <1>9, <1>11, <2>2, <3>1
      <3>3. ASSUME NEW i \in 1..Len(bytes)
            PROVE  buffer'[Len(buffer) + i] = bytes[i]
        <4>1. Len(buffer) + i \in 1..Len(buffer) + Len(bytes) /\ ~ (Len(buffer) + i <= Len(buffer))
              /\ (Len(buffer) + i) - Len(buffer) = i
          BY <1>5, <1>7
        <4>2. QED
          BY <1>7, <4>1
      <3>4. QED
        BY <3>1, <3>2, <3>3
    <2>3. k \in 1..next \/ k = next + 1
      BY <1>5
    <2>4. QED
      BY <2>1, <2>2, <2>3
  <1>13. FieldsLie(new)'
    BY <1>2, <1>3, <1>11, <1>12 DEF FieldsLie
  <1>14. FieldsRead(new)' /\ position' = 0 /\ decoded' = <<>>
    <2>1. 1 \in 1..next + 1 /\ 1 - 1 = 0
      BY <1>5
    <2>2. new[1] = new[1 - 1] + Len(Serialized(Fields[1]))
      BY <1>12, <2>1
    <2>3. Len(Serialized(Fields[1])) = Word
      BY <1>1, <1>5, SerializedFacts
    <2>4. new[1] = Word
      BY <1>11, <2>1, <2>2, <2>3 DEF Word
    <2>5. Len(<<>>) = 0
      OBVIOUS
    <2>6. /\ <<>> \in Seq(Values \cup {Fields[2]}) /\ Len(<<>>) < Len(Fields) /\ 0 \in Nat
          /\ 0 + Word = new[Len(<<>>) + 1] /\ \A i \in 1..Len(<<>>) : <<>>[i] = Fields[i + 1]
      BY <1>5, <2>4, <2>5, EmptySeq DEF Word
    <2>7. QED
      BY <1>2, <1>3, <1>4, <2>6 DEF FieldsRead
  <1>15. QED
    BY <1>13, <1>14 DEF FieldInv

LEMMA FieldStep == StreamInv /\ FieldInv /\ [Next]_vars => FieldInv'
  <1> SUFFICES ASSUME StreamInv, FieldInv, [Next]_vars PROVE FieldInv'
    OBVIOUS
  <1>1. GivenOK /\ LengthsOK
    BY DEF StreamInv
  <1>2. Fields' = Fields /\ request' = request /\ \A f : Serialized(f)' = Serialized(f)
    BY <1>1, GivenStays
  <1>3. PICK cut : /\ FieldsLie(cut)
                   /\ next = Len(Fields) /\ Len(buffer) < U32 /\ Sendable => FieldsRead(cut)
    BY DEF FieldInv
  <1>4. next' = next /\ buffer' = buffer => FieldsLie(cut)' /\ Sendable' = Sendable
    BY <1>2, <1>3 DEF FieldsLie, Sendable, Bools
  <1>5. CASE Serialize
    BY <1>5, SerializeKeepsFields
  <1>6. CASE Send \/ RecvHeader \/ RecvPayload \/ UNCHANGED vars
    <2>1. next' = next /\ buffer' = buffer /\ position' = position /\ decoded' = decoded
      BY <1>6 DEF Send, RecvHeader, RecvPayload, vars, clientVars, serverVars
    <2>2. FieldsRead(cut) => FieldsRead(cut)'
      BY <1>2, <2>1 DEF FieldsRead
    <2>3. QED
      BY <1>2, <1>3, <1>4, <2>1, <2>2 DEF FieldInv
  <1>7. CASE Deserialize
    <2>1. next' = next /\ buffer' = buffer /\ Len(header) = Word
      BY <1>7 DEF Deserialize, clientVars
    <2>2. next = Len(Fields)
      <3>1. taken >= 4 /\ Len(onwire) >= 4
        BY <1>1, <2>1, LengthTypes DEF LengthsOK
      <3>2. onwire # <<>>
        BY <3>1
      <3>3. QED
        BY <1>1, <3>2, LengthTypes DEF LengthsOK
    <2>3. ASSUME Len(buffer) < U32, Sendable
          PROVE  FieldsRead(cut)'
      <3> DEFINE j == Len(decoded) + 2
                 f == Fields[j]
                 S == Values \cup {Fields[2]}
      <3>1. FieldsRead(cut)
        BY <1>3, <2>2, <2>3
      <3>2. /\ Len(decoded) \in Nat /\ j \in 2..Len(Fields) /\ f \in S
            /\ decoded' = Append(decoded, f) /\ position' = position + Len(Serialized(f))
        BY <1>3, <1>7, <2>2, <2>3, <3>1, DeserializeReads
      <3>3. /\ decoded \in Seq(S) /\ position \in Nat /\ position + Word = cut[Len(decoded) + 1]
            /\ \A i \in 1..Len(decoded) : decoded[i] = Fields[i + 1]
        BY <3>1 DEF FieldsRead
      <3>4. Len(Fields) \in Nat /\ Word = 4
        BY LengthTypes
      <3>5. j \in 1..Len(Fields) /\ j \in 1..next /\ j - 1 = Len(decoded) + 1
        BY <2>2, <3>2, <3>4
      <3>6. Len(Serialized(f)) \in Nat
        BY <1>1, <3>5, SerializedFacts, LenProperties
      <3>7. cut[j] = cut[j - 1] + Len(Serialized(f))
        BY <1>3, <3>5 DEF FieldsLie
      <3> HIDE DEF f, S
      <3>8. /\ decoded' \in Seq(S) /\ Len(decoded') = Len(decoded) + 1
            /\ \A i \in 1..Len(decoded) : decoded'[i] = decoded[i]
            /\ decoded'[Len(decoded) + 1] = f
        BY <3>2, <3>3
      <3>9. position' \in Nat /\ position' + Word = cut[Len(decoded') + 1] /\ Len(decoded') < Len(Fields)
        <4>1. position' \in Nat /\ position' + Word = (position + Word) + Len(Serialized(f))
          BY <3>2, <3>3, <3>4, <3>6
        <4>2. Len(decoded') + 1 = j /\ Len(decoded') < Len(Fields)
          BY <3>2, <3>4, <3>8
        <4>3. QED
          BY <3>3, <3>5, <3>7, <4>1, <4>2
      <3>10. ASSUME NEW i \in 1..Len(decoded')
             PROVE  decoded'[i] = Fields[i + 1]
        <4>1. CASE i \in 1..Len(decoded)
          BY <3>3, <3>8, <4>1
        <4>2. CASE i = Len(decoded) + 1
          <5>1. i + 1 = j
            BY <3>2, <4>2
          <5>2. QED
            BY <3>8, <4>2, <5>1 DEF f
        <4>3. i \in 1..Len(decoded) \/ i = Len(decoded) + 1
          BY <3>2, <3>8
        <4>4. QED
          BY <4>1, <4>2, <4>3
      <3>11. QED
        BY <1>2, <3>8, <3>9, <3>10 DEF FieldsRead, S
    <2>4. QED
      BY <1>2, <1>3, <1>4, <2>1, <2>2, <2>3 DEF FieldInv
  <1>8. QED
    BY <1>5, <1>6, <1>7 DEF Next, Client, Server

LEMMA FieldsGiveRoundTrip ==
  StreamInv /\ FieldInv /\ Len(buffer) < U32 /\ Sendable => RoundTrip
  <1> SUFFICES ASSUME StreamInv, FieldInv, Len(buffer) < U32, Sendable PROVE RoundTrip
    OBVIOUS
  <1> DEFINE S == Values \cup {Fields[1], Fields[2]}
  <1>1. GivenOK /\ LengthsOK
    BY DEF StreamInv
  <1>2. Fields \in Seq(S) /\ Len(Fields) \in Nat /\ Len(Fields) >= 2 /\ next \in 0..Len(Fields)
    BY <1>1, RequestFacts, FieldFacts DEF LengthsOK
  <1>3. Fields # <<>>
    BY <1>2
  <1>4. /\ Tail(Fields) \in Seq(S) /\ Len(Tail(Fields)) = Len(Fields) - 1
        /\ \A i \in 1..Len(Tail(Fields)) : Tail(Fields)[i] = Fields[i + 1]
    BY <1>2, <1>3, HeadTailProperties
  <1>5. /\ decoded \in Seq(S) /\ Len(decoded) < Len(Fields)
        /\ \A i \in 1..Len(decoded) : decoded[i] = Fields[i + 1]
    <2>1. CASE next = Len(Fields)
      <3>1. PICK cut : FieldsRead(cut)
        BY <2>1 DEF FieldInv
      <3>2. decoded \in Seq(Values \cup {Fields[2]})
        BY <3>1 DEF FieldsRead
      <3>3. decoded \in Seq(S)
        BY <3>2, SeqMonotonic
      <3>4. QED
        BY <3>1, <3>3 DEF FieldsRead
    <2>2. CASE next < Len(Fields)
      <3>1. decoded = <<>>
        BY <2>2 DEF FieldInv
      <3>2. Len(decoded) = 0
        BY <3>1
      <3>3. QED
        BY <1>2, <3>1, <3>2, EmptySeq
    <2>3. next = Len(Fields) \/ next < Len(Fields)
      BY <1>2
    <2>4. QED
      BY <2>1, <2>2, <2>3
  <1> HIDE DEF S
  <1>6. Len(decoded) \in Nat /\ Len(decoded) <= Len(Tail(Fields))
    <2>1. Len(decoded) \in Nat
      BY <1>5, LenProperties
    <2>2. QED
      BY <1>2, <1>4, <1>5, <2>1
  <1> DEFINE v == SubSeq(Tail(Fields), 1, Len(decoded))
  <1>7. v \in Seq(S) /\ Len(v) = Len(decoded) /\ \A i \in 1..Len(decoded) : v[i] = Tail(Fields)[i]
    <2>1. \A i \in 1..Len(decoded) : Tail(Fields)[i] \in S
      <3>1. \A i \in 1..Len(decoded) : i \in 1..Len(Tail(Fields))
        BY <1>2, <1>4, <1>6
      <3>2. QED
        BY <1>4, <3>1, ElementOfSeq
    <2>2. PICK n \in Nat : n = Len(decoded)
      BY <1>6
    <2>3. PICK t : t = Tail(Fields)
      OBVIOUS
    <2>4. \A i \in 1..n : t[i] \in S
      BY <2>1, <2>2, <2>3
    <2>5. /\ 1 \in Int /\ n \in Int /\ n - 1 + 1 = n /\ (IF 1 <= n THEN n - 1 + 1 ELSE 0) = n
          /\ \A i \in 1..n : 1 + i - 1 = i
      OBVIOUS
    <2>6. /\ SubSeq(t, 1, n) \in Seq(S) /\ Len(SubSeq(t, 1, n)) = n
          /\ \A i \in 1..n : SubSeq(t, 1, n)[i] = t[1 + i - 1]
      BY <2>4, <2>5, SubSeqProperties
    <2>7. QED
      BY <2>2, <2>3, <2>5, <2>6 DEF v
  <1>8. v = decoded
    <2>1. \A i \in 1..Len(decoded) : i \in 1..Len(Tail(Fields))
      BY <1>2, <1>4, <1>6
    <2>2. \A i \in 1..Len(decoded) : v[i] = decoded[i]
      BY <1>4, <1>5, <1>7, <2>1
    <2>3. QED
      BY <1>5, <1>7, <2>2, SeqEqual
  <1>9. SubSeq(decoded, 1, Len(decoded)) = decoded
    BY <1>5, SubSeqFull
  <1>10. QED
    BY <1>6, <1>8, <1>9 DEF RoundTrip, IsPrefix, v

-----------------------------------------------------------------------------
(* The length of what is sent, and the prefix that announces it. *)

BoolsUpTo(n) == {i \in 1..n : request[i].type = "bool"}

(* The buffer holds the sizes counted so far, without those of the bools.  *)
LengthInv ==
  /\ next = 0 => Len(buffer) = 0
  /\ next = 1 => Len(buffer) = Word
  /\ next >= 2 => Len(buffer) + Word * Cardinality(BoolsUpTo(next - 2))
                    = Word + SizeUpTo(request)[next - 2]

(* A server that waits for the words of bools deserialises nothing.        *)
BoolInv == Bools # {} => decoded = <<>>

LEMMA BoolFacts ==
  ASSUME GivenOK
  PROVE  /\ BoolsUpTo(0) = {} /\ BoolsUpTo(Len(request)) = Bools
         /\ \A n \in 0..Len(request) : /\ IsFiniteSet(BoolsUpTo(n))
                                       /\ Cardinality(BoolsUpTo(n)) \in Nat
         /\ \A n \in 1..Len(request) :
              Cardinality(BoolsUpTo(n)) = Cardinality(BoolsUpTo(n - 1))
                                            + (IF request[n].type = "bool" THEN 1 ELSE 0)
         /\ Bools # {} => Cardinality(Bools) >= 1
  <1>1. Len(request) \in Nat /\ DOMAIN request = 1..Len(request)
    BY RequestFacts
  <1>2. BoolsUpTo(0) = {}
    BY DEF BoolsUpTo
  <1>3. BoolsUpTo(Len(request)) = Bools
    BY <1>1 DEF BoolsUpTo, Bools
  <1>4. ASSUME NEW n \in 0..Len(request)
        PROVE  IsFiniteSet(BoolsUpTo(n)) /\ Cardinality(BoolsUpTo(n)) \in Nat
    <2>1. n \in Int /\ 1 \in Int
      BY <1>1
    <2>2. IsFiniteSet(1..n)
      BY <2>1, FS_Interval
    <2>3. BoolsUpTo(n) \in SUBSET (1..n)
      BY DEF BoolsUpTo
    <2>4. IsFiniteSet(BoolsUpTo(n))
      BY <2>2, <2>3, FS_Subset
    <2>5. QED
      BY <2>4, FS_CardinalityType
  <1>5. ASSUME NEW n \in 1..Len(request)
        PROVE  Cardinality(BoolsUpTo(n)) = Cardinality(BoolsUpTo(n - 1))
                                             + (IF request[n].type = "bool" THEN 1 ELSE 0)
    <2>1. n - 1 \in 0..Len(request) /\ n \in Nat
      BY <1>1
    <2>2. IsFiniteSet(BoolsUpTo(n - 1)) /\ Cardinality(BoolsUpTo(n - 1)) \in Nat
      BY <1>4, <2>1
    <2>3. CASE request[n].type = "bool"
      <3>1. BoolsUpTo(n) = BoolsUpTo(n - 1) \cup {n}
        BY <2>1, <2>3 DEF BoolsUpTo
      <3>2. n \notin BoolsUpTo(n - 1)
        BY <2>1 DEF BoolsUpTo
      <3>3. QED
        BY <2>2, <2>3, <3>1, <3>2, FS_AddElement
    <2>4. CASE request[n].type # "bool"
      <3>1. BoolsUpTo(n) = BoolsUpTo(n - 1)
        BY <2>1, <2>4 DEF BoolsUpTo
      <3>2. QED
        BY <2>2, <2>4, <3>1
    <2>5. QED
      BY <2>3, <2>4
  <1>6. Bools # {} => Cardinality(Bools) >= 1
    <2>1. Len(request) \in 0..Len(request)
      BY <1>1
    <2>2. IsFiniteSet(Bools) /\ Cardinality(Bools) \in Nat
      BY <1>3, <1>4, <2>1
    <2>3. Cardinality(Bools) = 0 <=> Bools = {}
      BY <2>2, FS_EmptySet
    <2>4. QED
      BY <2>2, <2>3
  <1>7. QED
    BY <1>2, <1>3, <1>4, <1>5, <1>6

(* What an argument adds to the buffer is its size, and nothing if it is a *)
(* bool.                                                                   *)
LEMMA SerializedLength ==
  ASSUME RequestsFit, GivenOK, NEW i \in 1..Len(request)
  PROVE  Len(Serialized(Fields[i + 2]))
           = IF request[i].type = "bool" THEN 0 ELSE Size(request[i])
  <1> DEFINE f == request[i]
  <1>1. Len(request) \in Nat /\ f \in Values /\ U32 \in Nat \ {0}
    BY RequestFacts, U32Positive
  <1>2. i + 2 \in 3..Len(request) + 2 /\ (i + 2) - 2 = i
    BY <1>1
  <1>3. Fields[i + 2] = f
    BY <1>2, FieldFacts
  <1>4. f.type \in {"int32", "bool", "string"}
    BY <1>1 DEF Values
  <1>5. CASE f.type = "int32"
    <2>1. f.value \in -(U32 \div 2)..(U32 \div 2) - 1
      BY <1>1, <1>5 DEF Values
    <2>2. Bits(f.value) \in 0..U32 - 1
      BY <2>1, SignArrives
    <2>3. Serialized(f) = Packed(Bits(f.value))
      BY <1>5 DEF Serialized
    <2>4. Len(Serialized(f)) = Word
      BY <2>2, <2>3, PackedFacts
    <2>5. QED
      BY <1>3, <1>5, <2>4 DEF Size
  <1>6. CASE f.type = "bool"
    <2>1. Serialized(f) = <<>>
      BY <1>6 DEF Serialized
    <2>2. QED
      BY <1>3, <1>6, <2>1
  <1>7. CASE f.type = "string"
    <2>1. f.value \in Seq(Bytes) /\ Len(f.value) \in Nat
      BY <1>1, <1>7, LenProperties DEF Values
    <2>2. Size(f) = Word + Len(f.value)
      BY <1>7 DEF Size
    <2>3. Len(f.value) < U32
      <3>1. Word + Size(f) <= SumOfSizes(request) /\ SumOfSizes(request) \in Nat
        BY SizeFacts
      <3>2. Word + SumOfSizes(request) < U32
        BY DEF RequestsFit, GivenOK
      <3>3. QED
        BY <1>1, <2>1, <2>2, <3>1, <3>2 DEF Word
    <2>4. Len(f.value) % U32 = Len(f.value)
      BY <1>1, <2>1, <2>3, RemainderBelow
    <2>5. SubSeq(f.value, 1, Len(f.value)) = f.value
      BY <2>1, SubSeqFull
    <2>6. Serialized(f) = Packed(Len(f.value)) \o f.value
      BY <1>7, <2>4, <2>5 DEF Serialized
    <2>7. Packed(Len(f.value)) \in Seq(Bytes) /\ Len(Packed(Len(f.value))) = Word
      BY <1>1, <2>1, <2>3, PackedFacts
    <2>8. Len(Serialized(f)) = Word + Len(f.value)
      BY <2>1, <2>6, <2>7, ConcatProperties
    <2>9. QED
      BY <1>3, <1>7, <2>2, <2>8
  <1>8. QED
    BY <1>4, <1>5, <1>6, <1>7

LEMMA LengthInit == Init => LengthInv /\ BoolInv
  <1>1. Init => next = 0 /\ Len(buffer) = 0 /\ decoded = <<>>
    BY DEF Init
  <1>2. QED
    BY <1>1 DEF LengthInv, BoolInv

LEMMA LengthStep ==
  ASSUME RequestsFit, StreamInv, LengthInv, [Next]_vars
  PROVE  LengthInv'
  <1>1. GivenOK /\ LengthsOK
    BY DEF StreamInv
  <1>2. request' = request /\ SizeUpTo(request)' = SizeUpTo(request)
        /\ \A n : BoolsUpTo(n)' = BoolsUpTo(n)
    <2>1. request' = request
      BY <1>1, GivenStays
    <2>2. QED
      BY <2>1 DEF SizeUpTo, BoolsUpTo
  <1>3. CASE Serialize
    <2> DEFINE bytes == Serialized(Fields[next + 1])
    <2>1. next < Len(Fields) /\ next' = next + 1 /\ buffer' = buffer \o bytes
      BY <1>3 DEF Serialize
    <2>2. next \in Nat /\ Len(Fields) = Len(request) + 2 /\ Len(request) \in Nat
          /\ Len(buffer) \in Nat /\ next + 1 \in 1..Len(Fields) /\ Word = 4
      BY <1>1, <2>1, LengthTypes, RequestFacts, FieldFacts
    <2>3. bytes \in Seq(Out) /\ (next = 0 => Len(bytes) = Word)
      BY <1>1, <2>2, SerializedFacts
    <2>4. next = 1 => Len(bytes) = Word
      <3>1. next = 1 => bytes = Packed(method_id)
        BY <1>1, FieldFacts DEF Serialized
      <3>2. QED
        BY <1>1, <3>1, RequestFacts, PackedFacts
    <2> HIDE DEF bytes
    <2>5. Len(buffer') = Len(buffer) + Len(bytes) /\ Len(bytes) \in Nat
      BY <1>1, <2>1, <2>3, ConcatProperties, LenProperties DEF LengthsOK
    <2>6. CASE next = 0
      <3>1. next' = 1 /\ Len(buffer') = Word
        BY <2>1, <2>2, <2>3, <2>5, <2>6 DEF LengthInv
      <3>2. QED
        BY <3>1 DEF LengthInv
    <2>7. CASE next = 1
      <3>0. Len(buffer) = Word
        BY <2>7 DEF LengthInv
      <3>1. next' = 2 /\ Len(buffer') = Word + Word
        BY <2>1, <2>2, <2>4, <2>5, <2>7, <3>0
      <3>2. Cardinality(BoolsUpTo(0)) = 0 /\ SizeUpTo(request)[0] = Word
        BY <1>1, BoolFacts, SizeFacts, FS_EmptySet
      <3>3. next' - 2 = 0
        BY <3>1
      <3>4. QED
        BY <1>2, <2>2, <3>1, <3>2, <3>3 DEF LengthInv
    <2>8. CASE next >= 2
      <3>1. PICK n \in Nat : n = next - 1
        BY <2>2, <2>8
      <3>2. n \in 1..Len(request) /\ next + 1 = n + 2 /\ next - 2 = n - 1 /\ next' - 2 = n
            /\ n - 1 \in 0..Len(request) /\ n \in 0..Len(request) /\ next' >= 2 /\ next' # 0 /\ next' # 1
        BY <2>1, <2>2, <2>8, <3>1
      <3>3. Len(bytes) = IF request[n].type = "bool" THEN 0 ELSE Size(request[n])
        BY <1>1, <3>2, SerializedLength DEF bytes
      <3>4. /\ SizeUpTo(request)[n] = SizeUpTo(request)[n - 1] + Size(request[n])
            /\ SizeUpTo(request)[n - 1] \in Nat /\ Size(request[n]) \in Nat
            /\ (request[n].type = "bool" => Size(request[n]) = Word)
        BY <1>1, <3>2, SizeFacts DEF Size
      <3>5. /\ Cardinality(BoolsUpTo(n)) = Cardinality(BoolsUpTo(n - 1))
                                              + (IF request[n].type = "bool" THEN 1 ELSE 0)
            /\ Cardinality(BoolsUpTo(n - 1)) \in Nat
        BY <1>1, <3>2, BoolFacts
      <3>6. Len(buffer) + Word * Cardinality(BoolsUpTo(n - 1)) = Word + SizeUpTo(request)[n - 1]
        BY <2>8, <3>2 DEF LengthInv
      <3>7. Len(buffer') + Word * Cardinality(BoolsUpTo(n)) = Word + SizeUpTo(request)[n]
        <4>1. PICK b, c, s \in Nat : b = Cardinality(BoolsUpTo(n - 1)) /\ s = SizeUpTo(request)[n - 1]
                                     /\ c = Size(request[n])
          BY <3>4, <3>5
        <4>2. CASE request[n].type = "bool"
          <5>1. Cardinality(BoolsUpTo(n)) = b + 1 /\ SizeUpTo(request)[n] = s + 4
                /\ Len(buffer') = Len(buffer)
            BY <2>2, <2>5, <3>3, <3>4, <3>5, <4>1, <4>2
          <5>2. Len(buffer) + 4 * b = 4 + s
            BY <2>2, <3>6, <4>1
          <5>3. PICK m \in Nat : m = Len(buffer)
            BY <2>2
          <5>4. m + 4 * (b + 1) = 4 + (s + 4)
            BY <5>2, <5>3
          <5>5. QED
            BY <2>2, <5>1, <5>3, <5>4
        <4>3. CASE request[n].type # "bool"
          <5>1. Cardinality(BoolsUpTo(n)) = b /\ SizeUpTo(request)[n] = s + c
                /\ Len(buffer') = Len(buffer) + c
            BY <2>2, <2>5, <3>3, <3>4, <3>5, <4>1, <4>3
          <5>2. Len(buffer) + 4 * b = 4 + s
            BY <2>2, <3>6, <4>1
          <5>3. PICK m \in Nat : m = Len(buffer)
            BY <2>2
          <5>4. (m + c) + 4 * b = 4 + (s + c)
            BY <5>2, <5>3
          <5>5. QED
            BY <2>2, <5>1, <5>3, <5>4
        <4>4. QED
          BY <4>2, <4>3
      <3>8. QED
        BY <1>2, <3>2, <3>7 DEF LengthInv
    <2>9. next = 0 \/ next = 1 \/ next >= 2
      BY <2>2
    <2>10. QED
      BY <2>6, <2>7, <2>8, <2>9
  <1>4. CASE next' = next /\ buffer' = buffer
    BY <1>2, <1>4 DEF LengthInv
  <1>5. QED
    BY <1>3, <1>4 DEF Next, Client, Server, Send, RecvHeader, RecvPayload, Deserialize, vars,
                      clientVars

(* What the prefix says of the bytes behind it.                            *)
Overcounted ==
  next = Len(Fields) => total_len = Len(buffer) - Word + Word * Cardinality(Bools)

(* A request that fits makes a buffer that fits, of the length announced.  *)
LEMMA BufferFits ==
  ASSUME RequestsFit, StreamInv, LengthInv
  PROVE  /\ Len(buffer) < U32 /\ total_len = SumOfSizes(request) /\ total_len \in 0..U32 - 1
         /\ Overcounted
  <1>1. GivenOK /\ LengthsOK
    BY DEF StreamInv
  <1>2. /\ next \in 0..Len(Fields) /\ Len(Fields) = Len(request) + 2 /\ Len(request) \in Nat
        /\ Len(buffer) \in Nat /\ Word = 4 /\ U32 \in Nat \ {0}
    BY <1>1, LengthTypes, RequestFacts, FieldFacts DEF LengthsOK
  <1>3. /\ SumOfSizes(request) \in Nat /\ Word + SumOfSizes(request) < U32
        /\ \A i \in 1..Len(request) : /\ SizeUpTo(request)[i] <= SumOfSizes(request)
                                      /\ Word + Size(request[i]) <= SumOfSizes(request)
                                      /\ Size(request[i]) \in Nat
        /\ SizeUpTo(request)[0] = Word /\ \A i \in 0..Len(request) : SizeUpTo(request)[i] \in Nat
    <2>1. Word + SumOfSizes(request) < U32
      BY <1>1 DEF RequestsFit, GivenOK
    <2>2. QED
      BY <1>1, <2>1, SizeFacts
  <1>4. Word <= SumOfSizes(request)
    <2>1. CASE Len(request) = 0
      BY <1>3, <2>1 DEF SumOfSizes, Word
    <2>2. CASE Len(request) # 0
      <3>1. 1 \in 1..Len(request)
        BY <1>2, <2>2
      <3>2. QED
        BY <1>2, <1>3, <3>1
    <2>3. QED
      BY <2>1, <2>2
  <1>5. total_len = SumOfSizes(request) /\ total_len \in 0..U32 - 1
    <2>1. SumOfSizes(request) < U32
      BY <1>2, <1>3
    <2>2. SumOfSizes(request) % U32 = SumOfSizes(request)
      BY <1>2, <1>3, <2>1, RemainderBelow
    <2>3. QED
      BY <1>2, <1>3, <2>1, <2>2 DEF total_len
  <1>6. CASE next < 2
    <2>0. next = 0 \/ next = 1
      BY <1>2, <1>6
    <2>1. Len(buffer) = 0 \/ Len(buffer) = Word
      BY <2>0 DEF LengthInv
    <2>2. Len(buffer) < U32
      <3>1. PICK u \in Nat : u = U32
        BY <1>2
      <3>2. PICK s \in Nat : s = SumOfSizes(request)
        BY <1>3
      <3>3. 4 + s < u
        BY <1>2, <1>3, <3>1, <3>2
      <3>4. 4 < u
        BY <3>1, <3>2, <3>3
      <3>5. Len(buffer) < u
        <4>1. 0 < u /\ Word < u
          BY <3>1, <3>4 DEF Word
        <4>2. QED
          BY <2>1, <4>1
      <3>6. QED
        BY <3>1, <3>5
    <2>3. next # Len(Fields)
      BY <1>2, <1>6
    <2>4. QED
      BY <1>5, <2>2, <2>3 DEF Overcounted
  <1>7. CASE next >= 2
    <2>1. PICK n \in Nat : n = next - 2
      BY <1>2, <1>7
    <2>2. n \in 0..Len(request)
      BY <1>2, <2>1
    <2>3. PICK b \in Nat : b = Cardinality(BoolsUpTo(n))
      BY <1>1, <2>2, BoolFacts
    <2>4. PICK s \in Nat : s = SizeUpTo(request)[n]
      BY <1>3, <2>2
    <2>5. Len(buffer) + Word * b = Word + s
      BY <1>7, <2>1, <2>3, <2>4 DEF LengthInv
    <2>6. s <= SumOfSizes(request)
      <3>1. CASE n = 0
        BY <1>3, <1>4, <2>4, <3>1
      <3>2. CASE n # 0
        <4>1. n \in 1..Len(request)
          BY <1>2, <2>2, <3>2
        <4>2. QED
          BY <1>3, <2>4, <4>1
      <3>3. QED
        BY <3>1, <3>2
    <2>7. Len(buffer) < U32
      BY <1>2, <1>3, <2>5, <2>6
    <2>8. ASSUME next = Len(Fields)
          PROVE  total_len = Len(buffer) - Word + Word * Cardinality(Bools)
      <3>1. n = Len(request)
        BY <1>2, <2>1, <2>8
      <3>2. s = total_len /\ b = Cardinality(Bools)
        BY <1>1, <1>5, <2>3, <2>4, <3>1, BoolFacts DEF SumOfSizes
      <3>3. QED
        BY <1>2, <2>5, <3>2
    <2>9. QED
      BY <1>5, <2>7, <2>8 DEF Overcounted
  <1>8. QED
    BY <1>2, <1>6, <1>7

(* The length the server has received is the one the client announced.     *)
LEMMA HeaderArrives ==
  ASSUME RequestsFit, StreamInv, FieldInv, LengthInv, Len(header) = Word
  PROVE  next = Len(Fields) /\ payload_length = total_len
  <1>1. GivenOK /\ LengthsOK /\ ReceivedOK /\ SentOK
    BY DEF StreamInv
  <1>2. Len(buffer) < U32 /\ total_len \in 0..U32 - 1
    BY BufferFits
  <1>3. taken >= 4 /\ taken <= Len(onwire) /\ Len(onwire) \in Nat /\ Len(onwire) >= 4 /\ Word = 4
        /\ Len(Fields) \in Nat
    BY <1>1, LengthTypes DEF LengthsOK
  <1>4. next = Len(Fields)
    <2>1. onwire # <<>>
      BY <1>3
    <2>2. QED
      BY <1>1, <1>3, <2>1, LengthTypes DEF LengthsOK
  <1>5. PICK cut : FieldsLie(cut)
    BY DEF FieldInv
  <1>6. Len(Fields) >= 2
    BY <1>1, RequestFacts, FieldFacts
  <1>7. Serialized(Fields[1]) = Packed(total_len)
    BY <1>1, FieldFacts DEF Serialized
  <1>8. Packed(total_len) \in Seq(Out) /\ Len(Packed(total_len)) = 4
    BY <1>1, <1>2, <1>3, PackedFacts
  <1>9. ASSUME NEW i \in 1..4
        PROVE  header[i] = Packed(total_len)[i]
    <2>1. header[i] = onwire[i] /\ onwire[i] = buffer[i]
      BY <1>1, <1>2, <1>3 DEF ReceivedOK, SentOK
    <2>2. 1 \in 1..next /\ 1 - 1 = 0
      BY <1>4, <1>6
    <2>3. /\ cut[0] = 0
          /\ \A j \in 1..Len(Serialized(Fields[1])) : buffer[cut[1 - 1] + j] = Serialized(Fields[1])[j]
      BY <1>5, <2>2 DEF FieldsLie
    <2>4. buffer[0 + i] = Packed(total_len)[i]
      BY <1>7, <1>8, <2>2, <2>3
    <2>5. QED
      BY <2>1, <2>4
  <1>10. header = Packed(total_len)
    BY <1>1, <1>3, <1>8, <1>9, SeqEqual DEF LengthsOK
  <1>11. QED
    BY <1>1, <1>2, <1>4, <1>10, PackedFacts DEF payload_length

LEMMA BoolStep ==
  ASSUME RequestsFit, StreamInv, FieldInv, LengthInv, BoolInv, [Next]_vars
  PROVE  BoolInv'
  <1>1. GivenOK /\ LengthsOK /\ SentOK
    BY DEF StreamInv
  <1>2. Bools' = Bools
    BY <1>1, GivenStays DEF Bools
  <1>3. CASE Deserialize
    <2> SUFFICES ASSUME Bools # {}
                 PROVE  FALSE
      BY <1>2 DEF BoolInv
    <2>1. Len(header) = Word /\ Len(payload) = payload_length
      BY <1>3 DEF Deserialize
    <2>2. next = Len(Fields) /\ Len(payload) = total_len
      BY <2>1, HeaderArrives
    <2>3. Len(buffer) < U32 /\ total_len = Len(buffer) - Word + Word * Cardinality(Bools)
      BY <2>2, BufferFits DEF Overcounted
    <2>4. Word + Len(payload) <= Len(buffer)
      BY <1>1, <2>1, <2>3, LengthTypes DEF LengthsOK, SentOK
    <2>5. Len(request) \in 0..Len(request)
      BY <1>1, RequestFacts
    <2>6. Cardinality(Bools) \in Nat /\ Cardinality(Bools) >= 1
      BY <1>1, <2>5, BoolFacts
    <2>7. QED
      BY <2>2, <2>3, <2>4, <2>6, LengthTypes
  <1>4. CASE decoded' = decoded
    BY <1>2, <1>4 DEF BoolInv
  <1>5. QED
    BY <1>3, <1>4 DEF Next, Client, Server, Serialize, Send, RecvHeader, RecvPayload, vars,
                      serverVars

WireInv == StreamInv /\ FieldInv /\ LengthInv /\ BoolInv

LEMMA WireInvariant ==
  ASSUME RequestsFit
  PROVE  Spec => []WireInv
  <1>1. Init => WireInv
    BY StreamInit, FieldInit, LengthInit DEF WireInv
  <1>2. WireInv /\ [Next]_vars => WireInv'
    <2> SUFFICES ASSUME WireInv, [Next]_vars
                 PROVE  WireInv'
      OBVIOUS
    <2>1. StreamInv /\ FieldInv /\ LengthInv /\ BoolInv
      BY DEF WireInv
    <2>2. StreamInv'
      BY <2>1, StreamStep
    <2>3. FieldInv'
      BY <2>1, FieldStep
    <2>4. LengthInv'
      BY <2>1, LengthStep
    <2>5. BoolInv'
      BY <2>1, BoolStep
    <2>6. QED
      BY <2>2, <2>3, <2>4, <2>5 DEF WireInv
  <1>3. QED
    BY <1>1, <1>2, PTL DEF Spec

(* How far the prefix is off, for any number of arguments of any length:   *)
(* generate_total_len counts a word for each bool and nothing is sent for  *)
(* it, so the server waits for bytes the client never sends.               *)
THEOREM WireBoolsOvercounted ==
  ASSUME RequestsFit
  PROVE  Spec => []Overcounted
  <1>1. WireInv => Overcounted
    BY BufferFits DEF WireInv
  <1>2. QED
    BY <1>1, WireInvariant, PTL

(* The prefix of every request without a bool is the number of bytes that  *)
(* follow it, for any number of integers and strings of any length.        *)
THEOREM WirePrefixExact ==
  ASSUME RequestsFit
  PROVE  Spec => []PrefixExact
  <1>1. WireInv => PrefixExact
    <2> SUFFICES ASSUME WireInv, Bools = {}, next = Len(Fields)
                 PROVE  total_len = Len(buffer) - Word
      BY DEF PrefixExact, PrefixDescribes
    <2>1. StreamInv /\ LengthInv /\ LengthsOK
      BY DEF WireInv, StreamInv
    <2>2. total_len = Len(buffer) - Word + Word * Cardinality(Bools)
      BY <2>1, BufferFits DEF Overcounted
    <2>3. Cardinality(Bools) = 0
      BY FS_EmptySet
    <2>4. Len(buffer) \in Nat /\ Word = 4
      BY <2>1, LengthTypes DEF LengthsOK
    <2>5. QED
      BY <2>2, <2>3, <2>4
  <1>2. QED
    BY <1>1, WireInvariant, PTL

(* The values the client's caller passed are the values the server         *)
(* deserialises, in order and sign included, whatever the byte order of    *)
(* either machine; of a request with a bool it deserialises nothing.       *)
THEOREM WireRoundTrip ==
  ASSUME RequestsFit
  PROVE  Spec => []RoundTrip
  <1>1. WireInv => RoundTrip
    <2> SUFFICES ASSUME WireInv
                 PROVE  RoundTrip
      OBVIOUS
    <2>1. StreamInv /\ FieldInv /\ LengthInv /\ BoolInv /\ GivenOK
      BY DEF WireInv, StreamInv
    <2>2. Len(buffer) < U32
      BY <2>1, BufferFits
    <2>3. CASE Bools = {}
      <3>1. ASSUME NEW i \in DOMAIN request, request[i].type = "string"
            PROVE  Len(request[i].value) < U32
        <4>1. i \in 1..Len(request) /\ request[i] \in Values
          BY <2>1, RequestFacts
        <4>2. request[i].value \in Seq(Bytes)
          BY <3>1, <4>1 DEF Values
        <4>3. Word + Size(request[i]) <= SumOfSizes(request) /\ SumOfSizes(request) \in Nat
              /\ Word + SumOfSizes(request) < U32
          BY <2>1, <4>1, SizeFacts DEF RequestsFit, GivenOK
        <4>4. Size(request[i]) = Word + Len(request[i].value)
          BY <3>1 DEF Size
        <4>5. QED
          BY <4>2, <4>3, <4>4, LenProperties, U32Positive DEF Word
      <3>2. Sendable
        BY <2>3, <3>1 DEF Sendable
      <3>3. QED
        BY <2>1, <2>2, <3>2, FieldsGiveRoundTrip
    <2>4. CASE Bools # {}
      <3>1. decoded = <<>>
        BY <2>1, <2>4 DEF BoolInv
      <3>2. Len(Fields) >= 2 /\ Len(Fields) \in Nat
        BY <2>1, RequestFacts, FieldFacts
      <3>3. IsPrefix(<<>>, Tail(Fields))
        <4>1. Fields # <<>> /\ Fields \in Seq(Values \cup {Fields[1], Fields[2]})
          BY <2>1, <3>2, FieldFacts
        <4>2. Len(Tail(Fields)) = Len(Fields) - 1
          BY <4>1, HeadTailProperties
        <4>3. PICK n \in Nat : n = Len(Tail(Fields))
          BY <3>2, <4>2
        <4>4. Len(<<>>) = 0 /\ 0 <= n
          OBVIOUS
        <4>5. SubSeq(<<>>, 1, 0) = SubSeq(Tail(Fields), 1, 0)
          BY SubSeqEmpty
        <4>6. QED
          BY <4>3, <4>4, <4>5 DEF IsPrefix
      <3>4. QED
        BY <3>1, <3>3 DEF RoundTrip
    <2>5. QED
      BY <2>3, <2>4
  <1>2. QED
    BY <1>1, WireInvariant, PTL
=============================================================================
