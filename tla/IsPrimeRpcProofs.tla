---------------------------- MODULE IsPrimeRpcProofs ----------------------------
(* Theorems of IsPrimeRpc: for any number of clients, whatever they ask,   *)
(* however TCP cuts the four bytes up, and wherever clients die.           *)
EXTENDS IsPrimeRpc, SequenceTheorems, WellFoundedInduction, TLAPS

-----------------------------------------------------------------------------
(* Words, as in RpcWireProofs: the two modules have only Words in common.  *)

USE DEF Word

LEMMA Positive == ByteSize \in Nat \ {0}
BY ByteSizeAssumption

(* Division by a positive number, and the only way to write x = n * q + r. *)
LEMMA Division ==
  ASSUME NEW n \in Nat \ {0}, NEW x \in Int
  PROVE  x = n * (x \div n) + (x % n) /\ x % n \in 0..n - 1 /\ x \div n \in Int
OBVIOUS

LEMMA OnlyDivision ==
  ASSUME NEW n \in Nat \ {0}, NEW q \in Int, NEW r \in 0..n - 1
  PROVE  (n * q + r) \div n = q /\ (n * q + r) % n = r
OBVIOUS

LEMMA QuotientBelow ==
  ASSUME NEW n \in Nat \ {0}, NEW m \in Nat, NEW x \in Nat, x < n * m
  PROVE  x \div n \in 0..m - 1
OBVIOUS

LEMMA RemainderOfSmall ==
  ASSUME NEW n \in Nat \ {0}, NEW x \in Int, -n <= x, x < n
  PROVE  x % n = IF x < 0 THEN x + n ELSE x
<1>1. x < 0 => x % n = x + n  OBVIOUS
<1>2. x >= 0 => x % n = x  OBVIOUS
<1> QED  BY <1>1, <1>2

LEMMA ByteOfByte ==
  ASSUME NEW d \in Bytes
  PROVE  d % ByteSize = d
<1>1. d \in Int /\ -ByteSize <= d /\ d < ByteSize /\ ~(d < 0)  BY Positive DEF Bytes
<1> QED  BY <1>1, Positive, RemainderOfSmall

LEMMA AppendDigit ==
  ASSUME NEW v \in Nat, NEW d \in Bytes
  PROVE  /\ v * ByteSize + d \in Nat
         /\ (v * ByteSize + d) \div ByteSize = v
         /\ (v * ByteSize + d) % ByteSize = d
         /\ \A m \in Nat : v < m => v * ByteSize + d < m * ByteSize
<1> DEFINE n == ByteSize
<1>1. n \in Nat \ {0} /\ d \in 0..n - 1  BY Positive DEF Bytes
<1>2. v * ByteSize + d = n * v + d  BY <1>1
<1>3. (n * v + d) \div n = v /\ (n * v + d) % n = d
  <2> HIDE DEF n
  <2> QED  BY <1>1, OnlyDivision
<1>4. ASSUME NEW m \in Nat, v < m  PROVE  n * v + d < m * n
  <2>1. v + 1 <= m  BY <1>4
  <2> HIDE DEF n
  <2>2. n * (v + 1) <= n * m  BY <1>1, <2>1
  <2>3. n * (v + 1) = n * v + n /\ n * m = m * n  BY <1>1
  <2> QED  BY <1>1, <2>2, <2>3
<1>5. n * v + d \in Nat
  <2> HIDE DEF n
  <2> QED  BY <1>1
<1> QED  BY <1>2, <1>3, <1>4, <1>5

(* Four bytes are the digits of the word they make.                        *)
LEMMA WordOfDigits ==
  ASSUME NEW a \in Bytes, NEW b \in Bytes, NEW c \in Bytes, NEW d \in Bytes
  PROVE  /\ FromBigEndian(<<a, b, c, d>>) \in 0..U32 - 1
         /\ BigEndian(FromBigEndian(<<a, b, c, d>>)) = <<a, b, c, d>>
<1> DEFINE n == ByteSize
           v1 == a
           v2 == v1 * n + b
           v3 == v2 * n + c
           v4 == v3 * n + d
<1>1. n \in Nat \ {0} /\ v1 \in Nat /\ v1 < n  BY Positive DEF Bytes
<1>2. v2 \in Nat /\ v2 \div n = v1 /\ v2 % n = b /\ v2 < n * n
  BY <1>1, AppendDigit
<1>3. n * n \in Nat /\ n * n * n \in Nat /\ n * n * n * n \in Nat  BY <1>1
<1>4. v3 \in Nat /\ v3 \div n = v2 /\ v3 % n = c /\ v3 < n * n * n
  <2> HIDE DEF v2
  <2> QED  BY <1>2, <1>3, AppendDigit
<1>5. v4 \in Nat /\ v4 \div n = v3 /\ v4 % n = d /\ v4 < n * n * n * n
  <2> HIDE DEF v3
  <2> QED  BY <1>3, <1>4, AppendDigit
<1>6. FromBigEndian(<<a, b, c, d>>) = v4  BY DEF FromBigEndian
<1>7. v4 \in 0..U32 - 1
  <2> HIDE DEF v4
  <2> QED  BY <1>3, <1>5 DEF U32
<1>8. a % n = a  BY ByteOfByte
<1>9. BigEndian(v4) = <<a, b, c, d>>
  <2>1. Quotients(v4) = <<v3, v2, v1>>
    <3> HIDE DEF v1, v2, v3, v4
    <3> QED  BY <1>2, <1>4, <1>5 DEF Quotients
  <2> HIDE DEF v2, v3, v4
  <2> QED  BY <2>1, <1>2, <1>4, <1>5, <1>8 DEF BigEndian
<1> QED  BY <1>6, <1>7, <1>9

(* The four digits of a word are bytes and give the word back.             *)
LEMMA DigitsOfWord ==
  ASSUME NEW v \in 0..U32 - 1
  PROVE  /\ \A i \in 1..Word : BigEndian(v)[i] \in Bytes
         /\ BigEndian(v) = <<BigEndian(v)[1], BigEndian(v)[2], BigEndian(v)[3], BigEndian(v)[4]>>
         /\ FromBigEndian(BigEndian(v)) = v
<1> DEFINE n == ByteSize
           q1 == v \div n
           q2 == q1 \div n
           q3 == q2 \div n
<1>1. n \in Nat \ {0} /\ n * n \in Nat /\ n * n * n \in Nat  BY Positive
<1>2. n * n * n * n = n * (n * n * n) /\ n * n * n = n * (n * n)  BY <1>1
<1>3. v \in Nat /\ v < n * (n * n * n)
  <2>1. U32 = n * n * n * n /\ U32 \in Nat  BY <1>1 DEF U32
  <2> QED  BY <1>2, <2>1
<1>4. q1 \in Nat /\ q1 < n * (n * n)
  <2>1. q1 \in 0..n * n * n - 1  BY <1>1, <1>3, QuotientBelow
  <2> HIDE DEF q1
  <2> QED  BY <1>1, <1>2, <2>1
<1>5. q2 \in Nat /\ q2 < n * n
  <2>1. q2 \in 0..n * n - 1
    <3> HIDE DEF q1
    <3> QED  BY <1>1, <1>4, QuotientBelow
  <2> HIDE DEF q2
  <2> QED  BY <1>1, <2>1
<1>6. q3 \in 0..n - 1
  <2> HIDE DEF q2
  <2> QED  BY <1>1, <1>5, QuotientBelow
<1>7. v = q1 * n + (v % n) /\ v % n \in Bytes
  BY <1>1, <1>3, Division DEF Bytes
<1>8. q1 = q2 * n + (q1 % n) /\ q1 % n \in Bytes
  <2> HIDE DEF q1
  <2> QED  BY <1>1, <1>4, Division DEF Bytes
<1>9. q2 = q3 * n + (q2 % n) /\ q2 % n \in Bytes
  <2> HIDE DEF q2
  <2> QED  BY <1>1, <1>5, Division DEF Bytes
<1>10. q3 % n = q3 /\ q3 \in Bytes
  <2> HIDE DEF q3
  <2> QED  BY <1>1, <1>6, RemainderOfSmall DEF Bytes
<1>11. BigEndian(v) = <<q3 % n, q2 % n, q1 % n, v % n>>
  BY DEF BigEndian, Quotients
<1> HIDE DEF q1, q2, q3
<1>12. FromBigEndian(BigEndian(v)) = v
  BY <1>7, <1>8, <1>9, <1>10, <1>11 DEF FromBigEndian
<1>13. \A i \in 1..Word : BigEndian(v)[i] \in Bytes
  BY <1>7, <1>8, <1>9, <1>10, <1>11
<1> QED  BY <1>11, <1>12, <1>13

LEMMA SwappedWord ==
  ASSUME NEW v \in 0..U32 - 1
  PROVE  /\ FromBigEndian(Swapped(BigEndian(v))) \in 0..U32 - 1
         /\ BigEndian(FromBigEndian(Swapped(BigEndian(v)))) = Swapped(BigEndian(v))
         /\ Swapped(Swapped(BigEndian(v))) = BigEndian(v)
<1> DEFINE b == BigEndian(v)
<1>1. b[1] \in Bytes /\ b[2] \in Bytes /\ b[3] \in Bytes /\ b[4] \in Bytes
  BY DigitsOfWord
<1>2. Swapped(b) = <<b[4], b[3], b[2], b[1]>>  BY DEF Swapped
<1>3. Swapped(Swapped(b)) = b  BY DigitsOfWord DEF Swapped
<1> HIDE DEF b
<1>4. FromBigEndian(Swapped(b)) \in 0..U32 - 1 /\ BigEndian(FromBigEndian(Swapped(b))) = Swapped(b)
  BY <1>1, <1>2, WordOfDigits
<1> QED  BY <1>3, <1>4 DEF b

(* What is packed is the word, its most significant byte first.            *)
LEMMA PackedIsBigEndian ==
  ASSUME NEW v \in 0..U32 - 1, NEW from \in Orders
  PROVE  InMemory(htonl(v, from), from) = BigEndian(v)
<1>1. CASE from = "big"
  BY <1>1, DigitsOfWord DEF InMemory, htonl, FromMemory
<1>2. CASE from = "little"
  BY <1>2, SwappedWord DEF InMemory, htonl, FromMemory
<1> QED  BY <1>1, <1>2 DEF Orders

(* htonl on one machine, ntohl on another: whatever the byte orders of the *)
(* two, the word deserialised is the word serialised.                      *)
LEMMA WordArrives ==
  ASSUME NEW v \in 0..U32 - 1, NEW from \in Orders, NEW to \in Orders
  PROVE  ntohl(FromMemory(InMemory(htonl(v, from), from), to), to) = v
<1>1. InMemory(htonl(v, from), from) = BigEndian(v)
  BY PackedIsBigEndian
<1>2. ntohl(FromMemory(BigEndian(v), to), to) = v
  <2>1. CASE to = "big"
    BY <2>1, DigitsOfWord DEF ntohl, InMemory, FromMemory
  <2>2. CASE to = "little"
    BY <2>2, SwappedWord, DigitsOfWord DEF ntohl, InMemory, FromMemory
  <2> QED  BY <2>1, <2>2 DEF Orders
<1> QED  BY <1>1, <1>2

LEMMA U32Positive == U32 \in Nat \ {0}
<1> DEFINE n == ByteSize
<1>1. n \in Nat \ {0}  BY Positive
<1>2. n * n \in Nat \ {0}  BY <1>1
<1>3. n * n * n \in Nat \ {0}  BY <1>1, <1>2
<1>4. n * n * n * n \in Nat \ {0}  BY <1>1, <1>3
<1> QED  BY <1>4 DEF U32

(* An int32_t copied into a uint32_t and back, as rpc_serialize_i32 and    *)
(* rpc_deserialize_i32 do, keeps its sign and its value.                   *)
LEMMA SignArrives ==
  ASSUME NEW v \in -(U32 \div 2)..(U32 \div 2) - 1
  PROVE  Bits(v) \in 0..U32 - 1 /\ Signed(Bits(v)) = v
<1> DEFINE half == U32 \div 2
<1>1. U32 \in Nat \ {0}  BY U32Positive
<1>2. half \in Nat /\ U32 = 2 * half
  <2> DEFINE k == ByteSize \div 2
             m == ByteSize * ByteSize * ByteSize
  <2>1. ByteSize = 2 * k /\ k \in Nat  BY ByteSizeAssumption
  <2>2. m \in Nat  BY Positive
  <2>3. U32 = m * ByteSize  BY DEF U32
  <2> HIDE DEF k, m
  <2>4. U32 = 2 * (m * k) /\ m * k \in Nat  BY <2>1, <2>2, <2>3
  <2> QED  BY <2>4
<1>3. v \in Int /\ -half <= v /\ v < half  BY <1>2
<1> HIDE DEF half
<1>4. v % U32 = IF v < 0 THEN v + U32 ELSE v
  <2>1. -U32 <= v /\ v < U32  BY <1>2, <1>3
  <2> QED  BY <1>1, <1>3, <2>1, RemainderOfSmall
<1>5. CASE v < 0
  BY <1>1, <1>2, <1>3, <1>4, <1>5 DEF Bits, Signed, half
<1>6. CASE v >= 0
  BY <1>1, <1>2, <1>3, <1>4, <1>6 DEF Bits, Signed, half
<1> QED  BY <1>3, <1>5, <1>6

HIDE DEF Word

-----------------------------------------------------------------------------
(* The least of a set of naturals. *)

LEMMA Least ==
  ASSUME NEW S \in SUBSET Nat, S # {}
  PROVE  \E m \in S : \A n \in S : m <= n
  <1>1. IsWellFoundedOn(OpToRel(<,Nat), Nat)
    BY NatLessThanWellFounded
  <1>2. PICK R : R = OpToRel(<,Nat)
    OBVIOUS
  <1>3. PICK x \in S : \A y \in S : ~ (<<y, x>> \in R)
    BY <1>1, <1>2, WFMin
  <1>4. \A y, z \in Nat : y < z => <<y, z>> \in R
    BY <1>2 DEF OpToRel
  <1>5. ASSUME NEW n \in S  PROVE  x <= n
    <2>1. n \in Nat /\ x \in Nat
      OBVIOUS
    <2>2. ~ (n < x)
      BY <1>3, <1>4, <2>1
    <2>3. QED
      BY <2>1, <2>2
  <1>6. QED
    BY <1>5

-----------------------------------------------------------------------------
(* Clients and their connections *)

Whole(c)  == InMemory(pack(num[c]), Order)
Serving   == spc \in {"recv", "send", "close"}
Queued(c) == \E i \in DOMAIN backlog : backlog[i] = c
Fresh(c)  == c \notin open /\ down[c] = <<>> /\ heard[c] = 0

-----------------------------------------------------------------------------
(* The inductive invariant *)

ServerOK ==
  /\ spc \in {"boot", "exited", "accept", "recv", "send", "close"}
  /\ open \subseteq Clients
  /\ IF Serving THEN new_fd \in open ELSE new_fd = NoConnection

QueueOK ==
  /\ backlog \in Seq(Clients)
  /\ \A i, j \in DOMAIN backlog : backlog[i] = backlog[j] => i = j

(* The connection served has no answer yet, and once its number has        *)
(* arrived whole it is what the buffer holds.                              *)
ServingOK ==
  /\ spc \in {"recv", "send"} => down[new_fd] = <<>>
  /\ spc = "recv" => heard[new_fd] = 0
  /\ spc = "send" /\ heard[new_fd] = Word => buffer = Whole(new_fd)

FieldsOK ==
  /\ cpc = [c \in Clients |-> cpc[c]] /\ num \in [Clients -> Numbers]
  /\ up = [c \in Clients |-> up[c]] /\ heard = [c \in Clients |-> heard[c]]
  /\ down = [c \in Clients |-> down[c]] /\ result = [c \in Clients |-> result[c]]

(* One client: it is served once, what it sent is its number, what it was  *)
(* sent is decided by that number, and what it returned by what it was     *)
(* sent.                                                                   *)
ClientOK(c) ==
  /\ Queued(c) \/ cpc[c] = "start" => Fresh(c)
  /\ ~ (Queued(c) /\ cpc[c] = "start")
  /\ heard[c] = 0 => up[c] \in {<<>>, Whole(c)}
  /\ c \in open /\ c # new_fd => down[c] = <<>>
  /\ heard[c] = Word /\ down[c] # <<>> => down[c] = <<is_prime(num[c])>>
  /\ cpc[c] = "done" => down[c] # <<>> /\ (down[c] = <<TRUE>> => result[c] = <<TRUE>>)

PInv == ServerOK /\ QueueOK /\ ServingOK /\ FieldsOK /\ \A c \in Clients : ClientOK(c)

-----------------------------------------------------------------------------
(* The four bytes *)

LEMMA WholeIsAWord ==
  ASSUME NEW c
  PROVE  \E S : Whole(c) \in Seq(S) /\ Len(Whole(c)) = Word
  <1>1. \E w, x, y, z : Whole(c) = <<w, x, y, z>>
    BY DEF Whole, InMemory, Swapped, BigEndian
  <1>2. PICK w, x, y, z : Whole(c) = <<w, x, y, z>>
    BY <1>1
  <1>3. Whole(c) \in Seq({w, x, y, z}) /\ Len(Whole(c)) = Word
    BY <1>2 DEF Word
  <1>4. QED
    BY <1>3

(* A recv that takes all four bytes leaves nothing of what the buffer held.*)
LEMMA FilledWhole ==
  ASSUME up[new_fd] = Whole(new_fd)
  PROVE  Len(up[new_fd]) = Word /\ up[new_fd] # <<>> /\ Filled(Word) = Whole(new_fd)
  <1> DEFINE s == Whole(new_fd)
  <1>1. PICK S : s \in Seq(S) /\ Len(s) = Word
    BY WholeIsAWord
  <1> HIDE DEF s
  <1>2. SubSeq(s, 1, Word) = s
    BY <1>1, SubSeqFull
  <1>3. SubSeq(buffer, Word + 1, Word) = <<>>
    BY SubSeqEmpty DEF Word
  <1>4. s \o <<>> = s
    BY <1>1, ConcatEmptySeq
  <1>5. up[new_fd] = s
    BY DEF s
  <1>6. Filled(Word) = s
    BY <1>2, <1>3, <1>4, <1>5 DEF Filled
  <1>7. s # <<>>
    <2>1. Len(s) # Len(<<>>)
      BY <1>1 DEF Word
    <2>2. QED
      BY <2>1
  <1>8. QED
    BY <1>1, <1>5, <1>6, <1>7 DEF s

(* The server unpacks the number the client packed.                        *)
LEMMA NumberArrives ==
  ASSUME NEW c \in Clients, num \in [Clients -> Numbers]
  PROVE  Signed(unpack(FromMemory(Whole(c), Order))) = num[c]
  <1>1. num[c] \in -(U32 \div 2)..(U32 \div 2) - 1 /\ Order \in Orders
    BY InputAssumption
  <1>2. Bits(num[c]) \in 0..U32 - 1 /\ Signed(Bits(num[c])) = num[c]
    BY <1>1, SignArrives
  <1>3. unpack(FromMemory(Whole(c), Order)) = Bits(num[c])
    BY <1>1, <1>2, WordArrives DEF unpack, pack, Whole
  <1>4. QED
    BY <1>2, <1>3

-----------------------------------------------------------------------------
(* The invariant holds at first. *)

LEMMA InitPInv == PrimeInit => PInv
  <1> SUFFICES ASSUME PrimeInit
               PROVE  PInv
    OBVIOUS
  <1>1. ServerOK /\ ServingOK
    BY DEF PrimeInit, ServerOK, ServingOK, Serving
  <1>2. QueueOK /\ DOMAIN backlog = {}
    BY DEF PrimeInit, QueueOK
  <1>3. FieldsOK
    BY DEF PrimeInit, FieldsOK
  <1>4. ASSUME NEW c \in Clients
        PROVE  ClientOK(c)
    BY <1>2 DEF PrimeInit, ClientOK, Queued, Fresh, Word
  <1>5. QED
    BY <1>1, <1>2, <1>3, <1>4 DEF PInv

-----------------------------------------------------------------------------
(* The client's steps *)

(* A client's step that leaves its queueing and its bytes alone.           *)
LEMMA QuietClient ==
  ASSUME PInv, NEW c \in Clients, NEW place,
         cpc' = [cpc EXCEPT ![c] = place], place # "start", place # "done",
         UNCHANGED <<spc, new_fd, buffer, open, backlog, up, heard, down, num, result>>
  PROVE  PInv'
  <1>1. ServerOK' /\ QueueOK' /\ ServingOK'
    BY DEF PInv, ServerOK, QueueOK, ServingOK, Serving, Whole
  <1>2. /\ FieldsOK'
        /\ \A d \in Clients : cpc'[d] = IF d = c THEN place ELSE cpc[d]
    BY DEF PInv, FieldsOK
  <1>3. ASSUME NEW d \in Clients
        PROVE  ClientOK(d)'
    <2>1. Queued(d)' = Queued(d) /\ Fresh(d)' = Fresh(d) /\ Whole(d)' = Whole(d)
      BY DEF Queued, Fresh, Whole
    <2>2. cpc'[d] = cpc[d] \/ cpc'[d] \notin {"start", "done"}
      BY <1>2
    <2>3. QED
      BY <2>1, <2>2 DEF PInv, ClientOK
  <1>4. QED
    BY <1>1, <1>2, <1>3 DEF PInv

LEMMA ConnectPInv ==
  ASSUME PInv, NEW c \in Clients, Connect(c)
  PROVE  PInv'
  <1>1. /\ cpc[c] = "start" /\ cpc' = [cpc EXCEPT ![c] = "send"]
        /\ backlog' = Append(backlog, c)
        /\ UNCHANGED <<spc, new_fd, buffer, open, up, heard, down, num, result>>
    BY DEF Connect
  <1>2. Fresh(c) /\ ~ Queued(c)
    BY <1>1 DEF PInv, ClientOK
  <1>3. /\ backlog \in Seq(Clients) /\ backlog' \in Seq(Clients)
        /\ Len(backlog') = Len(backlog) + 1 /\ Len(backlog) \in Nat
        /\ DOMAIN backlog = 1 .. Len(backlog) /\ DOMAIN backlog' = 1 .. Len(backlog) + 1
        /\ \A i \in DOMAIN backlog : backlog'[i] = backlog[i]
        /\ backlog'[Len(backlog) + 1] = c
    BY <1>1, AppendProperties, LenProperties DEF PInv, QueueOK
  <1>4. \A i \in DOMAIN backlog' : i \in DOMAIN backlog \/ i = Len(backlog) + 1
    BY <1>3
  <1>5. QueueOK'
    <2>1. ASSUME NEW i \in DOMAIN backlog', NEW j \in DOMAIN backlog', backlog'[i] = backlog'[j]
          PROVE  i = j
      <3>1. \A k \in DOMAIN backlog : backlog[k] # c
        BY <1>2 DEF Queued
      <3>2. QED
        BY <1>3, <1>4, <2>1, <3>1 DEF PInv, QueueOK
    <2>2. QED
      BY <1>3, <2>1 DEF QueueOK
  <1>6. ServerOK' /\ ServingOK'
    BY <1>1 DEF PInv, ServerOK, ServingOK, Serving, Whole
  <1>7. FieldsOK' /\ \A d \in Clients : cpc'[d] = IF d = c THEN "send" ELSE cpc[d]
    BY <1>1 DEF PInv, FieldsOK
  <1>8. \A d : Queued(d)' <=> Queued(d) \/ d = c
    <2>1. Len(backlog) + 1 \in DOMAIN backlog' /\ DOMAIN backlog \subseteq DOMAIN backlog'
      BY <1>3
    <2>2. QED
      BY <1>3, <1>4, <2>1 DEF Queued
  <1>9. ASSUME NEW d \in Clients
        PROVE  ClientOK(d)'
    <2>1. Fresh(d)' = Fresh(d) /\ Whole(d)' = Whole(d)
      BY <1>1 DEF Fresh, Whole
    <2>2. CASE d = c
      <3>1. /\ Fresh(d)' /\ cpc'[d] = "send" /\ up'[d] = up[d] /\ heard'[d] = heard[d]
            /\ down'[d] = <<>>
        BY <1>1, <1>2, <1>7, <2>1, <2>2 DEF Fresh
      <3>2. heard[d] = 0 => up[d] \in {<<>>, Whole(d)}
        BY DEF PInv, ClientOK
      <3>3. QED
        BY <2>1, <3>1, <3>2 DEF ClientOK
    <2>3. CASE d # c
      BY <1>1, <1>7, <1>8, <2>1, <2>3 DEF PInv, ClientOK
    <2>4. QED
      BY <2>2, <2>3
  <1>10. QED
    BY <1>5, <1>6, <1>7, <1>9 DEF PInv

LEMMA SendPInv ==
  ASSUME PInv, NEW c \in Clients, Send(c)
  PROVE  PInv'
  <1>1. /\ cpc' = [cpc EXCEPT ![c] = "recv"] /\ up' = [up EXCEPT ![c] = Whole(c)]
        /\ UNCHANGED <<spc, new_fd, buffer, open, backlog, heard, down, num, result>>
    BY DEF Send, Whole
  <1>2. ServerOK' /\ QueueOK' /\ ServingOK'
    BY <1>1 DEF PInv, ServerOK, QueueOK, ServingOK, Serving, Whole
  <1>3. /\ FieldsOK'
        /\ \A d \in Clients : /\ cpc'[d] = IF d = c THEN "recv" ELSE cpc[d]
                              /\ up'[d] = IF d = c THEN Whole(c) ELSE up[d]
    BY <1>1 DEF PInv, FieldsOK
  <1>4. ASSUME NEW d \in Clients
        PROVE  ClientOK(d)'
    <2>1. Queued(d)' = Queued(d) /\ Fresh(d)' = Fresh(d) /\ Whole(d)' = Whole(d)
      BY <1>1 DEF Queued, Fresh, Whole
    <2>2. (cpc'[d] = cpc[d] \/ cpc'[d] \notin {"start", "done"})
          /\ (up'[d] = up[d] \/ up'[d] = Whole(d))
      BY <1>3
    <2>3. QED
      BY <1>1, <2>1, <2>2 DEF PInv, ClientOK
  <1>5. QED
    BY <1>2, <1>3, <1>4 DEF PInv

(* The one byte of the answer, in an int of which recv fills only that.    *)
LEMMA RecvPInv ==
  ASSUME PInv, NEW c \in Clients, Recv(c)
  PROVE  PInv'
  <1>1. PICK value \in Converted(Head(down[c])) :
               /\ down[c] # <<>>
               /\ cpc' = [cpc EXCEPT ![c] = "done"]
               /\ result' = [result EXCEPT ![c] = <<value>>]
               /\ UNCHANGED <<spc, new_fd, buffer, open, backlog, up, heard, down, num>>
    BY DEF Recv, Returned
  <1>2. down[c] = <<TRUE>> => value = TRUE
    <2>1. SUFFICES ASSUME down[c] = <<TRUE>>
                   PROVE  value = TRUE
      OBVIOUS
    <2>2. Head(down[c]) = TRUE
      <3>1. PICK x : x = TRUE
        OBVIOUS
      <3>2. Head(<<x>>) = x
        OBVIOUS
      <3>3. QED
        BY <2>1, <3>1, <3>2
    <2>3. \E rest \in BOOLEAN : value = (TRUE \/ rest)
      BY <2>2 DEF Converted
    <2>4. QED
      BY <2>3
  <1>3. ServerOK' /\ QueueOK' /\ ServingOK'
    BY <1>1 DEF PInv, ServerOK, QueueOK, ServingOK, Serving, Whole
  <1>4. /\ FieldsOK'
        /\ \A d \in Clients : /\ cpc'[d] = IF d = c THEN "done" ELSE cpc[d]
                              /\ result'[d] = IF d = c THEN <<value>> ELSE result[d]
    BY <1>1 DEF PInv, FieldsOK
  <1>5. ASSUME NEW d \in Clients
        PROVE  ClientOK(d)'
    <2>1. Queued(d)' = Queued(d) /\ Fresh(d)' = Fresh(d) /\ Whole(d)' = Whole(d)
      BY <1>1 DEF Queued, Fresh, Whole
    <2>2. CASE d # c
      BY <1>1, <1>4, <2>1, <2>2 DEF PInv, ClientOK
    <2>3. CASE d = c
      <3>1. ~ Queued(d)
        BY <1>1, <2>3 DEF PInv, ClientOK, Fresh
      <3>2. down'[d] = <<TRUE>> => result'[d] = <<TRUE>>
        BY <1>1, <1>2, <1>4, <2>3
      <3>3. /\ cpc'[d] = "done" /\ down'[d] = down[d] /\ down[d] # <<>> /\ new_fd' = new_fd
            /\ up'[d] = up[d] /\ heard'[d] = heard[d] /\ num' = num /\ open' = open
        BY <1>1, <1>4, <2>3
      <3>4. /\ heard[d] = 0 => up[d] \in {<<>>, Whole(d)}
            /\ d \in open /\ d # new_fd => down[d] = <<>>
            /\ heard[d] = Word /\ down[d] # <<>> => down[d] = <<is_prime(num[d])>>
        BY DEF PInv, ClientOK
      <3>5. QED
        BY <2>1, <3>1, <3>2, <3>3, <3>4 DEF ClientOK
    <2>4. QED
      BY <2>2, <2>3
  <1>6. QED
    BY <1>3, <1>4, <1>5 DEF PInv

-----------------------------------------------------------------------------
(* The server's steps *)

LEMMA BootPInv == PInv /\ Boot => PInv'
  <1> SUFFICES ASSUME PInv, Boot
               PROVE  PInv'
    OBVIOUS
  <1>1. /\ spc = "boot" /\ spc' \in {"accept", "exited"}
        /\ UNCHANGED <<new_fd, buffer, open, backlog, up, heard, down, cpc, num, result>>
    BY DEF Boot, clientVars
  <1>2. ServerOK' /\ ServingOK' /\ QueueOK' /\ FieldsOK'
    BY <1>1 DEF PInv, ServerOK, ServingOK, QueueOK, FieldsOK, Serving
  <1>3. ASSUME NEW d \in Clients
        PROVE  ClientOK(d)'
    BY <1>1 DEF PInv, ClientOK, Queued, Fresh, Whole
  <1>4. QED
    BY <1>2, <1>3 DEF PInv

LEMMA AcceptPInv == PInv /\ Accept => PInv'
  <1> SUFFICES ASSUME PInv, Accept
               PROVE  PInv'
    OBVIOUS
  <1> DEFINE c == Head(backlog)
  <1>1. /\ spc = "accept" /\ spc' = "recv" /\ backlog # <<>>
        /\ new_fd' = c /\ backlog' = Tail(backlog) /\ open' = open \cup {c}
        /\ UNCHANGED <<up, heard, down, cpc, num, result>>
    BY DEF Accept, clientVars
  <1>2. /\ backlog \in Seq(Clients)
        /\ \A i, j \in DOMAIN backlog : backlog[i] = backlog[j] => i = j
    BY DEF PInv, QueueOK
  <1>3. /\ Len(backlog) \in Nat /\ Len(backlog) >= 1 /\ DOMAIN backlog = 1 .. Len(backlog)
        /\ c = backlog[1] /\ c \in Clients
        /\ backlog' \in Seq(Clients) /\ Len(backlog') = Len(backlog) - 1
        /\ \A i \in 1 .. Len(backlog') : backlog'[i] = backlog[i + 1]
    BY <1>1, <1>2, HeadTailProperties, LenProperties, EmptySeq
  <1>4. DOMAIN backlog' = 1 .. Len(backlog')
    BY <1>3, LenProperties
  <1> HIDE DEF c
  <1>5. \A i \in DOMAIN backlog' : /\ i + 1 \in DOMAIN backlog /\ backlog'[i] = backlog[i + 1]
                                   /\ i + 1 # 1 /\ i \in Nat
    BY <1>3, <1>4
  <1>6. 1 \in DOMAIN backlog
    BY <1>3
  <1>7. QueueOK'
    <2>1. ASSUME NEW i \in DOMAIN backlog', NEW j \in DOMAIN backlog', backlog'[i] = backlog'[j]
          PROVE  i = j
      <3>1. /\ i + 1 \in DOMAIN backlog /\ backlog'[i] = backlog[i + 1] /\ i \in Nat
            /\ j + 1 \in DOMAIN backlog /\ backlog'[j] = backlog[j + 1] /\ j \in Nat
        BY <1>5
      <3>2. i + 1 = j + 1
        BY <1>2, <2>1, <3>1
      <3>3. QED
        BY <3>1, <3>2
    <2>2. QED
      BY <1>3, <2>1 DEF QueueOK
  <1>8. Queued(c) /\ \A d \in Clients : Queued(d)' => Queued(d) /\ d # c
    <2>1. Queued(c)
      BY <1>3, <1>6 DEF Queued
    <2>2. ASSUME NEW d \in Clients, Queued(d)'
          PROVE  Queued(d) /\ d # c
      <3>1. PICK i \in DOMAIN backlog' : backlog'[i] = d
        BY <2>2 DEF Queued
      <3>2. i + 1 \in DOMAIN backlog /\ backlog[i + 1] = d /\ i + 1 # 1
        BY <1>5, <3>1
      <3>3. d # c
        BY <1>2, <1>3, <1>6, <3>2
      <3>4. QED
        BY <3>2, <3>3 DEF Queued
    <2>3. QED
      BY <2>1, <2>2
  <1>9. Fresh(c) /\ cpc[c] # "start"
    BY <1>3, <1>8 DEF PInv, ClientOK
  <1>10. ServerOK' /\ ServingOK'
    BY <1>1, <1>3, <1>9 DEF PInv, ServerOK, ServingOK, Serving, Fresh
  <1>11. FieldsOK'
    BY <1>1 DEF PInv, FieldsOK
  <1>12. new_fd \notin Clients
    BY <1>1, NoConnectionAssumption DEF PInv, ServerOK, Serving
  <1>13. ASSUME NEW d \in Clients
         PROVE  ClientOK(d)'
    <2>1. /\ d # c => Fresh(d)' = Fresh(d)
          /\ Whole(d)' = Whole(d) /\ down'[d] = down[d]
      BY <1>1 DEF Fresh, Whole
    <2>2. ClientOK(d)
      BY DEF PInv
    <2>3. Queued(d)' \/ cpc'[d] = "start" => d # c /\ (Queued(d) \/ cpc[d] = "start")
      BY <1>1, <1>8, <1>9
    <2>4. (Queued(d) \/ cpc[d] = "start" => Fresh(d)) /\ ~ (Queued(d) /\ cpc[d] = "start")
      BY <2>2 DEF ClientOK
    <2>5. (Queued(d)' \/ cpc'[d] = "start" => Fresh(d)') /\ ~ (Queued(d)' /\ cpc'[d] = "start")
      BY <1>1, <1>8, <2>1, <2>3, <2>4
    <2>6. d \in open' /\ d # new_fd' => down'[d] = <<>>
      BY <1>1, <1>12, <2>2 DEF ClientOK
    <2>7. QED
      BY <1>1, <2>1, <2>2, <2>5, <2>6 DEF ClientOK
  <1>14. QED
    BY <1>7, <1>10, <1>11, <1>13 DEF PInv

LEMMA RecvNumberPInv == PInv /\ RecvNumber => PInv'
  <1> SUFFICES ASSUME PInv, RecvNumber
               PROVE  PInv'
    OBVIOUS
  <1>1. spc = "recv" /\ new_fd \in open /\ new_fd \in Clients /\ down[new_fd] = <<>>
        /\ heard[new_fd] = 0
    BY DEF RecvNumber, PInv, ServerOK, Serving, ServingOK
  <1>2. up[new_fd] = Whole(new_fd)
    BY <1>1 DEF RecvNumber, PInv, ClientOK
  <1>3. Len(up[new_fd]) = Word /\ Filled(Word) = Whole(new_fd)
    BY <1>2, FilledWhole
  <1>4. PICK n \in 1..Word :
               /\ buffer' = Filled(n)
               /\ up' = [up EXCEPT ![new_fd] = SubSeq(@, n + 1, Len(@))]
               /\ heard' = [heard EXCEPT ![new_fd] = n]
    <2>1. PICK n \in IF Pieces THEN 1..Len(up[new_fd]) ELSE {Len(up[new_fd])} :
                 /\ buffer' = Filled(n)
                 /\ up' = [up EXCEPT ![new_fd] = SubSeq(@, n + 1, Len(@))]
                 /\ heard' = [heard EXCEPT ![new_fd] = n]
      BY DEF RecvNumber
    <2>2. n \in 1..Word
      BY <1>3 DEF Word
    <2>3. QED
      BY <2>1, <2>2
  <1>5. /\ spc' = "send"
        /\ UNCHANGED <<new_fd, open, backlog, down, cpc, num, result>>
    BY DEF RecvNumber, clientVars
  <1>6. /\ FieldsOK'
        /\ heard'[new_fd] = n
        /\ \A d \in Clients : d # new_fd => up'[d] = up[d] /\ heard'[d] = heard[d]
    BY <1>1, <1>4, <1>5 DEF PInv, FieldsOK
  <1>7. ServerOK' /\ QueueOK'
    BY <1>1, <1>5 DEF PInv, ServerOK, QueueOK, Serving
  <1>8. ServingOK'
    <2>1. Whole(new_fd)' = Whole(new_fd)
      BY <1>5 DEF Whole
    <2>2. heard'[new_fd] = Word => buffer' = Whole(new_fd)
      BY <1>3, <1>4, <1>6
    <2>3. QED
      BY <1>1, <1>5, <2>1, <2>2 DEF ServingOK
  <1>9. ASSUME NEW d \in Clients
        PROVE  ClientOK(d)'
    <2>1. Queued(d)' = Queued(d) /\ Whole(d)' = Whole(d)
      BY <1>5 DEF Queued, Whole
    <2>2. CASE d # new_fd
      <3>1. Fresh(d)' = Fresh(d) /\ up'[d] = up[d] /\ heard'[d] = heard[d]
        BY <1>5, <1>6, <2>2 DEF Fresh
      <3>2. QED
        BY <1>5, <2>1, <3>1 DEF PInv, ClientOK
    <2>3. CASE d = new_fd
      <3>1. ~ Queued(d) /\ cpc[d] # "start" /\ cpc[d] # "done"
        BY <1>1, <2>3 DEF PInv, ClientOK, Fresh
      <3>2. heard'[d] # 0 /\ down'[d] = <<>> /\ new_fd' = d
        BY <1>1, <1>4, <1>5, <1>6, <2>3
      <3>3. QED
        BY <1>5, <2>1, <3>1, <3>2 DEF ClientOK
    <2>4. QED
      BY <2>2, <2>3
  <1>10. QED
    BY <1>6, <1>7, <1>8, <1>9 DEF PInv

LEMMA RecvEndPInv == PInv /\ RecvEnd => PInv'
  <1> SUFFICES ASSUME PInv, RecvEnd
               PROVE  PInv'
    OBVIOUS
  <1>1. /\ spc = "recv" /\ spc' = "send"
        /\ UNCHANGED <<new_fd, buffer, open, backlog, up, heard, down, cpc, num, result>>
    BY DEF RecvEnd, clientVars
  <1>2. ServerOK' /\ QueueOK' /\ FieldsOK' /\ ServingOK'
    BY <1>1 DEF PInv, ServerOK, ServingOK, QueueOK, FieldsOK, Serving, Word
  <1>3. ASSUME NEW d \in Clients
        PROVE  ClientOK(d)'
    BY <1>1 DEF PInv, ClientOK, Queued, Fresh, Whole
  <1>4. QED
    BY <1>2, <1>3 DEF PInv

(* The connection that is abandoned had no answer yet.                     *)
LEMMA RecvErrorPInv == PInv /\ RecvError => PInv'
  <1> SUFFICES ASSUME PInv, RecvError
               PROVE  PInv'
    OBVIOUS
  <1>1. /\ spc = "recv" /\ spc' = "accept" /\ new_fd' = NoConnection
        /\ UNCHANGED <<buffer, open, backlog, up, heard, down, cpc, num, result>>
    BY DEF RecvError, clientVars
  <1>2. ServerOK' /\ QueueOK' /\ FieldsOK' /\ ServingOK'
    BY <1>1 DEF PInv, ServerOK, ServingOK, QueueOK, FieldsOK, Serving
  <1>3. down[new_fd] = <<>>
    BY <1>1 DEF PInv, ServingOK
  <1>4. ASSUME NEW d \in Clients
        PROVE  ClientOK(d)'
    <2>1. Queued(d)' = Queued(d) /\ Fresh(d)' = Fresh(d) /\ Whole(d)' = Whole(d)
      BY <1>1 DEF Queued, Fresh, Whole
    <2>2. d \in open => down[d] = <<>>
      BY <1>3 DEF PInv, ClientOK
    <2>3. QED
      BY <1>1, <2>1, <2>2 DEF PInv, ClientOK
  <1>5. QED
    BY <1>2, <1>4 DEF PInv

(* An answer is sent once, and is about what the buffer holds.             *)
LEMMA AnswerPInv == PInv /\ Answer => PInv'
  <1> SUFFICES ASSUME PInv, Answer
               PROVE  PInv'
    OBVIOUS
  <1> DEFINE x == is_prime(Signed(unpack(FromMemory(buffer, Order))))
  <1>1. /\ spc = "send" /\ spc' = "close"
        /\ down' = [down EXCEPT ![new_fd] = <<x>>]
        /\ UNCHANGED <<new_fd, buffer, open, backlog, up, heard, cpc, num, result>>
    BY DEF Answer, clientVars
  <1>2. /\ new_fd \in open /\ new_fd \in Clients /\ down[new_fd] = <<>>
        /\ heard[new_fd] = Word => buffer = Whole(new_fd)
    BY <1>1 DEF PInv, ServerOK, Serving, ServingOK
  <1>3. heard[new_fd] = Word => x = is_prime(num[new_fd])
    <2>1. SUFFICES ASSUME heard[new_fd] = Word
                   PROVE  x = is_prime(num[new_fd])
      OBVIOUS
    <2>2. Signed(unpack(FromMemory(buffer, Order))) = num[new_fd]
      BY <1>2, <2>1, NumberArrives DEF PInv, FieldsOK
    <2>3. QED
      BY <2>2
  <1> HIDE DEF x
  <1>4. /\ FieldsOK'
        /\ down'[new_fd] = <<x>>
        /\ \A d \in Clients : d # new_fd => down'[d] = down[d]
    BY <1>1, <1>2 DEF PInv, FieldsOK
  <1>5. ServerOK' /\ QueueOK' /\ ServingOK'
    BY <1>1, <1>2 DEF PInv, ServerOK, ServingOK, QueueOK, Serving
  <1>6. ASSUME NEW d \in Clients
        PROVE  ClientOK(d)'
    <2>1. Queued(d)' = Queued(d) /\ Whole(d)' = Whole(d)
      BY <1>1 DEF Queued, Whole
    <2>2. CASE d # new_fd
      <3>1. Fresh(d)' = Fresh(d) /\ down'[d] = down[d]
        BY <1>1, <1>4, <2>2 DEF Fresh
      <3>2. QED
        BY <1>1, <2>1, <3>1 DEF PInv, ClientOK
    <2>3. CASE d = new_fd
      <3>1. /\ ~ Queued(d) /\ cpc[d] # "start" /\ cpc[d] # "done"
            /\ heard[d] = 0 => up[d] \in {<<>>, Whole(d)}
        BY <1>2, <2>3 DEF PInv, ClientOK, Fresh
      <3>2. heard'[d] = Word => down'[d] = <<is_prime(num'[d])>>
        BY <1>1, <1>3, <1>4, <2>3
      <3>3. /\ ~ Queued(d)' /\ cpc'[d] # "start" /\ cpc'[d] # "done" /\ new_fd' = d
            /\ heard'[d] = 0 => up'[d] \in {<<>>, Whole(d)'}
        BY <1>1, <2>1, <2>3, <3>1
      <3>4. QED
        BY <3>2, <3>3 DEF ClientOK
    <2>4. QED
      BY <2>2, <2>3
  <1>7. QED
    BY <1>4, <1>5, <1>6 DEF PInv

(* After a failed send the client has no answer, and never gets one.       *)
LEMMA AnswerFailsPInv == PInv /\ AnswerFails => PInv'
  <1> SUFFICES ASSUME PInv, AnswerFails
               PROVE  PInv'
    OBVIOUS
  <1>1. /\ spc = "send" /\ spc' = "close"
        /\ UNCHANGED <<new_fd, buffer, open, backlog, up, heard, down, cpc, num, result>>
    BY DEF AnswerFails, clientVars
  <1>2. ServerOK' /\ QueueOK' /\ FieldsOK' /\ ServingOK'
    BY <1>1 DEF PInv, ServerOK, ServingOK, QueueOK, FieldsOK, Serving
  <1>3. ASSUME NEW d \in Clients
        PROVE  ClientOK(d)'
    BY <1>1 DEF PInv, ClientOK, Queued, Fresh, Whole
  <1>4. QED
    BY <1>2, <1>3 DEF PInv

LEMMA ClosePInv == PInv /\ Close => PInv'
  <1> SUFFICES ASSUME PInv, Close
               PROVE  PInv'
    OBVIOUS
  <1>1. /\ spc = "close" /\ spc' = "accept" /\ new_fd' = NoConnection
        /\ open' = open \ {new_fd}
        /\ UNCHANGED <<buffer, backlog, up, heard, down, cpc, num, result>>
    BY DEF Close, StillOpen, clientVars
  <1>2. ServerOK' /\ QueueOK' /\ FieldsOK' /\ ServingOK'
    BY <1>1 DEF PInv, ServerOK, ServingOK, QueueOK, FieldsOK, Serving
  <1>3. ASSUME NEW d \in Clients
        PROVE  ClientOK(d)'
    <2>1. Queued(d)' = Queued(d) /\ (Fresh(d) => Fresh(d)') /\ Whole(d)' = Whole(d)
      BY <1>1 DEF Queued, Fresh, Whole
    <2>2. d \in open' => d # new_fd /\ d \in open
      BY <1>1
    <2>3. QED
      BY <1>1, <2>1, <2>2 DEF PInv, ClientOK
  <1>4. QED
    BY <1>2, <1>3 DEF PInv

LEMMA StepPInv == PInv /\ [PrimeNext]_primeVars => PInv'
  <1> SUFFICES ASSUME PInv, [PrimeNext]_primeVars
               PROVE  PInv'
    OBVIOUS
  <1>1. CASE Boot
    BY <1>1, BootPInv
  <1>2. CASE ServerStep
    BY <1>2, AcceptPInv, RecvNumberPInv, RecvEndPInv, AnswerPInv, ClosePInv DEF ServerStep
  <1>3. CASE RecvError \/ AnswerFails
    BY <1>3, RecvErrorPInv, AnswerFailsPInv
  <1>4. ASSUME NEW c \in Clients, Connect(c) \/ ConnectFails(c) \/ ClientStep(c) \/ Quit(c)
        PROVE  PInv'
    <2>1. CASE Connect(c)
      BY <2>1, ConnectPInv
    <2>2. CASE ConnectFails(c)
      BY <2>2, QuietClient DEF ConnectFails
    <2>3. CASE Send(c)
      BY <2>3, SendPInv
    <2>4. CASE Recv(c)
      BY <2>4, RecvPInv
    <2>5. CASE RecvFails(c)
      BY <2>5, QuietClient DEF RecvFails
    <2>6. CASE Quit(c)
      BY <2>6, QuietClient DEF Quit
    <2>7. QED
      BY <1>4, <2>1, <2>2, <2>3, <2>4, <2>5, <2>6 DEF ClientStep
  <1>5. CASE UNCHANGED primeVars
    <2>1. UNCHANGED <<spc, new_fd, buffer, open, backlog, up, heard, down, cpc, num, result>>
      BY <1>5 DEF primeVars, clientVars
    <2>2. ServerOK' /\ QueueOK' /\ FieldsOK' /\ ServingOK'
      BY <2>1 DEF PInv, ServerOK, ServingOK, QueueOK, FieldsOK, Serving, Whole
    <2>3. ASSUME NEW d \in Clients
          PROVE  ClientOK(d)'
      BY <2>1 DEF PInv, ClientOK, Queued, Fresh, Whole
    <2>4. QED
      BY <2>2, <2>3 DEF PInv
  <1>6. QED
    BY <1>1, <1>2, <1>3, <1>4, <1>5 DEF PrimeNext

LEMMA PrimePInv == PrimeSpec => []PInv
  BY InitPInv, StepPInv, PTL DEF PrimeSpec

-----------------------------------------------------------------------------
(* The theorems *)

(* Between two connections the server holds only those it abandoned.       *)
THEOREM PrimeAllClosed == PrimeSpec => []AllClosed
  <1>1. PInv => AllClosed
    <2> SUFFICES ASSUME PInv, spc = "accept"
                 PROVE  open = Abandoned
      BY DEF AllClosed
    <2>1. open \subseteq Clients /\ new_fd = NoConnection
      BY DEF PInv, ServerOK, Serving
    <2>2. \A c \in open : c # new_fd /\ down[c] = <<>>
      BY <2>1, NoConnectionAssumption DEF PInv, ClientOK
    <2>3. QED
      BY <2>2 DEF Abandoned
  <1>2. QED
    BY <1>1, PrimePInv, PTL

-----------------------------------------------------------------------------
(* is_prime *)

(* One turn of the loop at i, where f says of an int whether the loop      *)
(* entered there ends behind the root.                                     *)
Turn(f, i, n) == \/ PastRoot(i, n)
                 \/ /\ ~Divides(i, n) /\ ~Divides(Wrapped(i + 2), n)
                    /\ f[Wrapped(i + 6)]

IsLoop(f, n) == f = [i \in Int |-> Turn(f, i, n)]

LEMMA WrappedInt == \A v \in Int : Wrapped(v) \in Int
  <1>1. ASSUME NEW v \in Int  PROVE  Wrapped(v) \in Int
    <2>1. PICK u \in Nat \ {0} : u = U32
      BY U32Positive
    <2>2. v % u \in Int
      BY <2>1, Division
    <2>3. QED
      BY <2>1, <2>2 DEF Wrapped, Bits, Signed
  <1>2. QED
    BY <1>1

LEMMA LoopExists ==
  ASSUME NEW n
  PROVE  \E f : IsLoop(f, n)
  <1> DEFINE Closed(X) == \A x \in X : \/ PastRoot(x, n)
                                       \/ /\ ~Divides(x, n) /\ ~Divides(Wrapped(x + 2), n)
                                          /\ Wrapped(x + 6) \in X
             G == UNION {X \in SUBSET Int : Closed(X)}
             f == [i \in Int |-> i \in G]
  <1>1. Closed(G) /\ G \subseteq Int
    OBVIOUS
  <1>2. ASSUME NEW i \in Int
        PROVE  f[i] <=> Turn(f, i, n)
    <2>0. Wrapped(i + 6) \in Int
      BY WrappedInt
    <2>1. f[Wrapped(i + 6)] <=> Wrapped(i + 6) \in G
      BY <2>0
    <2>2. f[i] => Turn(f, i, n)
      <3> HIDE DEF G
      <3>1. QED BY <1>1, <2>1 DEF Turn
    <2>3. ASSUME Turn(f, i, n)  PROVE  f[i]
      <3>1. PastRoot(i, n) \/ (~Divides(i, n) /\ ~Divides(Wrapped(i + 2), n) /\ Wrapped(i + 6) \in G)
        <4> HIDE DEF G
        <4>1. QED BY <2>1, <2>3 DEF Turn
      <3>2. Closed(G \cup {i}) /\ G \cup {i} \in SUBSET Int
        <4> HIDE DEF G
        <4>1. QED BY <1>1, <3>1
      <3>3. i \in G
        BY <3>2
      <3>4. QED
        BY <3>3
    <2>4. QED
      BY <2>2, <2>3
  <1>3. ASSUME NEW i \in Int
        PROVE  f[i] = Turn(f, i, n)
    <2>1. f[i] \in BOOLEAN /\ Turn(f, i, n) \in BOOLEAN
      BY DEF Turn
    <2>2. QED
      <3> HIDE DEF f
      <3>1. QED BY <1>2, <2>1
  <1>4. IsLoop(f, n)
    <2>1. f = [i \in Int |-> f[i]]
      OBVIOUS
    <2> HIDE DEF f
    <2>2. QED
      BY <1>3, <2>1 DEF IsLoop
  <1>5. QED
    BY <1>4

LEMMA IsPrimeLoop ==
  ASSUME NEW n
  PROVE  \E f : /\ IsLoop(f, n)
                /\ is_prime(n) <=> \/ n \in {2, 3}
                                   \/ n # 1 /\ ~Divides(2, n) /\ ~Divides(3, n) /\ f[5]
  <1> DEFINE g == CHOOSE f : IsLoop(f, n)
  <1>1. IsLoop(g, n)
    BY LoopExists
  <1>2. is_prime(n) <=> \/ n \in {2, 3}
                        \/ n # 1 /\ ~Divides(2, n) /\ ~Divides(3, n) /\ g[5]
    BY DEF is_prime, IsLoop, Turn
  <1>3. QED
    BY <1>1, <1>2

-----------------------------------------------------------------------------
(* Where int does not wrap *)

LEMMA LargestInt == Largest \in Nat /\ Largest >= 7
  <1> DEFINE b == ByteSize
  <1>1. b \in Nat /\ b >= 2 /\ b % 2 = 0
    BY ByteSizeAssumption
  <1>2. PICK m \in Nat : m >= 4 /\ U32 = m * m
    <2>1. b * b \in Nat /\ b * b >= 4
      <3> HIDE DEF b
      <3>1. b * b \in Nat /\ b * b >= 2 * b
        BY <1>1
      <3>2. QED
        BY <1>1, <3>1
    <2>2. U32 = (b * b) * (b * b)
      <3>1. U32 = b * b * b * b
        BY DEF U32
      <3> HIDE DEF b
      <3>2. QED
        BY <1>1, <3>1
    <2>3. QED
      BY <2>1, <2>2
  <1>3. U32 >= 16 /\ U32 \in Nat
    <2>1. m * m >= 4 * m /\ m * m \in Nat
      BY <1>2
    <2>2. QED
      BY <1>2, <2>1
  <1>4. QED
    BY <1>3 DEF Largest

LEMMA WrappedSmall ==
  ASSUME NEW v \in 0..Largest
  PROVE  Wrapped(v) = v
  <1>1. PICK u \in Nat \ {0} : u = U32
    BY U32Positive
  <1>2. v \in Nat /\ v < u /\ v < u \div 2
    <2>1. v <= u \div 2 - 1 /\ v \in Nat /\ u \div 2 <= u
      BY <1>1, LargestInt DEF Largest
    <2>2. QED
      BY <1>1, <2>1
  <1>3. v % u = v
    BY <1>1, <1>2
  <1>4. QED
    BY <1>1, <1>2, <1>3 DEF Wrapped, Bits, Signed

LEMMA WrappedBelow == \A v \in Int : Wrapped(v) <= Largest
  <1>1. ASSUME NEW v \in Int  PROVE  Wrapped(v) <= Largest
    <2>1. PICK u \in Nat \ {0} : u = U32
      BY U32Positive
    <2>2. v % u \in 0..u - 1
      BY <2>1, Division
    <2>3. PICK w \in 0..u - 1 : w = v % u
      BY <2>2
    <2>4. u \div 2 - 1 = Largest /\ Wrapped(v) = IF w >= u \div 2 THEN w - u ELSE w
      BY <2>1, <2>3 DEF Wrapped, Bits, Signed, Largest
    <2>5. Largest \in Nat
      BY LargestInt
    <2>6. QED
      BY <2>1, <2>3, <2>4, <2>5
  <1>2. QED
    BY <1>1

(* One turn of the loop where nothing in it wraps.                         *)
LEMMA PlainTurn ==
  ASSUME NEW f, NEW n \in Nat, IsLoop(f, n),
         NEW i \in Nat, i > 0, i * i <= Largest, i + 6 <= Largest
  PROVE  f[i] <=> i * i > n \/ (n % i # 0 /\ n % (i + 2) # 0 /\ f[i + 6])
  <1>1. i * i \in 0..Largest /\ i + 2 \in 0..Largest /\ i + 6 \in 0..Largest
    BY LargestInt
  <1>2. Wrapped(i * i) = i * i /\ Wrapped(i + 2) = i + 2 /\ Wrapped(i + 6) = i + 6
    BY <1>1, WrappedSmall
  <1>3. f[i] = Turn(f, i, n)
    BY DEF IsLoop
  <1>4. Divides(i, n) <=> n % i = 0
    BY DEF Divides
  <1>5. Divides(i + 2, n) <=> n % (i + 2) = 0
    BY DEF Divides
  <1>6. PastRoot(i, n) <=> i * i > n
    BY <1>2 DEF PastRoot
  <1>7. QED
    BY <1>2, <1>3, <1>4, <1>5, <1>6 DEF Turn

-----------------------------------------------------------------------------
(* Divisors *)

LEMMA Squares ==
  ASSUME NEW a \in Nat, NEW b \in Nat
  PROVE  a * a \in Nat /\ (a <= b => a * a <= b * b) /\ (a < b => a * a < b * b)
         /\ a * b = b * a /\ (a <= b => a * a <= a * b)
  <1>1. a * a \in Nat /\ a * b = b * a
    OBVIOUS
  <1>2. ASSUME a <= b  PROVE  a * a <= b * b /\ a * a <= a * b
    <2>1. a * a <= a * b
      BY <1>2
    <2>2. a * b <= b * b
      BY <1>2
    <2>3. QED
      BY <2>1, <2>2
  <1>3. ASSUME a < b  PROVE  a * a < b * b
    <2>1. a * a <= a * b
      BY <1>3
    <2>2. a * b < b * b
      BY <1>3
    <2>3. QED
      BY <2>1, <2>2
  <1>4. QED
    BY <1>1, <1>2, <1>3

(* A number that is not prime has a divisor up to its root.                *)
LEMMA LeastDivisor ==
  ASSUME NEW n \in Nat, n > 1, ~ Prime(n)
  PROVE  \E d \in 2..n - 1 : n % d = 0 /\ d * d <= n
  <1> DEFINE D == {d \in 2..n - 1 : n % d = 0}
  <1>1. D \in SUBSET Nat /\ D # {}
    <2>1. PICK d \in 2..n - 1 : n % d = 0
      BY DEF Prime
    <2>2. d \in D
      BY <2>1
    <2>3. D \in SUBSET Nat
      OBVIOUS
    <2> HIDE DEF D
    <2>4. QED
      BY <2>2, <2>3
  <1>2. PICK d \in D : \A x \in D : d <= x
    <2> HIDE DEF D
    <2>1. QED
      BY <1>1, Least
  <1>3. d \in Nat /\ d >= 2 /\ d < n /\ n % d = 0
    OBVIOUS
  <1>4. d \in Nat \ {0} /\ n \in Int
    BY <1>3
  <1>5. PICK q \in Int : n = d * q
    <2> HIDE DEF D
    <2>1. n = d * (n \div d) + (n % d) /\ n \div d \in Int
      BY <1>4, Division
    <2>2. PICK q \in Int : q = n \div d
      BY <2>1
    <2>3. n = d * q
      BY <1>3, <2>1, <2>2
    <2>4. QED
      BY <2>3
  <1>6. q \in Nat /\ q >= 2 /\ q < n
    <2>1. q > 1
      <3>1. ASSUME q <= 1  PROVE  d * q <= d
        BY <1>3, <3>1
      <3>2. QED
        BY <1>3, <1>5, <3>1
    <2>2. d * q >= 2 * q
      BY <1>3, <2>1
    <2>3. QED
      BY <1>5, <2>1, <2>2
  <1>7. n % q = 0
    <2>1. n = q * d + 0 /\ 0 \in 0..q - 1 /\ q \in Nat \ {0}
      BY <1>3, <1>5, <1>6
    <2>2. QED
      BY <1>3, <2>1, OnlyDivision
  <1>8. d <= q
    BY <1>2, <1>6, <1>7
  <1>9. d * d <= n
    BY <1>3, <1>5, <1>6, <1>8, Squares
  <1>10. QED
    BY <1>3, <1>9

(* A divisor of a number that 2 and 3 do not divide is i or i + 2 in some  *)
(* turn of the loop.                                                       *)
LEMMA DivisorInLoop ==
  ASSUME NEW n \in Nat, n % 2 # 0, n % 3 # 0, NEW d \in 2..n, n % d = 0
  PROVE  \E i \in 5..d : i % 6 = 5 /\ d \in {i, i + 2}
  <1>1. PICK q \in Int : n = d * q
    <2>1. d \in Nat \ {0} /\ n \in Int
      OBVIOUS
    <2>2. n = d * (n \div d) + (n % d) /\ n \div d \in Int
      BY <2>1, Division
    <2>3. PICK q \in Int : q = n \div d
      BY <2>2
    <2>4. n = d * q
      BY <2>1, <2>2, <2>3
    <2>5. QED
      BY <2>4
  <1>2. d % 2 # 0
    <2>1. ASSUME d % 2 = 0  PROVE  FALSE
      <3>1. PICK k \in Int : d = 2 * k
        BY <2>1
      <3>2. n = 2 * (k * q) + 0 /\ k * q \in Int
        BY <1>1, <3>1
      <3>3. QED
        BY <3>2, OnlyDivision
    <2>2. QED
      BY <2>1
  <1>3. d % 3 # 0
    <2>1. ASSUME d % 3 = 0  PROVE  FALSE
      <3>1. PICK k \in Int : d = 3 * k
        BY <2>1
      <3>2. n = 3 * (k * q) + 0 /\ k * q \in Int
        BY <1>1, <3>1
      <3>3. QED
        BY <3>2, OnlyDivision
    <2>2. QED
      BY <2>1
  <1>4. d % 6 = 5 \/ d % 6 = 1
    BY <1>2, <1>3
  <1>5. CASE d % 6 = 5
    <2>1. d >= 5
      BY <1>5
    <2>2. QED
      BY <1>5, <2>1
  <1>6. CASE d % 6 = 1
    <2>1. d >= 7 /\ (d - 2) % 6 = 5
      BY <1>6
    <2>2. d - 2 \in 5..d /\ d = (d - 2) + 2
      BY <2>1
    <2>3. QED
      BY <2>1, <2>2
  <1>7. QED
    BY <1>4, <1>5, <1>6

-----------------------------------------------------------------------------
(* The loop *)

(* A loop that ends behind the root has been through every turn before it. *)
LEMMA TurnsTaken ==
  ASSUME NEW f, NEW n \in Nat, IsLoop(f, n), f[5],
         NEW k \in 5..Largest, k % 6 = 5, \A j \in 5..k : ~ PastRoot(j, n)
  PROVE  n % k # 0 /\ (k + 2 <= Largest => n % (k + 2) # 0)
  <1> DEFINE S == {i \in 5..k : i % 6 = 5 /\ ~ f[i]}
  <1>1. ASSUME S # {}  PROVE  FALSE
    <2>1. S \in SUBSET Nat
      OBVIOUS
    <2>2. PICK m \in S : \A i \in S : m <= i
      <3> HIDE DEF S
      <3>1. QED
        BY <1>1, <2>1, Least
    <2>3. m \in Int /\ m > 5 /\ m <= k /\ m % 6 = 5 /\ ~ f[m]
      OBVIOUS
    <2>4. m - 6 \in 5..k /\ (m - 6) % 6 = 5 /\ (m - 6) + 6 = m /\ m - 6 < m
      BY <2>3
    <2>5. f[m - 6]
      BY <2>2, <2>4
    <2> HIDE DEF S
    <2>6. f[m - 6] = Turn(f, m - 6, n)
      BY <2>4 DEF IsLoop
    <2>7. f[Wrapped((m - 6) + 6)]
      BY <2>4, <2>5, <2>6 DEF Turn
    <2>8. Wrapped(m) = m
      BY <2>3, LargestInt, WrappedSmall
    <2>9. QED
      BY <2>3, <2>4, <2>7, <2>8
  <1>2. f[k]
    BY <1>1
  <1> HIDE DEF S
  <1>3. f[k] = Turn(f, k, n)
    BY DEF IsLoop
  <1>4. ~ Divides(k, n) /\ ~ Divides(Wrapped(k + 2), n)
    <2>1. ~ PastRoot(k, n)
      OBVIOUS
    <2>2. QED
      BY <1>2, <1>3, <2>1 DEF Turn
  <1>5. n % k # 0
    BY <1>4 DEF Divides
  <1>6. ASSUME k + 2 <= Largest  PROVE  n % (k + 2) # 0
    <2>1. Wrapped(k + 2) = k + 2
      BY <1>6, LargestInt, WrappedSmall
    <2>2. QED
      BY <1>4, <2>1 DEF Divides
  <1>7. QED
    BY <1>5, <1>6

LEMMA Remainders ==
  ASSUME NEW n \in Nat
  PROVE  /\ ~ Divides(2, n) <=> n % 2 # 0
         /\ ~ Divides(3, n) <=> n % 3 # 0
BY DEF Divides

(* What it calls prime has no divisor.                                     *)
LEMMA NoCompositePrime ==
  ASSUME NEW n \in 0..Largest, is_prime(n)
  PROVE  Prime(n)
  <1>0. n \in Nat /\ Largest \in Nat /\ n <= Largest
    BY LargestInt
  <1>1. CASE n \in {2, 3}
    <2>1. CASE n = 2
      BY <2>1 DEF Prime
    <2>2. CASE n = 3
      <3>1. \A d \in 2..2 : 3 % d # 0
        OBVIOUS
      <3>2. QED
        BY <2>2, <3>1 DEF Prime
    <2>3. QED
      BY <1>1, <2>1, <2>2
  <1>2. CASE n \notin {2, 3}
    <2>1. PICK f : IsLoop(f, n) /\ n # 1 /\ ~ Divides(2, n) /\ ~ Divides(3, n) /\ f[5]
      BY <1>2, IsPrimeLoop
    <2>2. n % 2 # 0 /\ n % 3 # 0
      BY <1>0, <2>1, Remainders
    <2>3. n > 1
      BY <1>0, <2>1, <2>2
    <2>4. SUFFICES ASSUME ~ Prime(n)
                   PROVE  FALSE
      OBVIOUS
    <2>5. PICK d \in 2..n - 1 : n % d = 0 /\ d * d <= n
      BY <1>0, <2>3, <2>4, LeastDivisor
    <2>6. PICK i \in 5..d : i % 6 = 5 /\ d \in {i, i + 2}
      <3>1. d \in 2..n
        BY <1>0, <2>5
      <3>2. QED
        BY <1>0, <2>2, <2>5, <3>1, DivisorInLoop
    <2>7. d \in Nat /\ i \in Nat /\ i <= d /\ d <= Largest
      BY <1>0, <2>5, <2>6
    <2>8. ASSUME NEW j \in 5..i  PROVE  ~ PastRoot(j, n)
      <3>1. j \in Nat /\ j <= d
        BY <2>7
      <3>2. j * j \in Nat /\ j * j <= d * d /\ d * d \in Nat
        BY <2>7, <3>1, Squares
      <3>3. j * j \in 0..Largest /\ j * j <= n
        BY <1>0, <2>5, <3>2
      <3>4. Wrapped(j * j) = j * j
        BY <3>3, WrappedSmall
      <3>5. QED
        BY <1>0, <3>3, <3>4 DEF PastRoot
    <2>9. i \in 5..Largest
      BY <1>0, <2>7
    <2>10. n % i # 0 /\ (i + 2 <= Largest => n % (i + 2) # 0)
      BY <1>0, <2>1, <2>6, <2>8, <2>9, TurnsTaken
    <2>11. QED
      BY <2>5, <2>6, <2>7, <2>10
  <1>3. QED
    BY <1>1, <1>2

(* A prime that is the largest int is found to divide itself.              *)
LEMMA LargestDenied ==
  ASSUME Prime(Largest)
  PROVE  ~ is_prime(Largest)
  <1> DEFINE n == Largest
  <1>0. n \in Nat /\ n >= 7
    BY LargestInt
  <1>1. SUFFICES ASSUME is_prime(n)
                 PROVE  FALSE
    OBVIOUS
  <1>2. PICK f : IsLoop(f, n) /\ ~ Divides(2, n) /\ ~ Divides(3, n) /\ f[5]
    <2>1. n \notin {2, 3}
      BY <1>0
    <2>2. QED
      BY <1>1, <2>1, IsPrimeLoop
  <1>3. n % 2 # 0 /\ n % 3 # 0
    BY <1>0, <1>2, Remainders
  <1>4. n \in 2..n /\ n % n = 0
    BY <1>0
  <1>5. PICK i \in 5..n : i % 6 = 5 /\ n \in {i, i + 2}
    BY <1>0, <1>3, <1>4, DivisorInLoop
  <1>6. ASSUME NEW j \in 5..i  PROVE  ~ PastRoot(j, n)
    <2>1. j * j \in Int /\ Wrapped(j * j) \in Int
      <3>1. j \in Int
        OBVIOUS
      <3>2. QED
        BY <3>1, WrappedInt
    <2>2. Wrapped(j * j) <= n
      BY <2>1, WrappedBelow
    <2>3. QED
      BY <1>0, <2>1, <2>2 DEF PastRoot
  <1>7. n % i # 0 /\ (i + 2 <= n => n % (i + 2) # 0)
    BY <1>0, <1>2, <1>5, <1>6, TurnsTaken
  <1>8. QED
    BY <1>0, <1>4, <1>5, <1>7

(* Every prime below the square of an i of the loop is called prime: the   *)
(* turns up to that i find nothing, and that i is past the root.           *)
LEMMA PrimesKnown ==
  ASSUME NEW e \in 5..Largest, e % 6 = 5, e * e <= Largest,
         NEW n \in 0..e * e - 1, Prime(n)
  PROVE  is_prime(n)
  <1>0. n \in Nat /\ n > 1 /\ e \in Nat /\ Largest \in Nat /\ e <= Largest /\ e * e \in Nat
        /\ n < e * e
    <2>1. e \in Nat
      OBVIOUS
    <2>2. e * e \in Nat
      BY <2>1, Squares
    <2>3. QED
      BY <2>1, <2>2, LargestInt DEF Prime
  <1>1. PICK f : /\ IsLoop(f, n)
                 /\ is_prime(n) <=> \/ n \in {2, 3}
                                    \/ n # 1 /\ ~Divides(2, n) /\ ~Divides(3, n) /\ f[5]
    BY IsPrimeLoop
  <1>2. CASE n \in {2, 3}
    BY <1>1, <1>2
  <1>3. CASE n \notin {2, 3}
    <2>1. n % 2 # 0 /\ n % 3 # 0
      <3>1. 2 \in 2..n - 1 /\ 3 \in 2..n - 1
        BY <1>0, <1>3
      <3>2. QED
        BY <3>1 DEF Prime
    <2>2. ~ Divides(2, n) /\ ~ Divides(3, n) /\ n # 1
      BY <1>0, <2>1, Remainders
    <2>3. ASSUME ~ f[5]  PROVE  FALSE
      <3> DEFINE B == {k \in 0..e : (e - k) >= 5 /\ (e - k) % 6 = 5 /\ ~ f[e - k]}
      <3>1. B \in SUBSET Nat /\ e - 5 \in B
        <4>1. e - 5 \in 0..e /\ e - (e - 5) = 5
          BY <1>0
        <4>2. QED
          BY <2>3, <4>1
      <3>2. PICK k \in B : \A x \in B : k <= x
        <4> HIDE DEF B
        <4>1. QED
          BY <3>1, Least
      <3>3. PICK i \in Nat : i = e - k
        BY <1>0
      <3>4. i >= 5 /\ i <= e /\ i % 6 = 5 /\ ~ f[i] /\ k = e - i
        BY <1>0, <3>3
      <3>5. i * i \in Nat /\ i * i <= Largest
        BY <1>0, <3>4, Squares
      <3>6. f[i] = Turn(f, i, n)
        BY <1>1 DEF IsLoop
      <3>7. i * i <= n
        <4>1. ~ PastRoot(i, n)
          BY <3>4, <3>6 DEF Turn
        <4>2. Wrapped(i * i) = i * i
          BY <1>0, <3>5, WrappedSmall
        <4>3. QED
          BY <1>0, <3>5, <4>1, <4>2 DEF PastRoot
      <3>8. i < e
        <4>1. i # e
          BY <1>0, <3>7
        <4>2. QED
          BY <1>0, <3>4, <4>1
      <3>9. i + 6 <= e
        BY <1>0, <3>4, <3>8
      <3>10. ~ (n % i # 0 /\ n % (i + 2) # 0 /\ f[i + 6])
        <4>1. i + 6 <= Largest
          BY <1>0, <3>9
        <4>2. QED
          BY <1>0, <1>1, <3>4, <3>5, <4>1, PlainTurn
      <3>11. n % i # 0 /\ n % (i + 2) # 0
        <4>1. i * i >= 5 * i
          BY <3>4
        <4>2. i \in 2..n - 1 /\ i + 2 \in 2..n - 1
          BY <1>0, <3>4, <3>5, <3>7, <4>1
        <4>3. QED
          BY <4>2 DEF Prime
      <3>12. ~ f[i + 6]
        BY <3>10, <3>11
      <3>13. k - 6 \in B
        <4>1. k - 6 \in 0..e /\ e - (k - 6) = i + 6
          BY <1>0, <3>4, <3>9
        <4>2. i + 6 >= 5 /\ (i + 6) % 6 = 5
          BY <3>4
        <4>3. QED
          BY <3>12, <4>1, <4>2
      <3>14. k \in Int
        BY <1>0, <3>4
      <3> HIDE DEF B
      <3>15. QED
        BY <3>2, <3>13, <3>14
    <2>4. QED
      BY <1>1, <2>2, <2>3
  <1>4. QED
    BY <1>2, <1>3

LEMMA PrimeDecided ==
  /\ \A n \in 0..Largest : is_prime(n) => Prime(n)
  /\ \A i \in 5..Largest : i % 6 = 5 /\ i * i <= Largest =>
       \A n \in 0..i * i - 1 : Prime(n) => is_prime(n)
  /\ Prime(Largest) => ~ is_prime(Largest)
BY NoCompositePrime, PrimesKnown, LargestDenied

(* The loop of is_prime, for every width of int: no composite is called    *)
(* prime, every prime up to the square of an i that int can hold is, and   *)
(* the largest int, where it is prime, is not.                             *)
THEOREM PrimeDecidesBelowSquare == PrimeSpec => []DecidesBelowSquare
  <1>1. DecidesBelowSquare
    BY PrimeDecided DEF DecidesBelowSquare
  <1>2. QED
    BY <1>1, PTL

(* The clients ask for no negative number, and for no prime from the       *)
(* square of the loop's last i on (2147117569 where int has 32 bits).      *)
NumbersWithinSquare ==
  \E e \in 5..Largest :
    /\ e % 6 = 5 /\ e * e <= Largest
    /\ \A n \in Numbers : n >= 0 /\ (Prime(n) => n < e * e)

LEMMA IsPrimeRight ==
  ASSUME NumbersWithinSquare, NEW n \in Numbers
  PROVE  is_prime(n) = Prime(n)
  <1>1. PICK e \in 5..Largest : /\ e % 6 = 5 /\ e * e <= Largest
                               /\ n >= 0 /\ (Prime(n) => n < e * e)
    BY DEF NumbersWithinSquare
  <1>2. n \in 0..Largest
    <2>1. n \in -(U32 \div 2)..Largest
      BY InputAssumption DEF Largest
    <2>2. U32 \div 2 \in Int
      BY U32Positive
    <2>3. QED
      BY <1>1, <2>1, <2>2, LargestInt
  <1>3. is_prime(n) => Prime(n)
    BY <1>2, NoCompositePrime
  <1>4. Prime(n) => is_prime(n)
    <2>1. ASSUME Prime(n)  PROVE  n \in 0..e * e - 1
      <3>1. n < e * e /\ e \in Nat
        BY <1>1, <2>1
      <3>2. e * e \in Nat
        BY <3>1, Squares
      <3>3. QED
        BY <1>2, <3>1, <3>2, LargestInt
    <2>2. QED
      BY <1>1, <2>1, PrimesKnown
  <1>5. is_prime(n) \in BOOLEAN
    BY DEF is_prime
  <1>6. Prime(n) \in BOOLEAN
    BY DEF Prime
  <1>7. QED
    BY <1>3, <1>4, <1>5, <1>6

(* A client whose number arrived whole is sent whether that number is      *)
(* prime, in spite of byte orders, pieces, other clients and deaths.       *)
THEOREM PrimeAnswersAsked ==
  ASSUME NumbersWithinSquare
  PROVE  PrimeSpec => []AnswersAsked
  <1>1. PInv => AnswersAsked
    <2> SUFFICES ASSUME PInv, NEW c \in Clients, heard[c] = Word, down[c] # <<>>
                 PROVE  down[c] = <<Prime(num[c])>>
      BY DEF AnswersAsked
    <2>1. down[c] = <<is_prime(num[c])>>
      BY DEF PInv, ClientOK
    <2>2. is_prime(num[c]) = Prime(num[c])
      BY IsPrimeRight DEF PInv, FieldsOK
    <2>3. QED
      BY <2>1, <2>2
  <1>2. QED
    BY <1>1, PrimePInv, PTL

(* A caller is never told that a prime is none, although three bytes of    *)
(* the int its answer is read into were never received.                    *)
THEOREM PrimePrimesConfirmed ==
  ASSUME NumbersWithinSquare
  PROVE  PrimeSpec => []PrimesConfirmed
  <1>1. PInv => PrimesConfirmed
    <2> SUFFICES ASSUME PInv, NEW c \in Clients, cpc[c] = "done", heard[c] = Word, Prime(num[c])
                 PROVE  result[c] = <<TRUE>>
      BY DEF PrimesConfirmed
    <2>1. down[c] = <<is_prime(num[c])>> /\ (down[c] = <<TRUE>> => result[c] = <<TRUE>>)
      BY DEF PInv, ClientOK
    <2>2. is_prime(num[c]) = TRUE
      <3>1. is_prime(num[c]) = Prime(num[c])
        BY IsPrimeRight DEF PInv, FieldsOK
      <3>2. Prime(num[c]) = TRUE
        BY DEF Prime
      <3>3. QED
        BY <3>1, <3>2
    <2>3. QED
      BY <2>1, <2>2
  <1>2. QED
    BY <1>1, PrimePInv, PTL
=============================================================================
