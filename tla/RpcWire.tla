--------------------------------- MODULE RpcWire --------------------------------
(***************************************************************************)
(* One request, byte by byte: the generated serialisers on a machine of    *)
(* either byte order, send_all, the TCP stream, recv_rpc_buffer and the    *)
(* deserialisers on a machine of either byte order.                        *)
(***************************************************************************)
EXTENDS Words, SequencesExt, FiniteSets

CONSTANTS Requests,  \* arguments of the calls made, as typed values
          MethodIds, \* ids of the methods
          Window,    \* bytes TCP holds between the two programs
          MaxSent    \* bound on the bytes a sender puts on the stream

(* What a caller can pass, in C's types.                                   *)
Values == [type : {"int32"}, value : -(U32 \div 2)..(U32 \div 2) - 1]
            \cup [type : {"bool"}, value : BOOLEAN]
            \cup [type : {"string"}, value : Seq(Bytes)]

ASSUME RequestsAssumption == /\ \A r \in Requests : r \in Seq(Values)
                             /\ MethodIds \subseteq 0..U32 - 1

VARIABLES
  request, method_id, \* what the client's caller asks for
  corder, sorder,     \* byte orders of client and server
  next,      \* fields the client has serialised
  buffer,    \* the client's RpcBuffer
  sent,      \* of send_all, a uint32_t
  onwire,    \* every byte the client gave to send
  taken,     \* how many of them the server took
  header,    \* bytes of network_length received
  payload,   \* bytes of the payload received
  position,  \* of the server's RpcBuffer
  decoded    \* what the server deserialised

clientVars == <<next, buffer, sent>>
serverVars == <<header, payload, position, decoded>>
vars == <<request, method_id, corder, sorder, clientVars, onwire, taken, serverVars>>

Init == /\ request \in Requests /\ method_id \in MethodIds
        /\ corder \in Orders /\ sorder \in Orders
        /\ next = 0 /\ buffer = <<>> /\ sent = 0
        /\ onwire = <<>> /\ taken = 0
        /\ header = <<>> /\ payload = <<>> /\ position = 0 /\ decoded = <<>>

-----------------------------------------------------------------------------
(* The client: generate_total_len adds in size_t and stores in uint32_t.   *)
SizeNul(a) == IF a.type = "string" THEN Word + Len(a.value) + 1 ELSE Word  \* mutant: counts the NUL
Size(a) == IF a.type = "string" THEN Word + Len(a.value) ELSE Word
SizeUpTo(args) ==
  LET sum[n \in 0..Len(args)] == IF n = 0 THEN Word ELSE sum[n - 1] + Size(args[n])
  IN  sum
SumOfSizes(args) == SizeUpTo(args)[Len(args)]
total_len == SumOfSizes(request) % U32

Fields == <<[type |-> "uint32", value |-> total_len], [type |-> "uint32", value |-> method_id]>>
            \o request

PackedHostOrder(v) == InMemory(v, corder)          \* mutant: no htonl
Packed(v) == InMemory(htonl(v, corder), corder)

(* What the stub serialises for a field: nothing is generated for a bool.  *)
Serialized(f) ==
  CASE f.type = "uint32" -> Packed(f.value)
    [] f.type = "int32"  -> Packed(Bits(f.value))
    [] f.type = "bool"   -> <<>>
    [] f.type = "string" -> LET len == Len(f.value) % U32
                            IN  Packed(len) \o SubSeq(f.value, 1, len)

Serialize == /\ next < Len(Fields)
             /\ next' = next + 1
             /\ buffer' = buffer \o Serialized(Fields[next + 1])
             /\ UNCHANGED <<request, method_id, corder, sorder, sent, onwire, taken, serverVars>>

InFlight == Len(onwire) - taken

(* send_all: send takes any number of bytes from buffer->data + sent.      *)
FromStart == buffer                                \* mutant: sends from buffer->data
FromSent == SubSeq(buffer, sent + 1, Len(buffer))

Send == /\ next = Len(Fields) /\ sent < Len(buffer) /\ Len(onwire) < MaxSent
        /\ \E n \in 1..Len(buffer) - sent :
             /\ InFlight + n <= Window
             /\ onwire' = onwire \o SubSeq(FromSent, 1, n)
             /\ sent' = (sent + n) % U32
        /\ UNCHANGED <<request, method_id, corder, sorder, next, buffer, taken, serverVars>>

-----------------------------------------------------------------------------
(* The server: recv_all takes what has arrived, up to what it still needs. *)
Arrived(n) == SubSeq(onwire, taken + 1, taken + n)

RecvHeader == /\ Len(header) < Word
              /\ \E n \in 1..Word - Len(header) :
                   /\ n <= InFlight
                   /\ header' = header \o Arrived(n)
                   /\ taken' = taken + n
              /\ UNCHANGED <<request, method_id, corder, sorder, clientVars, onwire,
                             payload, position, decoded>>

payload_length == ntohl(FromMemory(header, sorder), sorder)

RecvPayload == /\ Len(header) = Word /\ Len(payload) < payload_length
               /\ \E n \in 1..payload_length - Len(payload) :
                    /\ n <= InFlight
                    /\ payload' = payload \o Arrived(n)
                    /\ taken' = taken + n
               /\ UNCHANGED <<request, method_id, corder, sorder, clientVars, onwire,
                              header, position, decoded>>

(* The types the dispatcher deserialises: the method's id and parameters.  *)
Types == <<"uint32">> \o [i \in DOMAIN request |-> request[i].type]

Unpacked(at) == ntohl(FromMemory(SubSeq(payload, at + 1, at + Word), sorder), sorder)

(* What rpc_deserialize_* stores for a value of this type, or a refusal.   *)
HasWord == Word <= Len(payload) - position
HasString == HasWord /\ Unpacked(position) <= Len(payload) - position - Word
Acceptable(type) == CASE type = "string" -> HasString
                      [] type = "bool" -> HasWord /\ Unpacked(position) <= 1
                      [] OTHER -> HasWord
Deserialized(type) ==
  LET u == Unpacked(position)
  IN  CASE type = "int32"  -> Signed(u)
        [] type = "bool"   -> u = 1
        [] type = "string" -> SubSeq(payload, position + Word + 1, position + Word + u)
        [] OTHER -> u

Consumed(type) == Word + (IF type = "string" THEN Unpacked(position) ELSE 0)

Deserialize ==
  /\ Len(header) = Word /\ Len(payload) = payload_length
  /\ Len(decoded) < Len(Types)
  /\ LET type == Types[Len(decoded) + 1]
     IN  /\ Acceptable(type)
         /\ decoded' = Append(decoded, [type |-> type, value |-> Deserialized(type)])
         /\ position' = position + Consumed(type)
  /\ UNCHANGED <<request, method_id, corder, sorder, clientVars, onwire, taken, header, payload>>

Client == Serialize \/ Send
Server == RecvHeader \/ RecvPayload \/ Deserialize
Next == Client \/ Server

Spec == Init /\ [][Next]_vars /\ WF_vars(Client) /\ WF_vars(Server)

-----------------------------------------------------------------------------
(* Properties *)

(* Every byte of the request is put on the stream once, in order, and the  *)
(* server gets the stream as it is, however both sides cut it up.          *)
EveryByteOnce == /\ IsPrefix(onwire, buffer)
                 /\ header \o payload = SubSeq(onwire, 1, taken)

(* Whatever the byte orders of the two machines, the server deserialises   *)
(* the values the client's caller passed, sign included.                   *)
RoundTrip == IsPrefix(decoded, Tail(Fields))

(* ... and all of them, when nothing fails and none of them is a bool.     *)
Bools == {i \in DOMAIN request : request[i].type = "bool"}
Delivered == Bools = {} => <>(decoded = Tail(Fields))

(* [4-byte payload length][method_id][Args]: the payload length describes  *)
(* the bytes following the prefix (README.md:841) ...                      *)
PrefixDescribes == next = Len(Fields) => total_len = Len(buffer) - Word

(* ... which is so for any mix of integers and strings; generate_total_len *)
(* counts a word for a bool too, and nothing is sent for one.              *)
PrefixExact == Bools = {} => PrefixDescribes
=============================================================================
