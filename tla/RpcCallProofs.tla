----------------------------- MODULE RpcCallProofs -----------------------------
(* Theorems of RpcCall, for every service, every set of clients and every  *)
(* combination of failures.                                                *)
EXTENDS RpcCall, SequenceTheorems, FiniteSetTheorems, TLAPS

-----------------------------------------------------------------------------
(* What the operators of the wire format return *)

LEMMA ServiceFacts ==
  /\ \A m \in DOMAIN Service :
       /\ m \in Nat \ {0}
       /\ Params(m) \in Seq(Types)
       /\ Service[m].ret \in Types
  <1>1. DOMAIN Service = 1 .. Len(Service) /\ Len(Service) \in Nat
    BY ServiceAssumption, LenProperties
  <1>2. \A m \in DOMAIN Service : Service[m] \in [params : Seq(Types), ret : Types]
    BY <1>1, ServiceAssumption, ElementOfSeq
  <1>3. QED
    BY <1>1, <1>2 DEF Params

LEMMA RequestFacts ==
  ASSUME NEW r \in Requests
  PROVE  /\ r.m \in DOMAIN Service
         /\ r.args \in Seq(Values)
         /\ Len(r.args) = Len(Params(r.m))
         /\ r = [m |-> r.m, args |-> r.args]
  BY RequestsAssumption DEF Params

LEMMA ConcatNat ==
  ASSUME NEW s \in Seq(Nat), NEW t \in Seq(Nat)
  PROVE  s \o t \in Seq(Nat)
  BY ConcatProperties

LEMMA SuffixNat ==
  ASSUME NEW s \in Seq(Nat), NEW k \in Nat
  PROVE  SubSeq(s, k + 1, Len(s)) \in Seq(Nat)
  <1>1. \A i \in k + 1 .. Len(s) : s[i] \in Nat
    BY ElementOfSeq, LenProperties
  <1>2. QED
    BY <1>1, SubSeqProperties, LenProperties

LEMMA PrefixNat ==
  ASSUME NEW s \in Seq(Nat), NEW k \in Nat, k <= Len(s)
  PROVE  SubSeq(s, 1, k) \in Seq(Nat)
  <1>1. \A i \in 1 .. k : s[i] \in Nat
    BY ElementOfSeq, LenProperties
  <1>2. QED
    BY <1>1, SubSeqProperties, LenProperties

(* One recv splits a queue into two sequences of cells.                    *)
LEMMA ChunkType ==
  ASSUME NEW queue \in Seq(Nat), NEW want \in Nat
  PROVE  /\ Chunk(queue, want) \in Seq(Nat)
         /\ Rest(queue, want) \in Seq(Nat)
  <1>1. Chunk(queue, want) \in Seq(Nat)
    BY PrefixNat, LenProperties DEF Chunk
  <1>2. Len(Chunk(queue, want)) \in Nat
    BY <1>1, LenProperties
  <1>3. QED
    BY <1>1, <1>2, SuffixNat DEF Rest

LEMMA GarbageType ==
  ASSUME NEW n \in Nat, NEW g \in [1..n -> Garbage]
  PROVE  g \in Seq(Nat)
  <1>1. g \in [1..n -> Nat]
    BY DataAssumption
  <1>2. QED
    BY <1>1, SeqDef

LEMMA StringCharsFinite ==
  ASSUME NEW r \in Requests
  PROVE  IsFiniteSet(StringChars(r))
  <1> DEFINE S == {j \in DOMAIN r.args : IsString(r.m, j)}
             T == {{i} \X DOMAIN r.args[i] : i \in S}
             f == [i \in S |-> {i} \X DOMAIN r.args[i]]
  <1>1. IsFiniteSet(DOMAIN r.args)
    <2>1. DOMAIN r.args = 1 .. Len(r.args) /\ Len(r.args) \in Nat
      BY RequestFacts, LenProperties
    <2>2. QED
      BY <2>1, FS_Interval
  <1>2. IsFiniteSet(S)
    BY <1>1, FS_Subset
  <1>3. f \in Surjection(S, T)
    BY DEF Surjection
  <1>4. IsFiniteSet(T)
    BY <1>2, <1>3, FS_Surjection
  <1>5. ASSUME NEW i \in S
        PROVE  IsFiniteSet({i} \X DOMAIN r.args[i])
    <2>1. r.args[i] \in Seq(Nat)
      BY RequestFacts, ElementOfSeq, LenProperties DEF Values
    <2>2. IsFiniteSet(DOMAIN r.args[i])
      BY <2>1, LenProperties, FS_Interval
    <2>3. IsFiniteSet({i})
      BY FS_Singleton
    <2>4. QED
      BY <2>2, <2>3, FS_Product
  <1>6. IsFiniteSet(UNION T)
    BY <1>4, <1>5, FS_UNION
  <1>7. QED
    BY <1>6 DEF StringChars

LEMMA ClientTotalLenType ==
  ASSUME NEW r \in Requests
  PROVE  ClientTotalLen(r) \in Nat
  <1>1. Cardinality(StringChars(r)) \in Nat
    BY StringCharsFinite, FS_CardinalityType
  <1>2. Len(Params(r.m)) \in Nat
    BY RequestFacts, ServiceFacts, LenProperties
  <1>3. QED
    BY <1>1, <1>2 DEF ClientTotalLen

LEMMA ServerTotalLenType ==
  ASSUME NEW m \in DOMAIN Service, NEW res \in Values
  PROVE  ServerTotalLen(m, res) \in Nat
  <1> DEFINE S == {i \in DOMAIN Params(m) : IsString(m, i)}
  <1>1. IsFiniteSet(S)
    BY ServiceFacts, LenProperties, FS_Interval, FS_Subset
  <1>2. IsFiniteSet(DOMAIN res)
    BY LenProperties, FS_Interval DEF Values
  <1>3. Cardinality(S \X DOMAIN res) \in Nat
    BY <1>1, <1>2, FS_Product, FS_CardinalityType
  <1>4. Len(Params(m)) \in Nat
    BY ServiceFacts, LenProperties
  <1>5. QED
    BY <1>3, <1>4 DEF ServerTotalLen

LEMMA PrefixedString ==
  ASSUME NEW v \in Values
  PROVE  <<Len(v)>> \o v \in Seq(Nat)
  <1>1. Len(v) \in Nat
    BY LenProperties DEF Values
  <1>2. <<Len(v)>> \in Seq(Nat)
    BY <1>1
  <1>3. QED
    BY <1>2, ConcatNat DEF Values

LEMMA FieldType ==
  ASSUME NEW r \in Requests, NEW k \in Nat \ {0}, k <= Len(Params(r.m)) + 2
  PROVE  Field(r, k) \in Seq(Nat)
  <1>1. CASE k = 1
    BY <1>1, ClientTotalLenType DEF Field
  <1>2. CASE k = 2
    <2>1. r.m - 1 \in Nat
      BY RequestFacts, ServiceFacts
    <2>2. QED
      BY <1>2, <2>1 DEF Field
  <1>3. CASE k > 2
    <2>1. k - 2 \in 1 .. Len(r.args)
      BY <1>3, RequestFacts, ServiceFacts, LenProperties
    <2>2. r.args[k - 2] \in Values
      BY <2>1, RequestFacts, ElementOfSeq
    <2>3. EncodeArg(Params(r.m)[k - 2], r.args[k - 2]) \in Seq(Nat)
      BY <2>2, PrefixedString DEF EncodeArg, Values
    <2>4. Field(r, k) = EncodeArg(Params(r.m)[k - 2], r.args[k - 2])
      BY <1>3 DEF Field
    <2>5. QED
      BY <2>3, <2>4
  <1>4. QED
    BY <1>1, <1>2, <1>3

LEMMA ResultType ==
  ASSUME NEW t \in Types, NEW v \in ResultsOf(t)
  PROVE  /\ v \in Values
         /\ EncodeResult(t, v) \in Seq(Nat)
  <1>1. v \in Values
    <2>1. CASE t = "int32"
      <3>1. PICK n \in Ints : v = <<n>>
        BY <2>1 DEF ResultsOf
      <3>2. QED
        BY <3>1, DataAssumption DEF Values
    <2>2. CASE t = "bool"
      <3>1. v = <<0>> \/ v = <<1>>
        BY <2>2 DEF ResultsOf
      <3>2. <<0>> \in Values /\ <<1>> \in Values
        BY DEF Values
      <3>3. QED
        BY <3>1, <3>2
    <2>3. CASE t = "string"
      BY <2>3, DataAssumption DEF ResultsOf
    <2>4. QED
      BY <2>1, <2>2, <2>3 DEF Types
  <1>2. QED
    BY <1>1, PrefixedString DEF EncodeResult, Values

LEMMA DecodedType ==
  ASSUME NEW t, NEW buf \in Seq(Nat), NEW pos \in Nat \ {0}, Decodes(t, buf, pos)
  PROVE  /\ Decoded(t, buf, pos) \in Values
         /\ After(t, buf, pos) \in Nat \ {0}
  <1>1. buf[pos] \in Nat /\ Len(buf) \in Nat
    BY ElementOfSeq, LenProperties DEF Decodes
  <1>2. CASE t = "string"
    <2>1. \A i \in pos + 1 .. pos + buf[pos] : buf[i] \in Nat
      BY <1>1, <1>2, ElementOfSeq DEF Decodes
    <2>2. SubSeq(buf, pos + 1, pos + buf[pos]) \in Seq(Nat)
      BY <1>1, <2>1, SubSeqProperties
    <2>3. QED
      BY <1>1, <1>2, <2>2 DEF Decoded, After, Values
  <1>3. CASE t # "string"
    BY <1>1, <1>3 DEF Decoded, After, Values
  <1>4. QED
    BY <1>2, <1>3

-----------------------------------------------------------------------------
(* Type correctness *)

(* A stub in progress has a request, and stops at the last field of it.    *)
StubCalled ==
  \A c \in Clients : cpc[c] \in InStub =>
    /\ issued[c] # <<>>
    /\ cpc[c] = "serialize" => field[c] <= Len(Params(Request(c).m)) + 2

LEMMA InitTypeOK == Init => TypeOK
  BY DataAssumption DEF Init, TypeOK, ClientTypeOK, ServerTypeOK, NetTypeOK, InStub, Gone, Serving

LEMMA RequestType ==
  ASSUME TypeOK, NEW c \in Clients, issued[c] # <<>>
  PROVE  Request(c) \in Requests
  BY ElementOfSeq, EmptySeq DEF TypeOK, ClientTypeOK, Request

LEMMA HangupType ==
  ASSUME TypeOK, NEW c \in Clients, NEW outcome \in Gone, Hangup(c, outcome)
  PROVE  TypeOK'
  <1>1. cpc' \in [Clients -> {"start", "ready"} \cup InStub \cup Gone]
    BY DEF Hangup, TypeOK, ClientTypeOK
  <1>2. /\ cout' \in [Clients -> Seq(Nat)] /\ cbuf' \in [Clients -> Seq(Nat)]
        /\ down' \in [Clients -> Seq(Nat)]
    BY DEF Hangup, TypeOK, ClientTypeOK, NetTypeOK
  <1>3. srst' \in [Clients -> BOOLEAN]
    BY DEF Hangup, TypeOK, NetTypeOK, ServerOpen
  <1>4. QED
    BY <1>1, <1>2, <1>3
    DEF Hangup, TypeOK, ClientTypeOK, ServerTypeOK, NetTypeOK, serverVars, serverBuf

LEMMA ContinueType ==
  ASSUME TypeOK, ServerContinue
  PROVE  TypeOK'
  BY DEF ServerContinue, TypeOK, ClientTypeOK, ServerTypeOK, NetTypeOK, clientVars, serverBuf,
         netVars

LEMMA CallType ==
  ASSUME TypeOK, NEW c \in Clients, Call(c)
  PROVE  TypeOK'
  <1>1. cpc' \in [Clients -> {"start", "ready"} \cup InStub \cup Gone]
    BY DEF Call, TypeOK, ClientTypeOK, InStub
  <1>2. issued' \in [Clients -> Seq(Requests)]
    BY AppendProperties DEF Call, TypeOK, ClientTypeOK
  <1>3. field' \in [Clients -> Nat \ {0}]
    BY DEF Call, TypeOK, ClientTypeOK
  <1>4. QED
    BY <1>1, <1>2, <1>3
    DEF Call, TypeOK, ClientTypeOK, ServerTypeOK, NetTypeOK, serverVars, serverBuf, netVars

LEMMA SerializeType ==
  ASSUME TypeOK, StubCalled, NEW c \in Clients, Serialize(c)
  PROVE  TypeOK'
  <1>1. Request(c) \in Requests /\ field[c] <= Len(Params(Request(c).m)) + 2
    BY RequestType DEF StubCalled, Serialize, InStub
  <1>2. cout[c] \in Seq(Nat) /\ field[c] \in Nat \ {0}
    BY DEF TypeOK, ClientTypeOK
  <1>3. cout[c] \o Field(Request(c), field[c]) \in Seq(Nat)
    BY <1>1, <1>2, FieldType, ConcatNat
  <1>4. cout' \in [Clients -> Seq(Nat)]
    BY <1>3 DEF Serialize, TypeOK, ClientTypeOK
  <1>5. field' \in [Clients -> Nat \ {0}]
    BY <1>2 DEF Serialize, TypeOK, ClientTypeOK
  <1>6. cpc' \in [Clients -> {"start", "ready"} \cup InStub \cup Gone]
    BY DEF Serialize, TypeOK, ClientTypeOK, InStub
  <1>7. QED
    BY <1>4, <1>5, <1>6
    DEF Serialize, TypeOK, ClientTypeOK, ServerTypeOK, NetTypeOK, serverVars, serverBuf, netVars

LEMMA SendType ==
  ASSUME TypeOK, NEW c \in Clients, Send(c)
  PROVE  TypeOK'
  <1>1. PICK k \in 1..Len(cout[c]) :
          /\ cout' = [cout EXCEPT ![c] = SubSeq(@, k + 1, Len(@))]
          /\ IF ServerOpen(c)
               THEN /\ up' = [up EXCEPT ![c] = @ \o SubSeq(cout[c], 1, k)]
                    /\ UNCHANGED crst
               ELSE /\ \E b \in BOOLEAN : crst' = [crst EXCEPT ![c] = b]
                    /\ UNCHANGED up
    BY DEF Send
  <1>2. cout[c] \in Seq(Nat) /\ up[c] \in Seq(Nat)
    BY DEF TypeOK, ClientTypeOK, NetTypeOK
  <1>3. k \in Nat /\ k <= Len(cout[c])
    BY <1>2, LenProperties
  <1>4. SubSeq(cout[c], k + 1, Len(cout[c])) \in Seq(Nat)
    BY <1>2, <1>3, SuffixNat
  <1>5. up[c] \o SubSeq(cout[c], 1, k) \in Seq(Nat)
    BY <1>2, <1>3, PrefixNat, ConcatNat
  <1>6. cout' \in [Clients -> Seq(Nat)]
    BY <1>1, <1>4 DEF TypeOK, ClientTypeOK
  <1>7. up' \in [Clients -> Seq(Nat)]
    BY <1>1, <1>5 DEF TypeOK, NetTypeOK
  <1>8. crst' \in [Clients -> BOOLEAN]
    BY <1>1 DEF TypeOK, NetTypeOK
  <1>9. QED
    BY <1>6, <1>7, <1>8
    DEF Send, TypeOK, ClientTypeOK, ServerTypeOK, NetTypeOK, serverVars, serverBuf

LEMMA SendReturnsType ==
  ASSUME TypeOK, NEW c \in Clients, SendReturns(c)
  PROVE  TypeOK'
  <1>1. cpc' \in [Clients -> {"start", "ready"} \cup InStub \cup Gone]
    BY DEF SendReturns, TypeOK, ClientTypeOK, InStub
  <1>2. cout' \in [Clients -> Seq(Nat)]
    BY DEF SendReturns, TypeOK, ClientTypeOK
  <1>3. QED
    BY <1>1, <1>2
    DEF SendReturns, TypeOK, ClientTypeOK, ServerTypeOK, NetTypeOK, serverVars, serverBuf, netVars

LEMMA RecvHeaderType ==
  ASSUME TypeOK, NEW c \in Clients, RecvHeader(c)
  PROVE  TypeOK'
  <1>1. down[c] \in Seq(Nat)
    BY DEF TypeOK, NetTypeOK
  <1>2. down[c] # <<>> => Head(down[c]) \in Nat /\ Tail(down[c]) \in Seq(Nat)
    BY <1>1, HeadTailProperties
  <1>3. cpc' \in [Clients -> {"start", "ready"} \cup InStub \cup Gone]
    BY DEF RecvHeader, TypeOK, ClientTypeOK, InStub
  <1>4. cwant' \in [Clients -> Nat]
    BY <1>2, DataAssumption DEF RecvHeader, TypeOK, ClientTypeOK
  <1>5. down' \in [Clients -> Seq(Nat)]
    BY <1>2 DEF RecvHeader, TypeOK, NetTypeOK
  <1>6. QED
    BY <1>3, <1>4, <1>5
    DEF RecvHeader, TypeOK, ClientTypeOK, ServerTypeOK, NetTypeOK, serverVars, serverBuf

LEMMA RecvPayloadType ==
  ASSUME TypeOK, NEW c \in Clients, RecvPayload(c)
  PROVE  TypeOK'
  <1> DEFINE missing == cwant[c] - Len(cbuf[c])
  <1>1. down[c] \in Seq(Nat) /\ cbuf[c] \in Seq(Nat) /\ cwant[c] \in Nat
    BY DEF TypeOK, ClientTypeOK, NetTypeOK
  <1>2. missing \in Nat
    BY <1>1, LenProperties DEF RecvPayload
  <1>3. /\ cbuf[c] \o Chunk(down[c], missing) \in Seq(Nat)
        /\ Rest(down[c], missing) \in Seq(Nat)
    BY <1>1, <1>2, ChunkType, ConcatNat
  <1>4. \A g \in [1..missing -> Garbage] : cbuf[c] \o g \in Seq(Nat)
    BY <1>1, <1>2, GarbageType, ConcatNat
  <1>5. cbuf' \in [Clients -> Seq(Nat)]
    BY <1>3, <1>4 DEF RecvPayload, TypeOK, ClientTypeOK
  <1>6. down' \in [Clients -> Seq(Nat)]
    BY <1>3 DEF RecvPayload, TypeOK, NetTypeOK
  <1>7. QED
    BY <1>5, <1>6
    DEF RecvPayload, TypeOK, ClientTypeOK, ServerTypeOK, NetTypeOK, serverVars, serverBuf

LEMMA ReturnTypeOK ==
  ASSUME TypeOK, StubCalled, NEW c \in Clients, Return(c)
  PROVE  TypeOK'
  <1>1. Request(c) \in Requests
    BY RequestType DEF StubCalled, Return, Received, InStub
  <1>2. cbuf[c] \in Seq(Nat)
    BY DEF TypeOK, ClientTypeOK
  <1>3. Decoded(ReturnType(c), cbuf[c], 1) \in Values
    BY <1>2, DecodedType DEF Return
  <1>4. [req |-> Request(c), res |-> Decoded(ReturnType(c), cbuf[c], 1)]
          \in [req : Requests, res : Values]
    BY <1>1, <1>3
  <1>5. returned' \in [Clients -> Seq([req : Requests, res : Values])]
    BY <1>4, AppendProperties DEF Return, TypeOK, ClientTypeOK
  <1>6. cpc' \in [Clients -> {"start", "ready"} \cup InStub \cup Gone]
    BY DEF Return, TypeOK, ClientTypeOK
  <1>7. cbuf' \in [Clients -> Seq(Nat)]
    BY DEF Return, TypeOK, ClientTypeOK
  <1>8. QED
    BY <1>5, <1>6, <1>7
    DEF Return, TypeOK, ClientTypeOK, ServerTypeOK, NetTypeOK, serverVars, serverBuf, netVars

LEMMA ConnectType ==
  ASSUME TypeOK, NEW c \in Clients, Connect(c) \/ ConnectRefused(c)
  PROVE  TypeOK'
  <1>1. cpc' \in [Clients -> {"start", "ready"} \cup InStub \cup Gone]
    BY DEF Connect, ConnectRefused, TypeOK, ClientTypeOK, Gone
  <1>2. sEnd' \in [Clients -> {"none", "queued", "open", "closed"}]
    BY DEF Connect, ConnectRefused, TypeOK, NetTypeOK, netVars
  <1>3. backlog' \in Seq(Clients)
    <2>1. backlog \in Seq(Clients) /\ Append(backlog, c) \in Seq(Clients)
      BY AppendProperties DEF TypeOK, NetTypeOK
    <2>2. QED
      BY <2>1 DEF Connect, ConnectRefused, netVars
  <1>4. QED
    BY <1>1, <1>2, <1>3
    DEF Connect, ConnectRefused, TypeOK, ClientTypeOK, ServerTypeOK, NetTypeOK, serverVars,
        serverBuf, netVars

LEMMA ClientStepType ==
  ASSUME TypeOK, StubCalled, NEW c \in Clients, ClientStep(c) \/ Quit(c)
  PROVE  TypeOK'
  <1>1. CASE \E outcome \in Gone : Hangup(c, outcome)
    BY <1>1, HangupType
  <1>2. CASE ClientKilled(c) \/ NoRoom(c) \/ BadResponse(c) \/ Close(c) \/ Quit(c)
    BY <1>1, <1>2 DEF ClientKilled, NoRoom, BadResponse, Close, Quit, Gone
  <1>3. QED
    BY <1>2, CallType, SerializeType, SendType, SendReturnsType, RecvHeaderType,
       RecvPayloadType, ReturnTypeOK DEF ClientStep

(* Between the switch on method_id and the end of the call, the payload    *)
(* names a method of the service, and no more parameters have been         *)
(* deserialised than it has.                                               *)
MethodKnown ==
  /\ spc \in {"header", "payload", "method"} => sargs = <<>>
  /\ spc = "args" => /\ sbuf # <<>> /\ Method \in DOMAIN Service
                     /\ Len(sargs) <= Len(Params(Method))

LEMMA AcceptType ==
  ASSUME TypeOK, Accept
  PROVE  TypeOK'
  <1>1. Head(backlog) \in Clients /\ Tail(backlog) \in Seq(Clients)
    BY HeadTailProperties DEF Accept, TypeOK, NetTypeOK
  <1>2. sEnd' \in [Clients -> {"none", "queued", "open", "closed"}]
    BY DEF Accept, TypeOK, NetTypeOK
  <1>3. ServerTypeOK'
    <2>1. <<>> \in Seq(Nat) /\ <<>> \in Seq(Values)
      BY EmptySeq
    <2>2. spc' = "header" /\ "header" \in Serving
      BY DEF Accept, Serving
    <2>3. /\ cur' \in Clients /\ swant' \in Nat /\ spos' \in Nat \ {0}
          /\ sbuf' \in Seq(Nat) /\ sargs' \in Seq(Values) /\ sout' \in Seq(Nat)
      BY <1>1, <2>1 DEF Accept
    <2>4. served' \in [Clients -> Seq([req : Calls, res : Values])]
      BY DEF Accept, TypeOK, ServerTypeOK
    <2>5. QED
      BY <2>2, <2>3, <2>4 DEF ServerTypeOK
  <1>4. QED
    BY <1>1, <1>2, <1>3 DEF Accept, TypeOK, ClientTypeOK, NetTypeOK, clientVars

LEMMA ServerRecvHeaderType ==
  ASSUME TypeOK, ServerRecvHeader
  PROVE  TypeOK'
  <1>1. up[cur] \in Seq(Nat)
    BY DEF TypeOK, NetTypeOK, ServerTypeOK
  <1>2. up[cur] # <<>> => Head(up[cur]) \in Nat /\ Tail(up[cur]) \in Seq(Nat)
    BY <1>1, HeadTailProperties
  <1>3. swant' \in Nat
    BY <1>2, DataAssumption DEF ServerRecvHeader
  <1>4. up' \in [Clients -> Seq(Nat)]
    BY <1>2 DEF ServerRecvHeader, TypeOK, NetTypeOK
  <1>5. spc' = "payload" /\ "payload" \in Serving
    BY DEF ServerRecvHeader, Serving
  <1>6. QED
    BY <1>3, <1>4, <1>5
    DEF ServerRecvHeader, TypeOK, ClientTypeOK, ServerTypeOK, NetTypeOK, clientVars

LEMMA ServerRecvPayloadType ==
  ASSUME TypeOK, ServerRecvPayload
  PROVE  TypeOK'
  <1> DEFINE missing == swant - Len(sbuf)
  <1>1. up[cur] \in Seq(Nat) /\ sbuf \in Seq(Nat) /\ swant \in Nat
    BY DEF TypeOK, ServerTypeOK, NetTypeOK
  <1>2. missing \in Nat
    BY <1>1, LenProperties DEF ServerRecvPayload
  <1>3. /\ sbuf \o Chunk(up[cur], missing) \in Seq(Nat)
        /\ Rest(up[cur], missing) \in Seq(Nat)
    BY <1>1, <1>2, ChunkType, ConcatNat
  <1>4. \A g \in [1..missing -> Garbage] : sbuf \o g \in Seq(Nat)
    BY <1>1, <1>2, GarbageType, ConcatNat
  <1>5. sbuf' \in Seq(Nat)
    BY <1>3, <1>4 DEF ServerRecvPayload
  <1>6. up' \in [Clients -> Seq(Nat)]
    BY <1>3 DEF ServerRecvPayload, TypeOK, NetTypeOK
  <1>7. QED
    BY <1>5, <1>6
    DEF ServerRecvPayload, TypeOK, ClientTypeOK, ServerTypeOK, NetTypeOK, clientVars

LEMMA ReadMethodType ==
  ASSUME TypeOK, ServerReceived \/ ReadMethod
  PROVE  TypeOK'
  <1>1. spc' \in Serving /\ spos' \in Nat \ {0}
    BY DEF ServerReceived, ReadMethod, Serving, serverBuf, TypeOK, ServerTypeOK
  <1>2. QED
    BY <1>1 DEF ServerReceived, ReadMethod, TypeOK, ClientTypeOK, ServerTypeOK, NetTypeOK,
                clientVars, serverBuf, netVars

LEMMA ReadArgType ==
  ASSUME TypeOK, ReadArg
  PROVE  TypeOK'
  <1>1. sbuf \in Seq(Nat) /\ spos \in Nat \ {0} /\ sargs \in Seq(Values)
    BY DEF TypeOK, ServerTypeOK
  <1>2. /\ Decoded(NextType, sbuf, spos) \in Values
        /\ After(NextType, sbuf, spos) \in Nat \ {0}
    BY <1>1, DecodedType DEF ReadArg
  <1>3. sargs' \in Seq(Values)
    BY <1>1, <1>2, AppendProperties DEF ReadArg
  <1>4. QED
    BY <1>2, <1>3 DEF ReadArg, TypeOK, ClientTypeOK, ServerTypeOK, NetTypeOK, clientVars, netVars

LEMMA ExecuteType ==
  ASSUME TypeOK, MethodKnown, Execute
  PROVE  TypeOK'
  <1>1. Method \in DOMAIN Service
    BY DEF MethodKnown, Execute
  <1>2. PICK res \in ResultsOf(Service[Method].ret) :
          /\ served' = [served EXCEPT ![cur] =
               Append(@, [req |-> [m |-> Method, args |-> sargs], res |-> res])]
          /\ \/ /\ sout' = <<ServerTotalLen(Method, res)>> \o EncodeResult(Service[Method].ret, res)
                /\ spc' = "send"
             \/ sout' = EncodeResult(Service[Method].ret, res) /\ spc' = "send"
             \/ sout' = <<>> /\ spc' = "close"
    BY DEF Execute
  <1>3. Service[Method].ret \in Types
    BY <1>1, ServiceFacts
  <1>4. res \in Values /\ EncodeResult(Service[Method].ret, res) \in Seq(Nat)
    BY <1>2, <1>3, ResultType
  <1>5. <<ServerTotalLen(Method, res)>> \in Seq(Nat)
    BY <1>1, <1>4, ServerTotalLenType
  <1>6. sout' \in Seq(Nat)
    BY <1>2, <1>4, <1>5, ConcatNat, EmptySeq
  <1>7. [req |-> [m |-> Method, args |-> sargs], res |-> res] \in [req : Calls, res : Values]
    BY <1>1, <1>4 DEF Calls, TypeOK, ServerTypeOK
  <1>8. served' \in [Clients -> Seq([req : Calls, res : Values])]
    BY <1>2, <1>7, AppendProperties DEF TypeOK, ServerTypeOK
  <1>9. spc' \in Serving
    BY <1>2 DEF Serving
  <1>10. QED
    BY <1>6, <1>8, <1>9
    DEF Execute, TypeOK, ClientTypeOK, ServerTypeOK, NetTypeOK, clientVars, serverBuf, netVars

LEMMA ServerSendType ==
  ASSUME TypeOK, ServerSend
  PROVE  TypeOK'
  <1>1. PICK k \in 1..Len(sout) :
          /\ sout' = SubSeq(sout, k + 1, Len(sout))
          /\ IF ClientOpen(cur)
               THEN /\ down' = [down EXCEPT ![cur] = @ \o SubSeq(sout, 1, k)]
                    /\ UNCHANGED srst
               ELSE /\ \E b \in BOOLEAN : srst' = [srst EXCEPT ![cur] = b]
                    /\ UNCHANGED down
    BY DEF ServerSend
  <1>2. sout \in Seq(Nat) /\ down[cur] \in Seq(Nat)
    BY DEF TypeOK, ServerTypeOK, NetTypeOK
  <1>3. k \in Nat /\ k <= Len(sout)
    BY <1>2, LenProperties
  <1>4. sout' \in Seq(Nat)
    BY <1>1, <1>2, <1>3, SuffixNat
  <1>5. down[cur] \o SubSeq(sout, 1, k) \in Seq(Nat)
    BY <1>2, <1>3, PrefixNat, ConcatNat
  <1>6. down' \in [Clients -> Seq(Nat)] /\ srst' \in [Clients -> BOOLEAN]
    BY <1>1, <1>5 DEF TypeOK, NetTypeOK
  <1>7. QED
    BY <1>4, <1>6
    DEF ServerSend, TypeOK, ClientTypeOK, ServerTypeOK, NetTypeOK, clientVars, serverBuf

LEMMA ServerSentType ==
  ASSUME TypeOK, ServerSent
  PROVE  TypeOK'
  BY EmptySeq
  DEF ServerSent, TypeOK, ClientTypeOK, ServerTypeOK, NetTypeOK, Serving, clientVars,
      serverBuf, netVars

LEMMA ServerCloseType ==
  ASSUME TypeOK, ServerClose
  PROVE  TypeOK'
  <1>1. sEnd' \in [Clients -> {"none", "queued", "open", "closed"}]
    BY DEF ServerClose, TypeOK, NetTypeOK
  <1>2. /\ up' \in [Clients -> Seq(Nat)] /\ down' \in [Clients -> Seq(Nat)]
        /\ crst' \in [Clients -> BOOLEAN]
    BY EmptySeq DEF ServerClose, TypeOK, NetTypeOK
  <1>3. QED
    BY <1>1, <1>2
    DEF ServerClose, TypeOK, ClientTypeOK, ServerTypeOK, NetTypeOK, clientVars, serverBuf

LEMMA ServerKilledType ==
  ASSUME TypeOK, ServerKilled
  PROVE  TypeOK'
  <1>1. sEnd' \in [Clients -> {"none", "queued", "open", "closed"}]
    BY DEF ServerKilled, TypeOK, NetTypeOK
  <1>2. up' \in [Clients -> Seq(Nat)] /\ crst' \in [Clients -> BOOLEAN]
    BY EmptySeq DEF ServerKilled, TypeOK, NetTypeOK
  <1>3. backlog' \in Seq(Clients)
    BY EmptySeq DEF ServerKilled
  <1>4. QED
    BY <1>1, <1>2, <1>3
    DEF ServerKilled, TypeOK, ClientTypeOK, ServerTypeOK, NetTypeOK, clientVars, serverBuf

LEMMA ServerStepType ==
  ASSUME TypeOK, MethodKnown, ServerStep \/ Boot
  PROVE  TypeOK'
  <1>1. CASE Boot
    BY <1>1
    DEF Boot, TypeOK, ClientTypeOK, ServerTypeOK, NetTypeOK, clientVars, serverBuf, netVars
  <1>2. CASE ServerNoRoom \/ NoMethod \/ BadArg
    BY <1>2, ContinueType DEF ServerNoRoom, NoMethod, BadArg
  <1>3. QED
    BY <1>1, <1>2, AcceptType, ServerRecvHeaderType, ServerRecvPayloadType, ReadMethodType,
       ReadArgType, ExecuteType, ServerSendType, ServerSentType, ServerCloseType,
       ServerKilledType DEF ServerStep

-----------------------------------------------------------------------------
(* The descriptors, and at most one execution per connection *)

(* The server can still execute a method on the connection it holds.       *)
Undecided == spc \in {"header", "payload", "method", "args"}

(* Why a connection is not served twice: one that has been served is       *)
(* behind accept for good, and the server, if it still holds it, is past   *)
(* the call.  A client that has not connected has no connection to be      *)
(* mistaken for.                                                           *)
ServedOnce ==
  \A c \in Clients :
    /\ served[c] # <<>> => /\ Len(served[c]) = 1
                           /\ sEnd[c] \in {"open", "closed"}
                           /\ ~ (Undecided /\ cur = c)
    /\ cpc[c] = "start" => sEnd[c] = "none"

IInv == TypeOK /\ StubCalled /\ MethodKnown /\ FdDiscipline /\ ServedOnce

LEMMA InitIInv == Init => IInv
  <1>1. Init => StubCalled /\ MethodKnown
    BY DEF Init, StubCalled, MethodKnown, InStub
  <1>2. Init => FdDiscipline
    BY DEF Init, FdDiscipline, Serving, Holds, NoneTwice
  <1>3. Init => ServedOnce
    BY DEF Init, ServedOnce, Undecided
  <1>4. QED
    BY <1>1, <1>2, <1>3, InitTypeOK DEF IInv

(* A client's step leaves alone what the server and accept see of it, and  *)
(* every other client.                                                     *)
LEMMA ClientFrame ==
  ASSUME TypeOK, NEW c \in Clients, ClientStep(c) \/ Quit(c)
  PROVE  /\ UNCHANGED <<serverVars, sEnd, backlog>>
         /\ cpc[c] # "start" /\ cpc'[c] # "start"
         /\ \A d \in Clients \ {c} : /\ cpc'[d] = cpc[d] /\ issued'[d] = issued[d]
                                     /\ field'[d] = field[d]
  <1> USE DEF TypeOK, ClientTypeOK
  <1>1. ASSUME NEW outcome \in Gone, Hangup(c, outcome), ClientOpen(c)
        PROVE  /\ UNCHANGED <<serverVars, sEnd, backlog, issued, field>>
               /\ cpc[c] # "start" /\ cpc'[c] # "start"
               /\ \A d \in Clients \ {c} : cpc'[d] = cpc[d]
    BY <1>1 DEF Hangup, ClientOpen, InStub, Gone
  <1>2. CASE ClientKilled(c) \/ NoRoom(c) \/ BadResponse(c) \/ Close(c) \/ Quit(c)
    <2>1. ClientOpen(c) /\ \E outcome \in Gone : Hangup(c, outcome)
      BY <1>2 DEF ClientKilled, NoRoom, BadResponse, Close, Quit, Received, ClientOpen,
                  InStub, Gone
    <2>2. QED
      BY <1>1, <2>1
  <1>3. CASE Call(c)
    BY <1>3 DEF Call, netVars
  <1>4. CASE Serialize(c)
    BY <1>4 DEF Serialize, netVars
  <1>5. CASE Send(c) \/ SendReturns(c)
    BY <1>5 DEF Send, SendReturns, netVars
  <1>6. CASE RecvHeader(c) \/ RecvPayload(c)
    BY <1>6 DEF RecvHeader, RecvPayload
  <1>7. CASE Return(c)
    BY <1>7 DEF Return, Received, netVars
  <1>8. QED
    BY <1>2, <1>3, <1>4, <1>5, <1>6, <1>7 DEF ClientStep

(* Every step keeps a stub's request in place until the stub has returned. *)
LEMMA StubCalledStep ==
  ASSUME TypeOK, StubCalled, [Next]_vars
  PROVE  StubCalled'
  <1> USE DEF TypeOK, ClientTypeOK
  <1>1. ASSUME UNCHANGED <<cpc, issued, field>>
        PROVE  StubCalled'
    BY <1>1 DEF StubCalled, Request
  <1>2. ASSUME NEW c \in Clients, ClientStep(c) \/ Quit(c)
        PROVE  StubCalled'
    <2>1. \A d \in Clients \ {c} : /\ cpc'[d] = cpc[d] /\ issued'[d] = issued[d]
                                   /\ field'[d] = field[d]
      BY <1>2, ClientFrame
    <2> SUFFICES cpc'[c] \in InStub =>
                   /\ issued'[c] # <<>>
                   /\ cpc'[c] = "serialize" => field'[c] <= Len(Params(Request(c)'.m)) + 2
      BY <2>1 DEF StubCalled, Request
    <2>2. CASE \E outcome \in Gone : Hangup(c, outcome)
      BY <2>2 DEF Hangup, Gone, InStub
    <2>3. CASE ClientKilled(c) \/ NoRoom(c) \/ BadResponse(c) \/ Close(c) \/ Quit(c)
      BY <2>2, <2>3 DEF ClientKilled, NoRoom, BadResponse, Close, Quit, Gone
    <2>4. CASE Call(c)
      <3>1. PICK r \in Requests : issued' = [issued EXCEPT ![c] = Append(@, r)]
        BY <2>4 DEF Call
      <3>2. issued'[c] = Append(issued[c], r) /\ field'[c] = 1
        BY <2>4, <3>1 DEF Call
      <3>3. issued'[c] # <<>> /\ Request(c)' = r
        <4>1. issued[c] \in Seq(Requests)
          OBVIOUS
        <4>2. /\ Append(issued[c], r) # <<>>
              /\ Append(issued[c], r)[Len(Append(issued[c], r))] = r
          BY <4>1, AppendProperties
        <4>3. QED
          BY <3>2, <4>2 DEF Request
      <3>4. Len(Params(r.m)) \in Nat
        BY RequestFacts, ServiceFacts, LenProperties
      <3>5. QED
        BY <3>2, <3>3, <3>4
    <2>5. CASE Serialize(c)
      <3>1. /\ issued[c] # <<>> /\ issued' = issued
            /\ field[c] \in Nat /\ field'[c] = field[c] + 1
            /\ field[c] <= Len(Params(Request(c).m)) + 2
            /\ cpc'[c] = IF field[c] = Len(Params(Request(c).m)) + 2 THEN "send" ELSE "serialize"
        BY <2>5 DEF Serialize, StubCalled, InStub
      <3>2. Len(Params(Request(c).m)) \in Nat /\ Request(c)' = Request(c)
        BY <3>1, RequestType, RequestFacts, ServiceFacts, LenProperties DEF Request
      <3>3. QED
        BY <3>1, <3>2
    <2>6. CASE Send(c) \/ SendReturns(c) \/ RecvHeader(c) \/ RecvPayload(c)
      BY <2>6 DEF Send, SendReturns, RecvHeader, RecvPayload, StubCalled, InStub
    <2>7. CASE Return(c)
      BY <2>7 DEF Return, InStub
    <2>8. QED
      BY <1>2, <2>3, <2>4, <2>5, <2>6, <2>7 DEF ClientStep
  <1>3. ASSUME NEW c \in Clients, Connect(c) \/ ConnectRefused(c)
        PROVE  StubCalled'
    BY <1>3 DEF Connect, ConnectRefused, StubCalled, InStub, Gone, Request
  <1>4. CASE Boot \/ ServerStep
    <2>1. UNCHANGED clientVars
      BY <1>4 DEF Boot, ServerStep, Accept, ServerRecvHeader, ServerRecvPayload, ServerReceived,
                  ServerNoRoom, ReadMethod, NoMethod, ReadArg, BadArg, Execute, ServerSend,
                  ServerSent, ServerClose, ServerKilled, ServerContinue
    <2>2. QED
      BY <1>1, <2>1 DEF clientVars
  <1>5. CASE UNCHANGED vars
    BY <1>1, <1>5 DEF vars, clientVars
  <1>6. QED
    BY <1>2, <1>3, <1>4, <1>5 DEF Next

LEMMA MethodKnownStep ==
  ASSUME TypeOK, MethodKnown, [Next]_vars
  PROVE  MethodKnown'
  <1>1. CASE UNCHANGED serverVars
    BY <1>1 DEF serverVars, serverBuf, MethodKnown, Method
  <1>2. CASE ReadMethod
    <2>1. CASE spc' = "args"
      <3>1. sbuf # <<>> /\ sbuf' = sbuf /\ sargs' = sargs
        BY <1>2 DEF ReadMethod
      <3>2. Method \in DOMAIN Service
        BY <1>2, <2>1 DEF ReadMethod, Method
      <3>3. Method' = Method
        BY <3>1 DEF Method
      <3>4. sargs = <<>> /\ Len(Params(Method)) \in Nat
        BY <1>2, <3>2, ServiceFacts, LenProperties DEF ReadMethod, MethodKnown
      <3>5. Len(sargs') <= Len(Params(Method)')
        BY <3>1, <3>3, <3>4
      <3>6. QED
        BY <2>1, <3>1, <3>2, <3>3, <3>5 DEF MethodKnown
    <2>2. spc' \in {"args", "close"}
      BY <1>2 DEF ReadMethod
    <2>3. QED
      BY <2>1, <2>2 DEF MethodKnown
  <1>3. CASE ReadArg
    <2>1. sargs \in Seq(Values) /\ Len(Params(Method)) \in Nat
      BY <1>3, ServiceFacts, LenProperties DEF TypeOK, ServerTypeOK, MethodKnown, ReadArg
    <2>2. Len(sargs') = Len(sargs) + 1 /\ Len(sargs) \in Nat
      BY <1>3, <2>1, AppendProperties, LenProperties DEF ReadArg
    <2>3. QED
      BY <1>3, <2>1, <2>2 DEF ReadArg, MoreArgs, MethodKnown, Method
  <1>4. CASE spc' \in {"accept", "send", "close", "dead"}
    BY <1>4 DEF MethodKnown
  <1>5. CASE Accept
    BY <1>5 DEF Accept, MethodKnown
  <1>6. CASE ServerRecvHeader \/ ServerRecvPayload \/ ServerReceived
    BY <1>6 DEF ServerRecvHeader, ServerRecvPayload, ServerReceived, serverBuf, MethodKnown
  <1>7. ASSUME NEW c \in Clients, ClientStep(c) \/ Quit(c) \/ Connect(c) \/ ConnectRefused(c)
        PROVE  UNCHANGED serverVars
    BY <1>7, ClientFrame DEF Connect, ConnectRefused
  <1>8. Boot \/ ServerNoRoom \/ NoMethod \/ BadArg \/ Execute \/ ServerSent \/ ServerClose
          \/ ServerKilled => spc' \in {"accept", "send", "close", "dead"}
    BY DEF Boot, ServerNoRoom, NoMethod, BadArg, Execute, ServerSent, ServerClose,
           ServerKilled, ServerContinue
  <1>9. ServerSend => spc' = "send"
    BY DEF ServerSend
  <1>10. QED
    BY <1>1, <1>2, <1>3, <1>4, <1>5, <1>6, <1>7, <1>8, <1>9 DEF Next, ServerStep, vars

(* The steps of the server that neither open nor close a connection.       *)
LEMMA ServerFrame ==
  ASSUME Boot \/ (ServerStep /\ ~ Accept /\ ~ ServerClose /\ ~ ServerKilled)
  PROVE  /\ UNCHANGED <<clientVars, cur, sEnd, backlog>>
         /\ spc' \in Serving => spc \in Serving
         /\ Undecided' => Undecided
         /\ UNCHANGED served \/ (Execute /\ ~ Undecided')
  BY DEF Boot, ServerStep, ServerRecvHeader, ServerRecvPayload, ServerReceived, ServerNoRoom,
         ReadMethod, NoMethod, ReadArg, BadArg, Execute, ServerSend, ServerSent, ServerContinue,
         Serving, Undecided, netVars

(* A queue that holds each client at most once stays one when a client     *)
(* that is not in it is appended,                                          *)
LEMMA EnqueueOnce ==
  ASSUME NEW s \in Seq(Clients), NEW c \in Clients, NoneTwice(s), ~ Holds(s, c)
  PROVE  /\ NoneTwice(Append(s, c)) /\ Holds(Append(s, c), c)
         /\ \A d \in Clients \ {c} : Holds(Append(s, c), d) <=> Holds(s, d)
  <1> DEFINE t == Append(s, c)
  <1>1. /\ Len(s) \in Nat /\ Len(t) = Len(s) + 1
        /\ \A i \in 1..Len(s) : t[i] = s[i]
        /\ t[Len(s) + 1] = c
    BY AppendProperties, LenProperties
  <1> HIDE DEF t
  <1>2. \A i \in 1..Len(t) : i \in 1..Len(s) \/ i = Len(s) + 1
    BY <1>1
  <1>3. 1..Len(s) \subseteq 1..Len(t) /\ Len(s) + 1 \in 1..Len(t)
    BY <1>1
  <1>4. NoneTwice(t) /\ Holds(t, c) /\ \A d \in Clients \ {c} : Holds(t, d) <=> Holds(s, d)
    BY <1>1, <1>2, <1>3 DEF NoneTwice, Holds
  <1>5. QED
    BY <1>4 DEF t

(* and when its head is taken away.                                        *)
LEMMA DequeueOnce ==
  ASSUME NEW s \in Seq(Clients), s # <<>>, NoneTwice(s)
  PROVE  /\ Head(s) \in Clients /\ Holds(s, Head(s))
         /\ NoneTwice(Tail(s)) /\ ~ Holds(Tail(s), Head(s))
         /\ \A d \in Clients \ {Head(s)} : Holds(Tail(s), d) <=> Holds(s, d)
  <1> DEFINE t == Tail(s)
  <1>1. /\ Len(s) \in Nat /\ Len(s) > 0 /\ Len(t) = Len(s) - 1
        /\ \A i \in 1..Len(t) : t[i] = s[i + 1]
        /\ Head(s) = s[1] /\ Head(s) \in Clients
    BY HeadTailProperties, LenProperties, EmptySeq
  <1> HIDE DEF t
  <1> USE DEF NoneTwice, Holds
  <1>2. \A i \in 1..Len(t) : i + 1 \in 1..Len(s) /\ i + 1 # 1
    BY <1>1
  <1>3. \A i \in 1..Len(s) : i = 1 \/ (i - 1 \in 1..Len(t) /\ (i - 1) + 1 = i)
    BY <1>1
  <1>4. 1 \in 1..Len(s)
    BY <1>1
  <1>5. NoneTwice(t)
    <2> SUFFICES ASSUME NEW i \in 1..Len(t), NEW j \in 1..Len(t), t[i] = t[j]
                 PROVE  i = j
      BY DEF NoneTwice
    <2>1. s[i + 1] = s[j + 1] /\ i + 1 \in 1..Len(s) /\ j + 1 \in 1..Len(s)
      BY <1>1, <1>2
    <2>2. i + 1 = j + 1
      BY <2>1
    <2>3. QED
      BY <2>2, <1>1
  <1>6. ~ Holds(t, Head(s))
    BY <1>1, <1>2, <1>4
  <1>7. ASSUME NEW d \in Clients \ {Head(s)}
        PROVE  Holds(t, d) <=> Holds(s, d)
    <2>1. ASSUME NEW i \in 1..Len(t), t[i] = d
          PROVE  \E k \in 1..Len(s) : s[k] = d
      BY <1>1, <1>2, <2>1
    <2>2. ASSUME NEW i \in 1..Len(s), s[i] = d
          PROVE  \E k \in 1..Len(t) : t[k] = d
      <3>1. i # 1
        BY <1>1, <2>2
      <3>2. i - 1 \in 1..Len(t) /\ (i - 1) + 1 = i
        BY <1>3, <3>1
      <3>3. t[i - 1] = d
        BY <1>1, <2>2, <3>2
      <3>4. QED
        BY <3>2, <3>3
    <2>3. QED
      BY <2>1, <2>2
  <1>8. Holds(s, Head(s))
    BY <1>1, <1>4
  <1>9. QED
    BY <1>1, <1>5, <1>6, <1>7, <1>8 DEF t

LEMMA FdDisciplineStep ==
  ASSUME TypeOK, ServedOnce, FdDiscipline, [Next]_vars
  PROVE  FdDiscipline'
  <1> USE DEF TypeOK, ServerTypeOK, NetTypeOK
  <1>1. ASSUME UNCHANGED <<cur, sEnd, backlog>>, spc' \in Serving => spc \in Serving
        PROVE  FdDiscipline'
    BY <1>1 DEF FdDiscipline
  <1>2. ASSUME NEW c \in Clients, ClientStep(c) \/ Quit(c) \/ ConnectRefused(c)
        PROVE  FdDiscipline'
    BY <1>1, <1>2, ClientFrame DEF ConnectRefused, serverVars, netVars
  <1>3. ASSUME NEW c \in Clients, Connect(c)
        PROVE  FdDiscipline'
    <2>1. /\ spc' = spc /\ cur' = cur /\ backlog' = Append(backlog, c)
          /\ sEnd[c] = "none" /\ sEnd' = [sEnd EXCEPT ![c] = "queued"]
      BY <1>3 DEF Connect, ServedOnce, serverVars
    <2>2. spc' \in Serving => sEnd'[cur'] = "open"
      BY <2>1 DEF FdDiscipline
    <2>3. ~ Holds(backlog, c) /\ NoneTwice(backlog)
      BY <2>1 DEF FdDiscipline
    <2>4. /\ NoneTwice(backlog') /\ Holds(backlog', c)
          /\ \A d \in Clients \ {c} : Holds(backlog', d) <=> Holds(backlog, d)
      BY <2>1, <2>3, EnqueueOnce
    <2>5. ASSUME NEW d \in Clients
          PROVE  sEnd'[d] = "queued" <=> Holds(backlog', d)
      <3>1. CASE d = c
        <4>1. sEnd'[d] = "queued"
          BY <2>1, <3>1
        <4>2. QED
          BY <4>1, <2>4, <3>1
      <3>2. CASE d # c
        <4>1. sEnd'[d] = sEnd[d]
          BY <2>1, <3>2
        <4>2. sEnd[d] = "queued" <=> Holds(backlog, d)
          BY DEF FdDiscipline
        <4>3. d \in Clients \ {c}
          BY <3>2
        <4>4. QED
          BY <4>1, <4>2, <4>3, <2>4
      <3>3. QED
        BY <3>1, <3>2
    <2>6. QED
      BY <2>2, <2>4, <2>5 DEF FdDiscipline
  <1>4. CASE Accept
    <2>1. /\ backlog \in Seq(Clients) /\ backlog # <<>>
          /\ cur' = Head(backlog) /\ backlog' = Tail(backlog)
          /\ sEnd' = [sEnd EXCEPT ![Head(backlog)] = "open"]
      BY <1>4 DEF Accept
    <2>2. NoneTwice(backlog)
      BY DEF FdDiscipline
    <2>3. /\ Head(backlog) \in Clients /\ NoneTwice(backlog') /\ ~ Holds(backlog', Head(backlog))
          /\ \A d \in Clients \ {Head(backlog)} : Holds(backlog', d) <=> Holds(backlog, d)
      BY <2>1, <2>2, DequeueOnce
    <2>4. sEnd'[cur'] = "open"
      BY <2>1, <2>3
    <2>5. ASSUME NEW d \in Clients
          PROVE  sEnd'[d] = "queued" <=> Holds(backlog', d)
      <3>1. CASE d = Head(backlog)
        <4>1. sEnd'[d] # "queued"
          BY <2>1, <3>1
        <4>2. QED
          BY <4>1, <2>3, <3>1
      <3>2. CASE d # Head(backlog)
        <4>1. sEnd'[d] = sEnd[d]
          BY <2>1, <3>2
        <4>2. sEnd[d] = "queued" <=> Holds(backlog, d)
          BY DEF FdDiscipline
        <4>3. d \in Clients \ {Head(backlog)}
          BY <3>2
        <4>4. QED
          BY <4>1, <4>2, <4>3, <2>3
      <3>3. QED
        BY <3>1, <3>2
    <2>6. QED
      BY <2>3, <2>4, <2>5 DEF FdDiscipline
  <1>5. CASE ServerClose
    <2>1. sEnd[cur] = "open"
      BY <1>5 DEF ServerClose, FdDiscipline, Serving
    <2>2. spc' \notin Serving /\ backlog' = backlog /\ sEnd' = [sEnd EXCEPT ![cur] = "closed"]
      BY <1>5 DEF ServerClose, Serving
    <2>3. \A d \in Clients : sEnd'[d] = "queued" <=> sEnd[d] = "queued"
      BY <2>1, <2>2
    <2>4. QED
      BY <2>2, <2>3 DEF FdDiscipline
  <1>6. CASE ServerKilled
    <2>1. spc' \notin Serving /\ 1..Len(backlog') = {}
      BY <1>6 DEF ServerKilled, Serving
    <2>2. \A d \in Clients : sEnd'[d] # "queued"
      BY <1>6 DEF ServerKilled, ServerOpen
    <2>3. QED
      BY <2>1, <2>2 DEF FdDiscipline, Holds, NoneTwice
  <1>7. CASE UNCHANGED vars
    BY <1>1, <1>7 DEF vars, serverVars, netVars
  <1>8. QED
    BY <1>1, <1>2, <1>3, <1>4, <1>5, <1>6, <1>7, ServerFrame DEF Next

LEMMA ServedOnceStep ==
  ASSUME TypeOK, FdDiscipline, ServedOnce, [Next]_vars
  PROVE  ServedOnce'
  <1> USE DEF TypeOK, ClientTypeOK, ServerTypeOK, NetTypeOK
  <1>1. ASSUME NEW c \in Clients, ClientStep(c) \/ Quit(c)
        PROVE  ServedOnce'
    <2>1. /\ UNCHANGED <<spc, cur, served, sEnd>>
          /\ cpc'[c] # "start" /\ \A d \in Clients \ {c} : cpc'[d] = cpc[d]
      BY <1>1, ClientFrame DEF serverVars
    <2>2. QED
      BY <2>1 DEF ServedOnce, Undecided
  <1>2. ASSUME NEW c \in Clients, Connect(c) \/ ConnectRefused(c)
        PROVE  ServedOnce'
    BY <1>2 DEF Connect, ConnectRefused, ServedOnce, Undecided, serverVars, netVars
  <1>3. CASE Boot \/ (ServerStep /\ ~ Accept /\ ~ ServerClose /\ ~ ServerKilled)
    <2>1. /\ UNCHANGED <<cpc, cur, sEnd>>
          /\ Undecided' => Undecided
          /\ UNCHANGED served \/ (Execute /\ ~ Undecided')
      BY <1>3, ServerFrame DEF clientVars
    <2> SUFFICES ASSUME NEW d \in Clients
                 PROVE  /\ served'[d] # <<>> => /\ Len(served'[d]) = 1
                                                /\ sEnd'[d] \in {"open", "closed"}
                                                /\ ~ (Undecided' /\ cur' = d)
                        /\ cpc'[d] = "start" => sEnd'[d] = "none"
      BY DEF ServedOnce
    <2>2. /\ served[d] # <<>> => /\ Len(served[d]) = 1
                                 /\ sEnd[d] \in {"open", "closed"}
                                 /\ ~ (Undecided /\ cur = d)
          /\ cpc[d] = "start" => sEnd[d] = "none"
      BY DEF ServedOnce
    <2>3. cpc'[d] = cpc[d] /\ sEnd'[d] = sEnd[d] /\ cur' = cur
      BY <2>1
    <2>4. CASE served'[d] = served[d]
      <3>1. Undecided' => Undecided
        BY <2>1
      <3>2. QED
        BY <2>2, <2>4, <2>3, <3>1, Zenon
    <2>5. CASE served'[d] # served[d]
      <3>1. Execute /\ ~ Undecided'
        BY <2>1, <2>5
      <3>2. PICK e : served' = [served EXCEPT ![cur] = Append(@, e)]
        BY <3>1 DEF Execute
      <3>3. d = cur
        BY <2>5, <3>2
      <3>4. Undecided /\ sEnd[cur] = "open"
        BY <3>1 DEF Execute, Undecided, FdDiscipline, Serving
      <3>5. served[d] = <<>>
        BY <2>2, <3>3, <3>4
      <3>6. Len(served'[d]) = 1
        BY <3>2, <3>3, <3>5
      <3>7. QED
        BY <2>2, <2>3, <3>1, <3>3, <3>4, <3>6, Zenon
    <2>6. QED
      BY <2>4, <2>5
  <1>4. CASE Accept
    <2>1. /\ Head(backlog) \in Clients /\ cur' = Head(backlog)
          /\ sEnd' = [sEnd EXCEPT ![Head(backlog)] = "open"]
          /\ UNCHANGED <<cpc, served>>
      BY <1>4, HeadTailProperties DEF Accept, clientVars
    <2>2. sEnd[Head(backlog)] = "queued"
      <3>1. Holds(backlog, Head(backlog))
        BY <1>4, DequeueOnce DEF Accept, FdDiscipline
      <3>2. QED
        BY <2>1, <3>1 DEF FdDiscipline
    <2>3. served[Head(backlog)] = <<>> /\ cpc[Head(backlog)] # "start"
      BY <2>1, <2>2 DEF ServedOnce
    <2>4. QED
      BY <2>1, <2>3 DEF ServedOnce
  <1>5. CASE ServerClose
    <2>1. sEnd[cur] = "open"
      BY <1>5 DEF ServerClose, FdDiscipline, Serving
    <2>2. /\ UNCHANGED <<cpc, served>> /\ ~ Undecided'
          /\ sEnd' = [sEnd EXCEPT ![cur] = "closed"]
      BY <1>5 DEF ServerClose, clientVars, Undecided
    <2>3. QED
      BY <2>1, <2>2 DEF ServedOnce
  <1>6. CASE ServerKilled
    <2>1. /\ UNCHANGED <<cpc, served>> /\ ~ Undecided'
          /\ sEnd' = [c \in Clients |-> IF ServerOpen(c) THEN "closed" ELSE sEnd[c]]
      BY <1>6 DEF ServerKilled, clientVars, Undecided
    <2>2. QED
      BY <2>1 DEF ServedOnce, ServerOpen
  <1>7. CASE UNCHANGED vars
    BY <1>7 DEF vars, clientVars, serverVars, netVars, ServedOnce, Undecided
  <1>8. QED
    BY <1>1, <1>2, <1>3, <1>4, <1>5, <1>6, <1>7 DEF Next

-----------------------------------------------------------------------------
(* The theorems *)

LEMMA SpecIInv == Spec => []IInv
  <1>1. IInv /\ [Next]_vars => IInv'
    <2> SUFFICES ASSUME IInv, [Next]_vars
                 PROVE  IInv'
      OBVIOUS
    <2>1. TypeOK'
      <3>1. ASSUME NEW c \in Clients, Connect(c) \/ ConnectRefused(c) \/ ClientStep(c) \/ Quit(c)
            PROVE  TypeOK'
        BY <3>1, ConnectType, ClientStepType DEF IInv
      <3>2. CASE Boot \/ ServerStep
        BY <3>2, ServerStepType DEF IInv
      <3>3. CASE UNCHANGED vars
        BY <3>3 DEF IInv, TypeOK, ClientTypeOK, ServerTypeOK, NetTypeOK, vars, clientVars,
                    serverVars, serverBuf, netVars
      <3>4. QED
        BY <3>1, <3>2, <3>3 DEF Next
    <2>2. QED
      BY <2>1, StubCalledStep, MethodKnownStep, FdDisciplineStep, ServedOnceStep DEF IInv
  <1>2. QED
    BY <1>1, InitIInv, PTL DEF Spec

(* Every variable keeps its type, for every service that compiles, every   *)
(* set of clients, and every garbage and failure.                          *)
THEOREM CallTypeOK == Spec => []TypeOK
  <1>1. IInv => TypeOK
    BY DEF IInv
  <1>2. QED
    BY <1>1, SpecIInv, PTL

(* The server never touches a descriptor it does not own, and no           *)
(* connection is lost or doubled between connect and accept.               *)
THEOREM CallFdDiscipline == Spec => []FdDiscipline
  <1>1. IInv => FdDiscipline
    BY DEF IInv
  <1>2. QED
    BY <1>1, SpecIInv, PTL

(* However a connection fails, one method at most runs for it.             *)
THEOREM CallAtMostOnce == Spec => []AtMostOnce
  <1>1. IInv => AtMostOnce
    <2> SUFFICES ASSUME IInv, NEW c \in Clients
                 PROVE  Len(served[c]) <= 1
      BY DEF AtMostOnce
    <2>1. CASE served[c] = <<>>
      BY <2>1
    <2>2. CASE served[c] # <<>>
      <3>1. Len(served[c]) = 1
        BY <2>2 DEF IInv, ServedOnce
      <3>2. QED
        BY <3>1
    <2>3. QED
      BY <2>1, <2>2
  <1>2. QED
    BY <1>1, SpecIInv, PTL

-----------------------------------------------------------------------------
(* What is on its way between a stub and the server, byte stream by byte   *)
(* stream, and what follows from it: the calls of clients that stay are    *)
(* answered exactly, and the stubs keep the promise of RpcService.         *)

-----------------------------------------------------------------------------
(* What the theorems below suppose *)

(* No realloc or malloc fails.                                             *)
MemorySuffices == ~ AllocMayFail

(* An application uses a connection for one call, as the server closes it  *)
(* after one.                                                              *)
OneCall == MaxCalls <= 1

(* An int32 argument is one word; nothing is asked of the others.          *)
WordArguments ==
  \A r \in Requests : \A i \in DOMAIN r.args :
    Params(r.m)[i] = "int32" => Len(r.args[i]) = 1

(* Nobody goes away in the middle of a call.                               *)
NobodyQuits == Quitters = {}

(* The generator counts strlen(result) once for each string parameter: a   *)
(* method that returns a string has one.                                   *)
StringsCounted ==
  \A m \in DOMAIN Service :
    Service[m].ret = "string" => \E i \in DOMAIN Params(m) : IsString(m, i)

(* The shape of the methods of test.rpc: one parameter, and it is a string *)
(* where the result is.                                                    *)
OneParameter ==
  \A m \in DOMAIN Service :
    /\ Len(Params(m)) = 1
    /\ Service[m].ret = "string" => IsString(m, 1)

-----------------------------------------------------------------------------
(* Where the fields of a request are in its frame.  The cells of parameter *)
(* i are the pairs <<i, q>>: q = 0 for its word, 1 and up for characters.  *)

NParams(r) == Len(Params(r.m))

CellsOf(r, i) == {i} \X (CASE Params(r.m)[i] = "int32"  -> {0}
                           [] Params(r.m)[i] = "string" -> 0 .. Len(r.args[i])
                           [] OTHER                     -> {})
CellsTo(r, i) == UNION {CellsOf(r, j) : j \in 1..i}

(* The cells of the first k fields.                                        *)
End(r, k) == IF k < 2 THEN k ELSE 2 + Cardinality(CellsTo(r, k - 2))

(* What total_len counts.                                                  *)
Counted(r) == (1 .. NParams(r)) \X {0} \cup StringChars(r)

(* s is the first k fields of request r.                                   *)
IsFrame(s, r, k) ==
  /\ Len(s) = End(r, k)
  /\ \A j \in 1..k : \A q \in 1..Len(Field(r, j)) : s[End(r, j - 1) + q] = Field(r, j)[q]
WholeFrame(s, r) == IsFrame(s, r, NParams(r) + 2)

LEMMA ArgFacts ==
  ASSUME NEW r \in Requests
  PROVE  /\ NParams(r) \in Nat \ {0}
         /\ DOMAIN r.args = 1 .. NParams(r)
         /\ DOMAIN Params(r.m) = 1 .. NParams(r)
         /\ \A i \in 1 .. NParams(r) : /\ r.args[i] \in Seq(Nat)
                                       /\ Len(r.args[i]) \in Nat
                                       /\ DOMAIN r.args[i] = 1 .. Len(r.args[i])
                                       /\ Params(r.m)[i] \in Types
  <1>1. /\ r.args \in Seq(Values) /\ Len(r.args) = NParams(r)
        /\ Params(r.m) \in Seq(Types) /\ Params(r.m) # <<>>
    BY RequestFacts, ServiceFacts, ServiceAssumption DEF NParams, Params
  <1>2. NParams(r) \in Nat \ {0} /\ DOMAIN r.args = 1 .. NParams(r)
    BY <1>1, LenProperties, EmptySeq DEF NParams
  <1>3. \A i \in 1 .. NParams(r) : r.args[i] \in Values /\ Params(r.m)[i] \in Types
    BY <1>1, ElementOfSeq DEF NParams
  <1>4. QED
    BY <1>1, <1>2, <1>3, LenProperties DEF Values, NParams

LEMMA DisjointUnion ==
  ASSUME NEW S, NEW T, IsFiniteSet(S), IsFiniteSet(T), S \cap T = {}
  PROVE  /\ IsFiniteSet(S \cup T)
         /\ Cardinality(S \cup T) = Cardinality(S) + Cardinality(T)
  <1>1. /\ IsFiniteSet(S \cup T)
        /\ Cardinality(S \cup T) = Cardinality(S) + Cardinality(T) - Cardinality(S \cap T)
    BY FS_Union
  <1>2. Cardinality(S \cap T) = 0 /\ Cardinality(S) \in Nat /\ Cardinality(T) \in Nat
    BY FS_EmptySet, FS_CardinalityType
  <1>3. QED
    BY <1>1, <1>2

LEMMA FromZero ==
  ASSUME NEW n \in Nat
  PROVE  IsFiniteSet(0 .. n) /\ Cardinality(0 .. n) = n + 1
  <1>1. /\ IsFiniteSet(0 .. n)
        /\ Cardinality(0 .. n) = IF 0 > n THEN 0 ELSE n - 0 + 1
    BY FS_Interval
  <1>2. QED
    BY <1>1

LEMMA UnitProduct ==
  ASSUME NEW S, NEW x, IsFiniteSet(S)
  PROVE  /\ IsFiniteSet({x} \X S) /\ Cardinality({x} \X S) = Cardinality(S)
         /\ IsFiniteSet(S \X {x}) /\ Cardinality(S \X {x}) = Cardinality(S)
  <1>1. IsFiniteSet({x}) /\ Cardinality({x}) = 1
    BY FS_Singleton
  <1>2. /\ IsFiniteSet({x} \X S) /\ Cardinality({x} \X S) = 1 * Cardinality(S)
        /\ IsFiniteSet(S \X {x}) /\ Cardinality(S \X {x}) = Cardinality(S) * 1
    BY <1>1, FS_Product
  <1>3. Cardinality(S) \in Nat
    BY FS_CardinalityType
  <1>4. QED
    BY <1>2, <1>3

(* total_len is one cell for method_id and one for each cell counted.      *)
LEMMA CountedSize ==
  ASSUME NEW r \in Requests
  PROVE  /\ IsFiniteSet(Counted(r))
         /\ ClientTotalLen(r) = 1 + Cardinality(Counted(r))
  <1> DEFINE W == (1 .. NParams(r)) \X {0}
  <1>1. IsFiniteSet(1 .. NParams(r)) /\ Cardinality(1 .. NParams(r)) = NParams(r)
    BY ArgFacts, FS_Interval
  <1>2. IsFiniteSet(W) /\ Cardinality(W) = NParams(r)
    BY <1>1, UnitProduct
  <1>3. IsFiniteSet(StringChars(r)) /\ Cardinality(StringChars(r)) \in Nat
    BY StringCharsFinite, FS_CardinalityType
  <1>4. W \cap StringChars(r) = {}
    <2>1. ASSUME NEW x \in StringChars(r)
          PROVE  x[2] # 0
      <3>1. PICK i \in DOMAIN r.args : x \in {i} \X DOMAIN r.args[i]
        BY DEF StringChars
      <3>2. x[2] \in 1 .. Len(r.args[i])
        BY <3>1, ArgFacts
      <3>3. QED
        BY <3>2
    <2>2. QED
      BY <2>1
  <1> HIDE DEF W
  <1>5. /\ IsFiniteSet(W \cup StringChars(r))
        /\ Cardinality(W \cup StringChars(r)) = NParams(r) + Cardinality(StringChars(r))
    BY <1>2, <1>3, <1>4, DisjointUnion
  <1>6. QED
    BY <1>5, <1>3, ArgFacts DEF Counted, ClientTotalLen, NParams, W

LEMMA CellsCounted ==
  ASSUME NEW r \in Requests, NEW i \in 0 .. NParams(r)
  PROVE  /\ CellsTo(r, i) \subseteq Counted(r)
         /\ IsFiniteSet(CellsTo(r, i)) /\ Cardinality(CellsTo(r, i)) \in Nat
  <1>1. ASSUME NEW j \in 1..i, NEW x \in CellsOf(r, j)
        PROVE  x \in Counted(r)
    <2>1. j \in 1 .. NParams(r)
      BY ArgFacts
    <2>2. CASE x[2] = 0
      BY <1>1, <2>1, <2>2 DEF CellsOf, Counted
    <2>3. CASE x[2] # 0
      <3>1. Params(r.m)[j] = "string" /\ x = <<j, x[2]>> /\ x[2] \in 0 .. Len(r.args[j])
        BY <1>1, <2>1, <2>3, ArgFacts DEF CellsOf, Types
      <3>2. j \in DOMAIN r.args /\ x[2] \in DOMAIN r.args[j]
        BY <2>1, <2>3, <3>1, ArgFacts
      <3>3. x \in StringChars(r)
        BY <3>1, <3>2 DEF StringChars, IsString
      <3>4. QED
        BY <3>3 DEF Counted
    <2>4. QED
      BY <2>2, <2>3
  <1>2. CellsTo(r, i) \subseteq Counted(r)
    BY <1>1 DEF CellsTo
  <1>3. QED
    BY <1>2, CountedSize, FS_Subset, FS_CardinalityType

(* Each parameter adds the cells EncodeArg sends for it.                   *)
LEMMA CellsStep ==
  ASSUME WordArguments, NEW r \in Requests, NEW i \in 1 .. NParams(r)
  PROVE  Cardinality(CellsTo(r, i)) =
           Cardinality(CellsTo(r, i - 1)) + Len(EncodeArg(Params(r.m)[i], r.args[i]))
  <1> DEFINE n == Len(EncodeArg(Params(r.m)[i], r.args[i]))
             C == CASE Params(r.m)[i] = "int32"  -> {0}
                    [] Params(r.m)[i] = "string" -> 0 .. Len(r.args[i])
                    [] OTHER                     -> {}
  <1>1. IsFiniteSet(C) /\ Cardinality(C) = n
    <2>1. CASE Params(r.m)[i] = "int32"
      <3>1. EncodeArg(Params(r.m)[i], r.args[i]) = r.args[i]
        BY <2>1 DEF EncodeArg
      <3>2. n = 1
        BY <2>1, <3>1, ArgFacts DEF WordArguments
      <3>3. QED
        BY <2>1, <3>2, FS_Singleton
    <2>2. CASE Params(r.m)[i] = "string"
      <3>1. r.args[i] \in Seq(Nat) /\ Len(r.args[i]) \in Nat
        BY ArgFacts
      <3>2. EncodeArg(Params(r.m)[i], r.args[i]) = <<Len(r.args[i])>> \o r.args[i]
        BY <2>2 DEF EncodeArg
      <3>3. <<Len(r.args[i])>> \in Seq(Nat) /\ Len(<<Len(r.args[i])>>) = 1
        BY <3>1
      <3>4. n = 1 + Len(r.args[i])
        BY <3>1, <3>2, <3>3, ConcatProperties
      <3>5. C = 0 .. Len(r.args[i])
        BY <2>2
      <3>6. QED
        <4>1. IsFiniteSet(0 .. Len(r.args[i])) /\ Cardinality(0 .. Len(r.args[i])) = Len(r.args[i]) + 1
          BY <3>1, FromZero
        <4>2. QED
          BY <3>1, <3>4, <3>5, <4>1
    <2>3. CASE Params(r.m)[i] = "bool"
      <3>1. n = 0 /\ C = {}
        BY <2>3 DEF EncodeArg
      <3>2. QED
        BY <3>1, FS_EmptySet
    <2>4. QED
      BY <2>1, <2>2, <2>3, ArgFacts DEF Types
  <1>2. IsFiniteSet({i} \X C) /\ Cardinality({i} \X C) = n
    BY <1>1, UnitProduct
  <1>3. CellsOf(r, i) = {i} \X C
    BY DEF CellsOf
  <1> HIDE DEF C, n
  <1>4. i - 1 \in 0 .. NParams(r) /\ 1 .. i = (1 .. i - 1) \cup {i}
    BY ArgFacts
  <1>5. CellsTo(r, i) = CellsTo(r, i - 1) \cup CellsOf(r, i)
    BY <1>4 DEF CellsTo
  <1>6. CellsTo(r, i - 1) \cap CellsOf(r, i) = {}
    <2>1. ASSUME NEW j \in 1 .. i - 1, NEW x \in CellsOf(r, j)
          PROVE  x \notin CellsOf(r, i)
      BY <2>1 DEF CellsOf
    <2>2. QED
      BY <2>1 DEF CellsTo
  <1>7. IsFiniteSet(CellsTo(r, i - 1)) /\ Cardinality(CellsTo(r, i - 1)) \in Nat
    BY <1>4, CellsCounted
  <1>8. n \in Nat
    BY <1>2, FS_CardinalityType
  <1>9. Cardinality(CellsTo(r, i)) = Cardinality(CellsTo(r, i - 1)) + n
    BY <1>2, <1>3, <1>5, <1>6, <1>7, DisjointUnion
  <1>10. QED
    BY <1>9 DEF n

LEMMA EndTwo ==
  ASSUME NEW r
  PROVE  End(r, 2) = 2
  <1>1. CellsTo(r, 2 - 2) = {}
    BY DEF CellsTo
  <1>2. Cardinality(CellsTo(r, 2 - 2)) = 0
    BY <1>1, FS_EmptySet
  <1>3. End(r, 2) = 2 + Cardinality(CellsTo(r, 2 - 2))
    BY DEF End
  <1>4. QED
    BY <1>2, <1>3

LEMMA EndFacts ==
  ASSUME NEW r \in Requests, NEW k \in 0 .. NParams(r) + 2
  PROVE  /\ End(r, k) \in Nat
         /\ \A j \in 0 .. k : End(r, j) <= End(r, k)
         /\ End(r, k) <= 1 + ClientTotalLen(r)
  <1>1. \A i \in 0 .. NParams(r) :
          /\ Cardinality(CellsTo(r, i)) \in Nat
          /\ 2 + Cardinality(CellsTo(r, i)) <= 1 + ClientTotalLen(r)
    <2>1. SUFFICES ASSUME NEW i \in 0 .. NParams(r)
                   PROVE  /\ Cardinality(CellsTo(r, i)) \in Nat
                          /\ Cardinality(CellsTo(r, i)) <= Cardinality(Counted(r))
                          /\ Cardinality(Counted(r)) \in Nat
      BY CountedSize
    <2>2. QED
      BY CellsCounted, CountedSize, FS_Subset, FS_CardinalityType
  <1>2. ASSUME NEW i \in 0 .. NParams(r), NEW j \in 0 .. i
        PROVE  Cardinality(CellsTo(r, j)) <= Cardinality(CellsTo(r, i))
    <2>1. CellsTo(r, j) \subseteq CellsTo(r, i)
      <3>1. 1 .. j \subseteq 1 .. i
        OBVIOUS
      <3>2. QED
        BY <3>1 DEF CellsTo
    <2>2. QED
      BY <2>1, CellsCounted, FS_Subset
  <1>3. NParams(r) \in Nat /\ ClientTotalLen(r) \in Nat /\ 1 <= ClientTotalLen(r)
    BY ArgFacts, CountedSize, FS_CardinalityType
  <1>4. CASE k < 2
    BY <1>3, <1>4 DEF End
  <1>5. CASE k >= 2
    <2>1. k - 2 \in 0 .. NParams(r)
      BY <1>3, <1>5
    <2>2. End(r, k) = 2 + Cardinality(CellsTo(r, k - 2))
      BY <1>5 DEF End
    <2>3. ASSUME NEW j \in 0 .. k
          PROVE  End(r, j) <= End(r, k)
      <3>1. CASE j < 2
        BY <1>1, <2>1, <2>2, <3>1 DEF End
      <3>2. CASE j >= 2
        <4>1. j - 2 \in 0 .. k - 2
          BY <3>2, <1>5
        <4>2. Cardinality(CellsTo(r, j - 2)) <= Cardinality(CellsTo(r, k - 2))
          <5>1. k - 2 \in 0 .. NParams(r) /\ j - 2 \in 0 .. (k - 2)
            BY <2>1, <4>1
          <5>2. QED
            BY <1>2, <5>1
        <4>3. j - 2 \in 0 .. NParams(r)
          BY <4>1, <2>1, <1>3
        <4>4. QED
          BY <4>2, <4>3, <2>1, <2>2, <3>2, <1>1 DEF End
      <3>3. QED
        BY <3>1, <3>2
    <2>4. QED
      BY <1>1, <2>1, <2>2, <2>3
  <1>6. QED
    BY <1>4, <1>5

(* A field ends its own length after the one before it.                    *)
LEMMA EndStep ==
  ASSUME WordArguments, NEW r \in Requests, NEW k \in 1 .. NParams(r) + 2
  PROVE  End(r, k) = End(r, k - 1) + Len(Field(r, k))
  <1>1. NParams(r) \in Nat
    BY ArgFacts
  <1>2. CASE k = 1
    BY <1>2 DEF End, Field
  <1>3. CASE k = 2
    BY <1>3, EndTwo DEF End, Field
  <1>4. CASE k > 2
    <2>1. k - 2 \in 1 .. NParams(r) /\ (k - 1) - 2 = (k - 2) - 1 /\ (k - 2) - 1 \in 0 .. NParams(r)
      BY <1>1, <1>4
    <2>2. Field(r, k) = EncodeArg(Params(r.m)[k - 2], r.args[k - 2])
      BY <1>4 DEF Field
    <2>3. Cardinality(CellsTo(r, k - 2)) =
            Cardinality(CellsTo(r, (k - 2) - 1)) + Len(Field(r, k))
      BY <2>1, <2>2, CellsStep
    <2>4. Field(r, k) \in Seq(Nat)
      BY <1>4, <1>1, FieldType DEF NParams
    <2>5. Len(Field(r, k)) \in Nat /\ Cardinality(CellsTo(r, (k - 2) - 1)) \in Nat
      BY <2>1, <2>4, LenProperties, CellsCounted
    <2>6. QED
      BY <1>4, <2>1, <2>3, <2>5 DEF End
  <1>5. QED
    BY <1>2, <1>3, <1>4

(* A frame as long as total_len says has no bool among its parameters.     *)
LEMMA WholeHasNoBool ==
  ASSUME NEW r \in Requests, End(r, NParams(r) + 2) = 1 + ClientTotalLen(r)
  PROVE  \A i \in 1 .. NParams(r) : Params(r.m)[i] # "bool"
  <1>1. SUFFICES ASSUME NEW i \in 1 .. NParams(r), Params(r.m)[i] = "bool"
                 PROVE  FALSE
    OBVIOUS
  <1>2. NParams(r) \in Nat /\ NParams(r) \in 0 .. NParams(r)
    BY ArgFacts
  <1>3. Cardinality(CellsTo(r, NParams(r))) \in Nat /\ Cardinality(Counted(r)) \in Nat
    BY <1>2, CellsCounted, CountedSize, FS_CardinalityType
  <1>4. Cardinality(CellsTo(r, NParams(r))) = Cardinality(Counted(r))
    BY <1>2, <1>3, CountedSize DEF End
  <1>5. CellsTo(r, NParams(r)) = Counted(r)
    BY <1>2, <1>4, CellsCounted, CountedSize, FS_Subset
  <1>6. <<i, 0>> \in CellsTo(r, NParams(r))
    BY <1>5 DEF Counted
  <1>7. PICK j \in 1 .. NParams(r) : <<i, 0>> \in CellsOf(r, j)
    BY <1>6 DEF CellsTo
  <1>8. j = i
    BY <1>7 DEF CellsOf
  <1>9. CellsOf(r, i) = {}
    BY <1>1 DEF CellsOf
  <1>10. QED
    BY <1>7, <1>8, <1>9

-----------------------------------------------------------------------------
(* Sequences of cells *)

LEMMA NatConcat ==
  ASSUME NEW s \in Seq(Nat), NEW t \in Seq(Nat)
  PROVE  /\ s \o t \in Seq(Nat)
         /\ Len(s) \in Nat /\ Len(t) \in Nat /\ Len(s \o t) = Len(s) + Len(t)
         /\ \A i \in 1 .. Len(s) : (s \o t)[i] = s[i]
         /\ \A i \in 1 .. Len(t) : (s \o t)[Len(s) + i] = t[i]
         /\ s \o <<>> = s /\ <<>> \o s = s
  <1>1. Len(s) \in Nat /\ Len(t) \in Nat
    BY LenProperties
  <1>2. /\ s \o t \in Seq(Nat) /\ Len(s \o t) = Len(s) + Len(t)
        /\ \A i \in 1 .. Len(s) + Len(t) :
             (s \o t)[i] = IF i <= Len(s) THEN s[i] ELSE t[i - Len(s)]
    BY ConcatProperties
  <1>3. s \o <<>> = s /\ <<>> \o s = s
    BY ConcatEmptySeq
  <1>4. \A i \in 1 .. Len(s) : (s \o t)[i] = s[i]
    BY <1>1, <1>2
  <1>5. ASSUME NEW i \in 1 .. Len(t)
        PROVE  (s \o t)[Len(s) + i] = t[i]
    <2>1. /\ Len(s) + i \in 1 .. Len(s) + Len(t)
          /\ ~ (Len(s) + i <= Len(s)) /\ (Len(s) + i) - Len(s) = i
      BY <1>1
    <2>2. QED
      BY <1>2, <2>1
  <1>6. QED
    BY <1>1, <1>2, <1>3, <1>4, <1>5

LEMMA NatAssociative ==
  ASSUME NEW s \in Seq(Nat), NEW t \in Seq(Nat), NEW u \in Seq(Nat)
  PROVE  (s \o t) \o u = s \o (t \o u)
  BY ConcatAssociative

LEMMA NatSplit ==
  ASSUME NEW s \in Seq(Nat), NEW k \in 0 .. Len(s)
  PROVE  /\ SubSeq(s, 1, k) \in Seq(Nat) /\ SubSeq(s, k + 1, Len(s)) \in Seq(Nat)
         /\ SubSeq(s, 1, k) \o SubSeq(s, k + 1, Len(s)) = s
         /\ Len(SubSeq(s, 1, k)) = k
  <1>1. Len(s) \in Nat
    BY LenProperties
  <1>2. SubSeq(s, 1, k) \in Seq(Nat) /\ SubSeq(s, k + 1, Len(s)) \in Seq(Nat)
    BY <1>1, PrefixNat, SuffixNat
  <1>3. SubSeq(s, 1, k) \o SubSeq(s, k + 1, Len(s)) = SubSeq(s, 1, Len(s))
    <2>1. 1 \in 1 .. Len(s) + 1 /\ k \in 1 - 1 .. Len(s) /\ Len(s) \in k .. Len(s)
      BY <1>1
    <2>2. QED
      BY <2>1, ConcatAdjacentSubSeq
  <1>4. SubSeq(s, 1, Len(s)) = s
    BY SubSeqFull
  <1>5. Len(SubSeq(s, 1, k)) = k
    <2>1. \A i \in 1 .. k : s[i] \in Nat
      BY <1>1, ElementOfSeq
    <2>2. Len(SubSeq(s, 1, k)) = IF 1 <= k THEN k - 1 + 1 ELSE 0
      BY <1>1, <2>1, SubSeqProperties
    <2>3. QED
      BY <2>2
  <1>6. QED
    BY <1>2, <1>3, <1>4, <1>5

(* What a send moves from one queue to the next is not lost on the way,    *)
LEMMA SendMoves ==
  ASSUME NEW s \in Seq(Nat), NEW t \in Seq(Nat), NEW k \in 1 .. Len(t)
  PROVE  (s \o SubSeq(t, 1, k)) \o SubSeq(t, k + 1, Len(t)) = s \o t
  <1> DEFINE x == SubSeq(t, 1, k)
             y == SubSeq(t, k + 1, Len(t))
  <1>1. k \in 0 .. Len(t)
    BY LenProperties
  <1>2. x \in Seq(Nat) /\ y \in Seq(Nat) /\ x \o y = t
    BY <1>1, NatSplit
  <1> HIDE DEF x, y
  <1>3. (s \o x) \o y = s \o (x \o y)
    BY <1>2, NatAssociative
  <1>4. QED
    BY <1>2, <1>3 DEF x, y

(* nor is what a recv moves.                                               *)
LEMMA ChunkMoves ==
  ASSUME NEW b \in Seq(Nat), NEW q \in Seq(Nat), NEW want \in Nat
  PROVE  /\ Chunk(q, want) \in Seq(Nat) /\ Rest(q, want) \in Seq(Nat)
         /\ (b \o Chunk(q, want)) \o Rest(q, want) = b \o q
         /\ Len(b \o Chunk(q, want)) <= Len(b) + want
  <1> DEFINE k == IF Len(q) < want THEN Len(q) ELSE want
  <1>1. Len(q) \in Nat
    BY LenProperties
  <1>2. k \in 0 .. Len(q) /\ k <= want
    BY <1>1
  <1>3. Chunk(q, want) = SubSeq(q, 1, k)
    BY DEF Chunk
  <1> HIDE DEF k
  <1>4. Len(Chunk(q, want)) = k
    BY <1>2, <1>3, NatSplit
  <1>5. Rest(q, want) = SubSeq(q, k + 1, Len(q))
    BY <1>4 DEF Rest
  <1>6. /\ Chunk(q, want) \in Seq(Nat) /\ Rest(q, want) \in Seq(Nat)
        /\ Chunk(q, want) \o Rest(q, want) = q
    BY <1>2, <1>3, <1>5, NatSplit
  <1>7. Len(b \o Chunk(q, want)) = Len(b) + k /\ Len(b) \in Nat
    BY <1>4, <1>6, NatConcat
  <1>8. Len(b \o Chunk(q, want)) <= Len(b) + want
    BY <1>1, <1>2, <1>7
  <1>9. (b \o Chunk(q, want)) \o Rest(q, want) = b \o q
    <2> DEFINE x == Chunk(q, want)
               y == Rest(q, want)
    <2>1. x \in Seq(Nat) /\ y \in Seq(Nat) /\ x \o y = q
      BY <1>6
    <2> HIDE DEF x, y
    <2>2. (b \o x) \o y = b \o (x \o y)
      BY <2>1, NatAssociative
    <2>3. QED
      BY <2>1, <2>2 DEF x, y
  <1>10. QED
    BY <1>6, <1>8, <1>9

LEMMA HeadMoves ==
  ASSUME NEW q \in Seq(Nat), q # <<>>
  PROVE  /\ Head(q) \in Nat /\ Tail(q) \in Seq(Nat)
         /\ <<Head(q)>> \in Seq(Nat) /\ <<Head(q)>> \o Tail(q) = q
  <1>1. Len(q) \in Nat /\ Len(q) >= 1
    BY EmptySeq, LenProperties
  <1>2. 1 \in 0 .. Len(q)
    BY <1>1
  <1>3. SubSeq(q, 1, 1) \o SubSeq(q, 1 + 1, Len(q)) = q
    BY <1>2, NatSplit
  <1>4. Head(q) = q[1] /\ Head(q) \in Nat /\ Tail(q) \in Seq(Nat)
    BY HeadTailProperties
  <1>5. SubSeq(q, 1, 1) = <<q[1]>>
    <2>1. SubSeq(q, 1, 1) = <<q[1]>> \o SubSeq(q, 1 + 1, 1)
      BY <1>1, SubSeqRecursiveFirst
    <2>2. SubSeq(q, 1 + 1, 1) = <<>>
      BY SubSeqEmpty
    <2>3. <<q[1]>> \o <<>> = <<q[1]>>
      BY <1>4, ConcatEmptySeq
    <2>4. QED
      BY <2>1, <2>2, <2>3
  <1>6. Tail(q) = SubSeq(q, 2, Len(q))
    BY TailIsSubSeq
  <1>7. QED
    BY <1>3, <1>4, <1>5, <1>6

(* Two frames that are the same have the same header and payload.          *)
LEMMA SameHeader ==
  ASSUME NEW v \in Nat, NEW w \in Nat, NEW s \in Seq(Nat), NEW t \in Seq(Nat),
         <<v>> \o s = <<w>> \o t
  PROVE  v = w /\ s = t
  <1>1. <<v>> \in Seq(Nat) /\ Len(<<v>>) = 1 /\ <<w>> \in Seq(Nat) /\ Len(<<w>>) = 1
    OBVIOUS
  <1>2. /\ Len(<<v>> \o s) = 1 + Len(s) /\ Len(<<w>> \o t) = 1 + Len(t)
        /\ Len(s) \in Nat /\ Len(t) \in Nat
        /\ (<<v>> \o s)[1] = v /\ (<<w>> \o t)[1] = w
        /\ \A i \in 1 .. Len(s) : (<<v>> \o s)[1 + i] = s[i]
        /\ \A i \in 1 .. Len(t) : (<<w>> \o t)[1 + i] = t[i]
    BY <1>1, NatConcat
  <1>3. Len(s) = Len(t)
    BY <1>2
  <1>4. \A i \in 1 .. Len(s) : s[i] = t[i]
    BY <1>2, <1>3
  <1>5. QED
    BY <1>2, <1>3, <1>4, SeqEqual

-----------------------------------------------------------------------------
(* What can be read from a frame *)

LEMMA FrameStep ==
  ASSUME WordArguments, NEW r \in Requests, NEW k \in 1 .. NParams(r) + 2,
         NEW s \in Seq(Nat), IsFrame(s, r, k - 1)
  PROVE  IsFrame(s \o Field(r, k), r, k)
  <1>1. NParams(r) \in Nat /\ k - 1 \in 0 .. NParams(r) + 2 /\ k \in 0 .. NParams(r) + 2
    BY ArgFacts
  <1>2. Field(r, k) \in Seq(Nat)
    BY <1>1, FieldType DEF NParams
  <1>3. End(r, k) = End(r, k - 1) + Len(Field(r, k)) /\ End(r, k - 1) \in Nat
    BY <1>1, EndStep, EndFacts
  <1>4. /\ Len(s \o Field(r, k)) = Len(s) + Len(Field(r, k))
        /\ \A i \in 1 .. Len(s) : (s \o Field(r, k))[i] = s[i]
        /\ \A i \in 1 .. Len(Field(r, k)) : (s \o Field(r, k))[Len(s) + i] = Field(r, k)[i]
    BY <1>2, NatConcat
  <1>5. Len(s) = End(r, k - 1)
    BY DEF IsFrame
  <1>6. ASSUME NEW j \in 1 .. k, NEW q \in 1 .. Len(Field(r, j))
        PROVE  (s \o Field(r, k))[End(r, j - 1) + q] = Field(r, j)[q]
    <2>1. CASE j = k
      BY <1>4, <1>5, <1>6, <2>1
    <2>2. CASE j # k
      <3>1. j \in 1 .. k - 1 /\ j \in 1 .. NParams(r) + 2 /\ j - 1 \in 0 .. NParams(r) + 2
        BY <1>1, <2>2
      <3>2. s[End(r, j - 1) + q] = Field(r, j)[q]
        BY <3>1 DEF IsFrame
      <3>3. Field(r, j) \in Seq(Nat)
        BY <1>1, <3>1, FieldType DEF NParams
      <3>4. Len(Field(r, j)) \in Nat /\ End(r, j - 1) \in Nat
        BY <3>1, <3>3, LenProperties, EndFacts
      <3>5. End(r, j) = End(r, j - 1) + Len(Field(r, j))
        BY <3>1, EndStep
      <3>6. End(r, j) <= End(r, k - 1)
        BY <1>1, <3>1, EndFacts
      <3>7. End(r, j - 1) + q \in 1 .. Len(s)
        BY <1>3, <1>5, <3>4, <3>5, <3>6
      <3>8. QED
        BY <1>4, <3>2, <3>7
    <2>3. QED
      BY <2>1, <2>2
  <1>7. QED
    BY <1>3, <1>4, <1>5, <1>6 DEF IsFrame

(* The header and the method id.                                           *)
LEMMA FrameHeader ==
  ASSUME WordArguments, NEW r \in Requests, NEW w \in Nat, NEW t \in Seq(Nat),
         WholeFrame(<<w>> \o t, r)
  PROVE  /\ w = ClientTotalLen(r) /\ Len(t) <= w
         /\ Len(t) = End(r, NParams(r) + 2) - 1
         /\ t # <<>> /\ t[1] + 1 = r.m
  <1>1. NParams(r) \in Nat
    BY ArgFacts
  <1>2. <<w>> \in Seq(Nat) /\ Len(<<w>>) = 1 /\ <<w>>[1] = w
    OBVIOUS
  <1>3. /\ Len(t) \in Nat /\ Len(<<w>> \o t) = 1 + Len(t)
        /\ (<<w>> \o t)[1] = w
        /\ \A i \in 1 .. Len(t) : (<<w>> \o t)[1 + i] = t[i]
    BY <1>2, NatConcat
  <1>4. /\ 1 + Len(t) = End(r, NParams(r) + 2)
        /\ \A j \in 1 .. NParams(r) + 2 : \A q \in 1 .. Len(Field(r, j)) :
             (<<w>> \o t)[End(r, j - 1) + q] = Field(r, j)[q]
    BY <1>3 DEF WholeFrame, IsFrame
  <1>5. /\ Field(r, 1)[1] = ClientTotalLen(r) /\ Len(Field(r, 1)) = 1
        /\ Field(r, 2)[1] = r.m - 1 /\ Len(Field(r, 2)) = 1
    BY DEF Field
  <1>6. End(r, 1 - 1) = 0 /\ End(r, 2 - 1) = 1
    BY DEF End
  <1>7. (<<w>> \o t)[0 + 1] = ClientTotalLen(r)
    <2>1. 1 \in 1 .. NParams(r) + 2 /\ 1 \in 1 .. Len(Field(r, 1))
      BY <1>1, <1>5
    <2>2. QED
      BY <1>4, <1>5, <1>6, <2>1
  <1>8. (<<w>> \o t)[1 + 1] = r.m - 1
    <2>1. 2 \in 1 .. NParams(r) + 2 /\ 1 \in 1 .. Len(Field(r, 2))
      BY <1>1, <1>5
    <2>2. QED
      BY <1>4, <1>5, <1>6, <2>1
  <1>9. /\ End(r, NParams(r) + 2) <= 1 + ClientTotalLen(r)
        /\ 2 <= End(r, NParams(r) + 2)
    <2>1. NParams(r) + 2 \in 0 .. NParams(r) + 2 /\ 2 \in 0 .. NParams(r) + 2
      BY <1>1
    <2>2. End(r, 2) = 2
      BY EndTwo
    <2>3. QED
      BY <2>1, <2>2, EndFacts
  <1>10. r.m \in Nat /\ ClientTotalLen(r) \in Nat
    BY RequestFacts, ServiceFacts, ClientTotalLenType
  <1>11. Len(t) >= 1
    BY <1>3, <1>4, <1>9
  <1>12. t[1] = r.m - 1
    BY <1>3, <1>8, <1>11
  <1>13. QED
    BY <1>3, <1>4, <1>7, <1>9, <1>10, <1>11, <1>12, EmptySeq

(* The slice of a sequence that matches another one is that one.           *)
LEMMA SliceIs ==
  ASSUME NEW t \in Seq(Nat), NEW v \in Seq(Nat), NEW p \in Nat, p + Len(v) <= Len(t),
         \A q \in 1 .. Len(v) : t[p + q] = v[q]
  PROVE  SubSeq(t, p + 1, p + Len(v)) = v
  <1> DEFINE x == SubSeq(t, p + 1, p + Len(v))
  <1>1. Len(t) \in Nat /\ Len(v) \in Nat
    BY LenProperties
  <1>2. \A i \in p + 1 .. p + Len(v) : t[i] \in Nat
    BY <1>1, ElementOfSeq
  <1>3. /\ x \in Seq(Nat)
        /\ Len(x) = IF p + 1 <= p + Len(v) THEN (p + Len(v)) - (p + 1) + 1 ELSE 0
        /\ \A i \in 1 .. (p + Len(v)) - (p + 1) + 1 : x[i] = t[(p + 1) + i - 1]
    BY <1>1, <1>2, SubSeqProperties
  <1> HIDE DEF x
  <1>4. Len(x) = Len(v)
    BY <1>1, <1>3
  <1>5. ASSUME NEW i \in 1 .. Len(v)
        PROVE  x[i] = v[i]
    <2>1. i \in 1 .. (p + Len(v)) - (p + 1) + 1 /\ (p + 1) + i - 1 = p + i
      BY <1>1
    <2>2. x[i] = t[p + i]
      BY <1>3, <2>1
    <2>3. QED
      BY <2>2
  <1>6. x = v
    BY <1>3, <1>4, <1>5, SeqEqual
  <1>7. QED
    BY <1>6 DEF x

(* Reading a whole payload at the place of a parameter gives the argument. *)
LEMMA FrameArg ==
  ASSUME WordArguments, NEW r \in Requests, NEW w \in Nat, NEW t \in Seq(Nat),
         WholeFrame(<<w>> \o t, r), Len(t) = w,
         NEW i \in 1 .. NParams(r)
  PROVE  /\ Decodes(Params(r.m)[i], t, End(r, i + 1))
         /\ Decoded(Params(r.m)[i], t, End(r, i + 1)) = r.args[i]
         /\ After(Params(r.m)[i], t, End(r, i + 1)) = End(r, i + 2)
  <1> DEFINE p == End(r, i + 1)
             v == r.args[i]
             e == EncodeArg(Params(r.m)[i], v)
  <1>1. NParams(r) \in Nat /\ v \in Seq(Nat) /\ Len(v) \in Nat /\ Params(r.m)[i] \in Types
        /\ i \in DOMAIN r.args
    BY ArgFacts
  <1>2. Params(r.m)[i] # "bool"
    <2>1. Len(t) = ClientTotalLen(r) /\ Len(t) = End(r, NParams(r) + 2) - 1
      BY FrameHeader
    <2>2. ClientTotalLen(r) \in Nat /\ End(r, NParams(r) + 2) \in Nat
      BY <1>1, ClientTotalLenType, EndFacts
    <2>3. End(r, NParams(r) + 2) = 1 + ClientTotalLen(r)
      BY <2>1, <2>2
    <2>4. QED
      BY <2>3, WholeHasNoBool
  <1>3. Field(r, i + 2) = e
    BY <1>1 DEF Field
  <1>4. e \in Seq(Nat) /\ Len(e) \in Nat
    <2>1. i + 2 \in Nat \ {0} /\ i + 2 <= NParams(r) + 2
      BY <1>1
    <2>2. e \in Seq(Nat)
      BY <1>3, <2>1, FieldType DEF NParams
    <2>3. QED
      BY <2>2, LenProperties
  <1>e. /\ Params(r.m)[i] = "int32" => e = v /\ Len(v) = 1
        /\ Params(r.m)[i] = "string" => e = <<Len(v)>> \o v
    BY <1>1 DEF EncodeArg, WordArguments
  <1> HIDE DEF e
  <1>5. /\ p \in Nat /\ 2 <= p /\ p + Len(e) <= 1 + Len(t) /\ End(r, i + 2) = p + Len(e)
        /\ Len(t) \in Nat
    <2>1. /\ i + 1 \in 0 .. NParams(r) + 2 /\ i + 2 \in 1 .. NParams(r) + 2 /\ i + 2 - 1 = i + 1
          /\ 2 \in 0 .. i + 1 /\ i + 2 \in 0 .. NParams(r) + 2
          /\ NParams(r) + 2 \in 0 .. NParams(r) + 2
      BY <1>1
    <2>2. End(r, 2) \in Nat /\ End(r, 2) >= 2
      BY EndTwo
    <2>3. p \in Nat /\ End(r, 2) <= p
      BY <2>1, EndFacts
    <2>4. End(r, i + 2) = p + Len(e)
      BY <1>3, <2>1, EndStep
    <2>5. End(r, i + 2) <= End(r, NParams(r) + 2)
      BY <2>1, EndFacts
    <2>6. Len(t) = End(r, NParams(r) + 2) - 1 /\ End(r, NParams(r) + 2) \in Nat
      BY <2>1, FrameHeader, EndFacts
    <2>7. QED
      BY <2>2, <2>3, <2>4, <2>5, <2>6, LenProperties
  <1>5a. \A q \in 1 .. Len(e) : (<<w>> \o t)[p + q] = e[q]
    <2>1. PICK j \in 1 .. NParams(r) + 2 : j = i + 2
      BY <1>1
    <2>2. \A q \in 1 .. Len(Field(r, j)) : (<<w>> \o t)[End(r, j - 1) + q] = Field(r, j)[q]
      BY DEF WholeFrame, IsFrame
    <2>3. j - 1 = i + 1 /\ Field(r, j) = e
      BY <1>1, <1>3, <2>1
    <2>4. QED
      BY <2>2, <2>3
  <1> HIDE DEF p
  <1>6. ASSUME NEW q \in 1 .. Len(e)
        PROVE  t[p + q - 1] = e[q]
    <2>2. (<<w>> \o t)[p + q] = e[q]
      BY <1>5a
    <2>3. /\ <<w>> \in Seq(Nat) /\ Len(<<w>>) = 1
      OBVIOUS
    <2>4. p + q - 1 \in 1 .. Len(t) /\ 1 + (p + q - 1) = p + q
      BY <1>4, <1>5
    <2>5. (<<w>> \o t)[1 + (p + q - 1)] = t[p + q - 1]
      BY <2>3, <2>4, NatConcat
    <2>6. QED
      BY <2>2, <2>4, <2>5
  <1> HIDE DEF v
  <1>7. CASE Params(r.m)[i] = "int32"
    <2>1. e = v /\ Len(v) = 1
      BY <1>e, <1>7
    <2>2. t[p + 1 - 1] = v[1]
      BY <1>6, <2>1
    <2>3. t[p] = v[1] /\ p <= Len(t)
      BY <1>5, <2>1, <2>2
    <2>4. <<v[1]>> = v
      <3>1. v[1] \in Nat
        BY <1>1, <2>1, ElementOfSeq
      <3>2. <<v[1]>> \in Seq(Nat) /\ Len(<<v[1]>>) = 1 /\ <<v[1]>>[1] = v[1]
        BY <3>1
      <3>3. \A k \in 1 .. Len(v) : v[k] = <<v[1]>>[k]
        BY <2>1, <3>2
      <3>4. QED
        BY <1>1, <2>1, <3>2, <3>3, SeqEqual
    <2>5. QED
      BY <1>5, <1>7, <2>1, <2>3, <2>4 DEF Decodes, Decoded, After, v, p
  <1>8. CASE Params(r.m)[i] = "string"
    <2>1. e = <<Len(v)>> \o v
      BY <1>e, <1>8
    <2>2. <<Len(v)>> \in Seq(Nat) /\ Len(<<Len(v)>>) = 1 /\ <<Len(v)>>[1] = Len(v)
      BY <1>1
    <2>3. /\ Len(e) = 1 + Len(v) /\ e[1] = Len(v)
          /\ \A q \in 1 .. Len(v) : e[1 + q] = v[q]
      BY <1>1, <2>1, <2>2, NatConcat
    <2>4. t[p] = Len(v) /\ p <= Len(t) /\ t[p] <= Len(t) - p
      <3>1. t[p + 1 - 1] = e[1]
        BY <1>1, <1>6, <2>3
      <3>2. QED
        BY <1>1, <1>5, <2>3, <3>1
    <2>5. ASSUME NEW q \in 1 .. Len(v)
          PROVE  t[p + q] = v[q]
      <3>1. 1 + q \in 1 .. Len(e) /\ p + (1 + q) - 1 = p + q
        BY <1>1, <1>5, <2>3
      <3>2. t[p + q] = e[1 + q]
        BY <1>6, <3>1
      <3>3. QED
        BY <2>3, <3>2
    <2>6. SubSeq(t, p + 1, p + Len(v)) = v
      <3>1. p + Len(v) <= Len(t) /\ p \in Nat
        BY <1>1, <1>5, <2>3
      <3>2. QED
        BY <1>1, <2>5, <3>1, SliceIs
    <2>7. QED
      <3>1. Decodes(Params(r.m)[i], t, End(r, i + 1))
        BY <1>8, <2>4 DEF Decodes, p
      <3>2. Decoded(Params(r.m)[i], t, End(r, i + 1)) = r.args[i]
        BY <1>8, <2>4, <2>6 DEF Decoded, v, p
      <3>3. After(Params(r.m)[i], t, End(r, i + 1)) = End(r, i + 2)
        BY <1>1, <1>5, <1>8, <2>3, <2>4 DEF After, p
      <3>4. QED
        BY <3>1, <3>2, <3>3
  <1>9. QED
    BY <1>1, <1>2, <1>7, <1>8 DEF Types

-----------------------------------------------------------------------------
(* What is on its way for one client *)

Serves(c)  == cur = c /\ spc \in Serving
Called(c)  == issued[c] = <<Request(c)>>
Silent(c)  == down[c] = <<>> /\ cbuf[c] = <<>> /\ served[c] = <<>> /\ returned[c] = <<>>
Awaited(c) == \/ sEnd[c] = "queued"
              \/ sEnd[c] = "open" /\ Serves(c) /\ spc = "header" /\ sbuf = <<>>

(* Before its call, the client has sent nothing and the server, if it has  *)
(* accepted the connection, is waiting for a header.                       *)
Idle(c) ==
  /\ issued[c] = <<>> /\ Silent(c) /\ up[c] = <<>> /\ cout[c] = <<>>
  /\ \/ cpc[c] \in {"start", "exit69"} /\ sEnd[c] = "none"
     \/ cpc[c] = "ready" /\ Awaited(c)

(* The stub is writing its buffer, which holds the fields before the next. *)
Writing(c) ==
  /\ Called(c) /\ Silent(c) /\ up[c] = <<>> /\ Awaited(c)
  /\ cpc[c] = "serialize" /\ IsFrame(cout[c], Request(c), field[c] - 1)

Decoding(c) ==
  /\ Len(sargs) <= NParams(Request(c))
  /\ sargs = SubSeq(Request(c).args, 1, Len(sargs))
  /\ spos = End(Request(c), Len(sargs) + 2)

(* What the server has read, what is in the connection and what the stub   *)
(* still has to send are, one after the other, the frame of the request;   *)
(* once the server has a whole payload nothing else is left, and what it   *)
(* has deserialised are the first arguments.                               *)
Asking(c) ==
  /\ Called(c) /\ Silent(c)
  /\ cpc[c] \in {"send", "header"} /\ (cpc[c] = "header" => cout[c] = <<>>)
  /\ \/ Awaited(c) /\ WholeFrame(up[c] \o cout[c], Request(c))
     \/ /\ sEnd[c] = "open" /\ Serves(c) /\ spc = "payload"
        /\ WholeFrame((<<swant>> \o sbuf) \o (up[c] \o cout[c]), Request(c))
        /\ Len(sbuf) <= swant
     \/ /\ sEnd[c] = "open" /\ Serves(c) /\ spc \in {"method", "args"}
        /\ WholeFrame(<<swant>> \o sbuf, Request(c)) /\ Len(sbuf) = swant
        /\ up[c] = <<>> /\ cout[c] = <<>>
        /\ spc = "args" => Decoding(c)

Answer(c)   == served[c][1].res
Reply(c)    == EncodeResult(ReturnType(c), Answer(c))
ReplyLen(c) == ServerTotalLen(Request(c).m, Answer(c))
Pending(c)  == IF cur = c /\ spc = "send" THEN sout ELSE <<>>
Coming(c)   == down[c] \o Pending(c)

BeginsWith(s, t) == Len(t) <= Len(s) /\ \A i \in 1..Len(t) : s[i] = t[i]

(* The request has been executed, with its own arguments, and nothing of   *)
(* it is left; what the client has received, what is in the connection and *)
(* what the server still has to send are the frame of the reply.  Where    *)
(* its total_len is too large, garbage fills the payload after the close.  *)
Answered(c) ==
  /\ Called(c) /\ up[c] = <<>> /\ cout[c] = <<>>
  /\ served[c] = <<[req |-> Request(c), res |-> Answer(c)]>>
  /\ Answer(c) \in ResultsFor(Request(c))
  /\ \/ sEnd[c] = "open" /\ Serves(c) /\ spc \in {"send", "close"}
     \/ sEnd[c] = "closed"
  /\ \/ /\ cpc[c] \in {"send", "header"} /\ cbuf[c] = <<>> /\ returned[c] = <<>>
        /\ Coming(c) = <<ReplyLen(c)>> \o Reply(c)
     \/ /\ cpc[c] = "payload" /\ cwant[c] = ReplyLen(c) /\ returned[c] = <<>>
        /\ BeginsWith(cbuf[c] \o Coming(c), Reply(c))
        /\ sEnd[c] = "open" \/ down[c] # <<>> => cbuf[c] \o Coming(c) = Reply(c)
     \/ cpc[c] = "ready" /\ returned[c] = served[c]
     \/ cpc[c] \in Gone /\ returned[c] \in {<<>>, served[c]}

Ledger(c) ==
  /\ ~ crst[c] /\ (srst[c] => cpc[c] \in Gone)
  /\ Idle(c) \/ Writing(c) \/ Asking(c) \/ Answered(c)

(* A step that concerns another client, or the server while it serves      *)
(* another one, leaves the books of a client as they are.                  *)
LEMMA LedgerFrame ==
  ASSUME NEW c \in Clients, Ledger(c),
         cpc'[c] = cpc[c], issued'[c] = issued[c], field'[c] = field[c], cout'[c] = cout[c],
         cwant'[c] = cwant[c], cbuf'[c] = cbuf[c], returned'[c] = returned[c],
         served'[c] = served[c], up'[c] = up[c], down'[c] = down[c], sEnd'[c] = sEnd[c],
         srst'[c] = srst[c], crst'[c] = crst[c],
         UNCHANGED <<spc, cur, serverBuf, sout>> \/ (~ Serves(c) /\ ~ Serves(c)')
  PROVE  Ledger(c)'
  <1>1. Request(c)' = Request(c) /\ Called(c)' = Called(c)
    BY DEF Request, Called
  <1>2. Silent(c)' = Silent(c)
    BY DEF Silent
  <1>3. Awaited(c)' = Awaited(c)
    BY DEF Awaited, Serves, serverBuf
  <1>4. Answer(c)' = Answer(c)
    BY DEF Answer
  <1>5. Reply(c)' = Reply(c) /\ ReplyLen(c)' = ReplyLen(c)
    BY <1>1, <1>4 DEF Reply, ReplyLen, ReturnType
  <1>6. Pending(c)' = Pending(c) /\ Coming(c)' = Coming(c)
    BY DEF Pending, Coming, Serves, Serving
  <1>7. Idle(c) => Idle(c)'
    BY <1>2, <1>3 DEF Idle
  <1>8. Writing(c) => Writing(c)'
    BY <1>1, <1>2, <1>3 DEF Writing
  <1>9. Asking(c) => Asking(c)'
    BY <1>1, <1>2, <1>3 DEF Asking, Serves, Decoding, serverBuf
  <1>10. Answered(c) => Answered(c)'
    BY <1>1, <1>4, <1>5, <1>6 DEF Answered, Serves
  <1>11. QED
    BY <1>7, <1>8, <1>9, <1>10 DEF Ledger

LEMMA ConnectLedger ==
  ASSUME NEW c \in Clients, Ledger(c), TypeOK, spc # "dead",
         Connect(c) \/ ConnectRefused(c)
  PROVE  Ledger(c)'
  <1> USE DEF TypeOK, ClientTypeOK, NetTypeOK
  <1>1. Idle(c) /\ cpc[c] = "start"
    BY DEF Connect, ConnectRefused, Ledger, Writing, Asking, Answered, Gone
  <1>2. /\ UNCHANGED <<issued, cout, cbuf, returned, served, up, down, srst, crst>>
        /\ \/ cpc'[c] = "ready" /\ sEnd'[c] = "queued"
           \/ cpc'[c] = "exit69" /\ sEnd'[c] = sEnd[c]
    BY DEF Connect, ConnectRefused, serverVars, netVars
  <1>3. Silent(c)' = Silent(c)
    BY <1>2 DEF Silent
  <1>4. Idle(c)'
    BY <1>1, <1>2, <1>3 DEF Idle, Awaited
  <1>5. QED
    BY <1>2, <1>4, <1>1 DEF Ledger, Gone

LEMMA CallLedger ==
  ASSUME OneCall, NEW c \in Clients, Ledger(c), TypeOK, Call(c)
  PROVE  Ledger(c)'
  <1> USE DEF TypeOK, ClientTypeOK, NetTypeOK
  <1>1. issued[c] = <<>>
    <2>1. Len(issued[c]) \in Nat /\ Len(issued[c]) < MaxCalls /\ MaxCalls \in Nat
      BY DataAssumption, LenProperties DEF Call
    <2>2. Len(issued[c]) = 0
      BY <2>1 DEF OneCall
    <2>3. QED
      BY <2>2, EmptySeq
  <1>2. Idle(c) /\ cpc[c] = "ready"
    BY <1>1 DEF Call, Ledger, Writing, Asking, Answered, Called
  <1>3. PICK r \in Requests : issued' = [issued EXCEPT ![c] = Append(@, r)]
    BY DEF Call
  <1>4. issued'[c] = <<r>> /\ Request(c)' = r
    BY <1>1, <1>3 DEF Request
  <1>5. /\ UNCHANGED <<cout, cbuf, returned, serverVars, netVars>>
        /\ cpc'[c] = "serialize" /\ field'[c] = 1
    BY DEF Call
  <1>6. Silent(c)' /\ Awaited(c)' /\ up'[c] = <<>> /\ cout'[c] = <<>>
    BY <1>2, <1>5 DEF Idle, Silent, Awaited, Serves, serverVars, serverBuf, netVars
  <1>7. IsFrame(<<>>, r, 0)
    BY DEF IsFrame, End
  <1>8. Writing(c)'
    BY <1>4, <1>5, <1>6, <1>7 DEF Writing, Called
  <1>9. QED
    BY <1>2, <1>5, <1>8 DEF Ledger, netVars, Gone

LEMMA SerializeLedger ==
  ASSUME MemorySuffices, WordArguments, NEW c \in Clients, Ledger(c), TypeOK, StubCalled,
         Serialize(c)
  PROVE  Ledger(c)'
  <1> USE DEF TypeOK, ClientTypeOK, NetTypeOK
  <1> DEFINE r == Request(c)
             k == field[c]
  <1>1. cpc[c] = "serialize" /\ Writing(c)
    BY DEF Serialize, Ledger, Idle, Asking, Answered, Gone
  <1>2. r \in Requests /\ NParams(r) \in Nat /\ k \in 1 .. NParams(r) + 2
    <2>1. issued[c] # <<>> /\ k <= NParams(r) + 2
      BY <1>1 DEF StubCalled, InStub, NParams
    <2>2. r \in Requests
      BY <2>1, RequestType
    <2>3. QED
      BY <2>1, <2>2, ArgFacts
  <1>3. /\ cout'[c] = cout[c] \o Field(r, k) /\ field'[c] = k + 1
        /\ cpc'[c] = IF k = NParams(r) + 2 THEN "send" ELSE "serialize"
        /\ UNCHANGED <<issued, cwant, cbuf, returned, serverVars, netVars>>
    BY <1>1 DEF Serialize, MemorySuffices, NParams
  <1>4. cout[c] \in Seq(Nat) /\ IsFrame(cout[c], r, k - 1)
    BY <1>1 DEF Writing
  <1>5. IsFrame(cout'[c], r, k)
    BY <1>2, <1>3, <1>4, FrameStep
  <1>6. cout'[c] \in Seq(Nat)
    <2>1. Field(r, k) \in Seq(Nat)
      BY <1>2, FieldType DEF NParams
    <2>2. QED
      BY <1>3, <1>4, <2>1, NatConcat
  <1>7. Request(c)' = r
    BY <1>3 DEF Request
  <1>8. Called(c)' /\ Silent(c)' /\ Awaited(c)' /\ up'[c] = <<>>
    BY <1>1, <1>3, <1>7 DEF Writing, Called, Silent, Awaited, Serves, serverVars, serverBuf, netVars
  <1> HIDE DEF r, k
  <1>9. ~ crst'[c] /\ ~ srst'[c]
    BY <1>1, <1>3 DEF Ledger, netVars, Gone
  <1>10. CASE k = NParams(r) + 2
    <2>1. up'[c] \o cout'[c] = cout'[c]
      BY <1>6, <1>8, NatConcat
    <2>2. WholeFrame(up'[c] \o cout'[c], r)
      BY <1>5, <1>10, <2>1 DEF WholeFrame
    <2>3. cpc'[c] = "send"
      BY <1>3, <1>10
    <2>4. Asking(c)'
      BY <1>7, <1>8, <2>2, <2>3 DEF Asking
    <2>5. QED
      BY <1>9, <2>4 DEF Ledger
  <1>11. CASE k # NParams(r) + 2
    <2>1. cpc'[c] = "serialize" /\ field'[c] - 1 = k
      BY <1>2, <1>3, <1>11
    <2>2. Writing(c)'
      BY <1>5, <1>7, <1>8, <2>1 DEF Writing
    <2>3. QED
      BY <1>9, <2>2 DEF Ledger
  <1>12. QED
    BY <1>10, <1>11

LEMMA SendLedger ==
  ASSUME NEW c \in Clients, Ledger(c), TypeOK, Send(c)
  PROVE  Ledger(c)'
  <1> USE DEF TypeOK, ClientTypeOK, ServerTypeOK, NetTypeOK
  <1>1. cpc[c] = "send" /\ cout[c] # <<>> /\ Asking(c)
    BY DEF Send, Ledger, Idle, Writing, Answered
  <1>2. ServerOpen(c)
    BY <1>1 DEF Asking, Awaited, ServerOpen
  <1>3. PICK k \in 1..Len(cout[c]) :
          /\ cout'[c] = SubSeq(cout[c], k + 1, Len(cout[c]))
          /\ up'[c] = up[c] \o SubSeq(cout[c], 1, k)
          /\ UNCHANGED crst
    BY <1>2 DEF Send
  <1>4. UNCHANGED <<cpc, issued, field, cwant, cbuf, returned, serverVars, down, sEnd, srst>>
    BY DEF Send
  <1>5. /\ cout[c] \in Seq(Nat) /\ up[c] \in Seq(Nat)
        /\ <<swant>> \o sbuf \in Seq(Nat)
    <2>1. <<swant>> \in Seq(Nat) /\ sbuf \in Seq(Nat)
      OBVIOUS
    <2>2. QED
      BY <2>1, NatConcat
  <1>6. up'[c] \o cout'[c] = up[c] \o cout[c]
    <2>1. (up[c] \o SubSeq(cout[c], 1, k)) \o SubSeq(cout[c], k + 1, Len(cout[c]))
            = up[c] \o cout[c]
      BY <1>5, SendMoves
    <2>2. QED
      BY <1>3, <2>1
  <1>7. /\ Request(c)' = Request(c) /\ Called(c)' = Called(c) /\ Silent(c)' = Silent(c)
        /\ Awaited(c)' = Awaited(c)
    BY <1>4 DEF Request, Called, Silent, Awaited, Serves, serverVars, serverBuf
  <1>8. Asking(c)'
    BY <1>1, <1>4, <1>6, <1>7 DEF Asking, Serves, serverVars, serverBuf
  <1>9. QED
    BY <1>3, <1>4, <1>8 DEF Ledger

LEMMA SendReturnsLedger ==
  ASSUME NEW c \in Clients, Ledger(c), TypeOK, SendReturns(c)
  PROVE  Ledger(c)'
  <1> USE DEF TypeOK, ClientTypeOK, NetTypeOK
  <1>1. cpc[c] = "send" /\ cout[c] = <<>> /\ (Asking(c) \/ Answered(c))
    BY DEF SendReturns, Ledger, Idle, Writing
  <1>2. /\ cpc'[c] = "header" /\ cout'[c] = <<>>
        /\ UNCHANGED <<issued, field, cwant, cbuf, returned, serverVars, netVars>>
    BY DEF SendReturns
  <1>3. /\ Request(c)' = Request(c) /\ Called(c)' = Called(c) /\ Silent(c)' = Silent(c)
        /\ Awaited(c)' = Awaited(c)
    BY <1>2 DEF Request, Called, Silent, Awaited, Serves, serverVars, serverBuf, netVars
  <1>4. ASSUME Asking(c)
        PROVE  Asking(c)'
    BY <1>1, <1>2, <1>3, <1>4 DEF Asking, Serves, Decoding, serverVars, serverBuf, netVars
  <1>5. ASSUME Answered(c)
        PROVE  Answered(c)'
    <2>1. Answer(c)' = Answer(c) /\ Coming(c)' = Coming(c)
      BY <1>2 DEF Answer, Coming, Pending, serverVars, netVars
    <2>2. Reply(c)' = Reply(c) /\ ReplyLen(c)' = ReplyLen(c)
      BY <1>3, <2>1 DEF Reply, ReplyLen, ReturnType
    <2>3. QED
      BY <1>1, <1>2, <1>3, <1>5, <2>1, <2>2 DEF Answered, Serves, Gone, serverVars, netVars
  <1>6. QED
    BY <1>1, <1>2, <1>4, <1>5 DEF Ledger, Gone, netVars

(* A client that waits for an answer to a connection the server has let go *)
(* finds all of the answer in the connection.                              *)
LEMMA NothingPending ==
  ASSUME NEW c \in Clients, FdDiscipline, ~ ServerOpen(c)
  PROVE  Pending(c) = <<>> /\ sEnd[c] # "open"
  BY DEF Pending, FdDiscipline, ServerOpen, Serving

LEMMA ReplyFacts ==
  ASSUME NEW c \in Clients, TypeOK, Answered(c)
  PROVE  /\ Request(c) \in Requests /\ Request(c).m \in DOMAIN Service
         /\ ReturnType(c) \in Types /\ Answer(c) \in ResultsOf(ReturnType(c))
         /\ Answer(c) \in Values /\ Reply(c) \in Seq(Nat) /\ ReplyLen(c) \in Nat
         /\ down[c] \in Seq(Nat) /\ Pending(c) \in Seq(Nat) /\ cbuf[c] \in Seq(Nat)
         /\ Coming(c) \in Seq(Nat)
  <1> USE DEF TypeOK, ClientTypeOK, ServerTypeOK, NetTypeOK
  <1>1. issued[c] = <<Request(c)>>
    BY DEF Answered, Called
  <1>2. Request(c) \in Requests
    <2>1. issued[c] # <<>>
      BY <1>1
    <2>2. QED
      BY <2>1, RequestType
  <1>3. Request(c).m \in DOMAIN Service /\ ReturnType(c) \in Types
    BY <1>2, RequestFacts, ServiceFacts DEF ReturnType
  <1>4. Answer(c) \in ResultsOf(ReturnType(c))
    BY DEF Answered, ResultsFor, ReturnType
  <1>5. Answer(c) \in Values /\ Reply(c) \in Seq(Nat)
    BY <1>3, <1>4, ResultType DEF Reply
  <1>6. ReplyLen(c) \in Nat
    BY <1>3, <1>5, ServerTotalLenType DEF ReplyLen
  <1>7. down[c] \in Seq(Nat) /\ Pending(c) \in Seq(Nat) /\ cbuf[c] \in Seq(Nat)
    BY DEF Pending
  <1>8. Coming(c) \in Seq(Nat)
    BY <1>7, NatConcat DEF Coming
  <1>9. QED
    BY <1>2, <1>3, <1>4, <1>5, <1>6, <1>7, <1>8

LEMMA RecvHeaderLedger ==
  ASSUME NEW c \in Clients, Ledger(c), TypeOK, FdDiscipline, RecvHeader(c)
  PROVE  Ledger(c)'
  <1>1. cpc[c] = "header" /\ cpc' = [cpc EXCEPT ![c] = "payload"]
        /\ UNCHANGED <<issued, field, cout, cbuf, returned, serverVars, up, sEnd, srst, crst, backlog>>
    BY DEF RecvHeader
  <1>2. Answered(c)
    <2>1. Asking(c) \/ Answered(c)
      BY <1>1 DEF Ledger, Idle, Writing
    <2>2. ASSUME Asking(c)
          PROVE  FALSE
      <3>1. down[c] = <<>> /\ ServerOpen(c)
        BY <2>2 DEF Asking, Silent, Awaited, ServerOpen
      <3>2. QED
        BY <3>1 DEF RecvHeader
    <2>3. QED
      BY <2>1, <2>2
  <1>3. cbuf[c] = <<>> /\ Coming(c) = <<ReplyLen(c)>> \o Reply(c) /\ returned[c] = <<>>
    BY <1>1, <1>2 DEF Answered, Gone
  <1>4. /\ down[c] \in Seq(Nat) /\ Pending(c) \in Seq(Nat) /\ Reply(c) \in Seq(Nat)
        /\ ReplyLen(c) \in Nat
    BY <1>2, ReplyFacts
  <1>5. down[c] # <<>>
    <2>1. SUFFICES ASSUME down[c] = <<>>
                   PROVE  FALSE
      OBVIOUS
    <2>2. Pending(c) = <<>>
      BY <2>1, NothingPending DEF RecvHeader
    <2>3. Coming(c) = <<>>
      BY <2>1, <2>2, <1>4, NatConcat DEF Coming
    <2>4. Len(<<ReplyLen(c)>> \o Reply(c)) = 1 + Len(Reply(c)) /\ Len(Reply(c)) \in Nat
      <3>1. <<ReplyLen(c)>> \in Seq(Nat) /\ Len(<<ReplyLen(c)>>) = 1
        BY <1>4
      <3>2. QED
        BY <1>4, <3>1, NatConcat
    <2>5. Len(<<>>) = 0
      OBVIOUS
    <2>6. QED
      BY <1>3, <2>3, <2>4, <2>5
  <1>6. cwant' = [cwant EXCEPT ![c] = Head(down[c])] /\ down' = [down EXCEPT ![c] = Tail(@)]
    BY <1>5 DEF RecvHeader
  <1>7. /\ Head(down[c]) = ReplyLen(c) /\ Tail(down[c]) \o Pending(c) = Reply(c)
        /\ Tail(down[c]) \in Seq(Nat)
    <2>1. /\ Head(down[c]) \in Nat /\ Tail(down[c]) \in Seq(Nat)
          /\ <<Head(down[c])>> \in Seq(Nat) /\ <<Head(down[c])>> \o Tail(down[c]) = down[c]
      BY <1>4, <1>5, HeadMoves
    <2>2. <<Head(down[c])>> \o (Tail(down[c]) \o Pending(c)) = <<ReplyLen(c)>> \o Reply(c)
      <3>1. (<<Head(down[c])>> \o Tail(down[c])) \o Pending(c)
              = <<Head(down[c])>> \o (Tail(down[c]) \o Pending(c))
        BY <1>4, <2>1, NatAssociative
      <3>2. QED
        BY <1>3, <2>1, <3>1 DEF Coming
    <2>3. Tail(down[c]) \o Pending(c) \in Seq(Nat)
      BY <1>4, <2>1, NatConcat
    <2> DEFINE v == Head(down[c])
               t == Tail(down[c]) \o Pending(c)
    <2>4. v \in Nat /\ t \in Seq(Nat) /\ <<v>> \o t = <<ReplyLen(c)>> \o Reply(c)
      BY <2>1, <2>2, <2>3
    <2> HIDE DEF v, t
    <2>5. v = ReplyLen(c) /\ t = Reply(c)
      BY <1>4, <2>4, SameHeader
    <2>6. QED
      BY <2>1, <2>5 DEF v, t
  <1>8. /\ Request(c)' = Request(c) /\ Called(c)' = Called(c) /\ Answer(c)' = Answer(c)
        /\ Pending(c)' = Pending(c)
    BY <1>1 DEF Request, Called, Answer, Pending, serverVars
  <1>9. Reply(c)' = Reply(c) /\ ReplyLen(c)' = ReplyLen(c)
    BY <1>8 DEF Reply, ReplyLen, ReturnType
  <1>10. cpc'[c] = "payload" /\ cwant'[c] = ReplyLen(c) /\ down'[c] = Tail(down[c])
    BY <1>1, <1>6, <1>7 DEF TypeOK, ClientTypeOK, NetTypeOK
  <1>11. cbuf'[c] \o Coming(c)' = Reply(c)
    BY <1>1, <1>3, <1>4, <1>7, <1>8, <1>10, NatConcat DEF Coming
  <1>12. BeginsWith(Reply(c), Reply(c))
    BY <1>4, LenProperties DEF BeginsWith
  <1>13. Answered(c)'
    BY <1>1, <1>2, <1>3, <1>8, <1>9, <1>10, <1>11, <1>12 DEF Answered, Serves, serverVars
  <1>14. QED
    BY <1>1, <1>13 DEF Ledger, Gone

LEMMA BeginsLonger ==
  ASSUME NEW b \in Seq(Nat), NEW g \in Seq(Nat), NEW t \in Seq(Nat), BeginsWith(b, t)
  PROVE  BeginsWith(b \o g, t)
  <1>1. /\ Len(b) \in Nat /\ Len(g) \in Nat /\ Len(b \o g) = Len(b) + Len(g)
        /\ \A i \in 1 .. Len(b) : (b \o g)[i] = b[i]
    BY NatConcat
  <1>2. Len(t) \in Nat
    BY LenProperties
  <1>3. QED
    BY <1>1, <1>2 DEF BeginsWith

(* What a client that is receiving the payload knows of it.                *)
LEMMA Receiving ==
  ASSUME NEW c \in Clients, Ledger(c), cpc[c] = "payload"
  PROVE  /\ Answered(c) /\ cwant[c] = ReplyLen(c) /\ returned[c] = <<>>
         /\ BeginsWith(cbuf[c] \o Coming(c), Reply(c))
         /\ sEnd[c] = "open" \/ down[c] # <<>> => cbuf[c] \o Coming(c) = Reply(c)
  <1>1. Answered(c)
    BY DEF Ledger, Idle, Writing, Asking
  <1>2. QED
    BY <1>1 DEF Answered, Gone

LEMMA RecvPayloadLedger ==
  ASSUME NEW c \in Clients, Ledger(c), TypeOK, FdDiscipline, RecvPayload(c)
  PROVE  Ledger(c)'
  <1> USE DEF TypeOK, ClientTypeOK, NetTypeOK
  <1> DEFINE missing == cwant[c] - Len(cbuf[c])
  <1>1. /\ cpc[c] = "payload" /\ missing \in Nat
        /\ \/ /\ down[c] # <<>>
              /\ cbuf'[c] = cbuf[c] \o Chunk(down[c], missing)
              /\ down'[c] = Rest(down[c], missing)
           \/ /\ down[c] = <<>> /\ ~ ServerOpen(c) /\ down'[c] = down[c]
              /\ \E g \in [1..missing -> Garbage] : cbuf'[c] = cbuf[c] \o g
    <2>1. Len(cbuf[c]) \in Nat /\ Len(cbuf[c]) < cwant[c] /\ cwant[c] \in Nat
      BY LenProperties DEF RecvPayload
    <2>2. missing \in Nat
      BY <2>1
    <2> HIDE DEF missing
    <2>3. /\ cpc[c] = "payload"
          /\ \/ /\ down[c] # <<>>
                /\ cbuf' = [cbuf EXCEPT ![c] = @ \o Chunk(down[c], missing)]
                /\ down' = [down EXCEPT ![c] = Rest(@, missing)]
             \/ /\ down[c] = <<>> /\ ~ ServerOpen(c)
                /\ \E g \in [1..missing -> Garbage] : cbuf' = [cbuf EXCEPT ![c] = @ \o g]
                /\ UNCHANGED down
      BY DEF RecvPayload, missing
    <2>4. QED
      BY <2>2, <2>3
  <1>2. UNCHANGED <<cpc, issued, field, cout, cwant, returned, serverVars, up, sEnd, srst, crst>>
    BY DEF RecvPayload
  <1> HIDE DEF missing
  <1>3. /\ Answered(c) /\ cwant[c] = ReplyLen(c) /\ returned[c] = <<>>
        /\ BeginsWith(cbuf[c] \o Coming(c), Reply(c))
        /\ sEnd[c] = "open" \/ down[c] # <<>> => cbuf[c] \o Coming(c) = Reply(c)
    BY <1>1, Receiving
  <1>4. /\ down[c] \in Seq(Nat) /\ Pending(c) \in Seq(Nat) /\ Reply(c) \in Seq(Nat)
        /\ cbuf[c] \in Seq(Nat)
    BY <1>3, ReplyFacts
  <1>5. /\ Request(c)' = Request(c) /\ Called(c)' = Called(c) /\ Answer(c)' = Answer(c)
        /\ Pending(c)' = Pending(c)
    BY <1>2 DEF Request, Called, Answer, Pending, serverVars
  <1>6. Reply(c)' = Reply(c) /\ ReplyLen(c)' = ReplyLen(c)
    BY <1>5 DEF Reply, ReplyLen, ReturnType
  <1>7. /\ BeginsWith(cbuf'[c] \o Coming(c)', Reply(c))
        /\ sEnd[c] = "open" \/ down'[c] # <<>> => cbuf'[c] \o Coming(c)' = Reply(c)
    <2>1. CASE down[c] # <<>>
      <3> DEFINE b == cbuf[c]
                 q == down[c]
                 p == Pending(c)
                 x == Chunk(q, missing)
                 y == Rest(q, missing)
      <3>1. /\ b \in Seq(Nat) /\ q \in Seq(Nat) /\ p \in Seq(Nat)
            /\ x \in Seq(Nat) /\ y \in Seq(Nat) /\ (b \o x) \o y = b \o q
        BY <1>1, <1>4, ChunkMoves
      <3>2. cbuf'[c] = b \o x /\ down'[c] = y
        BY <1>1, <2>1
      <3>3. Coming(c) = q \o p /\ Coming(c)' = y \o p
        BY <1>5, <3>2 DEF Coming
      <3> HIDE DEF b, q, p, x, y
      <3>4. b \o x \in Seq(Nat)
        BY <3>1, NatConcat
      <3>5. (b \o x) \o (y \o p) = ((b \o x) \o y) \o p
        BY <3>1, <3>4, NatAssociative
      <3>6. (b \o q) \o p = b \o (q \o p)
        BY <3>1, NatAssociative
      <3>7. (b \o x) \o (y \o p) = b \o (q \o p)
        BY <3>1, <3>5, <3>6
      <3>8. cbuf'[c] \o Coming(c)' = cbuf[c] \o Coming(c)
        BY <3>2, <3>3, <3>7 DEF b
      <3>9. QED
        BY <1>3, <2>1, <3>8
    <2>2. CASE down[c] = <<>>
      <3>1. /\ ~ ServerOpen(c) /\ down'[c] = <<>>
            /\ \E g \in [1..missing -> Garbage] : cbuf'[c] = cbuf[c] \o g
        BY <1>1, <2>2
      <3>2. PICK g \in [1..missing -> Garbage] : cbuf'[c] = cbuf[c] \o g
        BY <3>1
      <3>3. g \in Seq(Nat)
        BY <1>1, GarbageType
      <3>4. Pending(c) = <<>> /\ sEnd[c] # "open"
        BY <3>1, NothingPending
      <3>5. Coming(c) = <<>> /\ Coming(c)' = <<>>
        BY <1>4, <1>5, <2>2, <3>1, <3>4, NatConcat DEF Coming
      <3>6. BeginsWith(cbuf[c], Reply(c))
        BY <1>3, <1>4, <3>5, NatConcat
      <3>7. BeginsWith(cbuf[c] \o g, Reply(c)) /\ cbuf[c] \o g \in Seq(Nat)
        BY <1>4, <3>3, <3>6, BeginsLonger, NatConcat
      <3>8. BeginsWith(cbuf'[c] \o Coming(c)', Reply(c))
        <4>1. (cbuf[c] \o g) \o <<>> = cbuf[c] \o g
          BY <3>7, NatConcat
        <4>2. QED
          BY <3>2, <3>5, <3>7, <4>1
      <3>9. QED
        BY <3>1, <3>4, <3>8
    <2>3. QED
      BY <2>1, <2>2
  <1>8. Answered(c)'
    BY <1>1, <1>2, <1>3, <1>5, <1>6, <1>7 DEF Answered, Serves, serverVars
  <1>9. QED
    BY <1>2, <1>8 DEF Ledger

(* What a complete payload decodes to is what the server answered.         *)
LEMMA DecodesAnswer ==
  ASSUME NEW b \in Seq(Nat), NEW x \in Seq(Nat), NEW t \in Types, NEW v \in ResultsOf(t),
         BeginsWith(b \o x, EncodeResult(t, v)), Decodes(t, b, 1)
  PROVE  Decoded(t, b, 1) = v
  <1> DEFINE e == EncodeResult(t, v)
  <1>1. v \in Seq(Nat) /\ e \in Seq(Nat) /\ Len(v) \in Nat
    BY ResultType, LenProperties DEF Values
  <1>2. Len(b) \in Nat /\ 1 <= Len(b)
    BY LenProperties DEF Decodes
  <1>3. \A i \in 1 .. Len(b) : (b \o x)[i] = b[i]
    BY NatConcat
  <1>4. \A i \in 1 .. Len(e) : (b \o x)[i] = e[i]
    BY DEF BeginsWith
  <1>5. CASE t = "string"
    <2>1. e = <<Len(v)>> \o v
      BY <1>5 DEF EncodeResult
    <2>2. <<Len(v)>> \in Seq(Nat) /\ Len(<<Len(v)>>) = 1 /\ <<Len(v)>>[1] = Len(v)
      BY <1>1
    <2> HIDE DEF e
    <2>3. /\ Len(e) = 1 + Len(v) /\ e[1] = Len(v)
          /\ \A q \in 1 .. Len(v) : e[1 + q] = v[q]
      BY <1>1, <2>1, <2>2, NatConcat
    <2>4. b[1] = Len(v)
      BY <1>1, <1>2, <1>3, <1>4, <2>3
    <2>5. 1 + Len(v) <= Len(b)
      BY <1>1, <1>2, <1>5, <2>4 DEF Decodes
    <2>6. ASSUME NEW q \in 1 .. Len(v)
          PROVE  b[1 + q] = v[q]
      <3>1. 1 + q \in 1 .. Len(b) /\ 1 + q \in 1 .. Len(e)
        BY <1>1, <1>2, <2>3, <2>5
      <3>2. b[1 + q] = e[1 + q]
        BY <1>3, <1>4, <3>1
      <3>3. QED
        BY <2>3, <3>2
    <2>7. SubSeq(b, 1 + 1, 1 + Len(v)) = v
      BY <1>1, <2>5, <2>6, SliceIs
    <2>8. QED
      BY <1>5, <2>4, <2>7 DEF Decoded
  <1>6. CASE t # "string"
    <2>1. e = v
      BY <1>6 DEF EncodeResult
    <2>2. \E n \in Nat : v = <<n>>
      <3>1. t = "int32" \/ t = "bool"
        BY <1>6 DEF Types
      <3>2. ASSUME t = "int32"
            PROVE  \E n \in Nat : v = <<n>>
        <4>1. v \in {<<n>> : n \in Ints}
          BY <3>2 DEF ResultsOf
        <4>2. QED
          BY <4>1, DataAssumption
      <3>3. ASSUME t = "bool"
            PROVE  \E n \in Nat : v = <<n>>
        <4>1. v = <<0>> \/ v = <<1>>
          BY <3>3 DEF ResultsOf
        <4>2. QED
          BY <4>1
      <3>4. QED
        BY <3>1, <3>2, <3>3
    <2>3. PICK n \in Nat : v = <<n>>
      BY <2>2
    <2>4. Len(e) = 1 /\ e[1] = n
      BY <2>1, <2>3
    <2> HIDE DEF e
    <2>5. b[1] = n
      BY <1>2, <1>3, <1>4, <2>4
    <2>6. QED
      BY <1>6, <2>3, <2>5 DEF Decoded
  <1>7. QED
    BY <1>5, <1>6

LEMMA ReturnLedger ==
  ASSUME NEW c \in Clients, Ledger(c), TypeOK, Return(c)
  PROVE  Ledger(c)'
  <1> USE DEF TypeOK, ClientTypeOK, NetTypeOK
  <1>1. /\ cpc[c] = "payload" /\ Decodes(ReturnType(c), cbuf[c], 1)
        /\ cpc'[c] = "ready"
        /\ UNCHANGED <<issued, field, cout, cwant, serverVars, netVars>>
    BY DEF Return, Received
  <1>2. /\ Answered(c) /\ returned[c] = <<>>
        /\ BeginsWith(cbuf[c] \o Coming(c), Reply(c))
    BY <1>1, Receiving
  <1>3. Decoded(ReturnType(c), cbuf[c], 1) = Answer(c)
    BY <1>1, <1>2, ReplyFacts, DecodesAnswer DEF Reply
  <1>4. returned'[c] = <<[req |-> Request(c), res |-> Answer(c)]>>
    BY <1>2, <1>3 DEF Return
  <1>5. /\ Request(c)' = Request(c) /\ Called(c)' = Called(c) /\ Answer(c)' = Answer(c)
    BY <1>1 DEF Request, Called, Answer, serverVars
  <1>6. returned'[c] = served'[c]
    BY <1>1, <1>2, <1>4 DEF Answered, serverVars
  <1>7. Answered(c)'
    BY <1>1, <1>2, <1>5, <1>6 DEF Answered, Serves, serverVars, netVars
  <1>8. QED
    BY <1>1, <1>7 DEF Ledger, netVars, Gone

(* A client that leaves after its call, or because of what it received.    *)
LEMMA HangupLedger ==
  ASSUME NEW c \in Clients, Ledger(c), TypeOK, BadResponse(c) \/ Close(c)
  PROVE  Ledger(c)'
  <1> USE DEF TypeOK, ClientTypeOK, NetTypeOK
  <1>1. Answered(c) /\ returned[c] \in {<<>>, served[c]}
    <2>1. CASE BadResponse(c)
      BY <2>1, Receiving DEF BadResponse, Received
    <2>2. CASE Close(c)
      <3>1. cpc[c] = "ready" /\ issued[c] # <<>>
        BY <2>2 DEF Close
      <3>2. Answered(c)
        BY <3>1 DEF Ledger, Idle, Writing, Asking
      <3>3. QED
        BY <3>1, <3>2 DEF Answered, Gone
    <2>3. QED
      BY <2>1, <2>2
  <1>2. /\ cpc'[c] \in Gone /\ cout'[c] = <<>>
        /\ UNCHANGED <<issued, returned, serverVars, up, sEnd, crst>>
    BY DEF BadResponse, Close, Hangup, Gone
  <1>3. /\ Request(c)' = Request(c) /\ Called(c)' = Called(c) /\ Answer(c)' = Answer(c)
    BY <1>2 DEF Request, Called, Answer, serverVars
  <1>4. Answered(c)'
    BY <1>1, <1>2, <1>3 DEF Answered, Serves, serverVars
  <1>5. QED
    BY <1>2, <1>4 DEF Ledger

(* No step of a client that does not quit spoils its books.                *)
LEMMA ClientLedger ==
  ASSUME MemorySuffices, OneCall, WordArguments, NEW c \in Clients, Ledger(c), IInv,
         ClientStep(c)
  PROVE  Ledger(c)'
  <1>1. TypeOK /\ StubCalled /\ FdDiscipline
    BY DEF IInv
  <1>2. ~ ClientKilled(c) /\ ~ NoRoom(c)
    BY DEF ClientKilled, NoRoom, Ledger, MemorySuffices
  <1>3. QED
    BY <1>1, <1>2, CallLedger, SerializeLedger, SendLedger, SendReturnsLedger,
       RecvHeaderLedger, RecvPayloadLedger, ReturnLedger, HangupLedger DEF ClientStep

-----------------------------------------------------------------------------
(* The server's steps, for the connection it serves and for the others *)

LEMMA AcceptLedger ==
  ASSUME NEW c \in Clients, Ledger(c), TypeOK, FdDiscipline, Accept
  PROVE  Ledger(c)'
  <1> USE DEF TypeOK, ServerTypeOK, NetTypeOK
  <1>1. /\ spc = "accept" /\ spc' = "header" /\ cur' = Head(backlog) /\ sbuf' = <<>>
        /\ sEnd' = [sEnd EXCEPT ![Head(backlog)] = "open"]
        /\ UNCHANGED <<clientVars, served, up, down, srst, crst>>
    BY DEF Accept
  <1>2. Head(backlog) \in Clients /\ sEnd[Head(backlog)] = "queued"
    <2>1. Head(backlog) \in Clients /\ Holds(backlog, Head(backlog))
      BY DequeueOnce DEF Accept, FdDiscipline
    <2>2. QED
      BY <2>1 DEF FdDiscipline
  <1>3. CASE c # Head(backlog)
    <2>1. ~ Serves(c) /\ ~ Serves(c)' /\ sEnd'[c] = sEnd[c]
      BY <1>1, <1>2, <1>3 DEF Serves, Serving
    <2>2. QED
      BY <1>1, <2>1, LedgerFrame DEF clientVars
  <1>4. CASE c = Head(backlog)
    <2>1. Awaited(c)'
      BY <1>1, <1>2, <1>4 DEF Awaited, Serves, Serving
    <2>2. sEnd[c] = "queued" /\ Awaited(c)
      BY <1>2, <1>4 DEF Awaited
    <2>3. Request(c)' = Request(c) /\ Called(c)' = Called(c) /\ Silent(c)' = Silent(c)
      BY <1>1 DEF Request, Called, Silent, clientVars
    <2>4. Idle(c) => Idle(c)'
      BY <1>1, <2>1, <2>2, <2>3 DEF Idle, clientVars
    <2>5. Writing(c) => Writing(c)'
      BY <1>1, <2>1, <2>2, <2>3 DEF Writing, clientVars
    <2>6. Asking(c) => Asking(c)'
      BY <1>1, <2>1, <2>2, <2>3 DEF Asking, clientVars
    <2>7. ~ Answered(c)
      BY <2>2 DEF Answered
    <2>8. QED
      BY <1>1, <2>4, <2>5, <2>6, <2>7 DEF Ledger, clientVars
  <1>5. QED
    BY <1>3, <1>4

(* A step at the connection in fd does not concern any other.              *)
LEMMA ElsewhereLedger ==
  ASSUME NEW c \in Clients, Ledger(c), TypeOK, c # cur \/ Boot,
         Boot \/ (ServerStep /\ ~ Accept /\ ~ ServerKilled)
  PROVE  Ledger(c)'
  <1> USE DEF TypeOK, ServerTypeOK, NetTypeOK
  <1>1. CASE Boot
    <2>1. ~ Serves(c) /\ ~ Serves(c)'
      BY <1>1 DEF Boot, Serves, Serving
    <2>2. QED
      BY <1>1, <2>1, LedgerFrame DEF Boot, clientVars, netVars
  <1>2. CASE ServerStep /\ ~ Accept /\ ~ ServerKilled /\ c # cur
    <2>1. UNCHANGED <<clientVars, cur>>
      BY <1>2
      DEF ServerStep, ServerRecvHeader, ServerRecvPayload, ServerReceived, ServerNoRoom,
          ReadMethod, NoMethod, ReadArg, BadArg, Execute, ServerSend, ServerSent,
          ServerContinue, ServerClose
    <2>2. /\ served'[c] = served[c] /\ up'[c] = up[c] /\ down'[c] = down[c]
          /\ sEnd'[c] = sEnd[c] /\ srst'[c] = srst[c] /\ crst'[c] = crst[c]
      <3>1. CASE ServerRecvHeader \/ ServerRecvPayload
        BY <1>2, <3>1 DEF ServerRecvHeader, ServerRecvPayload
      <3>2. CASE ServerReceived \/ ServerNoRoom \/ ReadMethod \/ NoMethod \/ ReadArg \/ BadArg
        BY <3>2 DEF ServerReceived, ServerNoRoom, ReadMethod, NoMethod, ReadArg, BadArg,
                    ServerContinue, netVars
      <3>3. CASE Execute
        BY <1>2, <3>3 DEF Execute, netVars
      <3>4. CASE ServerSend
        BY <1>2, <3>4 DEF ServerSend
      <3>5. CASE ServerSent
        BY <3>5 DEF ServerSent, netVars
      <3>6. CASE ServerClose
        BY <1>2, <3>6 DEF ServerClose
      <3>7. QED
        BY <1>2, <3>1, <3>2, <3>3, <3>4, <3>5, <3>6 DEF ServerStep
    <2>3. ~ Serves(c) /\ ~ Serves(c)'
      BY <1>2, <2>1 DEF Serves
    <2>4. QED
      BY <2>1, <2>2, <2>3, LedgerFrame DEF clientVars
  <1>3. QED
    BY <1>1, <1>2

(* Until the server has the request, the client it serves is there and has *)
(* something to send.                                                      *)
LEMMA Serving1 ==
  ASSUME NEW c \in Clients, Ledger(c), c = cur, FdDiscipline, spc \in Serving
  PROVE  /\ sEnd[c] = "open" /\ Serves(c)
         /\ Asking(c) => ClientOpen(c)
         /\ spc = "header" => (Asking(c) /\ Awaited(c)) \/ (ClientOpen(c) /\ up[c] = <<>>)
         /\ spc \in {"payload", "method", "args"} => Asking(c) /\ ~ Awaited(c)
         /\ spc \in {"send", "close"} => Answered(c)
  <1>1. sEnd[c] = "open" /\ Serves(c)
    BY DEF FdDiscipline, Serves
  <1>2. Asking(c) => ClientOpen(c)
    BY DEF Asking, ClientOpen, InStub
  <1>3. Awaited(c) => spc = "header"
    BY <1>1 DEF Awaited
  <1>4. Asking(c) => spc \notin {"send", "close"} /\ (spc = "header" => Awaited(c))
    BY <1>1, <1>3 DEF Asking
  <1>5. Answered(c) => spc \in {"send", "close"}
    BY <1>1 DEF Answered
  <1>6. Idle(c) \/ Writing(c) => ClientOpen(c) /\ up[c] = <<>> /\ Awaited(c)
    BY <1>1 DEF Idle, Writing, ClientOpen, InStub
  <1>7. QED
    BY <1>1, <1>2, <1>3, <1>4, <1>5, <1>6 DEF Ledger

LEMMA ServerRecvHeaderLedger ==
  ASSUME NEW c \in Clients, Ledger(c), c = cur, TypeOK, FdDiscipline, ServerRecvHeader
  PROVE  Ledger(c)'
  <1>t. /\ up[c] \in Seq(Nat) /\ cout[c] \in Seq(Nat) /\ sbuf \in Seq(Nat) /\ swant \in Nat
        /\ up \in [Clients -> Seq(Nat)] /\ Len(sbuf) \in Nat /\ <<swant>> \in Seq(Nat)
    BY LenProperties DEF TypeOK, ClientTypeOK, ServerTypeOK, NetTypeOK
  <1>1. spc = "header" /\ spc' = "payload"
        /\ UNCHANGED <<clientVars, cur, sbuf, spos, sargs, sout, served, down, sEnd, srst, crst>>
    BY DEF ServerRecvHeader
  <1>2. /\ up[c] # <<>> /\ Asking(c) /\ Awaited(c) /\ sEnd[c] = "open"
        /\ swant' = Head(up[c]) /\ up'[c] = Tail(up[c])
    <2>1. /\ sEnd[c] = "open"
          /\ Asking(c) => ClientOpen(c)
          /\ (Asking(c) /\ Awaited(c)) \/ (ClientOpen(c) /\ up[c] = <<>>)
      BY <1>1, Serving1 DEF Serving
    <2>2. up[c] # <<>>
      BY <2>1 DEF ServerRecvHeader
    <2>3. QED
      BY <1>t, <2>1, <2>2 DEF ServerRecvHeader
  <1>3. sbuf = <<>> /\ WholeFrame(up[c] \o cout[c], Request(c))
    BY <1>1, <1>2 DEF Asking, Awaited
  <1>4. (<<swant'>> \o sbuf') \o (up'[c] \o cout'[c]) = up[c] \o cout[c]
    <2> DEFINE h == <<Head(up[c])>>
               y == Tail(up[c])
               p == cout[c]
    <2>1. /\ h \in Seq(Nat) /\ y \in Seq(Nat) /\ h \o y = up[c] /\ p \in Seq(Nat)
      BY <1>t, <1>2, HeadMoves
    <2>2. <<swant'>> = h /\ up'[c] = y /\ cout'[c] = p /\ sbuf' = <<>>
      BY <1>1, <1>2, <1>3 DEF clientVars
    <2> HIDE DEF h, y, p
    <2>3. (h \o y) \o p = h \o (y \o p)
      BY <2>1, NatAssociative
    <2>4. h \o <<>> = h
      BY <2>1, NatConcat
    <2>5. (<<swant'>> \o sbuf') \o (up'[c] \o cout'[c]) = up[c] \o p
      BY <2>1, <2>2, <2>3, <2>4
    <2>6. QED
      BY <2>5 DEF p
  <1>5. swant' \in Nat /\ Len(sbuf') = 0
    BY <1>t, <1>1, <1>2, <1>3, HeadMoves
  <1>6. /\ Request(c)' = Request(c) /\ Called(c)' = Called(c) /\ Silent(c)' = Silent(c)
        /\ Serves(c)'
    BY <1>1 DEF Request, Called, Silent, Serves, Serving, clientVars
  <1>7. WholeFrame((<<swant'>> \o sbuf') \o (up'[c] \o cout'[c]), Request(c)')
    BY <1>3, <1>4, <1>6
  <1>8. Asking(c)'
    BY <1>1, <1>2, <1>5, <1>6, <1>7 DEF Asking, clientVars
  <1>9. QED
    BY <1>1, <1>8 DEF Ledger, clientVars

LEMMA ServerRecvPayloadLedger ==
  ASSUME NEW c \in Clients, Ledger(c), c = cur, TypeOK, FdDiscipline, ServerRecvPayload
  PROVE  Ledger(c)'
  <1>t. /\ up[c] \in Seq(Nat) /\ cout[c] \in Seq(Nat) /\ sbuf \in Seq(Nat) /\ swant \in Nat
        /\ up \in [Clients -> Seq(Nat)] /\ Len(sbuf) \in Nat /\ <<swant>> \in Seq(Nat)
    BY LenProperties DEF TypeOK, ClientTypeOK, ServerTypeOK, NetTypeOK
  <1> DEFINE missing == swant - Len(sbuf)
  <1>1. /\ spc = "payload" /\ Len(sbuf) < swant /\ missing \in Nat
        /\ UNCHANGED <<clientVars, spc, cur, swant, spos, sargs, sout, served, down, sEnd, srst, crst>>
    BY <1>t DEF ServerRecvPayload
  <1>2. /\ sEnd[c] = "open" /\ Serves(c) /\ Asking(c) /\ ~ Awaited(c) /\ ClientOpen(c)
    BY <1>1, Serving1 DEF Serving
  <1>3. /\ WholeFrame((<<swant>> \o sbuf) \o (up[c] \o cout[c]), Request(c))
    BY <1>1, <1>2 DEF Asking
  <1>4. /\ sbuf' = sbuf \o Chunk(up[c], missing) /\ up'[c] = Rest(up[c], missing)
    BY <1>t, <1>2 DEF ServerRecvPayload
  <1> HIDE DEF missing
  <1>5. (<<swant'>> \o sbuf') \o (up'[c] \o cout'[c]) = (<<swant>> \o sbuf) \o (up[c] \o cout[c])
    <2> DEFINE h == <<swant>>
               b == sbuf
               q == up[c]
               p == cout[c]
               x == Chunk(q, missing)
               y == Rest(q, missing)
    <2>1. /\ h \in Seq(Nat) /\ b \in Seq(Nat) /\ q \in Seq(Nat) /\ p \in Seq(Nat)
          /\ x \in Seq(Nat) /\ y \in Seq(Nat) /\ (b \o x) \o y = b \o q
      BY <1>t, <1>1, ChunkMoves
    <2>2. <<swant'>> = h /\ sbuf' = b \o x /\ up'[c] = y /\ cout'[c] = p
      BY <1>1, <1>4 DEF clientVars
    <2> HIDE DEF h, b, q, p, x, y
    <2> DEFINE u == b \o x
               v == h \o u
               w == h \o b
    <2>3. u \in Seq(Nat) /\ v \in Seq(Nat) /\ w \in Seq(Nat)
      BY <2>1, NatConcat
    <2>4. u \o y = b \o q /\ v = h \o u /\ w = h \o b
      BY <2>1
    <2> HIDE DEF u, v, w
    <2>5. v \o (y \o p) = (v \o y) \o p
      <3>1. v \in Seq(Nat) /\ y \in Seq(Nat) /\ p \in Seq(Nat)
        BY <2>1, <2>3
      <3>2. QED
        BY <3>1, NatAssociative
    <2>6. v \o y = h \o (u \o y)
      <3>1. h \in Seq(Nat) /\ u \in Seq(Nat) /\ y \in Seq(Nat)
        BY <2>1, <2>3
      <3>2. (h \o u) \o y = h \o (u \o y)
        BY <3>1, NatAssociative
      <3>3. QED
        BY <2>4, <3>2
    <2>7. h \o (b \o q) = w \o q /\ (w \o q) \o p = w \o (q \o p)
      <3>1. /\ h \in Seq(Nat) /\ b \in Seq(Nat) /\ q \in Seq(Nat)
            /\ w \in Seq(Nat) /\ p \in Seq(Nat)
        BY <2>1, <2>3
      <3>2. (h \o b) \o q = h \o (b \o q)
        BY <3>1, NatAssociative
      <3>3. (w \o q) \o p = w \o (q \o p)
        BY <3>1, NatAssociative
      <3>4. QED
        BY <2>4, <3>2, <3>3
    <2>8. (h \o (b \o x)) \o (y \o p) = (h \o b) \o (q \o p)
      BY <2>4, <2>5, <2>6, <2>7 DEF u, v, w
    <2>9. QED
      BY <2>2, <2>8 DEF h, b, q, p
  <1>6. Len(sbuf') <= swant'
    <2>1. Len(sbuf') <= Len(sbuf) + missing
      BY <1>t, <1>1, <1>4, ChunkMoves
    <2>2. QED
      BY <1>t, <1>1, <2>1 DEF missing
  <1>7. /\ Request(c)' = Request(c) /\ Called(c)' = Called(c) /\ Silent(c)' = Silent(c)
        /\ Serves(c)'
    BY <1>1, <1>2 DEF Request, Called, Silent, Serves, Serving, clientVars
  <1>8. WholeFrame((<<swant'>> \o sbuf') \o (up'[c] \o cout'[c]), Request(c)')
    BY <1>3, <1>5, <1>7
  <1>9. Asking(c)'
    BY <1>1, <1>2, <1>6, <1>7, <1>8 DEF Asking, clientVars
  <1>10. QED
    BY <1>1, <1>9 DEF Ledger, clientVars

(* Called only once, the client has sent nothing behind the payload.       *)
LEMMA ServerReceivedLedger ==
  ASSUME WordArguments, NEW c \in Clients, Ledger(c), c = cur, TypeOK, FdDiscipline,
         ServerReceived
  PROVE  Ledger(c)'
  <1>t. /\ up[c] \in Seq(Nat) /\ cout[c] \in Seq(Nat) /\ sbuf \in Seq(Nat) /\ swant \in Nat
        /\ up \in [Clients -> Seq(Nat)] /\ Len(sbuf) \in Nat /\ <<swant>> \in Seq(Nat)
    BY LenProperties DEF TypeOK, ClientTypeOK, ServerTypeOK, NetTypeOK
  <1>1. /\ spc = "payload" /\ Len(sbuf) = swant /\ spc' = "method"
        /\ UNCHANGED <<clientVars, cur, serverBuf, sout, served, netVars>>
    BY DEF ServerReceived
  <1>2. /\ sEnd[c] = "open" /\ Serves(c) /\ Asking(c) /\ ~ Awaited(c)
    BY <1>1, Serving1 DEF Serving
  <1>3. /\ WholeFrame((<<swant>> \o sbuf) \o (up[c] \o cout[c]), Request(c)) /\ Called(c)
    BY <1>1, <1>2 DEF Asking
  <1>4. Request(c) \in Requests
    <2>1. issued[c] # <<>>
      BY <1>3 DEF Called
    <2>2. QED
      BY <2>1, RequestType
  <1>5. up[c] = <<>> /\ cout[c] = <<>> /\ WholeFrame(<<swant>> \o sbuf, Request(c))
    <2> DEFINE h == <<swant>>
               b == sbuf
               q == up[c]
               p == cout[c]
               t == b \o (q \o p)
    <2>1. /\ h \in Seq(Nat) /\ b \in Seq(Nat) /\ q \in Seq(Nat) /\ p \in Seq(Nat)
      BY <1>t
    <2> HIDE DEF h, b, q, p
    <2>2. q \o p \in Seq(Nat) /\ t \in Seq(Nat) /\ Len(t) = Len(b) + (Len(q) + Len(p))
          /\ Len(b) \in Nat /\ Len(q) \in Nat /\ Len(p) \in Nat
      <3>1. q \o p \in Seq(Nat) /\ Len(q \o p) = Len(q) + Len(p)
            /\ Len(b) \in Nat /\ Len(q) \in Nat /\ Len(p) \in Nat
        BY <2>1, NatConcat
      <3>2. t \in Seq(Nat) /\ Len(t) = Len(b) + Len(q \o p)
        BY <2>1, <3>1, NatConcat
      <3>3. QED
        BY <3>1, <3>2
    <2>3. (h \o b) \o (q \o p) = h \o t
      BY <2>1, <2>2, NatAssociative
    <2> HIDE DEF t
    <2>4. WholeFrame(<<swant>> \o t, Request(c))
      BY <1>3, <2>3 DEF h, b, q, p
    <2>5. Len(t) <= swant
      BY <1>t, <1>4, <2>2, <2>4, FrameHeader
    <2>6. Len(q) = 0 /\ Len(p) = 0
      BY <1>1, <2>2, <2>5 DEF b
    <2>7. q = <<>> /\ p = <<>>
      BY <2>1, <2>6, EmptySeq
    <2>8. t = b
      BY <2>1, <2>7, NatConcat DEF t
    <2>9. QED
      BY <2>4, <2>7, <2>8 DEF b, q, p
  <1>6. /\ Request(c)' = Request(c) /\ Called(c)' = Called(c) /\ Silent(c)' = Silent(c)
        /\ Serves(c)'
    BY <1>1, <1>2 DEF Request, Called, Silent, Serves, Serving, clientVars, netVars
  <1>7. WholeFrame(<<swant'>> \o sbuf', Request(c)')
    BY <1>1, <1>5, <1>6 DEF serverBuf
  <1>8. Asking(c)'
    BY <1>1, <1>2, <1>5, <1>6, <1>7 DEF Asking, clientVars, serverBuf, netVars
  <1>9. QED
    BY <1>1, <1>8 DEF Ledger, clientVars, netVars

(* With the whole payload, the server finds the method that was called.    *)
LEMMA PayloadFacts ==
  ASSUME WordArguments, NEW c \in Clients, Ledger(c), c = cur, TypeOK, FdDiscipline,
         spc \in {"method", "args"}
  PROVE  /\ sEnd[c] = "open" /\ Serves(c) /\ Asking(c) /\ Request(c) \in Requests
         /\ WholeFrame(<<swant>> \o sbuf, Request(c)) /\ Len(sbuf) = swant
         /\ up[c] = <<>> /\ cout[c] = <<>> /\ Called(c) /\ Silent(c)
         /\ spc = "args" => Decoding(c)
         /\ sbuf # <<>> /\ Method = Request(c).m /\ Method \in DOMAIN Service
  <1>1. sEnd[c] = "open" /\ Serves(c) /\ Asking(c) /\ ~ Awaited(c)
    BY Serving1 DEF Serving
  <1>2. /\ WholeFrame(<<swant>> \o sbuf, Request(c)) /\ Len(sbuf) = swant
        /\ up[c] = <<>> /\ cout[c] = <<>> /\ Called(c) /\ Silent(c)
        /\ spc = "args" => Decoding(c)
    BY <1>1 DEF Asking
  <1>3. Request(c) \in Requests
    <2>1. issued[c] # <<>>
      BY <1>2 DEF Called
    <2>2. QED
      BY <2>1, RequestType
  <1>4. sbuf \in Seq(Nat) /\ swant \in Nat
    BY DEF TypeOK, ServerTypeOK
  <1>5. sbuf # <<>> /\ sbuf[1] + 1 = Request(c).m
    BY <1>2, <1>3, <1>4, FrameHeader
  <1>6. QED
    BY <1>1, <1>2, <1>3, <1>5, RequestFacts DEF Method

LEMMA ReadMethodLedger ==
  ASSUME MemorySuffices, WordArguments, NEW c \in Clients, Ledger(c), c = cur, IInv,
         ReadMethod \/ NoMethod \/ ServerNoRoom
  PROVE  Ledger(c)'
  <1> USE DEF IInv
  <1>1. ReadMethod \/ NoMethod
    BY DEF ServerNoRoom, MemorySuffices
  <1>2. /\ sEnd[c] = "open" /\ Serves(c) /\ Asking(c) /\ Request(c) \in Requests
        /\ WholeFrame(<<swant>> \o sbuf, Request(c)) /\ Len(sbuf) = swant
        /\ up[c] = <<>> /\ cout[c] = <<>> /\ Called(c) /\ Silent(c)
        /\ sbuf # <<>> /\ Method \in DOMAIN Service
    BY <1>1, PayloadFacts DEF ReadMethod, NoMethod
  <1>3. /\ ReadMethod /\ sargs = <<>> /\ spc' = "args" /\ spos' = 2
        /\ UNCHANGED <<clientVars, cur, swant, sbuf, sargs, sout, served, netVars>>
    BY <1>1, <1>2 DEF ReadMethod, NoMethod, Method, MethodKnown
  <1>4. /\ Request(c)' = Request(c) /\ Called(c)' = Called(c) /\ Silent(c)' = Silent(c)
        /\ Serves(c)'
    BY <1>2, <1>3 DEF Request, Called, Silent, Serves, Serving, clientVars, netVars
  <1>5. Decoding(c)'
    <2>1. NParams(Request(c)) \in Nat /\ Len(sargs') = 0 /\ sargs' = <<>>
      BY <1>2, <1>3, ArgFacts
    <2>2. SubSeq(Request(c).args, 1, 0) = <<>>
      <3>1. Request(c).args \in Seq(Values)
        BY <1>2, RequestFacts
      <3>2. QED
        BY <3>1, SubSeqEmpty
    <2>3. 0 + 2 = 2 /\ End(Request(c), 2) = 2
      BY EndTwo
    <2>4. /\ Len(sargs') <= NParams(Request(c))
          /\ sargs' = SubSeq(Request(c).args, 1, Len(sargs'))
          /\ spos' = End(Request(c), Len(sargs') + 2)
      BY <1>3, <2>1, <2>2, <2>3
    <2>5. QED
      BY <1>4, <2>4 DEF Decoding
  <1>6. WholeFrame(<<swant'>> \o sbuf', Request(c)')
    BY <1>2, <1>3, <1>4
  <1>7. cpc'[c] = cpc[c] /\ cpc[c] \in {"send", "header"} /\ Len(sbuf') = swant'
        /\ up'[c] = <<>> /\ cout'[c] = <<>> /\ sEnd'[c] = "open"
    BY <1>2, <1>3 DEF Asking, clientVars, netVars
  <1>8. Asking(c)'
    BY <1>2, <1>3, <1>4, <1>5, <1>6, <1>7 DEF Asking
  <1>9. QED
    BY <1>3, <1>8 DEF Ledger, clientVars, netVars

LEMMA ReadArgLedger ==
  ASSUME MemorySuffices, WordArguments, NEW c \in Clients, Ledger(c), c = cur, IInv,
         ReadArg \/ BadArg
  PROVE  Ledger(c)'
  <1> USE DEF IInv
  <1> DEFINE r == Request(c)
             i == Len(sargs) + 1
  <1>1. spc = "args" /\ MoreArgs
    BY DEF ReadArg, BadArg
  <1>2. /\ sEnd[c] = "open" /\ Serves(c) /\ Asking(c) /\ r \in Requests
        /\ WholeFrame(<<swant>> \o sbuf, r) /\ Len(sbuf) = swant
        /\ up[c] = <<>> /\ cout[c] = <<>> /\ Called(c) /\ Silent(c) /\ Decoding(c)
        /\ Method = r.m
    BY <1>1, PayloadFacts
  <1>3. /\ sargs \in Seq(Values) /\ Len(sargs) \in Nat /\ sbuf \in Seq(Nat) /\ swant \in Nat
    BY LenProperties DEF TypeOK, ServerTypeOK
  <1>4. i \in 1 .. NParams(r) /\ NParams(r) \in Nat
    BY <1>1, <1>2, <1>3, ArgFacts DEF MoreArgs, NParams
  <1>5. NextType = Params(r.m)[i] /\ spos = End(r, i + 1)
    <2>1. i + 1 = Len(sargs) + 2
      BY <1>3
    <2>2. QED
      BY <1>2, <2>1 DEF NextType, Decoding
  <1>6. /\ sargs = SubSeq(r.args, 1, i - 1) /\ r.args \in Seq(Values)
        /\ Len(r.args) = NParams(r)
    <2>1. i - 1 = Len(sargs)
      BY <1>3
    <2>2. QED
      BY <1>2, <2>1, RequestFacts DEF Decoding, NParams
  <1> HIDE DEF r, i
  <1>8. /\ Decodes(NextType, sbuf, spos)
        /\ Decoded(NextType, sbuf, spos) = r.args[i]
        /\ After(NextType, sbuf, spos) = End(r, i + 2)
    BY <1>2, <1>3, <1>4, <1>5, FrameArg
  <1>9. /\ ReadArg /\ sargs' = Append(sargs, r.args[i]) /\ spos' = End(r, i + 2)
        /\ UNCHANGED <<clientVars, spc, cur, swant, sbuf, sout, served, netVars>>
    BY <1>8 DEF ReadArg, BadArg, MemorySuffices
  <1>10. /\ Request(c)' = r /\ Called(c)' = Called(c) /\ Silent(c)' = Silent(c)
         /\ Serves(c)'
    BY <1>2, <1>9 DEF Request, Called, Silent, Serves, Serving, clientVars, netVars, r
  <1>11. sargs' = SubSeq(r.args, 1, i) /\ Len(sargs') = i
    <2> DEFINE a == r.args
    <2>1. a \in Seq(Values) /\ Len(a) = NParams(r) /\ sargs = SubSeq(a, 1, i - 1)
      BY <1>6
    <2>2. sargs' = Append(sargs, a[i])
      BY <1>9
    <2> HIDE DEF a
    <2>3. SubSeq(a, 1, i) = Append(SubSeq(a, 1, i - 1), a[i])
      <3>1. 1 \in 1 .. Len(a) /\ i \in 1 .. Len(a)
        BY <1>4, <2>1
      <3>2. SubSeq(a, 1, i) = SubSeq(a, 1, i - 1) \o <<a[i]>>
        BY <2>1, <3>1, SubSeqRecursiveSecond
      <3>3. sargs \in Seq(Values) /\ a[i] \in Values
        BY <1>3, <2>1, <3>1, ElementOfSeq
      <3>4. Append(sargs, a[i]) = sargs \o <<a[i]>>
        BY <3>3, AppendIsConcat
      <3>5. QED
        BY <2>1, <3>2, <3>4
    <2>4. Len(sargs') = Len(sargs) + 1
      BY <1>4, <2>1, <2>2, <1>3, AppendProperties, ElementOfSeq
    <2>5. QED
      BY <2>1, <2>2, <2>3, <2>4 DEF a, i
  <1>12. Decoding(c)'
    BY <1>4, <1>9, <1>10, <1>11 DEF Decoding
  <1>13. WholeFrame(<<swant'>> \o sbuf', Request(c)')
    BY <1>2, <1>9, <1>10
  <1>14. cpc'[c] = cpc[c] /\ cpc[c] \in {"send", "header"} /\ Len(sbuf') = swant'
         /\ up'[c] = <<>> /\ cout'[c] = <<>> /\ sEnd'[c] = "open" /\ spc' = "args"
    BY <1>1, <1>2, <1>9 DEF Asking, clientVars, netVars
  <1>15. Asking(c)'
    BY <1>2, <1>10, <1>12, <1>13, <1>14 DEF Asking
  <1>16. QED
    BY <1>9, <1>15 DEF Ledger, clientVars, netVars

LEMMA ExecuteLedger ==
  ASSUME MemorySuffices, WordArguments, NEW c \in Clients, Ledger(c), c = cur, IInv, Execute
  PROVE  Ledger(c)'
  <1> USE DEF IInv
  <1> DEFINE r == Request(c)
  <1>1. spc = "args" /\ ~ MoreArgs
    BY DEF Execute
  <1>2. /\ sEnd[c] = "open" /\ Serves(c) /\ Asking(c) /\ r \in Requests
        /\ up[c] = <<>> /\ cout[c] = <<>> /\ Called(c) /\ Silent(c) /\ Decoding(c)
        /\ Method = r.m
    BY <1>1, PayloadFacts
  <1>3. sargs = r.args /\ r = [m |-> Method, args |-> sargs]
    <2>1. /\ Len(sargs) \in Nat /\ NParams(r) \in Nat /\ Len(sargs) <= NParams(r)
          /\ sargs = SubSeq(r.args, 1, Len(sargs))
      BY <1>2, ArgFacts, LenProperties DEF Decoding, TypeOK, ServerTypeOK
    <2>2. Len(sargs) = NParams(r)
      BY <1>1, <1>2, <2>1 DEF MoreArgs, NParams
    <2>3. r.args \in Seq(Values) /\ Len(r.args) = NParams(r)
      BY <1>2, RequestFacts DEF NParams
    <2>4. SubSeq(r.args, 1, Len(r.args)) = r.args
      BY <2>3, SubSeqFull
    <2>5. sargs = r.args
      BY <2>1, <2>2, <2>3, <2>4
    <2>6. QED
      BY <1>2, <2>5, RequestFacts
  <1>4. PICK res \in ResultsOf(Service[Method].ret) :
          /\ served' = [served EXCEPT ![cur] =
               Append(@, [req |-> [m |-> Method, args |-> sargs], res |-> res])]
          /\ sout' = <<ServerTotalLen(Method, res)>> \o EncodeResult(Service[Method].ret, res)
          /\ spc' = "send"
    BY DEF Execute, MemorySuffices
  <1>5. UNCHANGED <<clientVars, cur, serverBuf, netVars>>
    BY DEF Execute
  <1> HIDE DEF r
  <1>6. served'[c] = <<[req |-> r, res |-> res]>>
    <2>1. served[c] = <<>> /\ served \in [Clients -> Seq([req : Calls, res : Values])]
      BY <1>2 DEF Silent, TypeOK, ServerTypeOK
    <2>2. QED
      BY <1>3, <1>4, <2>1
  <1>7. /\ Request(c)' = r /\ Called(c)' /\ Serves(c)' /\ Answer(c)' = res
    <2>1. Request(c)' = Request(c) /\ Called(c)' = Called(c)
      BY <1>5 DEF Request, Called, clientVars
    <2>2. Answer(c)' = res
      BY <1>6 DEF Answer
    <2>3. Serves(c)'
      BY <1>2, <1>4, <1>5 DEF Serves, Serving
    <2>4. QED
      BY <1>2, <2>1, <2>2, <2>3 DEF r
  <1>8. /\ ReplyLen(c)' = ServerTotalLen(r.m, res)
        /\ Reply(c)' = EncodeResult(Service[r.m].ret, res)
    BY <1>7 DEF Reply, ReplyLen, ReturnType
  <1>9. Coming(c)' = <<ReplyLen(c)'>> \o Reply(c)'
    <2>1. down'[c] = <<>> /\ Pending(c)' = sout'
      BY <1>2, <1>4, <1>5 DEF Silent, Pending, clientVars, netVars
    <2>2. sout' \in Seq(Nat)
      BY ExecuteType DEF TypeOK, ServerTypeOK
    <2>3. Coming(c)' = sout'
      BY <2>1, <2>2, NatConcat DEF Coming
    <2>4. QED
      BY <1>2, <1>4, <1>8, <2>3
  <1>10. res \in ResultsFor(r)
    BY <1>2, <1>4 DEF ResultsFor
  <1>11. /\ cpc'[c] \in {"send", "header"} /\ cbuf'[c] = <<>> /\ returned'[c] = <<>>
         /\ up'[c] = <<>> /\ cout'[c] = <<>> /\ sEnd'[c] = "open" /\ spc' = "send"
    BY <1>2, <1>4, <1>5 DEF Asking, Silent, clientVars, netVars
  <1>12. Answered(c)'
    BY <1>6, <1>7, <1>9, <1>10, <1>11 DEF Answered
  <1>13. QED
    BY <1>5, <1>11, <1>12, <1>2 DEF Ledger, clientVars, netVars, Asking, Gone

LEMMA ServerSendLedger ==
  ASSUME NEW c \in Clients, Ledger(c), c = cur, TypeOK, FdDiscipline, ServerSend
  PROVE  Ledger(c)'
  <1>1. /\ spc = "send" /\ sout # <<>> /\ ~ srst[c]
        /\ UNCHANGED <<clientVars, spc, cur, serverBuf, served, up, sEnd, crst>>
    BY DEF ServerSend
  <1>2. Answered(c) /\ sEnd[c] = "open" /\ Serves(c)
    BY <1>1, Serving1 DEF Serving
  <1>3. /\ Request(c)' = Request(c) /\ Called(c)' = Called(c) /\ Answer(c)' = Answer(c)
        /\ Serves(c)'
    BY <1>1, <1>2 DEF Request, Called, Answer, Serves, clientVars
  <1>4. Reply(c)' = Reply(c) /\ ReplyLen(c)' = ReplyLen(c)
    BY <1>3 DEF Reply, ReplyLen, ReturnType
  <1>5. PICK k \in 1..Len(sout) :
          /\ sout' = SubSeq(sout, k + 1, Len(sout))
          /\ IF ClientOpen(cur)
               THEN /\ down' = [down EXCEPT ![cur] = @ \o SubSeq(sout, 1, k)]
                    /\ UNCHANGED srst
               ELSE /\ \E b \in BOOLEAN : srst' = [srst EXCEPT ![cur] = b]
                    /\ UNCHANGED down
    BY DEF ServerSend
  <1>6. CASE ClientOpen(c)
    <2>1. Coming(c)' = Coming(c)
      <3>1. down[c] \in Seq(Nat) /\ sout \in Seq(Nat) /\ down \in [Clients -> Seq(Nat)]
        BY DEF TypeOK, ServerTypeOK, NetTypeOK
      <3>2. (down[c] \o SubSeq(sout, 1, k)) \o SubSeq(sout, k + 1, Len(sout)) = down[c] \o sout
        BY <3>1, SendMoves
      <3>3. down'[c] = down[c] \o SubSeq(sout, 1, k) /\ Pending(c) = sout /\ Pending(c)' = sout'
        BY <1>1, <1>5, <1>6, <3>1 DEF Pending
      <3>4. QED
        BY <1>5, <3>2, <3>3 DEF Coming
    <2>2. cpc[c] \notin Gone /\ srst' = srst
      BY <1>5, <1>6 DEF ClientOpen, InStub, Gone
    <2>3. Answered(c)'
      BY <1>1, <1>2, <1>3, <1>4, <2>1, <2>2 DEF Answered, clientVars
    <2>4. QED
      BY <1>1, <2>2, <2>3 DEF Ledger, clientVars
  <1>7. CASE ~ ClientOpen(c)
    <2>1. cpc[c] \in Gone
      BY <1>2, <1>7 DEF Answered, ClientOpen, InStub
    <2>2. Answered(c)'
      BY <1>1, <1>2, <1>3, <2>1 DEF Answered, clientVars
    <2>3. QED
      BY <1>1, <2>1, <2>2 DEF Ledger, clientVars
  <1>8. QED
    BY <1>6, <1>7

LEMMA ServerSentLedger ==
  ASSUME NEW c \in Clients, Ledger(c), c = cur, TypeOK, FdDiscipline, ServerSent
  PROVE  Ledger(c)'
  <1>1. /\ spc = "send" /\ spc' = "close" /\ sout' = <<>> /\ (sout = <<>> \/ srst[c])
        /\ UNCHANGED <<clientVars, cur, serverBuf, served, netVars>>
    BY DEF ServerSent
  <1>2. Answered(c) /\ sEnd[c] = "open" /\ Serves(c)
    BY <1>1, Serving1 DEF Serving
  <1>3. /\ Request(c)' = Request(c) /\ Called(c)' = Called(c) /\ Answer(c)' = Answer(c)
        /\ Serves(c)'
    BY <1>1, <1>2 DEF Request, Called, Answer, Serves, Serving, clientVars
  <1>4. Reply(c)' = Reply(c) /\ ReplyLen(c)' = ReplyLen(c)
    BY <1>3 DEF Reply, ReplyLen, ReturnType
  <1>5. sout = <<>> => Coming(c)' = Coming(c)
    BY <1>1 DEF Coming, Pending, netVars
  <1>6. srst[c] => cpc[c] \in Gone
    BY DEF Ledger
  <1>7. Answered(c)'
    <2>1. CASE sout = <<>>
      BY <1>1, <1>2, <1>3, <1>4, <1>5, <2>1 DEF Answered, clientVars, netVars
    <2>2. CASE srst[c]
      <3>1. cpc'[c] \in Gone /\ cpc[c] \notin {"ready", "payload", "send", "header"}
        BY <1>1, <1>6, <2>2 DEF clientVars, Gone
      <3>2. QED
        BY <1>1, <1>2, <1>3, <3>1 DEF Answered, clientVars, netVars
    <2>3. QED
      BY <1>1, <2>1, <2>2
  <1>8. QED
    BY <1>1, <1>7 DEF Ledger, clientVars, netVars

(* The whole of the reply is in the connection when the server closes it,  *)
(* and nothing unread makes a reset of it.                                 *)
LEMMA ServerCloseLedger ==
  ASSUME NEW c \in Clients, Ledger(c), c = cur, TypeOK, FdDiscipline, ServerClose
  PROVE  Ledger(c)'
  <1>1. spc = "close" /\ spc' = "accept" /\ sEnd' = [sEnd EXCEPT ![c] = "closed"]
        /\ UNCHANGED <<clientVars, cur, serverBuf, sout, served, srst>>
    BY DEF ServerClose
  <1>2. Answered(c) /\ sEnd[c] = "open" /\ up[c] = <<>>
    BY <1>1, Serving1 DEF Serving, Answered
  <1>3. /\ up'[c] = <<>> /\ crst'[c] = crst[c] /\ down' = down /\ sEnd'[c] = "closed"
    BY <1>1, <1>2 DEF ServerClose, TypeOK, NetTypeOK
  <1>4. /\ Request(c)' = Request(c) /\ Called(c)' = Called(c) /\ Answer(c)' = Answer(c)
    BY <1>1 DEF Request, Called, Answer, clientVars
  <1>5. Reply(c)' = Reply(c) /\ ReplyLen(c)' = ReplyLen(c)
    BY <1>4 DEF Reply, ReplyLen, ReturnType
  <1>6. Coming(c)' = Coming(c)
    BY <1>1, <1>3 DEF Coming, Pending
  <1>7. Answered(c)'
    BY <1>1, <1>2, <1>3, <1>4, <1>5, <1>6 DEF Answered, clientVars
  <1>8. QED
    BY <1>1, <1>3, <1>7 DEF Ledger, clientVars

LEMMA ServerLedger ==
  ASSUME MemorySuffices, WordArguments, NEW c \in Clients, Ledger(c), IInv,
         ServerStep \/ Boot, ~ ServerKilled
  PROVE  Ledger(c)'
  <1>1. TypeOK /\ FdDiscipline
    BY DEF IInv
  <1>2. CASE Accept
    BY <1>1, <1>2, AcceptLedger
  <1>3. CASE Boot \/ (c # cur /\ ~ Accept)
    BY <1>1, <1>3, ElsewhereLedger
  <1>4. CASE c = cur /\ ~ Accept /\ ServerStep
    BY <1>1, <1>4, ServerRecvHeaderLedger, ServerRecvPayloadLedger, ServerReceivedLedger,
       ReadMethodLedger, ReadArgLedger, ExecuteLedger, ServerSendLedger, ServerSentLedger,
       ServerCloseLedger DEF ServerStep
  <1>5. QED
    BY <1>2, <1>3, <1>4

-----------------------------------------------------------------------------
(* The inductive invariant *)

(* While the server lives, the books of every client that does not quit    *)
(* are in order, whatever those that quit do.                              *)
LedgerOK == spc # "dead" => \A c \in Survivors : Ledger(c)

(* The step of one client leaves the books of another alone.               *)
LEMMA OtherClientLedger ==
  ASSUME NEW c \in Clients, Ledger(c), TypeOK, NEW d \in Clients \ {c},
         ClientStep(d) \/ Quit(d) \/ Connect(d) \/ ConnectRefused(d)
  PROVE  Ledger(c)'
  <1> USE DEF TypeOK, ClientTypeOK, NetTypeOK
  <1>1. ASSUME NEW outcome, Hangup(d, outcome)
        PROVE  Ledger(c)'
    BY <1>1, LedgerFrame DEF Hangup, serverVars
  <1>2. CASE ClientKilled(d) \/ NoRoom(d) \/ BadResponse(d) \/ Close(d) \/ Quit(d)
    BY <1>1, <1>2 DEF ClientKilled, NoRoom, BadResponse, Close, Quit
  <1>3. CASE Call(d)
    BY <1>3, LedgerFrame DEF Call, serverVars, netVars
  <1>4. CASE Serialize(d)
    BY <1>4, LedgerFrame DEF Serialize, serverVars, netVars
  <1>5. CASE Send(d)
    BY <1>5, LedgerFrame DEF Send, serverVars
  <1>6. CASE SendReturns(d)
    BY <1>6, LedgerFrame DEF SendReturns, serverVars, netVars
  <1>7. CASE RecvHeader(d)
    BY <1>7, LedgerFrame DEF RecvHeader, serverVars
  <1>8. CASE RecvPayload(d)
    BY <1>8, LedgerFrame DEF RecvPayload, serverVars
  <1>9. CASE Return(d)
    BY <1>9, LedgerFrame DEF Return, serverVars, netVars
  <1>10. CASE Connect(d) \/ ConnectRefused(d)
    BY <1>10, LedgerFrame DEF Connect, ConnectRefused, serverVars, netVars
  <1>11. QED
    BY <1>2, <1>3, <1>4, <1>5, <1>6, <1>7, <1>8, <1>9, <1>10 DEF ClientStep

LEMMA InitLedger == Init => LedgerOK
  <1> SUFFICES ASSUME Init, NEW c \in Clients
               PROVE  Ledger(c)
    BY DEF LedgerOK, Survivors
  <1>1. Idle(c)
    BY DEF Init, Idle, Silent
  <1>2. QED
    BY <1>1 DEF Init, Ledger

LEMMA LedgerStep ==
  ASSUME MemorySuffices, OneCall, WordArguments, IInv, LedgerOK, [Next]_vars
  PROVE  LedgerOK'
  <1> SUFFICES ASSUME NEW c \in Survivors, spc' # "dead"
               PROVE  Ledger(c)'
    BY DEF LedgerOK, Survivors
  <1>1. c \in Clients /\ ~ Quit(c) /\ TypeOK
    BY DEF Survivors, Quit, IInv
  <1>2. CASE \E d \in Clients : ClientStep(d) \/ Quit(d) \/ Connect(d) \/ ConnectRefused(d)
    <2>1. PICK d \in Clients : ClientStep(d) \/ Quit(d) \/ Connect(d) \/ ConnectRefused(d)
      BY <1>2
    <2>2. spc' = spc
      BY <1>1, <2>1, ClientFrame DEF Connect, ConnectRefused, serverVars
    <2>3. Ledger(c)
      BY <2>2 DEF LedgerOK
    <2>4. CASE d = c
      BY <1>1, <2>1, <2>2, <2>3, <2>4, ConnectLedger, ClientLedger
    <2>5. CASE d # c
      BY <1>1, <2>1, <2>3, <2>5, OtherClientLedger
    <2>6. QED
      BY <2>4, <2>5
  <1>3. CASE Boot \/ ServerStep
    <2>1. spc # "dead" /\ ~ ServerKilled
      BY <1>3 DEF Boot, ServerStep, Accept, ServerRecvHeader, ServerRecvPayload,
                  ServerReceived, ServerNoRoom, ReadMethod, NoMethod, ReadArg, BadArg, Execute,
                  ServerSend, ServerSent, ServerClose, ServerKilled
    <2>2. Ledger(c)
      BY <2>1 DEF LedgerOK
    <2>3. QED
      BY <1>1, <1>3, <2>1, <2>2, ServerLedger
  <1>4. CASE UNCHANGED vars
    <2>1. Ledger(c)
      BY <1>4 DEF LedgerOK, vars, serverVars
    <2>2. QED
      BY <1>1, <1>4, <2>1, LedgerFrame DEF vars, clientVars, serverVars, netVars
  <1>5. QED
    BY <1>2, <1>3, <1>4 DEF Next

LEMMA SpecLedger ==
  ASSUME MemorySuffices, OneCall, WordArguments
  PROVE  Spec => []LedgerOK
  <1>1. IInv /\ LedgerOK /\ [Next]_vars => LedgerOK'
    BY LedgerStep
  <1>2. QED
    BY <1>1, InitLedger, SpecIInv, PTL DEF Spec

(* For every service, any clients that go away when they like, and garbage *)
(* of any kind: the k-th call a client that stays has returned is the k-th *)
(* one the server executed for it, with its own arguments and its result.  *)
THEOREM CallSurvivorsExact ==
  ASSUME MemorySuffices, OneCall, WordArguments
  PROVE  Spec => []SurvivorsExact
  <1>1. LedgerOK => SurvivorsExact
    <2> SUFFICES ASSUME spc # "dead", NEW c \in Survivors, Ledger(c),
                        NEW i \in DOMAIN returned[c]
                 PROVE  /\ i \in DOMAIN served[c]
                        /\ returned[c][i] = served[c][i]
                        /\ returned[c][i].req = issued[c][i]
      BY DEF LedgerOK, SurvivorsExact
    <2>1. returned[c] # <<>>
      OBVIOUS
    <2>2. Answered(c) /\ returned[c] = served[c]
      BY <2>1 DEF Ledger, Idle, Writing, Asking, Silent, Answered
    <2>3. served[c] = <<[req |-> Request(c), res |-> Answer(c)]>> /\ issued[c] = <<Request(c)>>
      BY <2>2 DEF Answered, Called
    <2>4. i = 1
      BY <2>2, <2>3
    <2>5. QED
      BY <2>2, <2>3, <2>4
  <1>2. QED
    BY <1>1, SpecLedger, PTL

(* When the server is back at accept, the only connections it has not      *)
(* closed are of clients that quit.                                        *)
THEOREM CallSurvivorsClosed ==
  ASSUME MemorySuffices, OneCall, WordArguments
  PROVE  Spec => []SurvivorsClosed
  <1>1. LedgerOK => SurvivorsClosed
    <2> SUFFICES ASSUME spc = "accept", NEW c \in Survivors, Ledger(c), sEnd[c] = "open"
                 PROVE  FALSE
      BY DEF LedgerOK, SurvivorsClosed, OpenFds, Survivors
    <2>1. ~ Serves(c) /\ ~ Awaited(c)
      BY DEF Serves, Serving, Awaited
    <2>2. QED
      BY <2>1 DEF Ledger, Idle, Writing, Asking, Answered
  <1>2. QED
    BY <1>1, SpecLedger, PTL

-----------------------------------------------------------------------------
(* When nobody quits *)

(* A connection ends with everything read: no stub fails, nothing is left  *)
(* in the connection of a stub that has returned, so the server never      *)
(* writes to a client that has gone and no end is reset.                   *)
Steady(c) ==
  /\ ~ srst[c] /\ cpc[c] \notin {"killed", "quit"}
  /\ cpc[c] \in {"start", "exit69"} => issued[c] = <<>>
  /\ cpc[c] \in {"ready", "closed"} => Coming(c) = <<>>

SteadyOK ==
  /\ \A c \in Clients : Steady(c)
  /\ spc \in {"boot", "dead"} => \A c \in Clients : cpc[c] \in {"start", "exit69"}

LEMMA SteadyFrame ==
  ASSUME NEW c \in Clients, Steady(c), cpc'[c] = cpc[c], issued'[c] = issued[c],
         down'[c] = down[c], srst'[c] = srst[c], Pending(c)' = Pending(c)
  PROVE  Steady(c)'
  BY DEF Steady, Coming

LEMMA NothingComing ==
  ASSUME NEW c \in Clients, TypeOK, Coming(c) = <<>>
  PROVE  down[c] = <<>> /\ Pending(c) = <<>>
  <1>1. down[c] \in Seq(Nat) /\ Pending(c) \in Seq(Nat)
    BY DEF TypeOK, NetTypeOK, ServerTypeOK, Pending
  <1>2. Len(down[c]) \in Nat /\ Len(Pending(c)) \in Nat
        /\ Len(Coming(c)) = Len(down[c]) + Len(Pending(c))
    BY <1>1, NatConcat DEF Coming
  <1>3. Len(down[c]) = 0 /\ Len(Pending(c)) = 0
    BY <1>2
  <1>4. QED
    BY <1>1, <1>3, EmptySeq

(* The server's total_len covers what it goes on to serialise.             *)
LEMMA TotalLenCovers ==
  ASSUME StringsCounted, NEW m \in DOMAIN Service, NEW v \in ResultsOf(Service[m].ret)
  PROVE  /\ Len(EncodeResult(Service[m].ret, v)) \in Nat \ {0}
         /\ Len(EncodeResult(Service[m].ret, v)) <= ServerTotalLen(m, v)
         /\ ServerTotalLen(m, v) \in Nat
  <1> DEFINE S == {i \in DOMAIN Params(m) : IsString(m, i)}
  <1>1. Service[m].ret \in Types /\ Params(m) \in Seq(Types) /\ Params(m) # <<>>
    BY ServiceFacts, ServiceAssumption DEF Params
  <1>2. v \in Seq(Nat) /\ Len(v) \in Nat
    BY <1>1, ResultType, LenProperties DEF Values
  <1>3. Len(Params(m)) \in Nat \ {0}
    BY <1>1, EmptySeq, LenProperties
  <1>4. IsFiniteSet(S) /\ IsFiniteSet(DOMAIN v) /\ Cardinality(DOMAIN v) = Len(v)
    <2>1. IsFiniteSet(DOMAIN Params(m))
      BY <1>1, LenProperties, FS_Interval
    <2>2. DOMAIN v = 1 .. Len(v)
      BY <1>2, LenProperties
    <2>3. /\ IsFiniteSet(1 .. Len(v))
          /\ Cardinality(1 .. Len(v)) = IF 1 > Len(v) THEN 0 ELSE Len(v) - 1 + 1
      BY <1>2, FS_Interval
    <2>4. IsFiniteSet(S)
      BY <2>1, FS_Subset
    <2>5. QED
      BY <1>2, <2>2, <2>3, <2>4
  <1>5. ServerTotalLen(m, v) = Len(Params(m)) + Cardinality(S \X DOMAIN v)
    BY DEF ServerTotalLen
  <1>6. IsFiniteSet(S \X DOMAIN v) /\ Cardinality(S \X DOMAIN v) \in Nat
    BY <1>4, FS_Product, FS_CardinalityType
  <1> HIDE DEF S
  <1>7. CASE Service[m].ret = "string"
    <2>1. PICK i \in S : TRUE
      BY <1>7 DEF StringsCounted, S
    <2>2. Cardinality({i} \X DOMAIN v) = Len(v)
      BY <1>4, UnitProduct
    <2>3. Len(v) <= Cardinality(S \X DOMAIN v)
      <3>1. {i} \X DOMAIN v \subseteq S \X DOMAIN v
        OBVIOUS
      <3>2. QED
        BY <1>6, <2>2, <3>1, FS_Subset
    <2>4. Len(EncodeResult(Service[m].ret, v)) = 1 + Len(v)
      <3>1. EncodeResult(Service[m].ret, v) = <<Len(v)>> \o v
        BY <1>7 DEF EncodeResult
      <3>2. <<Len(v)>> \in Seq(Nat) /\ Len(<<Len(v)>>) = 1
        BY <1>2
      <3>3. QED
        BY <1>2, <3>1, <3>2, NatConcat
    <2>5. QED
      BY <1>2, <1>3, <1>5, <1>6, <2>3, <2>4
  <1>8. CASE Service[m].ret # "string"
    <2>1. EncodeResult(Service[m].ret, v) = v
      BY <1>8 DEF EncodeResult
    <2>2. Len(v) = 1
      BY <1>1, <1>8 DEF ResultsOf, Types
    <2>3. QED
      BY <1>3, <1>5, <1>6, <2>1, <2>2
  <1>9. QED
    BY <1>7, <1>8

(* A payload that holds the whole reply decodes.                           *)
LEMMA DecodesReply ==
  ASSUME NEW b \in Seq(Nat), NEW x \in Seq(Nat), NEW t \in Types, NEW v \in ResultsOf(t),
         BeginsWith(b \o x, EncodeResult(t, v)), Len(EncodeResult(t, v)) <= Len(b),
         Len(EncodeResult(t, v)) \in Nat \ {0}
  PROVE  Decodes(t, b, 1)
  <1> DEFINE e == EncodeResult(t, v)
  <1>1. v \in Seq(Nat) /\ Len(v) \in Nat /\ Len(b) \in Nat /\ 1 <= Len(b)
    BY ResultType, LenProperties DEF Values
  <1>2. b[1] = e[1]
    <2>1. (b \o x)[1] = b[1]
      BY <1>1, NatConcat
    <2>2. 1 \in 1 .. Len(e)
      OBVIOUS
    <2>3. QED
      BY <2>1, <2>2 DEF BeginsWith
  <1>3. CASE t = "string"
    <2>1. e = <<Len(v)>> \o v
      BY <1>3 DEF EncodeResult
    <2>2. <<Len(v)>> \in Seq(Nat) /\ Len(<<Len(v)>>) = 1 /\ <<Len(v)>>[1] = Len(v)
      BY <1>1
    <2>3. Len(e) = 1 + Len(v) /\ e[1] = Len(v)
      BY <1>1, <2>1, <2>2, NatConcat
    <2>4. b[1] <= Len(b) - 1
      BY <1>1, <1>2, <2>3
    <2>5. QED
      BY <1>1, <1>3, <2>4 DEF Decodes
  <1>4. CASE t = "bool"
    <2>1. e[1] <= 1
      <3>1. e = v /\ (v = <<0>> \/ v = <<1>>)
        BY <1>4 DEF EncodeResult, ResultsOf
      <3>2. QED
        BY <3>1
    <2>2. QED
      BY <1>1, <1>2, <1>4, <2>1 DEF Decodes
  <1>5. CASE t = "int32"
    BY <1>1, <1>5 DEF Decodes
  <1>6. QED
    BY <1>3, <1>4, <1>5 DEF Types

(* A stub always finds its result in the payload, and then nothing comes   *)
(* behind it.                                                              *)
LEMMA ReceivedReply ==
  ASSUME StringsCounted, NEW c \in Clients, Ledger(c), TypeOK, FdDiscipline, Received(c)
  PROVE  Decodes(ReturnType(c), cbuf[c], 1) /\ Coming(c) = <<>>
  <1>1. cpc[c] = "payload" /\ Len(cbuf[c]) = cwant[c]
    BY DEF Received
  <1>2. /\ Answered(c) /\ cwant[c] = ReplyLen(c)
        /\ BeginsWith(cbuf[c] \o Coming(c), Reply(c))
        /\ sEnd[c] = "open" \/ down[c] # <<>> => cbuf[c] \o Coming(c) = Reply(c)
    BY <1>1, Receiving
  <1>3. /\ Request(c).m \in DOMAIN Service /\ ReturnType(c) \in Types
        /\ Answer(c) \in ResultsOf(ReturnType(c))
        /\ down[c] \in Seq(Nat) /\ cbuf[c] \in Seq(Nat) /\ Coming(c) \in Seq(Nat)
    BY <1>2, ReplyFacts
  <1>4. Len(Reply(c)) \in Nat \ {0} /\ Len(Reply(c)) <= Len(cbuf[c])
    <2>1. Len(Reply(c)) \in Nat \ {0} /\ Len(Reply(c)) <= ReplyLen(c)
      BY <1>3, TotalLenCovers DEF Reply, ReplyLen, ReturnType
    <2>2. QED
      BY <1>1, <1>2, <2>1
  <1>5. Decodes(ReturnType(c), cbuf[c], 1)
    BY <1>2, <1>3, <1>4, DecodesReply DEF Reply
  <1>6. Coming(c) = <<>>
    <2>1. CASE sEnd[c] = "open" \/ down[c] # <<>>
      <3>1. Len(cbuf[c] \o Coming(c)) = Len(cbuf[c]) + Len(Coming(c))
            /\ Len(cbuf[c]) \in Nat /\ Len(Coming(c)) \in Nat
        BY <1>3, NatConcat
      <3>2. Len(cbuf[c] \o Coming(c)) = Len(Reply(c))
        BY <1>2, <2>1
      <3>3. Len(Coming(c)) = 0
        BY <1>4, <3>1, <3>2
      <3>4. QED
        BY <1>3, <3>3, EmptySeq
    <2>2. CASE sEnd[c] # "open" /\ down[c] = <<>>
      <3>1. sEnd[c] = "closed"
        BY <1>2, <2>2 DEF Answered
      <3>2. Pending(c) = <<>>
        BY <3>1, NothingPending DEF ServerOpen
      <3>3. QED
        BY <1>3, <2>2, <3>2, NatConcat DEF Coming
    <2>3. QED
      BY <2>1, <2>2
  <1>7. QED
    BY <1>5, <1>6

(* What the Ledger and Steady exclude for a client in a call.              *)
LEMMA ClientSteady ==
  ASSUME MemorySuffices, StringsCounted, NobodyQuits, NEW c \in Clients, Ledger(c),
         Steady(c), TypeOK, FdDiscipline,
         ClientStep(c) \/ Quit(c) \/ Connect(c) \/ ConnectRefused(c)
  PROVE  Steady(c)'
  <1> USE DEF TypeOK, ClientTypeOK, NetTypeOK
  <1>1. ~ ClientKilled(c) /\ ~ NoRoom(c) /\ ~ Quit(c) /\ ~ BadResponse(c)
    BY ReceivedReply DEF ClientKilled, NoRoom, Quit, BadResponse, Ledger, MemorySuffices,
                         NobodyQuits
  <1>2. ASSUME UNCHANGED <<serverVars, srst>>, cpc'[c] \in InStub
        PROVE  Steady(c)'
    BY <1>2 DEF Steady, InStub
  <1>3. CASE Connect(c) \/ ConnectRefused(c)
    <2>1. /\ UNCHANGED <<issued, down, srst, serverVars>> /\ cpc[c] = "start"
          /\ cpc'[c] \in {"ready", "exit69"}
      BY <1>3 DEF Connect, ConnectRefused, netVars
    <2>2. Idle(c)
      BY <2>1 DEF Ledger, Writing, Asking, Answered, Gone
    <2>3. issued[c] = <<>> /\ down[c] = <<>> /\ Pending(c) = <<>>
      <3>1. sEnd[c] = "none"
        BY <2>1, <2>2 DEF Idle
      <3>2. QED
        BY <2>2, <3>1, NothingPending DEF Idle, Silent, ServerOpen
    <2>4. Coming(c)' = Coming(c) /\ Coming(c) = <<>>
      <3>1. Pending(c)' = Pending(c)
        BY <2>1 DEF Pending, serverVars
      <3>2. <<>> \o <<>> = <<>>
        BY NatConcat, EmptySeq
      <3>3. QED
        BY <2>1, <2>3, <3>1, <3>2 DEF Coming
    <2>5. QED
      BY <2>1, <2>3, <2>4 DEF Steady
  <1>4. CASE Call(c) \/ Serialize(c) \/ SendReturns(c) \/ RecvHeader(c)
    BY <1>2, <1>4 DEF Call, Serialize, SendReturns, RecvHeader, InStub, netVars
  <1>5. CASE Send(c) \/ RecvPayload(c)
    BY <1>2, <1>5 DEF Send, RecvPayload, InStub
  <1>6. CASE Return(c)
    <2>1. Coming(c) = <<>>
      BY <1>6, ReceivedReply DEF Return
    <2>2. Coming(c)' = Coming(c) /\ cpc'[c] = "ready" /\ srst' = srst
      BY <1>6 DEF Return, Coming, Pending, serverVars, netVars
    <2>3. QED
      BY <2>1, <2>2 DEF Steady
  <1>7. CASE Close(c)
    <2>1. Coming(c) = <<>>
      BY <1>7 DEF Close, Steady
    <2>2. down[c] = <<>> /\ Pending(c) = <<>>
      BY <2>1, NothingComing
    <2>3. /\ cpc'[c] = "closed" /\ down'[c] = <<>> /\ srst'[c] = srst[c]
          /\ UNCHANGED serverVars
      BY <1>7, <2>2 DEF Close, Hangup
    <2>4. Coming(c)' = Coming(c)
      BY <2>2, <2>3 DEF Coming, Pending, serverVars
    <2>5. QED
      BY <2>1, <2>3, <2>4 DEF Steady
  <1>8. QED
    BY <1>1, <1>3, <1>4, <1>5, <1>6, <1>7 DEF ClientStep

LEMMA OtherClientSteady ==
  ASSUME NEW c \in Clients, Steady(c), TypeOK, NEW d \in Clients \ {c},
         ClientStep(d) \/ Quit(d) \/ Connect(d) \/ ConnectRefused(d)
  PROVE  Steady(c)'
  <1> USE DEF TypeOK, ClientTypeOK, NetTypeOK
  <1>1. /\ cpc'[c] = cpc[c] /\ issued'[c] = issued[c] /\ down'[c] = down[c]
        /\ srst'[c] = srst[c] /\ UNCHANGED serverVars
    <2>1. ASSUME NEW outcome, Hangup(d, outcome)
          PROVE  /\ cpc'[c] = cpc[c] /\ issued'[c] = issued[c] /\ down'[c] = down[c]
                 /\ srst'[c] = srst[c] /\ UNCHANGED serverVars
      BY <2>1 DEF Hangup
    <2>2. CASE ClientKilled(d) \/ NoRoom(d) \/ BadResponse(d) \/ Close(d) \/ Quit(d)
      BY <2>1, <2>2 DEF ClientKilled, NoRoom, BadResponse, Close, Quit
    <2>3. CASE Call(d) \/ Serialize(d) \/ Send(d) \/ SendReturns(d)
      BY <2>3 DEF Call, Serialize, Send, SendReturns, netVars
    <2>4. CASE RecvHeader(d) \/ RecvPayload(d) \/ Return(d)
      BY <2>4 DEF RecvHeader, RecvPayload, Return, netVars
    <2>5. CASE Connect(d) \/ ConnectRefused(d)
      BY <2>5 DEF Connect, ConnectRefused, netVars
    <2>6. QED
      BY <2>2, <2>3, <2>4, <2>5 DEF ClientStep
  <1>2. Pending(c)' = Pending(c)
    BY <1>1 DEF Pending, serverVars
  <1>3. QED
    BY <1>1, <1>2, SteadyFrame

(* The server finds the client there for every byte it sends.              *)
LEMMA ServerWrites ==
  ASSUME NEW c \in Clients, c = cur, Ledger(c), Steady(c), TypeOK, FdDiscipline,
         spc = "send", sout # <<>>
  PROVE  ClientOpen(c) /\ ~ srst[c] /\ cpc[c] \in InStub
  <1>1. Answered(c) /\ ~ srst[c]
    BY Serving1 DEF Serving, Steady
  <1>2. Coming(c) # <<>>
    <2>1. Pending(c) = sout
      BY DEF Pending
    <2>2. QED
      BY <2>1, NothingComing
  <1>3. issued[c] # <<>>
    BY <1>1 DEF Answered, Called
  <1>4. cpc[c] \in {"send", "header", "payload"}
    BY <1>1, <1>2, <1>3 DEF Answered, Steady, Gone
  <1>5. QED
    BY <1>1, <1>4 DEF ClientOpen, InStub

LEMMA ServerSteady ==
  ASSUME NEW c \in Clients, Ledger(c), Steady(c), TypeOK, FdDiscipline, Ledger(cur), Steady(cur),
         ServerStep \/ Boot
  PROVE  Steady(c)' /\ ~ ServerKilled
  <1>1. cur \in Clients
    BY DEF TypeOK, ServerTypeOK
  <1>2. ~ ServerKilled
    BY <1>1, ServerWrites DEF ServerKilled
  <1> SUFFICES Steady(c)'
    BY <1>2
  <1>3. ASSUME UNCHANGED <<cpc, issued, down, srst>>, Pending(c)' = Pending(c)
        PROVE  Steady(c)'
    BY <1>3, SteadyFrame
  <1>4. CASE ServerRecvHeader \/ ServerRecvPayload \/ ServerReceived \/ Accept \/ Boot
    <2>1. /\ UNCHANGED <<cpc, issued, down, srst>>
          /\ spc # "send" /\ spc' # "send"
      BY <1>4 DEF ServerRecvHeader, ServerRecvPayload, ServerReceived, Accept, Boot,
                  clientVars, netVars
    <2>2. QED
      BY <1>3, <2>1 DEF Pending
  <1>5. CASE ReadMethod \/ NoMethod \/ ServerNoRoom \/ ReadArg \/ BadArg
    <2>1. /\ UNCHANGED <<cpc, issued, down, srst>>
          /\ spc # "send" /\ spc' # "send"
      BY <1>5 DEF ReadMethod, NoMethod, ServerNoRoom, ReadArg, BadArg, ServerContinue,
                  clientVars, netVars
    <2>2. QED
      BY <1>3, <2>1 DEF Pending
  <1>6. CASE Execute
    <2>1. spc = "args" /\ UNCHANGED <<cpc, issued, down, srst, cur>>
      BY <1>6 DEF Execute, clientVars, netVars
    <2>2. CASE c = cur
      <3>1. cpc[c] \in {"send", "header"}
        BY <2>1, <2>2, Serving1 DEF Serving, Asking
      <3>2. QED
        BY <2>1, <3>1 DEF Steady
    <2>3. CASE c # cur
      BY <1>3, <2>1, <2>3 DEF Pending
    <2>4. QED
      BY <2>2, <2>3
  <1>7. CASE ServerSend
    <2>1. /\ spc = "send" /\ sout # <<>> /\ ClientOpen(cur) /\ cpc[cur] \in InStub
      BY <1>1, <1>7, ServerWrites DEF ServerSend
    <2>2. /\ UNCHANGED <<cpc, issued, srst, cur>>
          /\ \E k \in 1..Len(sout) : down' = [down EXCEPT ![cur] = @ \o SubSeq(sout, 1, k)]
      BY <1>7, <2>1 DEF ServerSend, clientVars
    <2>3. CASE c = cur
      BY <2>1, <2>2, <2>3 DEF Steady, InStub
    <2>4. CASE c # cur
      <3>1. down'[c] = down[c] /\ Pending(c)' = Pending(c)
        BY <2>2, <2>4 DEF Pending
      <3>2. QED
        BY <2>2, <3>1, SteadyFrame
    <2>5. QED
      BY <2>3, <2>4
  <1>8. CASE ServerSent
    <2>1. /\ UNCHANGED <<cpc, issued, down, srst, cur>> /\ spc' # "send"
          /\ sout = <<>> \/ srst[cur]
      BY <1>8 DEF ServerSent, clientVars, netVars
    <2>2. Pending(c) = <<>> /\ Pending(c)' = <<>>
      BY <2>1 DEF Pending, Steady
    <2>3. QED
      BY <1>3, <2>1, <2>2
  <1>9. CASE ServerClose
    <2>1. up[cur] = <<>>
      BY <1>1, <1>9, Serving1 DEF ServerClose, Serving, Answered
    <2>2. UNCHANGED <<cpc, issued, down, srst>> /\ spc # "send" /\ spc' # "send"
      BY <1>9, <2>1 DEF ServerClose, clientVars
    <2>3. QED
      BY <1>3, <2>2 DEF Pending
  <1>10. QED
    BY <1>2, <1>4, <1>5, <1>6, <1>7, <1>8, <1>9 DEF ServerStep

LEMMA InitSteady == Init => SteadyOK
  <1> SUFFICES ASSUME Init
               PROVE  SteadyOK
    OBVIOUS
  <1>1. \A c \in Clients : cpc[c] = "start" /\ ~ srst[c] /\ issued[c] = <<>>
    BY DEF Init
  <1>2. QED
    BY <1>1 DEF SteadyOK, Steady

LEMMA SteadyStep ==
  ASSUME MemorySuffices, StringsCounted, NobodyQuits, IInv, LedgerOK, SteadyOK, [Next]_vars
  PROVE  SteadyOK'
  <1> USE DEF IInv
  <1>1. ASSUME spc # "dead"
        PROVE  \A c \in Clients : Ledger(c)
    BY <1>1 DEF LedgerOK, Survivors, NobodyQuits
  <1>2. CASE UNCHANGED vars
    <2>1. \A c \in Clients : Steady(c)'
      BY <1>2 DEF SteadyOK, Steady, Coming, Pending, vars, clientVars, serverVars, netVars
    <2>2. QED
      BY <1>2, <2>1 DEF SteadyOK, vars, clientVars, serverVars
  <1>3. CASE \E d \in Clients : ClientStep(d) \/ Quit(d) \/ Connect(d) \/ ConnectRefused(d)
    <2>1. PICK d \in Clients : ClientStep(d) \/ Quit(d) \/ Connect(d) \/ ConnectRefused(d)
      BY <1>3
    <2>2. spc' = spc /\ UNCHANGED serverVars
      BY <2>1, ClientFrame DEF Connect, ConnectRefused, serverVars
    <2>3. CASE spc \in {"boot", "dead"}
      <3>1. ConnectRefused(d)
        <4>1. cpc[d] \in {"start", "exit69"}
          BY <2>3 DEF SteadyOK
        <4>2. QED
          BY <2>1, <2>3, <4>1 DEF ClientStep, Call, Serialize, Send, SendReturns, ClientKilled,
             RecvHeader, NoRoom, RecvPayload, Return, BadResponse, Received, Close, Quit,
             ClientOpen, InStub, Connect
      <3>2. /\ cpc' = [cpc EXCEPT ![d] = "exit69"] /\ cpc[d] = "start"
            /\ UNCHANGED <<issued, down, srst>>
        BY <3>1 DEF ConnectRefused, netVars
      <3>3. \A c \in Clients : cpc'[c] \in {"start", "exit69"}
        BY <2>3, <3>2 DEF SteadyOK, TypeOK, ClientTypeOK
      <3>4. ASSUME NEW c \in Clients
            PROVE  Steady(c)'
        <4>1. issued[c] = <<>> /\ Steady(c)
          BY <2>3 DEF SteadyOK, Steady
        <4>2. QED
          BY <3>2, <3>3, <4>1 DEF SteadyOK, Steady
      <3>5. QED
        BY <3>3, <3>4 DEF SteadyOK
    <2>4. CASE spc \notin {"boot", "dead"}
      <3>1. ASSUME NEW c \in Clients
            PROVE  Steady(c)'
        <4>1. Ledger(c) /\ Steady(c)
          BY <1>1, <2>4 DEF SteadyOK
        <4>2. CASE d = c
          BY <2>1, <4>1, <4>2, ClientSteady
        <4>3. CASE d # c
          BY <2>1, <4>1, <4>3, OtherClientSteady
        <4>4. QED
          BY <4>2, <4>3
      <3>2. QED
        BY <2>2, <2>4, <3>1 DEF SteadyOK
    <2>5. QED
      BY <2>3, <2>4
  <1>4. CASE Boot \/ ServerStep
    <2>1. spc # "dead" /\ cur \in Clients
      BY <1>4 DEF Boot, ServerStep, Accept, ServerRecvHeader, ServerRecvPayload,
                  ServerReceived, ServerNoRoom, ReadMethod, NoMethod, ReadArg, BadArg, Execute,
                  ServerSend, ServerSent, ServerClose, ServerKilled, TypeOK, ServerTypeOK
    <2>2. /\ \A c \in Clients : Steady(c)'
          /\ ~ ServerKilled
      BY <1>1, <1>4, <2>1, ServerSteady DEF SteadyOK
    <2>3. spc' \in {"boot", "dead"} => Boot
      BY <1>4, <2>2
      DEF ServerStep, Accept, ServerRecvHeader, ServerRecvPayload, ServerReceived,
          ServerNoRoom, ReadMethod, NoMethod, ReadArg, BadArg, ServerContinue, Execute,
          ServerSend, ServerSent, ServerClose
    <2>4. Boot => spc = "boot" /\ cpc' = cpc
      BY DEF Boot, clientVars
    <2>5. QED
      BY <2>2, <2>3, <2>4 DEF SteadyOK
  <1>5. QED
    BY <1>2, <1>3, <1>4 DEF Next

LEMMA SpecSteady ==
  ASSUME MemorySuffices, OneCall, WordArguments, StringsCounted, NobodyQuits
  PROVE  Spec => []SteadyOK
  <1>1. IInv /\ LedgerOK /\ SteadyOK /\ [Next]_vars => SteadyOK'
    BY SteadyStep
  <1>2. QED
    BY <1>1, InitSteady, SpecIInv, SpecLedger, PTL DEF Spec

(* Both sides agree on every length: no byte of a request is unread when   *)
(* the server closes, none of a reply when the stub returns.               *)
THEOREM CallNothingUnread ==
  ASSUME MemorySuffices, OneCall, WordArguments, StringsCounted, NobodyQuits
  PROVE  Spec => []NothingUnread
  <1>1. IInv /\ LedgerOK /\ SteadyOK => NothingUnread
    <2> SUFFICES ASSUME IInv, LedgerOK, SteadyOK
                 PROVE  NothingUnread
      OBVIOUS
    <2>1. TypeOK /\ FdDiscipline /\ cur \in Clients
      BY DEF IInv, TypeOK, ServerTypeOK
    <2>2. ASSUME spc = "close"
          PROVE  up[cur] = <<>>
      <3>1. Ledger(cur)
        BY <2>1, <2>2 DEF LedgerOK, Survivors, NobodyQuits
      <3>2. QED
        BY <2>1, <2>2, <3>1, Serving1 DEF Serving, Answered
    <2>3. ASSUME NEW c \in Clients, cpc[c] = "ready"
          PROVE  down[c] = <<>>
      BY <2>1, <2>3, NothingComing DEF SteadyOK, Steady
    <2>4. QED
      BY <2>2, <2>3 DEF NothingUnread
  <1>2. QED
    BY <1>1, SpecIInv, SpecLedger, SpecSteady, PTL

(* No client makes the server write to a connection that was reset.        *)
THEOREM CallServerSurvives ==
  ASSUME MemorySuffices, OneCall, WordArguments, StringsCounted, NobodyQuits
  PROVE  Spec => ServerSurvives
  <1>1. IInv /\ LedgerOK /\ SteadyOK /\ [Next]_vars
          => [spc' = "dead" => spc \in {"boot", "dead"}]_vars
    <2> SUFFICES ASSUME IInv, LedgerOK, SteadyOK, Next, spc' = "dead",
                        spc \notin {"boot", "dead"}
                 PROVE  FALSE
      OBVIOUS
    <2>1. TypeOK /\ FdDiscipline /\ cur \in Clients
      BY DEF IInv, TypeOK, ServerTypeOK
    <2>2. ServerKilled
      <3>1. ASSUME NEW c \in Clients,
                   ClientStep(c) \/ Quit(c) \/ Connect(c) \/ ConnectRefused(c)
            PROVE  spc' = spc
        BY <2>1, <3>1, ClientFrame DEF Connect, ConnectRefused, serverVars
      <3>2. ~ Boot
        BY DEF Boot
      <3>3. ServerStep
        BY <3>1, <3>2 DEF Next
      <3>4. QED
        BY <3>3 DEF ServerStep, Accept, ServerRecvHeader, ServerRecvPayload, ServerReceived,
          ServerNoRoom, ReadMethod, NoMethod, ReadArg, BadArg, ServerContinue, Execute,
          ServerSend, ServerSent, ServerClose
    <2>3. Ledger(cur) /\ Steady(cur)
      BY <2>1 DEF LedgerOK, SteadyOK, Survivors, NobodyQuits
    <2>4. QED
      BY <2>1, <2>2, <2>3, ServerWrites DEF ServerKilled
  <1>2. QED
    BY <1>1, SpecIInv, SpecLedger, SpecSteady, PTL DEF Spec, ServerSurvives

-----------------------------------------------------------------------------
(* The stubs implement RpcService *)

LEMMA PromiseCall ==
  ASSUME OneCall, NEW c \in Clients, Ledger(c), TypeOK, Call(c)
  PROVE  Promise!Next
  <1>1. issued[c] = <<>>
    <2>1. Len(issued[c]) \in Nat /\ Len(issued[c]) < MaxCalls /\ MaxCalls \in Nat
      BY DataAssumption, LenProperties DEF Call, TypeOK, ClientTypeOK
    <2>2. Len(issued[c]) = 0
      BY <2>1 DEF OneCall
    <2>3. QED
      BY <2>2, EmptySeq DEF TypeOK, ClientTypeOK
  <1>2. Idle(c)
    BY <1>1 DEF Ledger, Writing, Asking, Answered, Called
  <1>3. Len(issued[c]) = Len(returned[c])
    BY <1>2 DEF Idle, Silent
  <1>4. PICK r \in Requests : issued' = [issued EXCEPT ![c] = Append(@, r)]
    BY DEF Call
  <1>5. UNCHANGED <<served, returned>>
    BY DEF Call, serverVars
  <1>6. Promise!Call(c, r)
    BY <1>3, <1>4, <1>5 DEF Promise!Call
  <1>7. QED
    BY <1>6 DEF Promise!Next

LEMMA PromiseExecute ==
  ASSUME MemorySuffices, WordArguments, NEW c \in Clients, Ledger(c), c = cur, IInv, Execute
  PROVE  Promise!Next
  <1>1. spc = "args" /\ TypeOK /\ FdDiscipline
    BY DEF Execute, IInv
  <1>2. Called(c) /\ Silent(c)
    BY <1>1, PayloadFacts
  <1>3. Answered(c)'
    <2>1. Ledger(c)'
      BY ExecuteLedger
    <2>2. spc' = "send" /\ sEnd'[c] = "open"
      BY <1>1, Serving1 DEF Execute, MemorySuffices, netVars, Serving
    <2>3. served'[c] # <<>>
      <3>1. PICK e : served' = [served EXCEPT ![cur] = Append(@, e)]
        BY DEF Execute
      <3>2. served'[c] = <<e>>
        BY <1>1, <1>2, <3>1 DEF Silent, TypeOK, ServerTypeOK
      <3>3. QED
        BY <3>2
    <2>4. ~ Idle(c)' /\ ~ Writing(c)' /\ ~ Asking(c)'
      BY <2>3 DEF Idle, Writing, Asking, Silent
    <2>5. QED
      BY <2>1, <2>4 DEF Ledger
  <1>4. UNCHANGED <<issued, returned>> /\ Request(c)' = Request(c)
    BY DEF Execute, clientVars, Request
  <1>5. PICK v \in ResultsFor(Request(c)) : served'[c] = <<[req |-> Request(c), res |-> v]>>
    BY <1>3, <1>4 DEF Answered
  <1>6. served' = [served EXCEPT ![c] = Append(@, [req |-> Request(c), res |-> v])]
    <2>1. PICK e : served' = [served EXCEPT ![c] = Append(@, e)]
      BY DEF Execute
    <2>2. served[c] = <<>> /\ served \in [Clients -> Seq([req : Calls, res : Values])]
      BY <1>1, <1>2 DEF Silent, TypeOK, ServerTypeOK
    <2>3. served'[c] = <<e>>
      BY <2>1, <2>2
    <2>4. e = [req |-> Request(c), res |-> v]
      BY <1>5, <2>3
    <2>5. QED
      BY <2>1, <2>4
  <1>7. Len(served[c]) < Len(issued[c])
    BY <1>2 DEF Silent, Called
  <1>8. Promise!Execute(c)
    BY <1>4, <1>5, <1>6, <1>7 DEF Promise!Execute, Request
  <1>9. QED
    BY <1>8 DEF Promise!Next

LEMMA PromiseReturn ==
  ASSUME NEW c \in Clients, Ledger(c), TypeOK, Return(c)
  PROVE  Promise!Next
  <1>1. /\ cpc[c] = "payload" /\ Decodes(ReturnType(c), cbuf[c], 1)
    BY DEF Return, Received
  <1>2. /\ Answered(c) /\ returned[c] = <<>>
        /\ BeginsWith(cbuf[c] \o Coming(c), Reply(c))
    BY <1>1, Receiving
  <1>3. Decoded(ReturnType(c), cbuf[c], 1) = Answer(c)
    BY <1>1, <1>2, ReplyFacts, DecodesAnswer DEF Reply
  <1>4. served[c] = <<[req |-> Request(c), res |-> Answer(c)]>>
    BY <1>2 DEF Answered
  <1>5. /\ returned' = [returned EXCEPT ![c] = Append(@, served[c][Len(served[c])])]
        /\ UNCHANGED <<issued, served>>
    <2>1. served[c][Len(served[c])] = [req |-> Request(c), res |-> Answer(c)]
      BY <1>4
    <2>2. QED
      BY <1>3, <2>1 DEF Return, serverVars
  <1>6. Len(returned[c]) < Len(served[c])
    BY <1>2, <1>4
  <1>7. Promise!Return(c)
    BY <1>5, <1>6 DEF Promise!Return
  <1>8. QED
    BY <1>7 DEF Promise!Next

LEMMA PromiseStep ==
  ASSUME MemorySuffices, OneCall, WordArguments, StringsCounted, NobodyQuits, IInv, LedgerOK,
         SteadyOK, [Next]_vars
  PROVE  [Promise!Next]_(Promise!vars)
  <1>1. TypeOK /\ cur \in Clients
    BY DEF IInv, TypeOK, ServerTypeOK
  <1>2. ASSUME spc # "dead", NEW c \in Clients
        PROVE  Ledger(c)
    BY <1>2 DEF LedgerOK, Survivors, NobodyQuits
  <1>3. ASSUME NEW c \in Clients, spc = "dead"
        PROVE  ~ Call(c) /\ ~ Return(c)
    <2>1. cpc[c] \in {"start", "exit69"}
      BY <1>3 DEF SteadyOK
    <2>2. QED
      BY <2>1 DEF Call, Return, Received
  <1>4. ASSUME NEW c \in Clients,
               ClientStep(c) \/ Quit(c) \/ Connect(c) \/ ConnectRefused(c)
        PROVE  Call(c) \/ Return(c) \/ UNCHANGED <<issued, served, returned>>
    <2>1. ASSUME NEW outcome, Hangup(c, outcome)
          PROVE  UNCHANGED <<issued, served, returned>>
      BY <2>1 DEF Hangup, serverVars
    <2>2. CASE ClientKilled(c) \/ NoRoom(c) \/ BadResponse(c) \/ Close(c) \/ Quit(c)
      BY <2>1, <2>2 DEF ClientKilled, NoRoom, BadResponse, Close, Quit
    <2>3. CASE Serialize(c) \/ Send(c) \/ SendReturns(c) \/ RecvHeader(c) \/ RecvPayload(c)
      BY <2>3 DEF Serialize, Send, SendReturns, RecvHeader, RecvPayload, serverVars
    <2>4. CASE Connect(c) \/ ConnectRefused(c)
      BY <2>4 DEF Connect, ConnectRefused, serverVars
    <2>5. QED
      BY <1>4, <2>2, <2>3, <2>4 DEF ClientStep
  <1>5. ASSUME ServerStep \/ Boot
        PROVE  Execute \/ UNCHANGED <<issued, served, returned>>
    BY <1>5 DEF Boot, ServerStep, Accept, ServerRecvHeader, ServerRecvPayload, ServerReceived,
       ServerNoRoom, ReadMethod, NoMethod, ReadArg, BadArg, ServerContinue, ServerSend,
       ServerSent, ServerClose, ServerKilled, clientVars
  <1>6. ASSUME UNCHANGED <<issued, served, returned>>
        PROVE  UNCHANGED Promise!vars
    BY <1>6 DEF Promise!vars
  <1>7. ASSUME NEW c \in Clients, Call(c) \/ Return(c)
        PROVE  Promise!Next
    BY <1>1, <1>2, <1>3, <1>7, PromiseCall, PromiseReturn
  <1>8. ASSUME Execute
        PROVE  Promise!Next
    <2>1. spc # "dead"
      BY <1>8 DEF Execute
    <2>2. QED
      BY <1>1, <1>2, <1>8, <2>1, PromiseExecute
  <1>9. CASE UNCHANGED vars
    BY <1>6, <1>9 DEF vars, clientVars, serverVars
  <1>10. QED
    BY <1>4, <1>5, <1>6, <1>7, <1>8, <1>9 DEF Next

(* The stubs and the server implement the service they promise: every call *)
(* is executed once, with its own arguments, and returns what the method   *)
(* computed for it.                                                        *)
THEOREM CallKeepsPromise ==
  ASSUME MemorySuffices, OneCall, WordArguments, StringsCounted, NobodyQuits
  PROVE  Spec => KeepsPromise
  <1>1. Init => Promise!Init
    BY DEF Init, Promise!Init
  <1>2. IInv /\ LedgerOK /\ SteadyOK /\ [Next]_vars => [Promise!Next]_(Promise!vars)
    BY PromiseStep
  <1>3. QED
    BY <1>1, <1>2, SpecIInv, SpecLedger, SpecSteady, PTL DEF Spec, KeepsPromise, Promise!Spec

-----------------------------------------------------------------------------
(* The frame of the reply *)

LEMMA TotalLenExact ==
  ASSUME OneParameter, NEW m \in DOMAIN Service, NEW v \in ResultsOf(Service[m].ret)
  PROVE  Len(EncodeResult(Service[m].ret, v)) = ServerTotalLen(m, v)
  <1> DEFINE S == {i \in DOMAIN Params(m) : IsString(m, i)}
  <1>1. Service[m].ret \in Types /\ Params(m) \in Seq(Types) /\ Len(Params(m)) = 1
    BY ServiceFacts DEF OneParameter
  <1>2. DOMAIN Params(m) = {1}
    BY <1>1, LenProperties
  <1>3. v \in Seq(Nat) /\ Len(v) \in Nat /\ DOMAIN v = 1 .. Len(v)
    BY <1>1, ResultType, LenProperties DEF Values
  <1>4. ServerTotalLen(m, v) = 1 + Cardinality(S \X DOMAIN v)
    BY <1>1 DEF ServerTotalLen
  <1>5. CASE Service[m].ret = "string"
    <2>1. S = {1}
      BY <1>2, <1>5 DEF OneParameter
    <2> HIDE DEF S
    <2>2. /\ IsFiniteSet(1 .. Len(v))
          /\ Cardinality(1 .. Len(v)) = IF 1 > Len(v) THEN 0 ELSE Len(v) - 1 + 1
      BY <1>3, FS_Interval
    <2>3. Cardinality({1} \X DOMAIN v) = Len(v)
      <3>1. IsFiniteSet(DOMAIN v) /\ Cardinality(DOMAIN v) = Len(v)
        BY <1>3, <2>2
      <3>2. QED
        BY <3>1, UnitProduct
    <2>4. Len(EncodeResult(Service[m].ret, v)) = 1 + Len(v)
      <3>1. EncodeResult(Service[m].ret, v) = <<Len(v)>> \o v
        BY <1>5 DEF EncodeResult
      <3>2. <<Len(v)>> \in Seq(Nat) /\ Len(<<Len(v)>>) = 1
        BY <1>3
      <3>3. QED
        BY <1>3, <3>1, <3>2, NatConcat
    <2>5. QED
      BY <1>4, <2>1, <2>3, <2>4
  <1>6. CASE Service[m].ret # "string"
    <2>1. S = {}
      BY <1>6, ServiceAssumption DEF IsString, Params
    <2>2. S \X DOMAIN v = {}
      BY <2>1
    <2>3. ServerTotalLen(m, v) = 1
      BY <1>4, <2>2, FS_EmptySet
    <2>4. EncodeResult(Service[m].ret, v) = v
      BY <1>6 DEF EncodeResult
    <2>5. Len(v) = 1
      BY <1>1, <1>6 DEF ResultsOf, Types
    <2>6. QED
      BY <2>3, <2>4, <2>5
  <1>7. QED
    BY <1>5, <1>6

(* Where every method has one parameter, and a string result comes with a  *)
(* string parameter, the length a reply begins with is the length of what  *)
(* follows it; with two parameters it is not.                              *)
THEOREM CallResponseFramed ==
  ASSUME MemorySuffices, OneParameter
  PROVE  Spec => ResponseFramed
  <1>1. IInv /\ [Next]_vars
          => [(spc = "args" /\ spc' = "send") => Head(sout') = Len(Tail(sout'))]_vars
    <2> SUFFICES ASSUME IInv, Next, spc = "args", spc' = "send"
                 PROVE  Head(sout') = Len(Tail(sout'))
      OBVIOUS
    <2>1. TypeOK /\ MethodKnown
      BY DEF IInv
    <2>2. Execute
      <3>1. ASSUME NEW c \in Clients,
                   ClientStep(c) \/ Quit(c) \/ Connect(c) \/ ConnectRefused(c)
            PROVE  spc' = spc
        BY <2>1, <3>1, ClientFrame DEF Connect, ConnectRefused, serverVars
      <3>2. ServerStep
        BY <3>1 DEF Next, Boot
      <3>3. QED
        BY <3>2 DEF ServerStep, Accept, ServerRecvHeader, ServerRecvPayload, ServerReceived,
          ServerNoRoom, ReadMethod, NoMethod, ReadArg, BadArg, ServerContinue, ServerSend,
          ServerSent, ServerClose, ServerKilled
    <2>3. Method \in DOMAIN Service
      BY <2>1 DEF MethodKnown
    <2>4. PICK res \in ResultsOf(Service[Method].ret) :
            sout' = <<ServerTotalLen(Method, res)>> \o EncodeResult(Service[Method].ret, res)
      BY <2>2 DEF Execute, MemorySuffices
    <2> DEFINE w == ServerTotalLen(Method, res)
               b == EncodeResult(Service[Method].ret, res)
    <2>5. b \in Seq(Nat) /\ w \in Nat /\ Len(b) = w
      <3>1. res \in Values /\ b \in Seq(Nat)
        BY <2>3, <2>4, ServiceFacts, ResultType
      <3>2. QED
        BY <2>3, <2>4, <3>1, ServerTotalLenType, TotalLenExact
    <2>6. sout' = <<w>> \o b
      BY <2>4
    <2> HIDE DEF w, b
    <2>7. sout' \in Seq(Nat) /\ sout' # <<>>
      <3>1. <<w>> \in Seq(Nat) /\ Len(<<w>>) = 1
        BY <2>5
      <3>2. sout' \in Seq(Nat) /\ Len(sout') = 1 + Len(b) /\ Len(b) \in Nat
        BY <2>5, <2>6, <3>1, NatConcat
      <3>3. QED
        BY <3>2
    <2>8. PICK h \in Nat, t \in Seq(Nat) :
            h = Head(sout') /\ t = Tail(sout') /\ <<h>> \o t = <<w>> \o b
      <3>1. /\ Head(sout') \in Nat /\ Tail(sout') \in Seq(Nat)
            /\ <<Head(sout')>> \o Tail(sout') = <<w>> \o b
        BY <2>6, <2>7, HeadMoves
      <3>2. QED
        BY <3>1
    <2>9. h = w /\ t = b
      <3>1. w \in Nat /\ b \in Seq(Nat) /\ <<h>> \o t = <<w>> \o b
        BY <2>5, <2>8
      <3>2. QED
        BY <3>1, SameHeader
    <2>10. QED
      BY <2>5, <2>8, <2>9
  <1>2. QED
    BY <1>1, SpecIInv, PTL DEF Spec, ResponseFramed
=============================================================================
