-------------------------------- MODULE RpcCall --------------------------------
(***************************************************************************)
(* A generated server and its generated clients, talking over TCP.         *)
(*                                                                         *)
(* The unit of data is the cell: one 32-bit word, or one character of a    *)
(* string.  A value is a sequence of cells (a word, or the characters),    *)
(* a frame is a sequence of cells beginning with its length in cells.      *)
(* Each client process opens one connection; a client is the name of its   *)
(* connection too.                                                         *)
(***************************************************************************)
EXTENDS Naturals, Sequences, FiniteSets

CONSTANTS
  Clients,       \* client processes
  Service,       \* the .rpc service: a sequence of [params, ret]
  Requests,      \* the calls applications make: [m, args]
  Ints,          \* words an int32 result may be
  Strings,       \* strings a result may be
  MaxCalls,      \* calls an application makes on one connection
  Backlog,       \* connections the listening socket queues
  MaxFds,        \* connections the server process may have open
  Garbage,       \* what an uninitialised word or byte may hold
  Quitters,      \* clients that may go away at any moment
  AllocMayFail   \* whether realloc and malloc may return NULL

Types  == {"int32", "bool", "string"}
Values == Seq(Nat)

(* Two shapes of method are left out because the code generated for them   *)
(* is not a program: total_len of a method without parameters is an empty  *)
(* expression, and strlen(result) is emitted for each string parameter     *)
(* even where result is not a string.                                      *)
ASSUME ServiceAssumption ==
  /\ Service \in Seq([params : Seq(Types), ret : Types])
  /\ \A m \in DOMAIN Service :
       /\ Service[m].params # <<>>
       /\ (\E i \in DOMAIN Service[m].params : Service[m].params[i] = "string")
            => Service[m].ret = "string"

ASSUME RequestsAssumption ==
  \A r \in Requests :
    /\ r \in [m : DOMAIN Service, args : Seq(Values)]
    /\ Len(r.args) = Len(Service[r.m].params)

ASSUME DataAssumption ==
  /\ Ints \subseteq Nat /\ Garbage \subseteq Nat /\ Strings \subseteq Values
  /\ {MaxCalls, Backlog, MaxFds} \subseteq Nat
  /\ Quitters \subseteq Clients /\ AllocMayFail \in BOOLEAN

VARIABLES
  \* client processes
  cpc,       \* where each client is
  issued,    \* the requests its application has called
  field,     \* the next rpc_serialize_* call of the stub
  cout,      \* the bytes of its buffer still to be sent
  cwant,     \* payload_length of the response
  cbuf,      \* payload received so far
  returned,  \* [req, res] of every call that returned to the application
  \* the server process
  spc,       \* where the server is
  cur,       \* the connection fd names
  swant,     \* payload_length of the request
  sbuf,      \* payload received so far
  spos,      \* position of its buffer
  sargs,     \* parameters deserialised so far
  sout,      \* the bytes of its buffer still to be sent
  served,    \* per connection, [req, res] of every method executed
  \* the connections
  up, down,  \* bytes sent and not yet read, towards the server and back
  sEnd,      \* the server's end: none, queued, open, closed
  srst, crst,\* the peer's RST has reached the server's, the client's end
  backlog    \* completed connections not yet accepted, oldest first

clientVars == <<cpc, issued, field, cout, cwant, cbuf, returned>>
serverBuf  == <<swant, sbuf, spos, sargs>>
serverVars == <<spc, cur, serverBuf, sout, served>>
netVars    == <<up, down, sEnd, srst, crst, backlog>>
vars       == <<clientVars, serverVars, netVars>>

InStub  == {"serialize", "send", "header", "payload"}
Gone    == {"closed", "exit69", "killed", "quit"}
Serving == {"header", "payload", "method", "args", "send", "close"}

ClientOpen(c) == cpc[c] \in InStub \cup {"ready"}
ServerOpen(c) == sEnd[c] \in {"queued", "open"}

Init ==
  /\ cpc = [c \in Clients |-> "start"]
  /\ issued = [c \in Clients |-> <<>>]
  /\ field = [c \in Clients |-> 1]
  /\ cout = [c \in Clients |-> <<>>]
  /\ cwant = [c \in Clients |-> 0]
  /\ cbuf = [c \in Clients |-> <<>>]
  /\ returned = [c \in Clients |-> <<>>]
  /\ spc = "boot" /\ cur \in Clients
  /\ swant = 0 /\ sbuf = <<>> /\ spos = 1 /\ sargs = <<>> /\ sout = <<>>
  /\ served = [c \in Clients |-> <<>>]
  /\ up = [c \in Clients |-> <<>>]
  /\ down = [c \in Clients |-> <<>>]
  /\ sEnd = [c \in Clients |-> "none"]
  /\ srst = [c \in Clients |-> FALSE]
  /\ crst = [c \in Clients |-> FALSE]
  /\ backlog = <<>>

-----------------------------------------------------------------------------
(* The wire format, as the generator lays it out *)

Params(m) == Service[m].params
IsString(m, i) == Params(m)[i] = "string"

(* The characters of the string arguments: what the strlen terms of the    *)
(* client's total_len add up to.                                           *)
StringChars(r) ==
  UNION {{i} \X DOMAIN r.args[i] : i \in {j \in DOMAIN r.args : IsString(r.m, j)}}

(* generate_total_len, client: method_id, a word per parameter, and the    *)
(* characters of each string.                                              *)
ClientTotalLenWhole(r) == 2 + Len(Params(r.m)) + Cardinality(StringChars(r)) \* mutant: counts total_len too
ClientTotalLen(r) == 1 + Len(Params(r.m)) + Cardinality(StringChars(r))

(* generate_total_len, server: the sum runs over the parameters of the     *)
(* method, with strlen(result) for each one that is a string.              *)
ServerTotalLenWhole(m, res) == Len(Params(m)) + Len(res) + 1 \* mutant: counts total_len too
ServerTotalLenShort(m, res) == Len(Params(m))              \* mutant: no strlen terms
ServerTotalLen(m, res) ==
  Len(Params(m)) + Cardinality({i \in DOMAIN Params(m) : IsString(m, i)} \X DOMAIN res)

(* generate_rpc_serialize_method_token writes no call for a bool.          *)
EncodeArgTerminated(t, v) == IF t = "string" THEN <<Len(v)>> \o v \o <<0>> ELSE v \* mutant: sends the '\0' too
EncodeArg(t, v) == CASE t = "int32"  -> v
                     [] t = "string" -> <<Len(v)>> \o v
                     [] OTHER        -> <<>>

EncodeResult(t, v) == IF t = "string" THEN <<Len(v)>> \o v ELSE v

FieldOneBased(r, k) == CASE k = 1 -> <<ClientTotalLen(r)>>   \* mutant: ids counted from one
                         [] k = 2 -> <<r.m>>
                         [] OTHER -> EncodeArg(Params(r.m)[k - 2], r.args[k - 2])
(* The k-th field the stub for request r serialises.  Method m has the     *)
(* index m - 1 in the service's vector.                                    *)
Field(r, k) == CASE k = 1 -> <<ClientTotalLen(r)>>
                 [] k = 2 -> <<r.m - 1>>
                 [] OTHER -> EncodeArg(Params(r.m)[k - 2], r.args[k - 2])

(* rpc_deserialize_*, reading a value of type t at pos of buf.             *)
Decodes(t, buf, pos) ==
  /\ pos <= Len(buf)
  /\ t = "bool" => buf[pos] <= 1
  /\ t = "string" => buf[pos] <= Len(buf) - pos
Decoded(t, buf, pos) ==
  IF t = "string" THEN SubSeq(buf, pos + 1, pos + buf[pos]) ELSE <<buf[pos]>>
AfterSame(t, buf, pos) == pos                              \* mutant: position not advanced
After(t, buf, pos) == IF t = "string" THEN pos + buf[pos] + 1 ELSE pos + 1

(* What the method's own code, written by the user, may return.            *)
ResultsOf(t) == CASE t = "int32" -> {<<n>> : n \in Ints}
                  [] t = "bool"  -> {<<0>>, <<1>>}
                  [] OTHER       -> Strings

(* What one recv moves out of a queue, when want bytes are still missing.  *)
Chunk(queue, want) == SubSeq(queue, 1, IF Len(queue) < want THEN Len(queue) ELSE want)
Rest(queue, want)  == SubSeq(queue, Len(Chunk(queue, want)) + 1, Len(queue))

-----------------------------------------------------------------------------
(* Clients *)

Request(c) == issued[c][Len(issued[c])]

(* rpc_client_connect: the three-way handshake ends in the backlog; with a *)
(* full backlog connect waits.                                             *)
Connect(c) ==
  /\ cpc[c] = "start" /\ spc \notin {"boot", "dead"}
  /\ Len(backlog) < Backlog
  /\ cpc' = [cpc EXCEPT ![c] = "ready"]
  /\ sEnd' = [sEnd EXCEPT ![c] = "queued"]
  /\ backlog' = Append(backlog, c)
  /\ UNCHANGED <<issued, field, cout, cwant, cbuf, returned, serverVars, up, down, srst, crst>>

ConnectRefused(c) ==
  /\ cpc[c] = "start" /\ spc \in {"boot", "dead"}
  /\ cpc' = [cpc EXCEPT ![c] = "exit69"]
  /\ UNCHANGED <<issued, field, cout, cwant, cbuf, returned, serverVars, netVars>>

(* The application calls a stub; RpcBuffer buffer = {0}.                   *)
Call(c) ==
  /\ cpc[c] = "ready" /\ Len(issued[c]) < MaxCalls
  /\ \E r \in Requests : issued' = [issued EXCEPT ![c] = Append(@, r)]
  /\ cpc' = [cpc EXCEPT ![c] = "serialize"]
  /\ field' = [field EXCEPT ![c] = 1]
  /\ UNCHANGED <<cout, cwant, cbuf, returned, serverVars, netVars>>

(* One rpc_serialize_* call of the stub.  Its result is not looked at: a   *)
(* field there is no memory for is left out and the stub goes on.          *)
Serialize(c) ==
  /\ cpc[c] = "serialize"
  /\ \/ cout' = [cout EXCEPT ![c] = @ \o Field(Request(c), field[c])]
     \/ AllocMayFail /\ UNCHANGED cout
  /\ field' = [field EXCEPT ![c] = @ + 1]
  /\ cpc' = [cpc EXCEPT ![c] =
               IF field[c] = Len(Params(Request(c).m)) + 2 THEN "send" ELSE @]
  /\ UNCHANGED <<issued, cwant, cbuf, returned, serverVars, netVars>>

(* One send of send_all's loop.  What is sent to a closed end is lost, and *)
(* answered by an RST that may arrive before the next send or after it.    *)
Send(c) ==
  /\ cpc[c] = "send" /\ cout[c] # <<>> /\ ~ crst[c]
  /\ \E k \in 1..Len(cout[c]) :
       /\ cout' = [cout EXCEPT ![c] = SubSeq(@, k + 1, Len(@))]
       /\ IF ServerOpen(c)
            THEN /\ up' = [up EXCEPT ![c] = @ \o SubSeq(cout[c], 1, k)]
                 /\ UNCHANGED crst
            ELSE /\ \E b \in BOOLEAN : crst' = [crst EXCEPT ![c] = b]
                 /\ UNCHANGED up
  /\ UNCHANGED <<cpc, issued, field, cwant, cbuf, returned, serverVars, down, sEnd, srst, backlog>>

(* send_all returns: the count, or 0 for an error.  The stub tests for < 0 *)
(* and goes on to receive either way.  (The count is an int: a request of *)
(* more than INT_MAX bytes, whose count is negative, is left out.)         *)
SendReturns(c) ==
  /\ cpc[c] = "send" /\ (cout[c] = <<>> \/ crst[c])
  /\ cpc' = [cpc EXCEPT ![c] = "header"]
  /\ cout' = [cout EXCEPT ![c] = <<>>]
  /\ UNCHANGED <<issued, field, cwant, cbuf, returned, serverVars, netVars>>

(* The connection as the client process leaves it, by close or by dying:   *)
(* FIN, or RST when there was something it had not read.                   *)
Hangup(c, outcome) ==
  /\ cpc' = [cpc EXCEPT ![c] = outcome]
  /\ cout' = [cout EXCEPT ![c] = <<>>]
  /\ cbuf' = [cbuf EXCEPT ![c] = <<>>]
  /\ down' = [down EXCEPT ![c] = <<>>]
  /\ srst' = [srst EXCEPT ![c] = @ \/ (ServerOpen(c) /\ down[c] # <<>>)]
  /\ UNCHANGED <<issued, field, cwant, returned, serverVars, up, sEnd, crst, backlog>>

(* Writing to a connection that was reset raises SIGPIPE.                  *)
ClientKilled(c) ==
  /\ cpc[c] = "send" /\ cout[c] # <<>> /\ crst[c]
  /\ Hangup(c, "killed")

(* recv_rpc_buffer, the header.  When the connection has ended recv_all    *)
(* returns 0, which passes the test for < 0, and network_length is read    *)
(* without having been written.                                            *)
RecvHeader(c) ==
  /\ cpc[c] = "header"
  /\ \/ /\ down[c] # <<>>
        /\ cwant' = [cwant EXCEPT ![c] = Head(down[c])]
        /\ down' = [down EXCEPT ![c] = Tail(@)]
     \/ /\ down[c] = <<>> /\ ~ ServerOpen(c)
        /\ \E g \in Garbage : cwant' = [cwant EXCEPT ![c] = g]
        /\ UNCHANGED down
  /\ cpc' = [cpc EXCEPT ![c] = "payload"]
  /\ UNCHANGED <<issued, field, cout, cbuf, returned, serverVars, up, sEnd, srst, crst, backlog>>

(* rpc_buffer_ensure_capacity(payload_length) fails: exit(69).             *)
NoRoom(c) ==
  /\ AllocMayFail /\ cpc[c] = "payload" /\ cbuf[c] = <<>>
  /\ Hangup(c, "exit69")

(* recv_rpc_buffer, the payload; again an end of the connection passes for *)
(* success, with whatever the fresh memory holds.                          *)
RecvPayload(c) ==
  LET missing == cwant[c] - Len(cbuf[c]) IN
  /\ cpc[c] = "payload" /\ Len(cbuf[c]) < cwant[c]
  /\ \/ /\ down[c] # <<>>
        /\ cbuf' = [cbuf EXCEPT ![c] = @ \o Chunk(down[c], missing)]
        /\ down' = [down EXCEPT ![c] = Rest(@, missing)]
     \/ /\ down[c] = <<>> /\ ~ ServerOpen(c)
        /\ \E g \in [1..missing -> Garbage] : cbuf' = [cbuf EXCEPT ![c] = @ \o g]
        /\ UNCHANGED down
  /\ UNCHANGED <<cpc, issued, field, cout, cwant, returned, serverVars, up, sEnd, srst, crst, backlog>>

(* The payload is complete: deserialise and return, or exit(69).           *)
Received(c) == cpc[c] = "payload" /\ Len(cbuf[c]) = cwant[c]
ReturnType(c) == Service[Request(c).m].ret

Return(c) ==
  /\ Received(c) /\ Decodes(ReturnType(c), cbuf[c], 1)
  /\ returned' = [returned EXCEPT ![c] =
       Append(@, [req |-> Request(c), res |-> Decoded(ReturnType(c), cbuf[c], 1)])]
  /\ cbuf' = [cbuf EXCEPT ![c] = <<>>]
  /\ cpc' = [cpc EXCEPT ![c] = "ready"]
  /\ UNCHANGED <<issued, field, cout, cwant, serverVars, netVars>>

BadResponse(c) ==
  /\ Received(c)
  /\ ~ Decodes(ReturnType(c), cbuf[c], 1) \/ (AllocMayFail /\ ReturnType(c) = "string")
  /\ Hangup(c, "exit69")

(* rpc_client_close, by an application that has made its calls.            *)
Close(c) ==
  /\ cpc[c] = "ready" /\ issued[c] # <<>>
  /\ Hangup(c, "closed")

(* The process dies, or closes a connection it never used.                 *)
Quit(c) ==
  /\ c \in Quitters /\ ClientOpen(c)
  /\ Hangup(c, "quit")

-----------------------------------------------------------------------------
(* Server *)

(* get_socket and listen, or exit.                                         *)
Boot ==
  /\ spc = "boot"
  /\ spc' \in {"accept", "dead"}
  /\ UNCHANGED <<clientVars, cur, serverBuf, sout, served, netVars>>

OpenFds == {c \in Clients : sEnd[c] = "open"}

(* accept, into a new RpcBuffer.  Out of descriptors it fails and the loop *)
(* spins, which is a stuttering step.                                      *)
Accept ==
  /\ spc = "accept" /\ backlog # <<>>
  /\ Cardinality(OpenFds) < MaxFds
  /\ cur' = Head(backlog)
  /\ backlog' = Tail(backlog)
  /\ sEnd' = [sEnd EXCEPT ![Head(backlog)] = "open"]
  /\ spc' = "header"
  /\ swant' = 0 /\ sbuf' = <<>> /\ spos' = 1 /\ sargs' = <<>> /\ sout' = <<>>
  /\ UNCHANGED <<clientVars, served, up, down, srst, crst>>

(* recv_rpc_buffer, as in the client.                                      *)
ServerRecvHeader ==
  /\ spc = "header"
  /\ \/ /\ up[cur] # <<>>
        /\ swant' = Head(up[cur])
        /\ up' = [up EXCEPT ![cur] = Tail(@)]
     \/ /\ up[cur] = <<>> /\ ~ ClientOpen(cur)
        /\ swant' \in Garbage
        /\ UNCHANGED up
  /\ spc' = "payload"
  /\ UNCHANGED <<clientVars, cur, sbuf, spos, sargs, sout, served, down, sEnd, srst, crst, backlog>>

ServerRecvPayload ==
  LET missing == swant - Len(sbuf) IN
  /\ spc = "payload" /\ Len(sbuf) < swant
  /\ \/ /\ up[cur] # <<>>
        /\ sbuf' = sbuf \o Chunk(up[cur], missing)
        /\ up' = [up EXCEPT ![cur] = Rest(@, missing)]
     \/ /\ up[cur] = <<>> /\ ~ ClientOpen(cur)
        /\ \E g \in [1..missing -> Garbage] : sbuf' = sbuf \o g
        /\ UNCHANGED up
  /\ UNCHANGED <<clientVars, spc, cur, swant, spos, sargs, sout, served, down, sEnd, srst, crst, backlog>>

ServerReceived ==
  /\ spc = "payload" /\ Len(sbuf) = swant
  /\ spc' = "method"
  /\ UNCHANGED <<clientVars, cur, serverBuf, sout, served, netVars>>

(* A bare continue: back to accept with fd still open.                     *)
ServerContinue ==
  /\ spc' = "accept"
  /\ UNCHANGED <<clientVars, cur, serverBuf, sout, served, netVars>>

(* No memory for the payload.                                              *)
ServerNoRoom == AllocMayFail /\ spc = "payload" /\ sbuf = <<>> /\ ServerContinue

(* rpc_deserialize_u32(&method_id) and the switch.                         *)
ReadMethod ==
  /\ spc = "method" /\ sbuf # <<>>
  /\ spos' = 2
  /\ spc' = IF sbuf[1] + 1 \in DOMAIN Service THEN "args" ELSE "close"
  /\ UNCHANGED <<clientVars, cur, swant, sbuf, sargs, sout, served, netVars>>

NoMethod == spc = "method" /\ sbuf = <<>> /\ ServerContinue

Method == sbuf[1] + 1
NextType == Params(Method)[Len(sargs) + 1]
MoreArgs == Len(sargs) < Len(Params(Method))

(* One rpc_deserialize_* of a parameter.                                   *)
ReadArg ==
  /\ spc = "args" /\ MoreArgs
  /\ Decodes(NextType, sbuf, spos)
  /\ sargs' = Append(sargs, Decoded(NextType, sbuf, spos))
  /\ spos' = After(NextType, sbuf, spos)
  /\ UNCHANGED <<clientVars, spc, cur, swant, sbuf, sout, served, netVars>>

BadArg ==
  /\ spc = "args" /\ MoreArgs
  /\ ~ Decodes(NextType, sbuf, spos) \/ (AllocMayFail /\ NextType = "string")
  /\ ServerContinue

(* The method runs and its result is serialised into the emptied buffer.   *)
(* A failure to serialise total_len is not noticed; one to serialise the   *)
(* result closes the connection.                                           *)
Execute ==
  /\ spc = "args" /\ ~ MoreArgs
  /\ \E res \in ResultsOf(Service[Method].ret) :
       LET total == <<ServerTotalLen(Method, res)>>
           bytes == EncodeResult(Service[Method].ret, res)
       IN  /\ served' = [served EXCEPT ![cur] =
                Append(@, [req |-> [m |-> Method, args |-> sargs], res |-> res])]
           /\ \/ sout' = total \o bytes /\ spc' = "send"
              \/ AllocMayFail /\ sout' = bytes /\ spc' = "send"
              \/ AllocMayFail /\ sout' = <<>> /\ spc' = "close"
  /\ UNCHANGED <<clientVars, cur, serverBuf, netVars>>

ServerSend ==
  /\ spc = "send" /\ sout # <<>> /\ ~ srst[cur]
  /\ \E k \in 1..Len(sout) :
       /\ sout' = SubSeq(sout, k + 1, Len(sout))
       /\ IF ClientOpen(cur)
            THEN /\ down' = [down EXCEPT ![cur] = @ \o SubSeq(sout, 1, k)]
                 /\ UNCHANGED srst
            ELSE /\ \E b \in BOOLEAN : srst' = [srst EXCEPT ![cur] = b]
                 /\ UNCHANGED down
  /\ UNCHANGED <<clientVars, spc, cur, serverBuf, served, up, sEnd, crst, backlog>>

ServerSentRetry ==                                         \* mutant: a failed send runs the method again
  /\ spc = "send" /\ (sout = <<>> \/ srst[cur])
  /\ spc' = (IF srst[cur] THEN "args" ELSE "close") /\ sout' = <<>>
  /\ UNCHANGED <<clientVars, cur, serverBuf, served, netVars>>
ServerSentTwice ==                                         \* mutant: closes, and goes on to the final close
  /\ spc = "send" /\ (sout = <<>> \/ srst[cur])
  /\ spc' = "close" /\ sout' = <<>>
  /\ sEnd' = [sEnd EXCEPT ![cur] = IF srst[cur] THEN "closed" ELSE @]
  /\ UNCHANGED <<clientVars, cur, serverBuf, served, up, down, srst, crst, backlog>>
(* send_all returned, the count or an error; both end in free and close.   *)
ServerSent ==
  /\ spc = "send" /\ (sout = <<>> \/ srst[cur])
  /\ spc' = "close" /\ sout' = <<>>
  /\ UNCHANGED <<clientVars, cur, serverBuf, served, netVars>>

(* rpc_buffer_free and close(fd).  Closing over unread bytes sends an RST, *)
(* which may overtake a reply not yet delivered.                           *)
ServerCloseLeaks == spc = "close" /\ ServerContinue         \* mutant: no close(fd)
ServerClose ==
  /\ spc = "close"
  /\ spc' = "accept"
  /\ sEnd' = [sEnd EXCEPT ![cur] = "closed"]
  /\ up' = [up EXCEPT ![cur] = <<>>]
  /\ crst' = [crst EXCEPT ![cur] = @ \/ up[cur] # <<>>]
  /\ \/ UNCHANGED down
     \/ up[cur] # <<>> /\ down' = [down EXCEPT ![cur] = <<>>]
  /\ UNCHANGED <<clientVars, cur, serverBuf, sout, served, srst, backlog>>

(* SIGPIPE: the process dies and with it every connection it holds; those  *)
(* never accepted, or with bytes unread, are reset.                        *)
ServerKilled ==
  /\ spc = "send" /\ sout # <<>> /\ srst[cur]
  /\ spc' = "dead"
  /\ sEnd' = [c \in Clients |-> IF ServerOpen(c) THEN "closed" ELSE sEnd[c]]
  /\ crst' = [c \in Clients |-> crst[c] \/ sEnd[c] = "queued"
                                  \/ (sEnd[c] = "open" /\ up[c] # <<>>)]
  /\ up' = [c \in Clients |-> <<>>]
  /\ backlog' = <<>>
  /\ UNCHANGED <<clientVars, cur, serverBuf, sout, served, down, srst>>

-----------------------------------------------------------------------------
(* What the application and its stub do once connected.                    *)
ClientStep(c) ==
  \/ Call(c) \/ Serialize(c) \/ Send(c) \/ SendReturns(c) \/ ClientKilled(c)
  \/ RecvHeader(c) \/ NoRoom(c) \/ RecvPayload(c) \/ Return(c) \/ BadResponse(c)
  \/ Close(c)

ServerStep ==
  \/ Accept \/ ServerRecvHeader \/ ServerRecvPayload \/ ServerReceived
  \/ ServerNoRoom \/ ReadMethod \/ NoMethod \/ ReadArg \/ BadArg \/ Execute
  \/ ServerSend \/ ServerSent \/ ServerClose \/ ServerKilled

Next == \/ Boot \/ ServerStep
        \/ \E c \in Clients : \/ Connect(c) \/ ConnectRefused(c)
                              \/ ClientStep(c) \/ Quit(c)

Spec == Init /\ [][Next]_vars

(* The server never stops looping, and a connected application goes on to  *)
(* its next call or its close; when it connects or quits is its own choice.*)
FairSpec == /\ Spec
            /\ WF_vars(ServerStep)
            /\ \A c \in Clients : WF_vars(ClientStep(c))

-----------------------------------------------------------------------------
(* Properties *)

Calls == [m : DOMAIN Service, args : Seq(Values)]

ClientTypeOK ==
  /\ cpc \in [Clients -> {"start", "ready"} \cup InStub \cup Gone]
  /\ issued \in [Clients -> Seq(Requests)]
  /\ field \in [Clients -> Nat \ {0}]
  /\ cout \in [Clients -> Seq(Nat)]
  /\ cwant \in [Clients -> Nat]
  /\ cbuf \in [Clients -> Seq(Nat)]
  /\ returned \in [Clients -> Seq([req : Requests, res : Values])]

ServerTypeOK ==
  /\ spc \in {"boot", "accept", "dead"} \cup Serving
  /\ cur \in Clients
  /\ swant \in Nat /\ sbuf \in Seq(Nat) /\ spos \in Nat \ {0}
  /\ sargs \in Seq(Values) /\ sout \in Seq(Nat)
  /\ served \in [Clients -> Seq([req : Calls, res : Values])]

NetTypeOK ==
  /\ up \in [Clients -> Seq(Nat)] /\ down \in [Clients -> Seq(Nat)]
  /\ sEnd \in [Clients -> {"none", "queued", "open", "closed"}]
  /\ srst \in [Clients -> BOOLEAN] /\ crst \in [Clients -> BOOLEAN]
  /\ backlog \in Seq(Clients)

(* Every variable holds what its C counterpart can hold.                   *)
TypeOK == ClientTypeOK /\ ServerTypeOK /\ NetTypeOK

InCall(c) == cpc[c] \in InStub

(* What the stubs promise (RpcService): every call executed once, with its *)
(* own arguments, and returning the result computed for it.                *)
ResultsFor(r) == ResultsOf(Service[r.m].ret)
Promise == INSTANCE RpcService WITH called <- issued, executed <- served,
                                    got <- returned, Results <- ResultsFor
KeepsPromise == Promise!Spec

(* Every call a stub makes comes back to the application.                  *)
CallsComplete == \A c \in Clients : InCall(c) ~> (cpc[c] = "ready")

(* Both sides agree on every length: when the server is about to close,    *)
(* and when a stub has returned, nothing that was sent is left unread, so  *)
(* no close turns into a reset that destroys a reply.                      *)
NothingUnread ==
  /\ spc = "close" => up[cur] = <<>>
  /\ \A c \in Clients : cpc[c] = "ready" => down[c] = <<>>

(* The length a reply begins with is the length of what follows it.        *)
ResponseFramed ==
  [][(spc = "args" /\ spc' = "send") => Head(sout') = Len(Tail(sout'))]_vars

(* A server that listens is not killed by writing to a client.             *)
ServerSurvives == [][spc' = "dead" => spc \in {"boot", "dead"}]_vars

(* Whatever fails, a connection gets at most one method executed.          *)
AtMostOnce == \A c \in Clients : Len(served[c]) <= 1

Holds(queue, c)  == \E i \in 1..Len(queue) : queue[i] = c
NoneTwice(queue) == \A i, j \in 1..Len(queue) : queue[i] = queue[j] => i = j

(* Whatever fails, the server reads, writes and closes only a descriptor   *)
(* that accept gave it and that it has not closed, and every connection    *)
(* completed and not accepted is in the backlog exactly once.              *)
FdDiscipline ==
  /\ spc \in Serving => sEnd[cur] = "open"
  /\ \A c \in Clients : sEnd[c] = "queued" <=> Holds(backlog, c)
  /\ NoneTwice(backlog)

(* Clients that go away change no result of those that stay, as long as    *)
(* the server lives: their calls return what it computed for them,         *)
Survivors == Clients \ Quitters
SurvivorsExact ==
  spc # "dead" => \A c \in Survivors : \A i \in DOMAIN returned[c] :
    /\ i \in DOMAIN served[c]
    /\ returned[c][i] = served[c][i] /\ returned[c][i].req = issued[c][i]

(* and their connections are closed.                                       *)
SurvivorsClosed == spc = "accept" => OpenFds \subseteq Quitters

(* Their calls end, unless going away has cost the server its life, by the *)
(* SIGPIPE, or its last descriptor: each of those that have quit can hold  *)
(* one for ever, behind the bare continue of the accept loop.              *)
Leaked == {c \in OpenFds : cpc[c] = "quit" /\ ~ (spc \in Serving /\ cur = c)}
Exhausted == Cardinality(Leaked) = MaxFds
SurvivorsComplete ==
  \A c \in Survivors : InCall(c) ~> (cpc[c] = "ready" \/ spc = "dead" \/ Exhausted)
=============================================================================
