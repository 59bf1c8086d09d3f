------------------------------ MODULE RpcService ------------------------------
(***************************************************************************)
(* What a generated stub promises its caller: each call is executed by the *)
(* server exactly once, with the arguments of that call, before it         *)
(* returns, and returns what the server's method computed for it.          *)
(***************************************************************************)
EXTENDS Naturals, Sequences

CONSTANTS Clients,      \* application processes holding a stub
          Requests,     \* [m |-> method, args |-> its arguments]
          Results(_)    \* the values a request's method may return

VARIABLES called,       \* per client, the requests it has called
          executed,     \* per client, [req, res] of the calls the server executed
          got           \* per client, [req, res] of the calls that returned

vars == <<called, executed, got>>

Init == /\ called = [c \in Clients |-> <<>>]
        /\ executed = [c \in Clients |-> <<>>]
        /\ got = [c \in Clients |-> <<>>]

(* A client has one call in progress at a time.                            *)
Call(c, r) ==
  /\ Len(called[c]) = Len(got[c])
  /\ called' = [called EXCEPT ![c] = Append(@, r)]
  /\ UNCHANGED <<executed, got>>

Execute(c) ==
  /\ Len(executed[c]) < Len(called[c])
  /\ LET r == called[c][Len(called[c])] IN
     \E v \in Results(r) :
       executed' = [executed EXCEPT ![c] = Append(@, [req |-> r, res |-> v])]
  /\ UNCHANGED <<called, got>>

Return(c) ==
  /\ Len(got[c]) < Len(executed[c])
  /\ got' = [got EXCEPT ![c] = Append(@, executed[c][Len(executed[c])])]
  /\ UNCHANGED <<called, executed>>

Next == \E c \in Clients : \/ \E r \in Requests : Call(c, r)
                           \/ Execute(c)
                           \/ Return(c)

Spec == Init /\ [][Next]_vars
=============================================================================
