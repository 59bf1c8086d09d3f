------------------------------- MODULE IsPrimeRpc -------------------------------
(***************************************************************************)
(* The hand-written prototype: is_prime.c behind is_prime_rpc_server.c,    *)
(* and is_prime_rpc_client.c with its caller.  get_socket in the client    *)
(* returns the undeclared name sock_fd and is read as returning sockfd.    *)
(***************************************************************************)
EXTENDS Words, FiniteSets

CONSTANTS Clients,    \* client programs, each asking once
          NoConnection, \* the server's new_fd between two connections
          Numbers,    \* what their users may enter
          Garbage,    \* what an uninitialised int may hold, as bytes
          Order,      \* byte order of the machines
          MaxFds,     \* descriptors the server may hold for connections
          Pieces,     \* TRUE if TCP may deliver the four bytes in pieces
          ClientsDie, \* TRUE if a connected client may die
          NetworkFails \* TRUE if a connection may fail under the server

ASSUME NoConnectionAssumption == NoConnection \notin Clients

(* What scanf stores in an int, on a machine of one order or the other.    *)
ASSUME InputAssumption == /\ Numbers \subseteq -(U32 \div 2)..(U32 \div 2) - 1
                          /\ Order \in Orders

VARIABLES
  spc, new_fd, buffer, \* the server: where it is, its connection and its int
  open,     \* connections whose descriptor it holds
  backlog,  \* connections waiting to be accepted
  cpc, num, \* each client: where it is, and its number
  up,       \* bytes the client sent that the server has not read
  heard,    \* how many it has read
  down,     \* the answer sent to the client
  reset,    \* whether the connection has failed or was closed over unread bytes
  result    \* what is_prime_rpc returned

clientVars == <<cpc, num, result>>
primeVars == <<spc, new_fd, buffer, open, backlog, up, heard, down, reset, clientVars>>

PrimeInit == /\ spc = "boot" /\ new_fd = NoConnection /\ buffer \in Garbage
             /\ open = {} /\ backlog = <<>>
             /\ cpc = [c \in Clients |-> "start"] /\ num \in [Clients -> Numbers]
             /\ up = [c \in Clients |-> <<>>] /\ heard = [c \in Clients |-> 0]
             /\ down = [c \in Clients |-> <<>>] /\ reset = [c \in Clients |-> FALSE]
             /\ result = [c \in Clients |-> <<>>]

-----------------------------------------------------------------------------
(* is_prime, in int: products and sums wrap, as an unoptimised build does. *)
Wrapped(v) == Signed(Bits(v))
Divides(d, n) == n % (IF d < 0 THEN -d ELSE d) = 0

PastRootEarly(i, n) == Wrapped(i * i) >= n         \* mutant: i * i < num
PastRoot(i, n) == Wrapped(i * i) > n

is_prime(n) ==
  LET NoDivisorFrom[i \in Int] ==
        \/ PastRoot(i, n)
        \/ /\ ~Divides(i, n) /\ ~Divides(Wrapped(i + 2), n)
           /\ NoDivisorFrom[Wrapped(i + 6)]
  IN  \/ n \in {2, 3}
      \/ n # 1 /\ ~Divides(2, n) /\ ~Divides(3, n) /\ NoDivisorFrom[5]

pack(n) == htonl(Bits(n), Order)
unpackNot(v) == v                                  \* mutant: no ntohl
unpack(v) == ntohl(v, Order)

-----------------------------------------------------------------------------
(* The client *)

Listening == spc \notin {"boot", "exited"}

Connect(c) == /\ cpc[c] = "start" /\ Listening
              /\ cpc' = [cpc EXCEPT ![c] = "send"]
              /\ backlog' = Append(backlog, c)
              /\ UNCHANGED <<spc, new_fd, buffer, open, up, heard, down, reset, num, result>>

ConnectFails(c) == /\ cpc[c] = "start" /\ ~Listening
                   /\ cpc' = [cpc EXCEPT ![c] = "exit"]
                   /\ UNCHANGED <<spc, new_fd, buffer, open, backlog, up, heard, down, reset,
                                  num, result>>

Send(c) == /\ cpc[c] = "send"
           /\ cpc' = [cpc EXCEPT ![c] = "recv"]
           /\ up' = [up EXCEPT ![c] = InMemory(pack(num[c]), Order)]
           /\ UNCHANGED <<spc, new_fd, buffer, open, backlog, heard, down, reset, num, result>>

(* recv of one byte into an int: the other three keep what they held, so   *)
(* only a byte of 1 settles what buf[0] converts to.                       *)
ConvertedLast(byte) == BOOLEAN             \* mutant: looks at a byte that was not received
Converted(byte) == {byte \/ rest : rest \in BOOLEAN}

Returned(c, value) == /\ cpc' = [cpc EXCEPT ![c] = "done"]
                      /\ result' = [result EXCEPT ![c] = <<value>>]
                      /\ UNCHANGED <<spc, new_fd, buffer, open, backlog, up, heard, down,
                                     reset, num>>

Recv(c) == /\ cpc[c] = "recv" /\ down[c] # <<>>
           /\ \E value \in Converted(Head(down[c])) : Returned(c, value)

RecvFails(c) == /\ cpc[c] = "recv" /\ reset[c]
                /\ cpc' = [cpc EXCEPT ![c] = "exit"]
                /\ UNCHANGED <<spc, new_fd, buffer, open, backlog, up, heard, down, reset,
                               num, result>>

(* external: the death of a client's process                               *)
Quit(c) == /\ ClientsDie /\ cpc[c] \in {"send", "recv"}
           /\ cpc' = [cpc EXCEPT ![c] = "quit"]
           /\ UNCHANGED <<spc, new_fd, buffer, open, backlog, up, heard, down, reset, num, result>>

-----------------------------------------------------------------------------
(* The server *)

Boot == /\ spc = "boot"
        /\ spc' \in {"accept", "exited"}
        /\ UNCHANGED <<new_fd, buffer, open, backlog, up, heard, down, reset, clientVars>>

(* With no descriptor left accept fails and the loop comes back to it.     *)
(* The int of the loop's body is not initialised: it may hold anything,    *)
(* what the iteration before left in it included.                          *)
Accept == /\ spc = "accept" /\ backlog # <<>> /\ Cardinality(open) < MaxFds
          /\ spc' = "recv" /\ new_fd' = Head(backlog) /\ backlog' = Tail(backlog)
          /\ open' = open \cup {new_fd'}
          /\ buffer' \in Garbage \cup {buffer}
          /\ UNCHANGED <<up, heard, down, reset, clientVars>>

(* recv leaves the bytes of buffer behind those it received as they were.  *)
Filled(n) == SubSeq(up[new_fd], 1, n) \o SubSeq(buffer, n + 1, Word)

RecvNumber == /\ spc = "recv" /\ up[new_fd] # <<>>
              /\ \E n \in IF Pieces THEN 1..Len(up[new_fd]) ELSE {Len(up[new_fd])} :
                   /\ buffer' = Filled(n)
                   /\ up' = [up EXCEPT ![new_fd] = SubSeq(@, n + 1, Len(@))]
                   /\ heard' = [heard EXCEPT ![new_fd] = n]
              /\ spc' = "send"
              /\ UNCHANGED <<new_fd, open, backlog, down, reset, clientVars>>

RecvEnd == /\ spc = "recv" /\ up[new_fd] = <<>> /\ cpc[new_fd] = "quit"
           /\ spc' = "send"
           /\ UNCHANGED <<new_fd, buffer, open, backlog, up, heard, down, reset, clientVars>>

(* recv returns -1: continue, with new_fd still open                       *)
RecvError == /\ NetworkFails /\ spc = "recv"
             /\ spc' = "accept" /\ new_fd' = NoConnection
             /\ UNCHANGED <<buffer, open, backlog, up, heard, down, reset, clientVars>>

(* One byte, which the socket buffer always takes.                         *)
Answer == /\ spc = "send"
          /\ down' = [down EXCEPT
               ![new_fd] = <<is_prime(Signed(unpack(FromMemory(buffer, Order))))>>]
          /\ spc' = "close"
          /\ UNCHANGED <<new_fd, buffer, open, backlog, up, heard, reset, clientVars>>

(* send returns -1 on a connection that has failed, which its client finds *)
(* out too; the server only says so, and closes.                           *)
AnswerFails == /\ NetworkFails /\ spc = "send"
               /\ spc' = "close"
               /\ reset' = [reset EXCEPT ![new_fd] = TRUE]
               /\ UNCHANGED <<new_fd, buffer, open, backlog, up, heard, down, clientVars>>

KeptOpen == open                                   \* mutant: no close
StillOpen == open \ {new_fd}

Close == /\ spc = "close"
         /\ spc' = "accept" /\ new_fd' = NoConnection
         /\ open' = StillOpen
         /\ reset' = [reset EXCEPT ![new_fd] = @ \/ up[new_fd] # <<>>]
         /\ UNCHANGED <<buffer, backlog, up, heard, down, clientVars>>

ClientStep(c) == Send(c) \/ Recv(c) \/ RecvFails(c)
ServerStep == Accept \/ RecvNumber \/ RecvEnd \/ Answer \/ Close

PrimeNext == \/ Boot \/ ServerStep \/ RecvError \/ AnswerFails
             \/ \E c \in Clients : Connect(c) \/ ConnectFails(c) \/ ClientStep(c) \/ Quit(c)

PrimeSpec == PrimeInit /\ [][PrimeNext]_primeVars
PrimeFairSpec ==
  PrimeSpec /\ WF_primeVars(ServerStep) /\ \A c \in Clients : WF_primeVars(ClientStep(c))

-----------------------------------------------------------------------------
(* Properties *)

Prime(n) == n > 1 /\ \A d \in 2..n - 1 : n % d # 0

(* A client whose number arrived whole is sent whether that number is      *)
(* prime: not another client's, not one with its bytes in another order.   *)
AnswersAsked == \A c \in Clients :
  heard[c] = Word /\ down[c] # <<>> => down[c] = <<Prime(num[c])>>

(* Connections whose number could not be received: the loop goes on        *)
(* without closing them.                                                   *)
Abandoned == {c \in open : c # new_fd /\ down[c] = <<>>}

(* Between two connections the server holds no other descriptor, although  *)
(* clients die at any point of the exchange.                               *)
AllClosed == spc = "accept" => open = Abandoned

(* A client that asked gets out of recv unless it dies or is abandoned, or *)
(* those abandoned hold every descriptor: the server goes through every    *)
(* connection before it, dead ones included.                               *)
SurvivorsReturn ==
  \A c \in Clients : cpc[c] = "recv" ~>
    \/ cpc[c] # "recv"
    \/ c \in Abandoned \/ Cardinality(Abandoned) = MaxFds

(* Whatever the bytes recv leaves uninitialised, a caller is never told    *)
(* that a prime is none.                                                   *)
PrimesConfirmed == \A c \in Clients :
  cpc[c] = "done" /\ heard[c] = Word /\ Prime(num[c]) => result[c] = <<TRUE>>

(* The server that comes up calls no composite int prime; it knows every   *)
(* prime below the square of an i its loop takes and int can hold (46337   *)
(* where int has 32 bits, 11 where it has 8); and it denies that the       *)
(* largest int is prime, where it is, as 2147483647 and 127 are: i * i     *)
(* never gets past it, and the loop goes on until it finds num itself.     *)
Largest == U32 \div 2 - 1
DecidesBelowSquare ==
  spc = "boot" =>
    /\ \A n \in 0..Largest : is_prime(n) => Prime(n)
    /\ \A i \in 5..Largest : i % 6 = 5 /\ i * i <= Largest =>
         \A n \in 0..i * i - 1 : Prime(n) => is_prime(n)
    /\ Prime(Largest) => ~ is_prime(Largest)
=============================================================================
