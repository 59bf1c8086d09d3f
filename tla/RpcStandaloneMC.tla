----------------------------- MODULE RpcStandaloneMC ----------------------------
(* In one run, two parts of the repository that share no state with        *)
(* anything: one RpcBuffer in the hands of whoever calls its functions,    *)
(* and the hand-written is_prime programs.  The buffer is only used while  *)
(* those do not run.                                                       *)
EXTENDS RpcBufferMC, IsPrimeRpcMC

StandaloneInit == Init /\ PrimeInit

(* The prototype when its server has not come up and nobody has tried it.  *)
Down == /\ spc = "exited" /\ \A c \in Clients : cpc[c] = "start" /\ num[c] = 25
        /\ buffer = [i \in 1..Word |-> 0]

UseBuffer == Down /\ Next /\ UNCHANGED primeVars
Prototype == Init /\ PrimeNext /\ UNCHANGED vars

StandaloneNext == UseBuffer \/ Prototype

standaloneVars == <<vars, primeVars>>

(* The fairness of RpcBuffer and of IsPrimeRpc.                            *)
StandaloneSpec ==
  /\ StandaloneInit /\ [][StandaloneNext]_standaloneVars
  /\ WF_standaloneVars(Grow /\ UNCHANGED primeVars)
  /\ WF_standaloneVars(ServerStep /\ UNCHANGED vars)
  /\ \A c \in Clients : WF_standaloneVars(ClientStep(c) /\ UNCHANGED vars)
=============================================================================
