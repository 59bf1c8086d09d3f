------------------------------- MODULE RpcWireMC --------------------------------
(* Requests on bytes of two bits: words are below 256.                     *)
EXTENDS RpcWire

Value(t, v) == [type |-> t, value |-> v]

Ints    == {Value("int32", v) : v \in {-128, -3, 127}}
Strings == {Value("string", s) : s \in {<<>>, <<3>>, <<1, 2>>}}
Flags   == {Value("bool", b) : b \in BOOLEAN}

(* Every pair of an integer and a string in both orders, and what is       *)
(* smaller; a bool alone and in front of an integer.                       *)
SomeRequests == {<<>>} \cup {<<a>> : a \in Ints \cup Strings \cup Flags}
                  \cup {<<a, b>> : a \in Ints, b \in Strings}
                  \cup {<<b, a>> : a \in Ints, b \in Strings}
                  \cup {<<b, a>> : a \in Ints, b \in Flags}
=============================================================================
