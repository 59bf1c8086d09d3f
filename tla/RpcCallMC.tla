------------------------------- MODULE RpcCallMC -------------------------------
(* Services and calls for the runs of RpcCall.                             *)
EXTENDS RpcCall

(* rpc/test.rpc: sayHello(string) returns (string), squareNum(int32)       *)
(* returns (int32).                                                        *)
TestRpc == << [params |-> <<"string">>, ret |-> "string"],
              [params |-> <<"int32">>, ret |-> "int32"] >>
TestCalls == { [m |-> 1, args |-> << <<>> >>],
               [m |-> 1, args |-> << <<7, 8>> >>],
               [m |-> 2, args |-> << <<3>> >>] }

(* add(int32, int32): its total_len counts two words for a one-word result.*)
(* One method, so that garbage can name it (0) or nothing (1).             *)
Add      == << [params |-> <<"int32", "int32">>, ret |-> "int32"] >>
TwoWords == { [m |-> 1, args |-> << <<1>>, <<2>> >>] }

(* A string and a bool result behind three shapes of parameter list.       *)
Mixed == << [params |-> <<"int32", "bool">>, ret |-> "bool"],
            [params |-> <<"string">>, ret |-> "string"] >>
MixedCalls == { [m |-> 1, args |-> << <<1>>, <<0>> >>],
                [m |-> 2, args |-> << <<1>> >>] }

Words   == {4, 5}
OneWord == {5}
Replies == { <<>>, <<9, 9>> }
=============================================================================
