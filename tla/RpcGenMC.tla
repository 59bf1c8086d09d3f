-------------------------------- MODULE RpcGenMC --------------------------------
(* Command lines: every one of up to three arguments over one definition,  *)
(* and each other definition with each choice of side and directory.       *)
EXTENDS RpcGen

Words == Flags \cup {"ok.rpc", "gen"}
ShortLines == UNION {[1..n -> Words] : n \in 0..3}
Inputs == {"other.rpc", "types.rpc", "twice.rpc", "broken.rpc", "empty.rpc", "missing.rpc"}
Lines ==
  ShortLines
    \cup {o \o <<i>> : i \in Inputs, o \in {<<>>, <<"--server">>, <<"--ast">>, <<"-o", "gen">>}}
    \cup {<<"-o", d, s, "ok.rpc">> : d \in {"gen", "deep/gen"}, s \in {"--server", "--client"}}

OutcomeOf ==
  [i \in Inputs \cup {"ok.rpc", "gen", "deep/gen"} |->
    CASE i \in {"ok.rpc", "other.rpc"} -> "valid"
      [] i = "types.rpc"  -> "unsupported"
      [] i = "twice.rpc"  -> "duplicate"
      [] i = "broken.rpc" -> "syntax"
      [] i = "empty.rpc"  -> "empty"
      [] OTHER -> "unreadable"]
=============================================================================
