------------------------------- MODULE RpcParserMC ------------------------------
(* Definitions to parse, whole and damaged.                                *)
EXTENDS RpcParser

UpTo(S, n) == UNION {[1..k -> S] : k \in 0..n}

Parameters(types) == [type : types, name : {"x", "y"}]
Methods(types, n) ==
  [name : {"x", "y"}, parameters : UpTo(Parameters(types), n), return_type : types]

(* Two methods with up to two parameters, and three without any.           *)
Wide == [name : {"x"}, methods : UpTo(Methods({"int32", "string"}, 2), 1)]
          \cup [name : {"y"}, methods : UpTo(Methods({"bool", "void"}, 1), 2)]
          \cup [name : {"x"}, methods : UpTo(Methods({"void"}, 0), 3)]

WideTexts  == {Text(s) : s \in Wide}
WideValid  == {Text(s) : s \in {d \in Wide : Valid(d)}}

(* Among the services RpcParserProofs is about.                            *)
ASSUME WideAssumption == \A s \in Wide : s \in Services

(* One token too many, one too few, one wrong, or cut short.               *)
Tokens == Keywords \cup {"x", "(", ")", "{", "}", ",", ";", "1"}
Damaged(t) ==
  {SubSeq(t, 1, i) : i \in 0..Len(t)}
    \cup {RemoveAt(t, i) : i \in DOMAIN t}
    \cup {ReplaceAt(t, i, k) : i \in DOMAIN t, k \in Tokens}
    \cup {InsertAt(t, i, k) : i \in DOMAIN t, k \in Tokens}

Small == [name : {"x"},
          methods : UpTo([name : {"x"}, parameters : UpTo(Parameters({"int32"}), 2),
                          return_type : {"void"}], 1)]
SmallTexts == {Text(s) : s \in Small}

(* The definition of README.md alone.                                      *)
ReadmeSources == {IsPrimeText}

AllSources == WideTexts \cup UNION {Damaged(t) : t \in SmallTexts}
=============================================================================
