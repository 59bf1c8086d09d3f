------------------------------- MODULE RpcLexerMC -------------------------------
(* Every file of up to five characters, over one character of each kind    *)
(* and two letters, which make the only keyword; behind the buffer a NUL,  *)
(* or a letter and a NUL.                                                  *)
EXTENDS RpcLexer

CONSTANT MaxFile

Alphabet == {"i", "f", "1", "/", "(", Blank, Newline, Nul}
ShortFiles == UNION {[1..n -> Alphabet] : n \in 1..MaxFile}

Keyword == {<<"i", "f">>}
Memory == {<<>>, <<"f">>}
=============================================================================
