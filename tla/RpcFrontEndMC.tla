----------------------------- MODULE RpcFrontEndMC -----------------------------
(* The generator's front end in one run: the lexer over every short file,  *)
(* the parser over every definition to parse, and the vector behind the    *)
(* parser's tree over every order of its calls.  They share no state, and  *)
(* each module is checked on its own: at most one of the three starts with *)
(* more than the smallest input, and the others end before it begins.      *)
EXTENDS RpcLexerMC, RpcParserMC, VectorMC

EmptyFile   == file = <<Nul>> /\ behind = <<>>
EmptySource == source = <<>> /\ recycled = {}
ZeroVector  == capacity = 0 /\ total = 0

FrontEndInit ==
  \/ Init /\ EmptySource /\ VectorInit /\ ZeroVector /\ LexerInit
  \/ LexerInit /\ EmptyFile /\ VectorInit /\ ZeroVector /\ Init
  \/ LexerInit /\ EmptyFile /\ Init /\ EmptySource /\ VectorInit

Lex     == LexerNext /\ UNCHANGED <<vars, vectorVars>>
Parse   == loop = "done" /\ Next /\ UNCHANGED <<lexerVars, vectorVars>>
Collect == /\ EmptyFile /\ EmptySource /\ at \in Verdicts
           /\ VectorNext
           /\ UNCHANGED <<lexerVars, vars>>

FrontEndNext == Lex \/ Parse \/ Collect

frontEndVars == <<lexerVars, vars, vectorVars>>

FrontEndSpec == /\ FrontEndInit /\ [][FrontEndNext]_frontEndVars
                /\ WF_frontEndVars(Lex) /\ WF_frontEndVars(Parse)
=============================================================================
