-------------------------------- MODULE RpcParser -------------------------------
(***************************************************************************)
(* parser.c and ast.c: from the tokens of a definition to the tree the     *)
(* code generators read, its validation and its release.  A token is its   *)
(* text; the parser tells words from names and punctuation by its type.    *)
(* Each action takes one token from the lexer.                             *)
(*                                                                         *)
(* Nothing makes the vectors in a service and its methods empty: the call  *)
(* of vector_init is part of a comment.  They are empty when malloc hands  *)
(* out memory that is still zero; when it recycles a block, their first    *)
(* use follows a pointer nobody set (Vector), and what comes of that is    *)
(* not defined.  The module calls it a crash and ends there.               *)
(***************************************************************************)
EXTENDS Naturals, Sequences, SequencesExt, FiniteSets

CONSTANTS Names,        \* identifiers the definitions use
          Sources,      \* token sequences the lexer may deliver, before EOF
          ValidTexts,   \* texts of definitions that must be accepted
          AllocMayFail  \* whether malloc and realloc may return NULL

ASSUME ParserAssumption == AllocMayFail \in BOOLEAN

Keywords == {"service", "rpc", "returns", "void", "int32", "string", "bool"}
Punctuation == {"(", ")", "{", "}", ",", ";"}
Eof == "eof"

(* The type the lexer gives a token tells a name from words and signs.     *)
ASSUME TokensAssumption == /\ \A t \in Sources : t \in Seq(STRING)
                           /\ Names \subseteq STRING \ (Keywords \cup Punctuation \cup {Eof})

VARIABLES
  source,  \* the tokens of the file
  pos,     \* how many of them were taken
  at,      \* where the recursive descent stands
  service, \* the tree so far: [name, methods]
  method,  \* the method being parsed: [name, parameters, return_type]
  type,    \* the type of the parameter being parsed
  heap,    \* live allocations: structs and item blocks of vectors
  lost,    \* structs whose only pointer vector_add refused
  recycled \* vectors in recycled memory: 0 is the service's, n that of its n-th method

tree == <<service, method, type, heap, lost, recycled>>
vars == <<source, pos, at, tree>>

NoMethod  == [name |-> Eof, parameters |-> <<>>, return_type |-> Eof]
NoService == [name |-> Eof, methods |-> <<>>]

Init == /\ source \in Sources
        /\ pos = 0 /\ at = "service"
        /\ service = NoService /\ method = NoMethod /\ type = Eof
        /\ heap = 1 /\ lost = 0
        /\ recycled \in {{}, {0}}

-----------------------------------------------------------------------------
(* The lexer returns EOF at the end, and goes on returning it.             *)
curr_token == IF pos < Len(source) THEN source[pos + 1] ELSE Eof

(* What consume_token and consume_keyword, or a loop head, go on with.     *)
Expects == [service        |-> {"service"},
            service_name   |-> Names,
            open_brace     |-> {"{"},
            methods        |-> {"}", "rpc"},
            method_name    |-> Names,
            open_paren     |-> {"("},
            parameters     |-> {")"} \cup Keywords,
            parameter_name |-> Names,
            separator      |-> {")", ","},
            returns        |-> {"returns"},
            open_type      |-> {"("},
            return_type    |-> Keywords,
            close_type     |-> {")"},
            semicolon      |-> {";"}]

Advance == pos' = pos + 1

Take(here, there) == /\ at = here /\ curr_token \in Expects[here]
                     /\ at' = there
                     /\ Advance
                     /\ UNCHANGED source

SyntaxErrorSkips ==                               \* mutant: steps over a token it does not expect
  /\ at \in DOMAIN Expects /\ curr_token \notin Expects[at]
  /\ pos' = (IF pos < Len(source) THEN pos + 1 ELSE pos)
  /\ UNCHANGED <<source, at, tree>>
SyntaxError == /\ at \in DOMAIN Expects /\ curr_token \notin Expects[at]
               /\ at' = "syntax_error"
               /\ UNCHANGED <<source, pos, tree>>

(* parse_parameter and parse_method allocate before they look at a token.  *)
OutOfMemory == /\ AllocMayFail
               /\ \/ at = "methods" /\ curr_token # "}"
                  \/ at = "parameters" /\ curr_token # ")"
               /\ at' = "out_of_memory"
               /\ UNCHANGED <<source, pos, tree>>

(* vector_add, whose result the parser drops, allocates for the first item *)
(* of a vector; later it reallocates.                                      *)
NewBlock(v) == IF v = <<>> THEN 1 ELSE 0

-----------------------------------------------------------------------------
(* parse_service; the malloc of the service is the one nobody checks.      *)
Service == Take("service", "service_name") /\ UNCHANGED tree

ServiceName ==
  \/ /\ Take("service_name", "open_brace")
     /\ service' = [service EXCEPT !.name = curr_token]
     /\ UNCHANGED <<method, type, heap, lost, recycled>>
  \/ /\ AllocMayFail /\ at = "service_name" /\ at' = "crashed"
     /\ UNCHANGED <<source, pos, tree>>

OpenBrace == Take("open_brace", "methods") /\ UNCHANGED tree

CloseBrace == curr_token = "}" /\ Take("methods", "validate") /\ UNCHANGED tree

(* parse_method                                                            *)
This == Len(service.methods) + 1

Rpc == /\ curr_token = "rpc" /\ Take("methods", "method_name")
       /\ method' = NoMethod
       /\ heap' = heap + 1
       /\ recycled' \in {recycled, recycled \cup {This}}
       /\ UNCHANGED <<service, type, lost>>

MethodName == /\ Take("method_name", "open_paren")
              /\ method' = [method EXCEPT !.name = curr_token]
              /\ UNCHANGED <<service, type, heap, lost, recycled>>

OpenParen == Take("open_paren", "parameters") /\ UNCHANGED tree

(* parse_parameters: a comma may also stand before the parenthesis.        *)
CloseParen == /\ curr_token = ")"
              /\ Take("parameters", "returns") \/ Take("separator", "returns")
              /\ UNCHANGED tree

ParameterType == /\ curr_token # ")" /\ Take("parameters", "parameter_name")
                 /\ type' = curr_token
                 /\ heap' = heap + 1
                 /\ UNCHANGED <<service, method, lost, recycled>>

ParameterName ==
  /\ Take("parameter_name", "separator")
  /\ This \notin recycled
  /\ LET parameter == [type |-> type, name |-> curr_token]
     IN  \/ /\ method' = [method EXCEPT !.parameters = Append(@, parameter)]
            /\ heap' = heap + NewBlock(method.parameters)
            /\ UNCHANGED lost
         \/ /\ AllocMayFail
            /\ lost' = lost + 1
            /\ UNCHANGED <<method, heap>>
  /\ UNCHANGED <<service, type, recycled>>

Comma == curr_token = "," /\ Take("separator", "parameters") /\ UNCHANGED tree

Returns   == Take("returns", "open_type") /\ UNCHANGED tree
OpenType  == Take("open_type", "return_type") /\ UNCHANGED tree
CloseType == Take("close_type", "semicolon") /\ UNCHANGED tree

ReturnType == /\ Take("return_type", "close_type")
              /\ method' = [method EXCEPT !.return_type = curr_token]
              /\ UNCHANGED <<service, type, heap, lost, recycled>>

(* free_method and free_service: the pointers they free.                   *)
OwnedBare(m) == 1 + Len(m.parameters)             \* mutant: the parameters' block is not freed
Owned(m) == 1 + Len(m.parameters) + (1 - NewBlock(m.parameters))

OwnedUpTo(methods) ==
  LET sum[n \in 0..Len(methods)] == IF n = 0 THEN 0 ELSE sum[n - 1] + Owned(methods[n])
  IN  sum
Reachable == 1 + (1 - NewBlock(service.methods)) + OwnedUpTo(service.methods)[Len(service.methods)]

Semicolon ==
  /\ Take("semicolon", "methods")
  /\ 0 \notin recycled
  /\ \/ /\ service' = [service EXCEPT !.methods = Append(@, method)]
        /\ heap' = heap + NewBlock(service.methods)
        /\ UNCHANGED <<lost, recycled>>
     \/ /\ AllocMayFail
        /\ lost' = lost + Owned(method)
        /\ recycled' = recycled \ {This}
        /\ UNCHANGED <<service, heap>>
  /\ UNCHANGED <<method, type>>

-----------------------------------------------------------------------------
(* validate_service: i < total - 1, in size_t, and then every later j.     *)
DuplicatesAdjacent ==                             \* mutant: compares neighbours only
  \E i \in 1..Len(service.methods) - 1 :
    service.methods[i].name = service.methods[i + 1].name
DuplicatesSelf ==                                 \* mutant: the inner loop starts at i
  \E i, j \in DOMAIN service.methods :
    i <= j /\ service.methods[i].name = service.methods[j].name
Duplicates ==
  \E i, j \in DOMAIN service.methods :
    i < j /\ service.methods[i].name = service.methods[j].name

(* Without methods the loop runs up to SIZE_MAX from items[0], and items   *)
(* is NULL.                                                                *)
Validate ==
  /\ at = "validate"
  /\ CASE service.methods = <<>> -> at' = "crashed" /\ UNCHANGED heap
       [] Duplicates -> /\ at' = "rejected" /\ heap' = heap - Reachable
                        /\ recycled = {}
       [] OTHER -> at' = "accepted" /\ UNCHANGED heap
  /\ UNCHANGED <<source, pos, service, method, type, lost, recycled>>

(* At the end of generate_files.                                           *)
Release == /\ at = "accepted" /\ at' = "released"
           /\ recycled = {}
           /\ heap' = heap - Reachable
           /\ UNCHANGED <<source, pos, service, method, type, lost, recycled>>

(* The uses of a vector in recycled memory: vector_add, the generators,    *)
(* which read every parameter, and free_service.                           *)
UseRecycled ==
  /\ \/ at = "parameter_name" /\ curr_token \in Names /\ This \in recycled
     \/ at = "semicolon" /\ curr_token = ";" /\ 0 \in recycled
     \/ at = "validate" /\ Duplicates /\ recycled # {}
     \/ at = "accepted" /\ recycled # {}
  /\ at' = "crashed"
  /\ UNCHANGED <<source, pos, tree>>

Next == \/ Service \/ ServiceName \/ OpenBrace \/ CloseBrace
        \/ Rpc \/ MethodName \/ OpenParen \/ CloseParen
        \/ ParameterType \/ ParameterName \/ Comma
        \/ Returns \/ OpenType \/ ReturnType \/ CloseType \/ Semicolon
        \/ SyntaxError \/ OutOfMemory \/ UseRecycled \/ Validate \/ Release

Spec == Init /\ [][Next]_vars /\ WF_vars(Next)

-----------------------------------------------------------------------------
(* Properties *)

Verdicts == {"syntax_error", "out_of_memory", "crashed", "rejected", "released"}

(* The text a tree stands for.                                             *)
ParametersText(ps) ==
  FlattenSeq([i \in DOMAIN ps |->
    (IF i = 1 THEN <<>> ELSE <<",">>) \o <<ps[i].type, ps[i].name>>])
MethodText(m) == <<"rpc", m.name, "(">> \o ParametersText(m.parameters)
                   \o <<")", "returns", "(", m.return_type, ")", ";">>
Text(s) == <<"service", s.name, "{">> \o FlattenSeq([i \in DOMAIN s.methods |-> MethodText(s.methods[i])])
             \o <<"}">>

(* Without the commas a parameter list may end with.                       *)
Plain(tokens) ==
  FlattenSeq([i \in DOMAIN tokens |->
    IF i < Len(tokens) /\ tokens[i] = "," /\ tokens[i + 1] = ")" THEN <<>> ELSE <<tokens[i]>>])

(* What is accepted is what was written: the tree has every method and     *)
(* parameter of the text, in order, and nothing else, unless vector_add    *)
(* refused one or a parameter list lies in recycled memory; no two of its  *)
(* methods have one name.                                                  *)
ParsesExactly ==
  at = "accepted" /\ recycled = {} =>
    /\ lost = 0 <=> Text(service) = Plain(SubSeq(source, 1, pos))
    /\ \A i, j \in DOMAIN service.methods :
         service.methods[i].name = service.methods[j].name => i = j

(* The services a user may write, all of whose tokens the lexer names, in  *)
(* the form of test.rpc, whose return types stand in parentheses, and the  *)
(* valid ones: those whose methods have distinct names.                    *)
Parameter  == [type : Keywords, name : Names]
FullMethod == [name : Names, parameters : Seq(Parameter), return_type : Keywords]
Services   == [name : Names, methods : Seq(FullMethod)]
Valid(s) == \A i, j \in DOMAIN s.methods : s.methods[i].name = s.methods[j].name => i = j

(* The ways a valid definition is known to crash the program: the first    *)
(* malloc refused, which nobody checks; a service without methods, or one  *)
(* that may have lost them all to vector_add; and recycled memory.         *)
Methodless == Len(source) > 3 /\ source[4] = "}"
CrashKnown == pos <= 1 \/ Methodless \/ lost # 0 \/ recycled # {}

(* A file that starts with a valid definition, up to a closing brace,      *)
(* meets no error message, and no crash but the known ones.                *)
RejectsOnlyInvalid ==
  (at \in {"syntax_error", "rejected"} \/ (at = "crashed" /\ ~ CrashKnown)) =>
    \A n \in DOMAIN source : source[n] = "}" => SubSeq(source, 1, n) \notin ValidTexts

(* The definition README.md shows in its four walk-throughs, as "the RPC   *)
(* definition file" the compiler processes, is no syntax error.  It is:    *)
(* parse_method wants the return type in parentheses.                      *)
IsPrimeText == <<"service", "MathService", "{", "rpc", "isPrime", "(", "int32", "num", ")",
                 "returns", "bool", ";", "}">>
DocumentedAccepted == source = IsPrimeText => at # "syntax_error"

(* Once the service is released, only what vector_add refused is left.     *)
ReleasesAll == at \in {"rejected", "released"} => heap = lost

(* Every loop of the parser ends, at the latest at the end of the file.    *)
ParserTerminates == <>(at \in Verdicts)
=============================================================================
