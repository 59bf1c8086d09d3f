-------------------------------- MODULE RpcLexer --------------------------------
(***************************************************************************)
(* lexer.c over the buffer read_whole_file_in_buffer returns: from         *)
(* characters to tokens, one loop iteration at a time.  The buffer is as   *)
(* long as the file and ends without a NUL; memory goes on behind it, and  *)
(* the lexer stops at the first NUL it meets there.                        *)
(***************************************************************************)
EXTENDS Naturals, Sequences, FiniteSets

CONSTANTS Letters,   \* what isalpha accepts, and '_'
          Digits,
          Operators, \* the characters that are tokens of their own
          KeywordTexts, \* the words that are keywords, as character sequences
          Files,     \* contents of the source file; an empty one is not lexed
          Behind     \* what may stand behind the buffer, before the next NUL

Blank == " "
Newline == "nl"
Nul == "nul"

VARIABLES
  file, behind, \* the memory the lexer runs over
  index, line,  \* of the lexer
  loop,         \* the loop it is in
  start,        \* where the token being read begins
  tokens        \* the tokens returned: [type, from, to, line]

lexerVars == <<file, behind, index, line, loop, start, tokens>>

LexerInit == /\ file \in Files /\ behind \in Behind
             /\ index = 0 /\ line = 1
             /\ loop = "skip" /\ start = 0
             /\ tokens = <<>>

memory == file \o behind
Char(i) == IF i < Len(memory) THEN memory[i + 1] ELSE Nul

curr_char == Char(index)
peek == IF curr_char = Nul THEN Nul ELSE Char(index + 1)

AdvanceChar == index' = IF curr_char = Nul THEN index ELSE index + 1

-----------------------------------------------------------------------------
(* skip_whitespace_and_comments                                            *)
SkipBlank == /\ loop = "skip" /\ curr_char = Blank
             /\ AdvanceChar
             /\ UNCHANGED <<file, behind, line, loop, start, tokens>>

SkipNewline == /\ loop = "skip" /\ curr_char = Newline
               /\ AdvanceChar
               /\ line' = line + 1
               /\ UNCHANGED <<file, behind, loop, start, tokens>>

OpensComment == curr_char = "/" /\ peek = "/"

EnterComment == /\ loop = "skip" /\ OpensComment
                /\ loop' = "comment"
                /\ UNCHANGED <<file, behind, index, line, start, tokens>>

EndsAtNewline == curr_char = Newline                   \* mutant: a comment only ends with its line
EndsComment == curr_char \in {Newline, Nul}

SkipComment == /\ loop = "comment"
               /\ IF EndsComment THEN loop' = "skip" /\ UNCHANGED index
                                 ELSE UNCHANGED loop /\ AdvanceChar
               /\ UNCHANGED <<file, behind, line, start, tokens>>

-----------------------------------------------------------------------------
(* get_next_token: what remains when skipping is done.                     *)
AtToken == loop = "skip" /\ curr_char \notin {Blank, Newline} /\ ~ OpensComment

Emit(type, from, to) ==
  tokens' = Append(tokens, [type |-> type, from |-> from, to |-> to, line |-> line])

StartWord == /\ AtToken /\ curr_char \in Letters
             /\ loop' = "word" /\ start' = index
             /\ UNCHANGED <<file, behind, index, line, tokens>>

StartNumber == /\ AtToken /\ curr_char \in Digits
               /\ loop' = "number" /\ start' = index
               /\ UNCHANGED <<file, behind, index, line, tokens>>

(* An operator, or a character no token starts with.                       *)
SingleChar ==
  /\ AtToken /\ curr_char \notin Letters \cup Digits \cup {Nul}
  /\ Emit(IF curr_char \in Operators THEN curr_char ELSE "error", index, index + 1)
  /\ AdvanceChar
  /\ UNCHANGED <<file, behind, line, loop, start>>

EndOfFile == /\ AtToken /\ curr_char = Nul
             /\ loop' = "done"
             /\ Emit("eof", index, index)
             /\ UNCHANGED <<file, behind, index, line, start>>

(* read_identifier_or_keyword: is_keyword compares length and characters.  *)
is_keyword_prefix(from, to) ==                         \* mutant: strncmp without the length
  \E k \in KeywordTexts : to - from >= Len(k) /\ SubSeq(memory, from + 1, from + Len(k)) = k
is_keyword(from, to) == SubSeq(memory, from + 1, to) \in KeywordTexts

WordChars == Letters \cup Digits

ReadWord ==
  /\ loop = "word"
  /\ IF curr_char \in WordChars
       THEN AdvanceChar /\ UNCHANGED <<loop, tokens>>
       ELSE /\ loop' = "skip"
            /\ Emit(IF is_keyword(start, index) THEN "keyword" ELSE "identifier", start, index)
            /\ UNCHANGED index
  /\ UNCHANGED <<file, behind, line, start>>

(* read_number                                                             *)
ReadNumber ==
  /\ loop = "number"
  /\ IF curr_char \in Digits
       THEN AdvanceChar /\ UNCHANGED <<loop, tokens>>
       ELSE /\ loop' = "skip"
            /\ Emit("number", start, index)
            /\ UNCHANGED index
  /\ UNCHANGED <<file, behind, line, start>>

LexerNext == \/ SkipBlank \/ SkipNewline \/ EnterComment \/ SkipComment
             \/ StartWord \/ StartNumber \/ SingleChar \/ EndOfFile
             \/ ReadWord \/ ReadNumber

LexerSpec == LexerInit /\ [][LexerNext]_lexerVars /\ WF_lexerVars(LexerNext)

-----------------------------------------------------------------------------
(* Properties *)

(* The characters up to the first NUL, in the file or behind it.           *)
Size == CHOOSE n \in 0..Len(memory) : Char(n) = Nul /\ \A i \in 0..n - 1 : Char(i) # Nul

(* What a text is made of, without a lexer: i lies in a comment when a //  *)
(* is on its line before it; a word or number is a longest run of its      *)
(* characters, a number ending where a letter follows.                     *)
Line(i) == 1 + Cardinality({j \in 0..i - 1 : Char(j) = Newline})
InComment(i) == \E s \in 0..i : /\ s + 1 < Size /\ Char(s) = "/" /\ Char(s + 1) = "/"
                               /\ \A j \in s..i : Char(j) # Newline
All(S, i, j) == \A k \in i..j - 1 : Char(k) \in S
RunsFrom(i, j) == i < j /\ ~ InComment(i) /\ All(WordChars, i, j)

IsNumber(i, j) ==
  RunsFrom(i, j) /\ All(Digits, i, j) /\ Char(j) \notin Digits
    /\ (i > 0 => Char(i - 1) \notin WordChars)
IsWord(i, j) ==
  /\ RunsFrom(i, j) /\ Char(i) \in Letters /\ Char(j) \notin WordChars
  /\ \A b \in 0..i - 1 : RunsFrom(b, i) => All(Digits, b, i)
IsSingle(i) == i < Size /\ ~ InComment(i) /\ Char(i) \notin WordChars \cup {Blank, Newline}

Tok(type, i, j) == [type |-> type, from |-> i, to |-> j, line |-> Line(i)]

ExpectedTokens ==
  LET spans == (0..Size) \X (0..Size)
  IN  {Tok(IF SubSeq(memory, s[1] + 1, s[2]) \in KeywordTexts THEN "keyword" ELSE "identifier",
           s[1], s[2]) : s \in {t \in spans : IsWord(t[1], t[2])}}
        \cup {Tok("number", s[1], s[2]) : s \in {t \in spans : IsNumber(t[1], t[2])}}
        \cup {Tok(IF Char(i) \in Operators THEN Char(i) ELSE "error", i, i + 1) :
                i \in {k \in 0..Size : IsSingle(k)}}
        \cup {Tok("eof", Size, Size)}

(* The tokens returned are those of the text up to the first NUL, each     *)
(* once, in order, with the lines they stand on.  No NUL ends the buffer,  *)
(* so that text is the file and what happens to lie behind it.             *)
TokensExact ==
  loop = "done" => /\ {tokens[i] : i \in DOMAIN tokens} = ExpectedTokens
                 /\ \A i \in 1..Len(tokens) - 1 : tokens[i].to <= tokens[i + 1].from

(* Every file is lexed to its end.                                         *)
LexerTerminates == <>(loop = "done")
=============================================================================
