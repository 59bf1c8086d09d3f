------------------------------- MODULE RpcEmitter -------------------------------
(***************************************************************************)
(* emitter.c: the string builder every generated file is written into, and *)
(* the indentation of its lines.  A text is its length.  One call of the   *)
(* interface appends several pieces, each of which may need a realloc.     *)
(***************************************************************************)
EXTENDS Naturals, Sequences

CONSTANTS
  InitCap,       \* SB_INIT_CAP
  IndentWidth,   \* strlen(indent_str)
  TextLengths,   \* lengths of the texts formatted
  AllocMayFail,  \* whether realloc may return NULL
  MaxLength,     \* bound: no call is made on a longer buffer
  MaxLevel,      \* bound: depth of open blocks
  Powers         \* bound: the powers of two the doubling loop may reach

ASSUME EmitterAssumption ==
  /\ InitCap \in Nat \ {0} /\ IndentWidth \in Nat
  /\ TextLengths \subseteq Nat
  /\ AllocMayFail \in BOOLEAN
  /\ MaxLength \in Nat /\ MaxLevel \in Nat /\ Powers \subseteq Nat

VARIABLES
  data,          \* bytes of the allocation sb.buff points at; 0 is NULL
  capacity, length,
  indent_level, at_line_start,
  todo,          \* what the call in progress has still to append
  ret,           \* what the last call returned, or returns
  column,        \* characters since the last newline of the buffer
  dropped,       \* a realloc has failed, and some text was not appended
  access         \* where writes went: "ok", "null", or "past" the block

sb   == <<data, capacity, length>>
emitterVars == <<sb, indent_level, at_line_start, todo, ret, column, dropped, access>>

Indent == [piece |-> "indent", n |-> IndentWidth, skips |-> 0]
Text(n, skips) == [piece |-> "text", n |-> n, skips |-> skips]
NewLine == [piece |-> "newline", n |-> 1, skips |-> 0]
Deeper == [piece |-> "deeper", n |-> 0, skips |-> 0]

Pieces == [piece : {"indent", "text", "newline", "deeper"}, n : Nat, skips : Nat]

(* emitter_init on a zeroed Emitter.                                       *)
EmitterInit == /\ data = 0 /\ capacity = 0 /\ length = 0
               /\ indent_level = 0 /\ at_line_start = TRUE
               /\ todo = <<>> /\ ret = 1
               /\ column = 0 /\ dropped = FALSE /\ access = "ok"

-----------------------------------------------------------------------------
(* ensure_resize: required_length counts the terminating NUL, and capacity *)
(* is set before realloc has succeeded.                                    *)
Required(n) == length + n + 1
Base == IF capacity = 0 THEN InitCap ELSE capacity

FitsUnended(n) == length + n <= capacity          \* mutant: no room for the NUL
FitsNothing(n) == n = 0 \/ Required(n) < capacity \* mutant: an empty text needs no room
Fits(n) == Required(n) < capacity

Doubled(n) == {c \in {Base * p : p \in Powers} :
                 c > Required(n) /\ (c > Base => c <= 2 * Required(n))}

(* Writing n bytes and a NUL behind what is there.                         *)
Access(block, n) == IF block = 0 THEN "null"
                    ELSE IF Required(n) > block THEN "past" ELSE "ok"

Appended(n) == /\ length' = length + n
               /\ \/ /\ Fits(n)
                     /\ access' = Access(data, n)
                     /\ UNCHANGED <<data, capacity>>
                  \/ /\ ~ Fits(n)
                     /\ \E c \in Doubled(n) :
                          data' = c /\ capacity' = c /\ access' = Access(c, n)

Refused(n) == /\ AllocMayFail /\ ~ Fits(n)
              /\ capacity' = Base
              /\ dropped' = TRUE
              /\ UNCHANGED <<data, length, access>>

-----------------------------------------------------------------------------
(* The interface: what a call is going to append.                          *)
Indents == IF at_line_start THEN [i \in 1..indent_level |-> Indent] ELSE <<>>

CallKeepingStart(pieces) ==                       \* mutant: at_line_start is never cleared
  /\ todo' = Indents \o pieces
  /\ ret' = 1
  /\ UNCHANGED <<sb, at_line_start, column, dropped, access>>
Call(pieces) == /\ todo' = Indents \o pieces
                /\ at_line_start' = (at_line_start /\ indent_level = 0)
                /\ ret' = 1
                /\ UNCHANGED <<sb, column, dropped, access>>

Ready == todo = <<>> /\ access = "ok" /\ length <= MaxLength

(* emitter_write and emitter_write_token                                   *)
Write(n) == Ready /\ Call(<<Text(n, 0)>>) /\ UNCHANGED indent_level

Writeln(n) == Ready /\ Call(<<Text(n, 1), NewLine>>) /\ UNCHANGED indent_level

(* emitter_writeln without a format                                        *)
EmptyLine == /\ Ready
             /\ todo' = <<NewLine>>
             /\ ret' = 1
             /\ UNCHANGED <<sb, indent_level, at_line_start, column, dropped, access>>

OpenBlock(n) == /\ Ready /\ indent_level < MaxLevel
                /\ Call(<<Text(n, 3), Text(1, 1), NewLine, Deeper>>)
                /\ UNCHANGED indent_level

(* emitter_close_block: dedents before it writes; it always returns 0.     *)
Dedented == IF indent_level > 0 THEN indent_level - 1 ELSE 0

CloseBlock(n) == /\ Ready
                 /\ indent_level' = Dedented
                 /\ todo' = (IF at_line_start THEN [i \in 1..Dedented |-> Indent] ELSE <<>>)
                              \o <<Text(n + 1, 1), NewLine>>
                 /\ at_line_start' = (at_line_start /\ Dedented = 0)
                 /\ ret' = 0
                 /\ UNCHANGED <<sb, column, dropped, access>>

(* The pieces of the call, one by one.                                     *)
Busy(piece) == todo # <<>> /\ Head(todo).piece = piece /\ access = "ok"

AppendIndent ==
  /\ Busy("indent")
  /\ todo' = Tail(todo)
  /\ \/ /\ Appended(IndentWidth)
        /\ column' = column + IndentWidth
        /\ UNCHANGED dropped
     \/ Refused(IndentWidth) /\ UNCHANGED column
  /\ UNCHANGED <<indent_level, at_line_start, ret>>

(* emitter_write_v after the indentation: a failure ends the call it is in.*)
AppendText ==
  /\ Busy("text")
  /\ \/ /\ Appended(Head(todo).n)
        /\ column' = column + Head(todo).n
        /\ todo' = Tail(todo)
        /\ UNCHANGED <<ret, dropped>>
     \/ /\ Refused(Head(todo).n)
        /\ todo' = SubSeq(todo, 2 + Head(todo).skips, Len(todo))
        /\ ret' = IF Len(todo) = 1 + Head(todo).skips THEN 0 ELSE ret
        /\ UNCHANGED column
  /\ UNCHANGED <<indent_level, at_line_start>>

AppendNewLine ==
  /\ Busy("newline")
  /\ at_line_start' = TRUE
  /\ todo' = Tail(todo)
  /\ \/ Appended(1) /\ column' = 0 /\ UNCHANGED dropped
     \/ Refused(1) /\ UNCHANGED column
  /\ UNCHANGED <<indent_level, ret>>

GoDeeper ==
  /\ Busy("deeper")
  /\ indent_level' = indent_level + 1
  /\ todo' = Tail(todo)
  /\ UNCHANGED <<sb, at_line_start, ret, column, dropped, access>>

EmitterNext == \/ \E n \in TextLengths : Write(n) \/ Writeln(n) \/ OpenBlock(n) \/ CloseBlock(n)
               \/ EmptyLine
               \/ AppendIndent \/ AppendText \/ AppendNewLine \/ GoDeeper

EmitterSpec == EmitterInit /\ [][EmitterNext]_emitterVars

-----------------------------------------------------------------------------
(* Properties *)

(* The fields hold what their C types can hold, and the text ends with its *)
(* NUL inside what was allocated.                                          *)
TypeOK ==
  /\ data \in Nat /\ capacity \in Nat /\ length \in Nat
  /\ indent_level \in Nat /\ at_line_start \in BOOLEAN
  /\ todo \in Seq(Pieces)
  /\ ret \in {0, 1} /\ column \in Nat /\ dropped \in BOOLEAN
  /\ access \in {"ok", "null", "past"}
  /\ access # "past" /\ data > 0 => length < data

(* Whatever is appended, and whichever realloc fails, no write goes past   *)
(* the end of the block.                                                   *)
NeverPastBlock == access # "past"

(* While memory lasts, indentation is written at the start of a line only: *)
(* a line is never indented from its middle, although at_line_start stays  *)
(* set while unindented text is written.                                   *)
IndentsLineStarts ==
  (~ dropped /\ todo = <<>> /\ at_line_start /\ indent_level > 0) => column = 0

(* "it is allowed": while memory lasts, what ensure_resize allows is       *)
(* written to a buffer, and an empty text is given one too.  Only after a  *)
(* realloc has failed does it write through NULL.                          *)
NeverNull == ~ dropped => access # "null"
=============================================================================
