---------------------------- MODULE RpcEmitterProofs ----------------------------
(* For every initial capacity, indentation and text: the string builder    *)
(* writes inside its block, whichever realloc fails.                       *)
EXTENDS RpcEmitter, SequenceTheorems, TLAPS

(* The inductive invariant: a block is as long as the capacity says.  Only *)
(* before the first realloc has succeeded do they differ.                  *)
IInv == /\ TypeOK
        /\ access # "past"
        /\ data > 0 => capacity = data

LEMMA Constants == /\ InitCap \in Nat /\ InitCap > 0 /\ IndentWidth \in Nat
                   /\ TextLengths \subseteq Nat /\ Powers \subseteq Nat
  BY EmitterAssumption

(* What appending n characters does to the builder.                        *)
SoundBuilder == /\ data' \in Nat /\ capacity' \in Nat /\ length' \in Nat
                /\ access' \in {"ok", "null", "past"} /\ access' # "past"
                /\ data' > 0 => length' < data'
                /\ data' > 0 => capacity' = data'

LEMMA AppendedSound ==
  ASSUME IInv, access = "ok", NEW n \in Nat, Appended(n)
  PROVE  SoundBuilder
  <1>1. /\ data \in Nat /\ capacity \in Nat /\ length \in Nat /\ Required(n) \in Nat
        /\ length' = length + n /\ length' < Required(n)
    BY DEF IInv, TypeOK, Appended, Required
  <1>2. CASE Fits(n) /\ access' = Access(data, n) /\ UNCHANGED <<data, capacity>>
    <2>1. data > 0 => Required(n) < data
      BY <1>2 DEF IInv, Fits
    <2>2. data > 0 => access' = "ok"
      BY <1>1, <1>2, <2>1 DEF Access
    <2>3. data = 0 => access' = "null"
      BY <1>2 DEF Access
    <2>4. data' > 0 => length' < data'
      BY <1>1, <1>2, <2>1
    <2>5. QED
      BY <1>1, <1>2, <2>2, <2>3, <2>4 DEF SoundBuilder, IInv
  <1>3. ASSUME NEW c \in Doubled(n), data' = c, capacity' = c, access' = Access(c, n)
        PROVE  SoundBuilder
    <2>1. Base \in Nat
      BY <1>1, Constants DEF Base
    <2>2. PICK p \in Powers : c = Base * p
      BY DEF Doubled
    <2>3. c \in Nat
      BY <2>1, <2>2, Constants
    <2>4. c > Required(n)
      BY DEF Doubled
    <2>5. access' = "ok"
      BY <1>1, <1>3, <2>3, <2>4 DEF Access
    <2>6. QED
      BY <1>1, <1>3, <2>3, <2>4, <2>5 DEF SoundBuilder
  <1>4. QED
    BY <1>2, <1>3 DEF Appended

LEMMA RefusedSound ==
  ASSUME IInv, access = "ok", NEW n \in Nat, Refused(n)
  PROVE  SoundBuilder /\ dropped' = TRUE
  <1>1. Base \in Nat /\ (data > 0 => Base = data)
    BY Constants DEF IInv, TypeOK, Base
  <1>2. QED
    BY <1>1 DEF IInv, TypeOK, Refused, SoundBuilder

-----------------------------------------------------------------------------
(* The pieces of a call *)

LEMMA PieceTypes ==
  ASSUME NEW n \in Nat
  PROVE  /\ Indent \in Pieces /\ NewLine \in Pieces /\ Deeper \in Pieces
         /\ Text(n, 0) \in Pieces /\ Text(n, 1) \in Pieces /\ Text(n, 3) \in Pieces
  BY Constants DEF Indent, NewLine, Deeper, Text, Pieces

LEMMA IndentsType ==
  ASSUME NEW k \in Nat
  PROVE  [i \in 1..k |-> Indent] \in Seq(Pieces)
  <1>1. Indent \in Pieces
    BY PieceTypes
  <1>2. [i \in 1..k |-> Indent] \in [1..k -> Pieces]
    BY <1>1
  <1>3. QED
    BY <1>2, SeqDef

LEMMA CallSound ==
  ASSUME IInv, NEW pieces \in Seq(Pieces), Call(pieces)
  PROVE  /\ todo' \in Seq(Pieces) /\ at_line_start' \in BOOLEAN
         /\ ret' = 1
         /\ UNCHANGED <<data, capacity, length, column, dropped, access>>
  <1>1. Indents \in Seq(Pieces)
    BY IndentsType DEF Indents, IInv, TypeOK
  <1>2. Indents \o pieces \in Seq(Pieces)
    BY <1>1, ConcatProperties
  <1>3. QED
    BY <1>2 DEF Call, sb

LEMMA SameBuilder ==
  ASSUME IInv, UNCHANGED <<data, capacity, length, access>>
  PROVE  SoundBuilder
  BY DEF IInv, TypeOK, SoundBuilder

(* The other conjuncts of the invariant, once the builder is sound.        *)
LEMMA Together ==
  ASSUME SoundBuilder, indent_level' \in Nat, at_line_start' \in BOOLEAN,
         todo' \in Seq(Pieces), ret' \in {0, 1}, column' \in Nat, dropped' \in BOOLEAN
  PROVE  IInv'
  <1>1. TypeOK'
    BY DEF SoundBuilder, TypeOK
  <1>2. QED
    BY <1>1 DEF SoundBuilder, IInv

LEMMA CallIInv ==
  ASSUME IInv, NEW n \in Nat,
         Write(n) \/ Writeln(n) \/ OpenBlock(n)
  PROVE  IInv'
  <1>1. PICK pieces \in Seq(Pieces) : Call(pieces)
    <2>1. /\ <<Text(n, 0)>> \in Seq(Pieces) /\ <<Text(n, 1), NewLine>> \in Seq(Pieces)
          /\ <<Text(n, 3), Text(1, 1), NewLine, Deeper>> \in Seq(Pieces)
      <3>1. Text(1, 1) \in Pieces
        BY PieceTypes
      <3>2. QED
        BY <3>1, PieceTypes
    <2>2. QED
      BY <2>1 DEF Write, Writeln, OpenBlock
  <1>2. UNCHANGED indent_level
    BY DEF Write, Writeln, OpenBlock
  <1>3. /\ todo' \in Seq(Pieces) /\ at_line_start' \in BOOLEAN
        /\ ret' = 1
        /\ UNCHANGED <<data, capacity, length, column, dropped, access>>
    BY <1>1, CallSound
  <1>4. SoundBuilder
    BY <1>3, SameBuilder
  <1>5. indent_level' \in Nat /\ column' \in Nat
    BY <1>2, <1>3 DEF IInv, TypeOK
  <1>6. dropped' \in BOOLEAN
    BY <1>3 DEF IInv, TypeOK
  <1>7. QED
    BY <1>3, <1>4, <1>5, <1>6, Together

LEMMA CloseBlockIInv == ASSUME IInv, NEW n \in Nat, CloseBlock(n) PROVE IInv'
  <1>1. Dedented \in Nat
    BY DEF Dedented, IInv, TypeOK
  <1>2. SoundBuilder
    BY SameBuilder DEF CloseBlock, sb
  <1>3. todo' \in Seq(Pieces)
    <2>1. <<Text(n + 1, 1), NewLine>> \in Seq(Pieces)
      BY PieceTypes
    <2>2. (IF at_line_start THEN [i \in 1..Dedented |-> Indent] ELSE <<>>) \in Seq(Pieces)
      BY <1>1, IndentsType
    <2>3. QED
      BY <2>1, <2>2, ConcatProperties DEF CloseBlock
  <1>4. at_line_start' \in BOOLEAN
    BY DEF CloseBlock, IInv, TypeOK
  <1>5. dropped' \in BOOLEAN
    BY DEF CloseBlock, IInv, TypeOK
  <1>6. indent_level' \in Nat /\ ret' \in {0, 1} /\ column' \in Nat
    BY <1>1 DEF CloseBlock, IInv, TypeOK
  <1>7. QED
    BY <1>2, <1>3, <1>4, <1>5, <1>6, Together

LEMMA EmptyLineIInv == ASSUME IInv, EmptyLine PROVE IInv'
  <1>1. SoundBuilder
    BY SameBuilder DEF EmptyLine, sb
  <1>2. todo' \in Seq(Pieces)
    <2>1. NewLine \in Pieces
      BY PieceTypes
    <2>2. QED
      BY <2>1 DEF EmptyLine
  <1>3. dropped' \in BOOLEAN
    BY DEF EmptyLine, IInv, TypeOK
  <1>4. at_line_start' \in BOOLEAN
    BY DEF EmptyLine, IInv, TypeOK
  <1>5. indent_level' \in Nat /\ ret' \in {0, 1} /\ column' \in Nat
    BY DEF EmptyLine, IInv, TypeOK
  <1>6. QED
    BY <1>1, <1>2, <1>3, <1>4, <1>5, Together

LEMMA HeadPiece ==
  ASSUME IInv, todo # <<>>
  PROVE  /\ Head(todo).n \in Nat /\ Head(todo).skips \in Nat /\ Tail(todo) \in Seq(Pieces)
  <1>1. todo \in Seq(Pieces)
    BY DEF IInv, TypeOK
  <1>2. Head(todo) \in Pieces /\ Tail(todo) \in Seq(Pieces)
    BY <1>1, HeadTailProperties
  <1>3. QED
    BY <1>2 DEF Pieces

LEMMA AppendIndentIInv == ASSUME IInv, AppendIndent PROVE IInv'
  <1>1. access = "ok" /\ todo # <<>>
    BY DEF AppendIndent, Busy
  <1>2. SoundBuilder
    BY <1>1, Constants, AppendedSound, RefusedSound DEF AppendIndent
  <1>3. todo' \in Seq(Pieces)
    BY <1>1, HeadPiece DEF AppendIndent
  <1>4. dropped' \in BOOLEAN
    BY DEF AppendIndent, Refused, IInv, TypeOK
  <1>5. at_line_start' \in BOOLEAN
    BY DEF AppendIndent, IInv, TypeOK
  <1>6. indent_level' \in Nat /\ ret' \in {0, 1} /\ column' \in Nat
    BY Constants DEF AppendIndent, IInv, TypeOK
  <1>7. QED
    BY <1>2, <1>3, <1>4, <1>5, <1>6, Together

LEMMA AppendTextIInv == ASSUME IInv, AppendText PROVE IInv'
  <1>1. access = "ok" /\ todo # <<>> /\ todo \in Seq(Pieces)
    BY DEF AppendText, Busy, IInv, TypeOK
  <1>2. Head(todo).n \in Nat /\ Head(todo).skips \in Nat /\ Tail(todo) \in Seq(Pieces)
    BY <1>1, HeadPiece
  <1>3. SoundBuilder
    BY <1>1, <1>2, AppendedSound, RefusedSound DEF AppendText
  <1>4. todo' \in Seq(Pieces)
    <2> DEFINE m == 2 + Head(todo).skips
    <2>1. Len(todo) \in Int /\ m \in Int /\ m > 0
      BY <1>1, <1>2
    <2> HIDE DEF m
    <2>2. \A i \in m..Len(todo) : todo[i] \in Pieces
      BY <1>1, <2>1
    <2>3. SubSeq(todo, m, Len(todo)) \in Seq(Pieces)
      BY <2>1, <2>2, SubSeqProperties
    <2>4. QED
      BY <1>2, <2>3 DEF AppendText, m
  <1>5. dropped' \in BOOLEAN
    BY DEF AppendText, Refused, IInv, TypeOK
  <1>6. at_line_start' \in BOOLEAN
    BY DEF AppendText, IInv, TypeOK
  <1>7. indent_level' \in Nat /\ ret' \in {0, 1} /\ column' \in Nat
    BY <1>2 DEF AppendText, IInv, TypeOK
  <1>8. QED
    BY <1>3, <1>4, <1>5, <1>6, <1>7, Together

LEMMA AppendNewLineIInv == ASSUME IInv, AppendNewLine PROVE IInv'
  <1>1. access = "ok" /\ todo # <<>>
    BY DEF AppendNewLine, Busy
  <1>2. SoundBuilder
    BY <1>1, AppendedSound, RefusedSound DEF AppendNewLine
  <1>3. todo' \in Seq(Pieces)
    BY <1>1, HeadPiece DEF AppendNewLine
  <1>4. dropped' \in BOOLEAN
    BY DEF AppendNewLine, Refused, IInv, TypeOK
  <1>5. at_line_start' \in BOOLEAN
    BY DEF AppendNewLine
  <1>6. indent_level' \in Nat /\ ret' \in {0, 1} /\ column' \in Nat
    BY DEF AppendNewLine, IInv, TypeOK
  <1>7. QED
    BY <1>2, <1>3, <1>4, <1>5, <1>6, Together

LEMMA GoDeeperIInv == ASSUME IInv, GoDeeper PROVE IInv'
  <1>1. todo # <<>>
    BY DEF GoDeeper, Busy
  <1>2. SoundBuilder
    BY SameBuilder DEF GoDeeper, sb
  <1>3. todo' \in Seq(Pieces)
    BY <1>1, HeadPiece DEF GoDeeper
  <1>4. dropped' \in BOOLEAN
    BY DEF GoDeeper, IInv, TypeOK
  <1>5. at_line_start' \in BOOLEAN
    BY DEF GoDeeper, IInv, TypeOK
  <1>6. indent_level' \in Nat /\ ret' \in {0, 1} /\ column' \in Nat
    BY DEF GoDeeper, IInv, TypeOK
  <1>7. QED
    BY <1>2, <1>3, <1>4, <1>5, <1>6, Together

-----------------------------------------------------------------------------
LEMMA InitIInv == EmitterInit => IInv
  <1> SUFFICES ASSUME EmitterInit PROVE IInv
    OBVIOUS
  <1>1. at_line_start \in BOOLEAN /\ dropped \in BOOLEAN
    BY DEF EmitterInit
  <1>2. /\ data = 0 /\ capacity = 0 /\ length = 0 /\ indent_level = 0
        /\ todo \in Seq(Pieces) /\ ret = 1 /\ column = 0 /\ access = "ok"
    BY DEF EmitterInit
  <1>3. TypeOK
    BY <1>1, <1>2 DEF TypeOK
  <1>4. QED
    BY <1>2, <1>3 DEF IInv

LEMMA StepIInv == IInv /\ [EmitterNext]_emitterVars => IInv'
  <1> SUFFICES ASSUME IInv, [EmitterNext]_emitterVars PROVE IInv'
    OBVIOUS
  <1>1. CASE UNCHANGED emitterVars
    <2>1. SoundBuilder
      BY <1>1, SameBuilder DEF emitterVars, sb
    <2>2. dropped' \in BOOLEAN
      BY <1>1 DEF emitterVars, IInv, TypeOK
    <2>3. at_line_start' \in BOOLEAN
      BY <1>1 DEF emitterVars, IInv, TypeOK
    <2>4. todo' \in Seq(Pieces) /\ indent_level' \in Nat /\ ret' \in {0, 1} /\ column' \in Nat
      BY <1>1 DEF emitterVars, IInv, TypeOK
    <2>5. QED
      BY <2>1, <2>2, <2>3, <2>4, Together
  <1>2. ASSUME NEW n \in TextLengths, Write(n) \/ Writeln(n) \/ OpenBlock(n) PROVE IInv'
    BY <1>2, Constants, CallIInv
  <1>3. ASSUME NEW n \in TextLengths, CloseBlock(n) PROVE IInv'
    BY <1>3, Constants, CloseBlockIInv
  <1>4. QED
    BY <1>1, <1>2, <1>3, EmptyLineIInv, AppendIndentIInv, AppendTextIInv, AppendNewLineIInv,
       GoDeeperIInv DEF EmitterNext

LEMMA SpecIInv == EmitterSpec => []IInv
  BY InitIInv, StepIInv, PTL DEF EmitterSpec

(* The fields keep their types, and the text its NUL, for every text.      *)
THEOREM EmitterTypeOK == EmitterSpec => []TypeOK
  <1>1. IInv => TypeOK
    BY DEF IInv
  <1>2. QED
    BY <1>1, SpecIInv, PTL

(* No write leaves the block, for every capacity, text and failure.        *)
THEOREM EmitterNeverPastBlock == EmitterSpec => []NeverPastBlock
  <1>1. IInv => NeverPastBlock
    BY DEF IInv, NeverPastBlock
  <1>2. QED
    BY <1>1, SpecIInv, PTL

-----------------------------------------------------------------------------
(* Until a realloc fails *)

(* There is a block as soon as there is a capacity.                        *)
Backed == ~ dropped => (data = 0 => capacity = 0) /\ access # "null"

LEMMA AppendedBacked ==
  ASSUME IInv, Backed, ~ dropped, access = "ok", NEW n \in Nat, Appended(n)
  PROVE  Backed'
  <1>1. Required(n) \in Nat /\ Required(n) > 0 /\ data \in Nat /\ capacity \in Nat
    BY DEF IInv, TypeOK, Required
  <1>2. CASE Fits(n) /\ access' = Access(data, n) /\ UNCHANGED <<data, capacity>>
    <2>1. capacity # 0 /\ data # 0
      BY <1>1, <1>2 DEF Fits, Backed
    <2>2. QED
      BY <1>2, <2>1 DEF Access, Backed
  <1>3. ASSUME NEW c \in Doubled(n), data' = c, capacity' = c, access' = Access(c, n)
        PROVE  Backed'
    <2>1. Base \in Nat
      BY <1>1, Constants DEF Base
    <2>2. PICK p \in Powers : c = Base * p
      BY DEF Doubled
    <2>3. c \in Nat /\ c > Required(n)
      BY <2>1, <2>2, Constants DEF Doubled
    <2>4. c # 0
      BY <1>1, <2>3
    <2>5. QED
      BY <1>3, <2>4 DEF Access, Backed
  <1>4. QED
    BY <1>2, <1>3 DEF Appended

LEMMA StepBacked == ASSUME IInv, Backed, [EmitterNext]_emitterVars PROVE Backed'
  <1> SUFFICES ASSUME ~ dropped' PROVE Backed'
    BY DEF Backed
  <1>1. ASSUME UNCHANGED <<data, capacity, access>>, dropped' = dropped PROVE Backed'
    BY <1>1 DEF Backed
  <1>2. ASSUME NEW n, Refused(n) PROVE FALSE
    BY <1>2 DEF Refused
  <1>3. CASE AppendIndent
    <2>1. dropped' = dropped /\ access = "ok" /\ Appended(IndentWidth)
      BY <1>2, <1>3 DEF AppendIndent, Busy
    <2>2. QED
      BY <2>1, Constants, AppendedBacked
  <1>4. CASE AppendText
    <2>1. Head(todo).n \in Nat
      BY <1>4, HeadPiece DEF AppendText, Busy
    <2>2. dropped' = dropped /\ access = "ok" /\ Appended(Head(todo).n)
      BY <1>2, <1>4 DEF AppendText, Busy
    <2>3. QED
      BY <2>1, <2>2, AppendedBacked
  <1>5. CASE AppendNewLine
    <2>1. dropped' = dropped /\ access = "ok" /\ Appended(1)
      BY <1>2, <1>5 DEF AppendNewLine, Busy
    <2>2. QED
      BY <2>1, AppendedBacked
  <1>6. QED
    BY <1>1, <1>3, <1>4, <1>5
       DEF EmitterNext, emitterVars, sb, Write, Writeln, OpenBlock, CloseBlock, EmptyLine, GoDeeper, Call

(* Until a realloc fails, no text is written through NULL.                 *)
THEOREM EmitterNeverNull == EmitterSpec => []NeverNull
  <1>1. EmitterInit => Backed
    BY DEF EmitterInit, Backed
  <1>2. IInv /\ Backed /\ [EmitterNext]_emitterVars => Backed'
    BY StepBacked
  <1>3. Backed => NeverNull
    BY DEF Backed, NeverNull
  <1>4. QED
    BY <1>1, <1>2, <1>3, SpecIInv, PTL DEF EmitterSpec

-----------------------------------------------------------------------------
(* Where lines start *)

Kind(t, k) == \E i \in DOMAIN t : t[i].piece = k

(* A call ends its line at its end, if at all, and only then goes deeper.  *)
ShapeOK(t) ==
  \A i \in DOMAIN t :
    /\ t[i].piece = "deeper"  => i = Len(t) /\ (i > 1 => t[i - 1].piece = "newline")
    /\ t[i].piece = "newline" => i = Len(t) \/ (i = Len(t) - 1 /\ t[Len(t)].piece = "deeper")

(* When the call in progress will end no line any more and at_line_start   *)
(* is set: what it still writes is not indented, and a block that is open, *)
(* or that it opens, finds the line empty.                                 *)
LineOK ==
  ~ Kind(todo, "newline") /\ at_line_start =>
    /\ Kind(todo, "text") \/ Kind(todo, "indent") => indent_level = 0
    /\ (todo = <<>> /\ indent_level > 0) \/ Kind(todo, "deeper") => column = 0

LineInv == ~ dropped => ShapeOK(todo) /\ LineOK

LEMMA TailShape ==
  ASSUME NEW t \in Seq(Pieces), t # <<>>, ShapeOK(t)
  PROVE  /\ ShapeOK(Tail(t)) /\ Tail(t) \in Seq(Pieces)
         /\ \A k : Kind(t, k) <=> Head(t).piece = k \/ Kind(Tail(t), k)
         /\ Head(t).piece = "newline" => ~ Kind(Tail(t), "newline")
         /\ Head(t).piece = "deeper" => Tail(t) = <<>>
         /\ Head(t).piece \notin {"newline", "deeper"} /\ Kind(t, "deeper") => Kind(t, "newline")
  <1> DEFINE u == Tail(t)
  <1>1. /\ Len(t) \in Nat /\ Len(t) >= 1 /\ DOMAIN t = 1 .. Len(t) /\ Head(t) = t[1]
        /\ u \in Seq(Pieces) /\ Len(u) = Len(t) - 1
        /\ \A i \in 1 .. Len(u) : u[i] = t[i + 1]
    BY HeadTailProperties, LenProperties, EmptySeq
  <1>2. DOMAIN u = 1 .. Len(u)
    BY <1>1, LenProperties
  <1>3. Len(t) = 1 => u = <<>>
    <2>1. Len(t) = 1 => Len(u) = 0
      BY <1>1
    <2> HIDE DEF u
    <2>2. QED
      BY <1>1, <2>1, EmptySeq
  <1> HIDE DEF u
  <1>4. /\ \A i \in DOMAIN u : i + 1 \in DOMAIN t /\ u[i] = t[i + 1] /\ i \in Nat /\ i >= 1
        /\ \A i \in DOMAIN t : i \in Nat /\ (i # 1 => i - 1 \in DOMAIN u /\ u[i - 1] = t[i])
        /\ 1 \in DOMAIN t
    BY <1>1, <1>2
  <1>5. ASSUME NEW i \in DOMAIN u
        PROVE  /\ u[i].piece = "deeper"  => i = Len(u) /\ (i > 1 => u[i - 1].piece = "newline")
               /\ u[i].piece = "newline" =>
                    i = Len(u) \/ (i = Len(u) - 1 /\ u[Len(u)].piece = "deeper")
    <2>1. /\ t[i + 1].piece = "deeper"  => i + 1 = Len(t) /\ (i + 1 > 1 => t[i].piece = "newline")
          /\ t[i + 1].piece = "newline" =>
               i + 1 = Len(t) \/ (i + 1 = Len(t) - 1 /\ t[Len(t)].piece = "deeper")
      <3>1. i + 1 \in DOMAIN t /\ (i + 1) - 1 = i
        BY <1>4
      <3>2. /\ t[i + 1].piece = "deeper"  =>
                 i + 1 = Len(t) /\ (i + 1 > 1 => t[(i + 1) - 1].piece = "newline")
            /\ t[i + 1].piece = "newline" =>
                 i + 1 = Len(t) \/ (i + 1 = Len(t) - 1 /\ t[Len(t)].piece = "deeper")
        BY <3>1 DEF ShapeOK
      <3>3. QED
        BY <3>1, <3>2
    <2>2. i \in 1 .. Len(u) /\ (i > 1 => i - 1 \in 1 .. Len(u) /\ (i - 1) + 1 = i)
      BY <1>1, <1>2
    <2>3. i > 1 => u[i - 1] = t[i]
      BY <1>1, <2>2
    <2>4. Len(u) \in 1 .. Len(u) /\ Len(u) + 1 = Len(t)
      BY <1>1, <2>2
    <2>5. u[Len(u)] = t[Len(t)] /\ u[i] = t[i + 1]
      BY <1>1, <2>2, <2>4
    <2>6. i + 1 = Len(t) => i = Len(u)
      BY <1>1, <2>2
    <2>7. i + 1 = Len(t) - 1 => i = Len(u) - 1
      BY <1>1, <2>2
    <2>8. i > 1 => i + 1 > 1
      BY <2>2
    <2>9. QED
      BY <2>1, <2>3, <2>5, <2>6, <2>7, <2>8
  <1>6. ShapeOK(u)
    BY <1>5 DEF ShapeOK
  <1>7. ASSUME NEW k
        PROVE  Kind(t, k) <=> Head(t).piece = k \/ Kind(u, k)
    <2>1. ASSUME Kind(u, k)
          PROVE  Kind(t, k)
      <3>1. PICK i \in DOMAIN u : u[i].piece = k
        BY <2>1 DEF Kind
      <3>2. i + 1 \in DOMAIN t /\ t[i + 1].piece = k
        BY <1>4, <3>1
      <3>3. QED
        BY <3>2 DEF Kind
    <2>2. ASSUME Kind(t, k), Head(t).piece # k
          PROVE  Kind(u, k)
      <3>1. PICK i \in DOMAIN t : t[i].piece = k
        BY <2>2 DEF Kind
      <3>2. i - 1 \in DOMAIN u /\ u[i - 1].piece = k
        BY <1>1, <1>4, <2>2, <3>1
      <3>3. QED
        BY <3>2 DEF Kind
    <2>3. Head(t).piece = k => Kind(t, k)
      BY <1>1, <1>4 DEF Kind
    <2>4. QED
      BY <2>1, <2>2, <2>3
  <1>8. ASSUME Head(t).piece = "newline"
        PROVE  ~ Kind(u, "newline")
    <2>1. 1 = Len(t) \/ (1 = Len(t) - 1 /\ t[Len(t)].piece = "deeper")
      BY <1>1, <1>4, <1>8 DEF ShapeOK
    <2>2. SUFFICES ASSUME NEW i \in DOMAIN u, u[i].piece = "newline"
                   PROVE  FALSE
      BY DEF Kind
    <2>3. i = 1 /\ Len(t) = 2
      BY <1>1, <1>2, <2>1
    <2>4. u[1] = t[2]
      BY <1>1, <2>3
    <2>5. QED
      BY <2>1, <2>2, <2>3, <2>4
  <1>9. ASSUME Head(t).piece = "deeper"
        PROVE  u = <<>>
    BY <1>1, <1>3, <1>4, <1>9 DEF ShapeOK
  <1>10. ASSUME Head(t).piece \notin {"newline", "deeper"}, Kind(t, "deeper")
         PROVE  Kind(t, "newline")
    <2>1. PICK i \in DOMAIN t : t[i].piece = "deeper"
      BY <1>10 DEF Kind
    <2>2. i # 1 /\ i \in Nat
      BY <1>1, <1>10, <2>1
    <2>3. i > 1 /\ i - 1 \in DOMAIN t
      BY <1>1, <2>1, <2>2
    <2>4. t[i - 1].piece = "newline"
      BY <2>1, <2>3 DEF ShapeOK
    <2>5. QED
      BY <2>3, <2>4 DEF Kind
  <1>11. QED
    BY <1>1, <1>6, <1>7, <1>8, <1>9, <1>10 DEF u

(* Indentation in front of what a call writes.                             *)
LEMMA IndentedShape ==
  ASSUME NEW s \in Seq(Pieces), \A i \in DOMAIN s : s[i].piece = "indent",
         NEW p \in Seq(Pieces), p # <<>>, ShapeOK(p), p[1].piece # "deeper"
  PROVE  /\ ShapeOK(s \o p) /\ s \o p # <<>>
         /\ \A k \in {"newline", "deeper"} : Kind(s \o p, k) <=> Kind(p, k)
  <1> DEFINE r == s \o p
             m == Len(s)
  <1>1. /\ m \in Nat /\ DOMAIN s = 1 .. m
        /\ Len(p) \in Nat /\ Len(p) >= 1 /\ DOMAIN p = 1 .. Len(p)
    BY LenProperties, EmptySeq
  <1>2. /\ r \in Seq(Pieces) /\ Len(r) = m + Len(p)
        /\ \A i \in 1 .. m + Len(p) : r[i] = IF i <= m THEN s[i] ELSE p[i - m]
    BY ConcatProperties
  <1>3. DOMAIN r = 1 .. m + Len(p)
    BY <1>2, LenProperties
  <1> HIDE DEF r, m
  <1>4. /\ \A i \in DOMAIN r : i \in Nat /\ (i <= m => r[i].piece = "indent")
                               /\ (i > m => i - m \in DOMAIN p /\ r[i] = p[i - m])
        /\ \A i \in DOMAIN p : i \in Nat /\ i >= 1 /\ m + i \in DOMAIN r /\ r[m + i] = p[i]
    <2>1. ASSUME NEW i \in DOMAIN r
          PROVE  i \in Nat /\ (i <= m => r[i].piece = "indent")
                 /\ (i > m => i - m \in DOMAIN p /\ r[i] = p[i - m])
      <3>1. i \in Nat /\ (i <= m => i \in DOMAIN s /\ r[i] = s[i])
        BY <1>1, <1>2, <1>3
      <3>2. i > m => i - m \in DOMAIN p /\ r[i] = p[i - m]
        BY <1>1, <1>2, <1>3
      <3>3. QED
        BY <3>1, <3>2
    <2>2. ASSUME NEW i \in DOMAIN p
          PROVE  i \in Nat /\ i >= 1 /\ m + i \in DOMAIN r /\ r[m + i] = p[i]
      <3>1. i \in Nat /\ i >= 1 /\ m + i \in 1 .. m + Len(p) /\ ~ (m + i <= m) /\ (m + i) - m = i
        BY <1>1
      <3>2. r[m + i] = p[(m + i) - m]
        BY <1>2, <3>1
      <3>3. QED
        BY <1>3, <3>1, <3>2
    <2>3. QED
      BY <2>1, <2>2
  <1>5. Len(p) \in DOMAIN p /\ 1 \in DOMAIN p
    BY <1>1
  <1>6. r[Len(r)] = p[Len(p)] /\ r # <<>>
    <2>1. r[Len(r)] = p[Len(p)]
      BY <1>2, <1>4, <1>5
    <2>2. Len(r) # 0
      BY <1>1, <1>2
    <2>3. QED
      BY <2>1, <2>2, EmptySeq
  <1>7. ASSUME NEW i \in DOMAIN r
        PROVE  /\ r[i].piece = "deeper"  => i = Len(r) /\ (i > 1 => r[i - 1].piece = "newline")
               /\ r[i].piece = "newline" =>
                    i = Len(r) \/ (i = Len(r) - 1 /\ r[Len(r)].piece = "deeper")
    <2>1. CASE i <= m
      BY <1>4, <2>1
    <2>2. CASE i > m
      <3> DEFINE j == i - m
      <3>1. j \in DOMAIN p /\ r[i] = p[j] /\ j \in Nat /\ i = m + j
        BY <1>1, <1>4, <2>2
      <3> HIDE DEF j
      <3>2. /\ p[j].piece = "deeper"  => j = Len(p) /\ (j > 1 => p[j - 1].piece = "newline")
            /\ p[j].piece = "newline" =>
                 j = Len(p) \/ (j = Len(p) - 1 /\ p[Len(p)].piece = "deeper")
        BY <3>1 DEF ShapeOK
      <3>3. p[j].piece = "deeper" => j > 1
        BY <1>1, <3>1
      <3>4. j > 1 => r[i - 1] = p[j - 1]
        <4>1. j > 1 => j - 1 \in DOMAIN p /\ m + (j - 1) = i - 1
          BY <1>1, <3>1
        <4>2. QED
          BY <1>4, <4>1
      <3>5. r[i].piece = "deeper"  => i = Len(r) /\ (i > 1 => r[i - 1].piece = "newline")
        <4>1. SUFFICES ASSUME p[j].piece = "deeper"
                       PROVE  i = Len(r) /\ r[i - 1].piece = "newline"
          BY <3>1
        <4>2. j = Len(p) /\ j > 1 /\ p[j - 1].piece = "newline"
          BY <3>2, <3>3, <4>1
        <4>3. r[i - 1].piece = "newline"
          BY <3>4, <4>2
        <4>4. QED
          BY <1>2, <3>1, <4>2, <4>3
      <3>6. r[i].piece = "newline" =>
              i = Len(r) \/ (i = Len(r) - 1 /\ r[Len(r)].piece = "deeper")
        <4>1. j = Len(p) - 1 => i = Len(r) - 1
          BY <1>1, <1>2, <3>1
        <4>2. j = Len(p) => i = Len(r)
          BY <1>2, <3>1
        <4>3. QED
          BY <1>6, <3>1, <3>2, <4>1, <4>2
      <3>7. QED
        BY <3>5, <3>6
    <2>3. QED
      BY <1>1, <1>4, <2>1, <2>2
  <1>8. ASSUME NEW k \in {"newline", "deeper"}
        PROVE  Kind(r, k) <=> Kind(p, k)
    <2>1. ASSUME NEW i \in DOMAIN r, r[i].piece = k
          PROVE  Kind(p, k)
      <3>1. i > m
        BY <1>1, <1>4, <2>1
      <3>2. i - m \in DOMAIN p /\ p[i - m].piece = k
        BY <1>4, <2>1, <3>1
      <3>3. QED
        BY <3>2 DEF Kind
    <2>2. ASSUME NEW i \in DOMAIN p, p[i].piece = k
          PROVE  Kind(r, k)
      BY <1>4, <2>2 DEF Kind
    <2>3. QED
      BY <2>1, <2>2 DEF Kind
  <1>9. QED
    BY <1>6, <1>7, <1>8 DEF ShapeOK, r

(* What the calls of the interface append.                                 *)
LEMMA CallShapes ==
  ASSUME NEW n \in Nat
  PROVE  /\ <<Text(n, 0)>> \in Seq(Pieces) /\ ShapeOK(<<Text(n, 0)>>)
         /\ <<Text(n, 1), NewLine>> \in Seq(Pieces) /\ ShapeOK(<<Text(n, 1), NewLine>>)
         /\ <<Text(n, 3), Text(1, 1), NewLine, Deeper>> \in Seq(Pieces)
         /\ ShapeOK(<<Text(n, 3), Text(1, 1), NewLine, Deeper>>)
         /\ <<NewLine>> \in Seq(Pieces) /\ ShapeOK(<<NewLine>>)
         /\ ~ Kind(<<Text(n, 0)>>, "deeper")
         /\ Kind(<<Text(n, 1), NewLine>>, "newline")
         /\ Kind(<<Text(n, 3), Text(1, 1), NewLine, Deeper>>, "newline")
         /\ Kind(<<NewLine>>, "newline")
  <1>1. /\ Text(n, 0).piece = "text" /\ Text(n, 1).piece = "text" /\ Text(n, 3).piece = "text"
        /\ Text(1, 1).piece = "text" /\ NewLine.piece = "newline" /\ Deeper.piece = "deeper"
    BY DEF Text, NewLine, Deeper
  <1>2. /\ Text(n, 0) \in Pieces /\ Text(n, 1) \in Pieces /\ Text(n, 3) \in Pieces
        /\ Text(1, 1) \in Pieces /\ NewLine \in Pieces /\ Deeper \in Pieces
    BY PieceTypes
  <1>3. ASSUME NEW a \in Pieces, a.piece = "text"
        PROVE  <<a>> \in Seq(Pieces) /\ ShapeOK(<<a>>) /\ ~ Kind(<<a>>, "deeper")
    BY <1>3 DEF ShapeOK, Kind
  <1>4. ASSUME NEW a \in Pieces, a.piece = "text", NEW b \in Pieces, b.piece = "newline"
        PROVE  <<a, b>> \in Seq(Pieces) /\ ShapeOK(<<a, b>>) /\ Kind(<<a, b>>, "newline")
    <2>1. Kind(<<a, b>>, "newline")
      <3>1. 2 \in DOMAIN <<a, b>> /\ <<a, b>>[2] = b
        OBVIOUS
      <3>2. QED
        BY <1>4, <3>1 DEF Kind
    <2>2. QED
      BY <1>4, <2>1 DEF ShapeOK
  <1>5. ASSUME NEW a \in Pieces, a.piece = "text", NEW b \in Pieces, b.piece = "text",
               NEW c \in Pieces, c.piece = "newline", NEW d \in Pieces, d.piece = "deeper"
        PROVE  /\ <<a, b, c, d>> \in Seq(Pieces) /\ ShapeOK(<<a, b, c, d>>)
               /\ Kind(<<a, b, c, d>>, "newline")
    <2>1. Kind(<<a, b, c, d>>, "newline")
      <3>1. 3 \in DOMAIN <<a, b, c, d>> /\ <<a, b, c, d>>[3] = c
        OBVIOUS
      <3>2. QED
        BY <1>5, <3>1 DEF Kind
    <2>2. ShapeOK(<<a, b, c, d>>)
      <3> DEFINE t == <<a, b, c, d>>
      <3>1. DOMAIN t = {1, 2, 3, 4} /\ Len(t) = 4 /\ t[1] = a /\ t[2] = b /\ t[3] = c /\ t[4] = d
        OBVIOUS
      <3> HIDE DEF t
      <3>2. ShapeOK(t)
        BY <1>5, <3>1 DEF ShapeOK
      <3>3. QED
        BY <3>2 DEF t
    <2>3. QED
      BY <2>1, <2>2
  <1>6. ASSUME NEW a \in Pieces, a.piece = "newline"
        PROVE  <<a>> \in Seq(Pieces) /\ ShapeOK(<<a>>) /\ Kind(<<a>>, "newline")
    <2>1. 1 \in DOMAIN <<a>> /\ <<a>>[1] = a
      OBVIOUS
    <2>2. QED
      BY <1>6, <2>1 DEF ShapeOK, Kind
  <1>7. <<Text(n, 0)>> \in Seq(Pieces) /\ ShapeOK(<<Text(n, 0)>>) /\ ~ Kind(<<Text(n, 0)>>, "deeper")
    BY <1>1, <1>2, <1>3
  <1>8. /\ <<Text(n, 1), NewLine>> \in Seq(Pieces) /\ ShapeOK(<<Text(n, 1), NewLine>>)
        /\ Kind(<<Text(n, 1), NewLine>>, "newline")
    BY <1>1, <1>2, <1>4
  <1>9. /\ <<Text(n, 3), Text(1, 1), NewLine, Deeper>> \in Seq(Pieces)
        /\ ShapeOK(<<Text(n, 3), Text(1, 1), NewLine, Deeper>>)
        /\ Kind(<<Text(n, 3), Text(1, 1), NewLine, Deeper>>, "newline")
    BY <1>1, <1>2, <1>5
  <1>10. <<NewLine>> \in Seq(Pieces) /\ ShapeOK(<<NewLine>>) /\ Kind(<<NewLine>>, "newline")
    BY <1>1, <1>2, <1>6
  <1>11. QED
    BY <1>7, <1>8, <1>9, <1>10

LEMMA IndentationOf ==
  ASSUME NEW k \in Nat
  PROVE  /\ [i \in 1..k |-> Indent] \in Seq(Pieces)
         /\ \A j \in DOMAIN [i \in 1..k |-> Indent] : [i \in 1..k |-> Indent][j].piece = "indent"
  BY IndentsType DEF Indent

LEMMA NoIndentation ==
  <<>> \in Seq(Pieces) /\ \A i \in DOMAIN <<>> : <<>>[i].piece = "indent"
  OBVIOUS

(* A call that ends its line promises nothing before it has.               *)
LEMMA CallLine ==
  ASSUME IInv, NEW pieces \in Seq(Pieces), pieces # <<>>, ShapeOK(pieces),
         pieces[1].piece # "deeper", Call(pieces), UNCHANGED indent_level,
         Kind(pieces, "newline") \/ ~ Kind(pieces, "deeper")
  PROVE  LineInv'
  <1>1. Indents \in Seq(Pieces) /\ \A i \in DOMAIN Indents : Indents[i].piece = "indent"
    <2>1. CASE at_line_start
      BY <2>1, IndentationOf DEF Indents, IInv, TypeOK
    <2>2. CASE ~ at_line_start
      BY <2>2, NoIndentation DEF Indents
    <2>3. QED
      BY <2>1, <2>2
  <1>2. /\ todo' = Indents \o pieces /\ (at_line_start' => indent_level = 0)
    BY DEF Call
  <1>3. /\ ShapeOK(todo') /\ todo' # <<>>
        /\ Kind(todo', "newline") <=> Kind(pieces, "newline")
        /\ Kind(todo', "deeper") <=> Kind(pieces, "deeper")
    BY <1>1, <1>2, IndentedShape
  <1>4. LineOK'
    <2>1. SUFFICES ASSUME ~ Kind(todo', "newline"), at_line_start'
                   PROVE  indent_level' = 0 /\ todo' # <<>> /\ ~ Kind(todo', "deeper")
      BY DEF LineOK
    <2>2. QED
      BY <1>2, <1>3, <2>1
  <1>5. QED
    BY <1>3, <1>4 DEF LineInv

LEMMA OpenedLine ==
  ASSUME IInv, NEW n \in Nat, Write(n) \/ Writeln(n) \/ OpenBlock(n)
  PROVE  LineInv'
  <1>1. /\ Text(n, 0).piece = "text" /\ Text(n, 1).piece = "text" /\ Text(n, 3).piece = "text"
    BY DEF Text
  <1>2. CASE Write(n)
    <2>1. <<Text(n, 0)>> # <<>> /\ <<Text(n, 0)>>[1].piece # "deeper"
      BY <1>1
    <2>2. QED
      BY <1>2, <2>1, CallShapes, CallLine DEF Write
  <1>3. CASE Writeln(n)
    <2>1. <<Text(n, 1), NewLine>> # <<>> /\ <<Text(n, 1), NewLine>>[1].piece # "deeper"
      BY <1>1
    <2>2. QED
      BY <1>3, <2>1, CallShapes, CallLine DEF Writeln
  <1>4. CASE OpenBlock(n)
    <2>1. /\ <<Text(n, 3), Text(1, 1), NewLine, Deeper>> # <<>>
          /\ <<Text(n, 3), Text(1, 1), NewLine, Deeper>>[1].piece # "deeper"
      BY <1>1
    <2>2. QED
      BY <1>4, <2>1, CallShapes, CallLine DEF OpenBlock
  <1>5. QED
    BY <1>2, <1>3, <1>4

LEMMA ClosedLine ==
  ASSUME IInv, NEW n \in Nat, CloseBlock(n)
  PROVE  LineInv'
  <1> DEFINE s == IF at_line_start THEN [i \in 1..Dedented |-> Indent] ELSE <<>>
             p == <<Text(n + 1, 1), NewLine>>
  <1>1. Dedented \in Nat
    BY DEF Dedented, IInv, TypeOK
  <1>2. s \in Seq(Pieces) /\ \A i \in DOMAIN s : s[i].piece = "indent"
    <2>1. CASE at_line_start
      BY <1>1, <2>1, IndentationOf
    <2>2. CASE ~ at_line_start
      BY <2>2, NoIndentation
    <2>3. QED
      BY <2>1, <2>2
  <1>3. p \in Seq(Pieces) /\ ShapeOK(p) /\ Kind(p, "newline")
    <2>1. n + 1 \in Nat
      OBVIOUS
    <2>2. QED
      BY <2>1, CallShapes
  <1>4. p # <<>> /\ p[1].piece # "deeper"
    BY DEF Text
  <1>5. todo' = s \o p
    BY DEF CloseBlock
  <1> HIDE DEF s, p
  <1>6. ShapeOK(todo') /\ Kind(todo', "newline")
    BY <1>2, <1>3, <1>4, <1>5, IndentedShape
  <1>7. QED
    BY <1>6 DEF LineInv, LineOK

(* The step that takes a piece that was not refused.                       *)
LEMMA PieceLine ==
  ASSUME IInv, LineInv, ~ dropped, todo # <<>>, todo' = Tail(todo),
         \/ /\ Head(todo).piece \in {"indent", "text"}
            /\ UNCHANGED <<indent_level, at_line_start>>
         \/ /\ Head(todo).piece = "newline" /\ column' = 0
         \/ /\ Head(todo).piece = "deeper" /\ UNCHANGED <<at_line_start, column>>
  PROVE  LineInv'
  <1>1. todo \in Seq(Pieces) /\ ShapeOK(todo) /\ LineOK
    BY DEF IInv, TypeOK, LineInv
  <1>2. /\ ShapeOK(todo')
        /\ \A k : Kind(todo, k) <=> Head(todo).piece = k \/ Kind(todo', k)
        /\ Head(todo).piece = "newline" => ~ Kind(todo', "newline")
        /\ Head(todo).piece = "deeper" => todo' = <<>>
        /\ Head(todo).piece \notin {"newline", "deeper"} /\ Kind(todo, "deeper") => Kind(todo, "newline")
    BY <1>1, TailShape
  <1>3. CASE Head(todo).piece \in {"indent", "text"} /\ UNCHANGED <<indent_level, at_line_start>>
    <2>1. SUFFICES ASSUME ~ Kind(todo', "newline"), at_line_start'
                   PROVE  indent_level' = 0 /\ ~ Kind(todo', "deeper")
      BY <1>2, <1>3 DEF LineInv, LineOK
    <2>2. ~ Kind(todo, "newline") /\ (Kind(todo, "text") \/ Kind(todo, "indent"))
      BY <1>2, <1>3, <2>1
    <2>3. indent_level = 0
      BY <1>1, <1>3, <2>1, <2>2 DEF LineOK
    <2>4. ~ Kind(todo, "deeper")
      BY <1>2, <1>3, <2>2
    <2>5. QED
      BY <1>2, <1>3, <2>3, <2>4
  <1>4. CASE Head(todo).piece = "newline" /\ column' = 0
    <2>1. ~ Kind(todo', "text") /\ ~ Kind(todo', "indent")
      <3>1. Len(todo) \in Nat /\ DOMAIN todo = 1 .. Len(todo) /\ Len(todo) >= 1
            /\ todo[1] = Head(todo) /\ Len(todo') = Len(todo) - 1
            /\ \A i \in 1 .. Len(todo') : todo'[i] = todo[i + 1]
        BY <1>1, HeadTailProperties, LenProperties, EmptySeq
      <3>2. 1 = Len(todo) \/ (1 = Len(todo) - 1 /\ todo[Len(todo)].piece = "deeper")
        BY <1>1, <1>4, <3>1 DEF ShapeOK
      <3>3. DOMAIN todo' = 1 .. Len(todo')
        BY <1>1, TailShape, LenProperties
      <3>4. \A i \in DOMAIN todo' : todo'[i].piece = "deeper"
        <4>1. SUFFICES ASSUME NEW i \in DOMAIN todo'
                       PROVE  todo'[i].piece = "deeper"
          OBVIOUS
        <4>2. i = 1 /\ Len(todo) = 2
          BY <3>1, <3>2, <3>3
        <4>3. todo'[1] = todo[2]
          BY <3>1, <4>2
        <4>4. QED
          BY <3>2, <4>2, <4>3
      <3>5. QED
        BY <3>4 DEF Kind
    <2>2. QED
      BY <1>2, <1>4, <2>1 DEF LineInv, LineOK
  <1>5. CASE Head(todo).piece = "deeper" /\ UNCHANGED <<at_line_start, column>>
    <2>1. todo' = <<>> /\ \A k : ~ Kind(todo', k)
      BY <1>2, <1>5 DEF Kind
    <2>2. ~ Kind(todo, "newline") /\ Kind(todo, "deeper")
      BY <1>2, <1>5, <2>1
    <2>3. QED
      BY <1>1, <1>2, <1>5, <2>1, <2>2 DEF LineInv, LineOK
  <1>6. QED
    BY <1>3, <1>4, <1>5

LEMMA StepLine == ASSUME IInv, LineInv, [EmitterNext]_emitterVars PROVE LineInv'
  <1>1. ASSUME NEW n, Refused(n) PROVE LineInv'
    BY <1>1 DEF Refused, LineInv
  <1>2. ASSUME NEW n \in TextLengths, Write(n) \/ Writeln(n) \/ OpenBlock(n) PROVE LineInv'
    BY <1>2, Constants, OpenedLine
  <1>3. ASSUME NEW n \in TextLengths, CloseBlock(n) PROVE LineInv'
    BY <1>3, Constants, ClosedLine
  <1>4. CASE EmptyLine
    <2>1. ShapeOK(<<NewLine>>) /\ Kind(<<NewLine>>, "newline")
      BY CallShapes
    <2>2. QED
      BY <1>4, <2>1 DEF EmptyLine, LineInv, LineOK
  <1>5. CASE AppendIndent /\ dropped' = dropped
    BY <1>5, PieceLine DEF AppendIndent, Busy, LineInv
  <1>6. CASE AppendText /\ dropped' = dropped
    <2>1. CASE todo' = Tail(todo)
      BY <1>6, <2>1, PieceLine DEF AppendText, Busy, LineInv
    <2>2. CASE Refused(Head(todo).n)
      BY <1>1, <2>2
    <2>3. QED
      BY <1>6, <2>1, <2>2 DEF AppendText
  <1>7. CASE AppendNewLine /\ dropped' = dropped
    <2>1. CASE column' = 0
      BY <1>7, <2>1, PieceLine DEF AppendNewLine, Busy, LineInv
    <2>2. CASE Refused(1)
      BY <1>1, <2>2
    <2>3. QED
      BY <1>7, <2>1, <2>2 DEF AppendNewLine
  <1>8. CASE GoDeeper
    BY <1>8, PieceLine DEF GoDeeper, Busy, LineInv
  <1>9. CASE UNCHANGED emitterVars
    BY <1>9 DEF emitterVars, LineInv, LineOK, ShapeOK, Kind
  <1>10. CASE AppendIndent \/ AppendText \/ AppendNewLine
    BY <1>1, <1>5, <1>6, <1>7, <1>10 DEF AppendIndent, AppendText, AppendNewLine
  <1>11. QED
    BY <1>2, <1>3, <1>4, <1>8, <1>9, <1>10 DEF EmitterNext

(* While memory lasts, indentation is written at the start of a line only. *)
THEOREM EmitterIndentsLineStarts == EmitterSpec => []IndentsLineStarts
  <1>1. EmitterInit => LineInv
    BY DEF EmitterInit, LineInv, LineOK, ShapeOK, Kind
  <1>2. IInv /\ LineInv /\ [EmitterNext]_emitterVars => LineInv'
    BY StepLine
  <1>3. LineInv => IndentsLineStarts
    <2> SUFFICES ASSUME LineInv, ~ dropped, todo = <<>>, at_line_start, indent_level > 0
                 PROVE  column = 0
      BY DEF IndentsLineStarts
    <2>1. \A k : ~ Kind(todo, k)
      BY DEF Kind
    <2>2. QED
      BY <2>1 DEF LineInv, LineOK
  <1>4. QED
    BY <1>1, <1>2, <1>3, SpecIInv, PTL DEF EmitterSpec
=============================================================================
