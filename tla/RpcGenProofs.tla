------------------------------ MODULE RpcGenProofs ------------------------------
(* Theorems of RpcGen: for every command line, whatever the definitions    *)
(* are, wherever a run is killed, the disk fills or an allocation fails,   *)
(* and after any number of runs.                                           *)
EXTENDS RpcGen, SequenceTheorems, WellFoundedInduction, TLAPS

Includes   == {"serialization.h", "rpc_helper.h"}
Sources    == {Server, Client}
Generating == at \in {"generate", "write"}
InQueue    == {queue[i] : i \in DOMAIN queue}

-----------------------------------------------------------------------------
(* The inductive invariant *)

ShapeOK ==
  /\ at \in {"ended", "args", "generate", "write"}
  /\ dirs \subseteq Dirs
  /\ disk = [d \in Dirs |-> [f \in Files |-> disk[d][f]]]
  /\ options = [client |-> options.client, server |-> options.server,
                print_ast |-> options.print_ast, output_dir |-> options.output_dir,
                input |-> options.input]

(* What is still to be generated was asked for, each file once, and the    *)
(* headers come before the sources that include them.  Only a valid        *)
(* definition makes a whole tree, only a refused allocation one that lacks *)
(* something; a source that is open has a tree it can use.                 *)
QueueOK ==
  Generating =>
    /\ queue \in Seq(Files) /\ InQueue \subseteq Wanted
    /\ \A i, j \in DOMAIN queue : queue[i] = queue[j] => i = j
    /\ \A i, j \in DOMAIN queue : i < j /\ queue[j] \in Includes => queue[i] \in Includes
    /\ options.print_ast => queue = <<>>
    /\ service = "whole" => Outcome[options.input] = "valid"
    /\ service = "lacking" => refused
    /\ at = "write" => queue # <<>> /\ (OfService => Usable)

(* A file of this run, as it was written.                                  *)
Written(f) ==
  \/ disk[options.output_dir][f] = IF f \in Sources THEN options.input ELSE "fixed"
  \/ (full \/ refused) /\ disk[options.output_dir][f] = "cut"

(* Every file asked for and no longer in the queue has been written; the   *)
(* one being written is empty.                                             *)
DoneOK ==
  Generating /\ ~ options.print_ast =>
    /\ \A f \in Wanted \ InQueue : Written(f)
    /\ Wanted \ InQueue # {} => options.output_dir \in dirs
    /\ at = "write" => /\ options.output_dir \in dirs
                       /\ disk[options.output_dir][Head(queue)] = "cut"

GInv == ShapeOK /\ QueueOK /\ DoneOK /\ SuccessIsComplete /\ NoOrphans

(* Tuples are concatenated as one would write them.                        *)
LEMMA TuplesAppend ==
  ASSUME NEW S, NEW a \in S, NEW b \in S, NEW d \in S, NEW x \in S
  PROVE  <<a, b>> \o <<x>> = <<a, b, x>> /\ <<a, b, d>> \o <<x>> = <<a, b, d, x>>
  <1>1. <<a, b>> \o <<x>> = <<a, b, x>>
    <2>1. /\ <<a, b>> \in Seq(S) /\ <<x>> \in Seq(S) /\ <<a, b, x>> \in Seq(S)
          /\ Len(<<a, b>>) = 2 /\ Len(<<x>>) = 1 /\ Len(<<a, b, x>>) = 3
      OBVIOUS
    <2> DEFINE r == <<a, b>> \o <<x>>
    <2>2. r \in Seq(S) /\ Len(r) = 3 /\ r[1] = a /\ r[2] = b /\ r[3] = x
      BY <2>1, ConcatProperties
    <2> HIDE DEF r
    <2>3. \A i \in 1 .. 3 : r[i] = <<a, b, x>>[i]
      BY <2>2
    <2>4. r = <<a, b, x>>
      BY <2>1, <2>2, <2>3, SeqEqual
    <2>5. QED
      BY <2>4 DEF r
  <1>2. <<a, b, d>> \o <<x>> = <<a, b, d, x>>
    <2>1. /\ <<a, b, d>> \in Seq(S) /\ <<x>> \in Seq(S) /\ <<a, b, d, x>> \in Seq(S)
          /\ Len(<<a, b, d>>) = 3 /\ Len(<<x>>) = 1 /\ Len(<<a, b, d, x>>) = 4
      OBVIOUS
    <2> DEFINE r == <<a, b, d>> \o <<x>>
    <2>2. r \in Seq(S) /\ Len(r) = 4 /\ r[1] = a /\ r[2] = b /\ r[3] = d /\ r[4] = x
      BY <2>1, ConcatProperties
    <2> HIDE DEF r
    <2>3. \A i \in 1 .. 4 : r[i] = <<a, b, d, x>>[i]
      BY <2>2
    <2>4. r = <<a, b, d, x>>
      BY <2>1, <2>2, <2>3, SeqEqual
    <2>5. QED
      BY <2>4 DEF r
  <1>3. QED
    BY <1>1, <1>2

(* generate_files starts with all that was asked for.                      *)
LEMMA QueueFacts ==
  ASSUME NEW q, q = Queue
  PROVE  /\ q \in Seq(Files)
         /\ {q[i] : i \in DOMAIN q} \subseteq Wanted
         /\ ~ options.print_ast => {q[i] : i \in DOMAIN q} = Wanted
         /\ \A i, j \in DOMAIN q : q[i] = q[j] => i = j
         /\ \A i, j \in DOMAIN q : i < j /\ q[j] \in Includes => q[i] \in Includes
         /\ options.print_ast => q = <<>>
  <1> DEFINE s == IF options.server THEN <<Server>> ELSE <<>>
             c == IF options.client THEN <<Client>> ELSE <<>>
             A == "serialization.h"
             B == "rpc_helper.h"
  <1>1. Requested = (<<A, B>> \o s) \o c
    BY DEF Requested, Headers
  <1>2. A \in Files /\ B \in Files /\ Server \in Files /\ Client \in Files
        /\ A # B /\ A # Server /\ A # Client /\ B # Server /\ B # Client /\ Server # Client
    BY DEF Files, Server, Client
  <1>3. CASE options.print_ast
    BY <1>3 DEF Queue
  <1>9. /\ <<A, B>> \o <<Server>> = <<A, B, Server>>
        /\ <<A, B>> \o <<Client>> = <<A, B, Client>>
        /\ <<A, B, Server>> \o <<Client>> = <<A, B, Server, Client>>
    BY <1>2, TuplesAppend
  <1>11. <<A, B>> \o <<>> = <<A, B>> /\ <<A, B, Server>> \o <<>> = <<A, B, Server>>
    BY <1>2
  <1>4. CASE ~ options.print_ast /\ options.server /\ options.client
    <2>1. q = <<A, B, Server, Client>>
      BY <1>1, <1>2, <1>4, <1>9 DEF Queue
    <2>2. QED
      BY <1>2, <1>4, <2>1 DEF Wanted, Includes
  <1>5. CASE ~ options.print_ast /\ options.server /\ ~ options.client
    <2>1. q = <<A, B, Server>>
      BY <1>1, <1>2, <1>5, <1>9, <1>11 DEF Queue
    <2>2. QED
      BY <1>2, <1>5, <2>1 DEF Wanted, Includes
  <1>6. CASE ~ options.print_ast /\ ~ options.server /\ options.client
    <2>1. q = <<A, B, Client>>
      BY <1>1, <1>2, <1>6, <1>9, <1>11 DEF Queue
    <2>2. QED
      BY <1>2, <1>6, <2>1 DEF Wanted, Includes
  <1>7. CASE ~ options.print_ast /\ ~ options.server /\ ~ options.client
    <2>1. q = <<A, B>>
      BY <1>1, <1>7 DEF Queue
    <2>2. QED
      BY <1>2, <1>7, <2>1 DEF Wanted, Includes
  <1>8. QED
    BY <1>3, <1>4, <1>5, <1>6, <1>7

(* What is left of the queue when its head has been written.               *)
LEMMA TailFacts ==
  ASSUME NEW q \in Seq(Files), q # <<>>,
         \A i, j \in DOMAIN q : q[i] = q[j] => i = j,
         \A i, j \in DOMAIN q : i < j /\ q[j] \in Includes => q[i] \in Includes
  PROVE  /\ Head(q) \in Files /\ Tail(q) \in Seq(Files)
         /\ Head(q) \in {q[i] : i \in DOMAIN q}
         /\ {Tail(q)[i] : i \in DOMAIN Tail(q)} = {q[i] : i \in DOMAIN q} \ {Head(q)}
         /\ \A i, j \in DOMAIN Tail(q) : Tail(q)[i] = Tail(q)[j] => i = j
         /\ \A i, j \in DOMAIN Tail(q) : i < j /\ Tail(q)[j] \in Includes => Tail(q)[i] \in Includes
         /\ Head(q) \notin Includes => \A f \in Includes : f \notin {q[i] : i \in DOMAIN q}
  <1> DEFINE t == Tail(q)
  <1>1. /\ Len(q) \in Nat /\ Len(q) >= 1 /\ DOMAIN q = 1 .. Len(q)
        /\ Head(q) = q[1] /\ Head(q) \in Files
        /\ t \in Seq(Files) /\ Len(t) = Len(q) - 1
        /\ \A i \in 1 .. Len(t) : t[i] = q[i + 1]
    BY HeadTailProperties, LenProperties, EmptySeq
  <1>2. DOMAIN t = 1 .. Len(t)
    BY <1>1, LenProperties
  <1> HIDE DEF t
  <1>3. \A i \in DOMAIN t : i + 1 \in DOMAIN q /\ t[i] = q[i + 1] /\ i + 1 # 1 /\ i \in Nat
    BY <1>1, <1>2
  <1>4. \A i \in DOMAIN q : i # 1 => i - 1 \in DOMAIN t /\ t[i - 1] = q[i] /\ i \in Nat
    BY <1>1, <1>2
  <1>5. 1 \in DOMAIN q
    BY <1>1
  <1>6. {t[i] : i \in DOMAIN t} = {q[i] : i \in DOMAIN q} \ {Head(q)}
    <2>1. ASSUME NEW i \in DOMAIN t
          PROVE  t[i] \in {q[k] : k \in DOMAIN q} \ {Head(q)}
      <3>1. i + 1 \in DOMAIN q /\ t[i] = q[i + 1] /\ i + 1 # 1
        BY <1>3
      <3>2. q[i + 1] # q[1]
        BY <1>5, <3>1
      <3>3. QED
        BY <1>1, <3>1, <3>2
    <2>2. ASSUME NEW i \in DOMAIN q, q[i] # Head(q)
          PROVE  q[i] \in {t[k] : k \in DOMAIN t}
      <3>1. i # 1
        BY <1>1, <2>2
      <3>2. i - 1 \in DOMAIN t /\ t[i - 1] = q[i]
        BY <1>4, <3>1
      <3>3. QED
        BY <3>2
    <2>3. QED
      BY <2>1, <2>2
  <1>7. ASSUME NEW i \in DOMAIN t, NEW j \in DOMAIN t
        PROVE  /\ t[i] = t[j] => i = j
               /\ i < j /\ t[j] \in Includes => t[i] \in Includes
    <2>1. /\ i + 1 \in DOMAIN q /\ t[i] = q[i + 1] /\ i \in Nat
          /\ j + 1 \in DOMAIN q /\ t[j] = q[j + 1] /\ j \in Nat
      BY <1>3
    <2>2. (i < j => i + 1 < j + 1) /\ (i + 1 = j + 1 => i = j)
      BY <2>1
    <2>3. QED
      BY <2>1, <2>2
  <1>8. ASSUME Head(q) \notin Includes, NEW i \in DOMAIN q
        PROVE  q[i] \notin Includes
    <2>1. CASE i = 1
      BY <1>1, <1>8, <2>1
    <2>2. CASE i # 1
      <3>1. 1 < i
        BY <1>1, <2>2
      <3>2. QED
        BY <1>1, <1>5, <1>8, <3>1
    <2>3. QED
      BY <2>1, <2>2
  <1>9. QED
    BY <1>1, <1>5, <1>6, <1>7, <1>8 DEF t

LEMMA InitGInv == Init => GInv
  <1> SUFFICES ASSUME Init
               PROVE  GInv
    OBVIOUS
  <1>1. ShapeOK
    BY DEF Init, ShapeOK, Defaults, Dirs
  <1>2. ~ Generating /\ ~ (runs > 0)
    BY DEF Init, Generating
  <1>3. NoOrphans
    BY DEF Init, NoOrphans, Files, Server, Client
  <1>4. QED
    BY <1>1, <1>2, <1>3 DEF GInv, QueueOK, DoneOK, SuccessIsComplete

-----------------------------------------------------------------------------
(* One lemma per kind of step. *)

(* Reading the arguments touches no file, and nothing is promised yet.     *)
LEMMA ArgsGInv ==
  ASSUME GInv, Start \/ Option \/ OutputDir \/ Input
  PROVE  GInv'
  <1>1. /\ at' = "args" /\ UNCHANGED <<dirs, disk>>
    BY DEF Start, Option, OutputDir, Input
  <1>2. \E a, b, c, d, e : options' = [client |-> a, server |-> b, print_ast |-> c,
                                       output_dir |-> d, input |-> e]
    <2>1. options = [client |-> options.client, server |-> options.server,
                     print_ast |-> options.print_ast, output_dir |-> options.output_dir,
                     input |-> options.input]
      BY DEF GInv, ShapeOK
    <2>2. CASE Start
      BY <2>2 DEF Start, Defaults
    <2>3. CASE Option
      <3>1. PICK arg : arg = Head(args)
        OBVIOUS
      <3>2. \/ options' = [options EXCEPT !.print_ast = TRUE]
            \/ options' = [options EXCEPT !.client = TRUE, !.server = FALSE]
            \/ options' = [options EXCEPT !.client = FALSE, !.server = TRUE]
        BY <2>3 DEF Option, Flag, OnlyClient, OnlyServer
      <3>3. QED
        BY <2>1, <3>2
    <2>4. CASE OutputDir
      BY <2>1, <2>4 DEF OutputDir
    <2>5. CASE Input
      BY <2>1, <2>5 DEF Input
    <2>6. QED
      BY <2>2, <2>3, <2>4, <2>5
  <1>3. ShapeOK'
    BY <1>1, <1>2 DEF GInv, ShapeOK
  <1>4. ~ Generating' /\ at' # "ended"
    BY <1>1 DEF Generating
  <1>5. NoOrphans'
    BY <1>1 DEF GInv, NoOrphans
  <1>6. QED
    BY <1>3, <1>4, <1>5 DEF GInv, QueueOK, DoneOK, SuccessIsComplete

(* A run that ends otherwise than with success leaves nothing to show.     *)
LEMMA FailureGInv ==
  ASSUME GInv, at' = "ended", status' # 0, UNCHANGED <<options, disk>>, dirs' \subseteq Dirs
  PROVE  GInv'
  <1>1. ShapeOK'
    BY DEF GInv, ShapeOK
  <1>2. NoOrphans'
    BY DEF GInv, NoOrphans
  <1>3. ~ Generating'
    BY DEF Generating
  <1>4. QED
    BY <1>1, <1>2, <1>3 DEF GInv, QueueOK, DoneOK, SuccessIsComplete

LEMMA MadeInDirs == GInv => Made \subseteq Dirs
  BY DEF GInv, ShapeOK, Made, Dirs

LEMMA CompileGInv ==
  ASSUME GInv, Compile
  PROVE  GInv'
  <1>0. PICK outcome : outcome = Outcome[options.input]
    OBVIOUS
  <1>1. /\ UNCHANGED <<options, dirs, disk, full>>
        /\ \/ at' = "ended" /\ status' # 0
           \/ /\ at' = "generate" /\ queue' = Queue
              /\ service' = "whole" => Outcome[options'.input] = "valid"
              /\ service' = "lacking" => refused'
    <2>1. ASSUME NEW tree, Compiled(tree)
          PROVE  \/ at' = "ended" /\ status' # 0
                 \/ at' = "generate" /\ queue' = Queue /\ service' = tree
      BY <2>1 DEF Compiled, Exit, Signal
    <2>2. Tree(outcome) # "lacking" /\ (Tree(outcome) = "whole" => outcome = "valid")
      BY DEF Tree
    <2>3. "whole" \notin TreesShort(outcome)
      BY DEF TreesShort
    <2>4. \/ Compiled(Tree(outcome))
          \/ refused' = TRUE /\ \E tree \in TreesShort(outcome) : Compiled(tree)
      BY <1>0 DEF Compile
    <2>5. UNCHANGED <<options, dirs, disk, full>>
      BY DEF Compile
    <2>6. CASE Compiled(Tree(outcome))
      BY <1>0, <2>1, <2>2, <2>5, <2>6
    <2>7. ASSUME refused' = TRUE, NEW tree \in TreesShort(outcome), Compiled(tree)
          PROVE  \/ at' = "ended" /\ status' # 0
                 \/ at' = "generate" /\ queue' = Queue /\ service' # "whole" /\ refused'
      BY <2>1, <2>3, <2>7
    <2>8. QED
      BY <2>4, <2>5, <2>6, <2>7
  <1>2. CASE at' = "ended" /\ status' # 0
    BY <1>1, <1>2, FailureGInv DEF GInv, ShapeOK
  <1>3. CASE at' = "generate" /\ queue' = Queue
    <2>1. /\ queue' \in Seq(Files) /\ InQueue' \subseteq Wanted
          /\ ~ options.print_ast => InQueue' = Wanted
          /\ \A i, j \in DOMAIN queue' : queue'[i] = queue'[j] => i = j
          /\ \A i, j \in DOMAIN queue' : i < j /\ queue'[j] \in Includes => queue'[i] \in Includes
          /\ options.print_ast => queue' = <<>>
      BY <1>3, QueueFacts DEF InQueue
    <2>2. Wanted' = Wanted /\ at' # "write" /\ at' # "ended"
      BY <1>1, <1>3 DEF Wanted
    <2>3. ShapeOK' /\ NoOrphans'
      BY <1>1, <1>3 DEF GInv, ShapeOK, NoOrphans
    <2>4. QueueOK'
      BY <1>1, <2>1, <2>2 DEF QueueOK
    <2>5. DoneOK'
      BY <1>1, <2>1, <2>2 DEF DoneOK
    <2>6. QED
      BY <2>2, <2>3, <2>4, <2>5 DEF GInv, SuccessIsComplete
  <1>4. QED
    BY <1>1, <1>2, <1>3

(* Success is only reported when the queue is empty and the service that   *)
(* cleanup reads is there.                                                 *)
LEMMA FinishGInv ==
  ASSUME GInv, Finish
  PROVE  GInv'
  <1>1. /\ at = "generate" /\ queue = <<>> /\ at' = "ended"
        /\ UNCHANGED <<options, service, dirs, disk, full, refused>>
    BY DEF Finish, Cleanup, Exit
  <1>2. InQueue = {}
    BY <1>1 DEF InQueue
  <1>3. SuccessIsComplete'
    <2> SUFFICES ASSUME ~ options.print_ast
                 PROVE  /\ options.output_dir \in dirs
                        /\ \A f \in Wanted : Written(f)
      BY <1>1 DEF SuccessIsComplete, Written, Wanted, Sources
    <2>1. Wanted \ InQueue = Wanted /\ "serialization.h" \in Wanted
      BY <1>2 DEF Wanted
    <2>2. QED
      BY <1>1, <2>1 DEF GInv, DoneOK, Generating
  <1>4. ShapeOK' /\ NoOrphans'
    BY <1>1 DEF GInv, ShapeOK, NoOrphans
  <1>5. ~ Generating'
    BY <1>1 DEF Generating
  <1>6. QED
    BY <1>3, <1>4, <1>5 DEF GInv, QueueOK, DoneOK

(* What is known of the file at the head of the queue.                     *)
LEMMA HeadFacts ==
  ASSUME GInv, Generating, queue # <<>>
  PROVE  /\ ~ options.print_ast
         /\ queue \in Seq(Files) /\ Head(queue) \in InQueue /\ Head(queue) \in Wanted
         /\ Head(queue) \in Files
         /\ Tail(queue) \in Seq(Files)
         /\ {Tail(queue)[i] : i \in DOMAIN Tail(queue)} = InQueue \ {Head(queue)}
         /\ \A i, j \in DOMAIN Tail(queue) : Tail(queue)[i] = Tail(queue)[j] => i = j
         /\ \A i, j \in DOMAIN Tail(queue) :
              i < j /\ Tail(queue)[j] \in Includes => Tail(queue)[i] \in Includes
         /\ Head(queue) \notin Includes => \A f \in Includes : f \notin InQueue
  <1>1. /\ queue \in Seq(Files) /\ InQueue \subseteq Wanted
        /\ \A i, j \in DOMAIN queue : queue[i] = queue[j] => i = j
        /\ \A i, j \in DOMAIN queue : i < j /\ queue[j] \in Includes => queue[i] \in Includes
        /\ options.print_ast => queue = <<>>
    BY DEF GInv, QueueOK
  <1>2. QED
    BY <1>1, TailFacts DEF InQueue

(* Opening a source finds its headers already written, because they were   *)
(* queued before it: no crash leaves an orphan.                            *)
LEMMA OpenGInv ==
  ASSUME GInv, Open
  PROVE  GInv'
  <1> DEFINE out == options.output_dir
             h   == Head(queue)
  <1>1. /\ at = "generate" /\ at' = "write" /\ queue # <<>> /\ (OfService => Usable)
        /\ out \in Made /\ dirs' = Made
        /\ disk' = [disk EXCEPT ![out][h] = "cut"]
        /\ UNCHANGED <<options, service, queue, status, full, refused, runs>>
    BY DEF Open, Generated
  <1>2. /\ ~ options.print_ast /\ h \in InQueue /\ h \in Wanted /\ h \in Files
        /\ h \notin Includes => \A f \in Includes : f \notin InQueue
    BY <1>1, HeadFacts DEF Generating
  <1>3. out \in Dirs /\ dirs' \subseteq Dirs /\ dirs \subseteq dirs'
    BY <1>1, MadeInDirs DEF Made
  <1>4. disk = [d \in Dirs |-> [f \in Files |-> disk[d][f]]]
    BY DEF GInv, ShapeOK
  <1> HIDE DEF out, h
  <1>5. /\ disk' = [d \in Dirs |-> [f \in Files |-> disk'[d][f]]]
        /\ disk'[out][h] = "cut"
        /\ \A d \in Dirs, f \in Files : d # out \/ f # h => disk'[d][f] = disk[d][f]
    BY <1>1, <1>2, <1>3, <1>4
  <1>6. /\ options' = options /\ out' = out /\ h' = h /\ InQueue' = InQueue /\ Wanted' = Wanted
        /\ OfService' = OfService /\ Usable' = Usable
    BY <1>1 DEF out, h, InQueue, Wanted, OfService, Usable
  <1>7. ShapeOK'
    BY <1>1, <1>3, <1>5 DEF GInv, ShapeOK
  <1>8. QueueOK'
    BY <1>1, <1>6 DEF GInv, QueueOK, Generating
  <1>9. /\ \A f \in Wanted \ InQueue : Written(f)
        /\ Wanted \subseteq Files /\ Includes \subseteq Wanted
    BY <1>1, <1>2 DEF GInv, DoneOK, Generating, Wanted, Files, Includes, Server, Client
  <1>10. DoneOK'
    <2>1. ASSUME NEW f \in Wanted \ InQueue
          PROVE  Written(f)'
      <3>1. disk'[out][f] = disk[out][f]
        BY <1>2, <1>3, <1>5, <1>9
      <3>2. QED
        BY <1>1, <1>9, <3>1 DEF Written, out
    <2>2. out \in dirs'
      BY <1>1
    <2>3. QED
      BY <1>5, <1>6, <2>1, <2>2 DEF DoneOK, out, h
  <1>11. NoOrphans'
    <2>1. SUFFICES ASSUME NEW d \in Dirs, NEW f \in Sources, disk'[d][f] # "absent",
                          NEW g \in Includes
                   PROVE  disk'[d][g] # "absent"
      BY DEF NoOrphans, Sources, Includes
    <2>2. f \in Files /\ g \in Files /\ f \notin Includes
      BY DEF Sources, Includes, Files, Server, Client
    <2>3. CASE d = out /\ f = h
      <3>1. g \in Wanted \ InQueue /\ g \notin Sources
        BY <1>2, <1>9, <2>2, <2>3 DEF Includes, Sources, Server, Client
      <3>2. disk[out][g] # "absent"
        BY <1>9, <3>1 DEF Written, out
      <3>3. g # h
        BY <2>2, <2>3
      <3>4. QED
        BY <1>5, <2>2, <2>3, <3>2, <3>3
    <2>4. CASE ~ (d = out /\ f = h)
      <3>1. disk[d][f] # "absent"
        BY <1>5, <2>1, <2>2, <2>4
      <3>2. disk[d][g] # "absent"
        BY <3>1 DEF GInv, NoOrphans, Sources, Includes
      <3>3. QED
        BY <1>5, <2>2, <3>2
    <2>5. QED
      BY <2>3, <2>4
  <1>12. QED
    BY <1>1, <1>7, <1>8, <1>10, <1>11 DEF GInv, SuccessIsComplete

(* Closing the file makes it whole, or it stays cut: the disk is full, or  *)
(* memory ran out for the tree or the text.                                *)
LEMMA WriteGInv ==
  ASSUME GInv, WriteAndClose
  PROVE  GInv'
  <1> DEFINE out == options.output_dir
             h   == Head(queue)
  <1>1. /\ at = "write" /\ at' = "generate" /\ queue' = Tail(queue)
        /\ \/ disk' = [disk EXCEPT ![out][h] = Content] /\ full' = full /\ refused' = refused
           \/ disk' = disk /\ full' = TRUE /\ refused' = refused
           \/ disk' = disk /\ full' = full /\ refused' = TRUE
        /\ UNCHANGED <<options, service, status, dirs, runs>>
    BY DEF WriteAndClose
  <1>2. /\ queue # <<>> /\ (OfService => Usable)
        /\ service = "whole" => Outcome[options.input] = "valid"
        /\ service = "lacking" => refused
    BY <1>1 DEF GInv, QueueOK, Generating
  <1>3. /\ ~ options.print_ast /\ h \in InQueue /\ h \in Wanted /\ h \in Files
        /\ queue' \in Seq(Files) /\ InQueue' = InQueue \ {h}
        /\ \A i, j \in DOMAIN queue' : queue'[i] = queue'[j] => i = j
        /\ \A i, j \in DOMAIN queue' : i < j /\ queue'[j] \in Includes => queue'[i] \in Includes
        /\ h \notin Includes => \A f \in Includes : f \notin InQueue
    BY <1>1, <1>2, HeadFacts DEF Generating, InQueue
  <1>4. /\ out \in dirs /\ disk[out][h] = "cut" /\ \A f \in Wanted \ InQueue : Written(f)
        /\ InQueue \subseteq Wanted
    BY <1>1, <1>3 DEF GInv, DoneOK, QueueOK, Generating
  <1>5. disk = [d \in Dirs |-> [f \in Files |-> disk[d][f]]] /\ out \in Dirs
    BY <1>4 DEF GInv, ShapeOK
  <1>6. \/ Content = IF h \in Sources THEN options.input ELSE "fixed"
        \/ h \in Sources /\ refused /\ Content = "cut"
    BY <1>2 DEF Content, OfService, Usable, Sources
  <1> HIDE DEF out, h
  <1>7. /\ disk' = [d \in Dirs |-> [f \in Files |-> disk'[d][f]]]
        /\ \A d \in Dirs, f \in Files : d # out \/ f # h => disk'[d][f] = disk[d][f]
        /\ \/ disk'[out][h] = Content
           \/ disk'[out][h] = "cut" /\ (full' \/ refused')
        /\ (full \/ refused) => (full' \/ refused')
    <2>1. CASE disk' = [disk EXCEPT ![out][h] = Content] /\ full' = full /\ refused' = refused
      <3>1. PICK x : x = Content
        OBVIOUS
      <3>2. disk' = [disk EXCEPT ![out][h] = x]
        BY <2>1, <3>1
      <3>3. /\ disk' = [d \in Dirs |-> [f \in Files |-> disk'[d][f]]]
            /\ disk'[out][h] = x
            /\ \A d \in Dirs, f \in Files : d # out \/ f # h => disk'[d][f] = disk[d][f]
        BY <1>3, <1>5, <3>2
      <3>4. QED
        BY <2>1, <3>1, <3>3
    <2>2. CASE disk' = disk /\ full' = TRUE /\ refused' = refused
      BY <1>3, <1>4, <1>5, <2>2
    <2>3. CASE disk' = disk /\ full' = full /\ refused' = TRUE
      BY <1>3, <1>4, <1>5, <2>3
    <2>4. QED
      BY <1>1, <2>1, <2>2, <2>3
  <1>8. options' = options /\ out' = out /\ Wanted' = Wanted
    BY <1>1 DEF out, Wanted
  <1>9. /\ Wanted \subseteq Files /\ Includes \subseteq Wanted
    BY DEF Wanted, Files, Includes, Server, Client
  <1>10. ShapeOK'
    BY <1>1, <1>7 DEF GInv, ShapeOK
  <1>11. QueueOK'
    BY <1>1, <1>2, <1>3, <1>4, <1>8 DEF QueueOK
  <1>12. DoneOK'
    <2>1. ASSUME NEW f \in Wanted \ InQueue'
          PROVE  Written(f)'
      <3>1. CASE f = h
        <4>1. CASE disk'[out][h] = "cut" /\ (full' \/ refused')
          BY <1>8, <3>1, <4>1 DEF Written, out
        <4>2. CASE disk'[out][h] = Content
          BY <1>6, <1>7, <1>8, <3>1, <4>2 DEF Written, out
        <4>3. QED
          BY <1>7, <4>1, <4>2
      <3>2. CASE f # h
        <4>1. Written(f) /\ disk'[out][f] = disk[out][f]
          BY <1>3, <1>4, <1>5, <1>7, <1>9, <2>1, <3>2
        <4>2. (full \/ refused) => (full' \/ refused')
          BY <1>7
        <4>3. QED
          BY <1>8, <4>1, <4>2 DEF Written, out
      <3>3. QED
        BY <3>1, <3>2
    <2>2. out \in dirs'
      BY <1>1, <1>4
    <2>3. QED
      BY <1>1, <1>8, <2>1, <2>2 DEF DoneOK, out
  <1>13. NoOrphans'
    <2>1. SUFFICES ASSUME NEW d \in Dirs, NEW f \in Sources, disk'[d][f] # "absent",
                          NEW g \in Includes
                   PROVE  disk'[d][g] # "absent"
      BY DEF NoOrphans, Sources, Includes
    <2>2. f \in Files /\ g \in Files /\ g \notin Sources
      BY DEF Sources, Includes, Files, Server, Client
    <2>3. disk[d][f] # "absent"
      BY <1>4, <1>7, <2>1, <2>2
    <2>4. disk[d][g] # "absent"
      BY <2>3 DEF GInv, NoOrphans, Sources, Includes
    <2>5. CASE d = out /\ g = h
      BY <1>6, <1>7, <2>2, <2>5
    <2>6. CASE ~ (d = out /\ g = h)
      BY <1>7, <2>2, <2>4, <2>6
    <2>7. QED
      BY <2>5, <2>6
  <1>14. QED
    BY <1>1, <1>10, <1>11, <1>12, <1>13 DEF GInv, SuccessIsComplete

LEMMA StepGInv == GInv /\ [Next]_vars => GInv'
  <1> SUFFICES ASSUME GInv, [Next]_vars
               PROVE  GInv'
    OBVIOUS
  <1>1. CASE Start \/ Option \/ OutputDir \/ Input
    BY <1>1, ArgsGInv
  <1>2. CASE UsageError
    BY <1>2, FailureGInv DEF UsageError, Exit, GInv, ShapeOK
  <1>3. CASE Compile
    BY <1>3, CompileGInv
  <1>4. CASE Finish
    BY <1>4, FinishGInv
  <1>5. CASE GenerationFails
    BY <1>5, FailureGInv DEF GenerationFails, Cleanup, Exit, Signal, GInv, ShapeOK
  <1>6. CASE CannotOpen
    BY <1>6, FailureGInv, MadeInDirs DEF CannotOpen, Cleanup, Exit, Signal
  <1>7. CASE Open
    BY <1>7, OpenGInv
  <1>8. CASE WriteAndClose
    BY <1>8, WriteGInv
  <1>9. CASE Killed
    BY <1>9, FailureGInv DEF Killed, Exit, Signal, GInv, ShapeOK
  <1>10. CASE UNCHANGED vars
    <2>1. UNCHANGED <<options, service, queue, at, status, dirs, disk, full, refused, runs>>
      BY <1>10 DEF vars
    <2>2. /\ Generating' = Generating /\ InQueue' = InQueue /\ Wanted' = Wanted
          /\ OfService' = OfService /\ Usable' = Usable /\ \A f \in Wanted : Written(f)' = Written(f)
      BY <2>1 DEF Generating, InQueue, Wanted, OfService, Usable, Written
    <2>3. (ShapeOK /\ NoOrphans)' /\ (SuccessIsComplete' = SuccessIsComplete)
      BY <2>1, <2>2 DEF GInv, ShapeOK, NoOrphans, SuccessIsComplete
    <2>4. QueueOK'
      BY <2>1, <2>2 DEF GInv, QueueOK
    <2>5. DoneOK'
      BY <2>1, <2>2 DEF GInv, DoneOK
    <2>6. QED
      BY <2>3, <2>4, <2>5 DEF GInv
  <1>11. QED
    BY <1>1, <1>2, <1>3, <1>4, <1>5, <1>6, <1>7, <1>8, <1>9, <1>10 DEF Next

LEMMA GenGInv == Spec => []GInv
  BY InitGInv, StepGInv, PTL DEF Spec

-----------------------------------------------------------------------------
(* What the command line means *)

(* Induction over the natural numbers, for a set.                          *)
LEMMA Induction ==
  ASSUME NEW T, 0 \in T, \A n \in Nat : n \in T => n + 1 \in T
  PROVE  Nat \subseteq T
  <1> DEFINE S == {n \in Nat : n \notin T}
  <1>1. ASSUME S # {}  PROVE  FALSE
    <2>1. IsWellFoundedOn(OpToRel(<,Nat), Nat)
      BY NatLessThanWellFounded
    <2>2. PICK R : R = OpToRel(<,Nat)
      OBVIOUS
    <2>3. PICK m \in S : \A n \in S : ~ (<<n, m>> \in R)
      <3>1. S \in SUBSET Nat
        OBVIOUS
      <3> HIDE DEF S
      <3>2. QED
        BY <1>1, <2>1, <2>2, <3>1, WFMin
    <2>4. \A y, z \in Nat : y < z => <<y, z>> \in R
      BY <2>2 DEF OpToRel
    <2>5. m \in Nat /\ m # 0 /\ m - 1 \in Nat /\ m - 1 < m
      OBVIOUS
    <2>6. m - 1 \notin S
      BY <2>3, <2>4, <2>5
    <2>7. (m - 1) + 1 \in T /\ (m - 1) + 1 = m
      BY <2>5, <2>6
    <2>8. QED
      BY <2>7
  <1>2. QED
    BY <1>1

(* t says, up to n, which arguments of the command line a follow an -o     *)
(* that is no directory itself.                                            *)
Follows(t, a, n) == t = [i \in 0..n |-> i > 1 /\ a[i - 1] = "-o" /\ ~ t[i - 1]]

LEMMA FollowsExists ==
  ASSUME NEW a, NEW n \in Nat
  PROVE  \E t : Follows(t, a, n)
  <1> DEFINE T == {k \in Nat : \E t : Follows(t, a, k)}
  <1>1. 0 \in T
    <2> DEFINE t == [i \in 0..0 |-> FALSE]
    <2>1. t = [i \in 0..0 |-> i > 1 /\ a[i - 1] = "-o" /\ ~ t[i - 1]]
      <3>1. \A i \in 0..0 : (i > 1 /\ a[i - 1] = "-o" /\ ~ t[i - 1]) = FALSE
        OBVIOUS
      <3> HIDE DEF t
      <3>2. QED
        BY <3>1 DEF t
    <2> HIDE DEF t
    <2>2. Follows(t, a, 0)
      BY <2>1 DEF Follows
    <2>3. QED
      BY <2>2
  <1>2. ASSUME NEW k \in Nat, k \in T
        PROVE  k + 1 \in T
    <2>1. PICK t : Follows(t, a, k)
      BY <1>2
    <2> DEFINE next == k + 1 > 1 /\ a[k] = "-o" /\ ~ t[k]
               u == [i \in 0..k + 1 |-> IF i = k + 1 THEN next ELSE t[i]]
    <2>2. \A i \in 0..k : t[i] = (i > 1 /\ a[i - 1] = "-o" /\ ~ t[i - 1])
      BY <2>1 DEF Follows
    <2>3. ASSUME NEW i \in 0..k + 1
          PROVE  u[i] = (i > 1 /\ a[i - 1] = "-o" /\ ~ u[i - 1])
      <3>1. CASE i = k + 1
        <4>1. i - 1 = k /\ k \in 0..k + 1 /\ k # k + 1
          BY <3>1
        <4>2. u[i] = next /\ u[i - 1] = t[k]
          BY <3>1, <4>1
        <4> HIDE DEF u
        <4>3. QED
          BY <3>1, <4>1, <4>2
      <3>2. CASE i # k + 1 /\ i > 1
        <4>1. i \in 0..k /\ i - 1 \in 0..k + 1 /\ i - 1 # k + 1
          BY <3>2
        <4>2. u[i] = t[i] /\ u[i - 1] = t[i - 1]
          BY <3>2, <4>1
        <4> HIDE DEF u
        <4>3. QED
          BY <2>2, <4>1, <4>2
      <3>3. CASE i # k + 1 /\ ~ (i > 1)
        <4>1. i \in 0..k /\ u[i] = t[i]
          BY <3>3
        <4> HIDE DEF u
        <4>2. t[i] = FALSE
          BY <2>2, <3>3, <4>1
        <4>3. QED
          BY <3>3, <4>1, <4>2
      <3>4. QED
        BY <3>1, <3>2, <3>3
    <2>4. u = [i \in 0..k + 1 |-> u[i]]
      OBVIOUS
    <2> HIDE DEF u
    <2>5. u = [i \in 0..k + 1 |-> i > 1 /\ a[i - 1] = "-o" /\ ~ u[i - 1]]
      BY <2>3, <2>4
    <2>6. Follows(u, a, k + 1)
      BY <2>5 DEF Follows
    <2>7. QED
      BY <2>6
  <1>3. n \in T
    <2> HIDE DEF T
    <2>1. Nat \subseteq T
      BY <1>1, <1>2, Induction
    <2>2. QED
      BY <2>1
  <1>4. QED
    BY <1>3

(* What a line of arguments says of each of them.                          *)
AfterO(t, a) ==
  /\ \A i \in 1..Len(a) : t[i] \in BOOLEAN
  /\ Len(a) > 0 => ~ t[1]
  /\ \A i \in 1..Len(a) - 1 : t[i + 1] <=> a[i] = "-o" /\ ~ t[i]

LEMMA ToOutputFacts ==
  ASSUME NEW a, NEW t, Len(a) \in Nat,
         t = LET u[i \in 0..Len(a)] == i > 1 /\ a[i - 1] = "-o" /\ ~ u[i - 1] IN u
  PROVE  AfterO(t, a)
  <1> DEFINE n == Len(a)
  <1>1. n \in Nat
    OBVIOUS
  <1>2. Follows(t, a, n)
    <2>1. PICK f : Follows(f, a, n)
      <3> HIDE DEF n
      <3>1. QED
        BY <1>1, FollowsExists
    <2>2. t = CHOOSE g : g = [i \in 0..Len(a) |-> i > 1 /\ a[i - 1] = "-o" /\ ~ g[i - 1]]
      OBVIOUS
    <2>3. f = [i \in 0..Len(a) |-> i > 1 /\ a[i - 1] = "-o" /\ ~ f[i - 1]]
      BY <2>1 DEF Follows
    <2> HIDE DEF n
    <2>4. t = [i \in 0..Len(a) |-> i > 1 /\ a[i - 1] = "-o" /\ ~ t[i - 1]]
      BY <2>2, <2>3
    <2>5. QED
      BY <2>4 DEF Follows, n
  <1>3. \A i \in 0..n : t[i] = (i > 1 /\ a[i - 1] = "-o" /\ ~ t[i - 1])
    BY <1>2 DEF Follows
  <1> HIDE DEF n
  <1>4. ASSUME NEW i \in 1..n
        PROVE  t[i] \in BOOLEAN
    <2>1. i \in 0..n
      BY <1>1
    <2>2. t[i] = (i > 1 /\ a[i - 1] = "-o" /\ ~ t[i - 1])
      BY <1>3, <2>1
    <2>3. QED
      BY <2>2, Zenon
  <1>5. ASSUME n > 0
        PROVE  ~ t[1]
    <2>1. 1 \in 0..n /\ ~ (1 > 1)
      BY <1>1, <1>5
    <2>2. t[1] = (1 > 1 /\ a[1 - 1] = "-o" /\ ~ t[1 - 1])
      BY <1>3, <2>1
    <2>3. QED
      BY <2>1, <2>2, Zenon
  <1>6. ASSUME NEW i \in 1..n - 1
        PROVE  t[i + 1] <=> a[i] = "-o" /\ ~ t[i]
    <2>1. i + 1 \in 0..n /\ i + 1 > 1 /\ (i + 1) - 1 = i
      BY <1>1
    <2>2. QED
      BY <1>3, <2>1
  <1>7. QED
    BY <1>4, <1>5, <1>6 DEF n, AfterO

(* What the first p arguments of the line a mean, read as a whole, is what *)
(* the options o say: the side the last of --client and --server chose     *)
(* (the other one is off, whether it was named before or not),             *)
(* whether --ast was there, the last directory, and the one input.         *)
Sides == {"--client", "--server"}
Owned(t, a, p, words) == {i \in 1..p : ~ t[i] /\ a[i] \in words}

SideMeant(t, a, p, o) ==
  \/ Owned(t, a, p, Sides) = {} /\ o.server = TRUE /\ o.client = TRUE
  \/ \E i \in Owned(t, a, p, Sides) :
       /\ \A j \in Owned(t, a, p, Sides) : j <= i
       /\ o.server = (a[i] = "--server") /\ o.client = (a[i] = "--client")
AstMeant(t, a, p, o) == o.print_ast = (Owned(t, a, p, {"--ast"}) # {})
DirMeant(t, a, p, o) ==
  \/ (\A i \in 1..p : ~ t[i]) /\ o.output_dir = "."
  \/ \E i \in 1..p : t[i] /\ (\A j \in 1..p : t[j] => j <= i) /\ o.output_dir = a[i]
InputMeant(t, a, p, o) ==
  /\ \A i \in 1..p : ~ t[i] /\ a[i] \notin Flags => a[i] = o.input
  /\ o.input # Null => \E i \in 1..p : ~ t[i] /\ a[i] \notin Flags

Meant(t, a, p, o) == SideMeant(t, a, p, o) /\ AstMeant(t, a, p, o)
                       /\ DirMeant(t, a, p, o) /\ InputMeant(t, a, p, o)

(* args is what is left of argv, and no directory for an -o: what was      *)
(* taken means what the options say.                                       *)
Parsed == Len(argv) - Len(args)

ArgsLeft ==
  /\ argv \in ArgLists /\ args \in Seq(STRING \ {Null}) /\ Parsed \in Nat
  /\ \A i \in 1..Len(args) : args[i] = argv[Parsed + i]

OptInv ==
  at # "ended" =>
    /\ ArgsLeft
    /\ args # <<>> => ~ ToOutput[Parsed + 1]
    /\ Meant(ToOutput, argv, Parsed, options)
    /\ at \in {"generate", "write"} => args = <<>> /\ options.input # Null

(* One argument that is no directory is read on its own.                   *)
LEMMA OwnArgument ==
  ASSUME NEW t, NEW a, NEW p \in Nat, NEW words,
         ~ t[p + 1], a[p + 1] \in words
  PROVE  /\ p + 1 \in Owned(t, a, p + 1, words)
         /\ \A j \in Owned(t, a, p + 1, words) : j <= p + 1
         /\ Owned(t, a, p + 1, words) # {}
  BY DEF Owned

LEMMA OtherArgument ==
  ASSUME NEW t, NEW a, NEW p \in Nat, NEW words,
         t[p + 1] \/ a[p + 1] \notin words
  PROVE  Owned(t, a, p + 1, words) = Owned(t, a, p, words)
  <1>1. \A i \in 1..p + 1 : i = p + 1 \/ i \in 1..p
    OBVIOUS
  <1>2. \A i \in 1..p : i \in 1..p + 1
    OBVIOUS
  <1>3. QED
    BY <1>1, <1>2 DEF Owned

LEMMA DirKept ==
  ASSUME NEW t, NEW a, NEW p \in Nat, NEW o, NEW u,
         ~ t[p + 1], DirMeant(t, a, p, o), u.output_dir = o.output_dir
  PROVE  DirMeant(t, a, p + 1, u)
  <1>1. \A i \in 1..p + 1 : i = p + 1 \/ i \in 1..p
    OBVIOUS
  <1>2. \A i \in 1..p : i \in 1..p + 1
    OBVIOUS
  <1>3. QED
    BY <1>1, <1>2 DEF DirMeant

LEMMA InputKept ==
  ASSUME NEW t, NEW a, NEW p \in Nat, NEW o, NEW u,
         t[p + 1] \/ a[p + 1] \in Flags, InputMeant(t, a, p, o), u.input = o.input
  PROVE  InputMeant(t, a, p + 1, u)
  <1>1. \A i \in 1..p + 1 : i = p + 1 \/ i \in 1..p
    OBVIOUS
  <1>2. \A i \in 1..p : i \in 1..p + 1
    OBVIOUS
  <1>3. QED
    BY <1>1, <1>2 DEF InputMeant

LEMMA SideKept ==
  ASSUME NEW t, NEW a, NEW p \in Nat, NEW o, NEW u,
         t[p + 1] \/ a[p + 1] \notin Sides, SideMeant(t, a, p, o),
         u.server = o.server, u.client = o.client
  PROVE  SideMeant(t, a, p + 1, u)
  BY OtherArgument DEF SideMeant

LEMMA AstKept ==
  ASSUME NEW t, NEW a, NEW p \in Nat, NEW o, NEW u,
         t[p + 1] \/ a[p + 1] \notin {"--ast"}, AstMeant(t, a, p, o),
         u.print_ast = o.print_ast
  PROVE  AstMeant(t, a, p + 1, u)
  BY OtherArgument DEF AstMeant

(* The first three alternatives of parse_args.                             *)
LEMMA OptionMeant ==
  ASSUME NEW t, NEW a, NEW p \in Nat,
         Meant(t, a, p, options), ~ t[p + 1], ShapeOK,
         a[p + 1] \in {"--ast", "--client", "--server"}, Flag(a[p + 1])
  PROVE  Meant(t, a, p + 1, options')
  <1>1. a[p + 1] \in Flags
    BY DEF Flags
  <1>2. options = [client |-> options.client, server |-> options.server,
                   print_ast |-> options.print_ast, output_dir |-> options.output_dir,
                   input |-> options.input]
    BY DEF ShapeOK
  <1>3. CASE a[p + 1] = "--ast"
    <2>1. options' = [options EXCEPT !.print_ast = TRUE]
      BY <1>3 DEF Flag
    <2>2. /\ options'.client = options.client /\ options'.server = options.server
          /\ options'.output_dir = options.output_dir /\ options'.input = options.input
          /\ options'.print_ast = TRUE
      BY <1>2, <2>1
    <2>3. a[p + 1] \notin Sides /\ a[p + 1] \in {"--ast"}
      BY <1>3 DEF Sides
    <2>4. AstMeant(t, a, p + 1, options')
      <3>1. Owned(t, a, p + 1, {"--ast"}) # {}
        BY <2>3, OwnArgument
      <3>2. QED
        BY <2>2, <3>1 DEF AstMeant
    <2>5. QED
      BY <1>1, <2>2, <2>3, <2>4, SideKept, DirKept, InputKept DEF Meant
  <1>4. CASE a[p + 1] \in Sides
    <2>1. /\ options'.server = (a[p + 1] = "--server") /\ options'.client = (a[p + 1] = "--client")
          /\ options'.output_dir = options.output_dir /\ options'.input = options.input
          /\ options'.print_ast = options.print_ast
      <3>1. CASE a[p + 1] = "--client"
        <4>1. options' = [options EXCEPT !.client = TRUE, !.server = FALSE]
          BY <3>1 DEF Flag, OnlyClient
        <4>2. QED
          BY <1>2, <3>1, <4>1
      <3>2. CASE a[p + 1] = "--server"
        <4>1. options' = [options EXCEPT !.client = FALSE, !.server = TRUE]
          BY <3>2 DEF Flag, OnlyServer
        <4>2. QED
          BY <1>2, <3>2, <4>1
      <3>3. QED
        BY <1>4, <3>1, <3>2 DEF Sides
    <2>2. SideMeant(t, a, p + 1, options')
      <3>1. /\ p + 1 \in Owned(t, a, p + 1, Sides)
            /\ \A j \in Owned(t, a, p + 1, Sides) : j <= p + 1
        BY <1>4, OwnArgument
      <3>2. QED
        BY <2>1, <3>1 DEF SideMeant
    <2>3. a[p + 1] \notin {"--ast"}
      BY <1>4 DEF Sides
    <2>4. QED
      BY <1>1, <2>1, <2>2, <2>3, AstKept, DirKept, InputKept DEF Meant
  <1>5. QED
    BY <1>3, <1>4 DEF Sides

(* -o and the directory behind it.                                         *)
LEMMA OutputDirMeant ==
  ASSUME NEW t, NEW a, NEW p \in Nat, NEW o, NEW u,
         Meant(t, a, p, o), ~ t[p + 1], t[p + 2], a[p + 1] = "-o",
         u.client = o.client, u.server = o.server, u.print_ast = o.print_ast,
         u.input = o.input, u.output_dir = a[p + 2]
  PROVE  Meant(t, a, p + 2, u)
  <1>1. a[p + 1] \in Flags /\ a[p + 1] \notin Sides /\ a[p + 1] \notin {"--ast"}
    BY DEF Flags, Sides
  <1>2. SideMeant(t, a, p + 1, u) /\ AstMeant(t, a, p + 1, u) /\ InputMeant(t, a, p + 1, u)
    BY <1>1, SideKept, AstKept, InputKept DEF Meant
  <1>3. PICK q \in Nat : q = p + 1 /\ q + 1 = p + 2 /\ t[q + 1]
    OBVIOUS
  <1>4. SideMeant(t, a, q + 1, u) /\ AstMeant(t, a, q + 1, u) /\ InputMeant(t, a, q + 1, u)
    BY <1>2, <1>3, SideKept, AstKept, InputKept
  <1>5. DirMeant(t, a, p + 2, u)
    <2>1. p + 2 \in 1..p + 2 /\ \A j \in 1..p + 2 : j <= p + 2
      OBVIOUS
    <2>2. QED
      BY <2>1 DEF DirMeant
  <1>6. QED
    BY <1>3, <1>4, <1>5 DEF Meant

(* An argument that is no option is the input.                             *)
LEMMA ArgumentMeant ==
  ASSUME NEW t, NEW a, NEW p \in Nat, NEW o, NEW u,
         Meant(t, a, p, o), ~ t[p + 1], a[p + 1] \notin Flags, o.input = Null,
         \A i \in 1..p : a[i] # Null,
         u.client = o.client, u.server = o.server, u.print_ast = o.print_ast,
         u.output_dir = o.output_dir, u.input = a[p + 1]
  PROVE  Meant(t, a, p + 1, u)
  <1>1. a[p + 1] \notin Sides /\ a[p + 1] \notin {"--ast"}
    BY DEF Flags, Sides
  <1>2. SideMeant(t, a, p + 1, u) /\ AstMeant(t, a, p + 1, u) /\ DirMeant(t, a, p + 1, u)
    BY <1>1, SideKept, AstKept, DirKept DEF Meant
  <1>3. InputMeant(t, a, p + 1, u)
    <2>1. ASSUME NEW i \in 1..p + 1, ~ t[i], a[i] \notin Flags
          PROVE  i = p + 1
      <3>1. CASE i \in 1..p
        BY <2>1, <3>1 DEF Meant, InputMeant
      <3>2. QED
        BY <3>1
    <2>2. p + 1 \in 1..p + 1
      OBVIOUS
    <2>3. QED
      BY <2>1, <2>2 DEF InputMeant
  <1>4. QED
    BY <1>2, <1>3 DEF Meant

LEMMA InitOptInv == Init => OptInv
  BY DEF Init, OptInv

(* What is left when the first arguments are dropped.                      *)
LEMMA LeftBehind ==
  ASSUME ArgsLeft, NEW k \in 1..2, Len(args) >= k, argv' = argv,
         args' = IF k = 1 THEN Tail(args) ELSE Tail(Tail(args))
  PROVE  /\ ArgsLeft' /\ Parsed' = Parsed + k
         /\ \A i \in 1..k : args[i] = argv[Parsed + i] /\ Parsed + i <= Len(argv)
         /\ Head(args) = argv[Parsed + 1]
         /\ args' # <<>> => Parsed + k < Len(argv)
  <1> DEFINE S == STRING \ {Null}
  <1>1. args \in Seq(S) /\ argv \in Seq(S) /\ args # <<>>
    BY ArgListsAssumption DEF ArgsLeft
  <1>2. PICK n \in Nat, m \in Nat : n = Len(args) /\ m = Len(argv)
    BY <1>1
  <1>3. args' \in Seq(S) /\ Len(args') = n - k /\ \A i \in 1..n - k : args'[i] = args[i + k]
    <2>1. Tail(args) \in Seq(S) /\ Len(Tail(args)) = n - 1
          /\ \A i \in 1..n - 1 : Tail(args)[i] = args[i + 1]
      BY <1>1, <1>2, HeadTailProperties
    <2>2. CASE k = 1
      BY <2>1, <2>2
    <2>3. CASE k = 2
      <3>1. PICK r \in Seq(S) : r = Tail(args)
        BY <2>1
      <3>2. r # <<>> /\ Len(r) = n - 1 /\ \A i \in 1..n - 1 : r[i] = args[i + 1]
        BY <1>2, <2>1, <2>3, <3>1
      <3>3. Tail(r) \in Seq(S) /\ Len(Tail(r)) = n - 2
            /\ \A i \in 1..n - 2 : Tail(r)[i] = r[i + 1]
        BY <3>2, HeadTailProperties
      <3>4. args' = Tail(r)
        BY <2>3, <3>1
      <3>5. ASSUME NEW i \in 1..n - 2  PROVE  Tail(r)[i] = args[i + 2]
        <4>1. i + 1 \in 1..n - 1 /\ (i + 1) + 1 = i + 2
          BY <1>2
        <4>2. QED
          BY <3>2, <3>3, <4>1
      <3>6. QED
        BY <2>3, <3>3, <3>4, <3>5
    <2>4. QED
      BY <2>2, <2>3
  <1>4. Parsed = m - n /\ Parsed' = m - (n - k) /\ m - n \in Nat /\ n >= k
    BY <1>2, <1>3 DEF ArgsLeft, Parsed
  <1>5. Parsed' = Parsed + k /\ Parsed' \in Nat
    BY <1>4
  <1>6. ASSUME NEW i \in 1..n - k  PROVE  args'[i] = argv'[Parsed' + i]
    <2>1. i + k \in 1..n /\ Parsed' + i = Parsed + (i + k)
      BY <1>2, <1>4
    <2>2. QED
      BY <1>2, <1>3, <2>1 DEF ArgsLeft
  <1>7. ArgsLeft'
    BY <1>3, <1>5, <1>6 DEF ArgsLeft
  <1>8. \A i \in 1..k : args[i] = argv[Parsed + i] /\ Parsed + i <= Len(argv)
    BY <1>2, <1>4 DEF ArgsLeft
  <1>9. args' # <<>> => n - k # 0
    BY <1>3
  <1>10. args' # <<>> => Parsed + k < Len(argv)
    BY <1>2, <1>4, <1>9
  <1>11. Head(args) = argv[Parsed + 1]
    BY <1>1, <1>8
  <1>12. QED
    BY <1>5, <1>7, <1>8, <1>10, <1>11

LEMMA ArgvFacts ==
  ASSUME ArgsLeft
  PROVE  /\ AfterO(ToOutput, argv) /\ Len(argv) \in Nat
         /\ Parsed <= Len(argv)
         /\ \A i \in 1..Len(argv) : argv[i] # Null
  <1>1. argv \in Seq(STRING \ {Null})
    BY ArgListsAssumption DEF ArgsLeft
  <1>2. Len(argv) \in Nat /\ Len(args) \in Nat
    BY <1>1 DEF ArgsLeft
  <1>3. AfterO(ToOutput, argv)
    BY <1>2, ToOutputFacts DEF ToOutput
  <1>4. QED
    BY <1>1, <1>2, <1>3 DEF Parsed

LEMMA StepOptInv == GInv /\ OptInv /\ [Next]_vars => OptInv'
  <1> SUFFICES ASSUME GInv, OptInv, [Next]_vars, at' # "ended"
               PROVE  OptInv'
    BY DEF OptInv
  <1>1. CASE Start
    <2>1. /\ argv' \in ArgLists /\ args' = argv' /\ options' = Defaults /\ at' = "args"
      BY <1>1 DEF Start
    <2>2. argv' \in Seq(STRING \ {Null}) /\ Len(argv') \in Nat
      BY <2>1, ArgListsAssumption
    <2>3. Parsed' = 0
      BY <2>1, <2>2 DEF Parsed
    <2>4. ArgsLeft'
      BY <2>1, <2>2, <2>3 DEF ArgsLeft
    <2>5. AfterO(ToOutput', argv')
      BY <2>2, ToOutputFacts DEF ToOutput
    <2>6. args' # <<>> => ~ ToOutput'[Parsed' + 1]
      <3>1. args' # <<>> => Len(argv') > 0
        BY <2>1, <2>2
      <3>2. QED
        BY <2>3, <2>5, <3>1 DEF AfterO
    <2>7. Meant(ToOutput', argv', 0, Defaults)
      <3>1. PICK t, a : t = ToOutput' /\ a = argv'
        OBVIOUS
      <3>2. \A i \in 1..0 : FALSE
        OBVIOUS
      <3>3. \A words : Owned(t, a, 0, words) = {}
        BY <3>2 DEF Owned
      <3>4. SideMeant(t, a, 0, Defaults) /\ AstMeant(t, a, 0, Defaults)
        BY <3>3 DEF SideMeant, AstMeant, Defaults
      <3>5. DirMeant(t, a, 0, Defaults) /\ InputMeant(t, a, 0, Defaults)
        BY <3>2 DEF DirMeant, InputMeant, Defaults
      <3>6. QED
        BY <3>1, <3>4, <3>5 DEF Meant
    <2>8. QED
      BY <2>1, <2>3, <2>4, <2>6, <2>7 DEF OptInv
  <1>2. CASE Option \/ OutputDir \/ Input
    <2>1. /\ at = "args" /\ at' = "args" /\ argv' = argv /\ args # <<>> /\ ToOutput' = ToOutput
      BY <1>2 DEF Option, OutputDir, Input, ToOutput
    <2>2. PICK t, a, p : t = ToOutput /\ a = argv /\ p = Parsed
      OBVIOUS
    <2>3. ArgsLeft /\ ~ t[p + 1] /\ Meant(t, a, p, options) /\ p \in Nat
      BY <2>1, <2>2 DEF OptInv, ArgsLeft
    <2>4. AfterO(t, a) /\ Len(a) \in Nat /\ p <= Len(a) /\ (\A i \in 1..Len(a) : a[i] # Null)
      BY <2>2, <2>3, ArgvFacts
    <2>5. Len(args) >= 1
      BY <2>1, <2>3 DEF ArgsLeft
    <2>6. CASE Option \/ Input
      <3>1. args' = Tail(args)
        BY <2>6 DEF Option, Input
      <3>2. /\ ArgsLeft' /\ Parsed' = p + 1 /\ p + 1 <= Len(a) /\ Head(args) = a[p + 1]
            /\ args' # <<>> => p + 1 < Len(a)
        <4>1. 1 \in 1..2
          OBVIOUS
        <4>2. QED
          BY <2>1, <2>2, <2>3, <2>5, <3>1, <4>1, LeftBehind
      <3>3. a[p + 1] # "-o"
        BY <2>6, <3>2 DEF Option, Input, Flags
      <3>4. args' # <<>> => ~ t[(p + 1) + 1]
        <4>1. args' # <<>> => p + 1 \in 1..Len(a) - 1
          BY <2>3, <2>4, <3>2
        <4>2. QED
          BY <2>4, <3>3, <4>1 DEF AfterO
      <3>5. Meant(t, a, p + 1, options')
        <4>1. CASE Option
          <5>1. Flag(a[p + 1]) /\ a[p + 1] \in {"--ast", "--client", "--server"}
            BY <3>2, <4>1 DEF Option
          <5>2. QED
            BY <2>3, <5>1, OptionMeant DEF GInv
        <4>2. CASE Input
          <5>1. /\ options.input = Null /\ a[p + 1] \notin Flags
                /\ options' = [options EXCEPT !.input = a[p + 1]]
            BY <3>2, <4>2 DEF Input
          <5>2. /\ options'.client = options.client /\ options'.server = options.server
                /\ options'.print_ast = options.print_ast
                /\ options'.output_dir = options.output_dir /\ options'.input = a[p + 1]
            BY <5>1 DEF GInv, ShapeOK
          <5>3. \A i \in 1..p : a[i] # Null
            BY <2>3, <2>4
          <5>4. QED
            BY <2>3, <5>1, <5>2, <5>3, ArgumentMeant
        <4>3. QED
          BY <2>6, <4>1, <4>2
      <3>6. QED
        BY <2>1, <2>2, <3>2, <3>4, <3>5 DEF OptInv
    <2>7. CASE OutputDir
      <3>1. /\ args' = Tail(Tail(args)) /\ Len(args) >= 2 /\ Head(args) = "-o"
            /\ options' = [options EXCEPT !.output_dir = args[2]]
        BY <2>3, <2>7 DEF OutputDir, ArgsLeft
      <3>2. /\ ArgsLeft' /\ Parsed' = p + 2 /\ p + 2 <= Len(a) /\ a[p + 1] = "-o"
            /\ args[2] = a[p + 2]
            /\ args' # <<>> => p + 2 < Len(a)
        <4>1. 2 \in 1..2 /\ 2 # 1
          OBVIOUS
        <4>2. /\ ArgsLeft' /\ Parsed' = Parsed + 2
              /\ \A i \in 1..2 : args[i] = argv[Parsed + i] /\ Parsed + i <= Len(argv)
              /\ Head(args) = argv[Parsed + 1]
              /\ args' # <<>> => Parsed + 2 < Len(argv)
          BY <2>1, <2>3, <3>1, <4>1, LeftBehind
        <4>3. QED
          BY <2>2, <3>1, <4>1, <4>2
      <3>3. t[p + 2]
        <4>1. p + 1 \in 1..Len(a) - 1 /\ (p + 1) + 1 = p + 2
          BY <2>3, <2>4, <3>2
        <4>2. QED
          BY <2>3, <2>4, <3>2, <4>1 DEF AfterO
      <3>4. args' # <<>> => ~ t[(p + 2) + 1]
        <4>1. args' # <<>> => p + 2 \in 1..Len(a) - 1
          BY <2>3, <2>4, <3>2
        <4>2. QED
          BY <2>4, <3>3, <4>1 DEF AfterO
      <3>5. Meant(t, a, p + 2, options')
        <4>1. /\ options'.client = options.client /\ options'.server = options.server
              /\ options'.print_ast = options.print_ast
              /\ options'.input = options.input /\ options'.output_dir = a[p + 2]
          BY <3>1, <3>2 DEF GInv, ShapeOK
        <4>2. QED
          BY <2>3, <3>2, <3>3, <4>1, OutputDirMeant
      <3>6. QED
        BY <2>1, <2>2, <3>2, <3>4, <3>5 DEF OptInv
    <2>8. QED
      BY <1>2, <2>6, <2>7
  <1>3. CASE Compile
    <2>1. /\ at = "args" /\ args = <<>> /\ options.input # Null
          /\ UNCHANGED <<argv, args, options>>
      BY <1>3 DEF Compile
    <2>2. ToOutput' = ToOutput /\ Parsed' = Parsed /\ ArgsLeft' = ArgsLeft
      BY <2>1 DEF ToOutput, Parsed, ArgsLeft
    <2>3. QED
      BY <2>1, <2>2 DEF OptInv
  <1>4. CASE UsageError \/ Finish \/ GenerationFails \/ CannotOpen \/ Killed
    BY <1>4 DEF UsageError, Finish, GenerationFails, CannotOpen, Killed, Cleanup, Exit
  <1>5. CASE Open \/ WriteAndClose \/ UNCHANGED vars
    <2>1. /\ UNCHANGED <<argv, args, options>>
          /\ \/ at \in {"generate", "write"} /\ at' \in {"generate", "write"}
             \/ at' = at
      BY <1>5 DEF Open, WriteAndClose, vars
    <2>2. ToOutput' = ToOutput /\ Parsed' = Parsed /\ ArgsLeft' = ArgsLeft
      BY <2>1 DEF ToOutput, Parsed, ArgsLeft
    <2>3. QED
      BY <2>1, <2>2 DEF OptInv
  <1>6. QED
    BY <1>1, <1>2, <1>3, <1>4, <1>5 DEF Next

(* The meaning of the whole line, in the words of OptionsMeant.            *)
LEMMA AllMeant == GInv /\ OptInv => OptionsMeant
  <1> SUFFICES ASSUME GInv, OptInv, at = "generate"
               PROVE  OptionsMeant
    BY DEF OptionsMeant
  <1>1. /\ ArgsLeft /\ Meant(ToOutput, argv, Parsed, options) /\ args = <<>>
        /\ options.input # Null
    BY DEF OptInv
  <1>2. PICK t, a, n : t = ToOutput /\ a = argv /\ n = Len(argv) /\ n \in Nat
    BY <1>1, ArgvFacts
  <1>3. Meant(t, a, n, options)
    <2>1. Parsed = n
      BY <1>1, <1>2 DEF Parsed
    <2>2. QED
      BY <1>1, <1>2, <2>1
  <1>4. DOMAIN argv = 1..n
    BY <1>1, <1>2, ArgListsAssumption DEF ArgsLeft
  <1>5. \A words : Own(words) = Owned(t, a, n, words)
    BY <1>2, <1>4 DEF Own, Owned
  <1>6. (Own({"--client"}) = {} \/ Own({"--server"}) = {}) =>
          /\ options.server <=> Own({"--client"}) = {}
          /\ options.client <=> Own({"--server"}) = {}
    <2>1. CASE Owned(t, a, n, Sides) = {} /\ options.server = TRUE /\ options.client = TRUE
      BY <1>5, <2>1 DEF Owned, Sides
    <2>2. ASSUME NEW i \in Owned(t, a, n, Sides),
                 options.server = (a[i] = "--server"), options.client = (a[i] = "--client")
          PROVE  (Own({"--client"}) = {} \/ Own({"--server"}) = {}) =>
                   /\ options.server <=> Own({"--client"}) = {}
                   /\ options.client <=> Own({"--server"}) = {}
      <3>1. \/ a[i] = "--client" /\ i \in Owned(t, a, n, {"--client"})
            \/ a[i] = "--server" /\ i \in Owned(t, a, n, {"--server"})
        BY DEF Owned, Sides
      <3>2. QED
        BY <1>5, <2>2, <3>1
    <2>3. QED
      BY <1>3, <2>1, <2>2 DEF Meant, SideMeant
  <1>7. options.print_ast <=> Own({"--ast"}) # {}
    BY <1>3, <1>5 DEF Meant, AstMeant
  <1>8. /\ \A i \in 1..n : t[i] /\ (\A j \in 1..n : t[j] => j <= i) => options.output_dir = a[i]
        /\ (\A i \in 1..n : ~ t[i]) => options.output_dir = "."
    <2>1. CASE (\A i \in 1..n : ~ t[i]) /\ options.output_dir = "."
      BY <2>1
    <2>2. ASSUME NEW i \in 1..n, t[i], \A j \in 1..n : t[j] => j <= i,
                 options.output_dir = a[i]
          PROVE  /\ \A k \in 1..n : t[k] /\ (\A j \in 1..n : t[j] => j <= k)
                                 => options.output_dir = a[k]
                 /\ (\A k \in 1..n : ~ t[k]) => options.output_dir = "."
      BY <2>2
    <2>3. QED
      BY <1>3, <2>1, <2>2 DEF Meant, DirMeant
  <1>9. {argv[i] : i \in {j \in DOMAIN argv : ~ t[j]} \ Own(Flags)} = {options.input}
    <2>1. \A i : i \in {j \in DOMAIN argv : ~ t[j]} \ Own(Flags)
                   <=> i \in 1..n /\ ~ t[i] /\ a[i] \notin Flags
      BY <1>4, <1>5 DEF Owned
    <2>2. \A i \in 1..n : ~ t[i] /\ a[i] \notin Flags => a[i] = options.input
      BY <1>3 DEF Meant, InputMeant
    <2>3. PICK i \in 1..n : ~ t[i] /\ a[i] \notin Flags
      BY <1>1, <1>3 DEF Meant, InputMeant
    <2>4. QED
      BY <1>2, <2>1, <2>2, <2>3
  <1>10. QED
    BY <1>2, <1>4, <1>6, <1>7, <1>8, <1>9 DEF OptionsMeant

-----------------------------------------------------------------------------
(* The theorems *)

(* A run that reports success has left every file it was asked for, from   *)
(* the definition it was given, or else the disk filled or an allocation   *)
(* failed while it ran (generate_files, write_output_file, main's exit     *)
(* status; vector_add and the emitter, whose results nobody looks at).     *)
THEOREM GenSuccessIsComplete == Spec => []SuccessIsComplete
  <1>1. GInv => SuccessIsComplete
    BY DEF GInv
  <1>2. QED
    BY <1>1, GenGInv, PTL

(* No generated source is ever without the headers it includes, wherever a *)
(* run was killed: generate_files writes them first.                       *)
THEOREM GenNoOrphans == Spec => []NoOrphans
  <1>1. GInv => NoOrphans
    BY DEF GInv
  <1>2. QED
    BY <1>1, GenGInv, PTL

(* A step of rpc_gen changes a file only in the output directory, only if  *)
(* it was asked for, and a source only from a definition that is valid, or *)
(* of which vector_add dropped a part.                                     *)
THEOREM GenWritesOnlyRequested == Spec => WritesOnlyRequested
  <1> DEFINE Asked == \A d \in Dirs, f \in Files : disk'[d][f] # disk[d][f] =>
                        /\ d = options.output_dir /\ f \in Wanted /\ ~ options.print_ast
                        /\ f \in {Server, Client} => Outcome[options.input] = "valid" \/ refused
  <1>1. GInv /\ [Next]_vars => [Asked]_vars
    <2> SUFFICES ASSUME GInv, Next, NEW d \in Dirs, NEW f \in Files, disk'[d][f] # disk[d][f]
                 PROVE  /\ d = options.output_dir /\ f \in Wanted /\ ~ options.print_ast
                        /\ f \in {Server, Client} => Outcome[options.input] = "valid" \/ refused
      OBVIOUS
    <2>1. Open \/ WriteAndClose
      BY DEF Next, Start, Option, OutputDir, Input, UsageError, Compile, Finish,
             GenerationFails, CannotOpen, Killed
    <2>2. /\ Generating /\ queue # <<>> /\ (OfService => Usable)
          /\ service = "whole" => Outcome[options.input] = "valid"
          /\ service = "lacking" => refused
      BY <2>1 DEF Open, WriteAndClose, Generated, Generating, GInv, QueueOK
    <2>3. ~ options.print_ast /\ Head(queue) \in Wanted
      BY <2>2, HeadFacts
    <2>4. \E x : disk' = [disk EXCEPT ![options.output_dir][Head(queue)] = x]
      <3>1. CASE Open
        BY <3>1 DEF Open
      <3>2. CASE WriteAndClose
        BY <3>2 DEF WriteAndClose
      <3>3. QED
        BY <2>1, <3>1, <3>2
    <2>5. d = options.output_dir /\ f = Head(queue)
      BY <2>4 DEF GInv, ShapeOK
    <2>6. QED
      BY <2>2, <2>3, <2>5 DEF OfService, Usable
  <1>2. QED
    BY <1>1, GenGInv, PTL DEF Spec, WritesOnlyRequested

(* The options main hands to the generators are what the command line      *)
(* means, read as a whole (parse_args, argument by argument), unless it    *)
(* names both sides.                                                       *)
THEOREM GenOptionsMeant == Spec => []OptionsMeant
  <1>1. Spec => []OptInv
    BY InitOptInv, StepOptInv, GenGInv, PTL DEF Spec
  <1>2. QED
    BY <1>1, AllMeant, GenGInv, PTL
=============================================================================
