--------------------------------- MODULE RpcGen ---------------------------------
(***************************************************************************)
(* main.c and utility.c: runs of rpc_gen over one file system.  A run      *)
(* reads its arguments one by one, compiles the definition and writes its  *)
(* files one after another; it may be killed between any two steps, and    *)
(* what it wrote stays for the next run.                                   *)
(***************************************************************************)
EXTENDS Naturals, Sequences, FiniteSets

CONSTANTS
  ArgLists,     \* the command lines given, without the program's name
  Outcome,      \* definition file -> valid, unsupported, duplicate, syntax, empty or unreadable
  Creatable,    \* output directories mkdir can make
  Null,         \* a pointer that is NULL
  MayBeKilled,  \* whether a run may die between two steps
  DiskMayFill,  \* whether fputs and fclose may fail
  MemoryMayFail, \* whether malloc and realloc may return NULL
  MaxRuns       \* bound: runs after one another

(* An argument is a string, and no string is NULL.                         *)
ASSUME ArgListsAssumption == \A a \in ArgLists : a \in Seq(STRING \ {Null})

Flags == {"--ast", "--client", "--server", "--help", "-o", "--bogus"}
Headers == <<"serialization.h", "rpc_helper.h">>
Server == "rpc_server.c"
Client == "rpc_client.c"
Files == {"serialization.h", "rpc_helper.h", Server, Client}
Dirs == {"."} \cup Creatable

VARIABLES
  argv,     \* the command line of the run
  args,     \* what parse_args has not looked at
  options,  \* the Options of main
  service,  \* the tree compiled: "none" is NULL, "lacking" what vector_add left of one
  queue,    \* the files still to be generated
  at,       \* where the run stands
  status,   \* its exit status
  dirs,     \* directories that exist
  disk,     \* directory -> file -> absent, cut (it lacks something), or what it holds
  full,     \* whether the disk refused a write of this run
  refused,  \* whether malloc or realloc refused this run something
  runs

vars == <<argv, args, options, service, queue, at, status, dirs, disk, full, refused, runs>>

Defaults == [client |-> TRUE, server |-> TRUE, print_ast |-> FALSE,
             output_dir |-> ".", input |-> Null]

(* What the shell reports of a run a signal ended: not a status of main's. *)
Signal == 128

Init == /\ argv = <<>> /\ args = <<>> /\ options = Defaults /\ service = "none" /\ queue = <<>>
        /\ at = "ended" /\ status = 0
        /\ dirs = {"."}
        /\ disk = [d \in Dirs |-> [f \in Files |-> "absent"]]
        /\ full = FALSE /\ refused = FALSE
        /\ runs = 0

Start == /\ at = "ended" /\ runs < MaxRuns
         /\ argv' \in ArgLists /\ args' = argv'
         /\ options' = Defaults /\ service' = "none" /\ queue' = <<>>
         /\ at' = "args" /\ status' = Null /\ full' = FALSE /\ refused' = FALSE
         /\ runs' = runs + 1
         /\ UNCHANGED <<dirs, disk>>

Exit(s) == at' = "ended" /\ status' = s

-----------------------------------------------------------------------------
(* parse_args                                                              *)
OnlyClientKept == options' = [options EXCEPT !.client = TRUE]    \* mutant: the server stays on
OnlyClient == options' = [options EXCEPT !.client = TRUE, !.server = FALSE]
OnlyServer == options' = [options EXCEPT !.client = FALSE, !.server = TRUE]

Flag(arg) ==
  CASE arg = "--ast"    -> options' = [options EXCEPT !.print_ast = TRUE]
    [] arg = "--client" -> OnlyClient
    [] arg = "--server" -> OnlyServer

Option == /\ at = "args" /\ args # <<>> /\ Head(args) \in {"--ast", "--client", "--server"}
          /\ Flag(Head(args))
          /\ args' = Tail(args)
          /\ UNCHANGED <<argv, service, queue, at, status, dirs, disk, full, refused, runs>>

(* -o takes the next argument, whatever it is.                             *)
OutputDir == /\ at = "args" /\ Len(args) > 1 /\ Head(args) = "-o"
             /\ options' = [options EXCEPT !.output_dir = args[2]]
             /\ args' = Tail(Tail(args))
             /\ UNCHANGED <<argv, service, queue, at, status, dirs, disk, full, refused, runs>>

Input == /\ at = "args" /\ args # <<>> /\ Head(args) \notin Flags
         /\ options.input = Null
         /\ options' = [options EXCEPT !.input = Head(args)]
         /\ args' = Tail(args)
         /\ UNCHANGED <<argv, service, queue, at, status, dirs, disk, full, refused, runs>>

(* --help ends like an error, as do an unknown option, -o without an       *)
(* argument, a second input file, and no input file at all.                *)
UsageError ==
  /\ at = "args"
  /\ \/ args # <<>> /\ Head(args) \in {"--help", "--bogus"}
     \/ args = <<"-o">>
     \/ args # <<>> /\ Head(args) \notin Flags /\ options.input # Null
     \/ args = <<>> /\ options.input = Null
  /\ Exit(2)
  /\ UNCHANGED <<argv, args, options, service, queue, dirs, disk, full, refused, runs>>

-----------------------------------------------------------------------------
(* What generate_files writes, in order.                                   *)
RequestedReversed ==                           \* mutant: the sources before their headers
  (IF options.server THEN <<Server>> ELSE <<>>)
    \o (IF options.client THEN <<Client>> ELSE <<>>) \o Headers
Requested == Headers \o (IF options.server THEN <<Server>> ELSE <<>>)
                     \o (IF options.client THEN <<Client>> ELSE <<>>)

(* print_service_tree instead of files.                                    *)
QueueWithAst == Requested                      \* mutant: --ast goes on to the files
Queue == IF options.print_ast THEN <<>> ELSE Requested

(* compile_file: a definition that cannot be read, or is rejected by       *)
(* validate_service, is NULL and main goes on with it; the parser exits    *)
(* for a syntax error, and a service without methods crashes it.           *)
Tree(outcome) == CASE outcome = "valid" -> "whole"
                   [] outcome \in {"unsupported", "syntax", "empty"} -> outcome
                   [] OTHER -> "none"

(* With an allocation refused: without a buffer the file counts as         *)
(* unreadable, the parser exits without a struct or crashes for want of    *)
(* the service; what vector_add refused it drops, which may take all of    *)
(* the methods, or the duplicate, or a type that is not supported.         *)
TreesShort(outcome) ==
  CASE outcome = "valid" -> {"none", "syntax", "empty", "lacking"}
    [] outcome \in {"unsupported", "duplicate"} -> {"none", "syntax", "empty", "lacking", "unsupported"}
    [] outcome = "syntax" -> {"none", "syntax", "empty"}
    [] outcome = "empty"  -> {"none", "empty"}
    [] OTHER -> {}

Compiled(tree) ==
  CASE tree = "syntax" -> Exit(1) /\ UNCHANGED <<service, queue>>
    [] tree = "empty"  -> Exit(Signal) /\ UNCHANGED <<service, queue>>
    [] OTHER -> /\ at' = "generate" /\ service' = tree /\ queue' = Queue
                /\ UNCHANGED status

Compile ==
  /\ at = "args" /\ args = <<>> /\ options.input # Null
  /\ \/ Compiled(Tree(Outcome[options.input])) /\ UNCHANGED refused
     \/ /\ MemoryMayFail /\ refused' = TRUE
        /\ \E tree \in TreesShort(Outcome[options.input]) : Compiled(tree)
  /\ UNCHANGED <<argv, args, options, dirs, disk, full, runs>>

(* cleanup: free_service reads the service, also when it is NULL, and so   *)
(* does print_service_tree.                                                *)
CleanupReset(s) == Exit(IF service = "none" THEN Signal ELSE 0)  \* mutant: status starts at 0
Cleanup(s) == Exit(IF service = "none" THEN Signal ELSE s)

Finish == /\ at = "generate" /\ queue = <<>>
          /\ Cleanup(0)
          /\ UNCHANGED <<argv, args, options, service, queue, dirs, disk, full, refused, runs>>

(* Whether generate_service and generate_client get through: they fail for *)
(* a type the generator does not know, and read a service that is NULL.    *)
Usable == service \in {"whole", "lacking"}
OfService == Head(queue) \in {Server, Client}

GenerationFails ==
  /\ at = "generate" /\ queue # <<>>
  /\ OfService /\ ~ Usable
  /\ Cleanup(1)
  /\ UNCHANGED <<argv, args, options, service, queue, dirs, disk, full, refused, runs>>

Generated == OfService => Usable

(* write_output_file: mkdir, whose result only matters to the log, fopen,  *)
(* which empties the file, then fputs and fclose, unchecked.               *)
Made == dirs \cup ({options.output_dir} \cap Creatable)

CannotOpen == /\ at = "generate" /\ queue # <<>> /\ Generated
              /\ options.output_dir \notin Made
              /\ Cleanup(1)
              /\ dirs' = Made
              /\ UNCHANGED <<argv, args, options, service, queue, disk, full, refused, runs>>

Open == /\ at = "generate" /\ queue # <<>> /\ Generated
        /\ options.output_dir \in Made
        /\ dirs' = Made
        /\ disk' = [disk EXCEPT ![options.output_dir][Head(queue)] = "cut"]
        /\ at' = "write"
        /\ UNCHANGED <<argv, args, options, service, queue, status, full, refused, runs>>

(* What the tree makes of the file: the code of what vector_add dropped    *)
(* is missing.                                                             *)
Content == CASE ~ OfService -> "fixed"
             [] OfService /\ service = "whole" -> options.input
             [] OTHER -> "cut"

(* The generators ignore what emitter_write and emitter_writeln return:    *)
(* the text lacks the pieces for which realloc failed.  (Were the very     *)
(* first to fail, the next short piece, a newline, a brace, would be       *)
(* written through NULL, RpcEmitter: one of the ways to be killed.)        *)
WriteAndClose ==
  /\ at = "write"
  /\ \/ /\ disk' = [disk EXCEPT ![options.output_dir][Head(queue)] = Content]
        /\ UNCHANGED <<full, refused>>
     \/ DiskMayFill /\ full' = TRUE /\ UNCHANGED <<disk, refused>>
     \/ MemoryMayFail /\ refused' = TRUE /\ UNCHANGED <<disk, full>>
  /\ at' = "generate"
  /\ queue' = Tail(queue)
  /\ UNCHANGED <<argv, args, options, service, status, dirs, runs>>

(* external: a signal, or the machine going down; the signal may be that   *)
(* of a stray pointer, of an emitter without memory (RpcEmitter) or of a   *)
(* vector in recycled memory (Vector).                                     *)
Killed == /\ MayBeKilled /\ at # "ended"
          /\ Exit(Signal)
          /\ UNCHANGED <<argv, args, options, service, queue, dirs, disk, full, refused, runs>>

Next == \/ Start \/ Option \/ OutputDir \/ Input \/ UsageError
        \/ Compile \/ Finish \/ GenerationFails
        \/ CannotOpen \/ Open \/ WriteAndClose \/ Killed

Spec == Init /\ [][Next]_vars

-----------------------------------------------------------------------------
(* Properties *)

Wanted == {"serialization.h", "rpc_helper.h"} \cup (IF options.server THEN {Server} ELSE {})
            \cup (IF options.client THEN {Client} ELSE {})

(* A run that reports success has left every file it was asked for, from   *)
(* the definition it was given, whatever runs before it, killed ones       *)
(* included, had left there; and whole ones, unless during this very run   *)
(* the disk filled or an allocation failed, neither of which is reported.  *)
SuccessIsComplete ==
  (at = "ended" /\ status = 0 /\ runs > 0 /\ ~ options.print_ast) =>
    /\ options.output_dir \in dirs
    /\ \A f \in Wanted :
         \/ disk[options.output_dir][f] = IF f \in {Server, Client} THEN options.input ELSE "fixed"
         \/ (full \/ refused) /\ disk[options.output_dir][f] = "cut"

(* Nothing is written that was not asked for: not by --ast, not for the    *)
(* other side, not outside the output directory, not over a file with      *)
(* another definition when this one is not usable, unless vector_add       *)
(* dropped what made it so.                                                *)
WritesOnlyRequested ==
  [][\A d \in Dirs, f \in Files : disk'[d][f] # disk[d][f] =>
       /\ d = options.output_dir /\ f \in Wanted /\ ~ options.print_ast
       /\ f \in {Server, Client} => Outcome[options.input] = "valid" \/ refused]_vars

(* No generated source is ever without the headers it includes.            *)
NoOrphans ==
  \A d \in Dirs : \A f \in {Server, Client} : disk[d][f] # "absent" =>
    disk[d]["serialization.h"] # "absent" /\ disk[d]["rpc_helper.h"] # "absent"

(* What the command line means, read as a whole: an argument that follows  *)
(* -o is a directory and nothing else, and --client and --server each turn *)
(* the other side off, of a line that does not name both.                  *)
ToOutput == LET t[i \in 0..Len(argv)] == i > 1 /\ argv[i - 1] = "-o" /\ ~ t[i - 1] IN t
Own(words) == {i \in DOMAIN argv : ~ ToOutput[i] /\ argv[i] \in words}

OptionsMeant ==
  at = "generate" =>
    /\ (Own({"--client"}) = {} \/ Own({"--server"}) = {}) =>
         /\ options.server <=> Own({"--client"}) = {}
         /\ options.client <=> Own({"--server"}) = {}
    /\ options.print_ast <=> Own({"--ast"}) # {}
    /\ \A i \in DOMAIN argv : ToOutput[i] /\ (\A j \in DOMAIN argv : ToOutput[j] => j <= i)
                              => options.output_dir = argv[i]
    /\ (\A i \in DOMAIN argv : ~ ToOutput[i]) => options.output_dir = "."
    /\ {argv[i] : i \in {j \in DOMAIN argv : ~ ToOutput[j]} \ Own(Flags)} = {options.input}

(* --client and --server cannot be used together, the help says; README.md *)
(* calls them mutually exclusive, and lists their combination among what   *)
(* the command line validates.  parse_args lets the last one win.          *)
SidesExclusive ==
  at = "generate" => Own({"--client"}) = {} \/ Own({"--server"}) = {}

(* Failures at any stage should prevent invalid generated code from being  *)
(* produced, and output file errors are validated, README.md says: of what *)
(* a successful run was asked for no file is cut short.  But nobody checks *)
(* fputs and fclose, nor what the emitter and vector_add return.           *)
FailuresPrevent ==
  (at = "ended" /\ status = 0 /\ runs > 0 /\ ~ options.print_ast) =>
    \A f \in Wanted : disk[options.output_dir][f] # "cut"
=============================================================================
