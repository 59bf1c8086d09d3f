# Verification of rpc_from_scratch_c

`rpc_gen` compiles an RPC definition (`service MathService { rpc squareNum(int32 n) returns (int32); }`)
into four C files: `serialization.h` (a growing byte buffer with serialise and deserialise
functions), `rpc_helper.h` (send and receive over a socket), `rpc_server.c` (an accept loop with
a dispatcher) and `rpc_client.c` (one stub per method). What can go wrong at run time goes wrong
in the *generated* programs, so they are modelled in most detail; the generator's functions are
the source of the map because each emits the C text it stands for. The generator itself is
modelled too, from characters to files.

## 1. The system

| Component | Source | State it keeps | Operations | Interacts with |
|---|---|---|---|---|
| RpcBuffer | `generate_serialization_header.c` | `data`, `length`, `capacity`, `position` | ensure_capacity, serialize_{u32,i32,bool,string}, deserialize_*, free | called by stub and dispatcher; malloc/realloc |
| Wire format | `gen_utility.c`, order of calls in `code_gen*.c` | none | total_len, one (de)serialise call per value | shared contract of client and server |
| Transport | `code_gen_helper.c` | loop counters | send_all, recv_all, recv_rpc_buffer | kernel sockets |
| Client stub | `code_gen_client.c` | one `RpcBuffer` per call, a socket | connect, call, close | server over TCP |
| Server | `code_gen.c` | listening socket, `fd`, one `RpcBuffer` | accept, receive, dispatch, respond, close, `continue` | all clients, one at a time |
| Lexer, parser, AST | `lexer.c`, `parser.c`, `ast.c` | source pointer, current token, service tree | next token, recursive descent, validate, free | vector, driver |
| Vector | `vector.h` | `items`, `capacity`, `total` | add, set, get, delete, free | parser, AST, code generators |
| Emitter | `emitter.c` | string builder, indentation | write, writeln, open and close block | code generators |
| Driver | `main.c`, `utility.c` | options | parse_args, compile_file, generate_files | everything |
| Prototype | `is_prime*.c`, `src/main.c` | one socket | one hand-written call | replaced by the generator |

What is hard, and the property that makes each component correct:

* **RpcBuffer**: size arithmetic in two unsigned widths under lengths chosen by the peer. No
  access outside the allocation; growth ends.
* **Wire format**: client and server are generated by different functions from the same tree.
  They must agree on order, ids and lengths.
* **Transport**: partial transfers, end of stream and errors, with results the callers test
  against the wrong sentinel (`< 0` where failure is 0).
* **Client and server together**: every call executed once and returning its own result; no
  deadlock; nothing left unread when a side closes (TCP answers that with a reset, which can
  destroy a response in flight); descriptors neither leaked nor used after close; clients
  that die.
* **Lexer and parser**: a text buffer without a terminator, loops that must end at the end of the
  file, allocations that fail between two tokens, vectors nobody initialises. What is accepted is what
  was written; what is valid is accepted; everything allocated is freed once.
* **Vector and emitter**: growth under failing reallocs, whose results the callers drop. No access
  outside the block; a vector is a list.
* **Driver**: several output files written one after another. A status of success means complete
  files of this definition, whatever earlier runs left behind and whatever fails in this one (the
  second half does not hold).
* **Prototype**: a number that arrives in pieces, an answer received into uninitialised memory, int
  arithmetic that overflows. The client gets the answer to its own question.

Every hazard, at its line, is in `PROJECT.json` under `hazards`.

## 2. Modules

| Module | Models | With |
|---|---|---|
| `RpcBuffer` | the serialisation buffer, in numbers only | `RpcBufferMC`, `RpcStandaloneMC`, `RpcBufferProofs` |
| `RpcService` | what a stub promises its caller | abstract |
| `RpcCall` | server, clients, frames and connections | `RpcCallMC`, `RpcCallProofs`; implements `RpcService` |
| `Words` | 32-bit words, byte order, sign | proofs in `RpcWireProofs` |
| `RpcWire` | one request, byte by byte | `RpcWireMC`, `RpcWireProofs`; uses `Words` |
| `ItemList` | a list with the calls of `vector.h` | abstract |
| `Vector` | `vector.h` | `VectorMC`, `RpcFrontEndMC`, `VectorProofs`; implements `ItemList` |
| `RpcLexer` | `lexer.c` over the memory of the file | `RpcLexerMC`, `RpcFrontEndMC` |
| `RpcParser` | `parser.c`, `ast.c` | `RpcParserMC`, `RpcFrontEndMC`, `RpcParserProofs` |
| `RpcGen` | `main.c`, `utility.c`: runs of `rpc_gen` | `RpcGenMC`, `RpcBackEndMC`, `RpcGenProofs` |
| `RpcEmitter` | `emitter.c` | `RpcEmitterMC`, `RpcBackEndMC`, `RpcEmitterProofs` |
| `IsPrimeRpc` | the hand-written client, server and `is_prime` | `IsPrimeRpcMC`, `RpcStandaloneMC`, `IsPrimeRpcProofs`; uses `Words` |

The modules of the generator form a chain along which each abstracts the one before: `RpcLexer`
turns characters into tokens, and `RpcParser` takes token sequences as its `Sources`; the verdicts
of `RpcParser` are the values of `Outcome` in `RpcGen` (`valid`, `duplicate`, `syntax`, `empty`);
the text that `RpcGen` writes as one value, or as one cut short, is built piece by piece in `RpcEmitter`,
and what `RpcParser` calls a use of recycled memory is a `wild` access of `Vector`. Both programs
that talk over a socket in bytes, `RpcWire` and `IsPrimeRpc`, do so in `Words`.

### RpcBuffer

The four fields of the struct are the variables `length`, `capacity`, `position` and `data` (how
many bytes are allocated). `op`, `arg` and `newCap` are a call in progress and its locals, so
that the doubling loop is one action per iteration (`Double`) and `realloc` can fail between any
two steps. `touched` and `strEnd` are the ends of the last accesses through `data` and through
the last string from `malloc(len + 1)`; they exist for the properties. `role` follows the order
in which both programs use a buffer: serialise into a fresh one, free, receive, deserialise.
`Twice` is `*= 2` in `size_t`, `StringAlloc` is `len + 1` in `uint32_t`, and the two
subtractions in the code's tests are translated as they stand. A payload may announce any
32-bit length, and a string prefix may be any 32-bit number.

### RpcCall

The unit of data is the *cell*: a 32-bit word, or one character of a string. A value is a
sequence of cells, a frame a sequence beginning with its length in cells. Lengths counted in
cells relate to each other as the generated byte lengths do. Byte order, sign and a transfer
ending inside a word are abstracted away.

Each client opens one connection and is the name of it. `cpc` and `spc` say where client and
server are:

| `spc` | code in `code_gen.c` | | `cpc` | code in `code_gen_client.c` |
|---|---|---|---|---|
| `boot` | `get_socket`, `listen` | | `start` | before `rpc_client_connect` |
| `accept` | `accept` | | `ready` | connected, between calls |
| `header`, `payload` | `recv_rpc_buffer` | | `serialize` | the `rpc_serialize_*` calls |
| `method` | `rpc_deserialize_u32(&method_id)` | | `send` | `send_all` |
| `args` | one case of the switch | | `header`, `payload` | `recv_rpc_buffer`, deserialise |
| `send` | `send_all` | | `closed`, `quit` | after `close`, or dead |
| `close` | `rpc_buffer_free`, `close(fd)` | | `exit69`, `killed` | `exit(69)`, SIGPIPE |

`up` and `down` are the bytes under way or received and unread, in each direction. `sEnd` is the
server's end of a connection, `backlog` the listen queue, `srst` and `crst` whether a reset has
arrived at the server's or the client's end. A partial `send` or `recv` is any non-empty prefix; a
send to an end already closed is lost and is answered by a reset that arrives now or later; a write
after the reset raises SIGPIPE and kills the process; closing over unread bytes sends a reset, and
that may discard a response the peer has not yet read. A receive at the end of the stream returns 0,
which both programs take for success, so what it should have filled holds any value of `Garbage`.
`send_all` returns its count as an `int`; a count past `INT_MAX`, which would read as negative, is
left out, since no frame of the model is as long. `ServerContinue` is the bare `continue` of the
generated loop: it leaves `fd` open. `ResultsOf` is what the user's method bodies may return.

Two shapes of method are excluded by `ServiceAssumption` because what is generated for them does
not compile: no parameters (`uint32_t total_len = ;` in the server) and a string parameter with
a result that is not a string (`strlen(result)` of an `int32_t`).

`RpcService` has three variables (calls made, calls executed, calls returned) and three actions.
`Promise` in `RpcCall` maps them to `issued`, `served` and `returned`; `KeepsPromise` is its
specification as a property, and it is a theorem for services whose frames the generator gets
right, where nothing fails and a connection is used once.

### Words and RpcWire

`Words` has the four bytes of a word in the memory of a big- or little-endian machine, `htonl` and
`ntohl` as what they do to those bytes, and the two readings of a word as `uint32_t` and `int32_t`.
A byte has `ByteSize` values, so that arithmetic modulo 2^32 becomes arithmetic modulo
`ByteSize^4`.

`RpcWire` follows one request. `next` counts the fields the stub has serialised into `buffer`,
`sent` is the counter of `send_all` in its C width, `onwire` the bytes given to `send`, `taken`,
`header` and `payload` what `recv_all` has got, `position` and `decoded` the deserialisers'
progress. `total_len` is the sum `generate_total_len` emits, `Fields` the order of the serialise
calls, `Types` that of the deserialise calls. `Send`, `RecvHeader` and `RecvPayload` move any number
of bytes the window allows, so a transfer may end inside a word. Client and server have a byte order each.

### Vector and ItemList

`capacity`, `total` and `items` are the struct's fields; `ptr` says whether the pointer in `items`
is NULL, one that malloc returned, or wild. The struct starts as what the memory it lies in holds
(`RawStructs`), since nothing zeroes it, and every call may be made on it as it is: the parser never
calls `vector_init` (`parser.c:144`, `parser.c:189`; its one call stands in a comment,
`parser.c:220`). `ready` tells a vector that began as zeroes, or that `vector_init` has made empty,
from one that is used as recycled memory left it. `wild` records an access outside the block and the
use of a wild pointer; behind one the code defines nothing, and the module stops. Each exported
function is an action, with the alternative in which `malloc` or `realloc` returns NULL. `Contents`
maps the block to the list of `ItemList`.

### RpcLexer

`loop` is the loop the lexer is in (skipping, a comment, a word, a number), and each iteration of it is
an action. `file` is the buffer `read_whole_file_in_buffer` fills and `behind` what lies after it:
the buffer has no terminator and `Char` reads on to the first NUL. `ExpectedTokens` defines the
tokens of a text without a lexer, by longest runs outside comments.

### RpcParser

A token is its text. `at` names what the recursive descent looks for next and `Expects` the tokens
it goes on with; any other token exits. One action takes one token and makes the calls that belong to
it: allocating a method or parameter, storing a name, `vector_add`. `heap` counts allocations,
`lost` those whose only pointer a failed `vector_add` refused. `recycled` has the vectors whose struct
`malloc` returned in a block that had been used before, which is possible for any of them: number 0
is the service's, number n that of its n-th method. Their first use (`vector_add`, the generators,
`free_service`) is `UseRecycled`, which ends the model as a crash; what `vector_add` makes of such
memory is in `Vector`. A vector in fresh, zeroed memory is the empty one. `Validate` is `validate_service`,
`Release` is `free_service`. `Text` is the inverse of parsing: the tokens a tree stands for.
`Services` are the definitions a user may write in the form of `test.rpc`, and `Valid` those that must be
accepted: methods have distinct names. `CrashKnown` lists the ways in which even those crash, and
`RejectsOnlyInvalid` says that there are no others. `IsPrimeText` is a definition in the form README.md
shows; that the parser takes it is `DocumentedAccepted`, which is false.

### RpcGen

One behaviour is several runs of `rpc_gen` on one disk, which `disk` and `dirs` hold. `args` is
what `parse_args` has not looked at, `options` the `Options` struct, `service` the result of
`compile_file`, `queue` the files `generate_files` has still to write. `Open` empties a file and
`WriteAndClose` fills it, or leaves it cut when the disk is full, which `full` remembers of the run, or
when an emitter's `realloc` was refused, which nobody notices and `refused` remembers.
`TreesShort` is what a refused allocation may make of a definition: none at all, an exit or a crash of the
parser, or a tree that is `lacking` what `vector_add` dropped, whose sources `Content` has as cut.
`Killed` ends a run anywhere.

### RpcEmitter

`data` is the size of the allocation, 0 for NULL; `capacity` and `length` are the string builder's
fields. A call of the interface queues the pieces it appends in `todo` (indentation, text,
newline), and each is an action with its own `ensure_resize`, which may fail. `ret` is the
result the call returns, `column` where the line stands, `dropped` whether any `realloc` has failed.

### IsPrimeRpc

`spc` and `new_fd` are the server's loop, `buffer` the int it receives into, declared in the loop's
body and not initialised (any value of `Garbage`, or what the iteration before left there), `open`
the descriptors it holds, `backlog` the listen queue; `cpc`, `num` and `result` are the clients.
`heard` counts the bytes of a number that were received. `RecvError` and `AnswerFails` are the -1 of
`recv` and `send`: the first leaves the descriptor open, the second does not. `is_prime` is the loop
of `is_prime.c` as a recursive function over wrapping ints. A signed overflow is undefined in C; the
Makefile builds without optimisation, where it wraps. The client returns the undeclared name
`sock_fd` and does not compile as it stands; it is read as `sockfd`.

## 3. Runs

All properties are listed in `PROJECT.json`; each one that holds has a mutant, a plausible bug in a
definition that the same run then catches (`\* mutant` in the modules).

| Run | Instance | Shows |
|---|---|---|
| `standalone` | the buffer: 2-byte words of 0..15, `SIZE_MAX` 127, blocks up to 32 bytes, `INT_MAX` 7; the prototype: ints of 8 bits, 2 clients that may die, numbers in pieces, failing sends and receives, 1 descriptor | memory accesses stay inside the blocks allocated, growth neither wraps nor loops; answers, descriptors, termination, and `is_prime` on every non-negative int |
| `calls` | `test.rpc`, 2 clients, 1 call each, backlog 1 | RpcService is implemented, frames agree, nothing is left unread at a close, every call returns |
| `quitters` | `add(int32, int32)`, 3 clients, 2 of which may die at any step, 2 descriptors | the third is told nothing but the sum of its own arguments, its connection is closed, and its call ends unless the server has died or both descriptors have leaked |
| `adverse` | 2 methods, failing allocations, 1 descriptor, calls on closed connections, one client may die | one execution per connection, descriptor ownership |
| `wire` | bytes of 2 bits, up to two arguments, a window of 5 bytes, both byte orders on each side | bytes in order, values and signs intact, prefix exact without bools, delivery |
| `frontend` | the lexer: every text of up to 5 characters over 8, with or without a letter behind; the parser: definitions of up to 3 methods; one token inserted, removed, replaced, or the rest cut off; any allocation failing, any `malloc` recycling; the vector: capacity 2 at first, up to 5 items, any memory | tokens and lines are exact; acceptance is exact, everything reachable is freed once; no access outside but in recycled memory, no oscillation of resizes, refines `ItemList`; lexing and parsing end |
| `backend` | the driver: 2 runs, every command line of up to 3 arguments and longer ones over bad definitions, kills, a full disk, refused allocations; the emitter: capacity 8 at first, texts up to 2 doublings long, 2 levels of blocks, any realloc failing | what status 0, files on disk and options mean; no write behind the block, none through NULL before a failure, indentation |
| `reuse`, `prefix`, `returns`, `sides`, `failures` | below | expected violations |

`standalone`, `frontend` and `backend` hold modules that share no state, and explore each on its own
in one run: their specifications let one of them move only while the others have not begun, or have
ended on their smallest input (`RpcStandaloneMC`, `RpcFrontEndMC`, `RpcBackEndMC`). Nothing is
claimed about interleavings of them, of which the program has none.

### Where code and documentation part

Five runs must fail, each with the one property its documentation states:

| Run | The documentation | The code | Property |
|---|---|---|---|
| `reuse` | README:806-858 makes two calls on one connection and prints both results | the server closes after one request (`code_gen.c:431`); the second stub meets the end of the stream, takes it for success and returns garbage | `SurvivorsExact`, with two calls |
| `prefix` | README:841: the payload length describes the bytes following the prefix; README:488-492 lists `bool` | a `bool` counts as a word (`gen_utility.c:210`) and is not sent; both sides wait | `PrefixDescribes` |
| `returns` | README:72-74, 124-128, 173-178, 747-757: `rpc isPrime(int32 num) returns bool;` | `returns` needs parentheses (`parser.c:160`): syntax error | `DocumentedAccepted` |
| `sides` | the help (`utility.c:19`), README:737 and README:998: `--client` and `--server` exclude each other, and the command line validates that | the last one wins (`utility.c:96-101`) | `SidesExclusive` |
| `failures` | README:990 and README:999: failures prevent invalid code, output file errors are validated | `fputs`, `fclose` (`utility.c:184`), `emitter_write`, `emitter_writeln` and `vector_add` are unchecked: status 0 over a file cut short | `FailuresPrevent` |

The other deviations met while modelling are part of the models, and where a column names a property
it is stated so that it holds of the code with the deviation and breaks if the deviation grows:

| Where | What the code does | Property |
|---|---|---|
| `gen_utility.c:210` | as in `prefix` | `PrefixExact` and `Delivered` hold of requests without bools; `WireBoolsOvercounted` is proved |
| `gen_utility.c:413` | the response's length is computed from the parameters, not the result | `SurvivorsExact` for `add`, one word too long; `ResponseFramed` for `test.rpc` |
| `code_gen_helper.c:15` | the end of the stream is taken for success, and uninitialised memory is dispatched | `AtMostOnce`, `FdDiscipline` with `Garbage` |
| `code_gen.c:315` | a refused request `continue`s without `close` (README:546-578 ends every cycle with it); with as many quitters as descriptors the server accepts nobody any more | `SurvivorsClosed`: only quitters' descriptors leak; `SurvivorsComplete`: unless all have leaked (`Exhausted`) |
| `code_gen.c:334` | SIGPIPE ends the server when a client has gone | `SurvivorsComplete`: unless the server is dead |
| `code_gen_helper.c:53` | `sent` is 32 bits wide: past 4 GiB `send_all` starts again | `EveryByteOnce`, below that |
| `generate_serialization_header.c:314` | `strlen` is cut to 32 bits | `PrefixExact`, below that |
| `parser.c:144`, `parser.c:189` | vectors of the tree are used without `vector_init`; once a block was freed (by `fclose`, or by a vector that grew) and is handed out again, they need not be zero | `WildOnlyRecycled`: nothing else goes wild; `RejectsOnlyInvalid`: nothing else crashes with methods and memory to spare; `VectorRecycledAddGoesWild`: that one always does |
| `parser.c:180` | a failed `vector_add` loses a method or parameter silently | `ParsesExactly`: exactly when `lost # 0`; `SuccessIsComplete`: `refused` |
| `parser.c:162` | any keyword is accepted as a type | none: the grammar of `RpcParser` is the code's |
| `ast.c:9` | a service without methods is dereferenced through NULL | `RejectsOnlyInvalid`: one of the known crashes (`Methodless`) |
| `utility.c:57` | the file's buffer has no terminator and the lexer reads on | `TokensExact` is about file and memory behind |
| `main.c:27` | headers are written for a rejected definition, then NULL is dereferenced | `WritesOnlyRequested`, `SuccessIsComplete` |
| `utility.c:184`, `emitter.c:95` | as in `failures` | `SuccessIsComplete`: only if `full` or `refused` in this very run |
| `emitter.c:29` | after a first `realloc` that failed, the next append writes through NULL | `NeverNull`: not before |
| `emitter.c:95`, `emitter.c:147` | `emitter_writeln` reports success though a piece was dropped; `emitter_close_block` always returns 0 | none: `ret` is modelled |
| `is_prime.c:17` | `i * i` overflows near `INT_MAX`, which is prime and reported as not; no i whose square an int holds reaches the numbers from 46337^2 on | `DecidesBelowSquare` says exactly that |
| `is_prime_rpc_client.c:64` | one byte is received into an uninitialised int, and the int is tested | `PrimesConfirmed` holds; its counterpart for other numbers does not |

### Bounds

For the buffer the relations between the widths of a 64-bit build are kept
(`I32Max < U32Max < HeapMax < SizeMax`, with the largest request doubled still below `SizeMax`),
so each test takes both of its outcomes that such a build can take; the theorems then remove the
numbers. In the `RpcCall` runs a second client is enough for one connection to wait in the
backlog while another is served, and the third in `quitters` lets a survivor wait behind two
dying ones; its two arguments make order and framing matter. Strings of 0 and 2 characters give
an empty and a divisible payload; `Garbage` has one word that names a method and one that does
not, and as a length one that ends the payload at once and one that asks for more. `MaxCalls` is
1 where the property is about one call per connection, 2 where it is about reuse. `MaxFds` is 1 in
`adverse`, where a single leaked descriptor exhausts the process, and 2 in `quitters`, where it takes
both clients that die: the survivor is then never accepted, as in the code after enough of them.
In the code the backlog is 5 and
descriptors number about a thousand.

`ByteSize` 4 makes a word range over 256 values. In `wire` the arguments are the two ends of the
signed range and a small negative number; a window of 5 bytes cuts inside and between words, and
`MaxSent` is more than the longest request. For the prototype the largest int is 127, which is prime
as 2147483647 is, and `i * i` wraps past 11 as it does past 46337, so the overflow has its place; a
prime and a composite number are asked for, while `DecidesBelowSquare` goes through all of them. The
vector needs 5 items to grow twice and shrink once. In the lexer's texts five characters are a
keyword or identifier, a comment and a line end behind it, and one character more. In the parser's
definitions three methods tell comparing all pairs from comparing neighbours. In `backend` the
second run meets every disk the first can leave; three arguments order two options and a file in
every way. The emitter's longest text forces the doubling loop to turn twice, and no call is made on
a buffer longer than `MaxLength`; the powers of two it may reach are `Powers`.

Deadlock is not checked, because every part really may stop. The server of `RpcCall`
and of the prototype waits in `accept` when all clients have gone; lexing, parsing, a request, the runs
of the generator come to their end; the emitter and the vector stop after an access outside their block or at
their bound. That a call or a loop ends is a liveness property wherever it matters.

### Fairness

`FairSpec` of `RpcBuffer` is weak fairness of the growth steps: they run in one thread and wait for
nothing. So do the lexer and the parser, whose specifications have weak fairness of every step.
`RpcWire` has it for each of its two programs. `FairSpec` of `RpcCall` and `PrimeFairSpec` of
`IsPrimeRpc` are weak fairness of the server process and of each connected client's steps: both are
sequential programs the operating system schedules, TCP delivers or reports the end, and an
application that has connected goes on to call or to close. Nothing is assumed about when a client
connects or dies, about allocations, about sends and receives that fail, or about whether the server
manages to boot. `Vector`, `RpcGen` and `RpcEmitter` have no fairness and no liveness property. The
merged runs restate the fairness of their parts on steps that leave the other parts alone.

## 4. Proofs

`RpcBufferProofs`, for all widths, heap sizes and string lengths that satisfy
`ConstantsAssumption` and `WideSizeAssumption` (`size_t` can double the largest block plus the
largest request, as on every 64-bit machine):

* `BufferTypeOK`, `BufferInBounds`, `BufferStringFits`, `BufferGrowthNeverWraps`.
* Their inductive invariant (`IInv`) adds what they silently depend on: `capacity` is the size
  allocated even after a failed realloc, one spare byte is kept behind `length`, `position` never
  passes `length`, a buffer being read holds a payload whose length came as a `uint32_t`, and a
  call in progress has a bounded request. `InBounds` alone is not inductive because a copy's end
  is computed from `length` and `position`, not from `touched`. The lemma `RequestSize` bounds
  what any caller can ask for, and is where the width assumption enters.

`RpcCallProofs`, for every service admitted by `ServiceAssumption`, every set of clients, every
garbage and every failure:

* `CallTypeOK`. Besides types it needs `StubCalled` (a client inside a stub has an issued
  request, so `Request(c)` is defined and its field index is within its parameters) and
  `MethodKnown` (past the switch, the method id names a method).
* `CallFdDiscipline`: the server reads, writes and closes only a descriptor it was given and has
  not closed; the backlog holds each waiting connection exactly once. Two lemmas about queues
  without repetitions (`EnqueueOnce`, `DequeueOnce`) carry it.
* `CallAtMostOnce`: one method at most runs for a connection, though the server re-enters its
  loop from several places. The strengthening `ServedOnce` says a connection that has been served
  is no longer in the backlog and, if the server still holds it, is past the call; it leans on
  `FdDiscipline` and the two are proved together in `IInv`.

The second part of `RpcCallProofs` is about the calls themselves. It supposes what the code does
not provide, each hypothesis named and used only where it is needed:

| Hypothesis | Says | Why it is needed |
|---|---|---|
| `MemorySuffices` | no `malloc` or `realloc` fails | after a failed one the server `continue`s without `close` (`code_gen.c:315`) |
| `OneCall` | one call per connection | the server closes after one; `reuse` shows `SurvivorsExact` violated by two |
| `WordArguments` | an `int32` argument is one word | what C's types give; the model's requests are sequences of cells |
| `NobodyQuits` | no client dies in a call | otherwise bytes stay unread and SIGPIPE may kill the server |
| `StringsCounted` | a method returning a string has a string parameter | `strlen(result)` enters `total_len` once per string parameter (`gen_utility.c:413`) |
| `OneParameter` | methods as in `test.rpc` | `total_len` of a reply is computed from the parameters |

The instances of `calls` and `quitters` satisfy the hypotheses of what they check, and the theorems
hold for every service, number of clients, backlog, number of descriptors and garbage.

* `CallSurvivorsExact`, `CallSurvivorsClosed` need the first three only: other clients may die at
  any moment, and a service may have wrong response prefixes. The invariant is `LedgerOK`, one
  account for each client that stays: the call is not made (`Idle`), being written (`Writing`), on
  its way to the server (`Asking`) or executed (`Answered`). In `Asking`, what the server has read, what
  is in the connection and what the stub has still to send are together the frame of the request; in
  `Answered` the same holds of the reply, with garbage allowed behind it once the server has closed
  and the prefix was too large. The two properties look at ends of a call only and are not
  inductive; the account relates them over every partial send and receive between.
* `CallNothingUnread`, `CallServerSurvives` and the refinement `CallKeepsPromise` (`RpcService`,
  step by step: each step of the programs is a call, an execution, a return or a stutter) need
  `StringsCounted` and `NobodyQuits` as well. `SteadyOK` adds that no end was ever reset and that a
  stub that has returned has read all of the reply.
* `CallResponseFramed` needs `MemorySuffices` and `OneParameter` only.

`RpcWireProofs`, for every request, every size of a byte, either byte order on each side, every
window and every cut of the transfers:

* `WireEveryByteOnce`, in every state whose buffer has a length below 2^32: `sent` is a `uint32_t` and
  starts again above. `StreamInv` says, byte by byte, that the stream is a beginning of the buffer and
  the header and payload the beginning of the stream, and that nothing is sent before the last
  field is serialised, since the buffer still grows.
* `WirePrefixExact`, `WireBoolsOvercounted` and `WireRoundTrip`, for requests whose payload has a
  32-bit length (`RequestsFit`; behind 4 GiB the prefix itself wraps). `LengthInv` relates the bytes
  in the buffer to `SizeUpTo`, the sum of the arguments' sizes, by induction over the arguments: a
  `bool` counts and is not sent, so the prefix is a word too long for each, and exact when there is
  none. Then a request with a `bool` is never received whole (`BoolInv`), and about one without,
  `FieldInv` has a function `cut` from the number of fields to the offset behind them: field `k`
  lies between `cut[k - 1]` and `cut[k]`, and the deserialiser, having decoded `k - 1` values behind
  the length, stands at `cut[k]`. That `position` moves by exactly what `Serialized` wrote is the
  step where the two generators must agree.
* `WordArrives`: `htonl` on one machine and `ntohl` on another give the word back, in each of the
  four combinations of byte orders. `SignArrives`: so does an `int32_t` through the `uint32_t` it
  travels as. Both rest on the uniqueness of digits (`WordOfDigits`, `DigitsOfWord`).
  `IsPrimeRpcProofs` has the lemmas about words once more, since it shares no other module.

`RpcParserProofs`, for every sequence of tokens and whichever allocations fail, with the lexer's types
of tokens as the only assumption (`TokensAssumption`: a name is no keyword, sign or end of file):

What `vector_add` does in recycled memory is not defined and ends the module's behaviours; the
theorems are about what happens short of that, and about `Vector` for the rest.

* `ParserReleasesAll`. `MemInv` says what the heap is in the middle of a method: what can be reached from
  the service, what was lost, the method being parsed and all it owns, and, between type and name, a
  parameter. `Reachable` is a sum over the methods, so adding one is a lemma about sums (`OwnedFacts`).
* `ParserParsesExactly`. `TextOK` keeps two texts together: `Written`, what the tree built so far and
  the place of the descent stand for, and `Read`, the tokens taken without the commas that may end a
  list. They are equal as long as nothing was lost, and afterwards `Written` is the shorter one, which
  is why acceptance is exact if and only if `lost = 0`. The comma is what makes it hard: it is in
  `Read` until the next token shows that it must not be (`PlainGrows`).
* `ParserRejectsOnlyInvalid`, if the texts in `ValidTexts` are those of valid members of `Services`,
  of any size (`TextsAreValid`; the run's are, `WideAssumption`). `FollowsValid` says that the
  descent stands at a token of the definition's text, `i` methods and `j` parameters in (`Spot`),
  and that the methods it kept are among those it read, each once (`Kept`). `WhatComes` gives the
  next token of the text and `ExpectedComes` that it is one the descent goes on with, so neither a
  syntax error nor a duplicate comes up, and a crash is one of `CrashKnown`. Whether a service lacks
  methods is seen in its text (`MethodlessText`: the fourth token is the closing brace), not in the
  tree, from which `vector_add` may have dropped them. `HeadLen`, `InLen` and `EndLen` say where in
  the text each token stands.

`RpcGenProofs`, for every set of definitions with any verdicts, every command line, any number of
runs on a disk, kills, full disks and refused allocations, without hypotheses:

* `GenOptionsMeant`: the loop of `parse_args`, which takes one or two strings at a time, ends with what
  the line means read as a whole. `OptInv` says that the options are what the arguments taken so far
  mean; whether one of them is a flag or the value of an `-o` depends on all before it (`Follows`).
* `GenSuccessIsComplete`, `GenNoOrphans`, `GenWritesOnlyRequested`. `GInv` adds what is true in the
  middle of a run: the queue holds only files asked for, each once and headers first; every file asked
  for and not in the queue is written; the one that is open is empty; a source that is open has
  a valid definition, or an allocation was refused in this run. What a cut file is owed to, `full` or
  `refused`, is reset when a run starts, so the invariant ties each cut file of the run to the run itself.

`IsPrimeRpcProofs`, for any clients, numbers within `int`, byte order, number of descriptors and
failures:

* `PrimeDecidesBelowSquare` has no hypothesis: for every width of int, what `is_prime` does with every
  number. The loop's step of 6 finds the least divisor of a composite number, which is 2, 3 or 6k - 1 or
  6k + 1 and whose square is no more than the number; below the square of an `i` that the loop takes
  nothing has overflowed by then. The largest int is the one prime it denies for certain.
* `PrimeAllClosed` has no hypothesis either. `PrimeAnswersAsked` and `PrimePrimesConfirmed` suppose
  `NumbersWithinSquare`: clients ask for no negative number and no prime from the last such square on,
  so `is_prime` is right on what they ask (`IsPrimeRight`). `PInv` says of each client that what it
  was sent is `is_prime` of its own number. `buffer` may hold anything, bytes of the client before
  included, so the invariant has to say that a number that arrived whole has replaced them all.

`VectorProofs`, for every initial capacity, every item, every bound on the length and every memory the
struct may begin in, without hypotheses:

* `VectorTypeOK`, `VectorWildOnlyRecycled`. The invariant says that once the vector is `ready` the
  capacity field tells the truth about the block, `total` fits in it, and the items below `total`
  are ones that were stored; and that one that is not `ready` and not yet `wild` has no block at all.
* `VectorRecycledAddGoesWild`: on a vector used as recycled memory left it, the first `vector_add` goes wild
  whatever capacity and total the memory held, unless all of it was zero. The parser begins with that
  call, so the crash it is charged with in `UseRecycled` is not a matter of luck.
* `VectorResizeSettles`: doubling when full and halving at a quarter leave slack on both sides.
* `VectorActsAsList`: the refinement of `ItemList`. `Without` is the step that matters: shifting
  in place and cutting off the end is deleting from the sequence.

`RpcEmitterProofs`, for all capacities, texts, indentations and failures:

* `EmitterTypeOK`, `EmitterNeverPastBlock`. The invariant is that a block that exists is as large
  as `capacity` says and longer than the text; it is the terminating NUL that makes the strict
  comparison in `Fits` necessary.
* `EmitterNeverNull`: until a `realloc` has failed. `Backed` adds that a NULL block has no
  capacity, which is what a failed first `realloc` destroys.
* `EmitterIndentsLineStarts`: until a `realloc` has failed. `at_line_start` is reset only where a
  line ends, so in the middle of a call it says nothing by itself; `LineInv` relates it to the pieces
  the call has still to append (`ShapeOK`: a call ends its line at its end and only then goes
  deeper).

The type invariants of `RpcCall`, `Vector` and `RpcEmitter` are theorems, and no run repeats them; nor
does one repeat `WireBoolsOvercounted` and `VectorRecycledAddGoesWild`;
`WordArrives` and `SignArrives` are checked through `RoundTrip`.

Constants carry the assumptions the proofs need: `RequestsAssumption` in `RpcWire` (values are of
C's types, ids of 32 bits), `InputAssumption` in `IsPrimeRpc` (numbers are ints), `TokensAssumption` in
`RpcParser` and `ArgListsAssumption` in `RpcGen` (arguments are strings), beside those of
`RpcBuffer`, `RpcCall`, `Words`, `Vector` and `RpcEmitter`; TLC evaluates each of them.

Where a definition recurs over data, as the sums, the texts and `is_prime` do, it is a recursive
function, and what is proved of it rests on induction for a set of numbers (`Induction`, from the
well-foundedness of `<`), since the library's own principle takes an operator as its parameter.

Only model-checked:

* liveness (`GrowTerminates`, `CallsComplete`, `SurvivorsComplete`, `Delivered`, `LexerTerminates`,
  `ParserTerminates`, `SurvivorsReturn`): fairness and ENABLED are outside the prover;
* `TokensExact`: that the tokens are the longest runs of characters outside comments, and their lines,
  relates each of the lexer's loops to a definition over the whole file; the lexer's module has no
  proofs.

`SurvivorsExact` is false without `OneCall`, and that is the run `reuse`.

## 5. Not modelled

Left out for good: the logger (formatting behind a level test), `getaddrinfo` and the choice of
address family, the text of the emitted C where no behaviour depends on it, the bodies users
write for their methods, `print_service_tree` and `display_token`, which only print, and three functions of
`gen_utility.c` that nothing calls. Heap bytes that leak (a response buffer per call, a string per
string argument) are not counted, and a method returning the NULL its generated body starts with
is a method nobody has written yet.

What could be added: a proof of `TokensExact`, with an invariant that the tokens so far are those of
the text read so far; responses in `RpcWire`, which has the request only.
