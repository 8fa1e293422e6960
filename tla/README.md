# Verification of the HTTP server

TLA+ specifications of the HTTP/1.1 server in `src/` (C, one process per
connection), the TLC models that check them, and proofs for TLAPS.

## The system

| part | source | state | operations |
|---|---|---|---|
| parent process | `src/src/main.c` `main` | place in the loop, `server_fd`, `socket_fd`, `errno` | boot (socket, setsockopt, bind, listen, sigaction), accept, fork, close, report and end |
| SIGCHLD handler | `main.c` `sigchld_handler` | `saved_errno` | `waitpid` until it finds no dead child; restores `errno` |
| child process | `main.c`, the branch `if (!fork())` | `buffer`, `bytes_read`, `should_close` | close `server_fd`, recv, answer, loop, close, exit |
| request parser | `request.c` | none | `http_request_from_buffer`, `parse_headers`, `parse_long` |
| routing and handlers | `main.c` 143-180, `routes.c`, `routes.h` | the directory of `--directory` | the loop over `routes[]`; root, echo, user-agent, files (GET and POST) |
| response builder, serialiser | `response.c` | builder, sizes | options, construct, to_buffer |
| compression | `compression.c` | output buffer, zlib stream | the deflate loop |
| hash map, dynamic array | `hashmap.c`, `darray.c` | buckets of nodes | set, get, delete, traverse; push, pop, expand, contract |
| strings | `bstrlib.c` (vendored) | block, length, size; a stream's buffer | new, assign, concatenate, edit, replace; search, compare; read lines and lengths |

The processes share no memory. They interact through the kernel: the listening
socket and its queue, descriptors inherited over `fork`, SIGCHLD, the exit
status the parent must collect, and the files of the directory. A client
interacts through the bytes of its connection, which TCP may cut anywhere.

Hard here: the handler interrupts the parent between any two statements; one
signal stands for many deaths; `fork`, `accept` and `bind` fail; processes are
killed anywhere and the program is restarted while old children live; a request
arrives in pieces or together with the next; `send` blocks on a client that does
not read; lengths in a request are trusted; files are bytes but are copied as text;
writes, allocations and reads fail half-way.

What makes each part correct:

* parent, children: no process holds a descriptor it has no use for; each client
  is given to one child; every dead child is collected; the program ends for its
  own reason; the port is free for a restart.
* child: one answer per run of bytes it reads, in order, none after the one that
  closes; the connection is released when either side is done.
* parser and routes: a request is understood as it was meant; an announced close
  and an actual close agree; what was stored is served.
* files: what a GET returns when nobody else writes; what it may return otherwise.
* response: the bytes sent are those that were announced, whatever the order of
  options, and of a text none past the block they were put in.
* memory: nothing is freed twice or used after it was freed.
* compression: the whole output, whatever its size, or nothing.
* dynamic array: a list that is never written outside its block.
* hash map: a bag of entries in which the first entry of a key is found.
* strings: a call on a part of the very string it changes does what it would do on
  a copy; a search finds the nearest match; an order is an order; a stream loses no
  character.

## Modules

`Sessions` is the abstract specification: what clients see. A session is away,
waiting, open or over; it opens once. TCP keeps no bounds between requests, so an
answer is for some bytes: answers are in order, no byte is in two of them, an answer
is that of the request its bytes begin with if that is there whole, and nothing is
answered after an answer that closes.

`Server` is the process structure. `ppc` is the parent's place in `main`
(`boot`, `accept`, `fork`, `close`, `report`, `down`), `hpc` its place in the
handler, `cpc[c]` the place of the child that serves client `c` (`start`,
`recv`, `serve`, `blocked` in `send`, `close`, `exit`, then `zombie` and `gone`). `fds[p]` is the
descriptor table of a process; the kernel keeps a socket as long as some table
has it (`Held`), which is how a descriptor that leaks, and a listening socket
that survives its parent, show. Each system call that another process can
observe is an action. While the handler runs (`hpc # "idle"`) the parent does
not move. `sigchld` is one bit, as a pending signal is. A request is only one of
three kinds, for the loop tells no more apart: `bad` (refused by the parser),
`close`, `keep`. TCP cuts a request into at most `Parts` pieces, and `ChildRecv`
returns any run of the pieces sent and not yet read: several requests, one, or a
part. `MayMean` says what such a run may be taken for: the request it begins with,
if that is there whole, else any. The answer is one step, unless the client is
`Deaf`, that is, may stop reading: then `send` may block until it reads again or
closes. What an answer is made of is the subject of `Connection`. `orphans` are children whose parent ended: init collects them.

`Request` is `request.c` as operators on a buffer. A buffer is a sequence of
symbols: a space, a line end (the bytes CR LF as one symbol), a zero byte and words,
of which `Word` is the set. A string ends before its first zero byte (`CString`), and
the key and the value of a header are cut to `FieldSize` symbols (`Cut`), as
`snprintf` cuts them to 255 bytes. The
parsing follows the code's scan (strtok on a space twice, the rest of the line,
then line by line up to the first line that is empty or has no end), so that it
says what happens to any sequence of symbols, a request cut in two included.
Where the code reads memory that is not part of the string the outcome is a set:
bytes from elsewhere (`Junk`) or a fault that kills the process.

`Routes` is the loop over `routes[]` and the four handlers. A response is the
record of what its bytes tell the client; the directory is a function from the
names of existing files to contents, which may hold zero bytes. A POST stores any
beginning of its body, for a failed `fwrite` or `fclose` is answered as a good one
(`Writable`, `FilesAfter`). A GET sends of a file what `strdup` copies and then
what is behind the copy (`Duplicated`), and may be killed by it, as by a directory
(`Crashes`).

`Connection` composes `Request` and `Routes` with a client, the byte stream and
the loop of one child. One round of the loop is one step: it reads its
connection once, at the start, and this module has one connection. `network`
says which network it is: `whole`, where each request arrives in one piece and the
client waits for its answer, or `pieces`, where bytes arrive cut anywhere and
requests can be sent ahead.

`Files` is what `post_files` and `get_files` do to one file, a step per call, while
other children do the same: `fopen` truncates, the data arrive in parts that
`fwrite` and `fclose` hand over, a write that failed is not noticed, the length is
taken with `ftell` before `fread`, and `fread` may see less. `Hole` is a byte a
later write jumped over, `Junk` one that was read past the copy `strdup` made, which
ends at a hole or at one of the `Zeros`, the zero bytes of the bodies. `last`,
`before`, `overlap` and `cut` are history for the properties.

`Response` is the builder (`builder`), the response constructed from it and the
buffer the serialiser writes, byte by byte: a text of n bytes is a sequence of n
copies of its name, so sizes and positions are real and wording is not. A body is a
text, or a file, of which `Upto` bytes come before its first zero byte and are copied
by `strdup` (`Duplicate`). The option
functions, `construct` and `to_buffer` each count a size of their own; the
serialiser's write of two bytes past its block and the missing zero byte are
there, with the size `malloc_usable_size` would give (16-byte chunks, 8 of them a
header, as glibc has). `Compression` is the loop of `gzip_compress` around
`deflate`, which may write any amount that fits and fail at any call.
`GzipResponse` composes them: the builder waits while `gzip_compress` runs and takes
its output or its failure.

`Ownership` is one round of the child's loop with every block `malloc`, `strdup`,
`fopen` and the strings allocate. The heap is passed through operators named for
the functions; a block is named by the path of pointers that leads to it. A free
or a use of a block that is not allocated goes to `wrong`.

`Hashmap` has an action per operation over buckets that are sequences of nodes
(what `DArray` implements), `Multimap` is what it promises: a bag of entries, that
is, how many there are of each key with each data. `Hashmap` also has the entries
in the order they were set, to say which one is found.

`DArray` is the dynamic array, one action per function. A slot holds an element,
a null pointer, or `Wild`: what `realloc` leaves in memory it has added. Push
writes first and expands afterwards, as the code does; `Cleared` is the number of
slots that `memset`, which is given a number of bytes, reaches. `List` is what
the array promises. The array of the buckets itself is none of these:
`Hashmap_create` sets its `end` to its `max` and it is never pushed to.
`DArray_set` past the end is not modelled because nothing calls it so.

`Bstring` is a string of `bstrlib.c` as its block has it: characters, size, and
whether the zero byte is there. A call is an operator from the string, the
argument and the allocator's limit to an outcome; `Next` performs any call with
any argument, parts of the string itself included. The limit is the largest block
the allocator grants during the call: `balloc` asks for a power of two and makes do
with exactly the size it was asked for. An argument in a block that has moved reads
as `Junk`, and its copy, where the code makes one, may be refused (`Beside`). `Text` has what the calls promise, on sequences.
`BstrSearch` runs the loops of `binstr`, `binstrr` and their case-insensitive
forms a comparison at a time; `BstrCompare` has the comparisons as operators on
three arbitrary blocks; `BstrStream` has the reads of a buffered stream, one
action per pass of their loops, against a source that returns what it likes or fails,
and `Stream` is its promise: the characters come once each, in order.

| module checked | with | theorems |
|---|---|---|
| `Server` (+ `Sessions`) | `MCServer` | `ServerProofs` |
| `Connection` (`Request`, `Routes`) | `MCConnection` | `ConnectionProofs` |
| `Files` | `MCFiles` | `FilesProofs` |
| `Containers`: `DArray` (+ `List`), `Hashmap` (+ `Multimap`) | `MCContainers` | `ContainersProofs` |
| `Responses`: `GzipResponse` (`Compression`, `Response`), `Ownership` | `MCGzipResponse` | `CompressionProofs` |
| `Strings`: `Bstring` (`Text`), `BstrStream` (+ `Stream`) | `MCBstring` | `BstringProofs` |
| `Searches`: `BstrSearch`, `BstrCompare` | `MCBstrSearch` | `BstrSearchProofs` |

`Containers`, `Responses`, `Strings` and `Searches` put two components side by side
that share no state, with the properties of both under one roof for the run and the
theorems. The MC module of each lets either of them move while the other stays as it
was created: the states are those of both, one after the other, not their product.

In each module a mutant (an operator whose comment begins with "Mutant") stands
before the definition it varies. It is a plausible bug; substituting it for that
definition makes a checked property fail, which shows that the property depends
on that line of the code.

## What is checked

| run | instance | what it shows |
|---|---|---|
| `server_safety` | 2 clients, queue of 2, 1 request each, 2 boots; either client may stop reading | `TypeOK`; `DescriptorTable`: who has what open, at every place; `ZombieHasWakeup`: no dead child is forgotten when signals merge; `EndsForItsOwnReason`: the handler neither ends `accept` nor spoils the error it reports |
| `server_loop` | 1 client that sends 2 requests of 2 pieces and may stop reading, 2 boots; with fairness | `LoopAnswersEach`: each run of bytes that `recv` returns is answered once, in order, as the request it begins with; `KeepsPromise`: `Server` implements `Sessions`, with requests joined and cut, the parent killed and restarted; `ClientsLetGo`: a client that hung up, or asked to close and reads its answer, is released |
| `server_live` | 2 clients, queue of 1, 1 request each, 2 boots | with fairness, killed and restarted anywhere: `ZombiesCollected`; `QueueAndPortFreed`, the queue keeps no client for good and a program that ended gives up its port |
| `server_port` | 1 client, 2 boots | expected violation, see below |
| `connection` | 2 of 33 requests that arrive whole, with and without existing files, one of them with a zero byte; 2 of 4 requests cut anywhere, buffer of 16 symbols | when they arrive whole: `AnsweredAsMeant`, the answer and the files are those of the request as the client meant it; `SurvivesWholeRequests`, no such request kills its child but a GET of a directory or of a file with a zero byte; `StoredIsServed`, GET returns of the last accepted POST what its write stored, and nothing else; `EveryRequestAnswered`. Wherever they are cut: `CloseIsAnnounced`, except by a 400 |
| `connection_early` | 1 request, cut anywhere | expected violation, see below |
| `files` | 2 POSTs (1 and 3 bytes), 2 GETs, with and without an old file of 3 bytes, the second of them zero, parts of 2 | `QuietGetIsExact`: a GET during which nobody writes returns what the last successful POST stored, up to its first zero byte; `JunkNeedsATruncation`: only a GET whose file has a zero byte, was truncated between its `ftell` and its `fread`, or was given a gap by two POSTs, sends bytes nobody wrote or is killed; `BytesKeepTheirPlace`: bytes of two writers mix but never move |
| `containers` | array: 2 elements, first size 2, expand rate 3, at most 8 in use; map: 4 keys, 2 with the same hash and 3 in one bucket, at most 3 nodes | `TypesOK`: the array is no longer than its block, a node is in the bucket of its hash; `RoomAndWritten`: a push always has a slot to write and no slot in use is unwritten; `ImplementsList`: growing and contracting lose, add and move nothing; `ImplementsMultimap`: no entry is lost, found under another key or visited twice; `FirstSetIsFound`: until something is deleted from the bucket, the first entry of a key is the one found |
| `response` | messages of 0 to 12 bytes, and two files with a zero byte, that compress to 5 more, 8 fewer or pass the block exactly; output block of 2 growing to hold 2 to 17; every kind of request for the heap | `TypesOK`; `WholeOrNothing`: compressed whole and in order, or nothing left; `Returns`; `HeadersAsAsked`: each header once, whatever the order of options, and the length that of what is sent; `SentAsMeant`: the bytes sent are status line, headers and body and nothing else, but for the rest of a file behind a zero byte; `SoundUse`, `OnlyAbandoned`: see the hazards of `response.c` and `main.c` |
| `bstring` | 2 characters, arguments of up to 3, strings of up to 4, an allocator that grants everything, blocks of up to 3 or 2, or nothing; sources that may fail, of up to 4 characters, buffers of 1 to 3, two sets of terminators | `TypesOK`: the characters of a string are written ones and inside its block; `EditsKeepPromise`: each call does what `Text` says, or leaves the string as it was and says that it failed, on parts of the string too; `CopiesOrFills`; `ReplacesAll`; `ImplementsStream`; `ReadsAsAsked`; `CallsReturn` |
| `bstring_part` | the same | expected violation, see below |
| `bstrsearch` | strings of up to 5 letters and up to 3 of them sought; three blocks of up to 2 of 5 bytes | `FindsNearest`, `Ends`: binstr's skipping and going back included; `EqualityAgrees`; `Ordered` |

Bounds. Two clients are what it takes to have one child die while another is
collected, accepted or served; the theorems, which hold for any number, cover the
third. In `server_safety` the queue holds both, in `server_live` it fills up. What
passes between a child and its client concerns no other client, so `server_loop` has
one: two requests of two pieces are joined whole, cut in the middle, and joined with
the half of the next. Two boots give one restart; a second restart starts from the
same kinds of leftovers. In `Connection` the requests combine each handler with the
headers that matter to it: repeated headers, an empty value, values of more than
`FieldSize` (3) symbols, lengths that are zero or not a number, a body that begins
with a line end and looks like a header; and targets that are a directory, a file
that cannot be written and one with a zero byte. `BufferSize` is in symbols; 40 holds
any of the requests, and 16 any of the short ones but not every two of them, so that
joined requests are cut by the buffer too. In `DArray` eight elements are past two
multiples of the expand rate, so that the array grows three times, and pops
contract it from above and from below a multiple; the proofs hold for any sizes,
the code's 100 and 300 among them. In `Files` a body of three bytes is written in
two parts. In `GzipResponse` the lengths make the serialiser's block end at every
place of a 16-byte chunk. `MinBlock` is 2 where the code has 8, so that four
characters make a string grow twice; of the `Limits`, 2 and 3 refuse the size
`balloc` wants and grant the one it falls back to, with and without room for the
zero byte. `binstr` goes back by at most what it has
matched, which three letters sought among five allow at every offset. Symmetry is
used only in runs without liveness.

`CHECK_DEADLOCK FALSE` where the system may stop: the program may end for good
(killed, or a call failed, and the boots used up) when all clients have left; a
client may send all it is allowed to and stay silent; the requests for a file, a
response, or a search are done when they are done.

Fairness. `Server`: weak fairness of the parent's steps, of the handler's and of
each child's: a process that can run is scheduled, and a signal that is pending
is delivered. Nothing is asked of the clients, of system calls failing or of
whoever restarts the program. `accept` and `recv` block when there is nothing to
take, which is when those steps are disabled; a `send` that blocks goes on when the
client reads or closes, which nobody owes. `Connection`: the child is
scheduled and the network delivers what was sent. (There the fairness of the
child has its ENABLED written out as `ChildReady`, which TLC evaluates faster.)
`GzipResponse` (`InGzip`), `BstrStream` (`Round`) and `BstrSearch`: a loop that has
begun goes on, for the process is scheduled and `deflate` and the source return,
if only to fail;
nobody has to call a function.

### Violations

* `server_port`. The comment at `src/src/main.c:77` says that SO_REUSEADDR keeps
  restarts from running into "Address already in use". A child closes
  `server_fd` in its first statement; if the parent is killed between `fork` and
  that statement and the program is started again at once, a socket still
  listens on the port and `bind` fails. `QueueAndPortFreed` shows that this passes.
* `connection_early`. `src/README.md:7` calls the program an HTTP/1.1 server.
  What one `recv` returns is taken for one request, so a request in two segments
  is answered when the first has arrived: with 400, or, if the cut is after the
  first line, as a request without headers.
* `bstring_part`. A replacement that is a part of the string, lies before `pos` and
  makes the string longer is read after its block has moved: `findreplaceengine`
  copies the argument only if it ends behind `pos`. `ReplacesAll`, in `bstring`,
  shows that all other replacements are right.

Three more statements of documents the code does not keep are no runs of their own. A
client of an HTTP/1.1 server may send a request before the last one is answered: when
one `recv` returns both, the parser reads the first and the second is dropped with
the buffer (`MayMean` in `Server`, `ServeRequest` in `Connection`). The comment at
`src/src/bstrlib.c:244` says that `bfromcstrrangealloc` gives at least `minl` bytes; it
halves what it asks for, and two odd halves add up to one less (the model has it).
And `bstrnicmp`, which nothing here calls and no module has, promises at
`src/src/bstrlib.c:714` a comparison without regard to case, but where folded
characters differ subtracts the unfolded ones.

## What is proved

`ServerProofs`, for any set of clients, queue length, number of requests and
number of boots, from the assumption `ServerAssumption` alone (the parent, the
listening socket and the absent connection are no clients; the bounds are
natural numbers):

* `TypeCorrect`: `Spec => []TypeOK`.
* `DescriptorsCorrect`: `Spec => []DescriptorTable`. The table alone is not
  inductive: that `fork` gives a child the right descriptors needs the fact that
  the connection in `socket_fd` has no child yet. `Ownership` says so: a client
  is once in the queue, or in the parent's hands, or has a child.
* `ZombiesNeverForgotten`: `Spec => []ZombieHasWakeup`.
* `EndIsExplained`: `Spec => []EndsForItsOwnReason`, from `ErrorKept`: between a
  failed `accept` and the report, the error is in `errno`, or in the handler's
  copy while it runs.
* `LoopCorrect`: `Spec => []LoopAnswersEach`, with `NothingRead`: a connection
  whose child has not begun to read has nothing read or answered. For any number of
  pieces, that is, wherever a request may be cut.
* `SessionsKept`: `Spec => KeepsPromise`, the refinement of `Sessions`. A session is
  open or over by what the kernel still holds of its connection, so the proof needs
  the facts above and `Handed`: a connection in the parent's hands is a client's, and
  not in the queue any more. Each action of `Server` is then an action of `Sessions`
  or no step of it.

`ContainersProofs`, of the array, for any elements, first size, expand rate and
pointer size, from `DArrayAssumption` (the sizes are positive, the two special values
are not elements):

* `ArrayHasRoom`: `Spec => []RoomAndWritten`. With `ArrayTypeOK` it is inductive:
  every push and every contraction leaves a slot more than is in use.
* `ArrayIsAList`: `Spec => ImplementsList`. Every action maps to the action of
  `List` it stands for, compared element by element.

`CompressionProofs`, for any length of the output, any first size of the block and
any amounts that `deflate` writes, from `CompressionAssumption` (lengths are natural
numbers, the first size is positive):

* `CompressedWhole`: `Spec => [](TypeOK /\ WholeOrNothing)`. `Progress` makes it
  inductive: the block holds the bytes written so far without a gap, `next_out` is
  behind them also after the block has moved, and block and zlib's stream are held
  exactly from the first call to the last.
* `GzipIsCompression`, `GzipImplementsResponse`: in the composition, the compression
  behaves as `Compression` does alone, and the builder as in `Response`, where the
  compressed body, or the failure, is there at once. The latter needs `Asked`: the body
  does not change while `gzip_compress` runs.
* `HeadersSayIt`: `GSpec => []HeadersAsAsked`. The property speaks of a finished
  response, so `HeadersInv` says at every call what the headers must say by then: what
  was asked so far, or, while the builder has none, nothing that needs one but a close,
  which `construct` makes up for. A header is there once or never (`Once`, `Never`); the
  lemmas say what `Hashmap_set` of this and of another name does to that (`AddFirst`,
  `AddOther`), and `Hashmap_delete` of a name that is there once (`DeleteOnce`), for
  headers in any number. From `ConstantsAssumption`: the bodies and their compressed
  forms are texts no longer than `Longest`, whatever that is, and a null pointer is none
  of the values it stands beside.
* `BytesSent`: `GSpec => []SentAsMeant`, for the same bodies; of a file with a zero
  byte it says what is sent in the place of the rest. The bytes are proved step
  by step (`BytesInv`): the builder's data is the body that was asked for, and without a
  body its only header can be Connection (`Built`); `construct` cuts the field lines where
  the body ends and counts what it writes, but for an empty line (`Made`); `Written` is
  what the serialiser lays over its block, which `Fits` the message or is two bytes
  longer. `Sends` puts it together: `send` of `total_size` bytes stops before those two;
  what goes through `strlen` has no body, no zero byte (`PlainHasNoMark`) and a chunk
  longer than itself (`ChunkIsLonger`), so that the first zero byte is the one behind it.
  The prover does not know that a literal is a string, how long it is, nor digits:
  `TextsAssumption`, `ReasonsAssumption` and `NumbersAssumption` state that the texts are
  strings, how long those of a status line and of Connection are and that `ToString`
  writes different numbers differently. TLC evaluates them with the others in the run
  `response`.
* `TypesKept`: `GSpec /\ Own!Spec => []TypesOK`, from the same invariant. Its claim on
  the code is that `construct` never leaves fewer bytes of field lines than the
  serialiser copies.

`FilesProofs`, for any number of POSTs and GETs, any lengths, any old file, any zero
bytes in the bodies and any size of a part, from `FilesAssumption` (the markers `Hole`, `Junk` and `NULL` are no
bytes of a body; the size of a part is positive):

* `BytesKept`: `Spec => []BytesKeepTheirPlace`.
* `JunkExplained`: `Spec => []JunkNeedsATruncation`.
* `QuietGetsExact`: `Spec => []QuietGetIsExact`.

None of the three is inductive; they follow from one invariant, `FilesInv`. `Meeting`:
of two requests under way each knows of the other, so that what the properties ask of
the history is asked of what happened. `Places`: a POST that no other overlaps has
written the beginning of its body, up to its offset, and nothing else is there.
`Reading`: a file that was not truncated is still as long as `ftell` said, and a hole
that was read came from an overlap of POSTs. `Quiet`: while nobody writes, the file is
what the last POST stored, if that one was not disturbed, and a GET that no POST
overlaps sees that file from its `fopen` to its last `fread`.

`ContainersProofs`, of the map, for any keys and data, any hash function, any number
of buckets and of nodes, from `HashmapAssumption` (a null pointer is neither data nor a
list):

* `FirstIsFound`: `Spec => [](TypeOK /\ FirstSetIsFound)`. The invariant `MapInv`
  compares each bucket with the history: the first entry of a key and the first
  node of it have the same data (`Agree`), as long as the bucket is undisturbed. The
  other half, that a node is in the bucket of its hash (`AtHome`), is why a lookup that
  sees one bucket has seen all nodes of the key.
* `MapIsABag`: `Spec => ImplementsMultimap`. What a traversal counts of an entry is
  what the bucket that changes has of it and a rest that does not (`BucketChanged`);
  `Hashmap_set` adds one to the former (`CountAppend`), and `Hashmap_delete`, which fills
  the hole with the last node, takes one away (`CountFilled`, by a pairing of the places).
* `TypesKept`: `ArraySpec /\ Spec => []TypesOK`, for an array and a map side by side.

`BstrSearchProofs`, for any strings, any position and any folding of characters:

* `SearchFinds`: `Spec => []FindsNearest`. Of the invariant `SearchInv` the heart is
  `NothingPassed`: no place before the one under comparison (behind it, for the
  searches that go backwards) is a match. `binstr` makes this hard: it leaves out
  characters in the middle of a match and then goes back to where the match could
  have been, so that what it has compared is not what it has passed (`Taken`).
* `SearchesStayWithin`: where a loop reads is never before the first string, nor
  outside the second; the plain searches do not read past the first either.

* `ComparisonsAgree`: `BC!Spec => []EqualityAgrees`, and `ComparisonsOrder`:
  `BC!Spec => []Ordered`, for any strings of bytes, from `BstrCompareAssumption` (which
  says that characters are bytes). The proof gives each string the sequence of numbers it
  is compared by: signed characters up to a zero byte, the end of the string below them
  (`CharNumbers`); for `bstricmp` those in lower case, the end between the negative ones
  and the others (`FoldNumbers`). A comparison is the lexicographic order of these
  sequences, from which it follows that it reverses and is transitive.

`BstringProofs`, of the editing calls, for any characters and texts, strings of any
length, blocks of any smallest size and any behaviour of the allocator, the tight
blocks of `balloc` included, from `BstringAssumption` (`Junk` is no character, a block
has at least two bytes):

* `StringsInsideTheirBlock`: `Spec => []TypeOK`, for which every call is shown to leave a
  string whose characters are inside the block (`Good`). The zero byte may be one past
  it, after `bassign`, `breplace` or `bfromcstrrangealloc` with a tight block; so the
  calls are proved for a string that fills its block, too.
* `EditsKeepTheirPromise`: `Spec => []EditsKeepPromise`. It quantifies over all calls, so
  it follows from the types of the string they are made on; the work is in what each call
  returns. A call is a few copies between blocks: the lemmas on `Put` and `Middle` say of
  each place what it holds afterwards, and two texts are compared place by place. An
  argument that is a part of the string reads as it was, because it is copied before the
  block moves or the block does not move (`Copied`, `Unmoved`). The exception is
  `bassign` of a part that fills the block (`Displaced`).
* `CopiesAreWholeOrFill`: `Spec => []CopiesOrFills`.
* `ReplacesEveryPlace`: `Spec => []ReplacesAll`. The places are found one behind the other
  and do not overlap (`Layout`). What the text with all of them replaced holds is said
  piece by piece (`Spread`). For a shorter replacement the pieces move to the left
  (`NarrowedTo`), for a longer one to the right, from the last to the first (`GrownTo`):
  by induction on the number of pieces moved, these are where they belong and the others
  still where they were.

`BstringProofs`, of the streams, for any sources, any terminators, any size of the buffer,
any number of characters the source returns at a time and any reads that fail, from `BstrStreamAssumption`
(sources are sequences no longer than `MaxRest`, buffers are not empty):

* `StreamsReadEverything`: `BS!Spec => ImplementsStream`. A stream maps to what is in its
  buffer, in the hands of the call and in the source, one behind the other; the invariant
  `StreamInv` knows between two passes of a loop what the call has collected, that it has
  no terminator yet (`LineGoesOn`), how much of a length is missing (`LengthGoesOn`), and
  that
  the end was seen only of a source that has ended or failed (`EndsKnown`).
* `StreamsReadAsAsked`: `BS!Spec => ReadsAsAsked`, for which the same invariant serves.
* `TypesKept`: `Spec /\ BS!Spec => []TypesOK`, of a string and a stream side by side.

`ConnectionProofs`, for any words and paths, any number of requests with any number of
headers, any bodies and any buffer the requests fit, from three assumptions.
`RequestAssumption`: the names of headers are words and no numerals, a space, a line
end and a zero byte are no words, and `NULL` and `FAULT` are no values of the program.
`RoutesAssumption`: a word has one prefix and one rest, and no other word has both;
the exact paths do not begin with the prefix of another route. `ConnectionAssumption`:
the requests of the network `whole` are `WellFormed` (a value does not begin with a space
nor hold a line end; a Content-Length that is a number is that of the body, which has no
zero byte) and fit the buffer. Of the requests that are cut anywhere nothing is assumed.

* `CloseAnnounced`: `Spec => []CloseIsAnnounced`, on both networks. `CloseInv` adds what
  makes it inductive: while the child reads, no answer has announced the close. That an
  answer says so exactly when the loop ends goes through the four handlers
  (`HandlerCloses`); the 400 of `get_files` is the exception the property makes.
* `WholeIsUnderstood`: a request that arrives whole is parsed into what its client
  meant. The lemmas follow the parser over a text of any length: the header lines lie
  one behind the other (`Lined`, from `FlattenedLaid`), so that the line ends the parser
  finds are those of the lines (`EndsAre`), it stops at the empty line and not earlier
  (`HeadersEndIs`), the field of a line is its header (`FieldIs`), the first line of a
  name holds the first header of that name, cut to the room there is (`HeadersAre`), and
  the body is what is behind the empty line, whatever it looks like (`DataIs`).
* `AnsweredInTurn`: `Spec => AnsweredAsMeant`, and `WholeSurvived`:
  `Spec => []SurvivesWholeRequests`, but for what get_files cannot serve
  (`Unservable`), from `Turn`: while the child reads, either nothing
  is on its way or exactly the next request is, in one piece.
* `StoredServed`: `Spec => []StoredIsServed`, from `Turn` and `StoreInv`: while the child
  reads, each file holds what was written of the body of the last request that stored in
  it. It needs that a
  POST is answered with 201 exactly when it writes (`WritesIs`), that two targets do not
  name one file (`ParamOneToOne`), and that no other route takes a target of a file
  (`FilesAnswer`).

`SequenceLemmas` has what these proofs share: extrema of sets of numbers, removal from
a sequence, what `FlattenSeq` and counting return, and where the parts of a flattened
sequence lie. The prover cannot use the
induction theorems of its library, which take a predicate as a parameter. The lemmas
about data of any length go through a set instead: `SmallestOf` (a set of numbers has
a smallest one, from the well-foundedness of the inclusion of finite sets) gives
`EveryNumber` (a set that holds 0 and with each number the next one holds all), which
is used with the set of the numbers the claim holds for.

An invariant is proved to hold initially and to be kept by every action (one step per
action, one lemma where that is long), and the theorem combines the two. A refinement
is proved by one more step: an action is, under the mapping and given the invariant,
an action of the abstract specification or changes none of its variables.

Of two components side by side each theorem speaks of one alone; their types are
proved of the conjunction of the two specifications.

Only model-checked are: liveness (`ClientsLetGo`, `ZombiesCollected`,
`QueueAndPortFreed`, `EveryRequestAnswered`, `Returns`, `CallsReturn`, `Ends`), which is
beyond the prover (it needs ENABLED); and `SoundUse` and `OnlyAbandoned` of `Ownership`,
which has no constants, so that the run checks every state it has.

## What is not modelled

* In the parser: the bases of `strtol`, a CR without LF, a cut between CR and LF. A
  negative Content-Length has its outcome in `Request`, but no run sends one: the
  copy of a huge size kills the child and no property holds of it. The requests that
  arrive whole have no zero byte: what the parser makes of one is in `Request`, but
  it is not what the client meant.
* In the response: the options HTTP_VERSION, -HEADERS and -BODY, which nothing
  uses.
* Failed allocations, except in `Bstring`. In `DArray`, `Hashmap`, `Response`,
  `Compression`, `BstrStream` and `Ownership` memory is always found: in most places the code
  does not survive a failure (`DArray_resize` stores the new size first,
  `Hashmap_set` ignores an error), so nothing could be stated. `DArray_clear`,
  `DArray_destroy` appear only as frees in `Ownership`.
* In `Bstring`: an allocator whose limit changes between the allocations of one call; a
  string that a failed `bcatcstr` or `bassigncstr` left without its zero byte, or that a
  `bassign` of a part of itself that fills its block left without its characters, is not
  used again; overflow of `int` sizes and the growth of the array of positions in
  `findreplaceengine`; `bcatblk` and `bcatcstr` on a block inside the string; searches of
  a string in itself.
* What a zero byte one past its block overwrites: in `Bstring`, where the allocator was
  tight, and in `response.c:304`, where `strncat` writes it.
* In `bstrlib` (vendored): `bspeek`, searches for sets of characters, trimming,
  case conversion, lists (split and join), `bgets`, `bread` and formatting: the
  server calls none of these, and what they add to the modelled calls is data, not
  control.
* In `Files` the directory itself: the file is one that `get_files` can open and that has
  a length (`Routes` and `Connection` have the rest).
* `dbg.h`, `getopt`, logging, build files.
* Which pieces the kernel makes of an answer, and how much of one it takes before `send`
  blocks.
* A client that sends and never closes, with no timeout in the code, holds a
  child for good: no property asks otherwise.

## Plan

1. (done) `Sessions`, `Server`, `ServerProofs`; `Request`, `Routes`, `Connection`;
   `List`, `DArray` with its proofs.
2. (done) `Files`; `Hashmap` and `Multimap`; `Response`, `Compression` and their
   composition `GzipResponse`; `Ownership`; `Text`, `Bstring`, `BstrSearch`,
   `BstrCompare`, `Stream`, `BstrStream`; the restart in `server_live`.
3. (done) Proofs: `Server` implements `Sessions`; `Compression` and `GzipResponse`;
   `Files`; `Hashmap` implements `Multimap`; `BstrSearch`; `Connection`; the headers
   and the bytes of a response.
4. (done) Proofs: the editing calls of `Bstring` keep its promise; `BstrStream`
   implements `Stream`; the comparisons are orders; the type invariants of all runs.
5. (done) What reading the models beside the code asked for: requests joined and cut in
   `Server`, a blocking `send`, failed writes, directories and binary files, the 255-byte
   cut, tight allocations, failing reads.
6. (left) `Server` with the requests of `Connection` in the place of their kinds; failed
   allocations in `DArray` and `Hashmap`, once the code survives them.
