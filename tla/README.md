# coremio in TLA+

coremio is a C11 library of small components for small servers. This directory
is its verification development: TLA+ modules that follow `src/src/*.c`
operation by operation, TLC runs that check them on small instances, and
theorems that TLAPS proves for every value of the constants. `PROJECT.json`
lists the components, the runs, what each definition stands for in the source,
the hazards and the theorems.

## 1. Inventory

Every component is a C file with a header; state lives in structures the caller
owns; nothing is persisted except by SQLite. Only `runner` and `server` create
threads, only `memory`, `runner`, `server` and `database` hold locks.

| component | state | operations | what is hard |
|---|---|---|---|
| `runner` | status, result, stop flag, thread handle, four mutexes, one condition variable | initialize, run, join, tryjoin, stop, get_status, get_result, is_running, free | any number of threads call in; each field has its own lock, so every decision is taken on a status that may be old |
| `server` | listening socket, accept thread (a runner), queue of accepted connections, white and black lists | initialize, whitelist, blacklist, run, get_connection_node, connection_free, free | accept loop against the user's calls; resources that must not leak on any path; restart |
| sockets (`server.c`) | descriptors | create_server, create_client, read, write, close | partial reads and writes, timeouts that survive wakeups, several addresses, what a failed creation leaves open |
| `tls` | SSL context and session | create_client (context, certificate, session, handshake), read, write, close | retries on WANT_READ and WANT_WRITE; four things to release in each failing step |
| `http_payload` | raw buffer, parse step, header map, body | read, write, unserialize, serialize, setters, free | a message arrives in arbitrary pieces; what is parsed must not depend on the pieces, and the read loop must not block while a whole message is buffered |
| `database` | SQLite handle, recursive mutex, prepared statements | initialize, raw_command, prepare, execute, execute_list, free | batches as transactions, failures in the middle, commands from other threads |
| `list` | intrusive doubly linked list with an owner per node | append, insert, remove, sort, foreach | pointer surgery at the ends; a node in two lists |
| `memory` | registry of live allocations under a mutex | malloc, calloc, realloc, free, print, manage | the registry must follow realloc and survive failing allocations |
| `array` | growable buffer | add, set, get, free | growth at the limit, failing realloc |
| `red_black_tree` | tree nodes embedded in user structures | insert, foreach, find | rotations and colours |
| `dictionary` | red-black tree of hashed keys | get, get_or_create, free | two keys with one hash |
| `string` | growable text | trim, format, append | lengths at the boundaries |
| `tokens` | array of tokens, partial token kept across buffers | explode_buffer, explode_stream, print, compare, free | a token cut at a buffer boundary; strings that move when they grow; no memory in the middle |
| `json` | array of tokens, value tree | explode, get, set, delete, print, free | a string belongs to the array or to its node; a path that makes what it lacks; failures half way |
| `boxed_nan` | a 64-bit word | box and unbox | bit patterns |
| `result` | a registry of result codes | declare, describe | none |
| neural networks | weights | train, predict | floating point only |

`server` embeds a runner and two lists; `http_payload` reads through a callback
that is a socket or a TLS session; `json` drives `tokens`, which keeps its tokens in an
`array` of `boxed_nan` words; `dictionary` drives
`red_black_tree`; everything allocates through `memory`.

What would make each component correct:

* runner: one job at a time; a final status comes with its own result; a granted
  stop is never lost and ends the job; a waiter is always woken; a join waits for
  the job; free leaves no thread behind.
* server: every accepted descriptor is in the queue, in the user's hands or closed;
  a black-listed peer is never queued; free closes everything.
* http_payload: the parsed message is the same for every way of cutting the input.
* database: a batch is all or nothing, and leaves no transaction open.
* list, red_black_tree, dictionary: the pointer structure stands for the sequence,
  or the map, that the operations would build abstractly.
* memory: the registry lists exactly the live blocks.
* tokens: the token sequence does not depend on the cuts.
* array, string: no write past the allocation.
* sockets, tls: a creation that fails and a close leave nothing behind; a call with a
  limit ends within it, however often it is woken up.
* json: what was printed says the same when it is read back; a setter changes the
  value at its path and no other; every string and node has one owner.

## 2. Modules and the code they follow

| module | source | what its state and actions are |
|---|---|---|
| `JobLifecycle` | the contract of a runner | abstract: one slot, the job in it and how it ends |
| `Runner` | `runner.c`, `runner.h` | the fields of `s_runner`, the place of every caller and of every job's thread; a step is one critical section, or the code between two of them |
| `RunnerInv`, `RunnerProofs` | | the inductive invariant of `Runner`, and the proofs |
| `Server` | `server.c` from 192 on | one owner that initialises, runs, stops, joins and frees; users that take connections and close them; the accept thread. The runner inside is taken by its lifecycle, with a stop that is one step |
| `ServerProofs` | | the proofs about it |
| `AddressMatch` | `p_server_address_matches` | the CIDR test on addresses of `Width` bits, and the block an entry should stand for; `Server` extends it |
| `HttpPayload` | `http_payload.c` | both ends of one message: setters, the serialiser, a header line per step in any order of the traversal, then the read loop and the parser, a turn of the parser's loop per step |
| `Sockets` | `server.c` from 24 to 190, `tls.c` | one endpoint: the call in progress or the state between two, the caller's handles beside what exists in the kernel and in OpenSSL, the timeval of the call |
| `SocketsProofs` | | the proofs about it |
| `HttpOverSocket` | `f_http_payload_write`, `f_http_payload_read` over both | `HttpPayload` and `Sockets` together: connect, write until all is out, read, hang up |
| `HttpProofs` | | the proofs about the message and its connection |
| `ListSequence` | the contract of a list | abstract: a sequence per list |
| `List` | `list.c`, `list.h` | the fields of `s_list` and `s_list_node`; the ghost `items` is moved by `ListSequence`; a walk is a `d_list_foreach` of the user |
| `ListSort` | `f_list_sort` | the merge sort on the links: the calls of its recursion are a stack (`calls`), a step is a turn of a loop, a call or a return, and either half may be sorted first, as C leaves open. Each call carries, as ghosts, the nodes of its two chains. The links of the list are in `forward` and `backward` until the sort returns, because nobody may look at them before |
| `Memory` | `memory.c` | threads inside malloc, realloc, free and print around `m_memory_lock`, and a user (`KeeperStep`) with lists of his own |
| `ListProofs`, `MemoryProofs` | | the proofs about both |
| `ListUsers` | | `Memory` and `ListSort` together: the user sorts his lists while the other threads go on |
| `Database` | `database.c` | the recursive mutex, the transaction SQLite has open, what it wrote and what is committed, the calls each thread is inside |
| `DatabaseProofs` | | the proofs about it |
| `DictionaryMap` | the contract of a dictionary | abstract: a map that grows |
| `RedBlackTree` | `red_black_tree.c` | the fields of its nodes; a step is one call of the insertion or of a recursion over the tree, or one turn of the loop that repairs the colours. The two mirrored halves of the code are one definition with a side. Two ghosts: the black height of a node and the values that may stand below it |
| `Dictionary` | `dictionary.c` | the keys of the nodes, the blocks allocated, the call in progress; a step is one call of the recursive search, of a traversal or of a free |
| `DictionaryProofs` | | the proofs about both |
| `Tokens` | `tokens.c`, `array.c`, `boxed_nan.c` | the buffer and the position in it, the tokens and the size of their array, the accumulators of the token in progress; one character per step |
| `Json` | `json.c` | the tree of nodes, each with the flags for its own strings; a call of the library is one step, the reading of a stream one step per character |

`Memory` extends `List`, as `memory.c` keeps its registry in a list, `Dictionary`
extends `RedBlackTree`, `Json` extends `Tokens`, and `HttpOverSocket` extends both
`HttpPayload` and `Sockets`. `Server` uses a runner by its lifecycle and
not by `Runner`: the refinement of `JobLifecycle` is what makes that enough.

Mutated forms of operations, marked `mutant`, stand before the operation they
mutate; they belong to no specification. `PROJECT.json` names, for every
property, the mutant that breaks it.

## 3. The runs

| run | question | bounds, and why they are enough |
|---|---|---|
| `runner_owners` | two threads that both launch, join, tryjoin, stop, read and free one runner | three launches: a job, its successor, and one more that a caller with an old status can meet |
| `runner_sole` | one owner, two threads that stop and read; with liveness | two launches, so that a stop or a read may be late by one job |
| `runner_join_returns_early` | finding, see 6 | |
| `server_users` | an owner and a user drain a server that is run, run again and freed | two connections of two peers (order and duplicates), an entry for one peer and one for both, two sockets and two runs; all entries of four-bit addresses |
| `server_reopened` | finding | |
| `http_round_trip` | 18 messages, their headers visited in either order, over a plain or a TLS connection that may fail anywhere, each received in every cut and followed by the next one; with liveness | a buffer of 5 symbols with room for 2, so that it is grown and compacted in the middle of every token; header sets, bodies that look like headers, none; two addresses, the first of which may refuse; a timeout of 0, whose two meanings differ, and one of one turn of select with a wakeup in it |
| `http_empty_value` | finding | |
| `list_users` | two threads on the registry, one of them with two lists | three blocks: a node with neighbours on both sides, a block that moves, one that is free; lists of three nodes, two of them with the same key, in every order, so that a half is split again and the order of equal nodes can be lost; the two blocks of one key, and the two lists, are symmetric |
| `database_batches` | two threads, batches, nested batches and raw commands of any kind | three batches: one with another inside its callback and one of the other thread, or one after a COMMIT or a ROLLBACK that failed; two queries, so that the second may fail; a raw command, at any place of any of them; with liveness |
| `dictionary_map` | eight keys in every order, looked up, visited and freed at any time | the smallest tree in which a recolouring leads to a rotation above; which free block a key gets makes no difference, so it is the one named like the key (`NamedByKey`) |
| `dictionary_collision` | finding | |
| `json_documents` | two calls on an empty document in every combination, printed, freed, read back through every cut, one more call; the same for two foreign texts | paths of one and two levels, labels and indices; strings that fit a word (three bytes) and that do not, a double 0 and a string of a quote and a backslash, which the text loses; numbers up to a small INT32_MAX so that they overflow into doubles, one digit behind the point; reads of up to 7 bytes, so that every text is cut, anywhere, and every number can be read whole; an array that grows by 4, so that it grows in the middle of a document; at most one failure for each document, in each place |

Where deadlock is not checked the system really stops: every message was
delivered or the connection closed (`HttpRoundTrip`), the document is freed
(`JsonDocuments`), or the bounds on sockets and runs are used up (`Server*`).

The types of `HttpPayload`, `Server`, `Database` and `Dictionary` are conjuncts of
one structural invariant each (`TerminatorKept`, `EveryConnectionHeld`,
`NothingIsLeftOpen`, `TreeIsRedBlack`). The types of the runner, of lists and of
memory, that a final status comes with its own result (`FinalMeansPublished`) and that
every job with a thread runs its callback (`JobsAreNotSkipped`), are proved and not run.

### What the environment may do

* Callers: `f_runner_initialize` and `f_runner_free` are called when nobody else
  is inside a call, and nobody stops the same job twice. The server has one owner.
  `f_database_initialize` and `f_database_free` are called alone
  (`f_database_free` destroys the mutex another thread would wait for), and a
  dictionary is initialised again after a free, which leaves its root dangling (that is
  part of `FreeEnds`). One thread uses a dictionary, and its visitors leave it alone.
* A failing initialisation changes nothing, so it is no step.
* `pthread_join` on a handle that was joined, or never set, is undefined: the
  model lets it return at once or not, and marks the state `misjoined`. What is
  said of `runner_owners` is said until then; `runner_sole` shows that one owner
  never gets there.
* A list node is zeroed before its first append, `f_list_insert` is given a
  predecessor of that list, and a block is freed only once its item is in no list.
* SQLite is external: any command may fail, BEGIN, COMMIT and ROLLBACK included, and
  leave the transaction as it was or end it (`Error`); a query that fails has written
  nothing. Raw commands are sent by any thread, from outside and from the callback of a
  row, at any time: they write, begin a transaction, commit or roll back the one that is
  open, or end it by an error. The ghost `torn` holds the batches whose transaction
  another command ended while they were at their queries, or committed after they went
  for their ROLLBACK; nothing is promised of such a batch, everything of the others.
* The kernel and OpenSSL may fail at any step, return early, and hand over any part of
  what is asked for; `select` takes what it waited off the timeval, as on Linux.
* A document: at most one failure; the stream has no zero byte; a path for a deletion
  is not empty (that would free the root and keep the pointer, `json.c:99`); nobody
  keeps a pointer into a node that is changed.
* Any allocation may fail. In `HttpPayload` that is a step of its own of the serialiser
  and of the reader; the setters only build the constant messages and are taken with
  memory (without it one returns SHIT_NO_MEMORY, and the message is not sent). In `Dictionary`
  the call ends as it does when the key is not to be created (`Missing`); block sizes are
  left out of `Memory`. While a message is serialised it makes the call fail, or leave a
  header line out (section 6); what is said of a message is said of one laid out whole.

### Fairness

* Runner: a thread inside the library goes on, and a callback goes on polling
  (weak fairness); nothing makes a callback return by itself. The deadline of a
  tryjoin is absolute, so it passes however often the wait is woken up (strong
  fairness of `TryTimeout`).
* Server: the accept thread goes on, for its `select` waits 250 ms at most; so
  does the owner inside run and free. Nobody has to connect or to call.
* Database: a thread inside an execute function goes on; SQLite gives up a lock
  after its busy timeout, and callbacks return. The calls are finite in number,
  so a mutex that is not fair is enough.
* Sockets: a thread inside a call goes on (weak fairness of `HttpCall`): `select` comes
  back at the latest when its time is over. A plain call with a timeout of 0 has no
  limit, and `CallsReturn` says nothing about it.
* Memory and lists: no liveness is claimed; `pthread_mutex_t` promises nobody a turn.

## 4. What the runs show

* Runner: at most one job; a final status comes with its own result; a granted
  stop survives the launch it races with and ends a polling job; a waiter is
  woken; the implementation refines `JobLifecycle`.
* Server: each accepted connection is in the accept thread, in the queue or with
  one user, in order; the verdict on a peer agrees with lists that existed while
  it was judged; freeing closes everything, if the socket was opened once.
* HTTP: the parsed message does not depend on the cuts, nothing behind it is
  lost, and the search functions never look behind the received bytes.
* Sockets and TLS: whatever fails on the way to a connection, nothing stays open; reads
  and writes come back within their timeout, also when they are woken up without cause.
* Lists and memory: links in both directions, ends, owners and counters agree with
  the sequence; the sort is stable; the registry is what is alive; a print meets no
  block that is being freed.
* Database: a batch that no other command has cut is committed as a whole or not at
  all, whatever fails, with other threads writing in between and other batches cut; a
  batch called from a row callback is refused by SQLite before it can commit the batch
  around it. With NOICE a batch is committed, with `*successfully_rollback` true nothing
  of it is left. With false nothing of it is committed, but the caller cannot know
  whether the transaction is gone or still open with what it wrote. A ROLLBACK or a
  COMMIT that failed is the only way to leave the transaction of a batch open.
* Dictionary: the tree holds its nodes through every rotation and is red-black between
  two calls; a traversal and a free meet each entry once, the free never after its
  deletion; with distinct hashes lookups see a map.
* JSON: a document that setters built is read back as it was printed, for every cut
  the tokenizer survives. Not so a document with a double 0 or NaN, a double quote in a
  string or a key, or a backslash at its end: the run has such documents (NaN apart) and
  the property leaves them out (`Legible`), because the text has lost them already. Of
  numbers the model has finite ones with one decimal, so nothing is said of the digits
  that `%f` drops. A setter, whatever fails in it, leaves the values on other paths
  alone; blocks are neither lost nor freed twice.
* Tokens: `WritesStayInside` compares every index that a string, its terminator and
  the look for its quotes touch with the size that was allocated (`Push`, `BlockSize`),
  and every token with the size of the array (`Grown`). They fit for every cut, but for
  three cases that it names: the array could not grow, read() failed, or a string is one
  opening quote so far.

## 5. What is proved

TLAPS checks these for every value of the constants: threads, jobs, lists, nodes,
blocks, descriptors, users, connections, batches, tree nodes and keys.

* `RunnerProofs`. The properties of section 4 are not inductive: a status says
  nothing of where a thread is. `IInv` (in `RunnerInv`) adds which step belongs to
  which call, that whoever set `launching` is alone until the thread exists, what
  status goes with which place of the last job's thread, and that free is alone.
  It is inductive while no `pthread_join` was misused; `Inductive` carries that
  guard, and every safety property and the refinement of `JobLifecycle`
  (`Refinement`) follow from it. `SoleOwnerIsSafe` strengthens it for one owner
  and removes the guard; `SoleTryjoinIsBounded` rests on that and on `TryjoinPasses`: while
  the owner's tryjoin is past its wait nobody can launch, so the status stays final.
* `ListProofs`. `LinksAgree` is local: next and previous are inverse on the nodes
  of a list, ends have no neighbour, and the counter is the number of owned nodes.
  It is inductive as it stands, with the types and finiteness. That the links stand for
  the sequence `items` (`StandsForItems`) is proved without induction over the list: each
  of append, insert and remove changes the sequence and the links around one place, and
  `ItemsStand` says of every place of the sequence what its links are. `WalkInv` cuts the
  sequence at the node a walk stands on: what stayed of the part before it was visited,
  and nothing of the part behind it was. The sort is proved without induction over its
  recursion. A set of nodes is a `Chain` in an order when its links go through it in that
  order, and three lemmas say what the code does to chains: `CutChain` (the split),
  `RestOfChain` and `LongerChain` (the merge takes a node off and links it in front). Two
  orders are in play, by place before the sort and by key behind it, and `Sound` says of
  each place of a call which chains it has in hand, and in which of the orders. `Nested`
  says of the calls that the inner ones work on the nodes that the outer ones have handed
  on, so that a step of the innermost call leaves what the others know alone
  (`WaitingIsSound`), and what is returned is what the call outside of it waits for
  (`Returned`). `SortInv` puts this together, and `SortIsStable` follows for any length and
  any keys. That the links then stand for the sorted sequence is `ChainInOrder`, and that
  there is such a sequence `SomeOrder` (`SequencesAreSorted`). The theorems about
  `ListSpec` are those of lists that are not sorted; those about `SortSpec` add the sort.
* `MemoryProofs`. The registry is proved exact from four parts: the mutex excludes
  (`Excluded`), what a thread has in hand (`Locals`), that one thread uses the
  user's lists (`OneKeeper`), and where each block is (`Registered`). `SequencesInv` adds
  `ItemsStand` and `WalkInv` of the lists, and that what a print has shown is the front of
  the registry up to the chunk it stands on (`PrintsFollow`, which the lock keeps true).
  `UsersInv` adds `SortInv`, for the user's list only, which no other thread touches
  (`OthersKeepTheList`): `KeepersSortIsStable` and `SortingKeepsTheRegistry` say of
  `UsersSpec`, the specification of the run, what the theorems above say without a sort.
* `HttpProofs`. `TerminatorKept` depends on what the parser looks at: a needle holds no
  NUL, everything behind the bytes received is NUL, so a needle that is found lies in the
  bytes received and `shift` never passes them (`Terminated`, `ParserInv`). The buffer is
  an arbitrary sequence, grown by any `BufferSize`, cut in any way. `MessagesRoundTrip` and
  `ReadersNeverWaitInVain` add `MessageInv`: the bytes sent are those of the message, line
  behind line (`Serialised`), those received and those still to come are together the bytes
  sent (`StreamKept`), what the parser has taken is the message up to the place where it
  stands (`Follows`), and who waits for bytes does not have all of them (`Awaits`). No
  induction over the text is needed: the order of the lines is a ghost of the serialiser,
  and each step of the parser is compared with one line of it. Both theorems take
  `WellFormedMessages` as their hypothesis: no delimiter inside a field, no empty value, no
  two keys that differ in case alone, a body as long as announced. The code does not test
  this, and `http_empty_value` shows what happens without it; the messages of
  `http_round_trip` are all well formed (`MessagesAreWellFormed`). `MessagesUseSockets`
  shows that writing and reading a message implements `Sockets`, so that what
  `SocketsProofs` says of an endpoint holds of the messages sent over it.
* `SocketsProofs`. `SocketInv` ties each place of a call to the handles it has made so
  far (`Held`) and says that the time gone by and what is left in the timeval are
  together at most the timeout, or, while connecting, that each address not yet tried still has
  its timeout to spend (`InTime`). Both theorems follow from it, for any number of
  descriptors, addresses and any timeouts.
* `ServerProofs`. `ServerInv` says what phase of the runner goes with the places of
  the owner and of the accept thread (`ControlInv`), that the socket is there from
  its creation until the thread is gone (`SocketInv`), that the connection in hand is
  the last one accepted (`QueueInv`), and that what the lists have said so far lets it
  be where it is (`VerdictInv`, which uses that entries are only added). From it
  follow that each connection has one holder and is handed out in order, that the
  thread never uses a closed descriptor, that free is complete, and that verdicts are
  just. The runner inside enters by `JobLifecycle`, the refinement of which
  `RunnerProofs` shows. `EntriesAreBlocks` says of words of any width which addresses an
  entry matches (`MaskIsPrefix`: a mask is a prefix of ones; `MaskedAreEqual`: words that
  agree under it agree there).
* `DatabaseProofs`. `DatabaseInv` gives each frame of a stack what its place means for
  its batch, as long as nothing has torn it: whose transaction is open (`opener`), and
  how much of the batch is pending or committed (`PlaceOK`); the same is said of what was
  recorded of the batches that returned (`BatchOK`). The mutex leaves at most one thread
  beyond `"lock"` (`LockInv`); a call from a row of a batch that is not torn finds its
  transaction open and never gets past the refused BEGIN (`NestInv`), while one from a
  torn batch may, to any depth. What SQLite does to the batches it is not working for is
  proved once (`OthersOK`) and used by every step. Atomicity, outcomes that are true and
  what may stay open follow, for any number of threads, batches, queries, rows and raw
  commands. Nothing is assumed of ROLLBACK: it may fail with the transaction open.
* `DictionaryProofs`. `TreeIsRedBlack` is inductive with what each place of an insertion
  knows (`PlaceInv`). Nothing in it is recursive: that a tree is all of its nodes is
  `Rooted`, by which every set that is closed upwards holds the root, and that it is
  ordered and balanced is said one node at a time, by the ghosts `span` and `height`. The
  lemmas on `Rotate` (`RotationMoves`, `RotationKeepsLinks`, `RotationKeepsRoot`,
  `RotationKeepsOrder`) hold of any node and side, and `RepairPlaces` says what the loop
  finds around a red node with a red parent: there is a black grandparent, and no other
  fault in the tree. A recursion is a walk (`Walked`): what is done is done to the bottom
  and nothing below an unmet node is done, so that the node a call turns to is new, and a
  walk without calls left has been everywhere (`ClosedIsAll`); `NoBlockLeaks` follows. For
  lookups, the node that holds the key asked for stays at or below the place the search
  has reached (`LookupInv`), so that one that reaches the bottom may create. That step and
  the refinement of `DictionaryMap` (`DictionaryIsAMap`) need `NoCollisions`: with
  two keys of one hash they are false, as `dictionary_collision` shows. The shape of the
  tree and the walks do not need it: `TreeStaysRedBlack` and `NoBlockLeaks` hold for any
  hash. That a tree with these invariants is no deeper than twice the logarithm of its
  size is the textbook's step, by induction over the height, and is not proved here.

Assumptions: those stated in the modules (finite sets are not assumed, constants
are distinct from each other, bounds are naturals, a hash is one of `Values`), and
`NoCollisions` and `WellFormedMessages` where a theorem names them. The tokenizer and the
JSON documents are recursive and stay with TLC, as do liveness and, with it, that the sort
comes to an end.

## 6. Disagreements met

With a run, and in `PROJECT.json` under `findings`:

* `f_runner_join` while another thread launches joins an old handle and returns
  before the job ends (README.md:811 says it blocks until it does).
* A second `f_server_run` after the thread has ended overwrites the descriptor of
  an open socket, which `f_server_free` then leaks.
* A header with an empty value ends the parser's loop, and `f_http_payload_read`
  blocks with the whole message in its buffer.
* Keys with one hash: lookup and insertion disagree on the side of equal values.

Read in the code, without a run:

* Runner and server: after its bounded wait, tryjoin joins without a bound; a stop that
  read an old status interrupts the next job (README.md:794); `f_server_free` of a
  server that never ran leaks its lists and lock (README.md:953).
* HTTP: `f_http_payload_append_header` does not put keys in lower case (README.md:897);
  a write that is called again after a part was sent starts the message over; a header
  for which there is no memory is left out and the serialiser still returns NOICE
  (`http_payload.c:299`); without memory `f_http_payload_append_header` frees the old
  text of a header and leaves `value` pointing to it (`http_payload.c:417`).
* Sockets: a read returns with the first bytes, not with all that were asked for
  (README.md:848); a timeout of 0 waits for ever on a plain socket (`server.c:132`) and
  not at all on a TLS one (`tls.c:99`); a signal ends a plain call as a disconnection and
  is ignored by a TLS one; `f_socket_create_client` does not touch the caller's
  descriptor when the host has no address.
* Lists, memory: the example at README.md:170 appends a node that was not zeroed;
  realloc to a smaller size copies the larger one.
* Dictionary: a visitor that creates entries rotates the tree under the traversal
  (`dictionary.c:99`), so that entries are missed or met twice (README.md:300).
* Tokens: a number that ends a buffer is neither scaled nor negated in the next one
  (README.md:431); the error of `read` is taken for a size (`tokens.c:258`); an opening
  quote alone at the end of a buffer leads to a write in front of the block
  (`tokens.c:61`); an array that cannot grow is taken for one that did (`array.c:44`,
  against README.md:209). `d_array_size` is the capacity and not the number of tokens, and what is behind the
  last token is zero; the example that passes no array gets SHIT_NO_MEMORY.
* JSON: a double of 0 is printed as nothing, so that `[0]` is read back empty and
  `{"a":0,"b":2.5}` with `a = "b"` (README.md:563); quotes in a string are printed
  without an escape; a comma in front of a bracket swallows the bracket; an index beyond
  the end appends one member; `true` comes back from a stream as a string, which is
  printed with quotes; a string without memory is stored as NaN with NOICE, and the
  test of a new key (`json.c:441`) takes NaN for a key; a second `f_json_explode_buffer`
  replaces a root it does not free; the example at README.md:572 leaves its `s_json`
  uninitialised; the pointer of `f_json_get_char` is invalid after a later set or delete
  of that value (README.md:655).

## 7. Not modelled

* The neural networks: floating point matrices, which TLA+ integers cannot stand for.
* `string`: characters and no state beyond one call. `result`: constants and their text.
* Of `tokens`, `f_tokens_print_detailed` and `f_tokens_compare`, and of `boxed_nan` the
  formatter and the packing of bits: they change nothing, and the models keep what the
  packing must keep apart, the kinds of token.
* Of `json`, `f_json_explode_buffer` over several buffers: its accumulators are those of
  the stream, and it builds a new root from the tokens of the last buffer only.
* `f_database_query_prepare` and its free build one private structure and are the outcome
  of a step of `Database`; values bound to a query are left out.
* `d_list_foreach_reverse` mirrors the walk that is modelled. A sort without a comparison
  function, which the code allows for and nobody calls, orders by nothing and is left out.
* Left out of the modelled parts: sizes of blocks but for those of `Tokens`, the depth of the C stack
  (`list.c:78` recurses once for each node it merges), the overflow of the hash of a long
  key, and zero bytes inside a body (`http_payload.c:262` stops at the first).
* Model-checked and not proved: liveness, the tokenizer and the JSON documents, which are
  recursive or defined by folds over sequences.
