# A verification of socks5d

`socks5d` is a SOCKS5 proxy (RFC 1928/1929) with a management protocol. One
thread multiplexes all sockets with `pselect`; name resolution runs in detached
threads that wake it with a signal. This directory models it in TLA+, checks the
models with TLC on small instances and proves part of them with TLAPS for every
size. Paths like `src/socks5.c` are those of the repository.

## 1. Inventory

| Part | State | Operations | Depends on |
|---|---|---|---|
| selector (`selector.c`) | jump table fd → interest, data; `max_fd`; the fd sets of the last `pselect`; list of finished jobs, mutex, signal | `selector_register`, `selector_unregister_fd`, `selector_set_interest`, `selector_select` (`handle_iteration`, `handle_block_notifications`), `selector_notify_block` | kernel, threads |
| connections (`socks5.c`, `stm.c`) | `struct socks5`: state, two fds, reference count, method, reply, candidate list, two buffers, EOF flags; a pool of free objects | accept; one handler per state and event; `socksv5_done`/`socksv5_close`; pool | selector, resolver, buffers, users, config, metrics |
| resolver threads (`dns.c`) | one request per thread, embedded in the connection | `getaddrinfo`, store the result, `selector_notify_block` | selector; writes into the connection without a lock |
| relay (`socks5.c`, COPY) | two buffers, EOF and shutdown flags of each side | `copy_read`, `copy_write`, `copy_update` | buffers, selector, metrics, sniffer |
| buffers (`buffer.c`) | linear buffer, read and write pointer | advance, compact | – |
| main loop (`main.c`) | `g_sigcount`, `shutting_down` | loop, graceful and forced shutdown | selector, metrics |
| metrics (`metrics.c`) | counters | add | – |
| handshake (`socks5_parsers.c`, `socks5.c`) | one parser per message, the two buffers | feed, consume; the handlers up to REQUEST_WRITE | buffers, users, config |
| management (`mgmt.c`) | connection with two fixed buffers, phase | auth, request, response, pipelined requests | users, config, metrics |
| users, configuration (`users.c`, `config.c`) | fixed table of users; settings changed at run time | add, delete, check; set | – |
| POP3 sniffer (`pop3.c`) | current line, remembered user | feed | relay |
| management client (`client.c`) | – | log in, one request, exit code | management |
| start (`args.c`, `main.c`) | the parsed options | users, administrator and need to authenticate from the command line | users, config |
| logging, addresses (`logger.c`, `netutils.c`) | – | formatting | – |

What is hard here, and what makes each part correct:

* **Wake-ups.** A job is queued and a signal raised while the selector thread is
  anywhere between emptying the list and sleeping. Correct: a sleeping selector
  with finished jobs is about to be woken, and the list is never thrown away with
  a job nobody served.
* **Stale events.** The event set of one `pselect` is used for a whole iteration,
  in which handlers close descriptors and the kernel hands the numbers out again.
  Correct: every handler runs for the connection, and in the state, that expects it.
* **Names for connections.** A finished job carries a descriptor number. Correct:
  it still belongs to the connection that asked.
* **Memory.** Two registrations and a thread share an object that is counted,
  pooled and zeroed. Correct: freed once, after the last user.
* **Interests.** Client and origin are muted in turn, and `stm.c` aborts the
  process on an event without a handler. Correct: interests always match the
  state, and every connection has something that will move it.
* **Failure half way.** `socket`, `connect`, `register`, thread creation, `malloc`
  may fail at each step. Correct: nothing leaks, the reply says what happened.
* **Backpressure and half-close.** Partial writes, a buffer that only makes room
  when it is empty, ends that arrive before the bytes ahead of them have left.
  Correct: each direction is a byte stream.
* **Framing.** Messages are cut at any byte and follow each other without a gap, in
  linear buffers. Correct: a parser never miscounts or reads into the next message,
  answers are whole, in order, one per request, and a message that is already in the
  buffer is not forgotten there.
* **Settings that change.** Administrators edit users and configuration while others
  do and while clients log in. Correct: a response tells what its request did, the
  slots are always a map, access follows what the users were.
* **C strings.** Fields have a length on the wire and another one for `strcmp`.
  Correct: a name is one user, whatever bytes it was sent as.
* **Waiting for each other.** Blocking clients, servers that wait for more bytes.
  Correct: whoever waits gets an answer or the end of the connection.
* **Shutdown.** Signals at any point of the loop, threads still running. Correct:
  it ends, and nothing is used after it was freed.

`PROJECT.json` lists these hazards line by line with the properties that cover
each, and the three no property covers: a job that is lost for lack of memory, bytes
left behind when a `send` fails, and a pipelining client cut off by a full buffer. The
models have all three; what the code does then contradicts nothing the repository
promises.

## 2. Modules

| Module | Content |
|---|---|
| `Selector` | `selector.c`: table, loop, notification channel, worker threads. Its own `Spec` lets handlers make any selector calls |
| `SelectorProofs` | theorems about `Selector` |
| `Socks5` | EXTENDS `Selector` with the proxy's handlers, pool, resolver threads and main loop |
| `Socks5Proofs` | the inductive invariant of `Socks5`, a lemma about each handler, and the theorems |
| `Buffer` | operators of `buffer.c` on a record (size, read offset, pending bytes) |
| `Relay` | EXTENDS `Buffer`: the COPY state byte by byte, with both peers and the kernel queues |
| `ByteStream` | abstract specification: what one direction promises |
| `DataProofs` | induction and recursion on bounded indices; lemmas about sequences, C strings and `Buffer` |
| `RelayProofs` | theorems about `Relay`, and the refinement of `ByteStream` |
| `CStrings` | what the C library makes of an array of bytes (external) |
| `Users` | EXTENDS `CStrings`: the slots of `users.c` as operators |
| `Directory` | abstract specification: what the user table promises |
| `Startup` | EXTENDS `Users`: `args_parse` and the initialisation in `main` |
| `StartupProofs` | lemmas about the user table as a map and the state `Startup` begins with |
| `Mgmt` | EXTENDS `Buffer`, `Startup`: the management server of `mgmt.c` byte by byte |
| `Client` | EXTENDS `Mgmt` with the terminal client of `client.c` and clients that pipeline; the properties of both |
| `ClientProofs` | who is let in, and the refinement of `Directory`; then the conversation: responses as bytes, what a handler answers, the theorems about `Mgmt` and `Client` |
| `Handshake` | EXTENDS `Buffer`, `Startup`: parsers, handlers and replies of the SOCKS handshake byte by byte; what a client may say (`Dialogue`, `SaysWhatItMeans`) |
| `HandshakeProofs` | the parsers on any input; the inductive invariant and the theorems of `Handshake` |
| `Pop3` | EXTENDS `CStrings`: the sniffer of `pop3.c` |
| `Pop3Proofs` | lines and pairs of a stream that grows by a byte; the theorems of `Pop3` |
| `MCSelector`, `MCSocks5`, `MCRelay`, `MCClient`, `MCHandshake`, `MCPop3` | symmetry sets, inputs and constant values for TLC |

Definitions keep the names of the functions they model; `PROJECT.json` ("map")
gives the lines of each. An operator marked *Mutant* is a plausible bug: put in
place of the definition it is named after, TLC finds the property it is paired
with in `PROJECT.json` violated.

### Selector

The selector thread has a program counter: `loop` (the caller's code), `pselect`,
`iterate` (`handle_iteration`, at descriptor `cursor`), `notify` (about to lock),
`jobs` (walking the list with the mutex held). Threads go `idle`, `work` (the
blocking job), `notify` (about to queue) and `kill` (queued, about to signal):
the two halves of `selector_notify_block`, between which everything interleaves.
`mutex` is held by the selector across the walk; a thread's critical section is a
single step. The signal is blocked outside `pselect`, so it is a pending bit that
makes `pselect` return. `key` is the key that `handle_iteration` fills before the
read handler and uses again for the write handler.

The table has its final capacity: `main` asks for 1024 entries, so
`ensure_capacity` never grows it.

### Socks5

A handler runs to its end on the selector thread and is one step, with all it
calls: the sub-steps of `start_connection` over the candidate list, the arrival
action of the next state, `socksv5_done` when the state machine ends. Signals,
resolver threads and the network take their steps in between. `conn[c]` are the
fields of `struct socks5`, `mem[c]` what its memory is used as, `open` the
process's descriptors, which the kernel hands out lowest first (so reuse of a
number within an iteration happens by itself), `link[c]` whether the TCP
connection to the origin is really up. `pool` and `pool_size` are the list of free
objects and its counter, `buffer_size[c]` the size of the raw buffers an object owns
(`NoSize` if none). `SetConfig` is SET_CONFIG arriving between two handlers: it changes
`auth_required`, or `io_buffer_size`, which `socks5_new` gives to the buffers of the
next object it hands out. Accepting has the outcomes of the code: a client, an object
destroyed again because its descriptor does not fit the table, a pooled object that is
freed because buffers of the new size could not be allocated
(`socksv5_passive_accept_enomem`), or nothing. What a buffer holds is only nothing,
something or no room left; what clients send and how calls fail are choices.

Left out of `Socks5`: the bytes of messages, the listener's opening, logging,
`failed_connections`, and the `SELECTOR_IO` outcome of `pselect`, which
`OpenIsRegistered` excludes.

### Relay

`buf["client"]` is `read_buffer`, `buf["origin"]` is `write_buffer`. `recv` takes
what is there and fits; `send` takes what the kernel queue of `SNDBUF` bytes has
room for, the rest stays. A peer may send, end its side, reset, or read at any
time; after a reset `recv` may fail with bytes still under way, and `send` fails.
The relay starts as `copy_arrival` finds it: `write_buffer` empty, `read_buffer`
possibly holding what the client sent right behind its request, at an offset.
`ByteStream` says what this amounts to: the reader is handed growing prefixes of
what was written and is told of the end after all of it, unless there was a reset.
A call that only answers `EAGAIN` changes nothing and has no step; peers do not
read between two `send` calls of one `copy_pump`, which only makes it stop earlier.

### Handshake

`Socks5` says which handler runs when and what happens to descriptors and memory;
`Handshake` refines the data of one connection from HELLO_READ to COPY. `conn` holds
the three parsers, method, verdict, reply and the two buffers of `struct socks5`.
`socksv5_read` receives any part of what was sent that fits and runs the handler of
the state; a full buffer makes `recv` return 0, as the code takes it. What resolving
and connecting come to is a choice (`ConnectionAttempt`). `Administered` changes
users and `auth_required` at any moment. A client either waits for each reply
(`ClientSays`) or is `eager` and has sent everything at once. What it says is a
`dialogue`: the bytes of its messages together with what they mean (RFC 1928/1929), or
which of them is malformed and how; `SaysWhatItMeans` ties the two. `past` remembers the
users and the configuration there have been, so that `AccessFollowsTheDirectory` can
ask whether a client was right at some time; its first entry is taken from the
command line directly, not from the table.

### Users, Directory, Startup, Mgmt, Client

A table is a function from slots to records; its operations return the table and a
result, as `users.c` does. `AsMap` is the refinement mapping: the names in use with
their passwords. `Directory` promises a bounded map in which one name at a time is
put or removed.

`mc[k]` is `struct mgmt_conn`; handlers return what they leave of the connection, the
table and the configuration. A handler parses at most one message, as
`mgmt_try_process` does, and looks for another one after a response has gone out.
Bytes are numbers below `BYTE`, so `put` and `Number` keep the width of fields, and
the client's cast to 32 bits wraps. A NUL inside a field ends it for `CString`.
`Client` adds the programs: log in, wait for two bytes, send one request, wait for
the header and the data it announces, exit. A client that refuses its own arguments,
or whose `malloc` fails, exits with 1.

### Pop3

`pop3_sniffer_feed` iterates the per-byte step over a chunk (`Fed`). The reference is
independent of it: `Commands` splits all bytes at once, `PairsOf` pairs commands by
position. The stream is what `copy_read` receives from the client: what comes in the
segment of the request does not pass through the sniffer.

## 3. Runs

| Run | Instance | Shows |
|---|---|---|
| `selector` | 2 descriptors, 2 threads, any handlers, fair | `TypeOK`, `NoLostWakeup`, `MaxFdIsHighest`, `WalkedListIsStable`; `JobsAreServed` with no timeout and no I/O to help |
| `proxy_lifecycle` | 1 connection, 2 threads, all inputs, 2 signals, failing `malloc` | `EventsHaveHandlers`, `ReplyMatchesOrigin`, `ResolverOwnsItsMemory`, `KeyIsFresh`, types |
| `proxy_shared` | 2 objects, 2 threads, table of 3, 4 descriptors, pool of 1, 2 buffer sizes, 1 signal | `JobsFindTheirConnection`, `NoConnectionStranded`, `ReferencesAreRegistrations`, `OpenIsRegistered`, `PoolIsSound`, `CurrentCountsLive` |
| `proxy_live` | 1 connection, 1 thread, 2 signals, fair | `ResolutionEnds`, `ShutdownExits` |
| `relay` | buffers of 3, kernel queues of 2, 3 bytes each way of 2 values | `NothingIsLost`, `EndIsForwardedLast`, `ClosedOnlyWhenBothEnded`, types; `BothAreStreams`: each direction implements `ByteStream` |
| `relay_live` | buffers of 2, queues of 1, 3 bytes each way, fair | `OriginIsHeard`, `OriginEndIsForwarded` |
| `handshake` | 1 connection, 9 dialogues (6 well formed), buffers of 10, 2 changes by an administrator, fair | `NothingIsMisread`, `RepliesAreWhole`, `PayloadIsHandedOver`, `AccessFollowsTheDirectory`, `BrokenOffForCause`; `WaitingClientIsServed` |
| `management` | a pipelining and a terminal client, 12 pairs of scripts, a table of 2, a request buffer of 12, fair | `AnswersFollowRequests`, `RepliesAreTruthful`, `OnlyTheAdministrator`, `TableIsADirectory`, `EndedForCause`, `ExitCodeIsTrue`; `ProgramsExit`, `PipelinedAreAnswered` |
| `pop3` | lines of 5, users of 2, 11 bytes, chunks of 1 or 2 bytes | `PairsAreThoseSent` |
| `stale_readiness` | 3 connections | *violated*: `SuccessMeansConnected` |
| `resolver_after_destroy` | 1 connection, 2 signals | *violated*: `DestroyedSelectorIsNotUsed` |
| `handshake_pipelined` | as `handshake` | *violated*: `CompleteHandshakeIsServed` |

Bounds. `ITEMS_MAX_SIZE`, `RLIMIT_NOFILE`, `MAX_POOL` and `MAX_ADDRS` stand for
1024, the process limit, and the constants of `socks5.c`; they are small so that
their limits are reached: in `proxy_shared` a client gets a descriptor the table
cannot hold, a destroyed object finds the pool full, and a pooled object has buffers of
another size than the one configured by then (`BufferSizes`). `Errnos` keeps one errno
per kind of failure. `Offers`, `Requests`, `Leftovers` and `Fills` are the cases
the handlers tell apart, all of them in `proxy_lifecycle`, only those a run is
about elsewhere. `MaxSignals` 2 is all `main` distinguishes. Two connections and
two threads are enough for one to take over the other's descriptor or object; the
stale-event case needs a third connection. In the relay, 3 bytes against a queue
of 1 and a buffer of 2 give partial writes, a buffer that is full with an offset,
and a drain that makes room again. `MaxSent` bounds what a relay's peers send.

At byte level, sizes are scaled down so that boundaries are reached in a few bytes:
`IPV4_LEN` 2 and `IPV6_LEN` 3 stand for 4 and 16; a buffer of 10 holds the longest
reply and not an eager client's whole handshake; a table of 2 users is filled,
updated, emptied and reused by the scripts; `MGMT_RBUF` 12 holds each
message and not a whole script; `LINE_SIZE` 5 and `USER_SIZE` 2 stand for 512 and 256, "U " and "P " for the
prefixes of the POP3 commands. `BYTE` 64 keeps numbers of four bytes within TLC's
integers; `U64` 1 shortens the counters of METRICS. `RecvCuts` lists every length up
to the buffer's room that matters, so messages are cut everywhere; `SendCuts` cuts
replies inside their header and behind it. `MaxChanges` 2 lets a setting be changed and changed
back, `MaxGone` 2 lets both clients leave. `Scenarios` and `Dialogues` are the
messages told apart by the code: every command, known and unknown names and keys, NULs
inside fields, wrong credentials, malformed messages in each phase.

Symmetry (objects, threads, byte values) is used in runs without liveness. Relay,
handshake and management connections end, so their runs do not check deadlock; all
others do.

Fairness. *Selector*: the selector thread and the threads are scheduled and
handlers return (weak fairness); `pselect` is assumed to return only on the
signal. *Socks5*: weak fairness of the selector thread, whose `pselect` has a
timeout of 10 s in `main.c`; strong fairness of resolver threads, which compete
for a mutex the selector releases in every iteration, and whose `getaddrinfo` is
assumed to return. Clients, origins and pending connects promise nothing. The
liveness run excludes a failing `malloc` in `selector_notify_block`, after which a
connection does stay in REQUEST_RESOLV for ever. *Relay*: every ready descriptor
is served, which `handle_iteration` does in each iteration, and the client reads;
the origin need not. *Client* and *Handshake*: every ready descriptor is served, and
the kernel takes and hands over bytes in the end. This is weak fairness of the
handlers; it is written out with the condition that enables them, because TLC
evaluates that condition much faster than `ENABLED` of the handlers. The terminal
client runs (weak fairness); the client of a handshake goes on when it has its reply;
connection attempts end, which `proxy_live` shows for the resolver and TCP's timeout
gives for the rest. Nobody is assumed to stay: clients may leave at any time.

### What the violated runs show

* `stale_readiness`. `pselect` reports a descriptor writable, the origin of a relay. In
  the same iteration a connection with a lower descriptor is served first and ends the
  relay, which closes that origin; a client with a descriptor in between makes its
  request, and the kernel gives the number just freed to the socket of its connect,
  which is in progress. The loop then reaches the number, finds its writable bit of the
  `pselect` before still set and an interest in writing there, and calls
  `connecting_write`: `SO_ERROR` is 0 because the connect has not failed yet, and the
  client is told SUCCESS for an origin it is not connected to. `docs/informe.md` (line
  60) says that with `SO_ERROR` on a writable descriptor one knows whether the connect
  succeeded.
* `resolver_after_destroy`. After a second signal `main` frees the selector while
  a resolver thread has still to lock its mutex. `socks5_destroy` takes care to
  keep the connection alive for the thread; the selector is not kept.
* `handshake_pipelined`. A client sends greeting, login and request at once. The
  proxy receives all of it, parses the greeting, answers, and waits for the client to
  become readable; the rest is in `read_buffer`, the client waits too. The handlers of
  the handshake look at the buffer only after a `recv`. At the same point of the
  management protocol `mgmt_write` looks for a request that was pipelined, as its comment
  (`mgmt.c`, line 362) says; `hello_write` and `auth_write` do not, though their parsers
  are meant to be fed with the bytes available (`socks5_parsers.h`). A client that waits for
  each reply is served (`WaitingClientIsServed`, in `handshake`).

Observations without a run: bytes a client sends in the same segment as its request
enter `read_buffer` before COPY and so are neither counted in `bytes_sent` nor seen by
the sniffer (`PayloadIsHandedOver` and `NothingIsLost` show that they are forwarded);
a management client that pipelines more than its request buffer holds is cut off, even
if every single request fits (`EndedForCause` names that case); `conn_timeout_secs`
can be set and read and has no effect; a user added again gets OK and a new password,
`SMP_USER_ALREADY_EXISTS` is never sent.

## 4. Proofs

All theorems hold for every value of the constants under the named assumptions of
the modules, which TLC evaluates on every run: `SelectorAssumption` (at least one
descriptor; the free mark is not a datum), `RelayAssumption` (buffers and queues of at
least one byte, pipelined bytes that fit the buffer behind the request),
`Socks5Assumption` (finitely many connection objects, none of which is the listener;
the cases the handlers tell apart), `UsersAssumption` and `StartupAssumption` (a table
with a slot, fields and buffers of at least one byte, bounds that are numbers),
`MgmtAssumption` (command lines are lists of options; the response that was put
together fits the response buffer, and its length the two bytes it is sent in),
`Pop3Assumption` (the two prefixes are equally long and differ in a letter),
`ClientAssumption` (the fields of a message say what its bytes are, `SaysWhatItIs`; a
message of the terminal client fits the request buffer) and
`HandshakeAssumption` (dialogues say what they mean, the longest reply fits the write
buffer). The last two do not restrict what a client sends but tie it to what it means:
whatever a parser can be given is one of these messages, well-formed or malformed, or
the beginning of one that is not finished. What `Handshake` leaves out is a client that
offers several methods and does not wait to learn which one was chosen.

`SelectorProofs`: `TypeCorrect`, `WakeupsAreNotLost`, `MaxFdCorrect`,
`WalkIsStable`. The inductive invariant is the conjunction of the types,
`HasHighestFd`, the wake-up fact stated for every program counter at which the
list has already been passed (a job may be queued while the thread is still in
`iterate`, where the goal says nothing), and that the mutex is held during the
walk. `MaxFdCorrect` rests on lemmas about each table operation; the rescan after
unregistering needs that a bounded non-empty set of naturals has a greatest
element, proved by well-founded induction on a relation.

`RelayProofs`: `RelayTypeCorrect`, `RelayLosesNothing`, `EndComesLast`,
`ClosesInOrder`, `RelayRefinesStreams` (from `UploadRefinesStream` and `DownloadRefinesStream`).
`NothingIsLost`
is the core of the invariant: out ∘ buffer ∘ not received = written. It is not
enough: that an end is forwarded last also needs that an end is only seen behind
the last byte (`EndsAreSeen`), that a side that was shut down has nothing left
(`ShutMeansDrained`), and that a handler is only called when there is something to
do (`InterestsAreDue`), or a read after the end could refill a drained buffer.
`PumpFacts` states what `copy_pump` and `copy_update` do together and serves both
handlers. The refinement is shown step by step: `StreamStep` spells out a step of
the abstract stream; handlers deliver or end it, peers write, close or reset it.

`Socks5Proofs`: every invariant the runs check of the proxy, for any
number of connections, threads, descriptors and table entries and whichever calls
fail. `Socks5Inv` is what it takes:

* `TableMatches`, `ConnsMatch`, `ListenerThere`: each entry of the table is free, the
  listener's, or belongs to one live connection and waits for exactly what that
  connection's state calls for (`ClientInterest`, `OriginInterest`), and each
  descriptor of a live connection has its entry. From this follow the reference
  counts, the open descriptors and that every event has a handler. The interests
  have to be spelled out, for an event that outlives a change of state would abort
  the process.
* `GoodConn`: what the fields of one connection say of each other. Reply and origin
  agree in REQUEST_WRITE because no origin is held before a candidate is tried
  (`WithoutOrigin`) and a failed candidate gives its descriptor back; that a relay
  always waits for something needs that it is over when `BothDone` is reached.
* `ThreadsServe`, `JobsServe`, `ResolutionsGoOn`: a thread that has not yet queued its
  job works alone for a live connection in REQUEST_RESOLV with the descriptor it
  took; a job in the list was asked for by such a connection, is the only one of its
  descriptor, and its result is stored. This makes a descriptor number a
  sound name: a connection that resolves has no interest, so nothing can close it.
* `KeyMatches`: between the two handlers of an entry the entry keeps its owner or is
  wiped; `PoolMatches`: the pool holds each object destroyed once, and `pool_size` is its
  length; `BuffersMatch`: an object owns buffers exactly while it is not freed.
  `EnomemInv` shows that an accept that fails half-way keeps both: the object it freed
  is in the list no more. `OrphansLeaked`: after a forced shutdown a thread's object was
  leaked, not freed.

A handler's lemma ends in one of three shapes: the connection stays (`Stays`), is gone
(`Gone`) or begins to resolve; `StaysTable` and `GoneTable` show once and for all that
the table and the objects remain as they should, so that the steps of the loop only
look at which handler ran. `NobodyIsStranded` assumes that the `malloc` of
`selector_notify_block` does not fail: `dns_thread` ignores its result, and a
connection whose job is lost stays in REQUEST_RESOLV for ever. The
proof of `NoJobIsLost` shows that the test for an unused descriptor in
`handle_block_notifications` is never true in this program.

`DataProofs`, `StartupProofs`. The installed provers cannot use the library's induction
over data, which takes an operator as parameter. `Induction` states it with a set of
indices instead, from the least element of a set of naturals (`LeastExists`), and
`RecursionExists` gives the function a recursive definition over `0 .. n` stands for;
this is enough for `args_parse`, `StartUsers` and the parsers, which fold over a bounded
input. `IsTable` (used slots have different names and legal fields) is what makes
`find` a lookup: `UsersAdd`, `UsersDel` and `UsersCheck` show that the three operations
are those of the map `AsMap`.

`ClientProofs`: `ClientInvariant`, from it `AdministratorOnly` and
`UsersAreADirectory`; `ClientTalks`, from it the other safety properties of the run
`management`. The first
invariant (`ClientInv` with `ScriptInv`, which fixes what does not change) says, for
any number of connections and programs, scripts and cuts: the slots are a table; the
request buffer of each connection keeps its bounds (`ConnsGood`); and unless the bytes
a connection sent begin with the credentials of the administrator (`AuthBytes`), it is
before AUTH_REPLY, or in it with `close_after_write` set, or closed, and no more than
two bytes were written for it (`Access`). While a connection is in AUTH its request
buffer still holds everything received, which is why what `parse_auth` sees there is
the beginning of what was sent. `StepGood` adds what the action property needs: a step
changes users or configuration only with a request it consumed, and the table as
`Directory` allows. `UsersAreADirectory` holds for every `Names` and `Passwords` that
contain the legal fields; TLC uses small ones.

The second invariant, `TalkInv`, is about the conversation on a connection whose client
has sent `s` messages (`TalkHere`), and gives `ClientAnswers`, `ClientTruthful`,
`ClientEnds` and `ClientExits`:

* `Told`: the whole responses in what was answered, sent or not, have the commands of the
  messages; `Settled`: nothing follows the last of them, and what was received is the
  answered messages followed by the bytes in the request buffer. The counts of responses
  and of messages are tied in every state, so `Settled` cannot be stated only for the
  states in which the properties look.
* What the reader makes of a stream of bytes is a function that recurses from the front
  (`Responses`), and the server appends at the back. `ResponsesGrow` joins the two: behind
  a stream without a remainder, a well-formed response (`Frame`) is one entry more;
  `ResponsesPrefix`: what was read stays read when bytes follow.
* `NextMessage`: at the beginning of the request buffer the parser finds the next message of the
  script, or waits. Two facts carry it: a verdict on bytes stays when more follow
  (`ParsedPrefix`), and two messages that both begin the same bytes are one
  (`SameBeginning`).
* `ReqKept`, `AuthKept`: one message handled keeps all this (`Kept`); `RequestServed`:
  the response is a frame that tells the truth (`Truthful`), command by command. For
  LIST_USERS that takes that the names come in the order of the slots, none twice, though
  the loop of the server searches from the start for each (`NamesInOrder`, with `Rank`),
  and that the loop of the client cuts them where the server joined them (`ListShown`).
* `Waits`: a program sends its request when it has the reply, so both messages are never
  in its request buffer at the same time, and the buffer that is never compacted has
  room: programs are not cut off for it (`FullIsNoProgram`).
* `Carried`: when a program exits with 0, the first response in what it has read has the
  status OK; with `Told` it is the response to its request.

Proving this changed the model in three places. `put` is now the loop of shifts that
`mgmt.c` has, not a power; `Shown` stops where the loop of `cmd_list_users` does, also on
data that no server sends; and what a script may say of its messages, which was stated
for the first message only, is stated for all (`SaysWhatItIs`): without it the truth of a
response would have been about fields that have nothing to do with the bytes.

`HandshakeProofs`: `HandshakeInvariant`, and from it all five invariants the run
`handshake` checks: `ParsersReadWhatWasSent`, `OneReplyPerMessage`,
`RelayGetsThePayload`, `AccessIsTheDirectorys`, `NoHandshakeIsDropped`. The argument:

* `HelloIs`, `AuthIs`, `RequestIs` say what a parser is after `j` bytes of any input, as
  a relation between its fields and those bytes. `HelloStep` and its kin show that one
  byte keeps the relation, `HelloConsumed` that consuming a buffer of any length does
  (`Parses`, `ConsumedBy`: a loop that stops at the first end), and `HelloHeard` that a
  parser that is done has read a whole message of the dialogue, or is at its error.
* `Good` is the invariant of a connection. `Staged` relates the state to the parsers;
  `Heard` says which relation holds, counted from where the message begins
  (`Base`: a login stands before the request only if USERPASS was chosen); `Received`
  that the buffer holds the bytes received last, so that what the parsers have taken is
  a prefix; `Answered` that output and write buffer are together the replies due;
  `Granted` that method and verdict were right for a member of `past`.
* It is not enough to relate parser and bytes: that no byte of the *next* message is
  taken needs to know what has been sent (`Spoken`). A client that waits has sent nothing
  behind the message it waits with, because the length of what it was sent tells which
  replies there were (`RepliesTell`), so a parser that is at work when it goes on has
  not read anything yet (`ClientWaits`). An eager client may have sent a login that the
  proxy did not ask for, were it not that it offers one method only (`OneMethod`).
* `Caused` needs that a buffer is compacted when it is empty: a client that waits never
  finds the buffer without room.

Proving this settled one thing about the model: two branches of `socksv5_write`
overlapped, so that the value of a step was not determined by the definition although
TLC took the right branch; it is an IF now.

`Pop3Proofs`: `Pop3Invariant` and from it `Pop3Reports`, the property of the run
`pop3`, for lines and users of any size and a stream of any length cut anywhere. The
reference reads the whole stream at once and the sniffer keeps three facts about it; the
invariant `Sniffs` says which. Its line is what the stream has behind its last LF
(`Pending`), unless that is too long, which is what `overflow` says; `have_user` that a
USER waits for its password behind the commands so far, and `user` which (`Knows`). The
proof is about what a byte more does to the reference: `PlacesStep` extends a list of
places, `CommandsStep` adds a byte to the last line or ends it, `UserBeforeStep` and
`PairsStep` add a command. That the prefixes differ is needed: `process_line` looks for
PASS only where it has not found USER, the reference looks for each. `FedKeeps` carries
the step over a chunk (`RecursionExists`).

So that this could be proved the fold over a chunk is a recursive function in `Pop3`, and
the reference names its parts (`Ends`, `AsCommand`, `UserBefore`, `PairAt`).

Only model-checked: liveness, which is out of the prover's reach. Every safety property
the passing runs check is a theorem.

## 5. Not modelled

* `ensure_capacity`: never called with work to do by this program, since `main` asks
  for the final capacity. It grows the table when a descriptor is beyond its size, and
  not when it equals it, which no descriptor here does.
* Opening the listeners and the options for addresses and ports; connecting and option
  parsing of the client; `logger.c`, `netutils.c`: sequential set-up and formatting.
* `historic_connections` and `failed_connections`, which only go up.
* In `Relay` and `Handshake` the size of a connection's buffers is a constant: it is the
  one the connection was created with (`socks5_new`), whatever `io_buffer_size` is
  changed to meanwhile. What the change does to pooled objects is in `Socks5`.
* A `send` of the terminal client that fails because the server has closed the
  connection: the program exits with a code other than 0, as `PrematureEnd` has it.
* `parser.c`, `parser_utils.c`: not compiled into any program.

## 6. Plan

Order: the event loop and connections first, since everything runs on them; then
the data path; then the protocols on top; then the proofs of the composition.

1. *Done.* `Selector`, `Socks5` with their runs; `Buffer`, `ByteStream`, `Relay`
   with the refinement; the theorems of section 4.
2. *Done.* `Handshake` with the parsers at byte level; `Users`, `Directory`, `Startup`,
   `Mgmt` and `Client`; `Pop3`.
3. *Done.* Proofs of the invariants of `Socks5` and `Handshake`; that the user table
   implements `Directory`; that a management connection answers only the administrator
   and that its buffers keep their bounds.
4. *Done.* Proofs of the conversation of the management protocol: framing, truth of the
   responses, the ends of connections, the exit code.
5. *Done.* Proofs of the sniffer.
