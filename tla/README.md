# Verification of swoole/async-ext

TLA+ models, TLC checks and TLAPS proofs for the asynchronous clients, the
asynchronous file functions and the data structures of the extension.

Contents: [inventory](#1-inventory) · [modules](#2-modules-and-code) ·
[environments and fairness](#3-environments-fairness-and-bounds) ·
[runs](#4-runs) · [proofs](#5-proofs) · [findings](#6-findings) ·
[limits](#7-what-is-not-modelled) · [plan](#8-plan)

## 1. Inventory

The extension runs on one thread per process. A *reactor* delivers events of
sockets, pipes and timers to C++ handlers; a handler calls callbacks of the
*script*; a callback may call back into the object whose handler is still on the
C stack. File operations are executed by a pool of *worker threads* and completed
by the reactor. So there are two sources of interleaving: the order of events,
and code that goes on after a callback with state the callback has changed.

| component | state | operations | hard behaviour | correct when |
|---|---|---|---|---|
| Http client `swoole_http_client.cc`, `swoole_http_client_async.h` | `hcc` (per object: response callback, error flags, `shutdown`), `http` (per connection: state, parser, keep-alive, timer), transport, reference on the object | `get`/`post`/`upgrade`/`download`/`execute`, `close`, destructor; handlers `onConnect`, `onError`, `onReceive`, `onMessage`, `onClose`, `onRequestTimeout`; parser callbacks | reentrant `get`/`close` in every callback; `http` freed and created again under a handler; timer against late response; body ended by the end of the stream; failures in every step of sending | a callback runs at most once and, when promised, at least once; a response meets its request; no handler or timer reaches a connection that is gone |
| Asynchronous files `swoole_async.cc` | descriptors, `open_write_files` (descriptor and count per file), one `file_request`/`AsyncEvent` per call | `swoole_async_read`, `_readfile`, `_write`, `_writefile`; worker handlers; `aio_onFileCompleted` | workers in any order; writes share a counted descriptor; chunked reads re-dispatch themselves; failing dispatch, I/O, callback | no worker uses a descriptor of another request; every descriptor is closed once; chunks are contiguous, the end is told once; every request ends |
| MySQL client `swoole_mysql.cc`, `swoole_mysql_async.h` | `mysql_client` (reused by every connection: handshake state, read state, query callback, `transaction`, `connected`), transport, reference | `connect`, `query`, `begin`/`commit`/`rollback`, `close`, destructor; `onConnect`, `onError`, `onReceive` (handshake and results), `onClose` | authentication by two plugins, with switch and RSA; packets joined or cut; state that survives a connection; reentrant calls | `connect()` is told once and truly; a response meets its query, once; no query is forgotten; `transaction` follows the server |
| Ring queue `swoole_ringqueue.cc` | `head`, `tail`, `tag`, `data` | `push`, `pop`, `count`, `isFull`, `isEmpty` | wrap-around; full and empty look alike | a first-in first-out queue of `len` values |
| Async TCP/UDP client `swoole_async_client.cc` | `cb` (per object: the callbacks of `on()`), `cli` (per connection), the kept socket resource, a reference on the object per connection | `on`, `connect`, `send`, `sendto`, `sleep`/`wakeup`, `getSocket`, `enableSSL`, `close`, destructor; handlers `onConnect`, `onReceive`, `onClose`, `onError`, `onBufferFull`, `onBufferEmpty` | the object is free for a new connection before the end of the old one is told; the reference is given back in four places; `connect()` goes on behind a callback | handlers find the object and their connection; references balance; a forgotten client is destroyed |
| DNS lookup `swoole_async.cc` | one request per call; with `use_async_resolver` a table of pending names | `swoole_async_dns_lookup`, worker, `aio_onDNSCompleted`, `swDNSResolver_request` | failing workers; the table refuses everything | each accepted lookup is answered |
| Child output `Swoole\Async::exec` in `swoole_async.cc` | one child, one pipe, a growing buffer per call | `exec`, `process_stream_onRead` | a full buffer looks like the end of the pipe; the end comes before the child can be waited for | callback once with all output |
| Memory pool `swoole_memory_pool.cc` | allocator and header, `released`, `slice_count` | construct, `alloc`, destructors of pool and slices | PHP destroys pool and slices in any order | memory lasts as long as an object needs it, and is freed once |
| Buffer `swoole_buffer.cc` | `str`, `length`, `offset`, `size` | `append`, `write`, `read`, `substr`, `expand`, `recycle`, `clear` | garbage in front that is reclaimed now and then | a string of bytes |
| Mmap stream `swoole_mmap.cc` | mapping, its size, position | read, write, seek | an unsigned difference of pointers | copies stay inside the mapping |
| Object and property tables `php_swoole_async.h`, `swoole_async.cc` | two arrays indexed by handle | set/get | growth by doubling | a handle finds its own object |
| Channel, message queue `swoole_channel.cc`, `swoole_msgqueue.cc` | none of their own | wrappers of the main extension | – | – |
| Settings, module start-up, `swoole_http_async.h` | configuration | – | – | – |

The transport `swoole::network::Client`, the thread pool, the kernel and the
servers are outside `src/`. They are modelled from how the source uses them, and
marked external in `PROJECT.json`.

Interactions: an http, MySQL or TCP/UDP client object owns at most one transport
and holds one reference on itself per transport until `onClose`/`onError` (so that
a handler finds its object); the transports report to the handlers; the file
functions share only `open_write_files` and the process's descriptor table; a
pool's slices share its header. The components of the table do not call each
other, so they are modelled one by one; what they share, the rules of the reactor
(one event at a time, callbacks may reenter), is in each of the models of clients
and files as the variable `stack` or `running`.

`PROJECT.json` lists under `hazards` what is hard to test here, at its line, with
the properties that guard it.

## 2. Modules and code

| module | models |
|---|---|
| `HttpRequest` | what an http object promises the script: a request waits, is answered at most once, and an answer that ends the connection ends the object |
| `HttpClient` | one `Swoole\Http\Client`; implements `HttpRequest` |
| `HttpClientProofs` | its theorems |
| `AsyncFile` | the file functions, workers and `aio_onFileCompleted` |
| `AsyncFileProofs` | its theorems |
| `MySQL` | one `Swoole\MySQL` and the server's side of its connections |
| `MySQLProofs` | its theorems |
| `ClientEvents` | what a TCP/UDP client promises to the script that listens to it |
| `AsyncClient` | one `Swoole\Async\Client`; implements `ClientEvents` |
| `AsyncClientProofs` | its theorems |
| `AsyncTasks` | `Swoole\Async::exec` and `swoole_async_dns_lookup` |
| `AsyncTasksProofs` | its theorems |
| `BoundedQueue` | what a ring queue promises |
| `RingQueue` | `swRingQueue`; implements `BoundedQueue` |
| `RingQueueProofs` | its theorems |
| `MemoryPool` | a `Swoole\Memory\Pool` with its slices |
| `ByteBuffer` | what a `Swoole\Buffer` promises |
| `Buffer` | `Swoole\Buffer`; implements `ByteBuffer` |
| `MmapStream` | the stream of `Swoole\Mmap` |
| `StructuresProofs` | the theorems of `MemoryPool`, `Buffer` and `MmapStream` |
| `MCHttpClient`, `MCAsyncFile`, `MCMySQL`, `MCAsyncClient` | instances of one component for TLC |
| `MCScripts` | `AsyncTasks`, `HttpClient` and `MySQL` with partners that behave |
| `ScriptsProofs` | the theorems about these scripts |
| `MCStructures` | the four data structures |

### HttpClient

`hcc` and `http` are the two C structs, reduced to the fields that decide what
happens. `http.id` names the `get()` that created it; `conn[g]` is the phase of
that connection's transport (`cli->active` is `Active(g)`), `g \in ref` the
reference taken in `http_client_execute` and dropped by the ends of the
connection. `owes[g]` is the server's side: requests it has received and not
answered. `answers[r]` and `status[r]` record what the script saw.

Code that runs a callback is cut at the callback: the action up to the call pushes
a frame on `stack`, and a `Return…` action is the rest of the handler. Between
them the script may run any method of the object. So `OnReceive` ends where
`http_client_onReceive` calls the response callback and `ReturnResponse` is lines
846–859; `ExecuteCallback` is `http_client_execute_callback`, whose user event
(`ReturnException`) follows the response callback; `ReturnConnect` sends the first
request behind the user's `onConnect`. `Get…` are the exits of
`http_client_execute`, each with the state it leaves behind: a download file that
cannot be opened (`GetWithoutFile`), a `connect()` that fails at once with
(`GetRefused`) or without (`GetAborted`) calling `onError`, a kept-alive
connection (`GetReusing`), and the dereference of a missing transport
(`GetOnNullCli`). `OnReceive` carries the parser's flags through
`http_client_parser_on_*` (`Parsed`, `StateAfter`, `Rearmed`), for responses with a
length, chunked, without a body, ended by the stream, or upgrading.

A null pointer the process dereferences ends the behaviour: `fault` names where. (In
`MySQL`, where a freed client may be read too, it is a boolean.)

### AsyncFile

`request[r]` is the `file_request` and `AsyncEvent` of the r-th call; its phase
goes `queued` (in the pool), `done` (in the completion pipe), `callback`, `ended`,
or `lost` where the code drops it. `HandlerRead`/`HandlerWrite` are the workers,
`Complete` the part of `aio_onFileCompleted` before the callback, `Return…` the
part behind it: close, keep the descriptor (a write whose callback does not return
false), call itself for the end of the file, or re-dispatch. `CloseFile` is the
label `close_file`. `fds` is the process's descriptor table: a new descriptor gets
the lowest free number, so a number that is closed too early is soon another
file's.

### MySQL

`client` is `mysql_client`; `conn`, `ref` and `stack` are as in `HttpClient`.
`wire[g]` holds the packets the server sent; one step delivers one packet, or with
`"split"` only its first part (`cut`). `OnHandShake` is
`swoole_mysql_onHandShake` with one operator per state: `ShakeRequest`
(`mysql_handshake`), `ShakeSignature`, `ShakeRsa`, `ShakeResult`. A build without
OpenSSL fails where it would use the key: the error code -1 is 65535 in the
`uint16_t` that keeps it, so `connect()`'s callback is told `FALSE` and the connection
closed. `OnResponse` is `swoole_mysql_onResponse` over packets of a result set;
what a complete response brought stays in `buffer[g]` until its callback has returned
(`ReturnResult`), and a packet that no query waits for stays there for good. `Freed` is
`mysql_client_free`, which resets some fields of the reused client and not others. An
object nobody refers to dies at the reactor (`Destruct`), or as the callback of
`connect()` returns (`DestructInCallback`): the code behind that callback then reads the
freed client, and `fault` is a free choice.

### AsyncClient

`cb` is `client_callback`, `cli` the object's `swClient` or none, `conn[g]` what the
transport of the g-th `cli` is doing, `held[g]` the references that connection has
on the PHP object, and `stack` the running callbacks, as in `HttpClient`. The exits
of `connect()` are actions: callbacks missing (`E_ERROR`), under way, at once (a
datagram socket, whose `onConnect` runs inside), failed with `onError` called inside,
failed without, failed before the transport could call. `CallEnding` is
`client_onClose` and `client_onError` up to the callback: the client is freed first,
so the object is already free when the script hears of the end. `Return` drops the
handler's reference; `ReturnMistaken` is what `connect()` does behind `onError`
when the callback has made a client by `sendto()`. `LastReference` stands for PHP's
reference count: the script's variable, the frames, the connections.

`ClientEvents` says what the script can rely on: one connection at a time, in the
order connect, traffic, end, the end told once and with the object free.

### AsyncTasks

A call of `exec()` has a child that writes up to `MaxOutput` units into a pipe and
ends; between closing its end and becoming a process that can be waited for lies a
step. `ReadOutput` and `ReadEnd` are `process_stream_onRead`; `AtEnd` holds at the end
of the pipe and whenever the buffer has no room, since `read()` cannot tell
them apart. A lookup goes through a worker, or is refused by
`swDNSResolver_request`, whose test for a duplicate is inverted.

### RingQueue, MemoryPool, Buffer, MmapStream

`RingQueue` has the three state fields as they are; `data` keeps what a slot held
after a pop, as the code does. `Count` is `swRingQueue_count`; the refinement mapping
takes the `Count` slots behind `head`, so an error in `Count` would break it too.

`MemoryPool` counts how often allocator and header were released. `Buffer` has the
bytes and the fields of `swString`; its refinement mapping is the bytes behind
`offset`, and every call records what it returned, so that `ByteBuffer` compares
results and not only contents. `MmapStream` computes the bytes that are left modulo
2^64, scaled down to `Width`.

## 3. Environments, fairness and bounds

Each model of a client or of files has a constant `Env`, a set of behaviours that its surroundings (script,
server, system calls) may show beyond the everyday ones. The others always show
all they can. Safety is checked with
all of them at once (`EnvHostile`). Liveness and the properties that depend on a
well-behaved partner are checked with a few, listed in the `MC` modules with
what they mean. The theorems hold for every `Env`, but for those that name the
behaviours they exclude.

`MCScripts` and `MCStructures` put components that share no state into one
specification: a behaviour uses one of them (`used`), and the others keep an initial
state. A property of one component is then checked in the behaviours that use it,
as if it were alone; fairness of an idle component holds because its actions do not
change it, and are never enabled in its initial state.

Fairness assumed, and why:

- `WF(Return)`: callbacks of the script return. A script that loops stops the
  whole process.
- `WF(ConnectEnds)`: an asynchronous `connect()` ends, in success, error or
  timeout: the transport arms a connect timer.
- `SF(OnRequestTimeout)`: the request timer fires if it keeps being armed. The
  reactor looks at its timers in every round, whatever sockets it serves. No
  fairness is given to the http server: `SentRequestAnswered` and the http part of
  `EveryCallEnds` rely on the timer only.
- `WF(Receive)` (MySQL): the stream delivers what the server sent. The MySQL
  client sets no timer on queries, so nothing else could make one end.
- `WF(Return \/ ReturnMistaken)`, `WF(ConnectEnds)` (TCP/UDP client): as above.
  `SF(PeerCloses)`: a server ends its connections at last, and the reactor serves
  every ready socket in each of its rounds, however much traffic there is. A
  client that sleeps is exempt, since nobody reads its socket.
- `WF(Outside(t))`, `WF(Handler(t))` (exec, lookup): children and workers come to
  an end, the reactor serves its pipes.
- `WF` of each worker and of `Complete` per request: workers drain the queue, the
  reactor reads the completion pipe.

Nothing is assumed of methods the script may call.

Bounds, each named in its module: `MaxGet` 4 (a first request, one that reuses the
connection or is issued inside the first one's callback, one on the connection
created after that, and one more to see the end of it); `MaxConnect` 2 and
`MaxQuery` 2 (state that survives into a second connection; with one connection
6 commands, enough for begin, query, commit and a second transaction);
`MaxRequests` 3 (two that share a descriptor and a third that takes the number
of a closed one), 2 files, 3 descriptors, offsets {0, 1}, reads of 2 units in files
of 3 (a full chunk, a short one and the end) that writes extend and truncate;
`MaxConnect` 2 for the TCP/UDP client (one connection and one made in the callback
of its end); 2 calls of `exec()` or `dns_lookup()`, 3 units of output into a buffer of 1 (it
fills up twice); queue `Size` 3 with 3 values; 3 slices and 4 allocations; a buffer of up
to 4 bytes over two values, with garbage reclaimed from 2 bytes on; a mapping of up to
3 bytes and arguments of -3 to 3. The mutants listed in `PROJECT.json`, one plausible
fault of the code per property, are all found within these bounds.

`CHECK_DEADLOCK FALSE` stands in every configuration: the script may have made all
its calls, and then nothing is left to happen.

## 4. Runs

| run | states | shows |
|---|---|---|
| `HttpClientSafety` | 10,766 | with every failure and reentrant call: callbacks at most once, handlers and timers find their connection, silence after shutdown, `HttpClient` implements `HttpRequest`, and a request on the wire whose timer is set is answered |
| `AsyncFileSafety` | 1,086,506 | two files, all failures: descriptors belong to their requests, writes are counted |
| `AsyncFilePolite` | 39,228 | one file: contiguous chunks, one end of file, all descriptors released, every request ends |
| `MySQLSafety` | 883,606 | two connections, hostile server and script: a query's callback at most once, with its own response; none forgotten; handlers find their client; `connected` means established |
| `AsyncClientSafety` | 47,338 | stream and datagram clients, every exit of `connect()`, callbacks that connect, close and forget: handlers find their object, references balance, no stale socket, `AsyncClient` implements `ClientEvents`, a forgotten stream client is destroyed |
| `PoliteScripts` | 16,370 | `exec()` delivers all output; http responses meet their requests, none is overwritten, null pointers need a cause; MySQL's `connect()` is told once and the transaction flag follows the server; every call, request, query and `connect()` ends |
| `Structures` | 9,984 | the ring implements `BoundedQueue` and reads only slots that were written; pools are released once and not too early; `Buffer` implements `ByteBuffer`; copies stay inside the mapping |
| `HttpClientTransport`, `HttpClientTimeout`, `AsyncFileAppend`, `MySQLAuth`, `MySQLReconnect` | – | a disagreement between code and its comments or tests each, see findings |

`AsyncFileSafety` starts from non-empty files (a truncating `writefile` empties
them) and reduces the two files by symmetry; `AsyncFilePolite`, which checks
liveness, uses no symmetry.

## 5. Proofs

All theorems hold for every value of the constants under the assumptions named
`…Assumption` in the modules; no assumption restricts `Env` or bounds the sizes.
Six theorems have a hypothesis that excludes some behaviours from `Env`, because they
are about what only well-behaved partners get. Each hypothesis excludes no more than
it must: allow any one of the behaviours it names, and TLC finds the property
violated.

**HttpClient** (`MaxGetAssumption`, `EnvAssumption`). `TypeCorrect` is inductive
by itself. The safety invariants are not: that no callback runs twice depends on
`hcc->onResponse` being left set after an exceptional answer and on nothing being
able to use it again. `IInv` says why, in ten parts: the only connection with
events is that of `http`, which the live object references
(`OpenConnectionIsHttps`); after `shutdown` none is open (`ShutdownIsSilent`); a
registered callback without `shutdown` has not run (`RegisteredIsUnanswered`);
frames that follow the end of a connection are on a closed one, and while
`onConnect` runs its `http` is still the unsent one or gone for good (`EndFrames`,
`ConnectFrames`); a connection under way has sent nothing (`ConnectingIsUnsent`);
numbers not issued left no trace (`FutureIsBlank`); the timer needs a transport and
guards a request (`TransportExists`, `TimerGuardsRequest`). From it follow
`AnsweredOnce`, `HandlersAreSafe`, `TimersAreSafe`, `DeadObjectIsSilent`, and the
`Refinement`: each step is a step of `HttpRequest` or a stutter under the mapping
that takes a registered, unanswered callback for `pending` and
`shutdown` or destruction for `dead`.

Three more theorems are about what went wrong first. `CausesInv` extends `IInv` by
four parts: an `http` without transport comes from a failed download
(`TransportIsThere`), only a script that uses the object in `onConnect` runs anything
above that callback (`ConnectRunsAlone`), connections that do not exist owe nothing,
and the requests a server owes are the ones that wait, unless it sends unasked
(`ServerOwesTheWaiting`). So `FaultsHaveACause` holds in every
`Env`, and where the server does not send unasked `ResponsesMatch`: the head of
`owes` is the registered request whenever its callback runs. `WaitingInv` says that a
waiting request has an `http`, that an `http` which accepts another one waits for
none except while `onConnect` runs, and that the connection of `http` keeps its
reference until then; with it `RequestsAreKept`, where downloads open, `connect()`
fails loudly and `onConnect` leaves the object alone.

**AsyncFile** (`FileAssumption`). Types alone are not inductive (a count could go
below zero, a closed descriptor has no file), so `TypeOK` is proved together with
`IInv`: `WritesAreCounted`, `WritersShare` (a write under way uses the descriptor
in its file's entry), `OthersAreAlone` (no other request and no entry has the
descriptor of a read or `writefile` under way) and `RunningIsOutstanding`. The
lemmas say what opening, joining, leaving and closing do to it; the one that
carries the weight is `LastWriterCloses`: a count of 1 means that no other write is
under way, by counting `Writers`. From it follow `DescriptorsAreTheirs`,
`SharingIsCounted`, `CountsAreRight` and `TypeCorrect`, for any number of calls and
files, whatever the workers' order and whichever operations fail. In particular
the leak of a failed `dispatch()` never closes a descriptor too early.

About what a script hears, `ReadsAreContiguous` is inductive over the chunks one by
one: the next one starts where the last one ended, because `offset` moves only with a
chunk, and no sum over the sequence is needed. `EndIsHeardOnce` needs reads to
succeed, since a failed read is told as an empty chunk too and `aio_onFileCompleted`
goes on behind it; its invariant is that an empty chunk is the last, and that the
request whose callback ran on one is not dispatched again. `NothingStaysOpen`
excludes what loses a request or keeps its descriptor open on purpose (`dispatch()`
fails, the callback fails, a write's callback does not return false). Its
invariant is the converse of `IInv`: each open descriptor has a user, and no count of
`open_write_files` is larger than the number of writes under way.

**MySQL** (`MySQLAssumption`). `IInv` is `TypeOK` with two parts. `ConnInv` is about
connections: `HandlersFindTheirClient`, `ConnectedIsEstablished`, every connection
before the client's own is over (`OneClient`), and a frame whose return drops a
reference is on a closed connection (`FramesDrop`). `QueryInv` is about queries: a
query was sent on a connection that was established; a client that waits does so
for a query without an answer; one not yet issued has none; with
`NoQueryIsForgotten` and `AnsweredAtMostOnce`. The two are preserved by one argument
per action, since a handshake that fails, a close or a reconnect touches the state
of the query too. From it follow `TypeCorrect`, `AnsweredOnce`, `HandlersAreSafe`,
`ConnectedIsTrue` and `NoQueryIsLost`, whatever packets come in whatever state of the
handshake.

What is on its way to the client takes a second invariant. `WireInv` says that the
packets of a connection are in order (`InOrder`): a packet of a response belongs to the
query whose callback is registered, only its last packet can end it, and a packet of
the handshake is alone, or the second one behind a signature. `BufferInv` says that once
the handshake is over nothing is left of what was read before, unless the callback of a
response is running. From the two follows `ResponsesMeetTheirQuery` in every `Env`; that a
response ends with its last packet and no earlier is proved of the states that
`ResponseToQuery` runs through by the least position at which they end.

Two theorems have hypotheses. `TransactionsAgree` excludes split packets, reconnection
and a server that refuses a `BEGIN`, `COMMIT` or `ROLLBACK`. Its invariant `TxInv`
compares the flag with the server's state on every established connection; it needs
`AuthInv`, that a client the server did not let in has nothing before it that it could
take for a success, for otherwise it would send commands the server does not execute.
`ConnectTellsOnce` excludes split packets only. Its invariant `ToldInv` says that client
and server stay in step until somebody is told (`Greeting`: the one packet that is under
way is the one the client waits for, `Awaits`), and that afterwards the handshake is
over, or the connection is about to be closed, or the server is silent.

**AsyncClient** (`MaxConnectAssumption`, `EnvAssumption`). `TypeOK` is not inductive,
since a reference given back twice would leave the naturals. `IInv` adds
`HandlersFindTheirObject`, `ReferencesBalance`, `SocketIsCurrent`, that every
connection before the object's own is over (`OneClient`), which clients have handlers
(`WhoseHandlers`: those of `connect()`, and not those of `sendto()`), and
`FramesAreRight`: the end of a connection is being told at most once, of a closed
connection the object no longer stands for. From it follow `TypeCorrect`,
`HandlersAreSafe`, `ReferencesAreRight`, `SocketIsRight`, and `PromiseIsKept`, the
refinement of `ClientEvents`, step by step.

**AsyncTasks** (sizes are naturals, the first buffer is not empty). `OutputReachesTheScript`:
what the child still writes, what is in the pipe and what is in the buffer add up to
its output, and the buffer of a reading call always has room, so that the end of
input is only seen at the end of the pipe.

**RingQueue** (`RingQueueAssumption`: a size of at least 1). `TypeCorrect`;
`Refinement` to `BoundedQueue`, by what a push and a pop do to the `Count` slots
behind `head` when positions wrap; `OnlyPushedValues` from the refinement's
invariant.

**MemoryPool, Buffer, MmapStream** (`MaxCountAssumption`, `BufferAssumption`,
`MmapAssumption`). `PoolIsReleasedOnce`, with the invariant that `slice_count` is the
number of slices that exist while the pool manages them, and that `released` says the
pool object is gone. `CopiesAreInside`: the position stays between the ends of the
mapping, so the unsigned difference that bounds a copy never wraps. `BufferIsAString`
is the refinement of `ByteBuffer`: the content is the bytes from `offset` to `length`,
and each method is traced through the moves of bytes inside `str`, with
`offset <= length <= size` and the length that PHP sees (`shown`) as the invariant.

**Scripts** (`ScriptsAssumption`). `MCScripts` instantiates `HttpClientProofs` and
`MySQLProofs`, so the theorems with hypotheses hold of its instances, whose `Env`
meets them. `ScriptsProofs` shows that its behaviours are behaviours of each
component (`ScriptsUseHttp`, `ScriptsUseMysql`) and draws `NoHttpFault`,
`HttpResponsesMatch`, `HttpRequestsAreKept`, `TransactionsAgree` and
`ConnectTellsOnce`, for any number of requests, connections and queries.

Only model-checked: the liveness properties (`SentRequestAnswered`,
`EveryRequestEnds`, `EveryClientIsReleased`, `EveryCallEnds`), since fairness is out of
the prover's reach, and the five counterexamples of section 6. Every invariant and
action property that a passing run checks is also a theorem.

## 6. Findings

Each is the counterexample of one run; `PROJECT.json` quotes the lines.

1. `HttpClientTransport`: a `download()` whose file cannot be opened leaves an
   `http` without transport that the next `get()` dereferences, against the
   comment at `swoole_http_client.cc:328`.
2. `HttpClientTimeout`: a timeout of a response that only the end of the stream
   completes reaches the callback with the server's own status, not -2
   (`tests/swoole_http_client/request_timeout.phpt`).
3. `AsyncFileAppend`: `swoole_async_write` without an offset never appends,
   because the offset is replaced before `O_APPEND` is chosen
   (`tests/swoole_async/ref.phpt`).
4. `MySQLAuth`: with caching_sha2_password a refused client is told `TRUE` by
   `connect()`'s callback.
5. `MySQLReconnect`: after a connection that closed during a query, the next one
   refuses every query as if it waited for a response.

Noticed while modelling, without a run of their own:

- With `use_async_resolver` no lookup succeeds: `swDNSResolver_request` refuses a
  name that is *not* in its table as "duplicate request"
  (`swoole_async.cc:1516`), so the table stays empty, its answers are never read,
  and the request is lost. `examples/async/dns_lookup.php` uses this setting.
- `process_stream_onRead` asks for the child's status once, without waiting
  (`swoole_async.cc:1697`). When the pipe ends before the child does, the callback
  gets `FALSE`, where `tests/swoole_async/exec.phpt:10` reads a code.
- A script that closes the MySQL connection and drops the object's last reference in the
  callback of `connect()` destroys the object as that callback returns;
  `swoole_mysql.cc:2977` then reads `connector.error_code` of the freed client
  (`DestructInCallback`).
- Without OpenSSL the handshake sets `connector.error_code = -1`
  (`swoole_mysql.cc:3163`), which is unsigned: `connect_errno` is 65535.
- `connect()` of a TCP/UDP client looks for the object's client again behind
  `onError` (`swoole_async_client.cc:602`); one that the callback made by `sendto()`
  is freed there, and a reference dropped that nobody took (`ReturnMistaken`).
- A datagram client without `onClose` that is closed keeps a reference for good
  (`Leaks`), and so does one whose `connect()` failed without `onError` being called,
  until `close()`.
- The constructor of a pool compares its type with `TYPE_MALLOC` twice
  (`swoole_memory_pool.cc:153`) and refuses `TYPE_EMALLOC`.
- `substr()` with remove that reclaims garbage copies its result
  (`swoole_buffer.cc:269`) after the bytes were moved.

## 7. What is not modelled

- Data: text of requests, headers and packets, gzip, multipart, SSL, websocket
  frames, the contents of files. A response is its kind, a packet its type, a
  file its size.
- PHP memory: reference counts of zvals are left out, except the references on
  the client objects. One hazard about them is listed without a property.
- MySQL: one result per query, so that no packet arrives when no query waits; a
  piece of the stream holds packets of one exchange; the server always sends its RSA
  key; a read past the packet in `mysql_parse_rsa` ends the behaviour. `escape()`
  has no state.
- Ring queue: a length of 0, and the destructor (it leaks the array).
- TCP/UDP client: `send`, `sendto` and `sendfile` differ in their data only and are one
  action; `shutdown()`; the settings. Buffer: negative offsets of `substr()`.
  Memory pool: reading and writing a slice. Mmap: opening and closing.
- DNS: the table, the answers and their matching, which no execution reaches, and
  the cache of addresses.
- The components marked `not_modelled` in `PROJECT.json`, each with its reason.

## 8. Plan

Done: (1) `HttpRequest`, `HttpClient`, with refinement proved; (2) `AsyncFile`,
proved; (3) `MySQL`, proved; (4) `BoundedQueue`, `RingQueue`, proved; (5)
`ClientEvents`, `AsyncClient`, with refinement proved; (6) `AsyncTasks`, proved; (7)
`MemoryPool`, proved; (8) `Buffer` with its refinement and `MmapStream`, proved; (9)
what holds with well-behaved partners, proved.

What would come next: the object table; abstract specifications of `MySQL` and
`AsyncFile`; the
settings that change a client while it is connected; a second result of a MySQL
query, once it is decided what the code should do with it.

The five counterexample runs are kept apart from the passing ones because each
checks a single property; the later modules share runs where they can.
