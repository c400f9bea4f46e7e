# CivetWeb in TLA+

A verification development for the CivetWeb embeddable web server. Paths are
relative to the repository root; `civetweb.c` is `src/civetweb.c` of the
repository. Line numbers of every modelled piece of code are in `PROJECT.json`
(`map`).

## 1. The system

| Part | State | Operations | Talks to |
|---|---|---|---|
| Master thread, worker pool, socket queue (two builds) | `squeue`, `sq_head`, `sq_tail`, or `client_socks` and events; `idle_worker_thread_count`, `spawned_worker_threads`, `stop_flag` | `accept_new_connection`, `produce_socket`, `consume_socket`, `mg_start_worker_thread`, `mg_stop` | workers run connections; `thread_mutex`, condition variables |
| Life cycle | `mg_context`, listening sockets, domains, TLS libraries | `mg_init_library`, `mg_start2`, `mg_start_domain2`, `set_ports_option`, `mg_stop` | application callbacks |
| Connection loop | `buf`, `data_len`, `request_len`, `content_len`, `consumed_content`, `is_chunked`, `must_close` | `process_new_connection`, `get_request`, `mg_read`, `discard_unread_request_data` | handlers call `mg_read`; `stop_flag` |
| Request dispatch | flags and path of one request | `handle_request`, `interpret_uri` | registry, authorization, files, scripts |
| URI handler registry | list of `mg_handler_info` with `refcount`, `removing` | `mg_set_request_handler` and the others, `get_request_handler`, `release_handler_ref` | user threads change what worker threads use; `mg_lock_context` |
| Responses, writing | `request_state`, header list, throttle counters | `mg_response_header_*`, `mg_send_http_error`, `mg_write` | handlers, error pages |
| Files | none between requests | ranges, `sendfile`, SSI, WebDAV methods, lock table `webdav_lock` | file system shared by workers |
| Authentication | nonce mask and counts, password files | Basic and Digest checks, `mg_modify_passwords_file` | file system |
| Domains | `dom_ctx` of a worker, certificates | server name, Host header, `refresh_trust` | TLS library |
| Timers | sorted array of `ttimer` | `timer_add`, timer thread, `timers_exit` | CGI timeouts, Lua timers |
| CGI | `process_control_data`, child process, environment block | `handle_cgi_request`, `abort_cgi_process`, `addenv` | worker and timer thread, kernel |
| Websockets | frame queue, PING state | handshake, `read_websocket`, `mg_websocket_write` | handlers, application threads |
| Forms | read buffer | `mg_handle_form_request` | `mg_read`, field callbacks |
| Client API | connection, reader thread | `mg_connect_client`, `mg_get_response`, `mg_close_connection` | application |
| HTTP/2 | HPACK table, streams | frames, header decoding | ALPN |
| Lua | states, list of websocket scripts, shared table, page stack | websocket handlers, `shared`, pages, `mg.include` | workers, timer thread |
| C++ wrapper, stand-alone server | map of form data; options, dialogs | handlers; start, stop, tray commands | C API |
| Algorithms | none | `remove_dot_segments`, `mg_url_decode`, base64, `match.inl`, header parsing, sort | everybody |
| Duktape, TLS back ends, zlib, hashes | | | |

What is hard in it: several threads share the queue, the registry, the timer
list, CGI process data, Lua states and the file system; `stop_flag` is read
outside of any lock; user callbacks run with no lock held and between a search
and its use; thread creation, memory and reads may fail half-way; a request body
is partly in a buffer and partly in a socket, next to the following request;
what a worker keeps from one connection to the next (`dom_ctx`, ALPN, form data)
must not reach the wrong client; stopping has to end everything that may be
waiting. `PROJECT.json` (`hazards`) lists these points at their lines, with the
properties that cover them.

What makes each part correct:

* queue and pool: an accepted socket goes to exactly one worker or is closed, in
  order; nobody sleeps while there is work for him; the number of workers
  follows the load; `mg_stop` returns, and only when the threads are gone.
* registry: no handler is freed, and no callback's data invalid, while a request
  uses it; removal ends; one handler per URI and type.
* timers and CGI: timers fire in order and not early, each ends once; the process
  data lives as long as someone can reach it and is then freed; a child that hangs
  is ended, none stays a zombie.
* connection and websocket: each request starts where the one before ended;
  `mg_read` delivers the body and nothing else; frames arrive and leave whole; the
  loops end.
* dispatch and authentication: nothing is read or changed without the check for
  that very file; a nonce of this run, a record of the password file.
* responses and files: one header and then the body, as long as announced, in
  order, within the bandwidth; of WebDAV writers nobody overwrites silently.
* start, client, C++ wrapper, pages: whatever step fails, what was acquired is
  released, once, and not while another thread uses it.
* text functions: what a function returns agrees with its definition on all short
  inputs.

## 2. Modules

| Module | Models | Composition |
|---|---|---|
| `SocketFifo` | the abstract service: a bounded FIFO channel | |
| `SocketQueue` | the ring buffer | instance `Fifo` of `SocketFifo` with `fifo <- Queued` |
| `WorkerPool` | starter, master, workers, `mg_stop` | extends `SocketQueue` |
| `AltQueue` | the queue of the ALTERNATIVE_QUEUE build | |
| `WinCondvar` | condition variables of the Windows build | |
| `HandlerRegistry` | setters and request threads on the registry | |
| `Timers` | the timer list and its thread | |
| `CgiProcess` | CGI requests, child processes | extends `Timers` |
| `CgiEnv` | the block of environment variables | |
| `Connection` | one connection with several requests | |
| `WebSocket` | one websocket connection with its writers | |
| `ServerSetup` | library, start, ports, domains, stop | |
| `Domains` | `dom_ctx`, server names, certificates, access list | |
| `Request` | `handle_request` | |
| `Response`, `SocketWrite` | header API and error pages; `mg_write` with throttle | |
| `StaticFile`, `Ssi` | files, ranges; server side includes | |
| `DavFiles` | methods that change files; the lock table | |
| `Auth` | Basic and Digest, password files | |
| `Form` | `mg_handle_form_request` | |
| `Client` | client connections | |
| `Http2` | `http2.inl` | |
| `LuaWebsockets`, `LuaShared`, `LspPage` | Lua websocket scripts, shared table, server pages and what they include | |
| `CivetServer` | the C++ wrapper | |
| `StandAlone` | `main.c` | |
| `UriText`, `Patterns`, `MessageText` | text functions against reference definitions | |
| `MCWorkerPool`, `MCHandlerRegistry`, `MCCgiProcess`, `MCConnection` | instances for TLC | |
| `MCThreads` | instances of the loops of threads | extends `MCConnection`, `WebSocket`, `AltQueue` |
| `Components` | what `StaticFile`, `Ssi`, `LspPage`, `Form`, `CgiEnv`, `CivetServer` and the Lua modules promise together | extends them |
| `MCComponents` | instances of the components that share no state with others | extends them |
| `WorkerPoolProofs`, `HandlerRegistryProofs`, `CgiProcessProofs` | proofs about these modules (`SocketQueue` with `WorkerPool`) | |
| `ThreadsProofs` | proofs about `AltQueue`, `Connection` and `WebSocket` | extends them |
| `ComponentProofs` | proofs about `WinCondvar`, `SocketWrite`, `Domains`, `Response`, `Request`, `Client`, `Http2`, `ServerSetup`, `DavFiles` and `StandAlone` | extends them |
| `LuaProofs` | proofs about `LuaWebsockets`, `LuaShared` and the includes of `LspPage` | extends `Components` |
| `RequestDataProofs` | proofs about `Form`, `CgiEnv` and `CivetServer` | extends `Components` |
| `FileProofs` | proofs about `Auth`, `StaticFile`, `Ssi` and the pages of `LspPage` | extends `Components`, `Auth` |

In every module the definitions called *Mutant* are wrong variants of an action
or operator; no specification uses them. Each property of a run is known to fail
when the variant listed for it in `PROJECT.json` takes the place of the original.
Where a property is a conjunction, the other variants in the modules each break
another part of it. A definition whose comment says *It does not hold* states
what a comment or document suggests and TLC refutes; no passing run checks it.

### SocketQueue, WorkerPool

One action is one critical section of `thread_mutex`, or one step outside it.
A thread's position is its `"..."` state: a worker goes `init`, `consume_first`,
(`wait`, `woken`), `return`, `serve`, `consume`, ..., `exit`, `done`; `return` is
the moment in `consume_socket` after the mutex is released and before
`stop_flag` is read for the result. `pthread_cond_signal` wakes one waiter
chosen at random, and waits may end spuriously. `CreateMayFail` and `InitMayFail`
switch on failing thread creation and failing worker initialisation; with
`PortsMayFail` the server may have no listening socket, and then the master thread
is `left` from its first test on (`20646`).
`ServeConnection` is the whole of `process_new_connection`: that it ends is
the subject of `Connection`.

### HandlerRegistry

One action is one section under `mg_lock_context`. `match_prefix` and the
comparison of URIs are the relations `Pattern` and `Partial`, so the model does
not depend on what patterns look like. Each call that sets a handler brings a
new `cbdata`; `retired` remembers the callbacks whose replacement or removal
has returned. The counter wraps at `UnsignedModulus`. `handle_request` is
modelled from the search for a callback to its end: authorization, the PUT of a
file, the callback, a callback that declines (the `no_callback_resource` jump)
and websocket sessions. In a build with `USE_HTTP2` a request to a callback may come
over HTTP/2: it leaves through the macro `HTTP1_only` (`Http2Leaves`) without releasing
the handler. `leaked` is a history variable of each handler that counts these
references, `MaxHttp2` bounds it, and `MaxHttp2 = 0` is the build without HTTP/2.

### Timers, CgiProcess

Time is a counter up to `MaxTime`; the clock is read where the code reads it,
also the stale `d` of the timer thread. `timer_add` is two actions, the read of
the clock and the insertion. Allocation may fail and `MAX_TIMERS` limits the
list. `abort_cgi_process` is four steps (`check`, `kill`, `wait`, `release`) that
worker and timer thread take independently. Processes are external: they exit at
any time with status 0 or not, are zombies until reaped, and a free pid may be
given to another process.

### Connection

The input of a connection is a sequence of tokens, the buffer a sequence of
positions in it; sizes count tokens. A token stands for a run of bytes that the
code treats alike (a header line, the end of a header, a byte of data, a chunk
size, a CRLF). A read brings any number of the tokens that are left, or nothing
(close, error, timeout). A handler reads any amounts, any number of times, and
returns at any time; then unread data is discarded or not. Whether
`should_keep_alive` allows another request is left open, so both are possible
whenever the rest of the condition holds.

### ServerSetup, Domains

`setupHeld` is the set of what the context owns; each step of `mg_start2` may
fail and goes through `free_context`. Ports are handled one by one, each with its
letters and its own failures. `mg_stop` and the master thread are three steps:
`StopBegins`, `MasterLeaves`, which needs an array of listening sockets
(`MasterPolls`), and `mg_stop` for what comes after the wait. `Domains` keeps `dom_ctx` where the code keeps it,
in the worker's connection structure, from one client to the next.

### Request, Response, SocketWrite, StaticFile, Ssi

`Request` follows the numbered comments of `handle_request`; what configuration,
file system and callbacks say is chosen where the code asks. `passed` collects the
checks a request has passed, each for a path, so that a check for another path
does not count. In `Response` handler, error callback and error page may call the
API in any order. `SocketWrite` counts bytes and seconds; a byte of `StaticFile`
is its position in the file, so that a gap or a repetition is seen. Choosing the path
(`StaticChoose`) and opening it (`StaticOpen`) are two actions, because `mg_fopen` fills
`filep->stat` anew: the size may have changed, and `is_gzipped` is lost. `Ssi` numbers
the characters in the order of reading.

### DavFiles, Auth

One action is one file system call, or one section under the context lock, of any
of several workers. A file is a row of cells with their writers. Password files
are sequences of lines that one thread reads while another rewrites them in place.

### WebSocket, AltQueue, WinCondvar, Client

Threads with their positions, mutexes and events as in the code. The peer's bytes
are pairs of frame and number, in `wire`, and each frame knows its place there. Events are auto-reset and keep one signal.

### Form, CgiEnv, Http2

Buffers and their limits are kept and made small; contents are tokens. In `Http2`
a header string is one allocation, whose owner is followed.

### LuaWebsockets, LuaShared, LspPage, CivetServer, StandAlone

The Lua machine is external: what its stack functions do is in `LuaShared`, and
what a script may call, and when, is nondeterministic. A page of `LspPage` is a
sequence of characters, and what is checked is which of them are written,
executed and printed. In `CivetServer` a piece of form data is the number of the
request it came with. `givenOptions` of `StandAlone` is a history: for each option
the values `set_option` accepted for it.

### UriText, Patterns, MessageText

Texts over small alphabets are typed character by character, so every text up to
the bound is a state; the functions are evaluated on each.

## 3. Runs

| Run | Expected | What it shows |
|---|---|---|
| `pool_safety` | pass | 3 workers, 3 connections, queue of 2, creation and initialisation may fail, and there may be no port: `SocketOwnedOnce`, `AcceptedAccounted`, `IdleCountExact`, `NoLostWakeup`, `ThreadsGoneAtFree`, and the ring implements `SocketFifo` |
| `pool_liveness` | pass | `ScalesToLoad`; a queued socket is taken, and `mg_stop` completes if the master had a listening socket, with a queue that cannot be full |
| `pool_stop_hang` | violation | with a queue that can be full `mg_stop` may wait for ever |
| `registry_safety` | pass | exact reference counts, nothing freed in use, one handler per URI, no forgotten removal mark; request and authorization handlers, nested URIs; an HTTP/2 request loses a reference, and nothing else does |
| `registry_liveness` | pass | callbacks that decline and websocket handlers: replaced callbacks are out of use, removal ends under a stream of requests, unless one over HTTP/2 lost a reference |
| `registry_double_release` | violation | a declined request that fails authorization releases twice |
| `cgi_timeout` | pass | a CGI request and a periodic timer, with and without a stop: order and times of the timers, each ends once (`TimersExact`), process data and zombies (`ProcExact`), the timeout ends the child |
| `threads` | pass | connection: `InSync`, `BodyDelivered`, `ConnectionLoopEnds`; websocket: `WebsocketFrames`; alternative queue: `AltSocketOwnedOnce`; both end after `mg_stop` (`StopEnds`) |
| `connection_extension` | violation | a timeout inside a chunk extension corrupts the chunk size |
| `components` | pass | one property for each of the other parts, see below |
| `no_port_stop_hang` | violation | optional ports of which none can be bound: the server starts, its master thread returns at once, and `mg_stop` waits for ever (`StopReturns`) |
| `lua_lock_order` | violation | joining and leaving a Lua websocket script take two locks in opposite orders |

`components` starts 24 modules side by side, and the value of `part` says which
of them moves: its states are the sum of theirs, about 1.1 million. Its properties:

| Property | Of | Says |
|---|---|---|
| `AccessControlled` | `Request` | files are changed and read only after the check for that file; sources are not sent; WebDAV only where enabled |
| `ResponseOrdered` | `Response` | one header, first; error handlers do not nest |
| `RateBound` | `SocketWrite` | never more than three times the rate in a second |
| `FileSent` | `StaticFile`, `Ssi`, `LspPage` | bodies in order, without gaps, as long as announced; SSI text and includes in place; pages divided exactly by their tags, whatever the block size |
| `DavSafe` | `DavFiles` | a PUT is stored, MOVE and COPY do not overwrite silently, locks are exclusive |
| `ClientSafe` | `Client` | every failure releases everything; the reader thread uses nothing freed |
| `RequestData` | `Form`, `CgiEnv`, `CivetServer` | form fields byte for byte, environment complete, `getParam` never gives data of another request |
| `Http2Exact` | `Http2` | HTTP/2 only for a client that asked for it; header strings owned once |
| `StartStopBalanced` | `ServerSetup` | callbacks paired; where `mg_stop` returns it has released what start acquired |
| `StandAloneExact` | `StandAlone` | the options are those given; never two servers |
| `AuthExact` | `Auth` | granted by a record and a nonce of this run; an edit changes one user |
| `TlsDomainOwn` | `Domains` | the certificate is that of the client's server name |
| `LuaStates` | `LuaWebsockets`, `LuaShared`, `LspPage` | connection lists exact, shared stack balanced, included pages released |
| `UriFunctions`, `ParserFunctions` | `UriText`, `Patterns`, `MessageText` | functions equal their reference definitions |
| `SignalsExact` | `WinCondvar` | a signal wakes one wait, also when it races with a timeout |

Bounds. Three sockets and a queue of two fill the ring, wrap both counters and
leave one socket waiting in the master; three workers with one prespawned let a
worker start on demand while another is being woken. Two setters and two servers
are the smallest number at which a setter waits for one request while another
comes, and at which two setters meet on one URI; `UnsignedModulus` 4 is small
enough for a wrap below zero to show, and one lost HTTP/2 reference (`MaxHttp2` 1;
`registry_double_release` has 0) is enough for a removal to wait for it. One CGI request and one periodic timer put
two timers with different times and two threads in `abort_cgi_process`; time 3
lets a periodic timer fire before and after the timeout. A connection buffer of
four tokens is smaller than most messages, so that a body lies in the buffer, in
the socket or across both, yet holds several small messages, so that requests are
pipelined. A websocket queue of three bytes holds a small frame and not a large
one. In `components`: two workers meet on two paths, a table of two locks is full
with two users, a form buffer of seven tokens cuts a delimiter at every place, two
runs of a server bring an old nonce back, two ports mix optional, redirect and
TLS ones, three waiting threads race with a timeout, pages of up to six characters
hold a tag with text on both sides and a reader's block of three cuts it anywhere.
Texts are as long as the shortest ones on which the parts of a function meet (two
dot segments, a percent sign at the end, a pattern with an alternative and a
wildcard). Symmetry is used in two safety runs only.

Fairness. Every thread that can take a step eventually does (weak fairness per
thread). Nothing is assumed of clients, users or child processes: connections,
calls that set handlers, `mg_stop`, spurious wakeups and the exit of a CGI
program have no fairness. In `no_port_stop_hang` the master thread and `mg_stop` are
weakly fair. That `ServeConnection` ends rests on the timeouts and
`stop_flag` checks of the connection code. In `Connection` a read ends by data,
error or timeout (`poll` has a timeout in `pull_inner`, and `request_timeout_ms`
limits the loops around it), and strong fairness of `HandlerReturns` says that user
code does not call `mg_read` for ever. In `WebSocket` and `AltQueue` the server's
threads are weakly fair and a poll times out; in `LuaWebsockets` a worker is strongly
fair: it gets a mutex that becomes free again and again. In `CgiProcess` time passes.

Deadlock is checked where the model runs on for ever (`Terminated` and `Closed`
stutter explicitly); the parts of `components` stop at their bounds.

## 4. Proofs

All theorems hold for every value of the constants, from the named assumptions of
the modules (`QueueAssumption`, `PoolAssumption`, `RegistryAssumption`, and so on:
sizes are positive, sets of threads finite where they are counted, names that the
code tells apart are different). Where a theorem needs more, it says so as an
assumption of its own. Each invariant was first checked by TLC on the instances of
the runs. The proofs have the same form: an inductive invariant, a lemma for each
action, and a theorem that combines them.

### Worker pool

* `TypeCorrect`: types, the worker limit and `RingInv` (the ring counters stay
  within twice the queue size, occupied slots hold sockets). `TypeInv` adds when
  the master holds a socket, that a slot is free when a worker is created, and
  that a worker which leaves `consume_socket` while the server runs has a socket.
* `NoDoubleService`: `SocketOwnedOnce`. It is not inductive alone: `OwnInv` adds
  that a worker on its way out of `consume_socket` holds an open socket and that
  closed connections do not return to the backlog.
* `RingIsFifo`: the pool implements `SocketFifo`. The lemmas `EnqueueAppends` and
  `DequeueRemovesFront` say what the counters modulo the
  queue size do to the abstract sequence, with and without a wrap; all other steps
  leave it alone.
* `NoThreadAtFree`: `ThreadsGoneAtFree`. `LifeInv` says that only slots below
  `spawned_worker_threads` hold a thread, also when starting fails in the middle, so
  that joining those is enough.
* `NoConnectionLost`: `AcceptedAccounted`. The step that could lose one is
  `consume_socket` returning; `OwnInv` and `RingInv` give where it goes.
* `IdleCounterExact`: `IdleCountExact`. The counter is compared with the number of
  workers at certain places; `CountOne` says how this number changes when one
  worker moves, and `LifeInv` that a worker which is being started is not counted
  twice.
* `WakeupsNotLost`: `NoLostWakeup`, by the same counting; inductive with the types.
* `PoolGrowsWithLoad`: `ScalesToLoad`, if threads can be created and initialised
  (`~CreateMayFail`, `~InitMayFail`: otherwise a failed start leaves the queue as it
  is). `ScaleInv` adds that one worker may be missing between the queueing of a socket
  and the master's call of `mg_start_worker_thread`.
* `StopWaits`: `StopWaitsForThreads`, if threads can be created. In general it is
  refuted by `pool_stop_hang`, so no passing run checks it; `MasterRunning` is what
  the failure breaks.

### Handler registry

* `TypeCorrect`: types.
* `ReferencesCounted`: `RefcountExact` (the count is the number of users and of
  references lost over HTTP/2) and `HandlerNotFreed` under `SingleRelease`,
  which excludes exactly the path of `registry_double_release` (a callback declines
  and authorization then fails). `RefInv` adds what the locals of `handle_request`
  are at each point and that what a request has acquired is registered with the
  callback it copied.
* `SetWaitsForUsers`: `RequestCallbackUnused`, same assumption; needs that callbacks
  are pending, registered or retired, never two of these (`CallbacksDistinct`).
* `HandlersUnique`: `OneHandlerPerUri` and `RemovingHasRemover` without
  `SingleRelease`. The second needs the first: the call that will remove a handler must
  not go away with another one of the same URI (`ListInv`).
* `RegistryStaysConsistent`: the conjunction that the run checks.

### Timers and CGI

* `TimersAreExact`: `TimersExact`. `TimersInv` adds where the timer thread has an active
  timer (`ThreadPlaces`), that an accepted timer is in one place, in the list or with
  the thread (`OnePlace`), and what the last loop has given up (`GivenUpOnce`).
  `InsertKeeps` and `TailKeeps` are about the list.
* `ProcessDataIsExact`: `ProcExact`. `CgiInv` adds that there are never more pointers to
  the control data than references, and as many until the server stops or a timer is
  refused (`ReferencesExact`, with `TimerRefers` for the pointer that a timer has in
  `timer_add`, in the list and while it is called), and that a process its request has
  not waited for is under the pid the request knows (`ChildPlaces`).

### Connection

* `RequestsInSync` and `BodiesAreDelivered`: `InSync` and `BodyDelivered`, if all
  inputs are `WellFramed`. This says what the numbers of messages in the tokens mean:
  a message starts with a header, a body is as long as its header or its chunk sizes
  say, framing belongs to the message it stands in, a message ends behind its content
  or its final CRLF. Inputs may break off anywhere, headers may be bad and framing may
  be missing or wrong. It also excludes extensions that end in a hexadecimal digit:
  `connection_extension` shows what the code does with one. `MCThreads` checks that
  the inputs of the run are well framed.
  `ConnInv` says where everything is: the buffer holds the input from the start of the
  message (`BufferPlaces`), the message starts where the one before ends
  (`MessageStarts`), the announced length is the one of the input, and for a chunk
  what is announced is data of this message (`BodyLength`), the state of the reader
  agrees with the place it reads at (`ChunkPlaces`), and the body is the data up to
  there (`BodyPlaces`). `ReadTokens` is what `mg_read_inner` does for all callers: it
  returns the next tokens, from the buffer, the socket or both.

### Websocket

* `WebsocketFramesExact`: `WebsocketFrames`. `StreamLaid` says that frames stand one
  behind the other in the peer's bytes, and that each ends within them: this is kept
  as an invariant, since summing lengths would need induction. `ReaderPlaces` then says
  where `read_websocket` is: the queue is what was received behind the frame that was
  handled last (`QueueAt`), and in the overflow case the message is what was received
  of the next payload (`MessageAt`). `FrontOfQueue` gives that the bytes which the code
  takes for a header are one. `WritersInv`: the writer that holds the mutex is the one
  inside of a frame, and the worker writes nothing but its replies.

### Alternative queue, condition variables, throttle, domains

* `AltOneOwner`: `AltSocketOwnedOnce`, and `AltNothingLeft`: no connection is open
  when the context is freed. `AltInv` says what a slot, its event and its worker are
  together at each place of the master.
* `SignalsWakeOneWait`: `SignalsExact`. It is inductive with the types, written
  for one thread at a time (`SignalExact`): its event is set if and only if it is in a
  wait and has been taken out of the list.
* `RateIsBounded`: `RateBound`, three times the greatest rate in any second.
  `WriteInv` adds that a round in progress fits into the limit with what is counted in
  `last.bytes` (`RoundFits`), and what has left in this second at each place
  (`SecondFits`): a round that the clock overtook, the counted bytes and this round.
* `TlsStaysInDomain`: `TlsDomainOwn`. `DomainsInv` adds that a certificate
  is chosen before the handshake needs it.

### Requests, responses, WebDAV

* `AccessIsControlled`: `AccessControlled`. Between the check and the use of it lie up
  to four steps, and a callback that declines goes back before the check. `RequestInv`
  adds that the flags of `interpret_uri` are true of the method and the file at each
  place (`FlagsTrue`), and that at the dispatch the check that was passed is the one
  for this path and this kind of access (`CheckedHere`). These hold only for a
  request without a callback: one with a callback keeps old flags (`AtFile`).
* `ResponsesOrdered`: `ResponseOrdered`. `NothingSentYet` ties `request_state` to the
  wire; that error handlers do not nest depends on the stack of frames
  (`ErrorHandlerOnce`).
* `WebdavIsSafe`: `DavSafe`, of the files and of the table of locks. `HoldsWritten`
  says what a PUT has in the file after each buffer, unless another request worked on
  the path; `DestinationFree` that what `dav_move_file` saw before the rename is still
  true; `RivalsKnown` that two requests on a path know of each other, which the other
  two need for a step of another worker. Locks: what the search of `dav_lock_file`
  leaves of a path's locks is the user's own (`SearchKeepsOwn`).

### Clients, HTTP/2, start and stop, stand-alone server

* `ClientsReleaseAll`: `ClientSafe`. `HeldAt` lists what is held at each place of
  `mg_connect_client_impl` and of the close, `ReaderAt` where the reader thread may be
  meanwhile and how often its close handler was called.
* `Http2IsExact`: `Http2Exact`, with `NoOldHeaders`: the list of headers is empty
  whenever no request is being read or served.
* `StartAndStopBalanced`: `StartStopBalanced`. `CallbackArmed` says at which places of
  `mg_start2` and `mg_stop` the exit callback is armed and which calls were made,
  `MasterCleaned` what the master thread has released before `mg_stop` joins it, and
  `TimerJoined` that the timer thread is gone before. It is a statement about stops
  that come to their end: a server without a port never gets past `stopping`.

* `OptionsReachOneServer`: `StandAloneExact`. `SetOptionExact` shows that one call of
  `set_option` keeps the array of options exact, `ServersMatch` that a server runs
  exactly while `g_ctx` points to one, and none while options are read.

### Lua

* `LuaStatesHold`: `LuaStates`, all three parts. `LwLive` holds until the search meets
  the NULL name of a failed creation, which ends the process (`LwCrashed`).
  `LuaConnsExact` needs who holds the mutex of a script (`MutexHeld`), that a script
  that is waited for or in use has an entry (`EntryThere`, `EntryWaited`), and that the
  connection that is being opened is the last of the list (`ConnList`): a rejected one
  is taken off the end, so another one must not have joined meanwhile. `JoinedList`,
  `LastTakenOff` and `PlaceIsFilled` are the three changes of the list.
  `SharedInv` gives what the table is between accesses; `Accesses` goes through the
  stack for a read and a write. `PagesInv` adds that a page is included only below the
  limit of the depth.

### Data of a request

* `RequestDataExact`: `RequestData`, all three parts.
  *Forms.* `FormInv` says where in the client's body the function is, unless somebody
  asked to abort or the body was cut off: what is in the buffer and what `mg_read` has
  still to deliver are the body from a place on (`Stream`), which is the beginning of a
  field (`AtField`) or lies in its content, with everything before it received
  (`InField`). Contents hold no delimiter (`FormAssumption`, which multipart requires of
  a client, and percent encoding provides), so the first one that `search_boundary`
  finds ends the content (`Boundary`, `LastInField`), and a part of one at the end of
  the buffer is kept with the last three tokens (`BlockInField`); for url-encoded
  bodies the same with `=` and `&` (`KeyAtField`, `EndsInField`, `WholeInField`).
  *Environment.* `EnvHas` says that the pointers are those to the variables of the block
  of this generation. The place of a variable is the sum of the lengths before it
  (`Used`), and `UsedOfAppend` what one variable more adds to it.
  *C++ wrapper.* `CivetInv` says that entry and parameters hold pieces of the request as
  long as a handler of the object may look at them.

  The body a client sends and the used bytes of a block are recursive functions. What
  the proofs need of them is shown without an induction rule: a statement that does not
  hold for every number does not hold for a least one (`Least`, from the library's
  theorem that `<` on the natural numbers is well founded), and that leads to a
  contradiction (`BodiesExist`, `SumsExist`, `SumsUnique`).

### Files

* `AccessByRecord`: `AuthExact`. That a request was granted by a record of the file
  (`GrantedByRecord`) needs that a request that reads has seen every line of the file
  as it is now (`Sees`), also while another thread writes to it (`SeeingMore`), and that
  all numbers below `nonce_count` were sent as nonces of this run (`NoncesOk`), which is
  all that the comparison of `parse_auth_header` looks at. `EditExact` is a statement
  about the loop of `mg_modify_passwords_file_ha1`: `CopiesOneMore` goes through its
  cases for one line more, `FileIsCopied` takes the shortest beginning of a file for
  which it fails, and `EditOk` carries the result through the writing: what is in the
  file is a beginning of what was made in memory.
* `FilesSent`: `FileSent`, all three parts.
  *Files.* `Announced` and `Progress` say that what was sent is the file from the first
  byte of the range on, and that offset and remaining length fit it. So `send_file_data`
  may stop at any of its places; where it stops without a fault nothing is left
  (`EndReached`), provided that the range is in the file (`FitsIn`), as `LengthSent` is.
  *SSI.* Of one file: its buffer is the end of what was read of it (`LastOf`), at most
  one tag is open (`OneTagOpen`), and it begins where the buffer begins (`TagBegins`),
  so that the two flags of `send_ssi_file` are true of the text (`FlagsOk`). From that
  follows what one more character makes due (`DueOfOpen`, `DueOfClosed`, `DueOfSsiTag`).
  Of all files that include each other: only the innermost one has something in its
  buffer, and what was sent and this buffer are what is due (`Sent`); opening and
  closing a file only moves what is due from one account to another (`SentMove`).
  *Pages.* `Cut` says of the characters before the position that each was used as it
  should be or belongs to a tag. A chunk that the Kepler reader hands over may end
  anywhere in a tag, so its states 2 and 3 need the tag that they are in and that it is
  not closed before the position (`InTagNow`); that no closing is overlooked between two
  blocks follows from where `NextIs` stops. In CivetWeb's syntax the closing is searched
  for at once (`PlainText`).

  `FlattenSeq` of the library is recursive; `FlattensExist`, `FlattensUnique` and
  `FlattenOfAppend` treat it like the recursive functions above. A proof showed that
  guards of a `CASE` overlapped in two definitions (`OpeningTag`, `PostData`), so that
  TLA+ does not say which arm is meant; both are `IF`s in the order of the code.

### Only model-checked

Liveness and everything under fairness (outside of the proof system), which is
`QueuedTaken`, `StopCompletes`, `RemovalCompletes`, `TimeoutEnds`, `ConnectionLoopEnds`
and `StopEnds`; and the invariants `UriFunctions` and `ParserFunctions`, since the functions of
`UriText`, `Patterns` and `MessageText` are recursive operators over texts. Every other
invariant of a passing run, and every action property, is a theorem.

## 5. Where the code and its documentation disagree

With a run each (details in `PROJECT.json`, `findings`):

* `pool_stop_hang`: the last workers may leave without signalling `sq_empty`
  again while the master waits in `produce_socket` on a full queue.
* `registry_double_release`: `release_handler_ref` twice for one acquisition.
* `connection_extension`: a timeout in a chunk extension leaves a character of it
  where the chunk size is parsed from, and the content length one too large.
* `no_port_stop_hang`: with optional ports only, of which none can be bound, the
  server starts, but `master_thread_run` returns at once (`20646`); `mg_stop` waits for
  a `stop_flag` that nobody sets to 2, and the workers are never joined.
* `lua_lock_order`: `lua_websocket_new` takes the context lock and then `ws_mutex`,
  `lua_websocket_close` the other way round.

Refuted by TLC, without a run of its own (the definition is in the module, with
*It does not hold*):

* `mg_start2` ignores a failure to start the master thread; `mg_stop` then returns
  while workers run (`WorkerPool!StopWaitsForThreads`; `civetweb.c:21945`,
  `include/civetweb.h:455`).
* `abort_cgi_process` reaps a child that ended with status 0, takes it for running
  and signals the free pid (`CgiProcess!KillsOwnChild`; `11906`).
* `put_file` answers with success after a body that was cut off by a timeout
  (`DavFiles!PutComplete`; `11560`).
* a range whose end is the file size or more is announced one byte too long
  (`StaticFile!RangeHonoured`; `10684`).
* a range of a file that exists as `.gz` only is answered with 206 and compressed
  bytes: the 416 at `10667` is never reached, since `mg_fopen` (`10648`) has `mg_stat`
  clear `is_gzipped` (`5787`) before it is tested (`StaticFile!RangeOfGzipRefused`; the
  comment at `10665`).
* an HTTP/2 request to a C callback leaves `handle_request` through `HTTP1_only`
  without `release_handler_ref` (`15412`), after which no call can remove or replace
  that handler: it waits for ever (`HandlerRegistry!RemovalAlwaysCompletes`, with
  `MaxHttp2 = 1`; the comment at `14739` waits for the end of use).
* a full lock table grants a LOCK whose reply names another user
  (`DavFiles!LockGranted`).
* a peer that stops inside a frame is not found out by PINGs
  (`WebSocket!SilentPeerClosed`; `13454`).
* `free_context` after a failed start leaves listening sockets, the timer thread
  and the Lua state (`ServerSetup!FailedStartClean`; `21916`); a TLS context can be
  made with `libssl` missing (`SslContextUsable`).
* the dynamic HPACK table is indexed in reverse order (`Http2!HpackInSync`), and
  frames follow a reset on its stream (`ResetIsLast`).
* a form field that breaks off is reported as stored, and an abort in the middle of
  a part is not honoured (`Form!StoredOrRemoved`, `AbortHonoured`).
* list options of the command line are appended to those of the file instead of
  overriding them (`StandAlone!CommandLineOverrides`; `main.c:804`).
* an edit of a password file drops comments and includes
  (`Auth!SpecialLinesKept`).
* `lua_ctx_exit` reads the successor of an entry it has freed
  (`LuaWebsockets!ListFreed`; `mod_lua.inl:3693`).

Seen while modelling:

* pool: a socket dequeued or queued when the server stops is not closed (`20220`);
  `AcceptedAccounted` is therefore about a running server.
  `idle_worker_thread_count` is not rolled back when a worker fails in its
  initialisation (`20320`). In the alternative queue a socket may wait for a busy
  worker although more threads are allowed, and its error paths free
  `worker_threadids` twice (`21788`, `20951`).
* registry: authorization and websocket callbacks have no reference count, so
  their setters do not wait, although `include/civetweb.h:571` and `614` say they
  work like `mg_set_request_handler`; the assertion at `15371` is reachable after a
  declined PUT; an update can starve while requests keep arriving (`14717`); a
  callback that sets its own handler waits for ever (`civetweb.h:499` forbids it).
* timers and CGI: `timer_add` by a worker can race with `timers_exit`: the model
  reaches the use of the freed list (`adder` state `fault`); a periodic timer that
  cannot be put back is dropped without its cancel function; the result of
  `timer_add` is ignored with two references counted (`12041`); a CGI program that
  hangs during `mg_stop` is not ended.
* connection: the "Message too large" answer in `get_message` is unreachable;
  `request_len + content_len` (`20051`) and `content_len + chunkSize` (`7003`) may
  overflow.
* files: a range `bytes=1--1` or one that starts behind the end gives a negative
  length; `mg_send_http_error` after a sent header appends to the body (`10455`);
  `remove_directory` tests `mg_remove` the wrong way round (`10215`); MOVE onto
  itself and a failing rename lose the destination; `put_file` leaves its file open
  when `fseeko` fails (`12597`); locks are not enforced by the other methods, a
  refresh adds a second entry and UNLOCK clears none. The throttle lets up to three
  times its rate pass in a second. SSI counts the include level twice, and a tag
  that is too long drops the rest of the file.
* websocket: the overflow loop looks neither at `must_close` nor at timeouts
  (`13606`); a failed `websocket_deflate_initialize` returns with the mutex held
  (`13892`); a partial write garbles the following frames.
* client: the mutex is not destroyed when TLS fails; the answer to HEAD makes
  `mg_read` wait; `mg_close_connection` from the reader thread joins itself.
* domains: a plain connection starts in the domain of the worker's last one
  (`20324`, `docs/UserManual.md:900`); a plain request to a domain without TLS makes
  the worker's next TLS connection fail; `refresh_trust` reloads the certificate of
  the old domain and records a date before it has loaded (`16884`).
* authentication: a password file is truncated and written in place, so a reader
  may see a part of it; `nonce_count` is read without a lock.
* text: `header_has_option` accepts prefixes; `get_uri_type` rejects `:` in a path;
  words of a request line may stand on following lines; an empty reason phrase
  takes the first header; `mg_get_request_link` encodes `%` twice.
* HTTP/2: all six settings are sent with one id, DATA and CONTINUATION are ignored.
* Lua: the page tag `<?>` is taken for code of length -1; an empty page is mapped
  with `MAP_FAILED`, which is compared with NULL (`mod_lua.inl:3183`); an error in
  `lua_error_handler` (a script that replaced `mg.write`) leaves an included page
  open; `shared.__inc` accepts reserved names.
* C++ wrapper: websocket handlers and `begin_request` see the form data of an
  earlier request on the connection, since only `requestHandler` and `authHandler`
  make a new entry; an authorization handler that calls `getParam` takes the body
  from the request handler; after an exception of the vector the next `getParam`
  gives the rest of the body as the whole.
* `main.c`: `save_config` drops the options of `main.c` itself; `add_domain` is
  doubled by a restart; a failed allocation leaves the settings dialog locked
  (`2268`).

## 6. Not modelled

`PROJECT.json` (`components`) lists every part with what is left out of it. The
TLS back ends wrap third party libraries; hashes and compression are published
algorithms on data too large to enumerate; Duktape scripts and most Lua bindings
convert arguments and keep no state; directory listings, log lines, PROPFIND
replies and the controls of dialogs are formatting; the Windows and WinCE
replacements of system calls, except the condition variables, have no protocol of
their own. Masks, permessage-deflate and Huffman codes change bytes, not frames.
64-bit lengths are small numbers here. Unit tests, examples and vendored libraries
are not part of the server.

## 7. Plan

What could be added, in this order:

1. The Windows variant of the CGI process, and the forwarding of its output.
2. PROPFIND replies on a directory that changes, next to `DavFiles`.
3. `UriText` and `Patterns` with recursive functions in place of operators, for the
   lemmas about `remove_dot_segments` and `match.inl` that need no induction.
