# A TLA+ model of the reactor network library

The repository is a C++ network library in the style of muduo: one event loop per thread,
a base loop that accepts connections, io loops that serve them, and `EchoServer` as the
example application. Two older versions of the reactor (in C and in C++, with an HTTP
server on top) and a single-file server are kept under `src/old/`. This directory holds
TLA+ modules for the library and for the two HTTP reactors, TLC configurations that check
them on small instances, and proofs that TLAPS checks for every value of the constants.

`PROJECT.json` is the index: components, runs, the map from definitions to source
lines, findings, hazards and theorems.

## 1. Inventory

| Component | State | Operations | Hard part |
|---|---|---|---|
| `EventLoop` | `looping_`, `quit_`, `pendingFuntors_` (under `mutex_`), `callingPendingFunctors_`, the eventfd | `loop`, `quit`, `runInloop`, `queueInloop`, `wakeup`, `handleRead`, `doPendingFunctors` | any thread calls in; whether to wake the loop is decided outside the mutex |
| `Channel` | `events_`, `revents_`, `index_`, `tie_` | enable and disable, `remove`, `handleEvent` | several events in one report; the first callback may destroy what the next one uses |
| `EpollPoller` | `channels_`, `events_` (the list), the kernel's epoll set | `updateChannel`, `removeChannel`, `poll` | three copies of one fact; a failing `epoll_ctl` ends the process; descriptors are reused |
| `TcpConnection` | `state_`, two `Buffer`s, its `Channel` and `Socket` | `send`, `shutdown`, `handleRead/Write/Close/Error`, `connectEstablished/Destroy` | partial writes, raw `this` in functors, `state_` changed by two threads |
| `Buffer` | a vector and two indices | `append`, `readFd`, `writeFd`, `retrieve`, `retrieveAsstring` | `size_t` arithmetic, data moved in place, a second array behind the vector |
| `TcpServer` | `connections_`, `started_`, `nextConnId_` | `start`, `newConnection`, `removeConnection`, destructor | a connection is taken apart by two threads |
| `Acceprot` | listening socket and channel | `listen`, `handleRead` | `EMFILE` with a level-triggered socket |
| `EventLoopThread`, `EventLoopThreadPoll`, `Thread` | `loop_`, `mutex_`, `cond_`, `threads_`, `loops_`, `next_`, a semaphore | `startLoop`, `threadFunc`, `start`, `getNextLoop`, destructors | hand-over of the loop from the new thread, `quit()` that overtakes `loop()` |
| `Socket`, `InetAddress` | a descriptor, an address | system calls | none of their own |
| `Logger`, `Timestamp`, `CurrentThread`, `DefaultPoller` | a log level, a cached tid | | none |
| `EchoServer` | | `onMessage`: send, then shut down | |
| `old/`: `EventLoop`, `WorkerThread`, `ThreadPool`, `TcpServer` | task queue under a mutex, channel map (an array in C, a `std::map` in C++), a socket pair, `index` of the pool | `AddTaskEventLoop`/`addTask`, `processTaskEventLoop`/`processTaskQ`, `add`, `modify`, `remove`, `acceptConnection`, `runThreadPool` | wake-up over a socket pair, an unlocked `empty()`, growth of the map, signal before wait |
| `old/`: `Dispatcher` (epoll, poll, select) | interest list, array of slots, two `fd_set`s | `add`, `remove`, `modify`, `dispatch` | callbacks change the table in the middle of a round; slots and descriptors are reused; tables are full |
| `old/`: `TcpConnection`, `Buffer` | two buffers, request, response | `processRead`, `processwrite`, `destroy`, `extendRoom`, `socketRead`, `sendData` | requests cut at any byte, resets in the middle of an answer, a file that vanishes |
| `old/`: `HttpRequest`, `HttpResponse` | parser state, url, headers; status, headers, sender | `parseRequestLine`, `parseRequestHeader`, `decodeMsg`, `getFileType`, `sendFile`, `sendDir` | pointers into bytes that may not be there, offsets |
| `old/SimpleHttp` | one epoll loop, one thread per event | | |

**How they interact.** The base loop's thread runs `Acceprot::handleRead`, which
calls `TcpServer::newConnection`; that picks an io loop and queues
`connectEstablished` there. The io loop's poller reports events of the
connection's `Channel`, which calls the handlers of `TcpConnection`. These call
the application, and, on close, `TcpServer::removeConnection`, which goes back to
the base loop through its functor queue, and from there to `connectDestroy`.
Other threads of the application may call `send()` and `shutdown()`, which
queue functors on the io loop. Everything that crosses threads goes through
`queueInloop()`, with the exceptions that show up in the findings: `state_`, the
raw `this` and string pointers in functors, and `channels_` of an io loop, which
the base thread changes.

In the HTTP reactors the main loop accepts and hands the new channel to a worker
loop as an `ADD` task, followed by a message on the worker's socket pair. The
worker's dispatcher calls the channel's read callback, which reads, parses and, in
the build as it stands, answers at once, then queues a `DELETE` for its own loop,
which is processed before the callback returns. With `_SEND_MSG_AUTO` (C) or
`MSG_SEND_AUTO` (C++) defined, the answer waits for a write event instead.

**What makes each component correct.** A loop neither loses functors nor sleeps on
top of them. Channel, map and kernel agree, whatever the order of calls. A
connection delivers the bytes it was given, in order; tells the application up
once, then down once; and is destroyed once nobody uses it. A buffer is a queue of
bytes. A server serves every client and gives every descriptor back. A dispatcher
asks the kernel for what the channels ask for and makes callbacks only for what the
kernel said. A request is understood as it was sent, and answered with the right
page, whole.

## 2. Modules

| Module | Models | Kind |
|---|---|---|
| `FunctorQueue` | what an EventLoop promises: functors run once, in order | abstract specification |
| `EventLoop` | `EventLoop.h/.cc`, `EventLoopThread::threadFunc` | component |
| `EventLoopProofs` | | proofs |
| `EpollPoller` | `EpollPoller.cc`, `Poller.cc`, the interest side of `Channel` | component |
| `EpollPollerProofs` | | proofs |
| `TcpConnection` | `TcpConnection.cc`, `Channel::handleEvent`, removal by `TcpServer`, the end of the server | composition for one connection |
| `TcpConnectionProofs` | | proofs |
| `ByteQueue` | what a Buffer promises | abstract specification |
| `Buffer` | `Buffer.h`, `Buffer.cc` | component |
| `BufferProofs` | | proofs |
| `TcpServer` | `TcpServer.cc`, `Acceprot.cc`, the pool and its threads | composition for several connections |
| `TcpServerProofs` | | proofs |
| `HttpBuffer` | `Buffer.c`, `Buffer.cpp` of `old/` | operators |
| `HttpRequest` | the parser and the choice of the response, both languages | operators |
| `HttpConnection` | one connection: `TcpConnection`, `HttpResponse`, the senders | component over the two above |
| `HttpConnectionProofs` | | proofs |
| `HttpReactor` | loops, queues, wake-up, channel maps, start of the workers, accept | composition of threads |
| `HttpReactorProofs` | | proofs |
| `Dispatcher` | epoll, poll and select under one worker's loop, both languages and builds | component |
| `DispatcherProofs` | | proofs |
| `MC...` | constants for TLC | instances |

A definition that begins with `Fault:` in its comment is a plausible bug of the
definition behind it (a dropped guard, an index off by one). No action uses it; it
is there to show that the property named with it in `PROJECT.json` notices it.

### EventLoop

`pc` says where the loop's thread is: before `loop()`, at the test of `quit_`, in
`poll()`, handling channels, before the swap in `doPendingFunctors()`, running the
batch, out of `loop()`, destroyed. A user callback is open while `inUser`; in it
the loop's thread itself may queue, run and quit. A caller on another thread takes
two steps, the mutex section (or `quit_ = true`) and `wakeup()`, so that the loop
can do anything in between, including destroying the EventLoop. The eventfd is a
counter; `handleRead()` takes it back to zero. Functors are pairs of thread and
number, so order and loss can be seen.

`FunctorQueue` has a queue, a set of functors handed over and a history of those
that ran. `EventLoop` maps its local batch followed by the pending vector to that
queue; the swap is then invisible.

### EpollPoller

Channels and descriptors are separate sets, so that a descriptor is closed and
given to another channel. The kernel is external: which channel and mask each
descriptor has, and what is ready. `epoll_ctl` on a descriptor in the wrong
condition is recorded in `ctlErrors`. `PollReturn` reports as many ready
descriptors as the event list holds, of the kernel's choice, and doubles the list
when it was full.

`disableWriting()` is modelled as written: it clears `kReadEvent`.

### TcpConnection

One step is one callback of `handleEventWrithGuARD()`, one call made inside
`onMessage`, one functor, or one step of another thread. Bytes are numbered in the
order `sendInLoop()` accepts them; `outputBuffer`, `sndq` and what the peer has
read are sequences of those numbers. Owners of the object (the map, functors with
a `shared_ptr`, the guard of `handleEvent`, pointers of the application) are
tracked; the object is destroyed when the last one goes. A functor with a raw
`this` on a destroyed object, a dangling string and `SIGPIPE` end the behaviour
with the reason in `crash`.

A call of `send()` or `shutdown()` on another thread is a test of `state_` and, later,
what follows from it; each thread makes up to `MaxCalls` of them, one after the other,
and several threads may be inside of one at once. `overwritten` records that a
`shutdown()` set `kDisconnectiong` over `kDisconnected`.

### Buffer

Memory is a function on addresses `0..size-1`; nothing is cleared, so stale bytes
would be seen. `append()` has its three ways (in place, moved to the front, longer
vector) as three actions with the tests of the code as guards. `readFd()` is split
by whether `readv()` reached the second array.

### TcpServer

Loop 0 is the base loop. `start()` goes through the pool thread by thread: the
semaphore of `Thread::start`, then `mutex_` and `cond_` of `startLoop`, with
spurious wake-ups. Each loop is used through what `FunctorQueue` promises. A
connection is reduced to its life cycle; its `Channel` appears in `channels` (the
map of the poller) and in `registered` (the epoll set). A change of `channels_` is
a read and a write: that is the race of `removeConnectionInLoop()`. `EMFILE` is
what happens when no descriptor is free. `deaf` holds the connections for which output
had to be buffered and was sent: `disableWriting()` ended their reading, so that only a
hang-up makes the loop take them apart (`HandleHangup`), and nobody has to send one.

### HttpBuffer, HttpRequest

Operators without state. A buffer is a block of bytes and two offsets, as in the code;
system calls are arguments. The programs differ in the second vector of `readv()` (the C++
one points at the first), in what a failed `send()` does to the read position (C moves it
back by one), and in how headers are kept; these are operators of their own. Text is a
sequence of byte codes, with every word of a request cut down to a byte or two; spaces,
line ends, `": "`, `%xx`, `/` and `.` are kept, since the code looks for them.
`decodeMsg()` is a function of its turns, in C on the memory it decodes in place, in C++
on the text that is still to be decoded; `DecodedAt` and `Following` are the body and the
step of either loop. A parser step gives the set of its outcomes, `"crash"` among them:
`memmem()` on the null pointer of a line that is not complete, the assertions of
`splitRequestLine()`, the header array overrun in C. What `int(nullptr - start)` is in C++
depends on the address of the block, so that step either fails or works on the null
pointer.

### HttpConnection

`pc` follows one connection through `processRead()`: read, the turns of the parser's loop,
the head of the response, the chunks of the file or the rows of the directory, the
`DELETE`. `impl` is chosen in the initial state and says which program runs. The client
sends its request in pieces and may end or reset at any moment, also in the middle of a
`send()`, or stop reading (`Stall`), after which `send()` does not return; the file may
vanish at any moment before it is open; `read()` of the file may fail, after which neither
program leaves its loop (`"readLoop"`). Items of the response (a line, a chunk, a row)
stand for their bytes in the write buffer. A request comes with what the client means by
it (method, url, version, headers, body, the file it asks for), and `WellFormed` says what
bytes a client sends for that: the lines one behind the other, and a url that spells the
path byte by byte or escaped. `ParsedAsSent` and `ResponseInOrder` compare the parsers and
senders with that meaning. The constants of a run are held to it by `RequestsAssumption`,
which TLC evaluates, and the proofs know nothing else of requests.

### HttpReactor

Every loop's thread has its own `pc`: waiting in the dispatcher, delivering events,
draining its queue. Serving a request is reduced to its outcome, which `HttpConnection`
explains: an answer and a `DELETE`; the end of the process (`over` is `"died"`), for a
request that is not a GET; or a callback that does not return (`pc` is `"stuck"`), for
half a request in C and for a client that does not read its answer. The C program holds
the mutex while it drains; the C++ program takes it for each node and calls `empty()`
without it, so a push is two steps and a drain may look in between. `taskWakeUp()` is a
blocking write into a pair of bounded size; the C loop watches the end it writes to, so
its messages are never an event. The channel map of C has a size and grows as
`ChannelMapAddROM()` does; its new part holds anything. Its first block is not cleared by
the code either; it is taken to be NULL, as it is when it comes first from a fresh heap.
`Sizes` are the sizes the array may get to. `ChannelMapAddROM()` doubles the size until it
is not less than the descriptor, so a descriptor that is the new size itself (256, with
arrays of 128 and 256) has its place one behind the array. What is read there may be
anything; if it is NULL the connection is stored there, what follows is undefined, and the
behaviour ends (`over` is `"overrun"`).

### Dispatcher

One worker's map and the three ways to watch it, for each of the two programs and
for the build with and without `_SEND_MSG_AUTO`. A round is what the kernel
answered (`batch`, or the slots themselves for poll) and a loop variable; a turn is
split at the callback, and the callback's tasks are carried out before the turn
goes on, as in the code. `due` and `last` record which events the kernel reported
for channels that are still there, and the callback just made. The dispatchers of C
over poll and select do not work (slot 0 is always the one written; the two sets
are exchanged) and are modelled as they are: the properties name the builds they
speak of, with the reason, and the C loop uses epoll. New bytes arrive only while
the loop waits, since what arrives during a round is not looked at before the next.
A callback may not return: on half a request in C, and in a `send()` to a client that
does not read; the loop is then `"stuck"`. A failing `epoll_ctl()` ends the process
(`"exited"`), which the exploration reaches only where `_SEND_MSG_AUTO` is defined.

## 3. Runs

Passing runs; between them every action fires.

| Run | Instance | What it shows |
|---|---|---|
| `eventloop` | 2 callers and the loop's thread, one functor each (180 000 states) | no wake-up and no quit is lost, `FunctorQueue` is implemented, every functor runs, and a running loop that is told to quit stops, without the 10 s timeout |
| `poller` | 2 channels, 2 descriptors, event list of 1 | agreement of channel, map and kernel, no failing `epoll_ctl`, no dangling channel, no starvation |
| `tcp` | one connection, one other thread that makes two calls, messages of 2 bytes, send buffer of 3, a server that may stop, with EchoServer or an application that stays silent (421 000 states) | the byte stream is intact, callbacks come once and in order unless `kDisconnected` is overwritten, output drains, a closed connection is destroyed, FIN and close are noticed as long as nothing was buffered |
| `buffer` | vector of 3 + 1 bytes growing to 8, second array of 2, data of 0 to 3 bytes of two kinds | `ByteQueue` is implemented, the indices stay in order, memory is asked for only when needed |
| `tcpserver` | 3 clients, for one of which output may be buffered, 2 descriptors, 0 to 2 io threads (141 000 states) | `start()` gets to listen, loops are running when used and evenly loaded, nothing destroyed is registered, descriptors come back, clients that met `EMFILE` are served, but for what connections that read no more keep |
| `http` | 14 requests (files, a directory longer than the buffer, escapes, a missing page, a body, another method, four malformed ones), two file systems, buffers of 13 bytes, both programs (22 000 states) | a head is parsed as it was sent however it was cut, the answer is right and whole, the offsets stay in the block, a complete GET of a client that reads is answered and released, the parser stops |
| `reactor` | 2 clients, 0 to 2 workers, descriptors below, at and above the size of the map, at the size it grows to and at the limit of select, socket pair of one message, both programs (118 000 states) | workers start whichever of signal and wait comes first, no wake-up of the C++ loops is lost, map, dispatcher and descriptors agree, every servable GET is served unless its worker is stuck or the process ended |
| `dispatcher` | 3 descriptors (one is the socket pair), tables of 2 and 3 places, all builds (166 000 states) | the kernel watches what the channels ask for, a callback is due when it is made, a readable channel gets its turn unless the loop is stuck in a callback |

Runs that find a violation of what a comment says (the findings):

| Run | What happens |
|---|---|
| `tcp_shutdown_buffered` | `disableWriting()` clears the wrong bit; once an answer was buffered, `shutdown()` never sends its FIN |
| `tcp_overwritten` | a thread calls `send()` and then `shutdown()` while the connection goes down: `shutdown()` sets `kDisconnectiong` over `kDisconnected`, and the queued `sendInLoop()` sends for a connection that is over |
| `tcpserver_base_thread` | `connectDestroy()` is queued on the base loop, which changes `channels_` of an io loop while that loop inserts; an erased entry comes back and outlives its connection |
| `reactor_wakeup` | the C loop watches the end of the socket pair that `taskWakeUp()` writes to: a waiting worker is not woken up, and the messages are never read |

Other behaviours the models contain and no run singles out: functors that a
`ThreadInitCallback` queues wait for the first event or for the timeout, since line 103 of
`EventLoop.cc` does not wake for them (the exception `FromInit` in `NoLostWakeup`);
`wakeup()` may come after the EventLoop is gone; a string given to `send()` from another
thread may be gone when it is read; a write after a reset whose `SO_ERROR` was taken
raises `SIGPIPE`; `~TcpServer()` skips the down callback in `kDisconnectiong`, or if the
io loop sees `quit_` first (the exceptions in `DownForEveryUp`); a `quit()` between the
publication of the loop and line 60 of `EventLoop.cc` is overwritten by `quit_ = false`,
and `~EventLoopThread` joins for ever (`QuitStopsLoop` speaks of loops inside `loop()`);
where `kDisconnected` was overwritten (`tcp_overwritten`), the closed channel may be
registered again and the connection go down twice (the exception in `UpThenDown`), and one
other thread is enough; a `shutdownInLoop()` queued by another thread runs on a destroyed
connection (its behaviour ends with the reason in `crash`). In the HTTP reactors: a
request that is not a GET, which `HttpRequest.c:185` and `HttpRequest.cpp:130` say is
treated as one, ends the process, in C by calling a null `sendDataFunc`, in C++ since
`m_info.at()` throws (`"crashed"` in `HttpConnection`, `"died"` in `HttpReactor`); a
`send()` to a client that does not read blocks the worker and all its connections; a
descriptor that is the size the C map grows to is stored behind the array; half a header
keeps a C worker in its parser for ever; the end of the stream does not close a C
connection; a connection with unread bytes, such as a body, is never released by either
program; a descriptor at the boundary of the C map, or beyond what select can watch, is
accepted and never served; the C++ buffer overruns its block when more arrives than fits;
epoll passes over a descriptor that was reset, again and again, where
`EpollDispatche.c:118` says that it is deleted. Each is an exception that the properties
name, so that what is checked is the rest.

### Bounds

* `MaxTasks`: one functor of each of three threads, so any two interleave and change
  places. The proofs need no bound.
* Two channels on two descriptors meet every exchange of a descriptor; an event
  list of one is too small for both and has to grow.
* `MsgLen` 2 and `SndBuf` 3: a write is complete, partial or blocked; one message of
  the peer before its FIN or reset lets all three meet. `MaxCalls` 2: one other thread
  sends twice, sends and shuts down, or the other way round, so that two of its calls
  meet each other's functors and `handleClose()`. The proofs need no bound, neither on
  calls nor on threads.
* `MaxSize` 8 lets the vector grow more than once, and data of 0 to 3 bytes falls
  short of, meets and exceeds every room there is. The proofs need no bound.
* Three clients on two descriptors run into `EMFILE` and reuse a descriptor; with
  two loops the round robin wraps. `SlowReaders`: one client may have output buffered, so
  that connections that read and one that does not compete for the descriptors.
* Buffers of 13 bytes with 10 in the second vector: every request falls short of,
  fills or exceeds the block as it is cut, answers have to be moved to the front
  and to grow. Two header entries are exceeded by one request.
* Two clients of `HttpReactor` meet on one worker, on two and on the main loop; one
  message fills the socket pair. The clients are alike, so one sends a GET and the
  other each kind. `FreeFds # {}`: descriptors do not run out. `Sizes` holds the
  first size of the map and the ones it doubles to; with `MapSize` 2, descriptors 1 to 4
  are below, at and above it, and 4 is the size it grows to. Two clients with
  descriptors 1 and 4 meet that case.
* Three descriptors of `Dispatcher` fill a table of two places and one of three; a
  free slot before and behind a used one occurs.
* Deadlock checking is off where the system may come to rest: all work handed over
  is done, all clients are gone, or the process has ended.

### Fairness

* `EventLoop`: the loop's thread keeps running, a user callback returns, and a
  caller inside `queueInloop()` or `quit()` reaches its `wakeup()`. The timeout of
  `epoll_wait` is not assumed, so that nothing promised depends on it.
* `EpollPoller`: the loop keeps polling and handling.
* `TcpConnection`: both loops run, the peer reads what arrives, a call of another
  thread gets to its end. Nobody has to call, send, close or stop.
* `TcpServer`: threads run; each loop serves its functors and its channels in each
  iteration (`EventLoop.cc` 62-75: all active channels, then all functors), so the
  acceptor, the handlers and the functors of the base loop each have their own
  fairness; clients close some time. Only the last is an assumption about the
  outside, and `EveryClientServed` needs it, for descriptors come back no other
  way. No fairness is put on a reset (`HandleHangup`) or on output being buffered.
* `HttpConnection`, `Dispatcher`: the loop's thread keeps running, except inside of a
  callback that does not return (`"stalled"`, `"stuck"`), which the properties name. Clients
  owe nothing: not the rest of a request, and not to read the answer.
* `HttpReactor`: every thread runs when it can, and a dispatcher returns after its two
  seconds at the latest, which is what makes the C workers see their tasks at all. A loop
  in `"stuck"` has no step. That clients are accepted (`EveryClientAccepted`) is promised
  in C only while the socket pairs have room, since its workers never take a message out.

## 4. Proofs

All proofs are checked by TLAPS, without bounds on threads, functors, channels,
descriptors, connections or data. Assumptions are those the modules make on their
constants:

* `LoopThread` is not a caller; sizes, lengths and bounds are naturals; `Zero` is a
  byte and data are strings of bytes; markers such as `NoConn`, `Wake` and `Garbage`
  are not clients.
* `TcpServer`: there is a descriptor for connections (with none, no clients are
  served and there is nothing to say).
* `HttpReactor`: descriptors are positive, and doubling a size until it is not less than
  a descriptor gives one of `Sizes`. No descriptor is left out.
* `Dispatcher`: descriptors are finitely many numbers, 0 among them stands for the
  socket pair; `poll()`'s array and `select()`'s sets have at least one place.
* `HttpRequest`, `HttpConnection`: requests, files and what unwritten memory holds are
  bytes. A request called valid is `WellFormed`; of others nothing is assumed
  (`RequestsAssumption`). `FilesAssumption`: the type a file is said to have is the one
  `getFileType()`'s table has for what follows the last `.` of its name, and a
  directory has at least the rows `.` and `..`. `MimeTypesAssumption`: that table maps
  suffixes to types, `.html` among them (the page for what is missing is an HTML file).

The recursion in `HttpRequest`, `HttpConnection` and `HttpReactor` is by recursive
functions. The induction theorems of the library cannot be instantiated with the
provers at hand, since their parameter is an operator. `FromZeroOn` in
`HttpConnectionProofs` says the same of a set (one that has 0, and with each number the
next, has all), and follows from the well-foundedness of `<`. With it, the recursive
functions are shown to exist and to return what they should. `Doubled` of `HttpReactor`
is treated otherwise: what is needed of it (that doubling reaches the descriptor) is part
of an assumption on the constants.

* **`EventLoopProofs`**: `TypeCorrect`, `NoWakeupIsLost`, `NoQuitIsLost`,
  `ImplementsFunctorQueue`. `NoLostWakeup` speaks only of the places where the loop would
  pass its functors by; it is not inductive, since the loop may arrive there. `WakeupInv`
  adds that `callingPendingFunctors_` is set exactly from the swap to the end of the batch
  (so what a functor queues comes with a wake-up), that callbacks run only where the swap
  of the same iteration is still to come or that flag is set, and how many functors the
  `ThreadInitCallback` left behind. The implementation of `FunctorQueue` needs `BatchInv`:
  the local batch is empty outside `doPendingFunctors()`, so the swap loses nothing.
* **`EpollPollerProofs`**: `Agreement`, `NoStalePointer`, `CtlNeverFails`, `PollSound`.
  `PollerInv` joins `IndexAgrees`, `MaskAgrees` and `NoDanglingChannel` with `FdsDistinct`
  (no two existing channels share a descriptor). Without the last, an update of one
  channel could change what the kernel holds for another.
* **`BufferProofs`**: `BufferTypeCorrect`, `ImplementsByteQueue`,
  `BufferGrowsOnlyWhenFull`. The type invariant with the order of the indices is
  inductive. The lemmas below it say what a copy does to a stretch of memory:
  written behind it, it appends (`CopyBehind`); moved to the front, also over
  itself, it is kept (`MoveToFront`); resized, it is kept (`ResizeKeeps`).
  `AppendedContent` puts them together for the three ways of `append()`,
  `ReadFdExtraContent` for the vector followed by the second array.

* **`TcpConnectionProofs`, the stream**: `StreamAlwaysIntact`. `StreamInv` splits on
  `reset`: before it, what was read, the send buffer and the output buffer are
  together all that was accepted; after it the send buffer stays empty and what was
  read is a prefix. The types and the bound of the send buffer belong to it: that a
  write takes at least a byte when the socket is writable, and never more than there
  is, holds only while the send buffer is within its size.
* **`TcpConnectionProofs`, the life**: `LifeInvariant`, `DownComesOnce`,
  `MessagesOnlyWhileUp`, `DownBeforeDestruction`, for any threads of the application and
  any number of calls of each. The only exception is in the property: `UpThenDown` does
  not speak of behaviours in which a `shutdown()` wrote over `kDisconnected` (section 3),
  since the connection may then be registered again and go down twice. The other two
  have no such exception. `UpThenDown` says nothing about who may register the channel
  later. `LifeInv` adds: `connectEstablished()` is the first functor of the queue and
  nothing happens before it (`EarlyInv`) nor a second time (`LateInv`); after the down
  callback the channel never asks for reading and `state_` is not `kConnected` again,
  overwritten or not, and, as long as it was not overwritten, it is `kDisconnected` and
  the channel asks for nothing (`PhaseInv`); before it, the map holds the connection, or
  the server is gone and `connectDestroy()` is queued or would not call back
  (`OwnerInv`); and a handler of the turn that already closed has no `IN` in `revents_`
  left to read on (`TurnInv`, from `handleClose()` being reached only by `HUP` without
  `IN`, or from the read itself).
* **`TcpServerProofs`**: `ServerTypeCorrect`, `RegisteredStaysOwned`,
  `GivenToRunningLoop`, `AlwaysEvenlyDealt`. `ServerInv` has four parts besides the
  types. `StartInv`: the loops the pool knows have threads that run them, and their
  number is settled when the server listens. `DealInv`: `next_` is an index of
  `loops_`. `LifeInv`: what each functor queue, each open access to `channels_` and
  each guard may hold, given the state of the connection; so that nothing can
  register a connection that `connections_` has already lost. `RoundInv`: the loops
  before `next_` have been given one connection more than the others, which
  `EvenlyDealt` (a difference of at most one) does not tell.
* **`HttpReactorProofs`**: `ReactorInvariant`, `NeverFails`, `WatchedStaysMapped`,
  `WakeupNeverLost`. `ReactorInv` joins the start of the workers (`StartInv`: published
  in order, and before the main thread goes on), `SleepInv` (a loop with tasks is
  processing them, will look before it sleeps, or is about to be woken up), `TaskInv` (a
  client is in one task at most, an `ADD` for an unwatched one, a `DELETE` for a
  watched one without events left), and `MapInv` (descriptors are distinct, inside the
  array in C, and lead back to what is watched), and `EndInv` (a run ends, if it does, by
  a request with another method or by a store behind the array, never by a failed
  assertion). `Survives` needs all of them: it fails if an event or a task is for a
  client that has left the map. A descriptor that is the size the map grows to stays
  within `MapInv`: nothing is stored for it inside the array, and the step that stores it
  behind the array ends the run.
* **`DispatcherProofs`**: `DispatcherInvariant`, `WatchedAsAsked`, `OnlyDueCallbacks`, for
  the builds that keep their word (`Keeps`: epoll, poll in C++, select in C++ without
  `MSG_SEND_AUTO`). Kernel and channels differ in the middle of a round, since a callback
  changes its mask and leaves it to a task to tell the kernel. So `EpollInv`, `PollInv`
  and `SelectInv` say that they agree for every channel without such a task, `QueueInv`
  that there is none when the loop sleeps (it is silent about a process that a failing
  `epoll_ctl()` ended); `PollInv` also keeps slots distinct and below `Maxfd`. For the
  callbacks, `DueInv` says that entries of the round not yet visited are still due, which
  rests on `PlainInv`: without the automatic sending, a callback deletes its own channel
  only.
* **`HttpConnectionProofs`, the buffers**: `OffsetsAlwaysInBlock`. `HttpInv` says that
  both buffers are `Good` (offsets in order and inside of a block of bytes), and what is
  given to them consists of bytes: request, files and response head. Most of the work is
  in lemmas about the operators of `HttpBuffer`: what `extendRoomBuffer`,
  `appendDataBuffer`, `socketRead`, `sendData` and the cuts of the parser return is `Good`
  again. The C write buffer is excepted after a reset, since its `readPos` then goes back
  by one per failed `send()`.
* **`HttpConnectionProofs`, the parser**: `ParsedAlwaysAsSent`. `ParsedAsSent` speaks of the
  end of the parser only. `ParseInv` says for each turn of its loop that there is a
  line `k` it is about to read (`AtLine`): the request line and the headers before it
  are in `req`, word for word (in C++ under the first value of each key, as `map::insert`
  keeps them), and the unread bytes are those of the request from line `k` on, as far
  as they have been taken. The lemmas under it say what `socketRead()` leaves in the
  buffer wherever the request is cut, that `memmem()` finds the end of exactly this
  line and no other pair of bytes, the place of the two spaces and of `": "`, and where
  each line begins (`SumsExist`, `LineIsSent`, by induction over the headers).
* **`HttpConnectionProofs`, the response**: `ResponseAlwaysInOrder`. There are three parts.
  *Decoders*: `FileIsNamed` says that `FileOf` of what either `decodeMsg()` returns is the
  path that the url spells, for the loop in place of C (what is decoded never runs into
  what is still to be read) and the appending one of C++. *Type*: `TypeIsFound` says
  that `getFileType()` finds the type of the file by its last `.`. *Sending*: `SendInv` says
  where the sender is in which response. The file may vanish between `stat()` and
  `open()`, so it may be one for either file system that was seen (`Seen`); `Stage`
  gives, for each place of the code, how many items of it have been handed to the
  buffer, and `Sending` splits them into those received and those in the write buffer.
  `Ended` says that a prefix went out, and all of it unless the client reset the
  connection. `SendInv` rests on both invariants above: the answer is the right one
  because the request was understood, and a chunk goes out whole because the buffer is
  `Good`.

Only model-checked: all liveness properties, since fairness and `ENABLED` are out of
TLAPS's reach. Every safety property a passing run checks is stated by a theorem, some
under the hypothesis named above (`Keeps`, in `Dispatcher`).

## 5. Not modelled

* `old/SimpleHttp`: one file that starts a thread per event; the reactor replaced it.
* In the HTTP reactors: the creation of the listening socket; an `accept()` that fails
  (its -1 is handed on and indexes the map, with whatever lies there); the fixed
  lengths of `fileName` and of the formatted lines; a `memcpy()` whose ranges overlap
  (taken to be right when moving down, as it is in the libraries in use); damage to
  `std::queue` by the unlocked `empty()`; a null `malloc()`; the log.
* `Logger`, `Timestamp`, `InetAddress`, `CurrentThread`, `DefaultPoller`: formatting,
  logging and one `getenv()`; no property depends on them.
* Socket options and `bind`. `TcpServer.cc:18` passes `opt == kNoReusePort` as
  `reuseport`, so the two options are exchanged; there is no behaviour to explore.
* The destructor of `Acceprot`, and `EventLoopThread::loop_` after a loop has quit by
  itself: `EventLoopThread.cc:55` compares instead of assigning.
* Memory exhaustion, and signals other than `SIGPIPE`.

## 6. Plan

Done: `EventLoop`, `EpollPoller`, `TcpConnection`, `Buffer`, `TcpServer` and the two HTTP
reactors, each with proofs of the safety properties its run checks. What a next step
would take up: the end of the pool and of the server with several connections
(`~TcpServer`, `~EventLoopThreadPoll`, `~Acceprot`, `loop_` left dangling), with
`TcpServerProofs` along.
