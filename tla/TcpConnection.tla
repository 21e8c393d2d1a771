--------------------------- MODULE TcpConnection ----------------------------
(***************************************************************************)
(* One TcpConnection: the io loop whose thread runs its handlers, the base *)
(* loop that takes it out of TcpServer's map, the threads of the           *)
(* application that call send() and shutdown() on it, the kernel's socket  *)
(* and the peer.  TcpConnection.cc, Channel.cc (handleEvent), TcpServer.cc *)
(* (removeConnection, destructor), Buffer as a sequence of bytes.          *)
(*                                                                         *)
(* The two loops are EventLoops: a queue of functors each, run in order    *)
(* and without lost wake-ups (module EventLoop).  A channel's registration *)
(* follows index_ and events_ (module EpollPoller).  A step of the io      *)
(* thread is one callback of handleEventWrithGuARD(), one call made by     *)
(* onMessage, or one functor: state_, the queues and the socket can change *)
(* under it between any two of them.                                       *)
(*                                                                         *)
(* Bytes are numbered in the order in which sendInLoop() accepts them.     *)
(***************************************************************************)
EXTENDS Integers, Sequences, FiniteSets, FiniteSetsExt, SequencesExt

CONSTANTS
  Scripts,        \* what onMessage may do: sequences of "send", "shutdown"
  Users,          \* other application threads, each holds a TcpConnectionPtr
  UserOps,        \* what they call: a subset of {"send", "shutdown"}
  RefsKept,       \* they keep their pointer for ever
  StringsKept,    \* the string given to send() outlives the functor
  MsgLen,         \* bytes per send()
  SndBuf,         \* capacity of the kernel's send buffer
  HighWaterMark,  \* highWaterMark_, 0 if no highWaterMarkCallback_ is set
  WriteComplete,  \* is a writeCompleteCallback_ set?
  PeerMayReset,   \* the peer may reset the connection
  ServerMayStop,  \* TcpServer may be destroyed while the connection lives
  MaxCalls,       \* bound: calls of send() and shutdown() by each thread
  MaxPeerMsgs     \* bound: messages the peer sends

ASSUME SizeAssumption ==
  /\ MsgLen \in Nat \ {0} /\ SndBuf \in Nat \ {0} /\ HighWaterMark \in Nat
  /\ MaxCalls \in Nat /\ MaxPeerMsgs \in Nat
ASSUME FlagAssumption ==
  /\ RefsKept \in BOOLEAN /\ StringsKept \in BOOLEAN /\ WriteComplete \in BOOLEAN
  /\ PeerMayReset \in BOOLEAN /\ ServerMayStop \in BOOLEAN
ASSUME OpsAssumption == UserOps \subseteq {"send", "shutdown"}

VARIABLES
  \* TcpConnection and its Channel
  state, events, index, outputBuffer,
  \* external: the socket.  Bytes in the send buffer, unread messages, FIN
  \* received, connection reset, SO_ERROR, write side shut down; messages the
  \* peer has sent so far
  sndq, inData, peerFin, reset, soError, wrShut, peerSent,
  \* the io loop: where its thread is, revents_, the rest of onMessage,
  \* pendingFuntors_, the batch being run, the batch holds a reference, quit_
  pc, revents, script, pending, batch, batchRef, ioQuit,
  \* TcpServer::connections_, functors of the base loop, the functor being
  \* run holds a reference, TcpServer destroyed
  inMap, baseQueue, baseRef, serverGone,
  \* users: where each is in a call, calls made, holds its pointer; history:
  \* a shutdown() of theirs wrote over kDisconnected
  upc, calls, holds, overwritten,
  \* history: callbacks made (downs: none, one, or 2 for more), bytes accepted,
  \* bytes the peer has read, how the process ended
  ups, downs, accepted, delivered, crash

connVars == <<state, events, index, outputBuffer>>
inVars == <<inData, peerFin, reset, peerSent>>
sockVars == <<sndq, soError, wrShut, inVars>>
loopVars == <<pc, revents, script, pending, batch, batchRef, ioQuit>>
baseVars == <<inMap, baseQueue, baseRef, serverGone>>
userVars == <<upc, calls, holds, overwritten>>
histVars == <<ups, downs, accepted, delivered>>
vars == <<connVars, sockVars, loopVars, baseVars, userVars, histVars, crash>>

kNew == -1
kAdded == 1
kDeleted == 2

States == {"kDisconnected", "kConnecting", "kConnected", "kDisconnectiong"}

\* Functors of the io loop.  Those bound to shared_from_this() or to a
\* TcpConnectionPtr keep the connection alive, the others hold a raw this.
Owning == {"established", "destroy", "complete", "highwater"}
FunctorKinds == Owning \cup {"send", "shutdown"}

\* TcpServer::newConnection(): the connection is in the map and
\* connectEstablished() is on its way to the io loop.
Init ==
  /\ state = "kConnecting" /\ events = {} /\ index = kNew /\ outputBuffer = <<>>
  /\ sndq = <<>> /\ inData = 0 /\ peerFin = FALSE /\ reset = FALSE
  /\ soError = "none" /\ wrShut = FALSE /\ peerSent = 0
  /\ pc = "poll" /\ revents = {} /\ script = <<>>
  /\ pending = <<"established">> /\ batch = <<>> /\ batchRef = FALSE
  /\ ioQuit = FALSE
  /\ inMap = TRUE /\ baseQueue = <<>> /\ baseRef = FALSE /\ serverGone = FALSE
  /\ upc = [u \in Users |-> "idle"] /\ calls = [u \in Users |-> 0]
  /\ holds = [u \in Users |-> FALSE]
  /\ ups = 0 /\ downs = 0 /\ accepted = 0 /\ delivered = <<>>
  /\ overwritten = FALSE /\ crash = "no"

-----------------------------------------------------------------------------
(* Ownership: shared_ptr counts, as the set of places that hold one *)

InHandler == pc \in {"close", "error", "read", "message", "write"}

Alive ==
  \/ inMap \/ baseQueue # <<>> \/ baseRef \/ batchRef
  \/ InHandler                                   \* guard of handleEvent()
  \/ pc # "exited" /\ \E i \in 1..Len(pending) : pending[i] \in Owning
  \/ \E i \in 1..Len(batch) : batch[i] \in Owning
  \/ \E u \in Users : holds[u]

Running == crash = "no"

DownAgain == IF downs = 0 THEN 1 ELSE 2

-----------------------------------------------------------------------------
(* Channel and EpollPoller, as far as one channel sees them *)

\* EpollPoller::updateChannel() after events_ became mask.
UpdatedIndex(mask) ==
  IF index = kAdded /\ mask = {} THEN kDeleted ELSE kAdded

SetEvents(mask) == events' = mask /\ index' = UpdatedIndex(mask)

isWriting(mask) == "write" \in mask

\* Channel::disableWriting() as written: it clears kReadEvent.
WithoutWriting(mask) == mask \ {"read"}

-----------------------------------------------------------------------------
(* External: the socket *)

Space == SndBuf - Len(sndq)

\* What write() of len bytes does: the bytes taken, as many as fit, or -1, errno, and
\* whether SIGPIPE is raised, which nothing in the program ignores.  A pending
\* SO_ERROR is returned once, in place of EPIPE.
WriteResult(len) ==
  IF soError = "ECONNRESET" THEN [n |-> -1, err |-> "ECONNRESET", signal |-> FALSE]
  ELSE IF reset \/ wrShut THEN [n |-> -1, err |-> "EPIPE", signal |-> TRUE]
  ELSE IF len = 0 THEN [n |-> 0, err |-> "none", signal |-> FALSE]
  ELSE IF Space = 0 THEN [n |-> -1, err |-> "EWOULDBLOCK", signal |-> FALSE]
  ELSE [n |-> Min({len, Space}), err |-> "none", signal |-> FALSE]

\* The socket after a write() of bytes with outcome r.
Written(bytes, r) ==
  /\ sndq' = IF r.n > 0 THEN sndq \o SubSeq(bytes, 1, r.n) ELSE sndq
  /\ soError' = IF r.err \in {"ECONNRESET", "EPIPE"} THEN "none" ELSE soError
  /\ crash' = IF r.signal THEN "sigpipe" ELSE crash
  /\ UNCHANGED inVars

\* Conditions epoll reports for the mask; ERR and HUP are always reported.
Ready ==
  LET cond == (IF inData > 0 \/ peerFin \/ reset THEN {"IN"} ELSE {})
              \cup (IF Space > 0 \/ reset \/ wrShut THEN {"OUT"} ELSE {})
              \cup (IF soError # "none" THEN {"ERR"} ELSE {})
              \cup (IF reset \/ (peerFin /\ wrShut) THEN {"HUP"} ELSE {})
      asked == (IF "read" \in events THEN {"IN"} ELSE {})
               \cup (IF "write" \in events THEN {"OUT"} ELSE {})
  IN  IF index = kAdded /\ Alive THEN cond \cap (asked \cup {"ERR", "HUP"}) ELSE {}

-----------------------------------------------------------------------------
(* TcpConnection: its methods as they run on the io thread *)

\* Fault: the test of shutdownInLoop() the wrong way round.
ShutdownWhileWriting(mask) == wrShut' = (wrShut \/ isWriting(mask))

\* shutdownInLoop(), with the channel's mask at the time of the call.
ShutdownInLoop(mask) == wrShut' = (wrShut \/ ~isWriting(mask))

\* Fault: handleClose() without disableAll().
HandleCloseStillWatching ==
  /\ state' = "kDisconnected"
  /\ downs' = DownAgain
  /\ baseQueue' = Append(baseQueue, "remove")
  /\ UNCHANGED <<events, index, outputBuffer, inMap, baseRef, serverGone, ups, accepted,
                 delivered>>

\* Fault: handleClose() without connectionCallback_.
HandleCloseSilently ==
  /\ state' = "kDisconnected"
  /\ SetEvents({})
  /\ baseQueue' = Append(baseQueue, "remove")
  /\ UNCHANGED <<outputBuffer, inMap, baseRef, serverGone, histVars>>

\* handleClose(): state, channel, down callback, TcpServer::removeConnection,
\* which queues removeConnectionInLoop on the base loop.
HandleClose ==
  /\ state' = "kDisconnected"
  /\ SetEvents({})
  /\ downs' = DownAgain
  /\ baseQueue' = Append(baseQueue, "remove")
  /\ UNCHANGED <<outputBuffer, inMap, baseRef, serverGone, ups, accepted, delivered>>

\* Fault: append(data, len), again what write() already took.
RemainingAll(bytes, nwrote) == bytes

\* What write() left of the data: append(data + nwrote, remaining).
Remaining(bytes, nwrote) == SubSeq(bytes, nwrote + 1, Len(bytes))

\* Fault: the output is kept and nobody asks for EPOLLOUT.
NoWatchOutput == UNCHANGED <<events, index>>

\* Ask for EPOLLOUT, unless the channel already does.
WatchOutput ==
  IF isWriting(events) THEN UNCHANGED <<events, index>> ELSE SetEvents(events \cup {"write"})

\* sendInLoop() of one message.
SendInLoop ==
  LET bytes == [i \in 1..MsgLen |-> accepted + i]
      old == Len(outputBuffer)
      \* lines 211-223, after nwrote bytes went out directly
      Keep(nwrote) ==
        /\ accepted' = accepted + MsgLen
        /\ IF nwrote < MsgLen
           THEN outputBuffer' = outputBuffer \o Remaining(bytes, nwrote) /\ WatchOutput
           ELSE UNCHANGED <<events, index, outputBuffer>>
      Queued(nwrote) ==
        IF nwrote = MsgLen THEN IF WriteComplete THEN <<"complete">> ELSE <<>>
        ELSE IF old + MsgLen - nwrote >= HighWaterMark /\ old < HighWaterMark
             THEN <<"highwater">> ELSE <<>>
  IN  /\ IF state = "kDisconnected"
         THEN UNCHANGED <<connVars, sndq, soError, inVars, pending, accepted, crash>>
         ELSE IF ~isWriting(events) /\ old = 0
         THEN LET r == WriteResult(MsgLen) IN
                /\ Written(bytes, r)
                /\ IF r.err \in {"EPIPE", "ECONNRESET"}
                   THEN UNCHANGED <<events, index, outputBuffer, accepted, pending>>
                   ELSE /\ Keep(Max({r.n, 0}))
                        /\ pending' = pending \o Queued(Max({r.n, 0}))
                /\ UNCHANGED state
         ELSE /\ Keep(0)
              /\ pending' = pending \o Queued(0)
              /\ UNCHANGED <<state, sndq, soError, inVars, crash>>
      /\ UNCHANGED <<wrShut, ups, downs, delivered>>

\* handleWrite(): when the buffer is drained, disableWriting(), the write
\* complete callback, and the shutdown() that was waiting for it.
HandleWrite ==
  IF ~isWriting(events)
  THEN UNCHANGED <<connVars, sockVars, pending, crash>>
  ELSE LET r == WriteResult(Len(outputBuffer)) IN
         /\ Written(outputBuffer, r)
         /\ IF r.n <= 0
            THEN UNCHANGED <<connVars, wrShut, pending>>
            ELSE /\ outputBuffer' = SubSeq(outputBuffer, r.n + 1, Len(outputBuffer))
                 /\ IF outputBuffer' # <<>>
                    THEN UNCHANGED <<events, index, wrShut, pending>>
                    ELSE /\ SetEvents(WithoutWriting(events))
                         /\ pending' = IF WriteComplete
                                       THEN Append(pending, "complete") ELSE pending
                         /\ IF state = "kDisconnectiong"
                            THEN ShutdownInLoop(events')
                            ELSE UNCHANGED wrShut
                 /\ UNCHANGED state

\* Fault: connectDestroy() only removes the channel.
ConnectDestroySilently == index' = kNew /\ UNCHANGED <<state, events, outputBuffer, downs>>

\* connectDestroy(), on whatever thread runs it.
ConnectDestroy ==
  /\ IF state = "kConnected"
     THEN state' = "kDisconnected" /\ events' = {} /\ downs' = DownAgain
     ELSE UNCHANGED <<state, events, downs>>
  /\ index' = kNew
  /\ UNCHANGED outputBuffer

-----------------------------------------------------------------------------
(* The io thread *)

\* epoll_wait() returns because of this channel, or because of the wake-up
\* that came with a functor or with quit().
PollReturn ==
  /\ Running /\ pc = "poll" /\ (Ready # {} \/ pending # <<>> \/ ioQuit)
  /\ revents' = Ready
  /\ pc' = IF Ready = {} THEN "swap" ELSE "close"
  /\ UNCHANGED <<connVars, sockVars, script, pending, batch, batchRef, ioQuit, baseVars, userVars,
                 histVars, crash>>

\* Fault: without "&& !(revents_ & EPOLLIN)".
ClosesOnAnyHup == "HUP" \in revents

\* handleEventWrithGuARD(): HUP without IN.
ClosesOnHup == "HUP" \in revents /\ "IN" \notin revents

CloseStage ==
  /\ Running /\ pc = "close"
  /\ pc' = "error"
  /\ IF ClosesOnHup
     THEN HandleClose
     ELSE UNCHANGED <<connVars, baseVars, histVars>>
  /\ UNCHANGED <<sockVars, revents, script, pending, batch, batchRef, ioQuit, userVars, crash>>

\* handleError() reads SO_ERROR, which clears it.
ErrorStage ==
  /\ Running /\ pc = "error"
  /\ pc' = "read"
  /\ soError' = IF "ERR" \in revents THEN "none" ELSE soError
  /\ UNCHANGED <<connVars, sndq, inVars, wrShut, revents, script, pending,
                 batch, batchRef, ioQuit, baseVars, userVars, histVars, crash>>

\* handleRead(), n > 0: everything there is goes to inputBuffer_, onMessage.
ReadStage ==
  /\ Running /\ pc = "read" /\ "IN" \in revents /\ inData > 0
  /\ inData' = 0
  /\ pc' = "message"
  /\ script' \in Scripts
  /\ UNCHANGED <<connVars, sndq, peerFin, reset, peerSent, soError, wrShut, revents, pending, batch,
                 batchRef, ioQuit, baseVars, userVars, histVars, crash>>

\* Fault: n == 0 taken for an error, handleError() only logs.
ReadEofIgnored ==
  /\ Running /\ pc = "read" /\ "IN" \in revents /\ inData = 0
  /\ soError = "none" /\ (peerFin \/ reset)
  /\ pc' = "write"
  /\ UNCHANGED <<connVars, sockVars, revents, script, pending, batch, batchRef, ioQuit, baseVars,
                 userVars, histVars, crash>>

\* handleRead(), n == 0: FIN, or a reset whose error was already taken.
ReadEofStage ==
  /\ Running /\ pc = "read" /\ "IN" \in revents /\ inData = 0
  /\ soError = "none" /\ (peerFin \/ reset)
  /\ pc' = "write"
  /\ HandleClose
  /\ UNCHANGED <<sockVars, revents, script, pending, batch, batchRef, ioQuit, userVars, crash>>

\* handleRead(), n < 0: the error is taken by read(); handleError() logs.
ReadErrorStage ==
  /\ Running /\ pc = "read" /\ "IN" \in revents /\ inData = 0 /\ soError # "none"
  /\ pc' = "write"
  /\ soError' = "none"
  /\ UNCHANGED <<connVars, sndq, inVars, wrShut, revents, script, pending,
                 batch, batchRef, ioQuit, baseVars, userVars, histVars, crash>>

NoReadStage ==
  /\ Running /\ pc = "read" /\ "IN" \notin revents
  /\ pc' = "write"
  /\ UNCHANGED <<connVars, sockVars, revents, script, pending, batch, batchRef, ioQuit, baseVars,
                 userVars, histVars, crash>>

\* onMessage is about to call op.
Calls(op) == pc = "message" /\ script # <<>> /\ Head(script) = op

\* onMessage: send() on the loop's own thread.
MessageSend ==
  /\ Running /\ Calls("send")
  /\ script' = Tail(script)
  /\ IF state = "kConnected"
     THEN SendInLoop
     ELSE UNCHANGED <<connVars, sockVars, pending, histVars, crash>>
  /\ UNCHANGED <<pc, revents, batch, batchRef, ioQuit, baseVars, userVars>>

\* onMessage: shutdown() on the loop's own thread.
MessageShutdown ==
  /\ Running /\ Calls("shutdown")
  /\ script' = Tail(script)
  /\ IF state = "kConnected"
     THEN state' = "kDisconnectiong" /\ ShutdownInLoop(events)
     ELSE UNCHANGED <<state, wrShut>>
  /\ UNCHANGED <<events, index, outputBuffer, sndq, inVars, soError, pc,
                 revents, pending, batch, batchRef, ioQuit, baseVars, userVars, histVars, crash>>

\* onMessage returns.
MessageDone ==
  /\ Running /\ pc = "message" /\ script = <<>>
  /\ pc' = "write"
  /\ UNCHANGED <<connVars, sockVars, revents, script, pending, batch, batchRef, ioQuit,
                 baseVars, userVars, histVars, crash>>

WriteStage ==
  /\ Running /\ pc = "write"
  /\ pc' = "swap"
  /\ revents' = {}
  /\ IF "OUT" \in revents
     THEN HandleWrite
     ELSE UNCHANGED <<connVars, sockVars, pending, crash>>
  /\ UNCHANGED <<script, batch, batchRef, ioQuit, baseVars, userVars, histVars>>

\* doPendingFunctors(): the vector holds its functors until it is destroyed.
SwapFunctors ==
  /\ Running /\ pc = "swap"
  /\ pc' = "functors"
  /\ batch' = pending
  /\ batchRef' = \E i \in 1..Len(pending) : pending[i] \in Owning
  /\ pending' = <<>>
  /\ UNCHANGED <<connVars, sockVars, revents, script, ioQuit, baseVars, userVars, histVars, crash>>

\* The end of the iteration and the test of quit_: when loop() returns the
\* EventLoop is destroyed, and the functors it has not run with it.
FunctorsDone ==
  /\ Running /\ pc = "functors" /\ batch = <<>>
  /\ pc' = IF ioQuit THEN "exited" ELSE "poll"
  /\ batchRef' = FALSE
  /\ UNCHANGED <<connVars, sockVars, revents, script, pending, batch, ioQuit, baseVars,
                 userVars, histVars, crash>>

RunsNext(kind) == Running /\ pc = "functors" /\ batch # <<>> /\ Head(batch) = kind

\* connectEstablished(): the up callback is where the application stores its
\* TcpConnectionPtr.
RunEstablished ==
  /\ RunsNext("established")
  /\ batch' = Tail(batch)
  /\ state' = "kConnected"
  /\ SetEvents({"read"})
  /\ ups' = ups + 1
  /\ holds' = [u \in Users |-> TRUE]
  /\ UNCHANGED <<outputBuffer, sockVars, pc, revents, script, pending, batchRef, ioQuit, baseVars,
                 upc, calls, overwritten, downs, accepted, delivered, crash>>

\* Reading through a raw this, or through the pointer into a string, that is
\* gone is undefined: the model stops there.
RunSend ==
  /\ RunsNext("send")
  /\ batch' = Tail(batch)
  /\ \/ Alive /\ SendInLoop
     \/ /\ ~Alive \/ ~StringsKept
        /\ crash' = IF Alive THEN "garbage" ELSE "uaf"
        /\ UNCHANGED <<connVars, sockVars, pending, histVars>>
  /\ UNCHANGED <<pc, revents, script, batchRef, ioQuit, baseVars, userVars>>

RunShutdown ==
  /\ RunsNext("shutdown")
  /\ batch' = Tail(batch)
  /\ IF Alive
     THEN ShutdownInLoop(events) /\ UNCHANGED crash
     ELSE crash' = "uaf" /\ UNCHANGED wrShut
  /\ UNCHANGED <<connVars, sndq, inVars, soError, pc, revents, script,
                 pending, batchRef, ioQuit, baseVars, userVars, histVars>>

\* writeCompleteCallback_ and highWaterMarkCallback_.
RunCallback ==
  /\ RunsNext("complete") \/ RunsNext("highwater")
  /\ batch' = Tail(batch)
  /\ UNCHANGED <<connVars, sockVars, pc, revents, script, pending, batchRef, ioQuit, baseVars,
                 userVars, histVars, crash>>

\* connectDestroy() queued by ~TcpServer().
RunDestroy ==
  /\ RunsNext("destroy")
  /\ batch' = Tail(batch)
  /\ ConnectDestroy
  /\ UNCHANGED <<sockVars, pc, revents, script, pending, batchRef, ioQuit, baseVars, userVars, ups,
                 accepted, delivered, crash>>

-----------------------------------------------------------------------------
(* The base thread *)

\* Fault: the name is not erased from connections_.
BaseRemoveKeepsMap ==
  /\ Running /\ ~serverGone /\ baseQueue # <<>> /\ Head(baseQueue) = "remove"
  /\ baseQueue' = Append(Tail(baseQueue), "destroy")
  /\ UNCHANGED <<connVars, sockVars, loopVars, inMap, baseRef, serverGone, userVars,
                 histVars, crash>>

\* removeConnectionInLoop(): out of the map; connectDestroy() is queued on
\* loop_, the base loop.
BaseRemove ==
  /\ Running /\ ~serverGone /\ baseQueue # <<>> /\ Head(baseQueue) = "remove"
  /\ inMap' = FALSE
  /\ baseQueue' = Append(Tail(baseQueue), "destroy")
  /\ UNCHANGED <<connVars, sockVars, loopVars, baseRef, serverGone, userVars, histVars, crash>>

BaseDestroy ==
  /\ Running /\ ~serverGone /\ baseQueue # <<>> /\ Head(baseQueue) = "destroy"
  /\ ConnectDestroy
  /\ baseQueue' = Tail(baseQueue)
  /\ baseRef' = TRUE
  /\ UNCHANGED <<sockVars, loopVars, inMap, serverGone, userVars, ups, accepted, delivered,
                 crash>>

\* The base loop's batch is destroyed, and its reference with it.
BaseRelease ==
  /\ Running /\ baseRef
  /\ baseRef' = FALSE
  /\ UNCHANGED <<connVars, sockVars, loopVars, inMap, baseQueue, serverGone, userVars,
                 histVars, crash>>

\* ~TcpServer(), after the base loop has returned: connectDestroy() goes to
\* the io loop for every connection of the map ...
ServerStop ==
  /\ Running /\ ServerMayStop /\ ~serverGone /\ ~baseRef
  /\ serverGone' = TRUE
  /\ inMap' = FALSE
  /\ pending' = IF inMap THEN Append(pending, "destroy") ELSE pending
  /\ UNCHANGED <<connVars, sockVars, pc, revents, script, batch, batchRef, baseQueue,
                 baseRef, ioQuit, userVars, histVars, crash>>

\* ... then the thread pool goes, and ~EventLoopThread() quits the io loop.
PoolStop ==
  /\ Running /\ serverGone /\ ~ioQuit
  /\ ioQuit' = TRUE
  /\ UNCHANGED <<connVars, sockVars, pc, revents, script, pending, batch, batchRef, baseVars,
                 userVars, histVars, crash>>

\* The base loop is destroyed last, with the functors it never ran.
BaseLoopGone ==
  /\ Running /\ pc = "exited" /\ baseQueue # <<>>
  /\ baseQueue' = <<>>
  /\ UNCHANGED <<connVars, sockVars, loopVars, inMap, baseRef, serverGone, userVars, histVars,
                 crash>>

-----------------------------------------------------------------------------
(* Other threads of the application *)

\* send(), shutdown(): the test of state_ ...
UserCall(u, op) ==
  /\ Running /\ holds[u] /\ upc[u] = "idle" /\ op \in UserOps /\ calls[u] < MaxCalls
  /\ state = "kConnected"
  /\ upc' = [upc EXCEPT ![u] = op]
  /\ calls' = [calls EXCEPT ![u] = @ + 1]
  /\ UNCHANGED <<connVars, sockVars, loopVars, baseVars, holds, overwritten, histVars,
                 crash>>

\* queueInloop() through getLoop(), which does not keep the EventLoop alive.
UserQueue(kind) ==
  IF pc = "exited"
  THEN crash' = "uaf" /\ UNCHANGED pending
  ELSE pending' = Append(pending, kind) /\ UNCHANGED crash

\* ... and what follows it: send() queues sendInLoop, shutdown() sets the
\* state, whatever it is by now, and queues shutdownInLoop.
UserQueueSend(u) ==
  /\ Running /\ upc[u] = "send"
  /\ upc' = [upc EXCEPT ![u] = "idle"]
  /\ UserQueue("send")
  /\ UNCHANGED <<connVars, sockVars, pc, revents, script, batch, batchRef, ioQuit, baseVars,
                 calls, holds, overwritten, histVars>>

UserSetState(u) ==
  /\ Running /\ upc[u] = "shutdown"
  /\ upc' = [upc EXCEPT ![u] = "queue"]
  /\ state' = "kDisconnectiong"
  /\ overwritten' = (overwritten \/ state = "kDisconnected")
  /\ UNCHANGED <<events, index, outputBuffer, sockVars, loopVars, baseVars, calls, holds,
                 histVars, crash>>

UserQueueShutdown(u) ==
  /\ Running /\ upc[u] = "queue"
  /\ upc' = [upc EXCEPT ![u] = "idle"]
  /\ UserQueue("shutdown")
  /\ UNCHANGED <<connVars, sockVars, pc, revents, script, batch, batchRef, ioQuit, baseVars,
                 calls, holds, overwritten, histVars>>

\* Between two calls a thread may drop its TcpConnectionPtr.
UserRelease(u) ==
  /\ Running /\ upc[u] = "idle" /\ ~RefsKept /\ holds[u]
  /\ holds' = [holds EXCEPT ![u] = FALSE]
  /\ UNCHANGED <<connVars, sockVars, loopVars, baseVars, upc, calls, overwritten, histVars,
                 crash>>

-----------------------------------------------------------------------------
(* External: the peer *)

PeerOpen == Running /\ Alive /\ ~peerFin /\ ~reset

PeerSend ==
  /\ PeerOpen /\ peerSent < MaxPeerMsgs
  /\ peerSent' = peerSent + 1
  /\ inData' = inData + 1
  /\ UNCHANGED <<connVars, sndq, peerFin, reset, soError, wrShut, loopVars, baseVars,
                 userVars, histVars, crash>>

PeerReads ==
  /\ Running /\ sndq # <<>>
  /\ sndq' = Tail(sndq)
  /\ delivered' = Append(delivered, Head(sndq))
  /\ UNCHANGED <<connVars, inVars, soError, wrShut, loopVars, baseVars,
                 userVars, ups, downs, accepted, crash>>

PeerCloses ==
  /\ PeerOpen
  /\ peerFin' = TRUE
  /\ UNCHANGED <<connVars, sndq, inData, reset, peerSent, soError, wrShut, loopVars, baseVars,
                 userVars, histVars, crash>>

\* A reset throws away the send buffer; after a FIN the error is EPIPE.
PeerResets ==
  /\ Running /\ Alive /\ PeerMayReset /\ ~reset
  /\ reset' = TRUE
  /\ soError' = IF peerFin THEN "EPIPE" ELSE "ECONNRESET"
  /\ sndq' = <<>>
  /\ UNCHANGED <<connVars, inData, peerFin, peerSent, wrShut, loopVars, baseVars,
                 userVars, histVars, crash>>

-----------------------------------------------------------------------------
Handle ==
  \/ CloseStage \/ ErrorStage \/ ReadStage \/ ReadEofStage \/ ReadErrorStage \/ NoReadStage
  \/ MessageSend \/ MessageShutdown \/ MessageDone \/ WriteStage

RunFunctor ==
  RunEstablished \/ RunSend \/ RunShutdown \/ RunCallback \/ RunDestroy

IoStep == PollReturn \/ Handle \/ SwapFunctors \/ RunFunctor \/ FunctorsDone

BaseStep == BaseRemove \/ BaseDestroy \/ BaseRelease

UserFinish(u) ==
  UserQueueSend(u) \/ UserSetState(u) \/ UserQueueShutdown(u) \/ UserRelease(u)

UserStep(u) == (\E op \in UserOps : UserCall(u, op)) \/ UserFinish(u)

PeerStep == PeerSend \/ PeerReads \/ PeerCloses \/ PeerResets

StopStep == ServerStop \/ PoolStop \/ BaseLoopGone

Next == IoStep \/ BaseStep \/ StopStep \/ (\E u \in Users : UserStep(u)) \/ PeerStep

Spec == Init /\ [][Next]_vars

\* Both loops keep running, the peer reads what arrives, a call of another
\* thread gets to its end and a pointer that is not kept for ever is dropped;
\* nobody has to call, close, reset, send or stop anything.
FairSpec ==
  /\ Spec
  /\ WF_vars(IoStep) /\ WF_vars(BaseStep) /\ WF_vars(PeerReads)
  /\ \A u \in Users : WF_vars(UserFinish(u))

-----------------------------------------------------------------------------
(* Properties *)

Iota(n) == [i \in 1..n |-> i]

\* TcpConnection.cc 93-126 and 171-224: whatever is written directly, kept in
\* the output buffer or sent later, the peer reads the bytes in the order in
\* which sendInLoop() accepted them, none twice, and none is lost unless the
\* connection is reset.
StreamIntact ==
  /\ IsPrefix(delivered \o sndq, Iota(accepted))
  /\ ~reset => delivered \o sndq \o outputBuffer = Iota(accepted)

\* TcpConnection.cc 52-71 and 129-137: one up callback, at most one down
\* callback and only after it, and a channel that went down is not
\* registered again.  The exception is shutdown() on another thread, which
\* may test state_ before handleClose() and set it after (234-236): a
\* sendInLoop() queued by then, by the same thread or another, no longer
\* finds kDisconnected.
UpThenDown ==
  /\ ups <= 1
  /\ overwritten \/ (downs <= ups /\ (downs > 0 => index # kAdded))

\* Channel.cc 54-83, TcpConnection.cc 73-92: onMessage is called only between
\* the up and the down callback, also when data, FIN and reset arrive
\* together or before connectEstablished() ran.
MessageWhileUp ==
  [][pc = "read" /\ pc' = "message" => ups = 1 /\ downs = 0]_vars

\* TcpServer.cc 30-40 and 87-99: a connection that was up is not destroyed
\* without its down callback, whichever of a close and ~TcpServer() comes
\* first.  There are two ways around it: connectDestroy() queued by
\* ~TcpServer() calls back only in kConnected, not while a shutdown() is under
\* way; and ~EventLoopThread() quits the io loop, which may see quit_ before
\* it gets to the functor and drops it.
DownForEveryUp ==
  ~Alive => \/ downs >= ups
            \/ serverGone /\ state = "kDisconnectiong"
            \/ pc = "exited" /\ \E i \in 1..Len(pending) : pending[i] = "destroy"

\* The process ended or the TcpServer is being destroyed.
Stopped == ~Running \/ serverGone

\* TcpConnection.cc 208-210: the output buffer is emptied, unless the
\* connection goes down, as long as the peer reads.
OutputDrains == outputBuffer # <<>> ~> (outputBuffer = <<>> \/ downs > 0 \/ Stopped)

\* TcpServer.cc 87-99: after the down callback both loops get to release
\* their references and the connection is destroyed.
ClosedIsDestroyed == downs > 0 ~> (~Alive \/ Stopped)

\* TcpConnection.cc 225-239: shutdown() gets the FIN sent or the connection
\* closed, unless output has ever been buffered: disableWriting() leaves
\* isWriting() true for good.
FinAfterShutdown ==
  state = "kDisconnectiong" ~> (wrShut \/ isWriting(events) \/ downs > 0 \/ Stopped)

\* TcpConnection.cc 73-92, Channel.cc 54-75: the peer closing takes the
\* connection down, with the same exception: disableWriting() ends reading.
PeerCloseNoticed == peerFin ~> (downs > 0 \/ isWriting(events) \/ Stopped)

-----------------------------------------------------------------------------
(* What comments in the code say of it, and it does not do. *)

\* TcpConnection.cc:176 "之前调用过改Connection的shutdown，不能再发送了" (shutdown
\* of this connection was called before, no more sending) and the log line
\* "disconnection, give up writing!": once the connection went down,
\* sendInLoop() accepts nothing.
GivesUpWriting == [][downs > 0 => accepted' = accepted]_vars

\* TcpConnection.h:35 "关闭连接" (close the connection): shutdown() closes the
\* write side, at the latest when the output buffer is empty.  It does not if
\* anything was ever buffered.
ShutdownSendsFin == state = "kDisconnectiong" ~> (wrShut \/ downs > 0 \/ ~Running)
=============================================================================
