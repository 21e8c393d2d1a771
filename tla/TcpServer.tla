----------------------------- MODULE TcpServer ------------------------------
(***************************************************************************)
(* TcpServer.cc with what it is made of: Acceprot.cc, EventLoopThread.cc,  *)
(* EventLoopThreadPool.cc and Thread.cc.  The base loop (number 0) accepts *)
(* connections and keeps the map of them; each is given to one of the io   *)
(* loops in turn, or to the base loop if there are none.                   *)
(*                                                                         *)
(* Each EventLoop is used through what module FunctorQueue promises, which *)
(* module EventLoop is shown to implement: functors run one at a time, in  *)
(* the order they were queued.  Of a TcpConnection only the life cycle is  *)
(* kept; its input and output are in module TcpConnection.                 *)
(*                                                                         *)
(* A client stands for its connection, which is known to connections_ by a *)
(* name no other connection has.  channels_ of a poller is an ordinary     *)
(* unordered_map.  Two threads that change it at once race, and the race   *)
(* is modelled as one of them undoing what the other did (a damaged table  *)
(* is also possible): each reads the map in one step and writes it in the  *)
(* next.                                                                   *)
(***************************************************************************)
EXTENDS Integers, Sequences, FiniteSets

CONSTANTS Clients,        \* bound: each connects once
          SlowReaders,    \* bound: clients for which output may have to be buffered
          Fds,            \* descriptors the process may have for connections
          MaxThreads,     \* bound on setThreadNum()
          NoConn          \* no connection

ASSUME MaxThreadsAssumption == MaxThreads \in Nat
ASSUME NoConnAssumption == NoConn \notin Clients
ASSUME FdsAssumption == Fds # {}

VARIABLES
  numThreads,     \* numThreads_
  started,        \* started_
  pc,             \* base thread: in user code, inside start(), or in loop()
  thread,         \* io thread -> how far Thread::start() and threadFunc() are
  loops,          \* loops_.size()
  next,           \* next_
  listening,      \* acceptChannel_ is enabled
  backlog,        \* clients that accept() has not taken yet
  closed,         \* clients that have closed their end
  deaf,           \* connections that do not read any more
  state,          \* client -> state_ of its connection, "none" or "gone"
  fd, loop,       \* client -> descriptor and io loop of its connection
  connections,    \* connections_
  queue,          \* loop -> functors waiting in it
  registered,     \* connections whose descriptor is in an epoll set
  channels,       \* loop -> channels_ of its poller: pairs of descriptor and connection
  access,         \* thread -> change of a channels_ it is in the middle of
  guard           \* thread -> connection kept alive by handleEvent()

serverVars == <<numThreads, started, pc, thread, loops, listening>>
connVars == <<next, state, fd, loop, connections>>
pollVars == <<registered, channels, access, guard>>
vars == <<serverVars, backlog, closed, deaf, connVars, queue, pollVars>>

BaseLoop == 0
IoLoops == 1..MaxThreads
Loops == BaseLoop..MaxThreads

Alive(c) == state[c] \in {"kConnecting", "kConnected", "kDisconnected"}
Waiting == {backlog[i] : i \in 1..Len(backlog)}
FreeFds == Fds \ {fd[c] : c \in {x \in Clients : Alive(x)}}

Idle == [op |-> "none", conn |-> NoConn, seen |-> {}]

Init ==
  /\ numThreads = 0 /\ started = 0 /\ pc = "user"
  /\ thread = [t \in IoLoops |-> "none"] /\ loops = 0 /\ next = 0
  /\ listening = FALSE /\ backlog = <<>> /\ closed = {} /\ deaf = {}
  /\ state = [c \in Clients |-> "none"]
  /\ fd = [c \in Clients |-> CHOOSE f \in Fds : TRUE]
  /\ loop = [c \in Clients |-> BaseLoop]
  /\ connections = {}
  /\ queue = [l \in Loops |-> <<>>]
  /\ registered = {}
  /\ channels = [l \in Loops |-> {}]
  /\ access = [t \in Loops |-> Idle]
  /\ guard = [t \in Loops |-> NoConn]

-----------------------------------------------------------------------------
(* start(), the thread pool and its threads *)

otherThanServer == <<backlog, closed, deaf, connVars, queue, pollVars>>

setThreadNum(n) ==
  /\ pc = "user" /\ started = 0
  /\ numThreads' = n
  /\ UNCHANGED <<started, pc, thread, loops, listening, otherThanServer>>

\* start(): only the first call does anything.  Bound: two calls.
Start ==
  /\ pc = "user" /\ started < 2
  /\ started' = started + 1
  /\ pc' = IF started = 0 THEN "pool" ELSE pc
  /\ UNCHANGED <<numThreads, thread, loops, listening, otherThanServer>>

Newest == loops + 1

\* EventLoopThreadPoll::start(), Thread::start(): the next io thread.
CreateThread ==
  /\ pc = "pool" /\ loops < numThreads
  /\ thread' = [thread EXCEPT ![Newest] = "created"]
  /\ pc' = "sem"
  /\ UNCHANGED <<numThreads, started, loops, listening, otherThanServer>>

\* The new thread takes its tid and posts the semaphore.
ThreadPosts(t) ==
  /\ thread[t] = "created"
  /\ thread' = [thread EXCEPT ![t] = "running"]
  /\ UNCHANGED <<numThreads, started, pc, loops, listening, otherThanServer>>

\* Thread::start() returns from sem_wait().
SemWait ==
  /\ pc = "sem" /\ thread[Newest] # "created"
  /\ pc' = "check"
  /\ UNCHANGED <<numThreads, started, thread, loops, listening, otherThanServer>>

\* Fault: threadFunc() does not notify.
PublishSilently(t) ==
  /\ thread[t] = "running"
  /\ thread' = [thread EXCEPT ![t] = "looping"]
  /\ UNCHANGED <<numThreads, started, pc, loops, listening, otherThanServer>>

\* threadFunc(): the EventLoop exists, loop_ points to it, notify_one().
Publish(t) ==
  /\ thread[t] = "running"
  /\ thread' = [thread EXCEPT ![t] = "looping"]
  /\ pc' = IF pc = "wait" THEN "check" ELSE pc
  /\ UNCHANGED <<numThreads, started, loops, listening, otherThanServer>>

\* Fault: startLoop() does not wait for the new thread.
CheckLoopNever ==
  /\ pc = "check"
  /\ pc' = "pool" /\ loops' = loops + 1
  /\ UNCHANGED <<numThreads, started, thread, listening, otherThanServer>>

\* startLoop(): with mutex_ locked, loop_ is there, or cond_.wait().
CheckLoop ==
  /\ pc = "check"
  /\ \/ thread[Newest] = "looping" /\ pc' = "pool" /\ loops' = loops + 1
     \/ thread[Newest] # "looping" /\ pc' = "wait" /\ UNCHANGED loops
  /\ UNCHANGED <<numThreads, started, thread, listening, otherThanServer>>

\* cond_.wait() may return for no reason.
SpuriousWakeup ==
  /\ pc = "wait"
  /\ pc' = "check"
  /\ UNCHANGED <<numThreads, started, thread, loops, listening, otherThanServer>>

\* start(), on the base thread: Acceprot::listen() runs at once.
Listen ==
  /\ pc = "pool" /\ loops = numThreads
  /\ listening' = TRUE
  /\ pc' = "user"
  /\ UNCHANGED <<numThreads, started, thread, loops, otherThanServer>>

EnterLoop ==
  /\ pc = "user" /\ listening
  /\ pc' = "loop"
  /\ UNCHANGED <<numThreads, started, thread, loops, listening, otherThanServer>>

-----------------------------------------------------------------------------
(* Connections *)

\* Thread l is in its loop and between two callbacks.
Ready(l) ==
  /\ IF l = BaseLoop THEN pc = "loop" ELSE thread[l] = "looping"
  /\ access[l] = Idle /\ guard[l] = NoConn

\* Fault: next_ is not incremented.
AdvanceNever == next

\* getNextLoop(): next_ after the loop it points at was taken.
Advance == IF next + 1 >= loops THEN 0 ELSE next + 1

\* The map after channels_[fd] = channel, and after channels_.erase(fd).
Inserted(map, c) == {e \in map : e[1] # fd[c]} \cup {<<fd[c], c>>}
Erased(map, c) == {e \in map : e[1] # fd[c]}

\* newConnection() with an io loop: connectEstablished() is queued there.
NewOnIoLoop(c, f) ==
  /\ loops > 0
  /\ next' = Advance
  /\ fd' = [fd EXCEPT ![c] = f]
  /\ loop' = [loop EXCEPT ![c] = next + 1]
  /\ state' = [state EXCEPT ![c] = "kConnecting"]
  /\ queue' = [queue EXCEPT ![next + 1] = Append(@, <<"established", c>>)]
  /\ UNCHANGED pollVars

\* newConnection() without threads: connectEstablished() runs at once.
NewOnBaseLoop(c, f) ==
  /\ loops = 0
  /\ fd' = [fd EXCEPT ![c] = f]
  /\ loop' = [loop EXCEPT ![c] = BaseLoop]
  /\ state' = [state EXCEPT ![c] = "kConnected"]
  /\ registered' = registered \cup {c}
  /\ channels' = [channels EXCEPT ![BaseLoop] = {e \in @ : e[1] # f} \cup {<<f, c>>}]
  /\ UNCHANGED <<next, queue, access, guard>>

\* Acceprot::handleRead(), newConnection().
Accept(f) ==
  /\ Ready(BaseLoop) /\ listening /\ backlog # <<>>
  /\ f \in FreeFds
  /\ NewOnIoLoop(Head(backlog), f) \/ NewOnBaseLoop(Head(backlog), f)
  /\ connections' = connections \cup {Head(backlog)}
  /\ backlog' = Tail(backlog)
  /\ UNCHANGED <<serverVars, closed, deaf>>

\* Fault: on EMFILE the acceptor stops listening.
AcceptFailsForGood ==
  /\ Ready(BaseLoop) /\ listening /\ backlog # <<>> /\ FreeFds = {}
  /\ listening' = FALSE
  /\ UNCHANGED <<numThreads, started, pc, thread, loops, otherThanServer>>

\* Without a free descriptor accept() fails with EMFILE and handleRead() only
\* logs it.  The listening socket stays readable, so poll() returns at once
\* and the handler runs again.
AcceptFails ==
  /\ Ready(BaseLoop) /\ listening /\ backlog # <<>> /\ FreeFds = {}
  /\ UNCHANGED vars

\* A loop takes the functor at the head of its queue, of the given kind.
Takes(l, kind, c) ==
  /\ Ready(l) /\ queue[l] # <<>>
  /\ Head(queue[l]) = <<kind, c>>

\* connectEstablished() on an io loop: updateChannel() looks into channels_ ...
BeginEstablished(l, c) ==
  /\ Takes(l, "established", c)
  /\ queue' = [queue EXCEPT ![l] = Tail(@)]
  /\ state' = [state EXCEPT ![c] = "kConnected"]
  /\ access' = [access EXCEPT ![l] = [op |-> "insert", conn |-> c, seen |-> channels[l]]]
  /\ UNCHANGED <<serverVars, backlog, closed, deaf, next, fd, loop, connections,
                 registered, channels, guard>>

\* ... and puts the channel there, and its descriptor into the epoll set.
EndEstablished(l) ==
  /\ access[l].op = "insert"
  /\ channels' = [channels EXCEPT ![l] = Inserted(access[l].seen, access[l].conn)]
  /\ registered' = registered \cup {access[l].conn}
  /\ access' = [access EXCEPT ![l] = Idle]
  /\ UNCHANGED <<serverVars, backlog, closed, deaf, connVars, queue, guard>>

\* Fault: handleClose() leaves the channel enabled.
StillEnabled(c) == registered

\* disableAll(): the epoll sets without the connection.
Disabled(c) == registered \ {c}

\* handleWrite() of a connection whose output had to be buffered: when the
\* buffer is empty, disableWriting() clears kReadEvent in place of
\* kWriteEvent.  The channel stays registered and never reads again.
DrainOutput(l, c) ==
  /\ Ready(l) /\ loop[c] = l
  /\ c \in (SlowReaders \cap registered) \ deaf
  /\ deaf' = deaf \cup {c}
  /\ UNCHANGED <<serverVars, backlog, closed, connVars, queue, pollVars>>

\* handleClose() of a connection whose peer has closed: the channel is
\* disabled, and removeConnection() runs removeConnectionInLoop() at once on
\* the base loop's thread or queues it there.
Closes(l, c) ==
  /\ Ready(l) /\ loop[c] = l
  /\ c \in registered \cap closed
  /\ state' = [state EXCEPT ![c] = "kDisconnected"]
  /\ registered' = Disabled(c)
  /\ guard' = [guard EXCEPT ![l] = c]
  /\ IF l = BaseLoop
     THEN /\ connections' = connections \ {c}
          /\ queue' = [queue EXCEPT ![BaseLoop] = Append(@, <<"destroy", c>>)]
     ELSE /\ queue' = [queue EXCEPT ![BaseLoop] = Append(@, <<"remove", c>>)]
          /\ UNCHANGED connections
  /\ UNCHANGED <<serverVars, backlog, closed, deaf, next, fd, loop, channels, access>>

\* handleRead() reads the FIN.
HandleClose(l, c) == c \notin deaf /\ Closes(l, c)

\* Without kReadEvent the FIN is not noticed; only EPOLLHUP, which takes a
\* reset by the client, still calls handleClose().
HandleHangup(l, c) == c \in deaf /\ Closes(l, c)

\* Fault: the connection stays in connections_.
RemoveKeepsMap(c) ==
  /\ Takes(BaseLoop, "remove", c)
  /\ queue' = [queue EXCEPT ![BaseLoop] = Append(Tail(@), <<"destroy", c>>)]
  /\ UNCHANGED <<serverVars, backlog, closed, deaf, next, state, fd, loop, connections, pollVars>>

\* removeConnectionInLoop().
RemoveConnectionInLoop(c) ==
  /\ Takes(BaseLoop, "remove", c)
  /\ connections' = connections \ {c}
  /\ queue' = [queue EXCEPT ![BaseLoop] = Append(Tail(@), <<"destroy", c>>)]
  /\ UNCHANGED <<serverVars, backlog, closed, deaf, next, state, fd, loop, pollVars>>

\* connectDestroy() of a connection already closed, on the base loop whatever
\* loop the connection has: removeChannel() looks into channels_ ...
BeginDestroy(c) ==
  /\ Takes(BaseLoop, "destroy", c)
  /\ queue' = [queue EXCEPT ![BaseLoop] = Tail(@)]
  /\ access' = [access EXCEPT ![BaseLoop] =
                  [op |-> "erase", conn |-> c, seen |-> channels[loop[c]]]]
  /\ UNCHANGED <<serverVars, backlog, closed, deaf, connVars, registered, channels, guard>>

\* Owners of a connection besides a functor being run and a guard.
Held(c) ==
  \/ c \in connections
  \/ \E l \in Loops : \E i \in 1..Len(queue[l]) : queue[l][i][2] = c

\* ~TcpConnection() once its last owner is gone: the descriptor is closed.
StateAfter(c, owned) == IF owned THEN state ELSE [state EXCEPT ![c] = "gone"]

\* ... erases the channel, and the functor gives up the connection.
EndDestroy ==
  LET c == access[BaseLoop].conn
  IN  /\ access[BaseLoop].op = "erase"
      /\ channels' = [channels EXCEPT ![loop[c]] = Erased(access[BaseLoop].seen, c)]
      /\ access' = [access EXCEPT ![BaseLoop] = Idle]
      /\ state' = StateAfter(c, Held(c) \/ \E t \in Loops : guard[t] = c)
      /\ UNCHANGED <<serverVars, backlog, closed, deaf, next, fd, loop, connections, queue,
                     registered, guard>>

\* handleEvent() returns and gives up the connection.
HandlerDone(l) ==
  /\ guard[l] # NoConn
  /\ guard' = [guard EXCEPT ![l] = NoConn]
  /\ state' = StateAfter(guard[l], Held(guard[l]) \/ \E t \in Loops : access[t].conn = guard[l])
  /\ UNCHANGED <<serverVars, backlog, closed, deaf, next, fd, loop, connections, queue,
                 registered, channels, access>>

-----------------------------------------------------------------------------
(* Clients *)

Connect(c) ==
  /\ listening /\ state[c] = "none" /\ c \notin Waiting
  /\ backlog' = Append(backlog, c)
  /\ UNCHANGED <<serverVars, closed, deaf, connVars, queue, pollVars>>

ClientCloses(c) ==
  /\ c \notin closed
  /\ c \in Waiting \/ Alive(c)
  /\ closed' = closed \cup {c}
  /\ UNCHANGED <<serverVars, backlog, deaf, connVars, queue, pollVars>>

-----------------------------------------------------------------------------
StartStep == CreateThread \/ SemWait \/ CheckLoop \/ Listen

LoopStep(l) ==
  \/ \E c \in Clients : BeginEstablished(l, c) \/ HandleClose(l, c)
  \/ EndEstablished(l) \/ HandlerDone(l)

BaseStep ==
  \/ \E c \in Clients : RemoveConnectionInLoop(c) \/ BeginDestroy(c)
  \/ EndDestroy

Next ==
  \/ \E n \in 0..MaxThreads : setThreadNum(n)
  \/ Start \/ StartStep \/ SpuriousWakeup \/ EnterLoop
  \/ \E t \in IoLoops : ThreadPosts(t) \/ Publish(t)
  \/ \E f \in Fds : Accept(f)
  \/ AcceptFails
  \/ \E l \in Loops : LoopStep(l)
  \/ \E l \in Loops, c \in Clients : DrainOutput(l, c) \/ HandleHangup(l, c)
  \/ BaseStep
  \/ \E c \in Clients : Connect(c) \/ ClientCloses(c)

Spec == Init /\ [][Next]_vars

(***************************************************************************)
(* Threads keep running, main() enters the loop, every loop serves its     *)
(* functors and its channels in each of its iterations, and clients close  *)
(* some time.  Nobody has to have output buffered, and a client that       *)
(* closes need not reset its connection.                                   *)
(***************************************************************************)
Fairness ==
  /\ WF_vars(StartStep) /\ WF_vars(EnterLoop)
  /\ \A t \in IoLoops : WF_vars(ThreadPosts(t) \/ Publish(t))
  /\ WF_vars(\E f \in Fds : Accept(f))
  /\ \A l \in Loops : WF_vars(LoopStep(l))
  /\ WF_vars(BaseStep)
  /\ \A c \in Clients : WF_vars(ClientCloses(c))

FairSpec == Spec /\ Fairness

-----------------------------------------------------------------------------
(* Properties *)

\* TcpServer.cc 57-99: what an epoll set can hand out is a connection that is
\* up and that connections_ keeps alive; so no event is ever delivered to a
\* destroyed Channel, although another thread takes the connection apart.
RegisteredIsOwned ==
  \A c \in registered : state[c] = "kConnected" /\ c \in connections

\* EventLoopThread.cc 24-56, Thread.cc 26-39: a connection is given only to a
\* loop that a running thread has created.
LoopIsRunning ==
  \A c \in Clients : Alive(c) /\ loop[c] # BaseLoop => thread[loop[c]] = "looping"

GivenTo(l) == Cardinality({c \in Clients : state[c] # "none" /\ loop[c] = l})

\* EventLoopThreadPool.cc 36-49: connections are dealt out evenly; no two io
\* loops ever differ by more than one in what they were given.
EvenlyDealt ==
  \A i, j \in 1..loops : GivenTo(i) <= GivenTo(j) + 1

\* EventLoopThreadPool.cc 18-33: start() comes to listen(): neither the
\* semaphore nor the condition variable is waited for in vain.
StartListens == started > 0 ~> listening

\* TcpConnection.cc 128-137, TcpServer.cc 87-99: the descriptor of every
\* connection whose peer closes is released in the end, whichever of the two
\* threads drops the last reference.  The exception is a connection whose
\* output was ever buffered: Channel.h:55 ends its reading, and its
\* descriptor may be lost for good.
DescriptorReleased ==
  \A c \in Clients : Alive(c) /\ c \in closed ~> (state[c] = "gone" \/ c \in deaf)

\* Descriptors of connections that do not read any more.
DeafFds == {fd[c] : c \in {x \in deaf : Alive(x)}}

\* Acceprot.cc 44-67: a client that waits is served, also when descriptors
\* had run out, once earlier clients have gone; unless connections that do
\* not read any more (Channel.h:55) come to hold every descriptor.
EveryClientServed ==
  \A c \in Clients : c \in Waiting ~> (state[c] # "none" \/ DeafFds = Fds)

-----------------------------------------------------------------------------
(* What the comments in the code say of it, and it does not do. *)

\* EventLoopThread.cc:43 "创建一个独立的eventloop，和上面的线程是一一对应的" (create
\* an EventLoop of its own, which corresponds one to one to the thread above):
\* nobody else works on it, so the channels_ of its poller are those of its
\* connections.  TcpServer.cc:98 has the base thread take channels out of it.
ChannelsOfLiveConnections ==
  \A l \in Loops : \A e \in channels[l] : state[e[2]] # "gone"
=============================================================================
