---------------------------- MODULE HttpReactor -----------------------------
(***************************************************************************)
(* The threads of the two HTTP reactors: the main loop that accepts, the   *)
(* worker loops that serve, and what they share: task queues, wake-up      *)
(* sockets and descriptors.  EventLoop, ThreadPool, WorkerThread,          *)
(* TcpServer, ChannelMap and Channel of old/ReactorHttp_c (impl = "c",     *)
(* over epoll) and of old/ReactorHttp_cpp (impl = "cpp", over select).     *)
(*                                                                         *)
(* HttpConnection says what serving one request does; here it is its       *)
(* outcome, by the kind of client: "get" sends a complete GET, "body" one  *)
(* with bytes behind it, "other" a request with another method, "partial"  *)
(* half a header, "quit" the end of the connection; "stalled" sends a GET  *)
(* and never reads the answer.  A loop is woken by events or by the two    *)
(* seconds of its dispatcher's timeout.                                    *)
(***************************************************************************)
EXTENDS Integers, Sequences, FiniteSetsExt

CONSTANTS
  Clients,      \* each opens one connection
  Setups,       \* records [impl, threadNum, fds, kind]: which program runs, how
                \* many workers it starts (the programs use 4), which descriptors
                \* are left for connections, and what each client sends
  MaxThreads,   \* no setup has more workers
  Fds,          \* the descriptors of all setups
  MapSize,      \* entries of a new ChannelMap (128 in the C program)
  Sizes,        \* the sizes a ChannelMap can have: MapSize, doubled and doubled
  SelectMax,    \* descriptors select() can watch (1024)
  PairSize      \* wake-up messages a socket pair holds

Kinds == {"get", "body", "other", "partial", "quit", "stalled"}
NoOne   == "none"      \* an empty entry of the channel map
Garbage == "garbage"   \* an entry of the channel map that nobody wrote
Wake    == "wake"      \* the event of the socket pair
Listen  == "listen"    \* the event of the listening socket

(* ChannelMapAddROM(): doubled until it is no smaller than newsize; equal  *)
(* is not grown.  The memset() of the new part has length zero.            *)
Doubled(s, newsize) ==
  LET D[k \in Nat] == IF k >= newsize THEN k ELSE D[2 * k] IN D[s]

ASSUME SetupsAssumption ==
  /\ MaxThreads \in Nat
  /\ Setups \subseteq [impl : {"c", "cpp"}, threadNum : 0..MaxThreads,
                       fds : SUBSET Fds, kind : [Clients -> Kinds]]

(* 0 stands for no descriptor, as the standard streams are open.           *)
ASSUME FdsAssumption == Fds \subseteq Nat \ {0}

ASSUME ClientsAssumption == Clients \cap {NoOne, Garbage, Wake, Listen} = {}

(* Doubling a size until it is no smaller than a descriptor gives a size.  *)
ASSUME SizesAssumption ==
  /\ Sizes \subseteq Nat /\ MapSize \in Sizes
  /\ \A s \in Sizes : \A f \in Fds :
       f > s => Doubled(s, f) \in Sizes /\ Doubled(s, f) >= f

VARIABLES
  setup,     \* the setup chosen
  pc,        \* where the thread of each loop is
  ret,       \* where processTaskEventLoop() returns to
  started,   \* workers i whose thread->_EventLoop is set
  next,      \* runThreadPool()'s i while it starts the workers
  index,     \* pool->index
  lock,      \* who holds the mutex of each loop's queue
  taskQ,     \* the queue of each loop: <<type, client>>
  map, size, \* the channel map of each loop: descriptor -> client, and its size
  watched,   \* clients whose descriptor the dispatcher of each loop watches
  wake,      \* messages in the socket pair of each loop
  batch,     \* events the dispatcher of each loop has still to deliver
  accepted,  \* the connection acceptConnection() is handing over, and to whom
  fd,        \* descriptor of each connection, 0 when it has none
  conn,      \* "new", "pending", "open", "answered", "closed" or "leaked"
  sent,      \* whether each client has sent what it sends
  over       \* "no", or why there are no more steps: "failed" an assertion or
             \* a check, "died" of a request, "overrun" the array of a map

loopVars  == <<taskQ, map, size, watched, lock>>
startVars == <<started, next>>
vars == <<setup, pc, ret, startVars, index, loopVars, wake, batch,
          accepted, fd, conn, sent, over>>

impl      == setup.impl
threadNum == setup.threadNum
kind      == setup.kind

Main    == 0
Loops   == 0..MaxThreads
Free    == -1          \* nobody holds the mutex

Go(l, where) == pc' = [pc EXCEPT ![l] = where]

(* initEventLoopEx() for every loop: an empty queue, nothing to watch but  *)
(* the socket pair, an empty map.  The first block of the C map is not     *)
(* cleared by the code; it is the first of its size from a fresh heap and  *)
(* holds NULL.                                                             *)
initEventLoopEx ==
  /\ lock = [l \in Loops |-> Free]
  /\ taskQ = [l \in Loops |-> <<>>]
  /\ map = [l \in Loops |-> [f \in Fds |-> NoOne]]
  /\ size = [l \in Loops |-> MapSize]
  /\ watched = [l \in Loops |-> {}]
  /\ wake = [l \in Loops |-> 0]
  /\ batch = [l \in Loops |-> {}]

(* initThreadPool() and initWorkThread(): no worker has its loop yet.      *)
initThreadPool == started = {} /\ next = 1 /\ index = 0

(* initTcpServer(): the main loop and the pool exist, nothing runs.        *)
Init ==
  /\ setup \in Setups
  /\ pc = [l \in Loops |-> IF l = Main THEN "create" ELSE "none"]
  /\ ret = [l \in Loops |-> "wait"]
  /\ initThreadPool
  /\ initEventLoopEx
  /\ accepted = <<NoOne, Main>>
  /\ fd = [c \in Clients |-> 0]
  /\ conn = [c \in Clients |-> "new"]
  /\ sent = [c \in Clients |-> FALSE]
  /\ over = "no"

-----------------------------------------------------------------------------
(* The clients.                                                            *)
Connect(c) ==
  /\ conn[c] = "new"
  /\ conn' = [conn EXCEPT ![c] = "pending"]
  /\ UNCHANGED <<setup, pc, ret, startVars, index, loopVars, wake, batch,
                 accepted, fd, sent, over>>

Send(c) ==
  /\ conn[c] \in {"pending", "open"} /\ ~sent[c]
  /\ sent' = [sent EXCEPT ![c] = TRUE]
  /\ UNCHANGED <<setup, pc, ret, startVars, index, loopVars, wake, batch,
                 accepted, fd, conn, over>>

-----------------------------------------------------------------------------
(* Starting the workers.                                                   *)

(* One turn of runThreadPool(): initWorkThread() and pthread_create(); and *)
(* behind its loop the listening socket is added and the main loop runs.   *)
runThreadPool ==
  /\ pc[Main] = "create"
  /\ IF next <= threadNum
       THEN pc' = [pc EXCEPT ![Main] = "check", ![next] = "created"]
       ELSE Go(Main, "wait")
  /\ UNCHANGED <<setup, ret, startVars, index, loopVars, wake, batch,
                 accepted, fd, conn, sent, over>>

(* Fault: the main thread waits for the signal without looking first.      *)
runWorkThread_NoCheck ==
  /\ \/ pc[Main] = "check" /\ Go(Main, "cond") /\ UNCHANGED next
     \/ pc[Main] = "woken" /\ Go(Main, "create") /\ next' = next + 1
  /\ UNCHANGED <<setup, ret, started, index, loopVars, wake, batch,
                 accepted, fd, conn, sent, over>>

(* Fault: the main thread does not wait at all.                            *)
runWorkThread_NoWait ==
  /\ pc[Main] \in {"check", "woken"}
  /\ next' = next + 1 /\ Go(Main, "create")
  /\ UNCHANGED <<setup, ret, started, index, loopVars, wake, batch,
                 accepted, fd, conn, sent, over>>

(* runWorkThread(): under the mutex, wait while there is no loop yet.      *)
runWorkThread ==
  /\ pc[Main] \in {"check", "woken"}
  /\ IF next \in started
       THEN next' = next + 1 /\ Go(Main, "create")
       ELSE next' = next /\ Go(Main, "cond")
  /\ UNCHANGED <<setup, ret, started, index, loopVars, wake, batch,
                 accepted, fd, conn, sent, over>>

(* subThreadRuning(): the loop is made and published under the mutex; the  *)
(* signal comes behind the unlock, and then the loop runs.                 *)
subThreadRuning(w) ==
  /\ \/ /\ pc[w] = "created"
        /\ started' = started \cup {w}
        /\ Go(w, "signal")
     \/ /\ pc[w] = "signal"
        /\ pc' = [pc EXCEPT ![w] = "wait", ![Main] = IF @ = "cond" /\ next = w THEN "woken" ELSE @]
        /\ UNCHANGED started
  /\ UNCHANGED <<setup, ret, next, index, loopVars, wake, batch,
                 accepted, fd, conn, sent, over>>

-----------------------------------------------------------------------------
(* RunEventLoop(): dispatch, then the task queue.                          *)

(* The C program watches the end of the pair it writes to, so its own      *)
(* messages never make it readable.                                        *)
Ready(l) ==
  {c \in watched[l] : sent[c]}
    \cup (IF impl = "cpp" /\ wake[l] > 0 THEN {Wake} ELSE {})
    \cup (IF l = Main /\ \E c \in Clients : conn[c] = "pending" THEN {Listen} ELSE {})

(* dispatch() returns with events, or with none after two seconds; when    *)
(* there are none left to deliver processTaskEventLoop() is next.          *)
dispatch(l) ==
  /\ \/ /\ pc[l] = "wait" /\ Ready(l) # {}
        /\ batch' = [batch EXCEPT ![l] = Ready(l)]
        /\ Go(l, "events")
        /\ UNCHANGED ret
     \/ /\ (pc[l] = "wait" /\ Ready(l) = {}) \/ (pc[l] = "events" /\ batch[l] = {})
        /\ Go(l, "drain")
        /\ ret' = [ret EXCEPT ![l] = "wait"]
        /\ UNCHANGED batch
  /\ UNCHANGED <<setup, startVars, index, loopVars, wake,
                 accepted, fd, conn, sent, over>>

Taken(l, e) == pc[l] = "events" /\ e \in batch[l] /\ batch' = [batch EXCEPT ![l] = @ \ {e}]

(* EventLoop::readMessage(): one read takes every message there is.  The   *)
(* C program's readLocalMessage() is never called.                         *)
readMessage(l) ==
  /\ Taken(l, Wake)
  /\ wake' = [wake EXCEPT ![l] = 0]
  /\ UNCHANGED <<setup, pc, ret, startVars, index, loopVars,
                 accepted, fd, conn, sent, over>>

(* A DELETE goes to the loop's own queue, which is then processed inside   *)
(* of AddTaskEventLoop() or addTask().                                     *)
Delete(l, c, outcome) ==
  /\ conn' = [conn EXCEPT ![c] = outcome]
  /\ taskQ' = [taskQ EXCEPT ![l] = Append(@, <<"DELETE", c>>)]
  /\ ret' = [ret EXCEPT ![l] = "events"]
  /\ Go(l, "drain")
  /\ UNCHANGED over

(* The process ends inside of the callback.                                *)
Ends(why) == over' = why /\ UNCHANGED <<conn, taskQ, ret, pc>>

(* The callback does not return: the parser turns on half a request, or a  *)
(* blocking send() waits for a client that does not read.                  *)
Stuck(l) == Go(l, "stuck") /\ UNCHANGED <<conn, taskQ, ret, over>>

(* processRead() in C: the end of the connection is not a reason to delete *)
(* it; a request with another method ends in a call of the sendDataFunc    *)
(* that nobody set.                                                        *)
processRead_c(l, c) ==
  \/ kind[c] \in {"get", "body"} /\ Delete(l, c, "answered")
  \/ kind[c] = "other" /\ Ends("died")
  \/ kind[c] = "quit" /\ UNCHANGED <<conn, taskQ, ret, pc, over>>
  \/ kind[c] \in {"partial", "stalled"} /\ Stuck(l)

(* TcpConnection::processRead(): every read ends with a DELETE, but for a  *)
(* request with another method, whose status is not in m_info.             *)
processRead_cpp(l, c) ==
  \/ kind[c] \in {"get", "body"} /\ Delete(l, c, "answered")
  \/ kind[c] = "other" /\ Ends("died")
  \/ kind[c] \in {"partial", "quit"} /\ Delete(l, c, conn[c])
  \/ kind[c] = "stalled" /\ Stuck(l)

(* ActivateEvent(): the channel is looked up by descriptor, the assertion  *)
(* wants it to be there and to have that descriptor.                       *)
ActivateEvent(l, c) ==
  /\ impl = "c" /\ Taken(l, c) /\ lock[l] = Free
  /\ IF map[l][fd[c]] = c THEN processRead_c(l, c) ELSE Ends("failed")
  /\ UNCHANGED <<setup, startVars, index, map, size, watched, lock, wake, accepted, fd, sent>>

(* EventLoop::eventActive(), likewise; m_channelMap[fd] of a descriptor    *)
(* that is not there is a null pointer.                                    *)
eventActive(l, c) ==
  /\ impl = "cpp" /\ Taken(l, c) /\ lock[l] = Free
  /\ IF map[l][fd[c]] = c THEN processRead_cpp(l, c) ELSE Ends("failed")
  /\ UNCHANGED <<setup, startVars, index, map, size, watched, lock, wake, accepted, fd, sent>>

-----------------------------------------------------------------------------
(* acceptConnection() on the main loop.                                    *)

(* The kernel hands out the lowest free descriptor.                        *)
FreeFds == setup.fds \ {fd[c] : c \in Clients}

(* takeWorkEventLoop(): the workers in turn, the main loop if there are    *)
(* none.                                                                   *)
takeWorkEventLoop == IF threadNum > 0 THEN index + 1 ELSE Main

acceptConnection ==
  /\ pc[Main] = "events" /\ Listen \in batch[Main]
  /\ batch' = [batch EXCEPT ![Main] = @ \ {Listen}]
  /\ FreeFds # {}  \* bound: the descriptors do not run out
  /\ \E c \in Clients :
       /\ conn[c] = "pending"
       /\ conn' = [conn EXCEPT ![c] = "open"]
       /\ fd' = [fd EXCEPT ![c] = Min(FreeFds)]
       /\ accepted' = <<c, takeWorkEventLoop>>
  /\ index' = IF threadNum > 0 THEN (index + 1) % threadNum ELSE index
  /\ IF takeWorkEventLoop \in started \cup {Main}
       THEN Go(Main, "push") /\ UNCHANGED over
       ELSE over' = "failed" /\ UNCHANGED pc
  /\ UNCHANGED <<setup, ret, startVars, loopVars, wake, sent>>

(* The new connection's ADD is in the queue of loop l: the main thread's   *)
(* own queue is processed at once, another loop is woken up.               *)
Queued(l) ==
  /\ taskQ' = [taskQ EXCEPT ![l] = Append(@, <<"ADD", accepted[1]>>)]
  /\ ret' = IF l = Main THEN [ret EXCEPT ![Main] = "events"] ELSE ret
  /\ Go(Main, IF l = Main THEN "drain" ELSE "wakeup")

(* AddTaskEventLoop(), called by initTcpConnection(): the node goes in     *)
(* under the mutex that every reader of the queue takes too.               *)
AddTaskEventLoop ==
  /\ impl = "c" /\ pc[Main] = "push" /\ lock[accepted[2]] = Free
  /\ Queued(accepted[2])
  /\ UNCHANGED <<setup, startVars, index, map, size, watched, lock, wake, batch,
                 accepted, fd, conn, sent, over>>

(* EventLoop::addTask(): the mutex is taken, then the node goes in; the    *)
(* two are steps of their own as processTaskQ() looks without the mutex.   *)
addTask ==
  /\ impl = "cpp"
  /\ \/ /\ pc[Main] = "push" /\ lock[accepted[2]] = Free
        /\ lock' = [lock EXCEPT ![accepted[2]] = Main]
        /\ Go(Main, "pushing")
        /\ UNCHANGED <<taskQ, ret>>
     \/ /\ pc[Main] = "pushing"
        /\ lock' = [lock EXCEPT ![accepted[2]] = Free]
        /\ Queued(accepted[2])
  /\ UNCHANGED <<setup, startVars, index, map, size, watched, wake, batch,
                 accepted, fd, conn, sent, over>>

(* Fault: no message is written.                                           *)
taskWakeUp_None ==
  /\ pc[Main] = "wakeup"
  /\ Go(Main, "events")
  /\ UNCHANGED <<setup, ret, startVars, index, loopVars, wake, batch,
                 accepted, fd, conn, sent, over>>

(* taskWakeUp(): a blocking write into the pair.                           *)
taskWakeUp ==
  LET l == accepted[2] IN
  /\ pc[Main] = "wakeup"
  /\ wake[l] < PairSize
  /\ wake' = [wake EXCEPT ![l] = @ + 1]
  /\ Go(Main, "events")
  /\ UNCHANGED <<setup, ret, startVars, index, loopVars, batch,
                 accepted, fd, conn, sent, over>>

-----------------------------------------------------------------------------
(* The task queue.                                                         *)

(* AddEventLoop(): an entry that is not NULL is left, and the channel with *)
(* it.  A descriptor that is the doubled size (256 in the C program) has   *)
(* its entry behind the end of the array: what is there may be NULL or     *)
(* not, and what follows a store there is undefined.                       *)
AddEventLoop(l, c) ==
  /\ \/ /\ fd[c] < size[l]
        /\ UNCHANGED <<size, over>>
        /\ map' = IF map[l][fd[c]] = NoOne THEN [map EXCEPT ![l][fd[c]] = c] ELSE map
     \/ /\ fd[c] = size[l]  \* ChannelMapAddROM() returns false
        /\ UNCHANGED <<size, map, over>>
     \/ /\ fd[c] > size[l]
        /\ size' = [size EXCEPT ![l] = Doubled(@, fd[c])]
        /\ \E fresh \in [{f \in Fds : f >= size[l]} -> {NoOne, Garbage}] :
             LET grown  == [f \in Fds |-> IF f >= size[l] THEN fresh[f] ELSE map[l][f]]
                 stores == grown[fd[c]] = NoOne
                 inside == fd[c] < size'[l]
             IN  /\ map' = [map EXCEPT ![l] = IF stores /\ inside
                                                THEN [grown EXCEPT ![fd[c]] = c] ELSE grown]
                 /\ over' = IF stores /\ ~inside THEN "overrun" ELSE over
  /\ watched' = [watched EXCEPT ![l] = IF map'[l][fd[c]] = c THEN @ \cup {c} ELSE @]
  /\ UNCHANGED <<fd, conn>>

(* EventLoop::add() and SelectDispatcher::add(), which refuses what does   *)
(* not fit into an fd_set; the entry of the map stays.                     *)
add(l, c) ==
  /\ IF map[l][fd[c]] = NoOne
       THEN /\ map' = [map EXCEPT ![l][fd[c]] = c]
            /\ watched' = IF fd[c] < SelectMax THEN [watched EXCEPT ![l] = @ \cup {c}] ELSE watched
       ELSE UNCHANGED <<map, watched>>
  /\ UNCHANGED <<size, fd, conn, over>>

(* Fault: the entry of the map outlives the descriptor.                    *)
destroyChannel_KeepsEntry(l, c) == fd' = [fd EXCEPT ![c] = 0] /\ UNCHANGED map

(* destroyChannel(): the entry is cleared, then the descriptor is closed.  *)
destroyChannel(l, c) ==
  /\ map' = [map EXCEPT ![l][fd[c]] = NoOne]
  /\ fd' = [fd EXCEPT ![c] = 0]

(* EventLoop::freeChannel(): only a descriptor that is in the map.         *)
freeChannel(l, c) ==
  IF map[l][fd[c]] # NoOne
    THEN map' = [map EXCEPT ![l][fd[c]] = NoOne] /\ fd' = [fd EXCEPT ![c] = 0]
    ELSE UNCHANGED <<map, fd>>

(* The connection's destroy callback: the descriptor is released only if   *)
(* nothing is left in the buffers.                                         *)
Release(l, c, Close(_, _)) ==
  IF kind[c] \in {"get", "quit"}
    THEN Close(l, c) /\ conn' = [conn EXCEPT ![c] = "closed"]
    ELSE conn' = [conn EXCEPT ![c] = "leaked"] /\ UNCHANGED <<map, fd>>

(* Fault: the dispatcher goes on watching the descriptor.                  *)
DeleteEventLoop_NoRemove(l, c) ==
  /\ Release(l, c, destroyChannel)
  /\ UNCHANGED <<size, watched, over>>

(* DeleteEventLoop() with epollremove(), which ends the process when the   *)
(* kernel does not know the descriptor.                                    *)
DeleteEventLoop(l, c) ==
  /\ IF fd[c] >= size[l] THEN UNCHANGED <<watched, map, fd, conn, over>>
     ELSE IF c \in watched[l]
       THEN /\ watched' = [watched EXCEPT ![l] = @ \ {c}]
            /\ Release(l, c, destroyChannel) /\ UNCHANGED over
       ELSE over' = "failed" /\ UNCHANGED <<watched, map, fd, conn>>
  /\ UNCHANGED size

(* EventLoop::remove() with SelectDispatcher::remove().                    *)
remove(l, c) ==
  /\ IF map[l][fd[c]] = NoOne THEN UNCHANGED <<watched, map, fd, conn>>
     ELSE /\ watched' = [watched EXCEPT ![l] = @ \ {c}]
          /\ Release(l, c, freeChannel)
  /\ UNCHANGED <<size, over>>

(* The node at the head of the queue.                                      *)
Execute(l, Add(_, _), Remove(_, _)) ==
  LET task == Head(taskQ[l]) IN
  /\ IF task[1] = "ADD" THEN Add(l, task[2]) ELSE Remove(l, task[2])
  /\ taskQ' = [taskQ EXCEPT ![l] = Tail(@)]
  /\ UNCHANGED pc

(* processTaskEventLoop() in C: the mutex is held from the first node to   *)
(* the last.                                                               *)
processTaskEventLoop(l) ==
  /\ impl = "c" /\ pc[l] = "drain"
  /\ \/ /\ taskQ[l] # <<>> /\ lock[l] \in {Free, l}
        /\ lock' = [lock EXCEPT ![l] = l]
        /\ Execute(l, AddEventLoop, DeleteEventLoop)
     \/ /\ taskQ[l] = <<>> /\ lock[l] \in {Free, l}
        /\ lock' = [lock EXCEPT ![l] = Free]
        /\ Go(l, ret[l])
        /\ UNCHANGED <<taskQ, map, size, watched, fd, conn, over>>
  /\ UNCHANGED <<setup, ret, startVars, index, wake, batch, accepted, sent>>

(* EventLoop::processTaskQ(): the mutex is held for each front() and       *)
(* pop(), and empty() is called without it: while the main thread is       *)
(* inserting, either answer may come.                                      *)
processTaskQ(l) ==
  /\ impl = "cpp" /\ pc[l] = "drain"
  /\ \/ /\ taskQ[l] # <<>> /\ lock[l] = Free
        /\ Execute(l, add, remove)
     \/ /\ taskQ[l] = <<>>
        /\ Go(l, ret[l])
        /\ UNCHANGED <<taskQ, map, size, watched, fd, conn, over>>
  /\ UNCHANGED <<setup, ret, startVars, index, lock, wake, batch, accepted, sent>>

-----------------------------------------------------------------------------
Worker(l) ==
  \/ subThreadRuning(l)
  \/ dispatch(l) \/ readMessage(l)
  \/ \E c \in Clients : ActivateEvent(l, c) \/ eventActive(l, c)
  \/ processTaskEventLoop(l) \/ processTaskQ(l)

(* Nobody wakes the main loop up: only its own thread queues for it.       *)
MainThread ==
  \/ runThreadPool \/ runWorkThread
  \/ dispatch(Main)
  \/ \E c \in Clients : ActivateEvent(Main, c) \/ eventActive(Main, c)
  \/ acceptConnection \/ AddTaskEventLoop \/ addTask \/ taskWakeUp
  \/ processTaskEventLoop(Main) \/ processTaskQ(Main)

Thread(l) == over = "no" /\ IF l = Main THEN MainThread ELSE Worker(l)

Next ==
  \/ \E l \in Loops : Thread(l)
  \/ \E c \in Clients : over = "no" /\ (Connect(c) \/ Send(c))

(* Every thread runs when it can, and select() and epoll_wait() return     *)
(* after two seconds at the latest; clients owe nothing.                   *)
Spec == Init /\ [][Next]_vars /\ \A l \in Loops : WF_vars(Thread(l))

-----------------------------------------------------------------------------
(* The C++ loops are never asleep with work in their queue: a loop that    *)
(* waits in its dispatcher with a task queued has a wake-up message to     *)
(* read, or the thread that queued the task is about to write one.         *)
NoLostWakeup ==
  impl = "cpp" =>
    \A l \in Loops :
      (pc[l] = "wait" /\ taskQ[l] # <<>>) =>
        wake[l] > 0 \/ (pc[Main] = "wakeup" /\ accepted[2] = l)

(* "规定：socketpair[0] 写数据 socketpair[1] 收数据" and "激活子线程"          *)
(* (EventLoop.c:50, 136): one end of the pair is written, the other is     *)
(* read, and a message wakes the worker up.  A message in the pair of a    *)
(* loop that waits is an event of that loop.                               *)
WakeupSeen ==
  \A l \in Loops : (pc[l] = "wait" /\ wake[l] > 0) => Wake \in Ready(l)

(* No step of any thread meets a channel that is not there, a loop that is *)
(* not made yet, or a descriptor the kernel refuses to forget.             *)
Survives == over # "failed"

(* The three places that know of a connection agree, for every loop: what  *)
(* the dispatcher watches is in the loop's map under the descriptor the    *)
(* connection has, the descriptor is open, and no other loop has it.       *)
WatchedIsMapped ==
  \A l \in Loops : \A c \in watched[l] :
    /\ fd[c] # 0 /\ map[l][fd[c]] = c
    /\ \A k \in Loops \ {l} : c \notin watched[k]
    /\ \A b \in Clients \ {c} : fd[b] # fd[c]

(* A request with another method ended the process, or a descriptor was    *)
(* stored behind the map.                                                  *)
Gone == over \in {"died", "overrun"}

(* The worker of a client is inside of a callback that does not return.    *)
HeldUp(c) ==
  \E l \in Loops :
    /\ pc[l] = "stuck"
    /\ c \in watched[l] \/ \E j \in DOMAIN taskQ[l] : taskQ[l][j][2] = c

Servable(c) ==
  /\ kind[c] = "get" /\ conn[c] = "open" /\ sent[c]
  /\ fd[c] < (IF impl = "c" THEN MapSize ELSE SelectMax)

(* A client that sends a complete GET and reads is answered and its        *)
(* connection closed, if its descriptor fits an fd_set in C++ or the first *)
(* block of the map in C, whatever the others do short of what stops its   *)
(* worker or everybody: half a request in C or an answer that is not read  *)
(* holds the loop it came to, and a request with another method ends the   *)
(* process.                                                                *)
EveryGetServed == \A c \in Clients : Servable(c) ~> (conn[c] = "closed" \/ HeldUp(c) \/ Gone)

(* Starting the workers one after the other ends, whichever of signal and  *)
(* wait comes first, and every connection is then taken off the backlog    *)
(* unless the process ended, the main loop itself is inside of a callback  *)
(* that does not return, or it waits to write into the full socket pair of *)
(* a worker that never reads it: any worker in C, in C++ one that is       *)
(* inside of such a callback.                                              *)
EveryClientAccepted ==
  \A c \in Clients :
    conn[c] = "pending" ~>
      \/ conn[c] # "pending" \/ Gone \/ pc[Main] = "stuck"
      \/ \E l \in Loops : wake[l] = PairSize /\ (impl = "c" \/ pc[l] = "stuck")
=============================================================================
