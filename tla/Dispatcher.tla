----------------------------- MODULE Dispatcher -----------------------------
(***************************************************************************)
(* The dispatchers of the two HTTP reactors, epoll, poll and select, under *)
(* the loop that drives them: one worker's channel map, what its           *)
(* dispatcher asks the kernel to watch, the round of events it delivers,   *)
(* and the callbacks and tasks that change the map in the middle of it.    *)
(* old/ReactorHttp_c and old/ReactorHttp_cpp, Dispatcher and Channel, with *)
(* the callbacks of TcpConnection in both builds: as it stands (auto is    *)
(* FALSE) and with _SEND_MSG_AUTO defined, the only one that watches for   *)
(* writing.                                                                *)
(*                                                                         *)
(* Parsing and buffers are HttpConnection's subject, threads and wake-ups  *)
(* HttpReactor's.  Here a task comes from another thread at any time.      *)
(***************************************************************************)
EXTENDS Integers, Sequences, FiniteSetsExt, SequencesExt

CONSTANTS
  Fds,        \* descriptors, from 0
  Builds      \* records [impl, kind, auto, max]: "c" or "cpp"; "epoll", "poll" or
              \* "select"; whether _SEND_MSG_AUTO is defined; the slots of poll()'s
              \* array and the descriptors select() can watch (1024 in the code)

ASSUME BuildsAssumption ==
  Builds \subseteq [impl : {"c", "cpp"}, kind : {"epoll", "poll", "select"},
                    auto : BOOLEAN, max : Nat \ {0}]

ASSUME FdsAssumption == Fds \subseteq Nat /\ IsFiniteSet(Fds) /\ 0 \in Fds

VARIABLES
  build,      \* the build that runs
  map,        \* _channelmap: the _events of the channel of each descriptor
  epoll,      \* the interest list of the epoll instance
  slots, maxfd,        \* poll(): _fds and Maxfd
  readset, writeset,   \* select(): _readset and _writeset
  batch,      \* what epoll_wait() or select() returned, in the order it is visited
  turns,      \* how often dispatch() goes round, except in the C++ poll()
  i,          \* its loop variable
  pc, cont,   \* where the loop is, and where it goes after the tasks
  tasks,      \* the task queue: <<type, descriptor>>
  own,        \* tasks the callback has still to add
  readable, hup,       \* descriptors that can be read; that are reset
  refused,    \* channels whose add() returned -1
  leaked,     \* channels the destroy callback did not destroy
  due,        \* events of this round: reported for a channel that is still there
  last        \* the callback that has just been made

epollVars  == epoll
pollVars   == <<slots, maxfd>>
selectVars == <<readset, writeset>>
dataVars   == <<epollVars, pollVars, selectVars>>
roundVars  == <<batch, turns, i>>
kernelVars == <<readable, hup>>
vars == <<build, map, dataVars, roundVars, pc, cont, tasks, own, kernelVars,
          refused, leaked, due, last>>

Wake   == 0       \* the channel of the socket pair, the first of every loop
NoFd   == -1
NULL   == {"NULL"}  \* no channel
None   == <<NoFd, "none">>
Events == {"read", "write"}

Is(impl, kind) == build.impl = impl /\ build.kind = kind
FreeSlot == [fd |-> NoFd, events |-> {}, revents |-> {}]

-----------------------------------------------------------------------------
(* epoll.                                                                  *)

(* epollctl(): the events of the channel become the descriptor's mask.     *)
epollctl(f, events) ==
  epoll' = [epoll EXCEPT ![f] = events] /\ UNCHANGED <<pollVars, selectVars>>

epolladd(f)    == epollctl(f, map'[f]) /\ UNCHANGED refused
epollmodify(f) == epollctl(f, map[f])
epollremove(f) == epollctl(f, {})

(* epoll_ctl() fails: an ADD of what is watched, a MOD or DEL of what is   *)
(* not.  Every channel asks for reading, so no mask that is set is empty.  *)
(* The caller answers with exit(0).                                        *)
epollctlFails(type, f) ==
  /\ build.kind = "epoll"
  /\ \/ type = "ADD" /\ map[f] = NULL /\ epoll[f] # {}
     \/ type = "MODIFY" /\ map[f] # NULL /\ epoll[f] = {}
     \/ type = "DELETE" /\ epoll[f] = {}

(* What the kernel has to say of descriptor f to somebody who watches it   *)
(* for those events, when the descriptors in writable can be written.  An  *)
(* error is reported without being asked for.                              *)
Report(f, events, writable) ==
  (IF f \in readable THEN events \cap {"read"} ELSE {})
    \cup (IF f \in writable THEN events \cap {"write"} ELSE {})
    \cup (IF f \in hup /\ events # {} THEN {"err"} ELSE {})

(* Events reported to the channel of f.                                    *)
Due(report) == {d \in Fds \X Events : d[2] \in report[d[1]]}

(* epoll_wait(): every descriptor that has something to report, in any     *)
(* order; none when the two seconds are over.                              *)
epolldispatch ==
  /\ build.kind = "epoll" /\ pc = "wait"
  /\ \E writable \in SUBSET Fds :
       LET report == [f \in Fds |-> Report(f, epoll[f], writable)]
       IN  /\ \E order \in SetToSeqs({f \in Fds : report[f] # {}}) :
                /\ batch' = [k \in DOMAIN order |->
                               [fd |-> order[k], events |-> report[order[k]]]]
                /\ turns' = Len(order)
           /\ due' = Due(report)
  /\ pc' = "read" /\ i' = 0 /\ last' = None
  /\ UNCHANGED <<build, map, dataVars, cont, tasks, own, kernelVars, refused, leaked>>

-----------------------------------------------------------------------------
(* poll in C: what is found in slot k is written to slot 0, _fds->.        *)

HasSlot(fd) == \E k \in 0..(build.max - 1) : slots[k].fd = fd
SlotOf(fd)  == Min({k \in 0..(build.max - 1) : slots[k].fd = fd})

polladd(f) ==
  /\ IF HasSlot(NoFd)
       THEN /\ slots' = [slots EXCEPT ![0].fd = f, ![0].events = map'[f]]
            /\ maxfd' = Max({maxfd, SlotOf(NoFd)})
       ELSE UNCHANGED pollVars
  /\ UNCHANGED <<epollVars, selectVars, refused>>

pollremove(f) ==
  /\ slots' = IF HasSlot(f) THEN [slots EXCEPT ![0].fd = NoFd, ![0].events = {}]
                            ELSE slots
  /\ UNCHANGED <<maxfd, epollVars, selectVars>>

pollmodify(f) ==
  /\ slots' = IF HasSlot(f) THEN [slots EXCEPT ![0].events = map[f]] ELSE slots
  /\ UNCHANGED <<maxfd, epollVars, selectVars>>

(* poll() answers in the slots up to Maxfd.                                *)
Polled(writable) ==
  [k \in DOMAIN slots |->
     [slots[k] EXCEPT !.revents =
        IF k > maxfd THEN @
        ELSE IF slots[k].fd = NoFd THEN {}
        ELSE Report(slots[k].fd, slots[k].events, writable)]]

Answered(answer) ==
  /\ slots' = answer
  /\ turns' = Cardinality({k \in DOMAIN slots : answer[k].revents # {}})
  /\ due' = {d \in Fds \X Events :
               \E k \in DOMAIN slots : answer[k].fd = d[1] /\ d[2] \in answer[k].revents}

(* polldispatch() visits as many slots as poll() has counted events.       *)
polldispatch ==
  /\ Is("c", "poll") /\ pc = "wait"
  /\ \E writable \in SUBSET Fds : Answered(Polled(writable))
  /\ pc' = "read" /\ i' = 0 /\ last' = None
  /\ UNCHANGED <<build, map, epollVars, maxfd, selectVars, batch, cont, tasks, own,
                 kernelVars, refused, leaked>>

-----------------------------------------------------------------------------
(* poll in C++.                                                            *)

(* Fault: m_maxfd keeps its value.                                         *)
PollDispatcher_add_KeepsMax(f) ==
  /\ slots' = [slots EXCEPT ![SlotOf(NoFd)].fd = f, ![SlotOf(NoFd)].events = map'[f]]
  /\ UNCHANGED <<maxfd, epollVars, selectVars, refused>>

(* The first free slot, if there is one.                                   *)
PollDispatcher_add(f) ==
  /\ IF HasSlot(NoFd)
       THEN LET k == SlotOf(NoFd)
            IN  /\ slots' = [slots EXCEPT ![k].fd = f, ![k].events = map'[f]]
                /\ maxfd' = Max({k, maxfd})
                /\ UNCHANGED refused
       ELSE refused' = refused \cup {f} /\ UNCHANGED pollVars
  /\ UNCHANGED <<epollVars, selectVars>>

(* Fault: what poll() said of the old descriptor stays in the slot.        *)
PollDispatcher_remove_KeepsRevents(f) ==
  /\ slots' = IF HasSlot(f) THEN [slots EXCEPT ![SlotOf(f)].fd = NoFd,
                                               ![SlotOf(f)].events = {}]
                            ELSE slots
  /\ UNCHANGED <<maxfd, epollVars, selectVars>>

PollDispatcher_remove(f) ==
  /\ slots' = IF HasSlot(f) THEN [slots EXCEPT ![SlotOf(f)] = FreeSlot] ELSE slots
  /\ UNCHANGED <<maxfd, epollVars, selectVars>>

PollDispatcher_modify(f) ==
  /\ slots' = IF HasSlot(f) THEN [slots EXCEPT ![SlotOf(f)].events = map[f]] ELSE slots
  /\ UNCHANGED <<maxfd, epollVars, selectVars>>

(* dispatch() visits every slot up to m_maxfd, as it is when it gets there. *)
PollDispatcher_dispatch ==
  /\ Is("cpp", "poll") /\ pc = "wait"
  /\ \E writable \in SUBSET Fds : Answered(Polled(writable))
  /\ pc' = "read" /\ i' = 0 /\ last' = None
  /\ UNCHANGED <<build, map, epollVars, maxfd, selectVars, batch, cont, tasks, own,
                 kernelVars, refused, leaked>>

-----------------------------------------------------------------------------
(* select.                                                                 *)

With(set, f, event, events)    == IF event \in events THEN set \cup {f} ELSE set
Without(set, f, event, events) == IF event \in events THEN set \ {f} ELSE set

setFdSet(f, events) ==
  /\ readset' = With(readset, f, "read", events)
  /\ writeset' = With(writeset, f, "write", events)

clearFdSet(f, events) ==
  /\ readset' = Without(readset, f, "read", events)
  /\ writeset' = Without(writeset, f, "write", events)

selectadd(f) ==
  /\ IF f >= build.max
       THEN refused' = refused \cup {f} /\ UNCHANGED selectVars
       ELSE setFdSet(f, map'[f]) /\ UNCHANGED refused
  /\ UNCHANGED <<epollVars, pollVars>>

selectremove(f) == clearFdSet(f, map[f]) /\ UNCHANGED <<epollVars, pollVars>>

(* selectmodify(): what setFdSet() has put in, clearFdSet() takes out.     *)
selectmodify(f) ==
  /\ readset' = Without(With(readset, f, "read", map[f]), f, "read", map[f])
  /\ writeset' = Without(With(writeset, f, "write", map[f]), f, "write", map[f])
  /\ UNCHANGED <<epollVars, pollVars>>

Selected(rset, wset) ==
  /\ batch' = [k \in 1..build.max |->
                 [fd |-> k - 1,
                  events |-> {e \in Events : k - 1 \in (IF e = "read" THEN rset ELSE wset)}]]
  /\ turns' = build.max
  /\ pc' = "read" /\ i' = 0 /\ last' = None
  /\ UNCHANGED <<build, map, dataVars, cont, tasks, own, kernelVars, refused, leaked>>

(* selectdispatch(): the write set goes where select() expects the         *)
(* descriptors to read, and the read set where it expects those to write.  *)
selectdispatch ==
  /\ Is("c", "select") /\ pc = "wait"
  /\ \E writable \in SUBSET Fds :
       /\ Selected(readset \cap writable, writeset \cap readable)
       /\ due' = ((readset \cap writable) \X {"write"})
                   \cup ((writeset \cap readable) \X {"read"})

SelectDispatcher_dispatch ==
  /\ Is("cpp", "select") /\ pc = "wait"
  /\ \E writable \in SUBSET Fds :
       /\ Selected(readset \cap readable, writeset \cap writable)
       /\ due' = ((readset \cap readable) \X {"read"})
                   \cup ((writeset \cap writable) \X {"write"})

-----------------------------------------------------------------------------
(* The loop: its operations on a channel.                                  *)

(* add(): a descriptor that has a channel keeps it.  What the dispatcher   *)
(* returns changes nothing.                                                *)
AddEventLoop(f) ==
  IF map[f] = NULL
    THEN /\ map' = [map EXCEPT ![f] = {"read"}]
         /\ \/ build.kind = "epoll" /\ epolladd(f)
            \/ Is("c", "poll") /\ polladd(f)
            \/ Is("cpp", "poll") /\ PollDispatcher_add(f)
            \/ build.kind = "select" /\ selectadd(f)
         /\ UNCHANGED <<kernelVars, leaked, due>>
    ELSE UNCHANGED <<map, dataVars, kernelVars, refused, leaked, due>>

ModifyEventLoop(f) ==
  /\ IF map[f] = NULL
       THEN UNCHANGED dataVars
       ELSE \/ build.kind = "epoll" /\ epollmodify(f)
            \/ Is("c", "poll") /\ pollmodify(f)
            \/ Is("cpp", "poll") /\ PollDispatcher_modify(f)
            \/ build.kind = "select" /\ selectmodify(f)
  /\ UNCHANGED <<map, kernelVars, refused, leaked, due>>

(* The destroy callback: detroyTcpConnection(), ~TcpConnection().  The     *)
(* channel is given back only when both buffers are empty.                 *)
Destroy(f) ==
  \/ /\ map' = [map EXCEPT ![f] = NULL]
     /\ readable' = readable \ {f} /\ hup' = hup \ {f}
     /\ UNCHANGED leaked
  \/ /\ leaked' = leaked \cup {f}
     /\ UNCHANGED <<map, kernelVars>>

DeleteEventLoop(f) ==
  /\ \/ build.kind = "epoll" /\ epollremove(f)
     \/ Is("c", "poll") /\ pollremove(f)
     \/ Is("cpp", "poll") /\ PollDispatcher_remove(f)
     \/ build.kind = "select" /\ selectremove(f)
  /\ Destroy(f)
  /\ due' = {d \in due : d[1] # f}
  /\ UNCHANGED refused

-----------------------------------------------------------------------------
(* The loop: its tasks.                                                    *)

(* AddTaskEventLoop() on the loop's own thread, for what a callback adds;  *)
(* the queue is processed after each of them.                              *)
AddTaskEventLoop ==
  /\ pc = "add"
  /\ IF own = <<>>
       THEN /\ pc' = IF cont = "next" THEN "read" ELSE cont
            /\ i' = IF cont = "next" THEN i + 1 ELSE i
            /\ UNCHANGED <<tasks, own>>
       ELSE /\ tasks' = Append(tasks, Head(own)) /\ own' = Tail(own)
            /\ pc' = "process" /\ UNCHANGED i
  /\ last' = None
  /\ UNCHANGED <<build, map, dataVars, batch, turns, cont, kernelVars, refused,
                 leaked, due>>

Execute(after) ==
  LET type == Head(tasks)[1]
      f    == Head(tasks)[2]
  IN  /\ tasks # <<>>
      /\ IF epollctlFails(type, f)
           THEN /\ pc' = "exited"
                /\ UNCHANGED <<map, dataVars, tasks, kernelVars, refused, leaked, due>>
           ELSE /\ \/ type = "ADD" /\ AddEventLoop(f)
                   \/ type = "MODIFY" /\ ModifyEventLoop(f)
                   \/ type = "DELETE" /\ DeleteEventLoop(f)
                /\ tasks' = Tail(tasks) /\ pc' = after
      /\ UNCHANGED <<build, roundVars, cont, own, last>>

Processed ==
  /\ tasks = <<>> /\ pc' = "add"
  /\ UNCHANGED <<build, map, dataVars, roundVars, cont, tasks, own, kernelVars,
                 refused, leaked, due, last>>

(* processTaskEventLoop() in C: the whole queue under the mutex.           *)
processTaskEventLoop ==
  \/ /\ build.impl = "c" /\ pc = "process" /\ pc' = "locked"
     /\ UNCHANGED <<build, map, dataVars, roundVars, cont, tasks, own, kernelVars,
                    refused, leaked, due, last>>
  \/ pc = "locked" /\ (Execute("locked") \/ Processed)

(* processTaskQ() in C++: the mutex is held only to take a task.           *)
processTaskQ ==
  build.impl = "cpp" /\ pc = "process" /\ (Execute("process") \/ Processed)

-----------------------------------------------------------------------------
(* The loop: the callbacks.                                                *)

writeEventEnable(f, flag) ==
  map' = [map EXCEPT ![f] = IF flag THEN @ \cup {"write"} ELSE @ \ {"write"}]

(* EventLoop::readMessage(): takes the wake-up message.  The C program     *)
(* never gets to its readLocalMessage(), see Arrive.                       *)
readMessage ==
  readable' = readable \ {Wake} /\ own' = <<>> /\ UNCHANGED map

(* A callback goes on with where the loop goes after it; or it does not    *)
(* come back, once its tasks are done, and the loop stays in it.           *)
Returns(after) == cont' = after
Stays          == cont' = "stuck"

(* processRead(): a request, or the end of the connection, which in C      *)
(* without _SEND_MSG_AUTO returns with the connection in place.  On half a *)
(* request the parser in C goes on for ever, and without _SEND_MSG_AUTO    *)
(* the answer is sent from here, by a send() that blocks when the peer     *)
(* does not read.                                                          *)
processRead(f, after) ==
  \/ /\ readable' = readable \ {f}
     /\ IF build.auto
          THEN writeEventEnable(f, TRUE) /\ own' = << <<"MODIFY", f>> >>
          ELSE UNCHANGED map /\ own' = << <<"DELETE", f>> >>
     /\ Returns(after)
  \/ /\ build.impl = "c" \/ ~build.auto
     /\ readable' = readable \ {f}
     /\ IF build.auto
          THEN writeEventEnable(f, TRUE) /\ own' = << <<"MODIFY", f>> >>
          ELSE UNCHANGED map /\ own' = <<>>
     /\ Stays
  \/ /\ own' = IF build.impl = "c" /\ ~build.auto THEN <<>> ELSE << <<"DELETE", f>> >>
     /\ UNCHANGED <<map, readable>>
     /\ Returns(after)

(* processwrite(): when everything is sent the connection is over; here    *)
(* too send() may block.                                                   *)
processwrite(f, after) ==
  /\ \/ /\ writeEventEnable(f, FALSE) /\ own' = << <<"MODIFY", f>>, <<"DELETE", f>> >>
        /\ Returns(after)
     \/ own' = <<>> /\ UNCHANGED map /\ (Returns(after) \/ Stays)
  /\ UNCHANGED readable

(* ActivateEvent(), eventActive(): the channel of the descriptor is looked *)
(* up and its callback made.  Without a channel a null pointer is used;    *)
(* descriptor -1 is refused in C++ and indexes the array in C.  Reading    *)
(* where there is nothing to read blocks the thread.                       *)
eventActive(f, event, after) ==
  /\ last' = IF f = NoFd /\ build.impl = "cpp" THEN None ELSE <<f, event>>
  /\ IF f = NoFd \/ map[f] = NULL
       THEN /\ pc' = IF f = NoFd /\ build.impl = "cpp" THEN "add" ELSE "crashed"
            /\ own' = <<>> /\ Returns(after) /\ UNCHANGED <<map, readable>>
       ELSE IF event = "read" /\ f \notin readable
       THEN pc' = "blocked" /\ Returns(after) /\ UNCHANGED <<map, own, readable>>
       ELSE /\ pc' = "add"
            /\ \/ event = "read" /\ f = Wake /\ readMessage /\ Returns(after)
               \/ event = "read" /\ f # Wake /\ processRead(f, after)
               \/ event = "write" /\ processwrite(f, after)
  /\ UNCHANGED <<build, dataVars, roundVars, tasks, hup, refused, leaked, due>>

(* What dispatch() finds at turn i.                                        *)
Entry ==
  IF build.kind = "poll" THEN [fd |-> slots[i].fd, events |-> slots[i].revents]
                         ELSE batch[i + 1]

(* Fault: poll()'s last slot is left out.                                  *)
Turns_NotTheLast == IF Is("cpp", "poll") THEN maxfd ELSE turns

(* How often dispatch() goes round its loop.                               *)
Turns == IF Is("cpp", "poll") THEN maxfd + 1 ELSE turns

(* continue: epoll passes over a descriptor with an error, poll over a     *)
(* free slot.                                                              *)
Skips(entry) ==
  \/ build.kind = "epoll" /\ "err" \in entry.events
  \/ entry.fd = NoFd

Move(where, index) ==
  /\ pc' = where /\ i' = index /\ last' = None
  /\ UNCHANGED <<build, map, dataVars, batch, turns, cont, tasks, own, kernelVars,
                 refused, leaked, due>>

(* A turn of the loop of dispatch() up to the read event, and from it on.  *)
DispatchRead ==
  /\ pc = "read" /\ i < Turns
  /\ \/ Skips(Entry) /\ Move("read", i + 1)
     \/ ~Skips(Entry) /\ "read" \notin Entry.events /\ Move("write", i)
     \/ ~Skips(Entry) /\ "read" \in Entry.events /\ eventActive(Entry.fd, "read", "write")

DispatchWrite ==
  /\ pc = "write"
  /\ \/ "write" \notin Entry.events /\ Move("read", i + 1)
     \/ "write" \in Entry.events /\ eventActive(Entry.fd, "write", "next")

(* RunEventLoop(): the round is over, the tasks of other threads follow.   *)
(* What the round leaves in batch, turns and i is never read again.        *)
RunEventLoop ==
  /\ pc = "read" /\ i >= Turns
  /\ pc' = "process" /\ cont' = "wait" /\ own' = <<>>
  /\ batch' = <<>> /\ turns' = 0 /\ i' = 0
  /\ due' = {} /\ last' = None
  /\ UNCHANGED <<build, map, dataVars, tasks, kernelVars, refused, leaked>>

-----------------------------------------------------------------------------
(* Outside the loop.                                                       *)

(* The main thread accepts a connection and queues its channel; in C not   *)
(* while the worker holds the mutex, and not after the process has ended.  *)
acceptConnection(f) ==
  /\ map[f] = NULL /\ <<"ADD", f>> \notin Range(tasks)
  /\ pc \notin {"locked", "crashed", "exited"}
  /\ tasks' = Append(tasks, <<"ADD", f>>)
  /\ UNCHANGED <<build, map, dataVars, roundVars, pc, cont, own, kernelVars,
                 refused, leaked, due, last>>

(* Bytes or the end of the stream arrive; the peer resets the connection.  *)
(* Arriving in the middle of a round makes no difference before the next.  *)
(* A C loop watches the end of the pair that it writes to, where nothing   *)
(* ever arrives.                                                           *)
Arrive(f) ==
  /\ pc = "wait" /\ map[f] # NULL
  /\ f = Wake => build.impl = "cpp"
  /\ readable' = readable \cup {f}
  /\ \/ UNCHANGED hup
     \/ f # Wake /\ hup' = hup \cup {f}
  /\ UNCHANGED <<build, map, dataVars, roundVars, pc, cont, tasks, own, refused,
                 leaked, due, last>>

-----------------------------------------------------------------------------
(* The dispatcher is created and the channel of the socket pair added.     *)
epollinit  == epoll = [f \in Fds |-> IF f = Wake /\ build.kind = "epoll" THEN {"read"} ELSE {}]
pollinit   ==
  /\ slots = [k \in 0..(build.max - 1) |->
                IF k = 0 /\ build.kind = "poll"
                  THEN [FreeSlot EXCEPT !.fd = Wake, !.events = {"read"}]
                  ELSE FreeSlot]
  /\ maxfd = 0
selectinit == readset = (IF build.kind = "select" THEN {Wake} ELSE {}) /\ writeset = {}

Init ==
  /\ build \in Builds
  /\ map = [f \in Fds |-> IF f = Wake THEN {"read"} ELSE NULL]
  /\ epollinit /\ pollinit /\ selectinit
  /\ batch = <<>> /\ turns = 0 /\ i = 0
  /\ pc = "wait" /\ cont = "wait" /\ tasks = <<>> /\ own = <<>>
  /\ readable = {} /\ hup = {}
  /\ refused = {} /\ leaked = {} /\ due = {} /\ last = None

Dispatch ==
  \/ epolldispatch \/ polldispatch \/ PollDispatcher_dispatch
  \/ selectdispatch \/ SelectDispatcher_dispatch
  \/ DispatchRead \/ DispatchWrite

Loop == Dispatch \/ RunEventLoop \/ AddTaskEventLoop \/ processTaskEventLoop \/ processTaskQ

Next == Loop \/ \E f \in Fds : acceptConnection(f) \/ Arrive(f)

(* The loop's thread keeps running.                                        *)
Spec == Init /\ [][Next]_vars /\ WF_vars(Loop)

-----------------------------------------------------------------------------
(* Properties.                                                             *)

(* The dispatchers that watch what they are told to: not poll in C, which  *)
(* has one slot, nor select in C, whose sets are exchanged, nor select     *)
(* once a channel is modified.                                             *)
Keeps ==
  \/ build.kind = "epoll"
  \/ Is("cpp", "poll")
  \/ Is("cpp", "select") /\ ~build.auto

Watched(f) ==
  CASE build.kind = "epoll"  -> epoll[f]
    [] build.kind = "poll"   -> UNION {slots[k].events : k \in {k \in 0..maxfd : slots[k].fd = f}}
    [] build.kind = "select" -> {e \in Events : f \in (IF e = "read" THEN readset ELSE writeset)}

(* When the loop goes to sleep the kernel watches every channel for the    *)
(* events the channel asks for, and nothing else: after any sequence of    *)
(* add(), modify() and remove(), with slots that are reused, an array that *)
(* was full and descriptors that came back.  Left out: a channel that      *)
(* add() refused, one that the destroy callback left behind.               *)
WatchesInterest ==
  (Keeps /\ pc = "wait") =>
    \A f \in Fds :
      /\ map[f] = NULL => Watched(f) = {}
      /\ map[f] # NULL /\ f \notin refused \cup leaked => Watched(f) = map[f]

(* The builds whose rounds survive a callback that removes its channel:    *)
(* poll in C++, and the others as long as nothing waits for writing.       *)
Survives ==
  \/ Is("cpp", "poll")
  \/ ~build.auto /\ (build.kind = "epoll" \/ Is("cpp", "select"))

(* dispatch() makes a callback only for an event that the kernel reported  *)
(* in this round for this very channel: not for one that a callback of the *)
(* same round has removed, and not for a new one that has got the slot or  *)
(* the descriptor of an old one.                                           *)
CallbacksAreDue == [][Survives /\ last' # None => last' \in due]_last

(* A channel that can be read gets its read callback: no slot is left out, *)
(* no round ends early, and a callback that returns does not take the turn *)
(* of another channel.  Left out: a loop that stays in a callback, as all  *)
(* its channels then starve; and what epoll passes over because the        *)
(* connection was reset, where the comment (EpollDispatche.c:118) says     *)
(* that the descriptor is deleted and the code leaves it registered.       *)
ReadableServed ==
  \A f \in Fds :
    (Survives /\ f \in readable /\ map[f] # NULL /\ f \notin refused \cup leaked)
      ~> \/ last = <<f, "read">> \/ map[f] = NULL \/ f \in leaked
         \/ pc = "stuck"
         \/ build.kind = "epoll" /\ f \in hup
=============================================================================
