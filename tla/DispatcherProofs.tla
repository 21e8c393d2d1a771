-------------------------- MODULE DispatcherProofs --------------------------
(***************************************************************************)
(* The dispatchers of the HTTP reactors, for any set of descriptors and    *)
(* any size of poll()'s array and of select()'s sets: what the kernel      *)
(* watches when the loop goes to sleep is what the channels ask for, and a *)
(* callback is made only for an event of this round.  For the builds that  *)
(* keep their word, Keeps.                                                 *)
(*                                                                         *)
(* Between two sleeps the two differ: a callback changes the mask of its   *)
(* channel and queues a task, and only the task tells the kernel.  So the  *)
(* invariant is that they agree for every channel without such a task      *)
(* (EpollInv, PollInv, SelectInv), and that there is no such task when the *)
(* loop sleeps (QueueInv).                                                 *)
(***************************************************************************)
EXTENDS Dispatcher, SequenceTheorems, FiniteSetTheorems, WellFoundedInduction, TLAPS

Places   == {"wait", "read", "write", "add", "process", "locked",
             "crashed", "blocked", "stuck", "exited"}
Conts    == {"wait", "write", "next", "stuck"}
Tasks    == {"ADD", "MODIFY", "DELETE"} \X Fds
OwnTasks == {"MODIFY", "DELETE"} \X Fds
Slots    == 0..(build.max - 1)
Slot     == [fd : Fds \cup {NoFd}, events : SUBSET Events, revents : SUBSET (Events \cup {"err"})]

TypeOK ==
  /\ map \in [Fds -> (SUBSET Events) \cup {NULL}]
  /\ epoll \in [Fds -> SUBSET Events]
  /\ slots \in [Slots -> Slot] /\ maxfd \in Slots
  /\ readset \subseteq Fds /\ writeset \subseteq Fds
  /\ turns \in Nat /\ i \in Nat
  /\ pc \in Places /\ cont \in Conts
  /\ tasks \in Seq(Tasks) /\ own \in Seq(OwnTasks)

(* The loop is behind a callback, or anywhere in the loop of dispatch().   *)
InCallback == pc \in {"add", "process", "locked"} /\ cont # "wait"
InRound    == pc \in {"read", "write"} \/ InCallback

(* The turn that the loop is at is one of this round, and its entry is for *)
(* a descriptor.                                                           *)
RoundInv ==
  /\ pc = "write" \/ InCallback => i < Turns
  /\ InRound /\ build.kind # "poll" =>
       \A k \in 1..turns : batch[k].events # {} => batch[k].fd \in Fds

(* Only a callback changes masks, and its tasks are done before the loop   *)
(* goes on, unless the process ends in one of them: outside of a callback  *)
(* the queue holds what other threads add.                                 *)
QueueInv ==
  pc # "exited" =>
    /\ pc \notin {"process", "locked"} \/ cont = "wait" =>
         \A j \in 1..Len(tasks) : tasks[j][1] = "ADD"
    /\ ~InCallback => own = <<>>

(* A task that is going to tell the kernel about f.                        *)
Pending(f) ==
  \/ \E j \in 1..Len(own) : own[j][2] = f
  \/ \E j \in 1..Len(tasks) : tasks[j][1] # "ADD" /\ tasks[j][2] = f

(* A channel that has been added, and not been left behind.                *)
Known(f) == map[f] # NULL /\ f \notin refused \cup leaked

EpollInv ==
  build.kind = "epoll" =>
    \A f \in Fds : /\ map[f] = NULL => epoll[f] = {}
                   /\ Known(f) /\ ~Pending(f) => epoll[f] = map[f]

(* A descriptor has one slot at most, and it is one that poll() looks at;  *)
(* a slot without one has nothing to report.                               *)
PollInv ==
  build.kind = "poll" =>
    /\ \A k, m \in Slots : slots[k].fd = slots[m].fd /\ slots[k].fd # NoFd => k = m
    /\ \A k \in Slots : slots[k].fd # NoFd => k <= maxfd
    /\ \A k \in Slots : slots[k].fd = NoFd => slots[k].events = {} /\ slots[k].revents = {}
    /\ \A k \in Slots : slots[k].fd # NoFd => map[slots[k].fd] # NULL
    /\ \A f \in Fds : Known(f) =>
         \E k \in Slots : slots[k].fd = f /\ (Pending(f) \/ slots[k].events = map[f])

SelectInv ==
  build.kind = "select" =>
    \A f \in Fds : (map[f] = NULL => f \notin readset) /\ (Known(f) => f \in readset)

(* Without _SEND_MSG_AUTO nobody waits for writing, no mask is changed,    *)
(* and the only task of a callback is the DELETE of its own channel.       *)
Plain == ~build.auto /\ (build.kind = "epoll" \/ Is("cpp", "select"))

PlainInv ==
  Plain =>
    /\ writeset = {}
    /\ \A f \in Fds : epoll[f] \subseteq {"read"} /\ map[f] \in {{"read"}, NULL}
    /\ \A j \in 1..Len(own) : own[j][1] # "MODIFY"
    /\ \A j \in 1..Len(tasks) : tasks[j][1] # "MODIFY"
    /\ InRound => \A k \in 1..turns : "write" \notin batch[k].events
    /\ InCallback => \A f \in Fds : Pending(f) => f = batch[i + 1].fd

(* The entries that have not been visited are still due.                   *)
DueInv ==
  /\ InRound /\ build.kind = "poll" =>
       \A k \in Slots : \A e \in slots[k].revents \cap Events : <<slots[k].fd, e>> \in due
  /\ InRound /\ Plain =>
       /\ \A k, m \in 1..turns : batch[k].fd = batch[m].fd => k = m
       /\ \A k \in 1..turns :
            k > (IF pc = "read" THEN i ELSE i + 1) /\ "read" \in batch[k].events =>
              <<batch[k].fd, "read">> \in due

KeepInv ==
  TypeOK /\ RoundInv /\ QueueInv /\ EpollInv /\ PollInv /\ SelectInv /\ PlainInv /\ DueInv

DispatchInv == build \in Builds /\ (Keeps => KeepInv)

-----------------------------------------------------------------------------
(* Sets, sequences, builds.                                                *)

\* The lowest of some numbers is one of them.
LEMMA MinIsMember ==
  ASSUME NEW S, S \subseteq Nat, S # {}
  PROVE  Min(S) \in S
<1> DEFINE Below == OpToRel(<, Nat)
<1>1. IsWellFoundedOn(Below, Nat)
  BY NatLessThanWellFounded
<1>2. \A x, y \in Nat : y < x => <<y, x>> \in Below
  BY DEF OpToRel
<1> HIDE DEF Below
<1>3. PICK x \in S : \A y \in S : ~ (<<y, x>> \in Below)
  BY <1>1, WFMin
<1>4. ASSUME NEW y \in S PROVE x <= y
  <2>1. x \in Nat /\ y \in Nat
    OBVIOUS
  <2>2. ~ (y < x)
    BY <1>2, <1>3, <2>1, Zenon
  <2> QED BY <2>1, <2>2
<1> QED BY <1>4, Zenon DEF Min

\* The higher of two numbers.
LEMMA MaxOfTwo ==
  ASSUME NEW a \in Nat, NEW b \in Nat
  PROVE  /\ Max({a, b}) \in {a, b} /\ a <= Max({a, b}) /\ b <= Max({a, b})
<1>1. \E x \in {a, b} : \A y \in {a, b} : x >= y
  <2>1. CASE a >= b
    BY <2>1
  <2>2. CASE b >= a
    BY <2>2
  <2> QED BY <2>1, <2>2
<1>2. Max({a, b}) \in {a, b} /\ \A y \in {a, b} : Max({a, b}) >= y
  BY <1>1, Zenon DEF Max
<1> QED BY <1>2

\* What the type of a queue says of its elements.
LEMMA InQueue ==
  ASSUME NEW T, NEW q \in Seq(T)
  PROVE  Len(q) \in Nat /\ \A j \in 1..Len(q) : q[j] \in T
BY LenProperties, ElementOfSeq

\* A queue without its first element.
LEMMA Shortened ==
  ASSUME NEW T, NEW q \in Seq(T), q # <<>>
  PROVE  /\ Tail(q) \in Seq(T) /\ Head(q) = q[1] /\ q[1] \in T
         /\ Len(q) \in Nat \ {0} /\ Len(Tail(q)) = Len(q) - 1
         /\ \A j \in 1..Len(Tail(q)) : Tail(q)[j] = q[j + 1]
<1>1. Tail(q) \in Seq(T) /\ Len(Tail(q)) = Len(q) - 1 /\ Len(q) \in Nat \ {0}
  BY HeadTailProperties
<1>2. \A j \in 1..Len(Tail(q)) : Tail(q)[j] = q[j + 1]
  BY <1>1, HeadTailProperties
<1>3. Head(q) = q[1] /\ q[1] \in T
  BY <1>1
<1> QED BY <1>1, <1>2, <1>3

\* A queue with one element more.
LEMMA Longer ==
  ASSUME NEW T, NEW q \in Seq(T), NEW t \in T
  PROVE  /\ Append(q, t) \in Seq(T) /\ Len(q) \in Nat /\ Len(Append(q, t)) = Len(q) + 1
         /\ Append(q, t)[Len(q) + 1] = t
         /\ \A j \in 1..Len(q) : Append(q, t)[j] = q[j]
BY AppendProperties, LenProperties

\* The builds, one by one.
LEMMA BuildFacts ==
  ASSUME build \in Builds
  PROVE  /\ build.max \in Nat \ {0} /\ build.kind \in {"epoll", "poll", "select"}
         /\ build.impl \in {"c", "cpp"} /\ Slots \subseteq Nat
         /\ Fds \subseteq Nat /\ NoFd \notin Fds /\ 0 \in Fds
         /\ Keeps => /\ build.kind = "poll" => Is("cpp", "poll")
                     /\ build.kind = "select" => Is("cpp", "select") /\ Plain
<1>1. /\ build.max \in Nat \ {0} /\ build.kind \in {"epoll", "poll", "select"}
      /\ build.impl \in {"c", "cpp"} /\ Fds \subseteq Nat /\ NoFd \notin Fds /\ 0 \in Fds
  BY BuildsAssumption, FdsAssumption DEF NoFd
<1>2. Slots \subseteq Nat
  BY <1>1 DEF Slots
<1>3. Keeps => /\ build.kind = "poll" => Is("cpp", "poll")
               /\ build.kind = "select" => Is("cpp", "select") /\ Plain
  BY <1>1 DEF Keeps, Is, Plain
<1> QED BY <1>1, <1>2, <1>3

-----------------------------------------------------------------------------
(* The entry of the turn, and the callback that is made for it.            *)

\* The entry of the turn the loop is at: its descriptor, and that its events are still due.
LEMMA EntryFacts ==
  ASSUME build \in Builds, Keeps, KeepInv, pc \in {"read", "write"}, i < Turns,
         NEW e \in Events, e \in Entry.events
  PROVE  /\ Entry.fd \in Fds
         /\ Plain => e = "read" /\ i + 1 \in 1..turns /\ Entry = batch[i + 1]
         /\ Survives /\ (pc = "read" \/ e = "write") => <<Entry.fd, e>> \in due
<1>0. /\ TypeOK /\ InRound /\ i \in Nat /\ turns \in Nat /\ maxfd \in Slots /\ Slots \subseteq Nat
  BY BuildFacts DEF KeepInv, TypeOK, InRound
<1>1. CASE build.kind = "poll"
  <2>1. Entry.fd = slots[i].fd /\ Entry.events = slots[i].revents
    BY <1>1 DEF Entry
  <2>2. Is("cpp", "poll") /\ Turns = maxfd + 1
    BY <1>1, BuildFacts DEF Turns
  <2>3. i \in Slots
    BY <1>0, <2>2, BuildFacts DEF Slots
  <2>4. slots[i].fd # NoFd
    BY <1>1, <2>1, <2>3 DEF KeepInv, PollInv
  <2>5. slots[i].fd \in Fds \cup {NoFd}
    BY <1>0, <2>3 DEF TypeOK, Slot
  <2>6. <<slots[i].fd, e>> \in due
    BY <1>0, <1>1, <2>1, <2>3 DEF KeepInv, DueInv
  <2>7. ~Plain
    BY <1>1 DEF Plain, Is
  <2> QED BY <2>1, <2>4, <2>5, <2>6, <2>7
<1>2. CASE build.kind # "poll"
  <2>1. Entry = batch[i + 1] /\ Turns = turns
    BY <1>2 DEF Entry, Turns, Is
  <2>2. i + 1 \in 1..turns
    BY <1>0, <2>1
  <2>3. Entry.fd \in Fds
    BY <1>0, <1>2, <2>1, <2>2 DEF KeepInv, RoundInv
  <2>4. Plain => e = "read"
    BY <1>0, <2>1, <2>2 DEF KeepInv, PlainInv, Events
  <2>5. Survives => Plain
    BY <1>2 DEF Survives, Plain, Is
  <2>6. Plain /\ pc = "read" => <<Entry.fd, e>> \in due
    BY <1>0, <2>1, <2>2, <2>4 DEF KeepInv, DueInv
  <2>7. Plain => e # "write"
    BY <2>4
  <2> QED BY <2>1, <2>2, <2>3, <2>4, <2>5, <2>6, <2>7
<1> QED BY <1>1, <1>2

(* A callback changes at most the mask of its own channel, and then has a  *)
(* task for it.                                                            *)
CallbackEffect(f, after) ==
  /\ \/ pc' = "crashed" /\ own' = <<>> /\ map' = map
     \/ pc' = "blocked" /\ own' = own /\ map' = map
     \/ /\ pc' = "add" /\ own' \in Seq(OwnTasks)
        /\ \A j \in 1..Len(own') : own'[j][2] = f
        /\ \/ map' = map
           \/ /\ map[f] # NULL /\ own' # <<>>
              /\ \E mask \in SUBSET Events : map' = [map EXCEPT ![f] = mask]
        /\ Plain => map' = map /\ \A j \in 1..Len(own') : own'[j][1] # "MODIFY"
  /\ cont' \in {after, "stuck"}
  /\ UNCHANGED <<build, epoll, slots, maxfd, readset, writeset, batch, turns, i, tasks,
                 refused, leaked, due>>

\* eventActive() changes the mask of its channel at most, and its tasks are about that channel.
LEMMA CallbackDoes ==
  ASSUME build \in Builds, Keeps, KeepInv, pc \in {"read", "write"}, i < Turns,
         NEW e \in Events, e \in Entry.events, NEW after, eventActive(Entry.fd, e, after)
  PROVE  CallbackEffect(Entry.fd, after) /\ last' = <<Entry.fd, e>>
<1>1. PICK f \in Fds : f = Entry.fd
  BY EntryFacts
<1>2. f # NoFd /\ (Plain => e = "read")
  BY <1>1, EntryFacts, BuildFacts
<1>3. eventActive(f, e, after)
  BY <1>1
<1>4. /\ last' = <<f, e>> /\ cont' \in {after, "stuck"}
      /\ UNCHANGED <<build, epoll, slots, maxfd, readset, writeset, batch, turns, i, tasks,
                     refused, leaked, due>>
  <2>1. /\ last' = <<f, e>>
        /\ UNCHANGED <<build, epoll, slots, maxfd, readset, writeset, batch, turns, i, tasks,
                       refused, leaked, due>>
    BY <1>2, <1>3 DEF eventActive, dataVars, epollVars, pollVars, selectVars, roundVars
  <2>2. cont' \in {after, "stuck"}
    BY <1>2, <1>3 DEF eventActive, processRead, processwrite, Returns, Stays
  <2> QED BY <2>1, <2>2
<1>5. map \in [Fds -> (SUBSET Events) \cup {NULL}]
  BY DEF KeepInv, TypeOK
<1>6. CASE map[f] = NULL
  BY <1>1, <1>2, <1>3, <1>4, <1>6 DEF eventActive, CallbackEffect
<1>7. CASE map[f] # NULL /\ e = "read" /\ f \notin readable
  BY <1>1, <1>2, <1>3, <1>4, <1>7 DEF eventActive, CallbackEffect
<1>8. CASE map[f] # NULL /\ ~ (e = "read" /\ f \notin readable)
  <2>1. /\ pc' = "add"
        /\ \/ e = "read" /\ f = Wake /\ readMessage
           \/ e = "read" /\ f # Wake /\ processRead(f, after)
           \/ e = "write" /\ processwrite(f, after)
    BY <1>2, <1>3, <1>8 DEF eventActive
  <2>2. /\ <<>> \in Seq(OwnTasks) /\ << <<"MODIFY", f>> >> \in Seq(OwnTasks)
        /\ << <<"DELETE", f>> >> \in Seq(OwnTasks)
        /\ << <<"MODIFY", f>>, <<"DELETE", f>> >> \in Seq(OwnTasks)
    BY DEF OwnTasks
  <2>3. \/ own' = <<>> /\ map' = map
        \/ /\ own' = << <<"MODIFY", f>> >> /\ ~Plain
           /\ map' = [map EXCEPT ![f] = @ \cup {"write"}]
        \/ own' = << <<"DELETE", f>> >> /\ map' = map
        \/ /\ own' = << <<"MODIFY", f>>, <<"DELETE", f>> >> /\ ~Plain
           /\ map' = [map EXCEPT ![f] = @ \ {"write"}]
    BY <1>2, <2>1 DEF readMessage, processRead, processwrite, writeEventEnable, Plain
  <2>4. /\ own' \in Seq(OwnTasks) /\ \A j \in 1..Len(own') : own'[j][2] = f
        /\ map' # map => own' # <<>>
        /\ Plain => map' = map /\ \A j \in 1..Len(own') : own'[j][1] # "MODIFY"
    <3>1. CASE own' = <<>> /\ map' = map
      BY <2>2, <3>1
    <3>2. CASE own' = << <<"MODIFY", f>> >> /\ ~Plain
      BY <2>2, <3>2
    <3>3. CASE own' = << <<"DELETE", f>> >> /\ map' = map
      BY <2>2, <3>3
    <3>4. CASE own' = << <<"MODIFY", f>>, <<"DELETE", f>> >> /\ ~Plain
      BY <2>2, <3>4
    <3> QED BY <2>3, <3>1, <3>2, <3>3, <3>4
  <2>5. map' = map \/ \E mask \in SUBSET Events : map' = [map EXCEPT ![f] = mask]
    <3>0. map[f] \in (SUBSET Events) \cup {NULL}
      BY <1>5
    <3>1. map[f] \in SUBSET Events
      BY <1>8, <3>0, Zenon
    <3>2. map[f] \cup {"write"} \in SUBSET Events /\ map[f] \ {"write"} \in SUBSET Events
      BY <3>1 DEF Events
    <3> QED BY <1>5, <2>3, <3>2
  <2> QED BY <1>1, <1>4, <1>8, <2>1, <2>4, <2>5 DEF CallbackEffect
<1> QED BY <1>1, <1>4, <1>6, <1>7, <1>8

-----------------------------------------------------------------------------
(* The kinds of steps of a build that keeps its word.                      *)

tables == <<build, map, epoll, slots, maxfd, readset, writeset, refused, leaked>>

Begin == epolldispatch \/ PollDispatcher_dispatch \/ SelectDispatcher_dispatch

TurnEffect ==
  /\ pc \in {"read", "write"} /\ i < Turns
  /\ \/ pc' = "read" /\ i' = i + 1
     \/ pc = "read" /\ pc' = "write" /\ i' = i
  /\ UNCHANGED <<tables, batch, turns, cont, tasks, own, due>> /\ last' = None

CallbackStep ==
  /\ pc \in {"read", "write"} /\ i < Turns
  /\ \E e \in Events :
       /\ e \in Entry.events /\ (pc = "read" \/ e = "write") /\ last' = <<Entry.fd, e>>
       /\ CallbackEffect(Entry.fd, IF pc = "read" THEN "write" ELSE "next")

PlaceEffect ==
  /\ pc \in {"process", "locked"}
  /\ pc' \in {"locked", "exited"} \/ (pc' = "add" /\ tasks = <<>>)
  /\ UNCHANGED <<tables, batch, turns, i, cont, tasks, own, due, last>>

TaskEffect == pc \in {"process", "locked"} /\ Execute(pc) /\ pc' = pc

\* A task is carried out, or the process ends because epoll_ctl() failed.
LEMMA ExecuteDoes ==
  ASSUME pc \in {"process", "locked"}, Execute(pc)
  PROVE  TaskEffect \/ PlaceEffect
<1>1. CASE epollctlFails(Head(tasks)[1], Head(tasks)[2])
  BY <1>1 DEF Execute, PlaceEffect, tables, dataVars, epollVars, pollVars, selectVars, roundVars
<1>2. CASE ~epollctlFails(Head(tasks)[1], Head(tasks)[2])
  BY <1>2 DEF Execute, TaskEffect
<1> QED BY <1>1, <1>2

\* Every step is one of these.
LEMMA Steps ==
  ASSUME build \in Builds, Keeps, KeepInv, Next
  PROVE  \/ Begin \/ TurnEffect \/ CallbackStep \/ RunEventLoop \/ AddTaskEventLoop
         \/ TaskEffect \/ PlaceEffect
         \/ \E f \in Fds : acceptConnection(f) \/ Arrive(f)
<1>0. "read" \in Events /\ "write" \in Events
  BY DEF Events
<1>1. CASE epolldispatch \/ PollDispatcher_dispatch \/ SelectDispatcher_dispatch
  BY <1>1 DEF Begin
<1>2. CASE polldispatch \/ selectdispatch
  BY <1>2, BuildFacts DEF polldispatch, selectdispatch, Is
<1>3. CASE DispatchRead
  <2>1. CASE "read" \in Entry.events /\ eventActive(Entry.fd, "read", "write")
    <3>1. CallbackEffect(Entry.fd, "write") /\ last' = <<Entry.fd, "read">>
      BY <1>0, <1>3, <2>1, CallbackDoes DEF DispatchRead
    <3> QED BY <1>0, <1>3, <2>1, <3>1 DEF DispatchRead, CallbackStep
  <2>2. CASE Move("read", i + 1) \/ Move("write", i)
    BY <1>3, <2>2 DEF DispatchRead, Move, TurnEffect, tables, dataVars, epollVars, pollVars,
       selectVars
  <2> QED BY <1>3, <2>1, <2>2 DEF DispatchRead
<1>4. CASE DispatchWrite
  <2>0. pc = "write" /\ i < Turns
    BY <1>4 DEF DispatchWrite, KeepInv, RoundInv
  <2>1. CASE "write" \in Entry.events /\ eventActive(Entry.fd, "write", "next")
    <3>1. CallbackEffect(Entry.fd, "next") /\ last' = <<Entry.fd, "write">>
      BY <1>0, <2>0, <2>1, CallbackDoes
    <3> QED BY <1>0, <2>0, <2>1, <3>1 DEF CallbackStep
  <2>2. CASE Move("read", i + 1)
    BY <2>0, <2>2 DEF Move, TurnEffect, tables, dataVars, epollVars, pollVars, selectVars
  <2> QED BY <1>4, <2>1, <2>2 DEF DispatchWrite
<1>5. CASE processTaskEventLoop
  <2>1. CASE pc = "locked" /\ Execute("locked")
    BY <2>1, ExecuteDoes
  <2> QED BY <1>5, <2>1 DEF processTaskEventLoop, Processed, PlaceEffect, tables, dataVars,
             epollVars, pollVars, selectVars, roundVars
<1>6. CASE processTaskQ
  <2>1. CASE pc = "process" /\ Execute("process")
    BY <2>1, ExecuteDoes
  <2> QED BY <1>6, <2>1 DEF processTaskQ, Processed, PlaceEffect, tables, dataVars,
             epollVars, pollVars, selectVars, roundVars
<1> QED BY <1>1, <1>2, <1>3, <1>4, <1>5, <1>6 DEF Next, Loop, Dispatch

(* What a task does outside of the dispatcher's own table.                 *)
TaskFrame(f) ==
  /\ tasks # <<>> /\ tasks' = Tail(tasks) /\ pc' = pc /\ f = tasks[1][2]
  /\ UNCHANGED <<build, batch, turns, i, cont, own, last>>
  /\ \/ tasks[1][1] = "ADD" /\ AddEventLoop(f)
     \/ tasks[1][1] = "MODIFY" /\ ModifyEventLoop(f)
     \/ tasks[1][1] = "DELETE" /\ DeleteEventLoop(f)

\* A task that is carried out is about one descriptor.
LEMMA TaskDoes ==
  ASSUME TypeOK, TaskEffect
  PROVE  \E f \in Fds : TaskFrame(f)
<1>1. tasks \in Seq(Tasks) /\ tasks # <<>>
  BY DEF TypeOK, TaskEffect, Execute
<1>2. Head(tasks) = tasks[1] /\ tasks[1] \in Tasks
  BY <1>1, Shortened
<1>3. PICK f \in Fds : f = tasks[1][2]
  BY <1>2 DEF Tasks
<1>4. TaskFrame(f)
  BY <1>1, <1>2, <1>3 DEF TaskEffect, Execute, TaskFrame, roundVars
<1> QED BY <1>4

\* The channel map and what is set aside, after a task.
LEMMA TaskOnMap ==
  ASSUME TypeOK, NEW f \in Fds, TaskFrame(f)
  PROVE  /\ \A g \in Fds \ {f} : map'[g] = map[g]
         /\ \A g \in Fds \ {f} : g \in refused' \cup leaked' <=> g \in refused \cup leaked
         /\ refused \subseteq refused' /\ leaked \subseteq leaked'
         /\ tasks[1][1] = "ADD" =>
              (IF map[f] = NULL THEN map' = [map EXCEPT ![f] = {"read"}] ELSE map' = map)
         /\ tasks[1][1] = "MODIFY" => map' = map /\ refused' = refused /\ leaked' = leaked
         /\ tasks[1][1] = "DELETE" => \/ map' = [map EXCEPT ![f] = NULL]
                                      \/ map' = map /\ f \in leaked'
         /\ map' \in [Fds -> (SUBSET Events) \cup {NULL}]
<1>1. map \in [Fds -> (SUBSET Events) \cup {NULL}]
  BY DEF TypeOK
<1>2. CASE tasks[1][1] = "ADD" /\ AddEventLoop(f)
  <2>1. /\ IF map[f] = NULL THEN map' = [map EXCEPT ![f] = {"read"}] ELSE map' = map
        /\ leaked' = leaked /\ (refused' = refused \/ refused' = refused \cup {f})
    BY <1>2 DEF AddEventLoop, epolladd, polladd, PollDispatcher_add, selectadd, dataVars
  <2>2. {"read"} \in SUBSET Events
    BY DEF Events
  <2>3. map' \in [Fds -> (SUBSET Events) \cup {NULL}]
    BY <1>1, <2>1, <2>2
  <2> QED BY <1>1, <1>2, <2>1, <2>3
<1>3. CASE tasks[1][1] = "MODIFY" /\ ModifyEventLoop(f)
  BY <1>1, <1>3 DEF ModifyEventLoop
<1>4. CASE tasks[1][1] = "DELETE" /\ DeleteEventLoop(f)
  <2>1. /\ refused' = refused
        /\ \/ map' = [map EXCEPT ![f] = NULL] /\ leaked' = leaked
           \/ map' = map /\ leaked' = leaked \cup {f}
    BY <1>4 DEF DeleteEventLoop, Destroy
  <2> QED BY <1>1, <1>4, <2>1
<1> QED BY <1>2, <1>3, <1>4 DEF TaskFrame

\* After a task the same tasks are pending for every other channel, and after an ADD for
\* every channel.
LEMMA TaskPending ==
  ASSUME TypeOK, NEW f \in Fds, TaskFrame(f), NEW g \in Fds, g # f \/ tasks[1][1] = "ADD"
  PROVE  Pending(g)' <=> Pending(g)
<1>1. /\ tasks \in Seq(Tasks) /\ tasks # <<>> /\ tasks' = Tail(tasks) /\ own' = own
      /\ f = tasks[1][2]
  BY DEF TypeOK, TaskFrame
<1>2. /\ Len(tasks) \in Nat \ {0} /\ Len(tasks') = Len(tasks) - 1
      /\ \A j \in 1..Len(tasks') : tasks'[j] = tasks[j + 1]
  BY <1>1, Shortened
<1>3. ASSUME NEW j \in 1..Len(tasks'), tasks'[j][1] # "ADD", tasks'[j][2] = g
      PROVE  \E k \in 1..Len(tasks) : tasks[k][1] # "ADD" /\ tasks[k][2] = g
  <2>1. j + 1 \in 1..Len(tasks)
    BY <1>2
  <2> QED BY <1>2, <1>3, <2>1
<1>4. ASSUME NEW k \in 1..Len(tasks), tasks[k][1] # "ADD", tasks[k][2] = g
      PROVE  \E j \in 1..Len(tasks') : tasks'[j][1] # "ADD" /\ tasks'[j][2] = g
  <2>1. k # 1
    BY <1>1, <1>4
  <2>2. PICK j \in 1..Len(tasks') : k = j + 1
    BY <1>2, <2>1
  <2> QED BY <1>2, <1>4, <2>2
<1> QED BY <1>1, <1>3, <1>4 DEF Pending

-----------------------------------------------------------------------------
(* The tables of the dispatchers, after a task.                            *)

\* The slot that is looked for is found.
LEMMA SlotFound ==
  ASSUME build \in Builds, NEW x
  PROVE  IF HasSlot(x) THEN SlotOf(x) \in Slots /\ slots[SlotOf(x)].fd = x
                       ELSE \A k \in Slots : slots[k].fd # x
<1>1. CASE HasSlot(x)
  <2> DEFINE S == {k \in 0..(build.max - 1) : slots[k].fd = x}
  <2>1. S \subseteq Nat /\ S # {}
    BY <1>1, BuildFacts DEF HasSlot
  <2>2. Min(S) \in S
    BY <2>1, MinIsMember
  <2> QED BY <1>1, <2>2 DEF SlotOf, Slots
<1>2. CASE ~HasSlot(x)
  BY <1>2 DEF HasSlot, Slots
<1> QED BY <1>1, <1>2

(* PollDispatcher::add(), modify(), remove().                              *)
PollEffect(f) ==
  \/ /\ slots' = slots /\ maxfd' = maxfd
     /\ tasks[1][1] = "ADD" /\ map[f] = NULL => f \in refused'
     /\ tasks[1][1] # "ADD" /\ map[f] # NULL => \A k \in Slots : slots[k].fd # f
  \/ \E k \in Slots, s \in Slot :
       /\ tasks[1][1] = "ADD" /\ map[f] = NULL /\ slots[k].fd = NoFd
       /\ s.fd = f /\ s.events = {"read"} /\ s.revents = slots[k].revents
       /\ slots' = [slots EXCEPT ![k] = s]
       /\ maxfd' \in {k, maxfd} /\ k <= maxfd' /\ maxfd <= maxfd'
  \/ \E k \in Slots, s \in Slot :
       /\ tasks[1][1] = "MODIFY" /\ map[f] # NULL /\ slots[k].fd = f
       /\ s.fd = f /\ s.events = map[f] /\ s.revents = slots[k].revents
       /\ slots' = [slots EXCEPT ![k] = s] /\ maxfd' = maxfd
  \/ \E k \in Slots :
       /\ tasks[1][1] = "DELETE" /\ slots[k].fd = f
       /\ slots' = [slots EXCEPT ![k] = FreeSlot] /\ maxfd' = maxfd

\* What a task does to the slots of poll().
LEMMA PollTask ==
  ASSUME build \in Builds, Keeps, KeepInv, build.kind = "poll", NEW f \in Fds, TaskFrame(f)
  PROVE  PollEffect(f)
<1>0. /\ Is("cpp", "poll") /\ ~Is("c", "poll") /\ build.kind # "epoll" /\ build.kind # "select"
      /\ slots \in [Slots -> Slot] /\ maxfd \in Nat /\ Slots \subseteq Nat
      /\ map \in [Fds -> (SUBSET Events) \cup {NULL}]
  BY BuildFacts DEF Is, KeepInv, TypeOK
<1>1. CASE tasks[1][1] = "ADD" /\ AddEventLoop(f)
  <2>1. CASE map[f] # NULL
    BY <1>1, <2>1 DEF AddEventLoop, dataVars, pollVars, PollEffect
  <2>2. CASE map[f] = NULL
    <3>1. map' = [map EXCEPT ![f] = {"read"}] /\ PollDispatcher_add(f)
      BY <1>0, <1>1, <2>2 DEF AddEventLoop
    <3>2. map'[f] = {"read"}
      BY <1>0, <3>1
    <3>3. CASE HasSlot(NoFd)
      <4>1. PICK k \in Slots : k = SlotOf(NoFd) /\ slots[k].fd = NoFd
        BY <3>3, SlotFound
      <4>2. /\ slots' = [slots EXCEPT ![k].fd = f, ![k].events = map'[f]]
            /\ maxfd' = Max({k, maxfd})
        BY <3>1, <3>3, <4>1 DEF PollDispatcher_add
      <4>3. {"read"} \in SUBSET Events
        BY DEF Events
      <4>4. slots[k] \in Slot
        BY <1>0
      <4> DEFINE s == [slots[k] EXCEPT !.fd = f, !.events = {"read"}]
      <4>7. s \in Slot /\ s.fd = f /\ s.events = {"read"} /\ s.revents = slots[k].revents
        BY <4>3, <4>4 DEF Slot
      <4>8. slots' = [slots EXCEPT ![k] = s]
        BY <1>0, <3>2, <4>2
      <4>5. k \in Nat
        BY <1>0
      <4>6. maxfd' \in {k, maxfd} /\ k <= maxfd' /\ maxfd <= maxfd'
        BY <1>0, <4>2, <4>5, MaxOfTwo
      <4> HIDE DEF s
      <4> QED BY <1>1, <2>2, <4>1, <4>7, <4>8, <4>6 DEF PollEffect
    <3>4. CASE ~HasSlot(NoFd)
      BY <1>1, <3>1, <3>4 DEF PollDispatcher_add, pollVars, PollEffect
    <3> QED BY <3>3, <3>4
  <2> QED BY <2>1, <2>2
<1>2. CASE tasks[1][1] = "MODIFY" /\ ModifyEventLoop(f)
  <2>1. CASE map[f] = NULL
    BY <1>2, <2>1 DEF ModifyEventLoop, dataVars, pollVars, PollEffect
  <2>2. CASE map[f] # NULL
    <3>1. PollDispatcher_modify(f)
      BY <1>0, <1>2, <2>2 DEF ModifyEventLoop
    <3>2. CASE HasSlot(f)
      <4>1. PICK k \in Slots : k = SlotOf(f) /\ slots[k].fd = f
        BY <3>2, SlotFound
      <4>2. slots' = [slots EXCEPT ![k].events = map[f]] /\ maxfd' = maxfd
        BY <3>1, <3>2, <4>1 DEF PollDispatcher_modify
      <4>3. map[f] \in SUBSET Events
        <5>1. map[f] \in (SUBSET Events) \cup {NULL}
          BY <1>0
        <5> QED BY <2>2, <5>1, Zenon
      <4>4. slots[k] \in Slot
        BY <1>0
      <4> DEFINE s == [slots[k] EXCEPT !.events = map[f]]
      <4>7. s \in Slot /\ s.fd = f /\ s.events = map[f] /\ s.revents = slots[k].revents
        BY <4>1, <4>3, <4>4 DEF Slot
      <4>8. slots' = [slots EXCEPT ![k] = s]
        BY <1>0, <4>2
      <4> HIDE DEF s
      <4> QED BY <1>2, <2>2, <4>1, <4>2, <4>7, <4>8 DEF PollEffect
    <3>3. CASE ~HasSlot(f)
      <4>1. \A k \in Slots : slots[k].fd # f
        BY <3>3, SlotFound
      <4> QED BY <1>2, <3>1, <3>3, <4>1 DEF PollDispatcher_modify, PollEffect
    <3> QED BY <3>2, <3>3
  <2> QED BY <2>1, <2>2
<1>3. CASE tasks[1][1] = "DELETE" /\ DeleteEventLoop(f)
  <2>1. PollDispatcher_remove(f)
    BY <1>0, <1>3 DEF DeleteEventLoop
  <2>2. CASE HasSlot(f)
    <3>1. PICK k \in Slots : k = SlotOf(f) /\ slots[k].fd = f
      BY <2>2, SlotFound
    <3> QED BY <1>3, <2>1, <2>2, <3>1 DEF PollDispatcher_remove, PollEffect
  <2>3. CASE ~HasSlot(f)
    <3>1. \A k \in Slots : slots[k].fd # f
      BY <2>3, SlotFound
    <3> QED BY <1>3, <2>1, <2>3, <3>1 DEF PollDispatcher_remove, PollEffect
  <2> QED BY <2>2, <2>3
<1> QED BY <1>1, <1>2, <1>3 DEF TaskFrame

(* epolladd(), epollmodify(), epollremove().                               *)
EpollEffect(f) ==
  \/ epoll' = epoll /\ map[f] = NULL /\ tasks[1][1] = "MODIFY"
  \/ epoll' = epoll /\ map[f] # NULL /\ tasks[1][1] = "ADD"
  \/ epoll' = [epoll EXCEPT ![f] = {"read"}] /\ map[f] = NULL /\ tasks[1][1] = "ADD"
  \/ epoll' = [epoll EXCEPT ![f] = map[f]] /\ map[f] # NULL /\ tasks[1][1] = "MODIFY"
  \/ epoll' = [epoll EXCEPT ![f] = {}] /\ tasks[1][1] = "DELETE"

\* What it does to the interest list of epoll.
LEMMA EpollTask ==
  ASSUME build.kind = "epoll", TypeOK, NEW f \in Fds, TaskFrame(f)
  PROVE  EpollEffect(f)
<1>0. map \in [Fds -> (SUBSET Events) \cup {NULL}] /\ ~Is("c", "poll") /\ ~Is("cpp", "poll")
  BY DEF TypeOK, Is
<1>1. CASE tasks[1][1] = "ADD" /\ AddEventLoop(f)
  <2>1. CASE map[f] # NULL
    BY <1>1, <2>1 DEF AddEventLoop, dataVars, epollVars, EpollEffect
  <2>2. CASE map[f] = NULL
    <3>1. map' = [map EXCEPT ![f] = {"read"}] /\ epolladd(f)
      BY <1>0, <1>1, <2>2 DEF AddEventLoop
    <3>2. map'[f] = {"read"}
      BY <1>0, <3>1
    <3> QED BY <1>1, <2>2, <3>1, <3>2 DEF epolladd, epollctl, EpollEffect
  <2> QED BY <2>1, <2>2
<1>2. CASE tasks[1][1] = "MODIFY" /\ ModifyEventLoop(f)
  BY <1>0, <1>2 DEF ModifyEventLoop, dataVars, epollVars, epollmodify, epollctl, EpollEffect
<1>3. CASE tasks[1][1] = "DELETE" /\ DeleteEventLoop(f)
  BY <1>0, <1>3 DEF DeleteEventLoop, epollremove, epollctl, EpollEffect
<1> QED BY <1>1, <1>2, <1>3 DEF TaskFrame

(* SelectDispatcher::add() and remove(); without _SEND_MSG_AUTO nothing is *)
(* modified.                                                               *)
SelectEffect(f) ==
  /\ writeset' = {}
  /\ \/ /\ readset' = readset /\ tasks[1][1] = "ADD"
        /\ map[f] = NULL => f \in refused'
     \/ readset' = readset \cup {f} /\ tasks[1][1] = "ADD" /\ map[f] = NULL
     \/ readset' = readset \ {f} /\ tasks[1][1] = "DELETE"

\* What it does to the sets of select().
LEMMA SelectTask ==
  ASSUME build \in Builds, Keeps, KeepInv, build.kind = "select", NEW f \in Fds, TaskFrame(f)
  PROVE  SelectEffect(f)
<1>0. /\ ~Is("c", "poll") /\ ~Is("cpp", "poll") /\ build.kind # "epoll" /\ Plain
      /\ map \in [Fds -> (SUBSET Events) \cup {NULL}] /\ tasks \in Seq(Tasks)
      /\ writeset = {} /\ map[f] \in {{"read"}, NULL} /\ readset \subseteq Fds
  BY BuildFacts DEF Is, KeepInv, TypeOK, PlainInv
<1>1. CASE tasks[1][1] = "ADD" /\ AddEventLoop(f)
  <2>1. CASE map[f] # NULL
    BY <1>0, <1>1, <2>1 DEF AddEventLoop, dataVars, selectVars, SelectEffect
  <2>2. CASE map[f] = NULL
    <3>1. map' = [map EXCEPT ![f] = {"read"}] /\ selectadd(f)
      BY <1>0, <1>1, <2>2 DEF AddEventLoop
    <3>2. map'[f] = {"read"}
      BY <1>0, <3>1
    <3>3. CASE f >= build.max
      BY <1>0, <1>1, <3>1, <3>3 DEF selectadd, selectVars, SelectEffect
    <3>4. CASE ~ (f >= build.max)
      BY <1>0, <1>1, <2>2, <3>1, <3>2, <3>4 DEF selectadd, setFdSet, With, SelectEffect
    <3> QED BY <3>3, <3>4
  <2> QED BY <2>1, <2>2
<1>2. CASE tasks[1][1] = "MODIFY"
  <2>1. 1 \in 1..Len(tasks)
    BY <1>0, Shortened DEF TaskFrame
  <2> QED BY <1>0, <1>2, <2>1 DEF KeepInv, PlainInv
<1>3. CASE tasks[1][1] = "DELETE" /\ DeleteEventLoop(f)
  <2>1. selectremove(f)
    BY <1>0, <1>3 DEF DeleteEventLoop
  <2>2. readset' = Without(readset, f, "read", map[f]) /\ writeset' = {}
    BY <1>0, <2>1 DEF selectremove, clearFdSet, Without
  <2>3. CASE map[f] = {"read"}
    BY <1>3, <2>2, <2>3 DEF Without, SelectEffect
  <2>4. CASE map[f] = NULL
    <3>1. f \notin readset
      BY <2>4 DEF KeepInv, SelectInv
    <3>2. readset' = readset
      BY <2>2, <2>4 DEF Without, NULL
    <3> QED BY <1>3, <2>2, <3>1, <3>2 DEF SelectEffect
  <2> QED BY <1>0, <2>3, <2>4
<1> QED BY <1>1, <1>2, <1>3 DEF TaskFrame

-----------------------------------------------------------------------------
(* What epoll_wait(), poll() and select() leave for the round.             *)

BeginEffect ==
  /\ pc = "wait" /\ pc' = "read" /\ i' = 0 /\ last' = None /\ turns' \in Nat
  /\ UNCHANGED <<build, map, epoll, maxfd, readset, writeset, cont, tasks, own, refused, leaked>>
  /\ build.kind # "poll" =>
       slots' = slots /\ \A k \in 1..turns' : batch'[k].events # {} => batch'[k].fd \in Fds
  /\ Plain =>
       /\ \A k, m \in 1..turns' : batch'[k].fd = batch'[m].fd => k = m
       /\ \A k \in 1..turns' : /\ "write" \notin batch'[k].events
                               /\ "read" \in batch'[k].events => <<batch'[k].fd, "read">> \in due'
  /\ build.kind = "poll" =>
       /\ slots' \in [Slots -> Slot]
       /\ \A k \in Slots : slots'[k].fd = slots[k].fd /\ slots'[k].events = slots[k].events
       /\ \A k \in Slots : slots[k].fd = NoFd => slots'[k].revents = {}
       /\ \A k \in Slots : \A e \in slots'[k].revents \cap Events : <<slots[k].fd, e>> \in due'

\* epoll_wait() returns: a round begins.
LEMMA EpollBegin ==
  ASSUME build \in Builds, Keeps, KeepInv, epolldispatch
  PROVE  BeginEffect
<1>1. /\ build.kind = "epoll" /\ pc = "wait" /\ pc' = "read" /\ i' = 0 /\ last' = None
      /\ UNCHANGED <<build, map, epoll, slots, maxfd, readset, writeset, cont, tasks, own,
                     refused, leaked>>
  BY DEF epolldispatch, dataVars, epollVars, pollVars, selectVars
<1>2. PICK writable \in SUBSET Fds :
        LET report == [f \in Fds |-> Report(f, epoll[f], writable)]
        IN  /\ \E order \in SetToSeqs({f \in Fds : report[f] # {}}) :
                 /\ batch' = [k \in DOMAIN order |->
                                [fd |-> order[k], events |-> report[order[k]]]]
                 /\ turns' = Len(order)
            /\ due' = Due(report)
  BY DEF epolldispatch
<1> DEFINE report == [f \in Fds |-> Report(f, epoll[f], writable)]
           R == {f \in Fds : report[f] # {}}
<1>3. PICK order \in SetToSeqs(R) :
        /\ batch' = [k \in DOMAIN order |-> [fd |-> order[k], events |-> report[order[k]]]]
        /\ turns' = Len(order)
  BY <1>2
<1>4. due' = Due(report)
  BY <1>2
<1>5. \A f \in Fds : report[f] \cap Events \subseteq epoll[f]
  BY DEF Report, Events
<1> HIDE DEF report
<1>6. R \subseteq Fds /\ IsFiniteSet(R) /\ Cardinality(R) \in Nat
  BY FdsAssumption, FS_Subset, FS_CardinalityType
<1>7. /\ order \in [1..Cardinality(R) -> R]
      /\ \A k, m \in 1..Cardinality(R) : k # m => order[k] # order[m]
  BY <1>3 DEF SetToSeqs
<1> HIDE DEF R
<1>8. turns' = Cardinality(R) /\ DOMAIN order = 1..turns'
  BY <1>3, <1>6, <1>7
<1>9. ASSUME NEW k \in 1..turns'
      PROVE  /\ batch'[k].fd = order[k] /\ order[k] \in Fds
             /\ batch'[k].events = report[order[k]]
  BY <1>3, <1>6, <1>7, <1>8
<1>10. \A k, m \in 1..turns' : batch'[k].fd = batch'[m].fd => k = m
  BY <1>7, <1>8, <1>9
<1>11. ASSUME Plain, NEW k \in 1..turns'
       PROVE  /\ "write" \notin batch'[k].events
              /\ "read" \in batch'[k].events => <<batch'[k].fd, "read">> \in due'
  <2>1. epoll[order[k]] \subseteq {"read"}
    BY <1>9, <1>11 DEF KeepInv, PlainInv
  <2>2. "write" \notin batch'[k].events
    BY <1>5, <1>9, <2>1 DEF Events
  <2>3. ASSUME "read" \in batch'[k].events PROVE <<batch'[k].fd, "read">> \in due'
    <3>1. "read" \in report[order[k]] /\ <<order[k], "read">> \in Fds \X Events
      BY <1>9, <2>3 DEF Events
    <3>2. <<order[k], "read">> \in Due(report)
      BY <3>1 DEF Due
    <3> QED BY <1>4, <1>9, <3>2
  <2> QED BY <2>2, <2>3
<1>12. turns' \in Nat
  BY <1>6, <1>8
<1>13. \A k \in 1..turns' : batch'[k].events # {} => batch'[k].fd \in Fds
  BY <1>9
<1> QED BY <1>1, <1>10, <1>11, <1>12, <1>13 DEF BeginEffect

\* poll() returns.
LEMMA PollBegin ==
  ASSUME build \in Builds, Keeps, KeepInv, PollDispatcher_dispatch
  PROVE  BeginEffect
<1>1. /\ build.kind = "poll" /\ ~Plain /\ pc = "wait" /\ pc' = "read" /\ i' = 0 /\ last' = None
      /\ UNCHANGED <<build, map, epoll, maxfd, readset, writeset, cont, tasks, own,
                     refused, leaked>>
  BY DEF PollDispatcher_dispatch, epollVars, selectVars, Is, Plain
<1>2. PICK writable \in SUBSET Fds : Answered(Polled(writable))
  BY DEF PollDispatcher_dispatch
<1>3. slots \in [Slots -> Slot] /\ maxfd \in Nat /\ Slots \subseteq Nat
  BY BuildFacts DEF KeepInv, TypeOK
<1>4. ASSUME NEW k \in Slots
      PROVE  /\ Polled(writable)[k] \in Slot
             /\ Polled(writable)[k].fd = slots[k].fd
             /\ Polled(writable)[k].events = slots[k].events
             /\ slots[k].fd = NoFd => Polled(writable)[k].revents = {}
  <2>1. PICK s \in Slot : s = slots[k]
    BY <1>3
  <2> DEFINE rev == IF k > maxfd THEN s.revents
                    ELSE IF s.fd = NoFd THEN {} ELSE Report(s.fd, s.events, writable)
  <2>2. Polled(writable)[k] = [s EXCEPT !.revents = rev]
    BY <1>3, <2>1 DEF Polled
  <2>3. s.events \subseteq Events /\ s.revents \subseteq Events \cup {"err"}
    BY DEF Slot
  <2>4. Report(s.fd, s.events, writable) \subseteq Events \cup {"err"}
    BY <2>3 DEF Report
  <2>5. rev \in SUBSET (Events \cup {"err"})
    BY <2>3, <2>4
  <2>6. s.fd = NoFd => rev = {}
    BY <1>1, <2>1 DEF KeepInv, PollInv
  <2> HIDE DEF rev
  <2>7. /\ [s EXCEPT !.revents = rev] \in Slot /\ [s EXCEPT !.revents = rev].fd = s.fd
        /\ [s EXCEPT !.revents = rev].events = s.events
        /\ [s EXCEPT !.revents = rev].revents = rev
    BY <2>5 DEF Slot
  <2> QED BY <2>1, <2>2, <2>6, <2>7
<1>5. /\ slots' = Polled(writable)
      /\ turns' = Cardinality({k \in DOMAIN slots : Polled(writable)[k].revents # {}})
      /\ due' = {d \in Fds \X Events : \E k \in DOMAIN slots :
                   Polled(writable)[k].fd = d[1] /\ d[2] \in Polled(writable)[k].revents}
  BY <1>2 DEF Answered
<1>6. DOMAIN slots = Slots /\ DOMAIN slots' = Slots
  BY <1>3, <1>5 DEF Polled
<1>7. turns' \in Nat
  <2>1. IsFiniteSet(Slots)
    <3>1. 0 \in Int /\ build.max - 1 \in Int
      BY BuildFacts
    <3> QED BY <3>1, FS_Interval DEF Slots
  <2>2. {k \in DOMAIN slots : Polled(writable)[k].revents # {}} \in SUBSET Slots
    BY <1>6
  <2> QED BY <1>5, <2>1, <2>2, FS_Subset, FS_CardinalityType
<1>8. slots' \in [Slots -> Slot]
  <2>1. slots' = [k \in DOMAIN slots' |-> slots'[k]]
    BY <1>5 DEF Polled
  <2> QED BY <1>4, <1>5, <1>6, <2>1
<1>9. ASSUME NEW k \in Slots, NEW e \in slots'[k].revents \cap Events
      PROVE  <<slots[k].fd, e>> \in due'
  <2>1. slots[k].fd # NoFd
    BY <1>4, <1>5, <1>9
  <2>2. slots[k].fd \in Fds
    BY <1>3, <2>1 DEF Slot
  <2>3. <<slots[k].fd, e>> \in Fds \X Events
    BY <2>2
  <2>4. Polled(writable)[k].fd = slots[k].fd /\ e \in Polled(writable)[k].revents
    BY <1>4, <1>5
  <2>5. \E m \in DOMAIN slots :
           Polled(writable)[m].fd = <<slots[k].fd, e>>[1]
             /\ <<slots[k].fd, e>>[2] \in Polled(writable)[m].revents
    BY <1>6, <2>4
  <2> QED BY <1>5, <2>3, <2>5
<1> QED BY <1>1, <1>4, <1>5, <1>7, <1>8, <1>9 DEF BeginEffect

\* select() returns.
LEMMA SelectBegin ==
  ASSUME build \in Builds, Keeps, KeepInv, SelectDispatcher_dispatch
  PROVE  BeginEffect
<1>0. build.kind = "select" /\ Plain /\ writeset = {} /\ readset \subseteq Fds /\ build.max \in Nat
  BY BuildFacts DEF SelectDispatcher_dispatch, Is, KeepInv, TypeOK, PlainInv
<1>1. PICK writable \in SUBSET Fds :
        /\ Selected(readset \cap readable, writeset \cap writable)
        /\ due' = ((readset \cap readable) \X {"read"})
                    \cup ((writeset \cap writable) \X {"write"})
  BY DEF SelectDispatcher_dispatch
<1>2. /\ pc = "wait" /\ pc' = "read" /\ i' = 0 /\ last' = None /\ turns' = build.max
      /\ UNCHANGED <<build, map, epoll, slots, maxfd, readset, writeset, cont, tasks, own,
                     refused, leaked>>
  BY <1>1 DEF SelectDispatcher_dispatch, Selected, dataVars, epollVars, pollVars, selectVars
<1>3. batch' = [k \in 1..build.max |->
                  [fd |-> k - 1,
                   events |-> {e \in Events : k - 1 \in (IF e = "read" THEN readset \cap readable
                                                         ELSE writeset \cap writable)}]]
  BY <1>1 DEF Selected
<1>4. ASSUME NEW k \in 1..turns'
      PROVE  /\ batch'[k].fd = k - 1
             /\ batch'[k].events = {e \in Events : e = "read" /\ k - 1 \in readset \cap readable}
  BY <1>0, <1>2, <1>3, <1>4
<1>5. ASSUME NEW k \in 1..turns'
      PROVE  /\ "write" \notin batch'[k].events
             /\ batch'[k].events # {} => batch'[k].fd \in Fds
             /\ "read" \in batch'[k].events => <<batch'[k].fd, "read">> \in due'
  BY <1>0, <1>1, <1>4
<1>6. \A k, m \in 1..turns' : batch'[k].fd = batch'[m].fd => k = m
  BY <1>4
<1> QED BY <1>0, <1>2, <1>5, <1>6 DEF BeginEffect

\* Whichever dispatcher it is.
LEMMA BeginDoes ==
  ASSUME build \in Builds, Keeps, KeepInv, Begin
  PROVE  BeginEffect
BY EpollBegin, PollBegin, SelectBegin, Zenon DEF Begin

-----------------------------------------------------------------------------
(* The steps that leave the tables of the dispatcher alone.                *)

\* What a task leaves alone, and what of the round it takes away.
LEMMA TaskElsewhere ==
  ASSUME build \in Builds, Keeps, NEW f \in Fds, TaskFrame(f)
  PROVE  /\ build.kind # "epoll" => epoll' = epoll
         /\ build.kind # "poll" => slots' = slots /\ maxfd' = maxfd
         /\ build.kind # "select" => readset' = readset /\ writeset' = writeset
         /\ due' = IF tasks[1][1] = "DELETE" THEN {d \in due : d[1] # f} ELSE due
<1>0. ~Is("c", "poll") /\ (Is("cpp", "poll") => build.kind = "poll")
  BY BuildFacts DEF Is
<1>1. CASE tasks[1][1] = "ADD" /\ AddEventLoop(f)
  BY <1>0, <1>1 DEF AddEventLoop, epolladd, epollctl, PollDispatcher_add, selectadd, dataVars,
     epollVars, pollVars, selectVars
<1>2. CASE tasks[1][1] = "MODIFY" /\ ModifyEventLoop(f)
  BY <1>0, <1>2 DEF ModifyEventLoop, epollmodify, epollctl, PollDispatcher_modify, selectmodify,
     dataVars, epollVars, pollVars, selectVars
<1>3. CASE tasks[1][1] = "DELETE" /\ DeleteEventLoop(f)
  BY <1>0, <1>3 DEF DeleteEventLoop, epollremove, epollctl, PollDispatcher_remove, selectremove,
     epollVars, pollVars, selectVars
<1> QED BY <1>1, <1>2, <1>3 DEF TaskFrame

(* A step other than a task: the kernel is told nothing, and a channel     *)
(* whose mask is new has a pending task.                                   *)
MildEffect ==
  /\ UNCHANGED <<build, epoll, maxfd, readset, writeset>>
  /\ \A k \in Slots : slots'[k].fd = slots[k].fd /\ slots'[k].events = slots[k].events
  /\ map' \in [Fds -> (SUBSET Events) \cup {NULL}] /\ (Plain => map' = map)
  /\ \A g \in Fds :
       /\ map'[g] = NULL <=> map[g] = NULL
       /\ Known(g)' <=> Known(g)
       /\ Pending(g) => Pending(g)'
       /\ ~Pending(g)' => map'[g] = map[g]

\* A callback starts without pending tasks of its own.
LEMMA NoneInRound ==
  ASSUME QueueInv, pc \in {"read", "write"}
  PROVE  own = <<>> /\ \A j \in 1..Len(tasks) : tasks[j][1] = "ADD"
BY DEF QueueInv, InCallback

\* A callback leaves the tables of the dispatcher alone.
LEMMA MildCallback ==
  ASSUME build \in Builds, Keeps, KeepInv, CallbackStep
  PROVE  MildEffect
<1>0. /\ map \in [Fds -> (SUBSET Events) \cup {NULL}] /\ own = <<>>
      /\ \A j \in 1..Len(tasks) : tasks[j][1] = "ADD"
  BY NoneInRound DEF KeepInv, TypeOK, CallbackStep
<1>1. PICK after : CallbackEffect(Entry.fd, after) /\ Entry.fd \in Fds
  BY EntryFacts DEF CallbackStep
<1>2. PICK f \in Fds : f = Entry.fd
  BY <1>1
<1>3. CallbackEffect(f, after)
  BY <1>1, <1>2
<1>4. /\ UNCHANGED <<build, epoll, slots, maxfd, readset, writeset, tasks, refused, leaked>>
      /\ Plain => map' = map
  BY <1>3 DEF CallbackEffect
<1>5. \A g \in Fds : ~Pending(g)
  BY <1>0 DEF Pending
<1>6. CASE map' = map
  BY <1>0, <1>4, <1>5, <1>6 DEF MildEffect, Known
<1>7. CASE map' # map
  <2>1. PICK mask \in SUBSET Events : map' = [map EXCEPT ![f] = mask]
    BY <1>3, <1>7 DEF CallbackEffect
  <2>2. /\ map[f] # NULL /\ own' # <<>> /\ own' \in Seq(OwnTasks)
        /\ \A j \in 1..Len(own') : own'[j][2] = f
    BY <1>3, <1>7 DEF CallbackEffect
  <2>3. mask # NULL
    BY DEF NULL, Events
  <2>4. Pending(f)'
    <3>1. 1 \in 1..Len(own')
      BY <2>2, Shortened
    <3> QED BY <2>2, <3>1 DEF Pending
  <2>5. map' \in [Fds -> (SUBSET Events) \cup {NULL}]
    BY <1>0, <2>1
  <2>6. \A g \in Fds : g # f => map'[g] = map[g]
    BY <1>0, <2>1
  <2>7. map'[f] = mask
    BY <1>0, <2>1
  <2> QED BY <1>4, <1>5, <1>7, <2>2, <2>3, <2>4, <2>5, <2>6, <2>7 DEF MildEffect, Known
<1> QED BY <1>6, <1>7

\* Moving a task of the callback to the queue leaves it pending.
LEMMA MovedIsPending ==
  ASSUME TypeOK, AddTaskEventLoop, NEW g \in Fds
  PROVE  Pending(g)' <=> Pending(g)
<1>1. CASE own = <<>>
  BY <1>1 DEF AddTaskEventLoop, Pending
<1>2. CASE own # <<>>
  <2>1. /\ tasks' = Append(tasks, Head(own)) /\ own' = Tail(own)
        /\ tasks \in Seq(Tasks) /\ own \in Seq(OwnTasks)
    BY <1>2 DEF AddTaskEventLoop, TypeOK
  <2>2. PICK t \in OwnTasks : t = own[1] /\ t = Head(own)
    BY <1>2, <2>1, Shortened
  <2>3. t \in Tasks /\ t[1] # "ADD"
    BY DEF OwnTasks, Tasks
  <2>4. /\ Len(own) \in Nat \ {0} /\ Len(own') = Len(own) - 1
        /\ \A j \in 1..Len(own') : own'[j] = own[j + 1]
    BY <1>2, <2>1, Shortened
  <2>5. /\ Len(tasks) \in Nat /\ Len(tasks') = Len(tasks) + 1
        /\ tasks'[Len(tasks) + 1] = t
        /\ \A j \in 1..Len(tasks) : tasks'[j] = tasks[j]
    BY <2>1, <2>2, <2>3, Longer
  <2>6. ASSUME Pending(g) PROVE Pending(g)'
    <3>1. CASE t[2] = g
      <4>1. Len(tasks) + 1 \in 1..Len(tasks')
        BY <2>5
      <4> QED BY <2>3, <2>5, <3>1, <4>1 DEF Pending
    <3>2. ASSUME NEW j \in 1..Len(own), own[j][2] = g, t[2] # g PROVE Pending(g)'
      <4>0. j # 1
        <5>1. CASE j = 1
          <6>1. own[1][2] = g
            BY <3>2, <5>1
          <6> QED BY <2>2, <3>2, <6>1
        <5> QED BY <5>1
      <4>1. PICK m \in 1..Len(own') : j = m + 1
        <5>1. j \in Nat /\ 1 <= j /\ j <= Len(own)
          BY <2>4
        <5>2. j - 1 \in 1..Len(own')
          BY <2>4, <4>0, <5>1
        <5>3. j = (j - 1) + 1
          BY <5>1
        <5> QED BY <5>2, <5>3
      <4> QED BY <2>4, <3>2, <4>1 DEF Pending
    <3>3. ASSUME NEW j \in 1..Len(tasks), tasks[j][1] # "ADD", tasks[j][2] = g PROVE Pending(g)'
      <4>1. j \in 1..Len(tasks')
        BY <2>5
      <4> QED BY <2>5, <3>3, <4>1 DEF Pending
    <3> QED BY <2>6, <3>1, <3>2, <3>3 DEF Pending
  <2>7. ASSUME Pending(g)' PROVE Pending(g)
    <3>1. ASSUME NEW j \in 1..Len(own'), own'[j][2] = g PROVE Pending(g)
      <4>1. j + 1 \in 1..Len(own)
        BY <2>4
      <4> QED BY <2>4, <3>1, <4>1 DEF Pending
    <3>2. ASSUME NEW j \in 1..Len(tasks'), tasks'[j][1] # "ADD", tasks'[j][2] = g PROVE Pending(g)
      <4>1. CASE j = Len(tasks) + 1
        <5>1. 1 \in 1..Len(own)
          BY <2>4
        <5> QED BY <2>2, <2>5, <3>2, <4>1, <5>1 DEF Pending
      <4>2. CASE j \in 1..Len(tasks)
        BY <2>5, <3>2, <4>2 DEF Pending
      <4> QED BY <2>5, <4>1, <4>2
    <3> QED BY <2>7, <3>1, <3>2 DEF Pending
  <2> QED BY <2>6, <2>7
<1> QED BY <1>1, <1>2

\* An ADD that another thread queues concerns no channel that is there.
LEMMA AcceptedIsNotPending ==
  ASSUME TypeOK, NEW f \in Fds, acceptConnection(f), NEW g \in Fds
  PROVE  Pending(g)' <=> Pending(g)
<1>1. tasks \in Seq(Tasks) /\ tasks' = Append(tasks, <<"ADD", f>>) /\ own' = own
  BY DEF TypeOK, acceptConnection
<1>2. <<"ADD", f>> \in Tasks
  BY DEF Tasks
<1>3. /\ Len(tasks) \in Nat /\ Len(tasks') = Len(tasks) + 1
      /\ tasks'[Len(tasks) + 1] = <<"ADD", f>>
      /\ \A j \in 1..Len(tasks) : tasks'[j] = tasks[j]
  BY <1>1, <1>2, Longer
<1>4. ASSUME NEW j \in 1..Len(tasks), tasks[j][1] # "ADD", tasks[j][2] = g
      PROVE  \E k \in 1..Len(tasks') : tasks'[k][1] # "ADD" /\ tasks'[k][2] = g
  <2>1. j \in 1..Len(tasks')
    BY <1>3
  <2> QED BY <1>3, <1>4, <2>1
<1>5. ASSUME NEW j \in 1..Len(tasks'), tasks'[j][1] # "ADD", tasks'[j][2] = g
      PROVE  \E k \in 1..Len(tasks) : tasks[k][1] # "ADD" /\ tasks[k][2] = g
  <2>1. j # Len(tasks) + 1
    BY <1>3, <1>5
  <2>2. j \in 1..Len(tasks)
    BY <1>3, <2>1
  <2> QED BY <1>3, <1>5, <2>2
<1> QED BY <1>1, <1>4, <1>5 DEF Pending

\* Every step but a task.
LEMMA MildStep ==
  ASSUME build \in Builds, Keeps, KeepInv,
         \/ Begin \/ TurnEffect \/ CallbackStep \/ RunEventLoop \/ AddTaskEventLoop
         \/ PlaceEffect \/ \E f \in Fds : acceptConnection(f) \/ Arrive(f)
  PROVE  MildEffect
<1>0. TypeOK /\ map \in [Fds -> (SUBSET Events) \cup {NULL}]
  BY DEF KeepInv, TypeOK
<1>1. CASE CallbackStep
  BY <1>1, MildCallback
<1>2. ASSUME UNCHANGED <<build, map, epoll, maxfd, readset, writeset, refused, leaked>>,
             \A k \in Slots : slots'[k].fd = slots[k].fd /\ slots'[k].events = slots[k].events,
             \A g \in Fds : Pending(g)' <=> Pending(g)
      PROVE  MildEffect
  BY <1>0, <1>2 DEF MildEffect, Known
<1>3. CASE Begin
  <2>1. BeginEffect
    BY <1>3, BeginDoes
  <2>2. \A g \in Fds : Pending(g)' <=> Pending(g)
    BY <2>1 DEF BeginEffect, Pending
  <2>3. \A k \in Slots : slots'[k].fd = slots[k].fd /\ slots'[k].events = slots[k].events
    BY <2>1 DEF BeginEffect
  <2> QED BY <1>2, <2>1, <2>2, <2>3 DEF BeginEffect
<1>4. CASE TurnEffect
  BY <1>2, <1>4 DEF TurnEffect, tables, Pending
<1>5. CASE RunEventLoop
  <2>1. own' = own /\ tasks' = tasks
    BY <1>5, NoneInRound DEF RunEventLoop, KeepInv
  <2>2. \A g \in Fds : Pending(g)' <=> Pending(g)
    BY <2>1 DEF Pending
  <2> QED BY <1>2, <1>5, <2>2 DEF RunEventLoop, dataVars, epollVars, pollVars, selectVars
<1>6. CASE AddTaskEventLoop
  <2>1. \A g \in Fds : Pending(g)' <=> Pending(g)
    BY <1>0, <1>6, MovedIsPending
  <2> QED BY <1>2, <1>6, <2>1 DEF AddTaskEventLoop, dataVars, epollVars, pollVars, selectVars
<1>7. CASE PlaceEffect
  BY <1>2, <1>7 DEF PlaceEffect, tables, Pending
<1>8. ASSUME NEW f \in Fds, acceptConnection(f) PROVE MildEffect
  <2>1. \A g \in Fds : Pending(g)' <=> Pending(g)
    BY <1>0, <1>8, AcceptedIsNotPending
  <2> QED BY <1>2, <1>8, <2>1 DEF acceptConnection, dataVars, epollVars, pollVars, selectVars
<1>9. ASSUME NEW f \in Fds, Arrive(f) PROVE MildEffect
  BY <1>2, <1>9 DEF Arrive, dataVars, epollVars, pollVars, selectVars, Pending
<1> QED BY <1>1, <1>3, <1>4, <1>5, <1>6, <1>7, <1>8, <1>9

-----------------------------------------------------------------------------
(* The tables keep agreeing with the map.                                  *)

\* A step that leaves them alone keeps the agreement with the channels.
LEMMA MildTables ==
  ASSUME build \in Builds, Keeps, KeepInv, MildEffect,
         build.kind = "poll" => \A k \in Slots : slots[k].fd = NoFd => slots'[k].revents = {}
  PROVE  EpollInv' /\ PollInv' /\ SelectInv'
<1>0. /\ UNCHANGED <<build, epoll, maxfd, readset, writeset>> /\ Slots' = Slots
      /\ \A g \in Fds : /\ map'[g] = NULL <=> map[g] = NULL
                        /\ Known(g)' <=> Known(g)
                        /\ Pending(g) => Pending(g)'
                        /\ ~Pending(g)' => map'[g] = map[g]
  BY DEF MildEffect, Slots
<1>1. EpollInv'
  <2>1. SUFFICES ASSUME build.kind = "epoll", NEW g \in Fds
                 PROVE  /\ map'[g] = NULL => epoll'[g] = {}
                        /\ Known(g)' /\ ~Pending(g)' => epoll'[g] = map'[g]
    BY <1>0 DEF EpollInv
  <2>2. /\ map[g] = NULL => epoll[g] = {}
        /\ Known(g) /\ ~Pending(g) => epoll[g] = map[g]
    BY <2>1 DEF KeepInv, EpollInv
  <2>3. epoll'[g] = epoll[g]
    BY <1>0
  <2> QED BY <1>0, <2>2, <2>3
<1>2. SelectInv'
  <2>1. SUFFICES ASSUME build.kind = "select", NEW g \in Fds
                 PROVE  (map'[g] = NULL => g \notin readset') /\ (Known(g)' => g \in readset')
    BY <1>0 DEF SelectInv
  <2>2. (map[g] = NULL => g \notin readset) /\ (Known(g) => g \in readset)
    BY <2>1 DEF KeepInv, SelectInv
  <2>3. readset' = readset
    BY <1>0
  <2> QED BY <1>0, <2>2, <2>3
<1>3. ASSUME build.kind = "poll" PROVE PollInv'
  <2>1. \A k \in Slots : slots'[k].fd = slots[k].fd /\ slots'[k].events = slots[k].events
    BY DEF MildEffect
  <2>2. PollInv /\ slots \in [Slots -> Slot]
    BY DEF KeepInv, TypeOK
  <2>3. /\ \A k, m \in Slots : slots'[k].fd = slots'[m].fd /\ slots'[k].fd # NoFd => k = m
        /\ \A k \in Slots : slots'[k].fd # NoFd => k <= maxfd'
        /\ \A k \in Slots : slots'[k].fd = NoFd => slots'[k].events = {} /\ slots'[k].revents = {}
    BY <1>0, <1>3, <2>1, <2>2 DEF PollInv
  <2>4. \A k \in Slots : slots'[k].fd # NoFd => map'[slots'[k].fd] # NULL
    <3>1. \A k \in Slots : slots[k].fd \in Fds \cup {NoFd}
      BY <2>2 DEF Slot
    <3>2. SUFFICES ASSUME NEW k \in Slots, slots[k].fd # NoFd PROVE map'[slots[k].fd] # NULL
      BY <2>1
    <3>3. PICK g \in Fds : g = slots[k].fd
      BY <3>1, <3>2
    <3>4. map[g] # NULL
      BY <1>3, <2>2, <3>2, <3>3 DEF PollInv
    <3> QED BY <1>0, <3>3, <3>4
  <2>5. ASSUME NEW f \in Fds, Known(f)'
        PROVE  \E k \in Slots : slots'[k].fd = f /\ (Pending(f)' \/ slots'[k].events = map'[f])
    <3>1. Known(f)
      BY <1>0, <2>5
    <3>2. PICK k \in Slots : slots[k].fd = f /\ (Pending(f) \/ slots[k].events = map[f])
      BY <1>3, <2>2, <3>1 DEF PollInv
    <3>3. slots'[k].fd = f /\ slots'[k].events = slots[k].events
      BY <2>1, <3>2
    <3>4. Pending(f)' \/ slots[k].events = map'[f]
      BY <1>0, <3>2
    <3> QED BY <3>3, <3>4, Zenon
  <2> QED BY <1>0, <2>3, <2>4, <2>5 DEF PollInv
<1>4. build.kind # "poll" => PollInv'
  BY <1>0 DEF PollInv
<1> QED BY <1>1, <1>2, <1>3, <1>4

\* A task keeps the agreement of channels and kernel: epoll,
LEMMA EpollStep ==
  ASSUME build \in Builds, Keeps, KeepInv, NEW f \in Fds, TaskFrame(f)
  PROVE  EpollInv'
<1>0. /\ TypeOK /\ build' = build /\ epoll \in [Fds -> SUBSET Events]
      /\ map \in [Fds -> (SUBSET Events) \cup {NULL}] /\ tasks[1] \in Tasks
  <2>1. tasks \in Seq(Tasks) /\ tasks # <<>>
    BY DEF KeepInv, TypeOK, TaskFrame
  <2> QED BY <2>1, Shortened DEF KeepInv, TypeOK, TaskFrame
<1>1. SUFFICES ASSUME build.kind = "epoll", NEW g \in Fds
               PROVE  /\ map'[g] = NULL => epoll'[g] = {}
                      /\ Known(g)' /\ ~Pending(g)' => epoll'[g] = map'[g]
  BY <1>0 DEF EpollInv
<1>2. EpollEffect(f)
  BY <1>0, <1>1, EpollTask
<1>3. /\ map[g] = NULL => epoll[g] = {}
      /\ Known(g) /\ ~Pending(g) => epoll[g] = map[g]
  BY <1>1 DEF KeepInv, EpollInv
<1>4. CASE g # f
  <2>1. epoll'[g] = epoll[g]
    BY <1>0, <1>2, <1>4 DEF EpollEffect
  <2>2. map'[g] = map[g] /\ (Known(g)' <=> Known(g))
    BY <1>0, <1>4, TaskOnMap DEF Known
  <2>3. Pending(g)' <=> Pending(g)
    BY <1>0, <1>4, TaskPending
  <2> QED BY <1>3, <2>1, <2>2, <2>3
<1>5. CASE g = f
  <2>1. CASE tasks[1][1] = "ADD"
    <3>1. CASE map[f] = NULL
      <4>1. epoll' = [epoll EXCEPT ![f] = {"read"}] /\ map' = [map EXCEPT ![f] = {"read"}]
        BY <1>0, <1>2, <2>1, <3>1, TaskOnMap DEF EpollEffect
      <4>2. epoll'[f] = {"read"} /\ map'[f] = {"read"}
        BY <1>0, <4>1
      <4> QED BY <1>5, <4>2 DEF NULL
    <3>2. CASE map[f] # NULL
      <4>1. epoll' = epoll /\ map' = map /\ refused \subseteq refused' /\ leaked \subseteq leaked'
        BY <1>0, <1>2, <2>1, <3>2, TaskOnMap DEF EpollEffect
      <4>2. Known(f)' => Known(f)
        BY <4>1 DEF Known
      <4>3. Pending(f)' <=> Pending(f)
        BY <1>0, <2>1, TaskPending
      <4> QED BY <1>3, <1>5, <4>1, <4>2, <4>3
    <3> QED BY <3>1, <3>2
  <2>2. CASE tasks[1][1] = "MODIFY"
    <3>1. map' = map
      BY <1>0, <2>2, TaskOnMap
    <3>2. CASE map[f] = NULL
      BY <1>2, <1>3, <1>5, <2>2, <3>1, <3>2 DEF EpollEffect, Known
    <3>3. CASE map[f] # NULL
      <4>1. epoll' = [epoll EXCEPT ![f] = map[f]]
        BY <1>2, <2>2, <3>3 DEF EpollEffect
      <4>2. epoll'[f] = map[f]
        BY <1>0, <4>1
      <4> QED BY <1>5, <3>1, <3>3, <4>2
    <3> QED BY <3>2, <3>3
  <2>3. CASE tasks[1][1] = "DELETE"
    <3>1. epoll' = [epoll EXCEPT ![f] = {}]
      BY <1>2, <2>3 DEF EpollEffect
    <3>2. epoll'[f] = {}
      BY <1>0, <3>1
    <3>3. map'[f] = NULL \/ f \in leaked'
      BY <1>0, <2>3, TaskOnMap
    <3>4. ~Known(f)'
      BY <3>3 DEF Known
    <3> QED BY <1>5, <3>2, <3>4
  <2> QED BY <1>0, <2>1, <2>2, <2>3 DEF Tasks
<1> QED BY <1>4, <1>5

\* select,
LEMMA SelectStep ==
  ASSUME build \in Builds, Keeps, KeepInv, NEW f \in Fds, TaskFrame(f)
  PROVE  SelectInv'
<1>0. /\ TypeOK /\ build' = build /\ map \in [Fds -> (SUBSET Events) \cup {NULL}]
  BY DEF KeepInv, TypeOK, TaskFrame
<1>1. SUFFICES ASSUME build.kind = "select", NEW g \in Fds
               PROVE  (map'[g] = NULL => g \notin readset') /\ (Known(g)' => g \in readset')
  BY <1>0 DEF SelectInv
<1>2. SelectEffect(f)
  BY <1>1, SelectTask
<1>3. (map[g] = NULL => g \notin readset) /\ (Known(g) => g \in readset)
  BY <1>1 DEF KeepInv, SelectInv
<1>4. CASE g # f
  <2>1. g \in readset' <=> g \in readset
    BY <1>2, <1>4 DEF SelectEffect
  <2>2. map'[g] = map[g] /\ (Known(g)' <=> Known(g))
    BY <1>0, <1>4, TaskOnMap DEF Known
  <2> QED BY <1>3, <2>1, <2>2
<1>5. CASE g = f
  <2>1. CASE tasks[1][1] = "ADD"
    <3>1. CASE map[f] = NULL
      <4>1. map' = [map EXCEPT ![f] = {"read"}]
        BY <1>0, <2>1, <3>1, TaskOnMap
      <4>2. map'[f] = {"read"}
        BY <1>0, <4>1
      <4>3. f \in refused' \/ f \in readset'
        BY <1>2, <2>1, <3>1 DEF SelectEffect
      <4> QED BY <1>5, <4>2, <4>3 DEF NULL, Known
    <3>2. CASE map[f] # NULL
      <4>1. /\ readset' = readset /\ map' = map
            /\ refused \subseteq refused' /\ leaked \subseteq leaked'
        BY <1>0, <1>2, <2>1, <3>2, TaskOnMap DEF SelectEffect
      <4>2. Known(f)' => Known(f)
        BY <4>1 DEF Known
      <4> QED BY <1>3, <1>5, <4>1, <4>2
    <3> QED BY <3>1, <3>2
  <2>2. CASE tasks[1][1] = "DELETE"
    <3>1. f \notin readset'
      BY <1>2, <2>2 DEF SelectEffect
    <3>2. map'[f] = NULL \/ f \in leaked'
      BY <1>0, <2>2, TaskOnMap
    <3> QED BY <1>5, <3>1, <3>2 DEF Known
  <2> QED BY <1>2, <2>1, <2>2 DEF SelectEffect
<1> QED BY <1>4, <1>5

\* and poll, whose slots are found, freed and reused.
LEMMA PollStep ==
  ASSUME build \in Builds, Keeps, KeepInv, NEW f \in Fds, TaskFrame(f)
  PROVE  PollInv'
<1>0. /\ TypeOK /\ build' = build /\ map \in [Fds -> (SUBSET Events) \cup {NULL}]
      /\ slots \in [Slots -> Slot] /\ maxfd \in Nat /\ Slots \subseteq Nat /\ Slots' = Slots
      /\ f # NoFd
  BY BuildFacts DEF KeepInv, TypeOK, TaskFrame, Slots
<1>1. SUFFICES ASSUME build.kind = "poll" PROVE PollInv'
  BY <1>0 DEF PollInv
<1>2. /\ \A k, m \in Slots : slots[k].fd = slots[m].fd /\ slots[k].fd # NoFd => k = m
      /\ \A k \in Slots : slots[k].fd # NoFd => k <= maxfd
      /\ \A k \in Slots : slots[k].fd = NoFd => slots[k].events = {} /\ slots[k].revents = {}
      /\ \A k \in Slots : slots[k].fd # NoFd => map[slots[k].fd] # NULL
      /\ \A k \in Slots : slots[k].fd \in Fds \cup {NoFd}
  BY <1>0, <1>1 DEF KeepInv, PollInv, Slot
<1>3. ASSUME NEW g \in Fds, Known(g)
      PROVE  \E k \in Slots : slots[k].fd = g /\ (Pending(g) \/ slots[k].events = map[g])
  BY <1>1, <1>3 DEF KeepInv, PollInv
<1>4. /\ \A g \in Fds \ {f} : map'[g] = map[g] /\ (Known(g)' => Known(g))
      /\ refused \subseteq refused' /\ leaked \subseteq leaked'
  BY <1>0, TaskOnMap DEF Known
<1>5. \A g \in Fds \ {f} : Pending(g) => Pending(g)'
  BY <1>0, TaskPending
<1>6. ASSUME slots' = slots, maxfd' = maxfd,
             tasks[1][1] = "ADD" /\ map[f] = NULL => f \in refused',
             tasks[1][1] # "ADD" /\ map[f] # NULL => \A k \in Slots : slots[k].fd # f
      PROVE  PollInv'
  <2>1. \A k \in Slots : slots[k].fd = f => map'[f] # NULL
    <3>1. SUFFICES ASSUME NEW k \in Slots, slots[k].fd = f PROVE map'[f] # NULL
      OBVIOUS
    <3>2. map[f] # NULL /\ tasks[1][1] = "ADD"
      BY <1>0, <1>2, <1>6, <3>1
    <3> QED BY <1>0, <3>2, TaskOnMap
  <2>2. ASSUME NEW k \in Slots, slots[k].fd # NoFd PROVE map'[slots[k].fd] # NULL
    <3>1. PICK g \in Fds : g = slots[k].fd
      BY <1>2, <2>2
    <3>2. CASE g = f
      BY <2>1, <3>1, <3>2
    <3>3. CASE g # f
      <4>1. map'[g] = map[g] /\ map[g] # NULL
        BY <1>2, <1>4, <2>2, <3>1, <3>3
      <4> QED BY <3>1, <4>1
    <3> QED BY <3>2, <3>3
  <2>3. ASSUME NEW g \in Fds, Known(g)'
        PROVE  \E k \in Slots : slots'[k].fd = g /\ (Pending(g)' \/ slots'[k].events = map'[g])
    <3>1. Known(g) /\ map'[g] = map[g] /\ (Pending(g) => Pending(g)')
      <4>1. CASE g # f
        BY <1>4, <1>5, <2>3, <4>1, Zenon
      <4>2. CASE g = f
        <5>1. map'[f] # NULL /\ f \notin refused' \cup leaked'
          BY <2>3, <4>2 DEF Known
        <5>2. CASE map[f] = NULL
          BY <1>0, <1>6, <5>1, <5>2, TaskOnMap DEF TaskFrame
        <5>3. CASE map[f] # NULL
          <6>1. Known(f)
            BY <1>4, <5>1, <5>3 DEF Known
          <6>2. tasks[1][1] = "ADD"
            BY <1>3, <1>6, <5>3, <6>1
          <6>3. map' = map
            BY <1>0, <5>3, <6>2, TaskOnMap
          <6>4. Pending(f) => Pending(f)'
            BY <1>0, <6>2, TaskPending
          <6> QED BY <4>2, <6>1, <6>3, <6>4, Zenon
        <5> QED BY <5>2, <5>3
      <4> QED BY <4>1, <4>2
    <3>2. PICK k \in Slots : slots[k].fd = g /\ (Pending(g) \/ slots[k].events = map[g])
      BY <1>3, <3>1
    <3> QED BY <1>6, <3>1, <3>2, Zenon
  <2> QED BY <1>0, <1>2, <1>6, <2>2, <2>3 DEF PollInv
<1>7. ASSUME NEW k \in Slots, NEW s \in Slot, tasks[1][1] = "ADD", map[f] = NULL,
             slots[k].fd = NoFd, s.fd = f, s.events = {"read"}, s.revents = slots[k].revents,
             slots' = [slots EXCEPT ![k] = s], maxfd' \in {k, maxfd}, k <= maxfd', maxfd <= maxfd'
      PROVE  PollInv'
  <2>1. slots'[k] = s /\ \A m \in Slots : m # k => slots'[m] = slots[m]
    BY <1>0, <1>7
  <2>2. map'[f] = {"read"}
    BY <1>0, <1>7, TaskOnMap
  <2>3. \A m \in Slots : slots[m].fd # f
    BY <1>0, <1>2, <1>7
  <2>4. \A m, n \in Slots : slots'[m].fd = slots'[n].fd /\ slots'[m].fd # NoFd => m = n
    BY <1>2, <1>7, <2>1, <2>3
  <2>5. \A m \in Slots : slots'[m].fd # NoFd => m <= maxfd'
    <3>1. maxfd' \in Nat
      BY <1>0, <1>7
    <3>2. SUFFICES ASSUME NEW m \in Slots, slots'[m].fd # NoFd PROVE m <= maxfd'
      OBVIOUS
    <3>3. CASE m = k
      BY <1>7, <3>3
    <3>4. CASE m # k
      <4>1. m <= maxfd /\ m \in Nat
        BY <1>0, <1>2, <2>1, <3>2, <3>4
      <4> QED BY <1>0, <1>7, <3>1, <4>1
    <3> QED BY <3>3, <3>4
  <2>6. \A m \in Slots : slots'[m].fd = NoFd => slots'[m].events = {} /\ slots'[m].revents = {}
    BY <1>0, <1>2, <1>7, <2>1
  <2>7. ASSUME NEW m \in Slots, slots'[m].fd # NoFd PROVE map'[slots'[m].fd] # NULL
    <3>1. CASE m = k
      BY <1>7, <2>1, <2>2, <3>1 DEF NULL
    <3>2. CASE m # k
      <4>1. slots'[m] = slots[m] /\ slots[m].fd \in Fds \ {f} /\ map[slots[m].fd] # NULL
        BY <1>2, <2>1, <2>3, <2>7, <3>2
      <4> QED BY <1>4, <4>1
    <3> QED BY <3>1, <3>2
  <2>8. ASSUME NEW g \in Fds, Known(g)'
        PROVE  \E m \in Slots : slots'[m].fd = g /\ (Pending(g)' \/ slots'[m].events = map'[g])
    <3>1. CASE g = f
      BY <1>7, <2>1, <2>2, <3>1
    <3>2. CASE g # f
      <4>1. Known(g) /\ map'[g] = map[g] /\ (Pending(g) => Pending(g)')
        BY <1>4, <1>5, <2>8, <3>2, Zenon
      <4>2. PICK m \in Slots : slots[m].fd = g /\ (Pending(g) \/ slots[m].events = map[g])
        BY <1>3, <4>1
      <4>3. slots'[m] = slots[m]
        BY <1>7, <2>1, <4>2, BuildFacts
      <4> QED BY <4>1, <4>2, <4>3, Zenon
    <3> QED BY <3>1, <3>2
  <2> QED BY <1>0, <2>4, <2>5, <2>6, <2>7, <2>8 DEF PollInv
<1>8. ASSUME NEW k \in Slots, NEW s \in Slot, tasks[1][1] = "MODIFY", map[f] # NULL,
             slots[k].fd = f, s.fd = f, s.events = map[f], s.revents = slots[k].revents,
             slots' = [slots EXCEPT ![k] = s], maxfd' = maxfd
      PROVE  PollInv'
  <2>1. slots'[k] = s /\ \A m \in Slots : m # k => slots'[m] = slots[m]
    BY <1>0, <1>8
  <2>2. map' = map
    BY <1>0, <1>8, TaskOnMap
  <2>3. \A m \in Slots : slots'[m].fd = slots[m].fd /\ slots'[m].revents = slots[m].revents
    BY <1>8, <2>1
  <2>4. \A m \in Slots : slots'[m].fd = NoFd => slots'[m].events = {} /\ slots'[m].revents = {}
    BY <1>0, <1>2, <1>8, <2>1, <2>3
  <2>5. ASSUME NEW g \in Fds, Known(g)'
        PROVE  \E m \in Slots : slots'[m].fd = g /\ (Pending(g)' \/ slots'[m].events = map'[g])
    <3>1. CASE g = f
      BY <1>8, <2>1, <2>2, <3>1
    <3>2. CASE g # f
      <4>1. Known(g) /\ (Pending(g) => Pending(g)')
        BY <1>4, <1>5, <2>5, <3>2, Zenon
      <4>2. PICK m \in Slots : slots[m].fd = g /\ (Pending(g) \/ slots[m].events = map[g])
        BY <1>3, <4>1
      <4>3. slots'[m] = slots[m]
        BY <1>8, <2>1, <3>2, <4>2
      <4> QED BY <2>2, <4>1, <4>2, <4>3, Zenon
    <3> QED BY <3>1, <3>2
  <2> QED BY <1>0, <1>2, <1>8, <2>2, <2>3, <2>4, <2>5 DEF PollInv
<1>9. ASSUME NEW k \in Slots, tasks[1][1] = "DELETE", slots[k].fd = f,
             slots' = [slots EXCEPT ![k] = FreeSlot], maxfd' = maxfd
      PROVE  PollInv'
  <2>1. slots'[k] = FreeSlot /\ \A m \in Slots : m # k => slots'[m] = slots[m]
    BY <1>0, <1>9
  <2>2. FreeSlot.fd = NoFd /\ FreeSlot.events = {} /\ FreeSlot.revents = {}
    BY DEF FreeSlot
  <2>3. \A m \in Slots : m # k => slots[m].fd # f
    BY <1>0, <1>2, <1>9
  <2>4. /\ \A m, n \in Slots : slots'[m].fd = slots'[n].fd /\ slots'[m].fd # NoFd => m = n
        /\ \A m \in Slots : slots'[m].fd # NoFd => m <= maxfd'
        /\ \A m \in Slots : slots'[m].fd = NoFd => slots'[m].events = {} /\ slots'[m].revents = {}
    BY <1>2, <1>9, <2>1, <2>2
  <2>5. ASSUME NEW m \in Slots, slots'[m].fd # NoFd PROVE map'[slots'[m].fd] # NULL
    <3>1. m # k
      BY <2>1, <2>2, <2>5
    <3>2. slots'[m] = slots[m] /\ slots[m].fd \in Fds \ {f} /\ map[slots[m].fd] # NULL
      BY <1>2, <2>1, <2>3, <2>5, <3>1
    <3> QED BY <1>4, <3>2
  <2>6. ASSUME NEW g \in Fds, Known(g)'
        PROVE  \E m \in Slots : slots'[m].fd = g /\ (Pending(g)' \/ slots'[m].events = map'[g])
    <3>1. g # f
      <4>1. map'[f] = NULL \/ f \in leaked'
        BY <1>0, <1>9, TaskOnMap
      <4> QED BY <2>6, <4>1 DEF Known
    <3>2. Known(g) /\ map'[g] = map[g] /\ (Pending(g) => Pending(g)')
      BY <1>4, <1>5, <2>6, <3>1, Zenon
    <3>3. PICK m \in Slots : slots[m].fd = g /\ (Pending(g) \/ slots[m].events = map[g])
      BY <1>3, <3>2
    <3>4. slots'[m] = slots[m]
      BY <1>9, <2>1, <3>1, <3>3
    <3> QED BY <3>2, <3>3, <3>4, Zenon
  <2> QED BY <1>0, <2>4, <2>5, <2>6 DEF PollInv
<1>10. PollEffect(f)
  BY <1>1, PollTask
<1> QED BY <1>6, <1>7, <1>8, <1>9, <1>10 DEF PollEffect

-----------------------------------------------------------------------------
(* One step.                                                               *)

\* The steps that are not tasks, as one.
Other == \/ Begin \/ TurnEffect \/ CallbackStep \/ RunEventLoop \/ AddTaskEventLoop
         \/ PlaceEffect \/ \E f \in Fds : acceptConnection(f) \/ Arrive(f)

\* What poll() says of a free slot stays nothing.
LEMMA SlotsStep ==
  ASSUME build \in Builds, Keeps, KeepInv, Other
  PROVE  /\ slots' \in [Slots -> Slot]
         /\ build.kind = "poll" => \A k \in Slots : slots[k].fd = NoFd => slots'[k].revents = {}
         /\ Begin \/ slots' = slots
<1>0. slots \in [Slots -> Slot]
  BY DEF KeepInv, TypeOK
<1>1. CASE Begin
  <2>1. BeginEffect
    BY <1>1, BeginDoes
  <2> QED BY <1>0, <1>1, <2>1 DEF BeginEffect
<1>2. CASE slots' = slots
  BY <1>0, <1>2 DEF KeepInv, PollInv
<1>3. Begin \/ slots' = slots
  BY DEF Other, TurnEffect, CallbackStep, CallbackEffect, RunEventLoop, AddTaskEventLoop,
     PlaceEffect, acceptConnection, Arrive, tables, dataVars, pollVars
<1> QED BY <1>1, <1>2, <1>3

\* The parts of the invariant, for the steps that are not a task and for a task.
LEMMA TypeStep ==
  ASSUME build \in Builds, Keeps, KeepInv, Other
  PROVE  TypeOK'
<1>0. /\ TypeOK /\ turns \in Nat /\ i \in Nat /\ pc \in Places /\ cont \in Conts
      /\ tasks \in Seq(Tasks) /\ own \in Seq(OwnTasks)
  BY DEF KeepInv, TypeOK
<1>1. /\ map' \in [Fds -> (SUBSET Events) \cup {NULL}] /\ Slots' = Slots
      /\ epoll' = epoll /\ maxfd' = maxfd /\ readset' = readset /\ writeset' = writeset
  BY MildStep DEF Other, MildEffect, Slots
<1>2. slots' \in [Slots -> Slot]
  BY SlotsStep
<1>3. SUFFICES /\ turns' \in Nat /\ i' \in Nat /\ pc' \in Places /\ cont' \in Conts
               /\ tasks' \in Seq(Tasks) /\ own' \in Seq(OwnTasks)
  <2>1. epoll' \in [Fds -> SUBSET Events] /\ maxfd' \in Slots' /\ readset' \subseteq Fds
          /\ writeset' \subseteq Fds
    BY <1>0, <1>1 DEF TypeOK
  <2>2. slots' \in [Slots' -> Slot]
    BY <1>1, <1>2
  <2> QED BY <1>1, <1>3, <2>1, <2>2 DEF TypeOK, Slot
<1>4. CASE Begin
  <2>1. BeginEffect
    BY <1>4, BeginDoes
  <2> QED BY <1>0, <2>1 DEF BeginEffect, Places
<1>5. CASE TurnEffect
  BY <1>0, <1>5 DEF TurnEffect, tables, Places
<1>6. CASE CallbackStep
  <2>1. PICK e \in Events : CallbackEffect(Entry.fd, IF pc = "read" THEN "write" ELSE "next")
    BY <1>6 DEF CallbackStep
  <2>2. <<>> \in Seq(OwnTasks)
    OBVIOUS
  <2> QED BY <1>0, <2>1, <2>2 DEF CallbackEffect, Places, Conts
<1>7. CASE RunEventLoop
  BY <1>0, <1>7 DEF RunEventLoop, Places, Conts
<1>8. CASE AddTaskEventLoop
  <2>1. CASE own = <<>>
    BY <1>0, <1>8, <2>1 DEF AddTaskEventLoop, Places, Conts
  <2>2. CASE own # <<>>
    <3>1. PICK t \in OwnTasks : t = Head(own)
      BY <1>0, <2>2, Shortened
    <3>2. t \in Tasks
      BY DEF OwnTasks, Tasks
    <3>3. tasks' \in Seq(Tasks) /\ own' \in Seq(OwnTasks)
      <4>1. tasks' = Append(tasks, t) /\ own' = Tail(own)
        BY <1>8, <2>2, <3>1 DEF AddTaskEventLoop
      <4>2. tasks' \in Seq(Tasks)
        BY <1>0, <3>2, <4>1, Longer
      <4>3. own' \in Seq(OwnTasks)
        BY <1>0, <2>2, <4>1, Shortened
      <4> QED BY <4>2, <4>3
    <3> QED BY <1>0, <1>8, <2>2, <3>3 DEF AddTaskEventLoop, Places, Conts
  <2> QED BY <2>1, <2>2
<1>9. CASE PlaceEffect
  BY <1>0, <1>9 DEF PlaceEffect, Places
<1>10. ASSUME NEW f \in Fds, acceptConnection(f)
       PROVE  /\ turns' \in Nat /\ i' \in Nat /\ pc' \in Places /\ cont' \in Conts
              /\ tasks' \in Seq(Tasks) /\ own' \in Seq(OwnTasks)
  <2>1. <<"ADD", f>> \in Tasks
    BY DEF Tasks
  <2>2. tasks' \in Seq(Tasks)
    BY <1>0, <1>10, <2>1, Longer DEF acceptConnection
  <2> QED BY <1>0, <1>10, <2>2 DEF acceptConnection, roundVars
<1>11. ASSUME NEW f \in Fds, Arrive(f)
       PROVE  /\ turns' \in Nat /\ i' \in Nat /\ pc' \in Places /\ cont' \in Conts
              /\ tasks' \in Seq(Tasks) /\ own' \in Seq(OwnTasks)
  BY <1>0, <1>11 DEF Arrive, roundVars
<1> QED BY <1>4, <1>5, <1>6, <1>7, <1>8, <1>9, <1>10, <1>11 DEF Other

\* Types, over a task.
LEMMA TypeTask ==
  ASSUME build \in Builds, Keeps, KeepInv, NEW f \in Fds, TaskFrame(f)
  PROVE  TypeOK' /\ maxfd <= maxfd'
<1>0. /\ TypeOK /\ tasks \in Seq(Tasks) /\ tasks # <<>> /\ tasks' = Tail(tasks)
      /\ epoll \in [Fds -> SUBSET Events] /\ slots \in [Slots -> Slot] /\ maxfd \in Slots
      /\ readset \subseteq Fds /\ writeset \subseteq Fds /\ Slots \subseteq Nat /\ Slots' = Slots
      /\ map \in [Fds -> (SUBSET Events) \cup {NULL}]
  BY BuildFacts DEF KeepInv, TypeOK, TaskFrame, Slots
<1>1. map' \in [Fds -> (SUBSET Events) \cup {NULL}]
  BY <1>0, TaskOnMap
<1>2. tasks' \in Seq(Tasks)
  BY <1>0, Shortened
<1>3. epoll' \in [Fds -> SUBSET Events]
  <2>1. CASE build.kind = "epoll"
    <3>1. EpollEffect(f)
      BY <1>0, <2>1, EpollTask
    <3>2. map[f] # NULL => map[f] \in SUBSET Events
      <4>1. map[f] \in (SUBSET Events) \cup {NULL}
        BY <1>0
      <4> QED BY <4>1, Zenon
    <3>3. {"read"} \in SUBSET Events /\ {} \in SUBSET Events
      BY DEF Events
    <3> QED BY <1>0, <3>1, <3>2, <3>3 DEF EpollEffect
  <2>2. CASE build.kind # "epoll"
    BY <1>0, <2>2, TaskElsewhere
  <2> QED BY <2>1, <2>2
<1>4. slots' \in [Slots -> Slot] /\ maxfd' \in Slots /\ maxfd <= maxfd'
  <2>1. CASE build.kind = "poll"
    <3>1. PollEffect(f)
      BY <2>1, PollTask
    <3>2. FreeSlot \in Slot
      BY DEF FreeSlot, Slot
    <3>3. slots' = slots \/ \E k \in Slots, s \in Slot : slots' = [slots EXCEPT ![k] = s]
      BY <3>1, <3>2 DEF PollEffect
    <3>4. slots' \in [Slots -> Slot]
      BY <1>0, <3>3
    <3>5. maxfd' \in Slots /\ maxfd <= maxfd'
      BY <1>0, <3>1 DEF PollEffect
    <3> QED BY <3>4, <3>5
  <2>2. CASE build.kind # "poll"
    BY <1>0, <2>2, TaskElsewhere
  <2> QED BY <2>1, <2>2
<1>5. readset' \subseteq Fds /\ writeset' \subseteq Fds
  <2>1. CASE build.kind = "select"
    <3>1. SelectEffect(f)
      BY <2>1, SelectTask
    <3> QED BY <1>0, <3>1 DEF SelectEffect
  <2>2. CASE build.kind # "select"
    BY <1>0, <2>2, TaskElsewhere
  <2> QED BY <2>1, <2>2
<1>6. /\ turns' \in Nat /\ i' \in Nat /\ pc' \in Places /\ cont' \in Conts
      /\ own' \in Seq(OwnTasks)
  BY <1>0 DEF TypeOK, TaskFrame
<1> QED BY <1>0, <1>1, <1>2, <1>3, <1>4, <1>5, <1>6 DEF TypeOK, Slot

\* The round, over another step.
LEMMA RoundStep ==
  ASSUME build \in Builds, Keeps, KeepInv, Other
  PROVE  RoundInv'
<1>0. /\ pc = "write" \/ InCallback => i < Turns
      /\ InRound /\ build.kind # "poll" =>
           \A k \in 1..turns : batch[k].events # {} => batch[k].fd \in Fds
      /\ build' = build /\ maxfd' = maxfd
  BY MildStep DEF KeepInv, RoundInv, Other, MildEffect
<1>1. CASE Begin
  <2>1. BeginEffect
    BY <1>1, BeginDoes
  <2> QED BY <2>1 DEF BeginEffect, RoundInv, InCallback
<1>2. ASSUME turns' = turns, batch' = batch, InRound' => InRound,
             pc' = "write" \/ InCallback' => i' < Turns
      PROVE  RoundInv'
  <2>1. Turns' = Turns
    BY <1>0, <1>2 DEF Turns, Is
  <2> QED BY <1>0, <1>2, <2>1 DEF RoundInv
<1>3. CASE TurnEffect
  BY <1>2, <1>3 DEF TurnEffect, InRound, InCallback
<1>4. CASE CallbackStep
  <2>1. /\ pc \in {"read", "write"} /\ i < Turns
        /\ CallbackEffect(Entry.fd, IF pc = "read" THEN "write" ELSE "next")
    BY <1>4 DEF CallbackStep
  <2> QED BY <1>2, <2>1 DEF CallbackEffect, InRound
<1>5. CASE RunEventLoop
  BY <1>5 DEF RunEventLoop, RoundInv, InRound, InCallback
<1>6. CASE AddTaskEventLoop
  <2>1. cont \in Conts
    BY DEF KeepInv, TypeOK
  <2>2. turns' = turns /\ batch' = batch /\ (InRound' => InRound)
    BY <1>6, <2>1 DEF AddTaskEventLoop, Conts, InRound, InCallback
  <2>3. pc' = "write" \/ InCallback' => i' < Turns
    BY <1>0, <1>6, <2>1 DEF AddTaskEventLoop, InCallback
  <2> QED BY <1>2, <2>2, <2>3
<1>7. CASE PlaceEffect
  BY <1>0, <1>2, <1>7 DEF PlaceEffect, InRound, InCallback
<1>8. ASSUME NEW f \in Fds, acceptConnection(f) \/ Arrive(f) PROVE RoundInv'
  BY <1>0, <1>2, <1>8 DEF acceptConnection, Arrive, roundVars, InRound, InCallback
<1> QED BY <1>1, <1>3, <1>4, <1>5, <1>6, <1>7, <1>8 DEF Other

\* The round, over a task.
LEMMA RoundTask ==
  ASSUME build \in Builds, Keeps, KeepInv, NEW f \in Fds, TaskFrame(f)
  PROVE  RoundInv'
<1>0. /\ pc = "write" \/ InCallback => i < Turns
      /\ InRound /\ build.kind # "poll" =>
           \A k \in 1..turns : batch[k].events # {} => batch[k].fd \in Fds
      /\ maxfd \in Nat /\ turns \in Nat /\ i \in Nat
  BY BuildFacts DEF KeepInv, RoundInv, TypeOK
<1>1. maxfd' \in Nat /\ maxfd <= maxfd'
  <2>1. TypeOK' /\ maxfd <= maxfd' /\ Slots' = Slots
    BY TypeTask DEF TaskFrame, Slots
  <2> QED BY <2>1, BuildFacts DEF TypeOK
<1>2. UNCHANGED <<build, pc, cont, batch, turns, i>>
  BY DEF TaskFrame
<1>3. i < Turns => i' < Turns'
  <2>1. CASE Is("cpp", "poll")
    <3>1. Turns = maxfd + 1 /\ Turns' = maxfd' + 1
      BY <1>2, <2>1 DEF Turns, Is
    <3>2. i' = i /\ i \in Nat /\ maxfd \in Nat
      BY <1>0, <1>2
    <3>3. PICK n \in Nat : n = maxfd'
      BY <1>1
    <3>4. maxfd <= n
      BY <1>1, <3>3
    <3>5. i < maxfd + 1 => i < n + 1
      BY <3>2, <3>4
    <3> QED BY <3>1, <3>2, <3>3, <3>5
  <2>2. CASE ~Is("cpp", "poll")
    <3>1. Turns = turns /\ Turns' = turns'
      BY <1>2, <2>2 DEF Turns, Is
    <3> QED BY <1>2, <3>1
  <2> QED BY <2>1, <2>2
<1> QED BY <1>0, <1>2, <1>3 DEF RoundInv, InRound, InCallback

\* The queue, over another step.
LEMMA QueueStep ==
  ASSUME build \in Builds, Keeps, KeepInv, Other
  PROVE  QueueInv'
<1>0. /\ pc # "exited" =>
           /\ pc \notin {"process", "locked"} \/ cont = "wait" =>
                \A j \in 1..Len(tasks) : tasks[j][1] = "ADD"
           /\ ~InCallback => own = <<>>
      /\ tasks \in Seq(Tasks) /\ QueueInv
  BY DEF KeepInv, QueueInv, TypeOK
<1>1. CASE Begin
  <2>1. BeginEffect
    BY <1>1, BeginDoes
  <2> QED BY <1>0, <2>1 DEF BeginEffect, QueueInv, InCallback
<1>2. CASE TurnEffect
  BY <1>0, <1>2 DEF TurnEffect, QueueInv, InCallback
<1>3. CASE CallbackStep
  <2>1. /\ pc \in {"read", "write"}
        /\ CallbackEffect(Entry.fd, IF pc = "read" THEN "write" ELSE "next")
    BY <1>3 DEF CallbackStep
  <2> QED BY <1>0, <2>1, NoneInRound DEF CallbackEffect, QueueInv, InCallback
<1>4. CASE RunEventLoop
  BY <1>0, <1>4 DEF RunEventLoop, QueueInv, InCallback
<1>5. CASE AddTaskEventLoop
  <2>1. cont \in Conts
    BY DEF KeepInv, TypeOK
  <2> QED BY <1>0, <1>5, <2>1 DEF AddTaskEventLoop, Conts, QueueInv, InCallback
<1>6. CASE PlaceEffect
  BY <1>0, <1>6 DEF PlaceEffect, QueueInv, InCallback
<1>7. ASSUME NEW f \in Fds, acceptConnection(f) PROVE QueueInv'
  <2>1. tasks' = Append(tasks, <<"ADD", f>>) /\ UNCHANGED <<pc, cont, own>>
    BY <1>7 DEF acceptConnection
  <2>2. <<"ADD", f>> \in Tasks
    BY DEF Tasks
  <2>3. /\ Len(tasks) \in Nat /\ Len(tasks') = Len(tasks) + 1
        /\ tasks'[Len(tasks) + 1] = <<"ADD", f>>
        /\ \A j \in 1..Len(tasks) : tasks'[j] = tasks[j]
    BY <1>0, <2>1, <2>2, Longer
  <2>4. \A j \in 1..Len(tasks') : j = Len(tasks) + 1 \/ j \in 1..Len(tasks)
    BY <2>3
  <2> QED BY <1>0, <2>1, <2>3, <2>4 DEF QueueInv, InCallback
<1>8. ASSUME NEW f \in Fds, Arrive(f) PROVE QueueInv'
  BY <1>0, <1>8 DEF Arrive, QueueInv, InCallback
<1> QED BY <1>1, <1>2, <1>3, <1>4, <1>5, <1>6, <1>7, <1>8 DEF Other

\* The queue, over a task.
LEMMA QueueTask ==
  ASSUME build \in Builds, Keeps, KeepInv, NEW f \in Fds, TaskFrame(f)
  PROVE  QueueInv'
<1>0. /\ pc # "exited" =>
           /\ pc \notin {"process", "locked"} \/ cont = "wait" =>
                \A j \in 1..Len(tasks) : tasks[j][1] = "ADD"
           /\ ~InCallback => own = <<>>
      /\ tasks \in Seq(Tasks) /\ tasks # <<>> /\ tasks' = Tail(tasks)
      /\ UNCHANGED <<pc, cont, own>>
  BY DEF KeepInv, QueueInv, TypeOK, TaskFrame
<1>1. /\ Len(tasks) \in Nat \ {0} /\ Len(tasks') = Len(tasks) - 1
      /\ \A j \in 1..Len(tasks') : tasks'[j] = tasks[j + 1]
  BY <1>0, Shortened
<1>2. \A j \in 1..Len(tasks') : j + 1 \in 1..Len(tasks)
  BY <1>1
<1> QED BY <1>0, <1>1, <1>2 DEF QueueInv, InCallback

\* The builds without _SEND_MSG_AUTO, over another step.
LEMMA PlainStep ==
  ASSUME build \in Builds, Keeps, KeepInv, Other
  PROVE  PlainInv'
<1>1. build' = build /\ epoll' = epoll /\ writeset' = writeset /\ (Plain => map' = map)
  BY MildStep DEF Other, MildEffect
<1>2. SUFFICES ASSUME Plain
               PROVE  /\ \A j \in 1..Len(own') : own'[j][1] # "MODIFY"
                      /\ \A j \in 1..Len(tasks') : tasks'[j][1] # "MODIFY"
                      /\ InRound' => \A k \in 1..turns' : "write" \notin batch'[k].events
                      /\ InCallback' => \A f \in Fds : Pending(f)' => f = batch'[i' + 1].fd
  <2>1. Plain' <=> Plain
    BY <1>1 DEF Plain, Is
  <2>2. Plain => /\ writeset' = {}
                 /\ \A f \in Fds : epoll'[f] \subseteq {"read"} /\ map'[f] \in {{"read"}, NULL}
    BY <1>1 DEF KeepInv, PlainInv
  <2> QED BY <1>2, <2>1, <2>2 DEF PlainInv
<1>3. /\ \A j \in 1..Len(own) : own[j][1] # "MODIFY"
      /\ \A j \in 1..Len(tasks) : tasks[j][1] # "MODIFY"
      /\ InRound => \A k \in 1..turns : "write" \notin batch[k].events
      /\ InCallback => \A f \in Fds : Pending(f) => f = batch[i + 1].fd
      /\ TypeOK /\ tasks \in Seq(Tasks) /\ own \in Seq(OwnTasks)
  BY <1>2 DEF KeepInv, PlainInv, TypeOK
<1> DEFINE Goal == /\ \A j \in 1..Len(own') : own'[j][1] # "MODIFY"
                   /\ \A j \in 1..Len(tasks') : tasks'[j][1] # "MODIFY"
                   /\ InRound' => \A k \in 1..turns' : "write" \notin batch'[k].events
                   /\ InCallback' => \A f \in Fds : Pending(f)' => f = batch'[i' + 1].fd
<1>4. CASE Begin
  <2>1. BeginEffect
    BY <1>4, BeginDoes
  <2> QED BY <1>2, <1>3, <2>1 DEF BeginEffect, InCallback
<1>5. CASE TurnEffect
  BY <1>3, <1>5 DEF TurnEffect, InRound, InCallback
<1>6. CASE CallbackStep
  <2>1. PICK e \in Events :
          /\ pc \in {"read", "write"} /\ i < Turns /\ e \in Entry.events
          /\ CallbackEffect(Entry.fd, IF pc = "read" THEN "write" ELSE "next")
    BY <1>6 DEF CallbackStep
  <2>2. Entry = batch[i + 1]
    BY <1>2, <2>1, EntryFacts
  <2>3. own = <<>> /\ \A j \in 1..Len(tasks) : tasks[j][1] = "ADD"
    BY <2>1, NoneInRound DEF KeepInv
  <2>4. UNCHANGED <<batch, turns, i, tasks>>
    BY <2>1 DEF CallbackEffect
  <2>5. \A j \in 1..Len(own') : own'[j][1] # "MODIFY" /\ own'[j][2] = batch[i + 1].fd
    BY <1>2, <2>1, <2>2, <2>3 DEF CallbackEffect
  <2>6. \A f \in Fds : Pending(f)' => f = batch'[i' + 1].fd
    BY <2>3, <2>4, <2>5 DEF Pending
  <2> QED BY <1>3, <2>1, <2>4, <2>5, <2>6 DEF InRound
<1>7. CASE RunEventLoop
  BY <1>3, <1>7 DEF RunEventLoop, InRound, InCallback
<1>8. CASE AddTaskEventLoop
  <2>0. cont \in Conts
    BY DEF KeepInv, TypeOK
  <2>1. UNCHANGED <<batch, turns>> /\ (InRound' => InRound) /\ (InCallback' => InCallback /\ i' = i)
    BY <1>8, <2>0 DEF AddTaskEventLoop, Conts, InRound, InCallback
  <2>2. \A f \in Fds : Pending(f)' <=> Pending(f)
    BY <1>3, <1>8, MovedIsPending
  <2>3. /\ \A j \in 1..Len(own') : own'[j][1] # "MODIFY"
        /\ \A j \in 1..Len(tasks') : tasks'[j][1] # "MODIFY"
    <3>1. CASE own = <<>>
      BY <1>3, <1>8, <3>1 DEF AddTaskEventLoop
    <3>2. CASE own # <<>>
      <4>1. PICK t \in OwnTasks : t = own[1] /\ t = Head(own)
        BY <1>3, <3>2, Shortened
      <4>2. tasks' = Append(tasks, t) /\ own' = Tail(own) /\ t \in Tasks
        BY <1>8, <3>2, <4>1 DEF AddTaskEventLoop, OwnTasks, Tasks
      <4>3. /\ Len(own) \in Nat \ {0} /\ Len(own') = Len(own) - 1
            /\ \A j \in 1..Len(own') : own'[j] = own[j + 1]
        BY <1>3, <3>2, <4>2, Shortened
      <4>4. /\ Len(tasks) \in Nat /\ Len(tasks') = Len(tasks) + 1
            /\ tasks'[Len(tasks) + 1] = t
            /\ \A j \in 1..Len(tasks) : tasks'[j] = tasks[j]
        BY <1>3, <4>2, Longer
      <4>5. \A j \in 1..Len(own') : j + 1 \in 1..Len(own)
        BY <4>3
      <4>6. \A j \in 1..Len(tasks') : j = Len(tasks) + 1 \/ j \in 1..Len(tasks)
        BY <4>4
      <4>7. 1 \in 1..Len(own)
        BY <4>3
      <4> QED BY <1>3, <4>1, <4>3, <4>4, <4>5, <4>6, <4>7
    <3> QED BY <3>1, <3>2
  <2> QED BY <1>3, <2>1, <2>2, <2>3
<1>9. CASE PlaceEffect
  BY <1>3, <1>9 DEF PlaceEffect, InRound, InCallback, Pending
<1>10. ASSUME NEW g \in Fds, acceptConnection(g) PROVE Goal
  <2>1. tasks' = Append(tasks, <<"ADD", g>>) /\ UNCHANGED <<pc, cont, own, batch, turns, i>>
    BY <1>10 DEF acceptConnection, roundVars
  <2>2. <<"ADD", g>> \in Tasks
    BY DEF Tasks
  <2>3. /\ Len(tasks) \in Nat /\ Len(tasks') = Len(tasks) + 1
        /\ tasks'[Len(tasks) + 1] = <<"ADD", g>>
        /\ \A j \in 1..Len(tasks) : tasks'[j] = tasks[j]
    BY <1>3, <2>1, <2>2, Longer
  <2>4. \A j \in 1..Len(tasks') : j = Len(tasks) + 1 \/ j \in 1..Len(tasks)
    BY <2>3
  <2>5. \A j \in 1..Len(tasks') : tasks'[j][1] # "MODIFY"
    BY <1>3, <2>3, <2>4
  <2>6. \A f \in Fds : Pending(f)' <=> Pending(f)
    BY <1>3, <1>10, AcceptedIsNotPending
  <2>7. (InRound' => InRound) /\ (InCallback' => InCallback)
    BY <2>1 DEF InRound, InCallback
  <2> QED BY <1>3, <2>1, <2>5, <2>6, <2>7
<1>11. ASSUME NEW g \in Fds, Arrive(g) PROVE Goal
  BY <1>3, <1>11 DEF Arrive, roundVars, InRound, InCallback, Pending
<1> QED BY <1>4, <1>5, <1>6, <1>7, <1>8, <1>9, <1>10, <1>11 DEF Other

\* The same over a task.
LEMMA PlainTask ==
  ASSUME build \in Builds, Keeps, KeepInv, NEW f \in Fds, TaskFrame(f)
  PROVE  PlainInv'
<1>0. /\ TypeOK /\ tasks \in Seq(Tasks) /\ tasks # <<>> /\ tasks' = Tail(tasks)
      /\ UNCHANGED <<build, pc, cont, own, batch, turns, i>> /\ f = tasks[1][2]
      /\ epoll \in [Fds -> SUBSET Events]
      /\ map \in [Fds -> (SUBSET Events) \cup {NULL}]
  BY DEF KeepInv, TypeOK, TaskFrame
<1>1. /\ Len(tasks) \in Nat \ {0} /\ Len(tasks') = Len(tasks) - 1 /\ tasks[1] \in Tasks
      /\ \A j \in 1..Len(tasks') : tasks'[j] = tasks[j + 1]
  BY <1>0, Shortened
<1>2. \A j \in 1..Len(tasks') : j + 1 \in 1..Len(tasks)
  BY <1>1
<1>3. SUFFICES ASSUME Plain
               PROVE  /\ writeset' = {}
                      /\ \A g \in Fds : epoll'[g] \subseteq {"read"} /\ map'[g] \in {{"read"}, NULL}
                      /\ \A g \in Fds : Pending(g)' => Pending(g)
                      /\ \A j \in 1..Len(tasks') : tasks'[j][1] # "MODIFY"
  <2>1. Plain' <=> Plain
    BY <1>0 DEF Plain, Is
  <2>2. (InRound' <=> InRound) /\ (InCallback' <=> InCallback)
    BY <1>0 DEF InRound, InCallback
  <2> QED BY <1>0, <1>3, <2>1, <2>2 DEF KeepInv, PlainInv
<1>4. /\ writeset = {} /\ \A g \in Fds : epoll[g] \subseteq {"read"} /\ map[g] \in {{"read"}, NULL}
      /\ \A j \in 1..Len(tasks) : tasks[j][1] # "MODIFY"
  BY <1>3 DEF KeepInv, PlainInv
<1>5. \A j \in 1..Len(tasks') : tasks'[j][1] # "MODIFY"
  BY <1>1, <1>2, <1>4
<1>6. ASSUME NEW g \in Fds, Pending(g)' PROVE Pending(g)
  BY <1>0, <1>1, <1>2, <1>6 DEF Pending
<1>7. \A g \in Fds : map'[g] \in {{"read"}, NULL}
  <2>1. \A g \in Fds \ {f} : map'[g] = map[g]
    BY <1>0, TaskOnMap
  <2>2. \/ map' = map
        \/ map' = [map EXCEPT ![f] = {"read"}]
        \/ map' = [map EXCEPT ![f] = NULL]
    BY <1>0, <1>1, TaskOnMap DEF Tasks
  <2>3. map'[f] = map[f] \/ map'[f] = {"read"} \/ map'[f] = NULL
    BY <1>0, <2>2
  <2> QED BY <1>4, <2>1, <2>3
<1>8. \A g \in Fds : epoll'[g] \subseteq {"read"}
  <2>1. CASE build.kind = "epoll"
    <3>1. EpollEffect(f)
      BY <1>0, <2>1, EpollTask
    <3>2. \/ epoll' = epoll \/ epoll' = [epoll EXCEPT ![f] = {"read"}]
          \/ epoll' = [epoll EXCEPT ![f] = {}]
      <4>1. tasks[1][1] # "MODIFY"
        BY <1>1, <1>4
      <4> QED BY <3>1, <4>1 DEF EpollEffect
    <3> QED BY <1>0, <1>4, <3>2
  <2>2. CASE build.kind # "epoll"
    BY <1>4, <2>2, TaskElsewhere
  <2> QED BY <2>1, <2>2
<1>9. writeset' = {}
  <2>1. CASE build.kind = "select"
    BY <2>1, SelectTask DEF SelectEffect
  <2>2. CASE build.kind # "select"
    BY <1>4, <2>2, TaskElsewhere
  <2> QED BY <2>1, <2>2
<1> QED BY <1>5, <1>6, <1>7, <1>8, <1>9

(* The entries that are still to be visited.                               *)
Ahead == IF pc = "read" THEN i ELSE i + 1

\* What is due, over another step.
LEMMA DueStep ==
  ASSUME build \in Builds, Keeps, KeepInv, Other
  PROVE  DueInv'
<1>0. /\ InRound /\ build.kind = "poll" =>
           \A k \in Slots : \A e \in slots[k].revents \cap Events : <<slots[k].fd, e>> \in due
      /\ InRound /\ Plain =>
           /\ \A k, m \in 1..turns : batch[k].fd = batch[m].fd => k = m
           /\ \A k \in 1..turns :
                k > Ahead /\ "read" \in batch[k].events => <<batch[k].fd, "read">> \in due
      /\ i \in Nat /\ turns \in Nat
  BY DEF KeepInv, DueInv, Ahead, TypeOK
<1>1. build' = build /\ Slots' = Slots /\ (Plain' <=> Plain)
  BY MildStep DEF Other, MildEffect, Slots, Plain, Is
<1>2. CASE Begin
  <2>1. BeginEffect
    BY <1>2, BeginDoes
  <2>2. build.kind = "poll" =>
          \A k \in Slots : \A e \in slots'[k].revents \cap Events : <<slots'[k].fd, e>> \in due'
    BY <2>1 DEF BeginEffect
  <2>3. Plain =>
           /\ \A k, m \in 1..turns' : batch'[k].fd = batch'[m].fd => k = m
           /\ \A k \in 1..turns' : "read" \in batch'[k].events => <<batch'[k].fd, "read">> \in due'
    BY <2>1 DEF BeginEffect
  <2> QED BY <1>1, <2>2, <2>3 DEF DueInv
<1>3. ASSUME UNCHANGED <<slots, turns, batch, due>>, InRound' => InRound /\ Ahead <= Ahead',
             i' \in Nat
      PROVE  DueInv'
  <2>1. Ahead \in Nat /\ Ahead' \in Nat
    <3>1. Ahead \in Nat
      BY <1>0 DEF Ahead
    <3>2. i' \in Nat
      BY <1>3
    <3>3. PICK n \in Nat : n = i'
      BY <3>2
    <3>4. n \in Nat /\ n + 1 \in Nat
      OBVIOUS
    <3>5. Ahead' \in Nat
      BY <3>3, <3>4 DEF Ahead
    <3> QED BY <3>1, <3>5
  <2>2. \A k \in 1..turns : InRound' /\ k > Ahead' => k > Ahead
    BY <1>0, <1>3, <2>1
  <2>3. InRound' /\ build.kind = "poll" =>
           \A k \in Slots : \A e \in slots'[k].revents \cap Events : <<slots'[k].fd, e>> \in due'
    BY <1>0, <1>3
  <2>4. InRound' /\ Plain =>
           /\ \A k, m \in 1..turns' : batch'[k].fd = batch'[m].fd => k = m
           /\ \A k \in 1..turns' :
                k > Ahead' /\ "read" \in batch'[k].events => <<batch'[k].fd, "read">> \in due'
    BY <1>0, <1>3, <2>2
  <2> QED BY <1>1, <2>3, <2>4 DEF DueInv, Ahead
<1>4. CASE TurnEffect
  <2>1. UNCHANGED <<slots, turns, batch, due>> /\ InRound /\ i' \in Nat
    BY <1>0, <1>4 DEF TurnEffect, tables, InRound
  <2>2. Ahead <= Ahead'
    BY <1>0, <1>4 DEF TurnEffect, Ahead
  <2> QED BY <1>3, <2>1, <2>2
<1>5. CASE CallbackStep
  <2>1. /\ pc \in {"read", "write"}
        /\ CallbackEffect(Entry.fd, IF pc = "read" THEN "write" ELSE "next")
    BY <1>5 DEF CallbackStep
  <2>2. UNCHANGED <<slots, turns, batch, due, i>> /\ InRound
    BY <2>1 DEF CallbackEffect, InRound
  <2>3. pc' # "read"
    BY <2>1 DEF CallbackEffect
  <2>4. Ahead <= Ahead'
    BY <1>0, <2>2, <2>3 DEF Ahead
  <2> QED BY <1>0, <1>3, <2>2, <2>4
<1>6. CASE RunEventLoop
  BY <1>6 DEF RunEventLoop, DueInv, InRound, InCallback
<1>7. CASE AddTaskEventLoop
  <2>0. cont \in Conts
    BY DEF KeepInv, TypeOK
  <2>1. UNCHANGED <<slots, turns, batch, due>> /\ (InRound' => InRound) /\ i' \in Nat
    BY <1>0, <1>7, <2>0 DEF AddTaskEventLoop, Conts, InRound, InCallback, dataVars, pollVars
  <2>2. InRound' => Ahead <= Ahead'
    BY <1>0, <1>7, <2>0 DEF AddTaskEventLoop, Conts, InRound, InCallback, Ahead
  <2> QED BY <1>3, <2>1, <2>2
<1>8. CASE PlaceEffect
  <2>1. UNCHANGED <<slots, turns, batch, due, i>> /\ (InRound' => InRound)
    BY <1>8 DEF PlaceEffect, tables, InRound, InCallback
  <2>2. Ahead <= Ahead'
    BY <1>0, <1>8 DEF PlaceEffect, Ahead
  <2> QED BY <1>0, <1>3, <2>1, <2>2
<1>9. ASSUME NEW f \in Fds, acceptConnection(f) \/ Arrive(f) PROVE DueInv'
  <2>1. UNCHANGED <<slots, turns, batch, due, i, pc, cont>>
    BY <1>9 DEF acceptConnection, Arrive, dataVars, pollVars, roundVars
  <2>2. (InRound' => InRound) /\ Ahead <= Ahead'
    BY <1>0, <2>1 DEF InRound, InCallback, Ahead
  <2> QED BY <1>0, <1>3, <2>1, <2>2
<1> QED BY <1>2, <1>4, <1>5, <1>6, <1>7, <1>8, <1>9 DEF Other

\* What is due, over a task, which takes only the descriptor it deletes out of the round.
LEMMA DueTask ==
  ASSUME build \in Builds, Keeps, KeepInv, NEW f \in Fds, TaskFrame(f), TaskEffect
  PROVE  DueInv'
<1>0. /\ InRound /\ build.kind = "poll" =>
           \A k \in Slots : \A e \in slots[k].revents \cap Events : <<slots[k].fd, e>> \in due
      /\ InRound /\ Plain =>
           /\ \A k, m \in 1..turns : batch[k].fd = batch[m].fd => k = m
           /\ \A k \in 1..turns :
                k > Ahead /\ "read" \in batch[k].events => <<batch[k].fd, "read">> \in due
      /\ i \in Nat /\ turns \in Nat /\ slots \in [Slots -> Slot]
      /\ tasks \in Seq(Tasks) /\ tasks # <<>>
  BY DEF KeepInv, DueInv, Ahead, TypeOK, TaskFrame
<1>1. UNCHANGED <<build, batch, turns, i, pc, cont>> /\ pc \in {"process", "locked"}
  BY DEF TaskFrame, TaskEffect
<1>2. Slots' = Slots /\ (Plain' <=> Plain) /\ (InRound' <=> InRound)
  BY <1>1 DEF Slots, Plain, Is, InRound, InCallback
<1>3. due' = IF tasks[1][1] = "DELETE" THEN {d \in due : d[1] # f} ELSE due
  BY TaskElsewhere
<1>4. ASSUME InRound, build.kind = "poll", NEW k \in Slots, NEW e \in slots'[k].revents \cap Events
      PROVE  <<slots'[k].fd, e>> \in due'
  <2>0. PollInv
    BY DEF KeepInv
  <2>1. ASSUME slots'[k].fd = slots[k].fd, slots'[k].revents = slots[k].revents,
               tasks[1][1] = "DELETE" => slots[k].fd # f
        PROVE  <<slots'[k].fd, e>> \in due'
    <3>1. <<slots[k].fd, e>> \in due
      BY <1>0, <1>4, <2>1
    <3>2. CASE tasks[1][1] = "DELETE"
      BY <1>3, <2>1, <3>1, <3>2
    <3>3. CASE tasks[1][1] # "DELETE"
      BY <1>3, <2>1, <3>1, <3>3
    <3> QED BY <3>2, <3>3
  <2>2. PollEffect(f)
    BY <1>4, PollTask
  <2>3. CASE /\ slots' = slots
             /\ tasks[1][1] # "ADD" /\ map[f] # NULL => \A m \in Slots : slots[m].fd # f
    <3>1. map[f] = NULL => slots[k].fd # f
      BY <1>4, <2>0, BuildFacts DEF PollInv
    <3> QED BY <2>1, <2>3, <3>1
  <2>4. ASSUME NEW m \in Slots, NEW s \in Slot, tasks[1][1] = "ADD", slots[m].fd = NoFd,
               s.revents = slots[m].revents, slots' = [slots EXCEPT ![m] = s]
        PROVE  <<slots'[k].fd, e>> \in due'
    <3>1. slots[m].revents = {}
      BY <1>4, <2>0, <2>4 DEF PollInv
    <3>2. k # m
      BY <1>0, <1>4, <2>4, <3>1
    <3>3. slots'[k] = slots[k]
      BY <1>0, <2>4, <3>2
    <3> QED BY <2>1, <2>4, <3>3
  <2>5. ASSUME NEW m \in Slots, NEW s \in Slot, tasks[1][1] = "MODIFY", slots[m].fd = f, s.fd = f,
               s.revents = slots[m].revents, slots' = [slots EXCEPT ![m] = s]
        PROVE  <<slots'[k].fd, e>> \in due'
    <3>1. slots'[k].fd = slots[k].fd /\ slots'[k].revents = slots[k].revents
      BY <1>0, <2>5
    <3> QED BY <2>1, <2>5, <3>1
  <2>6. ASSUME NEW m \in Slots, tasks[1][1] = "DELETE", slots[m].fd = f,
               slots' = [slots EXCEPT ![m] = FreeSlot]
        PROVE  <<slots'[k].fd, e>> \in due'
    <3>1. FreeSlot.revents = {}
      BY DEF FreeSlot
    <3>2. k # m
      BY <1>0, <1>4, <2>6, <3>1
    <3>3. slots'[k] = slots[k]
      BY <1>0, <2>6, <3>2
    <3>4. slots[k].fd # f
      BY <1>4, <2>0, <2>6, <3>2, BuildFacts DEF PollInv
    <3> QED BY <2>1, <3>3, <3>4
  <2> QED BY <2>2, <2>3, <2>4, <2>5, <2>6 DEF PollEffect
<1>5. ASSUME InRound, Plain, NEW k \in 1..turns, k > Ahead, "read" \in batch[k].events
      PROVE  <<batch[k].fd, "read">> \in due'
  <2>1. <<batch[k].fd, "read">> \in due
    BY <1>0, <1>5
  <2>2. CASE tasks[1][1] # "DELETE"
    BY <1>3, <2>1, <2>2
  <2>3. CASE tasks[1][1] = "DELETE"
    <3>1. InCallback
      BY <1>1, <1>5 DEF InRound
    <3>2. Pending(f)
      <4>1. 1 \in 1..Len(tasks) /\ tasks[1][2] = f
        BY <1>0, Shortened DEF TaskFrame
      <4> QED BY <2>3, <4>1 DEF Pending
    <3>3. f = batch[i + 1].fd
      BY <1>5, <3>1, <3>2 DEF KeepInv, PlainInv
    <3>4. i < turns
      <4>1. i < Turns
        BY <3>1 DEF KeepInv, RoundInv
      <4>2. Turns = turns
        BY <1>5 DEF Turns, Plain, Is
      <4> QED BY <4>1, <4>2
    <3>5. i + 1 \in 1..turns /\ k # i + 1
      BY <1>0, <1>1, <1>5, <3>4 DEF Ahead
    <3>6. batch[k].fd # f
      BY <1>0, <1>5, <3>3, <3>5
    <3> QED BY <1>3, <2>1, <2>3, <3>6
  <2> QED BY <2>2, <2>3
<1>6. Ahead' = Ahead
  BY <1>1 DEF Ahead
<1>7. InRound' /\ Plain' =>
        /\ \A k, m \in 1..turns' : batch'[k].fd = batch'[m].fd => k = m
        /\ \A k \in 1..turns' :
             k > Ahead' /\ "read" \in batch'[k].events => <<batch'[k].fd, "read">> \in due'
  BY <1>0, <1>1, <1>2, <1>5, <1>6
<1> QED BY <1>1, <1>2, <1>4, <1>7 DEF DueInv, Ahead

-----------------------------------------------------------------------------
(* The invariant.                                                          *)

\* A new loop.
LEMMA InitInv ==
  ASSUME Init
  PROVE  DispatchInv
<1>0. /\ build \in Builds /\ pc = "wait" /\ cont = "wait" /\ tasks = <<>> /\ own = <<>>
      /\ turns = 0 /\ i = 0 /\ maxfd = 0 /\ refused = {} /\ leaked = {}
      /\ map = [f \in Fds |-> IF f = Wake THEN {"read"} ELSE NULL]
      /\ epoll = [f \in Fds |-> IF f = Wake /\ build.kind = "epoll" THEN {"read"} ELSE {}]
      /\ readset = (IF build.kind = "select" THEN {Wake} ELSE {}) /\ writeset = {}
      /\ slots = [k \in Slots |-> IF k = 0 /\ build.kind = "poll"
                                    THEN [FreeSlot EXCEPT !.fd = Wake, !.events = {"read"}]
                                    ELSE FreeSlot]
  BY DEF Init, epollinit, pollinit, selectinit, Slots
<1>1. /\ build.max \in Nat \ {0} /\ Slots \subseteq Nat /\ Wake \in Fds /\ Fds \subseteq Nat
      /\ NoFd \notin Fds /\ Wake = 0
  BY <1>0, BuildFacts DEF Wake
<1>2. 0 \in Slots
  BY <1>1 DEF Slots
<1> DEFINE first == [FreeSlot EXCEPT !.fd = Wake, !.events = {"read"}]
<1>3. /\ FreeSlot \in Slot /\ FreeSlot.fd = NoFd /\ FreeSlot.events = {} /\ FreeSlot.revents = {}
  BY DEF FreeSlot, Slot
<1>4. {"read"} \in SUBSET Events
  BY DEF Events
<1>5. first \in Slot /\ first.fd = Wake /\ first.events = {"read"} /\ first.revents = {}
  BY <1>1, <1>4 DEF FreeSlot, Slot
<1> HIDE DEF first
<1>6. slots = [k \in Slots |-> IF k = 0 /\ build.kind = "poll" THEN first ELSE FreeSlot]
  BY <1>0 DEF first
<1>7. TypeOK
  <2>1. map \in [Fds -> (SUBSET Events) \cup {NULL}]
    BY <1>0, <1>4
  <2>2. epoll \in [Fds -> SUBSET Events]
    BY <1>0, <1>4
  <2>3. slots \in [Slots -> Slot]
    BY <1>3, <1>5, <1>6
  <2> QED BY <1>0, <1>1, <1>2, <2>1, <2>2, <2>3 DEF TypeOK, Places
<1>8. ~InRound /\ ~InCallback /\ \A f \in Fds : ~Pending(f)
  BY <1>0 DEF InRound, InCallback, Pending
<1>9. RoundInv /\ QueueInv /\ DueInv
  BY <1>0, <1>8 DEF RoundInv, QueueInv, DueInv
<1>10. \A f \in Fds : map[f] = IF f = Wake THEN {"read"} ELSE NULL
  BY <1>0
<1>11. {"read"} # NULL
  BY DEF NULL
<1>12. EpollInv
  BY <1>0, <1>10, <1>11 DEF EpollInv, Known
<1>13. SelectInv
  BY <1>0, <1>10, <1>11 DEF SelectInv, Known
<1>14. PlainInv
  BY <1>0, <1>8, <1>10 DEF PlainInv
<1>15. ASSUME build.kind = "poll" PROVE PollInv
  <2>1. slots[0] = first /\ \A k \in Slots : k # 0 => slots[k] = FreeSlot
    BY <1>2, <1>6, <1>15
  <2>2. /\ \A k, m \in Slots : slots[k].fd = slots[m].fd /\ slots[k].fd # NoFd => k = m
        /\ \A k \in Slots : slots[k].fd # NoFd => k = 0 /\ slots[k].fd = Wake
        /\ \A k \in Slots : slots[k].fd = NoFd => slots[k].events = {} /\ slots[k].revents = {}
    BY <1>1, <1>3, <1>5, <2>1
  <2>3. \A f \in Fds : Known(f) => f = Wake
    BY <1>10 DEF Known
  <2>4. slots[0].fd = Wake /\ slots[0].events = map[Wake]
    BY <1>1, <1>5, <1>10, <2>1
  <2>5. \A k \in Slots : slots[k].fd # NoFd => k <= maxfd /\ map[slots[k].fd] # NULL
    BY <1>0, <1>1, <1>10, <1>11, <2>2
  <2> QED BY <1>2, <2>2, <2>3, <2>4, <2>5 DEF PollInv
<1>16. build.kind # "poll" => PollInv
  BY DEF PollInv
<1> QED BY <1>0, <1>7, <1>9, <1>12, <1>13, <1>14, <1>15, <1>16 DEF DispatchInv, KeepInv

\* The build does not change.
LEMMA BuildStays ==
  ASSUME Next
  PROVE  build' = build
<1>1. CASE Dispatch
  BY <1>1 DEF Dispatch, epolldispatch, polldispatch, PollDispatcher_dispatch, selectdispatch,
     SelectDispatcher_dispatch, Selected, DispatchRead, DispatchWrite, Move, eventActive
<1>2. CASE RunEventLoop \/ AddTaskEventLoop \/ processTaskEventLoop \/ processTaskQ
  BY <1>2 DEF RunEventLoop, AddTaskEventLoop, processTaskEventLoop, processTaskQ, Execute, Processed
<1>3. CASE \E f \in Fds : acceptConnection(f) \/ Arrive(f)
  BY <1>3 DEF acceptConnection, Arrive
<1> QED BY <1>1, <1>2, <1>3 DEF Next, Loop

\* Every step keeps the invariant.
LEMMA StepInv ==
  ASSUME DispatchInv, Next
  PROVE  DispatchInv'
<1>1. build' = build /\ build \in Builds
  BY BuildStays DEF DispatchInv
<1>2. SUFFICES ASSUME Keeps PROVE KeepInv'
  <2>1. Keeps' <=> Keeps
    BY <1>1 DEF Keeps, Is
  <2> QED BY <1>1, <1>2, <2>1 DEF DispatchInv
<1>3. KeepInv
  BY <1>2 DEF DispatchInv
<1>4. Other \/ TaskEffect
  BY <1>1, <1>2, <1>3, Steps DEF Other
<1>5. CASE Other
  <2>1. MildEffect
    BY <1>1, <1>2, <1>3, <1>5, MildStep DEF Other
  <2>2. EpollInv' /\ PollInv' /\ SelectInv'
    BY <1>1, <1>2, <1>3, <1>5, <2>1, MildTables, SlotsStep
  <2>3. TypeOK' /\ RoundInv' /\ QueueInv' /\ PlainInv' /\ DueInv'
    BY <1>1, <1>2, <1>3, <1>5, TypeStep, RoundStep, QueueStep, PlainStep, DueStep
  <2> QED BY <2>2, <2>3 DEF KeepInv
<1>6. CASE TaskEffect
  <2>1. PICK f \in Fds : TaskFrame(f)
    BY <1>3, <1>6, TaskDoes DEF KeepInv
  <2>2. EpollInv' /\ PollInv' /\ SelectInv'
    BY <1>1, <1>2, <1>3, <2>1, EpollStep, PollStep, SelectStep
  <2>3. TypeOK' /\ RoundInv' /\ QueueInv' /\ PlainInv' /\ DueInv'
    BY <1>1, <1>2, <1>3, <1>6, <2>1, TypeTask, RoundTask, QueueTask, PlainTask, DueTask
  <2> QED BY <2>2, <2>3 DEF KeepInv
<1> QED BY <1>4, <1>5, <1>6

\* The inductive invariant holds in every state of a build that keeps its word.
THEOREM DispatcherInvariant == Spec => []DispatchInv
<1>1. Init => DispatchInv
  BY InitInv
<1>2. DispatchInv /\ [Next]_vars => DispatchInv'
  <2>1. DispatchInv /\ Next => DispatchInv'
    BY StepInv
  <2>2. DispatchInv /\ UNCHANGED vars => DispatchInv'
    <3> SUFFICES ASSUME DispatchInv, UNCHANGED vars PROVE DispatchInv'
      OBVIOUS
    <3>1. /\ UNCHANGED <<build, map, epoll, slots, maxfd, readset, writeset, batch, turns, i>>
          /\ UNCHANGED <<pc, cont, tasks, own, refused, leaked, due>>
      BY DEF vars, dataVars, epollVars, pollVars, selectVars, roundVars
    <3>2. Keeps' = Keeps
      BY <3>1 DEF Keeps, Is
    <3>3. ASSUME KeepInv PROVE TypeOK' /\ QueueInv'
      BY <3>1, <3>3 DEF KeepInv, TypeOK, Slots, QueueInv, InCallback
    <3>4. ASSUME KeepInv PROVE RoundInv'
      BY <3>1, <3>4 DEF KeepInv, RoundInv, InRound, InCallback, Turns, Is
    <3>5. ASSUME KeepInv PROVE EpollInv' /\ SelectInv'
      BY <3>1, <3>5 DEF KeepInv, EpollInv, SelectInv, Known, Pending
    <3>6. ASSUME KeepInv PROVE PollInv'
      BY <3>1, <3>6 DEF KeepInv, PollInv, Known, Pending, Slots
    <3>7. ASSUME KeepInv PROVE PlainInv'
      BY <3>1, <3>7 DEF KeepInv, PlainInv, Plain, Is, InRound, InCallback, Pending
    <3>8. ASSUME KeepInv PROVE DueInv'
      BY <3>1, <3>8 DEF KeepInv, DueInv, Plain, Is, InRound, InCallback, Slots
    <3> QED BY <3>1, <3>2, <3>3, <3>4, <3>5, <3>6, <3>7, <3>8 DEF DispatchInv, KeepInv
  <2> QED BY <2>1, <2>2
<1> QED BY <1>1, <1>2, PTL DEF Spec

-----------------------------------------------------------------------------
(* What it is for.                                                         *)

(* When the loop sleeps no task is pending, so the invariant says that the *)
(* kernel watches what the channels ask for: epoll_ctl(), the slots of     *)
(* poll() up to m_maxfd, the bits of select().                             *)
LEMMA SleepsInAgreement ==
  ASSUME DispatchInv
  PROVE  WatchesInterest
<1>1. SUFFICES ASSUME Keeps, pc = "wait", NEW f \in Fds
               PROVE  /\ map[f] = NULL => Watched(f) = {}
                      /\ Known(f) => Watched(f) = map[f]
  BY DEF WatchesInterest, Known
<1>2. build \in Builds /\ KeepInv /\ build.kind \in {"epoll", "poll", "select"}
  BY <1>1, BuildFacts DEF DispatchInv
<1>3. ~Pending(f)
  BY <1>1, <1>2 DEF KeepInv, QueueInv, InCallback, Pending
<1>4. CASE build.kind = "epoll"
  <2>1. Watched(f) = epoll[f]
    BY <1>4 DEF Watched
  <2> QED BY <1>2, <1>3, <1>4, <2>1 DEF KeepInv, EpollInv
<1>5. CASE build.kind = "poll"
  <2>1. Watched(f) = UNION {slots[k].events : k \in {k \in 0..maxfd : slots[k].fd = f}}
    BY <1>5 DEF Watched
  <2>2. /\ PollInv /\ maxfd \in Slots /\ Slots \subseteq Nat /\ f # NoFd
        /\ \A k \in 0..maxfd : k \in Slots
    BY <1>2, BuildFacts DEF KeepInv, TypeOK, Slots
  <2>3. CASE map[f] = NULL
    <3>1. \A k \in 0..maxfd : slots[k].fd # f
      BY <1>5, <2>2, <2>3 DEF PollInv
    <3>2. Watched(f) = {}
      BY <2>1, <3>1
    <3> QED BY <2>3, <3>2 DEF Known
  <2>4. CASE map[f] # NULL
    <3>1. SUFFICES ASSUME Known(f) PROVE Watched(f) = map[f]
      BY <2>4
    <3>2. PICK k \in Slots : slots[k].fd = f /\ slots[k].events = map[f]
      BY <1>3, <1>5, <2>2, <3>1 DEF PollInv
    <3>3. k \in 0..maxfd
      BY <1>5, <2>2, <3>2 DEF PollInv
    <3>4. \A m \in 0..maxfd : slots[m].fd = f => m = k
      BY <1>5, <2>2, <3>2 DEF PollInv
    <3>5. {m \in 0..maxfd : slots[m].fd = f} = {k}
      BY <3>2, <3>3, <3>4
    <3>6. Watched(f) = UNION {slots[m].events : m \in {k}}
      BY <2>1, <3>5
    <3> QED BY <3>2, <3>6
  <2> QED BY <2>3, <2>4
<1>6. CASE build.kind = "select"
  <2>1. Watched(f) = {e \in Events : f \in (IF e = "read" THEN readset ELSE writeset)}
    BY <1>6 DEF Watched
  <2>2. writeset = {} /\ map[f] \in {{"read"}, NULL}
    BY <1>1, <1>2, <1>6, BuildFacts DEF KeepInv, PlainInv
  <2>3. (map[f] = NULL => f \notin readset) /\ (Known(f) => f \in readset /\ map[f] = {"read"})
    BY <1>2, <1>6, <2>2 DEF KeepInv, SelectInv, Known
  <2>4. f \notin readset => Watched(f) = {}
    BY <2>1, <2>2
  <2>5. f \in readset => Watched(f) = {"read"}
    BY <2>1, <2>2 DEF Events
  <2> QED BY <2>3, <2>4, <2>5
<1> QED BY <1>2, <1>4, <1>5, <1>6

(* WatchesInterest, for every set of descriptors and every size of the     *)
(* array of poll() and of the sets of select(): when the loop goes to      *)
(* sleep in epoll_wait(), poll() or select(), the kernel watches every     *)
(* channel for the events it asks for, and nothing else.                   *)
THEOREM WatchedAsAsked == Spec => []WatchesInterest
<1>1. DispatchInv => WatchesInterest
  BY SleepsInAgreement
<1> QED BY <1>1, DispatcherInvariant, PTL

(* A step makes a callback only from an entry that is still due.           *)
LEMMA CallbackIsDue ==
  ASSUME DispatchInv, Next, Survives, last' # last, last' # None
  PROVE  last' \in due
<1>1. build \in Builds /\ Keeps /\ KeepInv
  <2>1. build \in Builds /\ Keeps
    BY DEF DispatchInv, Survives, Keeps
  <2> QED BY <2>1 DEF DispatchInv
<1>2. CASE CallbackStep
  <2>1. PICK e \in Events :
          /\ pc \in {"read", "write"} /\ i < Turns /\ e \in Entry.events
          /\ (pc = "read" \/ e = "write") /\ last' = <<Entry.fd, e>>
    BY <1>2 DEF CallbackStep
  <2> QED BY <1>1, <2>1, EntryFacts
<1>3. CASE Begin
  BY <1>1, <1>3, BeginDoes DEF BeginEffect
<1>4. CASE TurnEffect \/ RunEventLoop \/ AddTaskEventLoop \/ PlaceEffect
  BY <1>4 DEF TurnEffect, RunEventLoop, AddTaskEventLoop, PlaceEffect
<1>5. CASE TaskEffect
  BY <1>5 DEF TaskEffect, Execute
<1>6. CASE \E f \in Fds : acceptConnection(f) \/ Arrive(f)
  BY <1>6 DEF acceptConnection, Arrive
<1> QED BY <1>1, <1>2, <1>3, <1>4, <1>5, <1>6, Steps

(* CallbacksAreDue: dispatch() makes a callback only for an event reported *)
(* in this round for this very channel, whatever the callbacks before it   *)
(* removed, added or modified.                                             *)
THEOREM OnlyDueCallbacks == Spec => CallbacksAreDue
<1>1. DispatchInv /\ [Next]_vars => [Survives /\ last' # None => last' \in due]_last
  <2>1. ASSUME DispatchInv, Next PROVE [Survives /\ last' # None => last' \in due]_last
    BY <2>1, CallbackIsDue
  <2>2. UNCHANGED vars => UNCHANGED last
    BY DEF vars
  <2> QED BY <2>1, <2>2
<1> QED BY <1>1, DispatcherInvariant, PTL DEF Spec, CallbacksAreDue

=============================================================================
