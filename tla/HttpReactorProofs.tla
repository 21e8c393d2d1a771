------------------------- MODULE HttpReactorProofs --------------------------
(***************************************************************************)
(* The threads of the HTTP reactors, for any number of workers, clients    *)
(* and descriptors: no step of any thread meets a channel that is not      *)
(* there, what a dispatcher watches is in the map of its loop, and no loop *)
(* sleeps on top of its queue.                                             *)
(*                                                                         *)
(* ReactorInv has five parts.  StartInv follows runThreadPool(): a worker  *)
(* is given connections only once it is published.  SleepInv says in which *)
(* places of its code a loop may have tasks in its queue.  TaskInv gives   *)
(* every client at most one task, an ADD before it is watched or a DELETE  *)
(* while it is.  MapInv is what the dispatcher, the map and the kernel's   *)
(* table of descriptors have to agree on.                                  *)
(***************************************************************************)
EXTENDS HttpReactor, SequenceTheorems, WellFoundedInduction, TLAPS

Tasks    == {"ADD", "DELETE"} \X Clients
Places   == {"none", "created", "signal", "create", "check", "cond", "woken", "wait",
             "events", "drain", "push", "pushing", "wakeup", "stuck"}
Starting == {"create", "check", "cond", "woken"}
Handing  == {"push", "pushing", "wakeup"}
Stages   == {"new", "pending", "open", "answered", "closed", "leaked"}

TypeOK ==
  /\ setup \in Setups
  /\ pc \in [Loops -> Places] /\ ret \in [Loops -> {"wait", "events"}]
  /\ started \subseteq 1..threadNum /\ next \in Nat \ {0} /\ index \in Nat
  /\ taskQ \in [Loops -> Seq(Tasks)]
  /\ map \in [Loops -> [Fds -> Clients \cup {NoOne, Garbage}]]
  /\ size \in [Loops -> Sizes]
  /\ watched \in [Loops -> SUBSET Clients]
  /\ wake \in [Loops -> Nat]
  /\ batch \in [Loops -> SUBSET (Clients \cup {Wake, Listen})]
  /\ accepted \in (Clients \cup {NoOne}) \X Loops
  /\ fd \in [Clients -> Fds \cup {0}]
  /\ conn \in [Clients -> Stages]
  /\ sent \in [Clients -> BOOLEAN]

(* Workers are published in order, and the main thread goes on, and then   *)
(* accepts, only behind that.                                              *)
StartInv ==
  /\ threadNum > 0 => index < threadNum
  /\ \A w \in Loops \ {Main} : w \in started <=> pc[w] \notin {"none", "created"}
  /\ \A w \in Loops : w > threadNum => pc[w] = "none"
  /\ pc[Main] = "create" =>
       \A w \in Loops \ {Main} : IF w < next THEN w \in started \/ w > threadNum ELSE pc[w] = "none"
  /\ pc[Main] \in {"check", "cond", "woken"} =>
       \A w \in Loops \ {Main} : /\ w < next => w \in started \/ w > threadNum
                                 /\ w > next => pc[w] = "none"
  /\ pc[Main] \notin Starting => 1..threadNum \subseteq started
  /\ pc[Main] \in Handing => accepted[2] \in started \cup {Main}

(* A queue with something in it: the main loop is processing it; a worker  *)
(* has been published, and will look at it before it sleeps or is about to *)
(* be woken up.                                                            *)
SleepInv ==
  /\ taskQ[Main] # <<>> => pc[Main] = "drain"
  /\ \A l \in Loops : taskQ[l] # <<>> => l \in started \cup {Main}
  /\ \A l \in Loops :
       (pc[l] \in {"signal", "wait"} /\ taskQ[l] # <<>>) =>
         wake[l] > 0 \/ (pc[Main] = "wakeup" /\ accepted[2] = l)

Quiet(c) == \A l \in Loops : \A j \in 1..Len(taskQ[l]) : taskQ[l][j][2] # c
Unwatched(c) == \A l \in Loops : c \notin watched[l]

(* A client has one task at most.                                          *)
OneTask ==
  \A l, k \in Loops : \A i \in 1..Len(taskQ[l]), j \in 1..Len(taskQ[k]) :
    taskQ[l][i][2] = taskQ[k][j][2] => l = k /\ i = j

(* An ADD is for a client that has a descriptor and is not watched; a      *)
(* DELETE for one that the loop watches and has no event left for, and the *)
(* loop is on its way to it.                                               *)
TaskFits ==
  \A l \in Loops : \A j \in 1..Len(taskQ[l]) :
    LET c == taskQ[l][j][2] IN
    IF taskQ[l][j][1] = "ADD"
      THEN fd[c] # 0 /\ conn[c] = "open" /\ Unwatched(c)
      ELSE c \in watched[l] /\ c \notin batch[l] /\ pc[l] = "drain"

(* What acceptConnection() is handing over is as an ADD wants it.          *)
HandOver ==
  pc[Main] \in {"push", "pushing"} =>
    /\ accepted[1] \in Clients /\ fd[accepted[1]] # 0 /\ conn[accepted[1]] = "open"
    /\ Unwatched(accepted[1]) /\ Quiet(accepted[1])

(* Nobody knows of a client that has not been accepted.                    *)
Newcomer ==
  \A c \in Clients : conn[c] \in {"new", "pending"} => fd[c] = 0 /\ Unwatched(c) /\ Quiet(c)

TaskInv == OneTask /\ TaskFits /\ HandOver /\ Newcomer

(* What is watched has a descriptor of its own, inside of the array in C,  *)
(* and the map of the loop leads back to it; events are for what is        *)
(* watched.                                                                *)
MapInv ==
  /\ \A b, c \in Clients : fd[b] = fd[c] /\ fd[b] # 0 => b = c
  /\ \A l \in Loops : \A c \in watched[l] :
       /\ fd[c] # 0 /\ map[l][fd[c]] = c
       /\ \A k \in Loops \ {l} : c \notin watched[k]
  /\ impl = "c" => \A l \in Loops, f \in Fds : map[l][f] \in Clients => f < size[l]
  /\ \A l \in Loops : batch[l] \cap Clients \subseteq watched[l]

(* What can end a run.                                                     *)
EndInv == over \in {"no", "died", "overrun"}

ReactorInv == TypeOK /\ StartInv /\ SleepInv /\ TaskInv /\ MapInv /\ EndInv


-----------------------------------------------------------------------------
(* Sequences and descriptors.                                              *)

\* A task is put behind a queue.
LEMMA Appended ==
  ASSUME NEW Q \in [Loops -> Seq(Tasks)], NEW l \in Loops, NEW t \in Tasks,
         NEW R, R = [Q EXCEPT ![l] = Append(@, t)]
  PROVE  /\ R \in [Loops -> Seq(Tasks)]
         /\ \A k \in Loops \ {l} : R[k] = Q[k]
         /\ Len(R[l]) = Len(Q[l]) + 1 /\ R[l][Len(Q[l]) + 1] = t /\ R[l] # <<>>
         /\ \A j \in 1..Len(Q[l]) : R[l][j] = Q[l][j]
<1>1. Q[l] \in Seq(Tasks) /\ R[l] = Append(Q[l], t)
  OBVIOUS
<1>2. R[l] \in Seq(Tasks)
  BY <1>1, AppendProperties
<1> QED BY <1>1, <1>2, AppendProperties

\* The first task is taken from a queue.
LEMMA Shortened ==
  ASSUME NEW Q \in [Loops -> Seq(Tasks)], NEW l \in Loops, Q[l] # <<>>,
         NEW R, R = [Q EXCEPT ![l] = Tail(@)]
  PROVE  /\ R \in [Loops -> Seq(Tasks)]
         /\ \A k \in Loops \ {l} : R[k] = Q[k]
         /\ Len(Q[l]) \in Nat \ {0} /\ Len(R[l]) = Len(Q[l]) - 1
         /\ \A j \in 1..Len(R[l]) : R[l][j] = Q[l][j + 1]
         /\ Head(Q[l]) = Q[l][1] /\ Q[l][1] \in Tasks
<1>1. Q[l] \in Seq(Tasks) /\ R[l] = Tail(Q[l])
  OBVIOUS
<1>2. R[l] \in Seq(Tasks) /\ Len(R[l]) = Len(Q[l]) - 1 /\ Len(Q[l]) \in Nat \ {0}
  BY <1>1, HeadTailProperties
<1>3. \A j \in 1..Len(R[l]) : R[l][j] = Q[l][j + 1]
  BY <1>1, <1>2, HeadTailProperties
<1>4. Head(Q[l]) = Q[l][1] /\ Q[l][1] \in Tasks
  BY <1>1, <1>2
<1> QED BY <1>1, <1>2, <1>3, <1>4

\* The lowest of some descriptors is one of them.
LEMMA MinIsMember ==
  ASSUME NEW S, S \subseteq Nat, S # {}
  PROVE  Min(S) \in S
<1> DEFINE Below == OpToRel(<, Nat)
<1>1. IsWellFoundedOn(Below, Nat)
  BY NatLessThanWellFounded
<1>2. \A x, y \in Nat : y < x => <<y, x>> \in Below
  BY DEF OpToRel
<1> HIDE DEF Below
<1>3. \E x \in S : \A y \in S : ~ (<<y, x>> \in Below)
  BY <1>1, WFMin
<1>4. \E x \in S : \A y \in S : x <= y
  <2>1. PICK x \in S : \A y \in S : ~ (<<y, x>> \in Below)
    BY <1>3
  <2>2. ASSUME NEW y \in S PROVE x <= y
    <3>1. x \in Nat /\ y \in Nat
      OBVIOUS
    <3>2. ~ (y < x)
      BY <1>2, <2>1, <3>1, Zenon
    <3> QED BY <3>1, <3>2
  <2> QED BY <2>2
<1> QED BY <1>4, Zenon DEF Min

\* What the constants and the type invariant say of a setup.
LEMMA SetupFacts ==
  ASSUME TypeOK
  PROVE  /\ MaxThreads \in Nat /\ threadNum \in 0..MaxThreads /\ Main \in Loops
         /\ impl \in {"c", "cpp"} /\ setup.fds \subseteq Fds /\ 0 \notin Fds
         /\ Fds \subseteq Nat /\ kind \in [Clients -> Kinds]
BY SetupsAssumption, FdsAssumption DEF TypeOK, impl, threadNum, kind, Loops, Main

-----------------------------------------------------------------------------
(* What the steps do, in both programs at once.                            *)

(* A callback ends with a DELETE for its own loop, or leaves everything as *)
(* it is, or never returns.                                                *)
ServeEffect(l, c) ==
  /\ pc[l] = "events" /\ c \in batch[l]
  /\ batch' = [batch EXCEPT ![l] = @ \ {c}]
  /\ \/ /\ conn' \in {[conn EXCEPT ![c] = "answered"], conn}
        /\ taskQ' = [taskQ EXCEPT ![l] = Append(@, <<"DELETE", c>>)]
        /\ ret' = [ret EXCEPT ![l] = "events"]
        /\ pc' = [pc EXCEPT ![l] = "drain"]
     \/ UNCHANGED <<conn, taskQ, ret, pc>>
     \/ pc' = [pc EXCEPT ![l] = "stuck"] /\ UNCHANGED <<conn, taskQ, ret>>
  /\ UNCHANGED <<setup, startVars, index, map, size, watched, wake, accepted, fd, sent>>
  /\ over' \in {over, "died"}

(* An ADD stores the client under its descriptor and has it watched, or    *)
(* does neither; other entries below the old size stay.                    *)
AddEffect(l, c) ==
  /\ map' \in [Loops -> [Fds -> Clients \cup {NoOne, Garbage}]]
  /\ size' \in [Loops -> Sizes] /\ \A k \in Loops : size'[k] >= size[k]
  /\ \A k \in Loops, f \in Fds :
       (k # l \/ (f # fd[c] /\ (impl = "c" => f < size[l]))) => map'[k][f] = map[k][f]
  /\ impl = "c" => \A k \in Loops, f \in Fds : map'[k][f] \in Clients => f < size'[k]
  /\ \/ watched' = watched
     \/ watched' = [watched EXCEPT ![l] = @ \cup {c}] /\ map'[l][fd[c]] = c
  /\ UNCHANGED <<fd, conn>>
  /\ over' \in {over, "overrun"}

(* A DELETE ends the watch; the descriptor is closed and the entry cleared *)
(* or both stay for good.                                                  *)
DeleteEffect(l, c) ==
  /\ watched' = [watched EXCEPT ![l] = @ \ {c}]
  /\ \/ /\ map' = [map EXCEPT ![l][fd[c]] = NoOne] /\ fd' = [fd EXCEPT ![c] = 0]
        /\ conn' = [conn EXCEPT ![c] = "closed"]
     \/ conn' = [conn EXCEPT ![c] = "leaked"] /\ UNCHANGED <<map, fd>>
  /\ UNCHANGED <<size, over>>

(* One task, or the return from an empty queue.                            *)
TaskEffect(l) ==
  /\ pc[l] = "drain"
  /\ \/ /\ taskQ[l] # <<>>
        /\ taskQ' = [taskQ EXCEPT ![l] = Tail(@)]
        /\ IF taskQ[l][1][1] = "ADD" THEN AddEffect(l, taskQ[l][1][2])
                                     ELSE DeleteEffect(l, taskQ[l][1][2])
        /\ UNCHANGED pc
     \/ /\ taskQ[l] = <<>>
        /\ pc' = [pc EXCEPT ![l] = ret[l]]
        /\ UNCHANGED <<taskQ, map, size, watched, fd, conn, over>>
  /\ UNCHANGED <<setup, ret, startVars, index, wake, batch, accepted, sent>>

(* The new connection goes into the queue of the loop it was given to.     *)
QueueEffect(l) ==
  /\ pc[Main] \in {"push", "pushing"} /\ l = accepted[2]
  /\ taskQ' = [taskQ EXCEPT ![l] = Append(@, <<"ADD", accepted[1]>>)]
  /\ ret' = IF l = Main THEN [ret EXCEPT ![Main] = "events"] ELSE ret
  /\ pc' = [pc EXCEPT ![Main] = IF l = Main THEN "drain" ELSE "wakeup"]
  /\ UNCHANGED <<setup, startVars, index, map, size, watched, wake, batch,
                 accepted, fd, conn, sent, over>>

\* A callback finds its channel: the event is for a client that is watched.
LEMMA ServeDoes ==
  ASSUME ReactorInv, NEW l \in Loops, NEW c \in Clients,
         ActivateEvent(l, c) \/ eventActive(l, c)
  PROVE  ServeEffect(l, c)
<1>1. c \in batch[l]
  BY DEF ActivateEvent, eventActive, Taken
<1>2. map[l][fd[c]] = c
  BY <1>1 DEF ReactorInv, MapInv
<1>3. CASE ActivateEvent(l, c)
  BY <1>2, <1>3
     DEF ActivateEvent, Taken, processRead_c, Delete, Ends, Stuck, Go, ServeEffect
<1>4. CASE eventActive(l, c)
  <2>1. conn \in [Clients -> Stages]
    BY DEF ReactorInv, TypeOK
  <2>2. [conn EXCEPT ![c] = conn[c]] = conn
    BY <2>1
  <2> QED BY <1>2, <1>4, <2>2
          DEF eventActive, Taken, processRead_cpp, Delete, Ends, Stuck, Go, ServeEffect
<1> QED BY <1>3, <1>4

\* AddEventLoop() in C: in the array, at its end, or with an array that grows.
LEMMA AddInC ==
  ASSUME ReactorInv, NEW l \in Loops, NEW c \in Clients, fd[c] # 0, impl = "c",
         AddEventLoop(l, c)
  PROVE  AddEffect(l, c)
<1>1. /\ map \in [Loops -> [Fds -> Clients \cup {NoOne, Garbage}]]
      /\ size \in [Loops -> Sizes] /\ watched \in [Loops -> SUBSET Clients]
      /\ fd[c] \in Fds /\ UNCHANGED <<fd, conn>>
      /\ watched' = [watched EXCEPT ![l] = IF map'[l][fd[c]] = c THEN @ \cup {c} ELSE @]
  BY DEF ReactorInv, TypeOK, AddEventLoop
<1>o. over' \in {over, "overrun"}
  BY DEF AddEventLoop
<1>2. size[l] \in Nat /\ fd[c] \in Nat /\ \A k \in Loops : size[k] \in Nat
  BY <1>1, SizesAssumption, FdsAssumption
<1>3. \/ watched' = watched
      \/ watched' = [watched EXCEPT ![l] = @ \cup {c}] /\ map'[l][fd[c]] = c
  BY <1>1
<1>4. /\ c \notin {NoOne, Garbage} /\ NoOne \notin Clients /\ Garbage \notin Clients
  BY ClientsAssumption
<1>5. \A k \in Loops, f \in Fds : map[k][f] \in Clients => f < size[k]
  BY DEF ReactorInv, MapInv
<1>6. CASE fd[c] < size[l] /\ size' = size
           /\ map' = IF map[l][fd[c]] = NoOne THEN [map EXCEPT ![l][fd[c]] = c] ELSE map
  <2>1. map' \in [Loops -> [Fds -> Clients \cup {NoOne, Garbage}]]
    BY <1>1, <1>6
  <2>2. \A k \in Loops, f \in Fds : (k # l \/ f # fd[c]) => map'[k][f] = map[k][f]
    BY <1>1, <1>6
  <2>3. ASSUME NEW k \in Loops, NEW f \in Fds, map'[k][f] \in Clients PROVE f < size'[k]
    BY <1>1, <1>5, <1>6, <2>2, <2>3
  <2> QED BY <1>1, <1>2, <1>3, <1>o, <1>6, <2>1, <2>2, <2>3 DEF AddEffect
<1>7. CASE fd[c] = size[l] /\ size' = size /\ map' = map
  <2>1. map[l][fd[c]] # c
    BY <1>1, <1>2, <1>5, <1>7
  <2> QED BY <1>1, <1>2, <1>3, <1>o, <1>5, <1>7, <2>1 DEF AddEffect
<1>8. ASSUME NEW fresh \in [{f \in Fds : f >= size[l]} -> {NoOne, Garbage}],
             NEW grown, grown = [f \in Fds |-> IF f >= size[l] THEN fresh[f] ELSE map[l][f]],
             fd[c] > size[l], size' = [size EXCEPT ![l] = Doubled(@, fd[c])],
             map' = [map EXCEPT ![l] = IF grown[fd[c]] = NoOne /\ fd[c] < size'[l]
                                         THEN [grown EXCEPT ![fd[c]] = c] ELSE grown]
      PROVE  AddEffect(l, c)
  <2>1. PICK s : s = Doubled(size[l], fd[c])
    OBVIOUS
  <2>2. s \in Sizes /\ s >= fd[c]
    BY <1>1, <1>8, <2>1, SizesAssumption
  <2>3. s \in Nat /\ size' = [size EXCEPT ![l] = s]
    BY <1>8, <2>1, <2>2, SizesAssumption
  <2>4. size' \in [Loops -> Sizes] /\ \A k \in Loops : size'[k] >= size[k]
    BY <1>1, <1>2, <1>8, <2>2, <2>3
  <2>5. PICK g : g = IF grown[fd[c]] = NoOne /\ fd[c] < s
                       THEN [grown EXCEPT ![fd[c]] = c] ELSE grown
    OBVIOUS
  <2>6. map[l] \in [Fds -> Clients \cup {NoOne, Garbage}] /\ Fds \subseteq Nat
    BY <1>1, FdsAssumption
  <2>7. grown \in [Fds -> Clients \cup {NoOne, Garbage}]
    BY <1>2, <1>8, <2>6
  <2>8. /\ g \in [Fds -> Clients \cup {NoOne, Garbage}]
        /\ \A f \in Fds : f # fd[c] => g[f] = grown[f]
    BY <1>1, <2>5, <2>7
  <2>9. map' = [map EXCEPT ![l] = g]
    BY <1>1, <1>8, <2>3, <2>5
  <2>10. map' \in [Loops -> [Fds -> Clients \cup {NoOne, Garbage}]]
    BY <1>1, <2>8, <2>9
  <2>11. \A k \in Loops, f \in Fds : (k # l \/ (f # fd[c] /\ f < size[l])) => map'[k][f] = map[k][f]
    BY <1>1, <1>2, <1>8, <2>6, <2>8, <2>9
  <2>12. ASSUME NEW k \in Loops, NEW f \in Fds, map'[k][f] \in Clients PROVE f < size'[k]
    <3>1. CASE k # l
      BY <1>1, <1>5, <2>3, <2>11, <2>12, <3>1
    <3>2. CASE k = l /\ f = fd[c] /\ fd[c] < s
      BY <1>1, <2>2, <2>3, <3>2
    <3>3. CASE k = l /\ ~(f = fd[c] /\ fd[c] < s)
      <4>1. grown[f] \in Clients
        BY <1>1, <2>5, <2>8, <2>9, <2>12, <3>3
      <4>2. f < size[l]
        BY <1>2, <1>4, <1>8, <2>6, <4>1
      <4> QED BY <1>1, <1>2, <1>8, <2>2, <2>3, <2>6, <3>3, <4>2
    <3> QED BY <3>1, <3>2, <3>3
  <2> QED BY <1>1, <1>3, <1>o, <2>4, <2>10, <2>11, <2>12 DEF AddEffect
<1> QED BY <1>6, <1>7, <1>8 DEF AddEventLoop

\* EventLoop::add().
LEMMA AddInCpp ==
  ASSUME ReactorInv, NEW l \in Loops, NEW c \in Clients, fd[c] # 0, impl = "cpp", add(l, c)
  PROVE  AddEffect(l, c)
<1>1. /\ map \in [Loops -> [Fds -> Clients \cup {NoOne, Garbage}]]
      /\ size \in [Loops -> Sizes] /\ watched \in [Loops -> SUBSET Clients]
      /\ fd[c] \in Fds
  BY DEF ReactorInv, TypeOK
<1>2. \A k \in Loops : size[k] \in Nat
  BY <1>1, SizesAssumption
<1> QED BY <1>1, <1>2 DEF add, AddEffect

\* DeleteEventLoop() and EventLoop::remove(): the client is watched, so that its
\* descriptor is in the map and inside of the array.
LEMMA DeleteDoes ==
  ASSUME ReactorInv, NEW l \in Loops, NEW c \in watched[l],
         \/ impl = "c" /\ DeleteEventLoop(l, c)
         \/ impl = "cpp" /\ remove(l, c)
  PROVE  DeleteEffect(l, c)
<1>1. c \in Clients /\ map[l][fd[c]] = c /\ fd[c] \in Fds /\ size[l] \in Nat /\ fd[c] \in Nat
  BY SizesAssumption, FdsAssumption DEF ReactorInv, TypeOK, MapInv
<1>2. c # NoOne
  BY <1>1, ClientsAssumption
<1>3. impl = "c" => fd[c] < size[l]
  BY <1>1 DEF ReactorInv, MapInv
<1>4. CASE impl = "c" /\ DeleteEventLoop(l, c)
  BY <1>1, <1>3, <1>4 DEF DeleteEventLoop, Release, destroyChannel, DeleteEffect
<1>5. CASE impl = "cpp" /\ remove(l, c)
  BY <1>1, <1>2, <1>5 DEF remove, Release, freeChannel, DeleteEffect
<1> QED BY <1>4, <1>5

\* The task that processTaskEventLoop() and processTaskQ() carry out.
LEMMA TaskDoes ==
  ASSUME ReactorInv, NEW l \in Loops, processTaskEventLoop(l) \/ processTaskQ(l)
  PROVE  TaskEffect(l)
<1>1. taskQ \in [Loops -> Seq(Tasks)]
  BY DEF ReactorInv, TypeOK
<1>2. CASE taskQ[l] = <<>>
  BY <1>2 DEF processTaskEventLoop, processTaskQ, Go, TaskEffect
<1>3. CASE taskQ[l] # <<>>
  <2>1. /\ Head(taskQ[l]) = taskQ[l][1] /\ taskQ[l][1] \in Tasks
        /\ Len(taskQ[l]) \in Nat \ {0}
    BY <1>1, <1>3, Shortened
  <2>2. PICK c \in Clients : c = taskQ[l][1][2]
    BY <2>1 DEF Tasks
  <2>3. 1 \in 1..Len(taskQ[l])
    BY <2>1
  <2>4. /\ taskQ[l][1][1] = "ADD" => fd[c] # 0
        /\ taskQ[l][1][1] # "ADD" => c \in watched[l]
    BY <2>2, <2>3 DEF ReactorInv, TaskInv, TaskFits
  <2>5. /\ pc[l] = "drain" /\ UNCHANGED pc
        /\ taskQ' = [taskQ EXCEPT ![l] = Tail(@)]
        /\ UNCHANGED <<setup, ret, startVars, index, wake, batch, accepted, sent>>
    BY <1>3 DEF processTaskEventLoop, processTaskQ, Execute
  <2>6. CASE taskQ[l][1][1] = "ADD"
    <3>1. (impl = "c" /\ AddEventLoop(l, c)) \/ (impl = "cpp" /\ add(l, c))
      BY <1>3, <2>1, <2>2, <2>6 DEF processTaskEventLoop, processTaskQ, Execute
    <3>2. AddEffect(l, c)
      BY <2>4, <2>6, <3>1, AddInC, AddInCpp
    <3> QED BY <1>3, <2>2, <2>5, <2>6, <3>2 DEF TaskEffect
  <2>7. CASE taskQ[l][1][1] # "ADD"
    <3>1. (impl = "c" /\ DeleteEventLoop(l, c)) \/ (impl = "cpp" /\ remove(l, c))
      BY <1>3, <2>1, <2>2, <2>7 DEF processTaskEventLoop, processTaskQ, Execute
    <3>2. DeleteEffect(l, c)
      BY <2>4, <2>7, <3>1, DeleteDoes
    <3> QED BY <1>3, <2>2, <2>5, <2>7, <3>2 DEF TaskEffect
  <2> QED BY <2>6, <2>7
<1> QED BY <1>2, <1>3

\* The mutex of the queue is taken, or the node goes in.
LEMMA QueueDoes ==
  ASSUME AddTaskEventLoop \/ addTask
  PROVE  \/ /\ pc[Main] = "push" /\ pc' = [pc EXCEPT ![Main] = "pushing"]
            /\ UNCHANGED <<setup, ret, startVars, index, taskQ, map, size, watched, wake,
                           batch, accepted, fd, conn, sent, over>>
         \/ QueueEffect(accepted[2])
BY DEF AddTaskEventLoop, addTask, Queued, Go, QueueEffect

-----------------------------------------------------------------------------
(* Types.                                                                  *)

\* Every step keeps the types,
LEMMA TypeStep ==
  ASSUME ReactorInv, Next
  PROVE  TypeOK'
<1> USE DEF TypeOK
<1>0. /\ TypeOK /\ StartInv /\ TaskInv
      /\ Main \in Loops /\ MaxThreads \in Nat /\ threadNum \in 0..MaxThreads
  BY SetupFacts DEF ReactorInv
<1>p. /\ pc \in [Loops -> Places] /\ ret \in [Loops -> {"wait", "events"}]
      /\ next \in Nat \ {0} /\ Main \in Loops
  BY <1>0
<1>b. batch \in [Loops -> SUBSET (Clients \cup {Wake, Listen})] /\ conn \in [Clients -> Stages]
  BY <1>0
<1>m. /\ watched \in [Loops -> SUBSET Clients] /\ fd \in [Clients -> Fds \cup {0}]
      /\ size \in [Loops -> Sizes] /\ map \in [Loops -> [Fds -> Clients \cup {NoOne, Garbage}]]
  BY <1>0
<1>1. ASSUME NEW c \in Clients, Connect(c) \/ Send(c) PROVE TypeOK'
  <2>1. conn' \in [Clients -> Stages] /\ sent' \in [Clients -> BOOLEAN]
    BY <1>0, <1>1, Zenon DEF Connect, Send, Stages
  <2> QED BY <1>0, <1>1, <2>1 DEF Connect, Send, startVars, loopVars, threadNum
<1>2. CASE runThreadPool
  <2>1. pc' \in [Loops -> Places]
    <3>1. CASE next <= threadNum
      <4>1. next \in Loops
        BY <1>0, <1>p, <3>1 DEF Loops
      <4> QED BY <1>p, <1>2, <3>1, <4>1 DEF runThreadPool, Places
    <3> QED BY <1>p, <1>2, <3>1 DEF runThreadPool, Go, Places
  <2> QED BY <1>0, <1>2, <2>1 DEF runThreadPool, startVars, loopVars, threadNum
<1>3. CASE runWorkThread
  <2>1. pc' \in [Loops -> Places] /\ next' \in Nat \ {0}
    BY <1>p, <1>3 DEF runWorkThread, Go, Places
  <2> QED BY <1>0, <1>3, <2>1 DEF runWorkThread, loopVars, threadNum
<1>4. ASSUME NEW w \in Loops \ {Main}, subThreadRuning(w) PROVE TypeOK'
  <2>1. w \in 1..threadNum
    BY <1>0, <1>4 DEF subThreadRuning, StartInv, Loops, Main
  <2>2. started' \subseteq 1..threadNum
    BY <1>0, <1>4, <2>1 DEF subThreadRuning
  <2>3. pc' \in [Loops -> Places]
    BY <1>p, <1>4 DEF subThreadRuning, Go, Places
  <2> QED BY <1>0, <1>4, <2>2, <2>3 DEF subThreadRuning, loopVars, threadNum
<1>5. ASSUME NEW l \in Loops, dispatch(l) PROVE TypeOK'
  <2>1. Ready(l) \in SUBSET (Clients \cup {Wake, Listen})
    BY <1>0 DEF Ready
  <2>2. batch' \in [Loops -> SUBSET (Clients \cup {Wake, Listen})]
    BY <1>0, <1>5, <2>1 DEF dispatch
  <2>3. pc' \in [Loops -> Places] /\ ret' \in [Loops -> {"wait", "events"}]
    BY <1>p, <1>5 DEF dispatch, Go, Places
  <2> QED BY <1>0, <1>5, <2>2, <2>3 DEF dispatch, startVars, loopVars, threadNum
<1>6. ASSUME NEW l \in Loops, readMessage(l) PROVE TypeOK'
  <2>1. /\ batch' \in [Loops -> SUBSET (Clients \cup {Wake, Listen})]
        /\ wake' \in [Loops -> Nat]
    BY <1>0, <1>6 DEF readMessage, Taken
  <2> QED BY <1>0, <1>6, <2>1 DEF readMessage, startVars, loopVars, threadNum
<1>7. ASSUME NEW l \in Loops, NEW c \in Clients, ActivateEvent(l, c) \/ eventActive(l, c)
      PROVE  TypeOK'
  <2>1. ServeEffect(l, c)
    BY <1>7, ServeDoes
  <2>2. <<"DELETE", c>> \in Tasks
    BY DEF Tasks
  <2>3. CASE taskQ' = taskQ
    <3>1. pc' \in [Loops -> Places] /\ ret' \in [Loops -> {"wait", "events"}]
      BY <1>p, <2>1 DEF ServeEffect, Places
    <3>2. conn' \in [Clients -> Stages]
          /\ batch' \in [Loops -> SUBSET (Clients \cup {Wake, Listen})]
      BY <1>b, <2>1 DEF ServeEffect, Stages
    <3> QED BY <1>0, <2>1, <2>3, <3>1, <3>2 DEF ServeEffect, startVars, threadNum
  <2>4. CASE taskQ' = [taskQ EXCEPT ![l] = Append(@, <<"DELETE", c>>)]
    <3>1. taskQ' \in [Loops -> Seq(Tasks)]
      BY <1>0, <2>2, <2>4, Appended
    <3>2. pc' \in [Loops -> Places] /\ ret' \in [Loops -> {"wait", "events"}]
      BY <1>p, <2>1 DEF ServeEffect, Places
    <3>3. conn' \in [Clients -> Stages]
          /\ batch' \in [Loops -> SUBSET (Clients \cup {Wake, Listen})]
      BY <1>b, <2>1 DEF ServeEffect, Stages
    <3> QED BY <1>0, <2>1, <3>1, <3>2, <3>3 DEF ServeEffect, startVars, threadNum
  <2> QED BY <2>1, <2>3, <2>4 DEF ServeEffect
<1>8. CASE acceptConnection
  <2>1. FreeFds \subseteq Fds /\ FreeFds \subseteq Nat
    BY <1>0, SetupFacts DEF FreeFds
  <2>2. Min(FreeFds) \in Fds
    BY <1>8, <2>1, MinIsMember DEF acceptConnection
  <2>3. index' \in Nat
    BY <1>0, <1>8 DEF acceptConnection
  <2>4. takeWorkEventLoop \in Loops
    BY <1>0 DEF takeWorkEventLoop, StartInv, Loops
  <2>5. fd' \in [Clients -> Fds \cup {0}] /\ accepted' \in (Clients \cup {NoOne}) \X Loops
        /\ conn' \in [Clients -> Stages]
    BY <1>0, <1>8, <2>2, <2>4 DEF acceptConnection, Stages
  <2>6. pc' \in [Loops -> Places] /\ batch' \in [Loops -> SUBSET (Clients \cup {Wake, Listen})]
    BY <1>0, <1>8 DEF acceptConnection, Go, Places
  <2> QED BY <1>0, <1>8, <2>3, <2>5, <2>6 DEF acceptConnection, startVars, loopVars, threadNum
<1>9. CASE AddTaskEventLoop \/ addTask
  <2>1. CASE QueueEffect(accepted[2])
    <3>1. <<"ADD", accepted[1]>> \in Tasks /\ accepted[2] \in Loops
      BY <1>0, <2>1 DEF Tasks, QueueEffect, TaskInv, HandOver
    <3>2. taskQ' \in [Loops -> Seq(Tasks)]
      BY <1>0, <2>1, <3>1, Appended DEF QueueEffect
    <3>3. pc' \in [Loops -> Places] /\ ret' \in [Loops -> {"wait", "events"}]
      BY <1>0, <2>1 DEF QueueEffect, Places
    <3> QED BY <1>0, <2>1, <3>2, <3>3 DEF QueueEffect, startVars, threadNum
  <2>2. CASE ~QueueEffect(accepted[2])
    BY <1>0, <1>9, <2>2, QueueDoes DEF startVars, Places, threadNum
  <2> QED BY <2>1, <2>2
<1>10. CASE taskWakeUp
  <2>1. pc' \in [Loops -> Places] /\ wake' \in [Loops -> Nat]
    BY <1>0, <1>10 DEF taskWakeUp, Go, Places
  <2> QED BY <1>0, <1>10, <2>1 DEF taskWakeUp, startVars, loopVars, threadNum
<1>11. ASSUME NEW l \in Loops, processTaskEventLoop(l) \/ processTaskQ(l) PROVE TypeOK'
  <2>1. TaskEffect(l)
    BY <1>11, TaskDoes
  <2>2. CASE taskQ[l] = <<>>
    <3>1. pc' \in [Loops -> Places]
      BY <1>0, <2>1, <2>2 DEF TaskEffect, Places
    <3> QED BY <1>0, <2>1, <2>2, <3>1 DEF TaskEffect, startVars, threadNum
  <2>3. CASE taskQ[l] # <<>>
    <3>0. taskQ' = [taskQ EXCEPT ![l] = Tail(@)]
      BY <2>1, <2>3 DEF TaskEffect
    <3>1. taskQ' \in [Loops -> Seq(Tasks)] /\ taskQ[l][1] \in Tasks
      BY <1>0, <2>3, <3>0, Shortened
    <3>2. PICK c \in Clients : c = taskQ[l][1][2]
      BY <3>1 DEF Tasks
    <3>3. CASE AddEffect(l, c)
      <4>1. watched' \in [Loops -> SUBSET Clients]
        <5>1. watched' = watched \/ watched' = [watched EXCEPT ![l] = @ \cup {c}]
          BY <3>3 DEF AddEffect
        <5> QED BY <1>m, <5>1
      <4> QED BY <1>0, <2>1, <2>3, <3>1, <3>3, <4>1 DEF TaskEffect, AddEffect, startVars, threadNum
    <3>4. CASE DeleteEffect(l, c)
      <4>1. watched' \in [Loops -> SUBSET Clients] /\ fd' \in [Clients -> Fds \cup {0}]
            /\ conn' \in [Clients -> Stages] /\ size' \in [Loops -> Sizes]
        BY <1>b, <1>m, <3>4 DEF DeleteEffect, Stages
      <4>2. map' \in [Loops -> [Fds -> Clients \cup {NoOne, Garbage}]]
        <5>1. map' = map \/ map' = [map EXCEPT ![l][fd[c]] = NoOne]
          BY <3>4 DEF DeleteEffect
        <5>2. PICK f : f = fd[c]
          OBVIOUS
        <5>3. map' = map \/ map' = [map EXCEPT ![l] = [map[l] EXCEPT ![f] = NoOne]]
          BY <1>m, <5>1, <5>2
        <5>4. [map[l] EXCEPT ![f] = NoOne] \in [Fds -> Clients \cup {NoOne, Garbage}]
          BY <1>m
        <5> QED BY <1>m, <5>3, <5>4
      <4> QED BY <1>0, <2>1, <2>3, <3>1, <4>1, <4>2 DEF TaskEffect, startVars, threadNum
    <3> QED BY <2>1, <2>3, <3>2, <3>3, <3>4 DEF TaskEffect
  <2> QED BY <2>2, <2>3
<1> QED BY <1>1, <1>2, <1>3, <1>4, <1>5, <1>6, <1>7, <1>8, <1>9, <1>10, <1>11
        DEF Next, Thread, MainThread, Worker

-----------------------------------------------------------------------------
(* Starting the workers.                                                   *)

Running == {"wait", "events", "drain", "push", "pushing", "wakeup"}

\* A thread that runs its loop, or the main thread behind runThreadPool(), goes
\* from one place of it to another.
LEMMA RunningKeepsStart ==
  ASSUME TypeOK, StartInv, NEW l \in Loops, pc[l] \in Running,
         NEW v \in Places \ ({"none", "created", "push"} \cup Starting),
         v \in Handing => l = Main /\ pc[Main] \in Handing,
         pc' = pc \/ pc' = [pc EXCEPT ![l] = v],
         UNCHANGED <<setup, startVars, index, accepted>>
  PROVE  StartInv'
<1>1. /\ pc \in [Loops -> Places] /\ started \subseteq 1..threadNum /\ Main \in Loops
      /\ threadNum' = threadNum /\ started' = started /\ next' = next /\ index' = index
      /\ accepted' = accepted /\ threadNum \in Nat
  BY SetupFacts DEF TypeOK, startVars, threadNum
<1>2. CASE pc' = pc
  BY <1>1, <1>2 DEF StartInv
<1>3. CASE pc' = [pc EXCEPT ![l] = v]
  <2>1. /\ pc'[l] = v /\ \A k \in Loops \ {l} : pc'[k] = pc[k]
    BY <1>1, <1>3
  <2>2. \A w \in Loops \ {Main} : (w \in started <=> pc[w] \notin {"none", "created"})'
    BY <1>1, <2>1 DEF StartInv, Running
  <2>3. \A w \in Loops : w > threadNum => pc'[w] = "none"
    BY <1>1, <2>1 DEF StartInv, Running
  <2>4. CASE l = Main
    <3>1. pc[Main] \notin Starting /\ pc'[Main] \notin Starting
      BY <2>1, <2>4 DEF Running, Starting
    <3>2. pc'[Main] \in Handing => pc[Main] \in Handing
      BY <2>1, <2>4
    <3> QED BY <1>1, <2>2, <2>3, <3>1, <3>2 DEF StartInv, Starting
  <2>5. CASE l # Main
    <3>1. pc'[Main] = pc[Main] /\ pc[l] # "none"
      BY <1>1, <2>1, <2>5 DEF Running
    <3>2. \A w \in Loops : pc[w] = "none" => pc'[w] = "none"
      BY <2>1, <3>1
    <3> QED BY <1>1, <2>2, <2>3, <3>1, <3>2 DEF StartInv
  <2> QED BY <2>4, <2>5
<1> QED BY <1>2, <1>3

\* the order in which the workers start,
LEMMA StartStep ==
  ASSUME ReactorInv, Next
  PROVE  StartInv'
<1>0. /\ TypeOK /\ StartInv /\ Main \in Loops /\ MaxThreads \in Nat
      /\ threadNum \in 0..MaxThreads
  BY SetupFacts DEF ReactorInv
<1>t. /\ pc \in [Loops -> Places] /\ started \subseteq 1..threadNum /\ next \in Nat \ {0}
      /\ index \in Nat /\ accepted \in (Clients \cup {NoOne}) \X Loops
      /\ ret \in [Loops -> {"wait", "events"}]
  BY <1>0 DEF TypeOK
<1>1. ASSUME NEW c \in Clients, Connect(c) \/ Send(c) PROVE StartInv'
  BY <1>0, <1>1 DEF Connect, Send, startVars, StartInv, threadNum
<1>2. CASE runThreadPool
  <2>1. /\ pc[Main] = "create" /\ threadNum' = threadNum /\ started' = started /\ next' = next
        /\ index' = index /\ accepted' = accepted
    BY <1>2 DEF runThreadPool, startVars, threadNum
  <2>2. CASE next <= threadNum
    <3>1. next \in Loops \ {Main}
      BY <1>0, <1>t, <2>2 DEF Loops, Main
    <3>2. /\ pc'[Main] = "check" /\ pc'[next] = "created" /\ pc[next] = "none"
          /\ \A k \in Loops \ {Main, next} : pc'[k] = pc[k]
      BY <1>0, <1>2, <1>t, <2>1, <2>2, <3>1 DEF runThreadPool, StartInv
    <3> QED BY <1>0, <1>t, <2>1, <2>2, <3>1, <3>2 DEF StartInv, Starting, Handing, Loops, Main
  <2>3. CASE ~ (next <= threadNum)
    <3>1. pc'[Main] = "wait" /\ \A k \in Loops \ {Main} : pc'[k] = pc[k]
      BY <1>0, <1>2, <1>t, <2>3 DEF runThreadPool, Go
    <3>2. 1..threadNum \subseteq started
      BY <1>0, <1>t, <2>1, <2>3 DEF StartInv, Loops, Main
    <3> QED BY <1>0, <1>t, <2>1, <2>3, <3>1, <3>2 DEF StartInv, Starting, Handing, Loops, Main
  <2> QED BY <2>2, <2>3
<1>3. CASE runWorkThread
  <2>1. /\ pc[Main] \in {"check", "woken"} /\ threadNum' = threadNum /\ started' = started
        /\ index' = index /\ accepted' = accepted
        /\ \A k \in Loops \ {Main} : pc'[k] = pc[k]
        /\ \/ next \in started /\ next' = next + 1 /\ pc'[Main] = "create"
           \/ next \notin started /\ next' = next /\ pc'[Main] = "cond"
    BY <1>0, <1>3, <1>t DEF runWorkThread, Go, threadNum
  <2> QED BY <1>0, <1>t, <2>1 DEF StartInv, Starting, Handing, Loops, Main
<1>4. ASSUME NEW w \in Loops \ {Main}, subThreadRuning(w) PROVE StartInv'
  <2>1. /\ threadNum' = threadNum /\ next' = next /\ index' = index /\ accepted' = accepted
        /\ \A k \in Loops \ {Main, w} : pc'[k] = pc[k]
        /\ \/ /\ pc[w] = "created" /\ pc'[w] = "signal" /\ started' = started \cup {w}
              /\ pc'[Main] = pc[Main]
           \/ /\ pc[w] = "signal" /\ pc'[w] = "wait" /\ started' = started
              /\ pc'[Main] = pc[Main] \/ (pc[Main] = "cond" /\ pc'[Main] = "woken")
    BY <1>0, <1>4, <1>t DEF subThreadRuning, Go, threadNum
  <2> QED BY <1>0, <1>t, <2>1 DEF StartInv, Starting, Handing, Loops, Main
<1>5. ASSUME NEW l \in Loops, dispatch(l) PROVE StartInv'
  <2>1. pc[l] \in Running /\ UNCHANGED <<setup, startVars, index, accepted>>
    BY <1>5 DEF dispatch, Running
  <2>2. pc' = [pc EXCEPT ![l] = "events"] \/ pc' = [pc EXCEPT ![l] = "drain"]
    BY <1>5 DEF dispatch, Go
  <2> QED BY <1>0, <2>1, <2>2, RunningKeepsStart DEF Places, Starting, Handing
<1>6. ASSUME NEW l \in Loops, readMessage(l) PROVE StartInv'
  BY <1>0, <1>6 DEF readMessage, startVars, StartInv, threadNum
<1>7. ASSUME NEW l \in Loops, NEW c \in Clients, ActivateEvent(l, c) \/ eventActive(l, c)
      PROVE  StartInv'
  <2>1. /\ pc[l] \in Running /\ UNCHANGED <<setup, startVars, index, accepted>>
        /\ \/ pc' = pc \/ pc' = [pc EXCEPT ![l] = "drain"] \/ pc' = [pc EXCEPT ![l] = "stuck"]
    BY <1>7, ServeDoes DEF ServeEffect, Running
  <2> QED BY <1>0, <2>1, RunningKeepsStart DEF Places, Starting, Handing
<1>8. CASE acceptConnection
  <2>1. /\ pc[Main] = "events" /\ threadNum' = threadNum /\ started' = started /\ next' = next
        /\ accepted'[2] = takeWorkEventLoop
        /\ index' = IF threadNum > 0 THEN (index + 1) % threadNum ELSE index
        /\ \A k \in Loops \ {Main} : pc'[k] = pc[k]
        /\ \/ pc'[Main] = "push" /\ takeWorkEventLoop \in started \cup {Main}
           \/ pc'[Main] = pc[Main]
    BY <1>0, <1>8, <1>t DEF acceptConnection, Go, startVars, threadNum
  <2>2. threadNum > 0 => index' < threadNum
    BY <1>0, <1>t, <2>1
  <2> QED BY <1>0, <1>t, <2>1, <2>2 DEF StartInv, Starting, Handing
<1>9. CASE AddTaskEventLoop \/ addTask
  <2>1. /\ pc[Main] \in Running /\ pc[Main] \in Handing
        /\ UNCHANGED <<setup, startVars, index, accepted>>
        /\ \/ pc' = [pc EXCEPT ![Main] = "pushing"]
           \/ pc' = [pc EXCEPT ![Main] = "drain"]
           \/ pc' = [pc EXCEPT ![Main] = "wakeup"]
    BY <1>9, QueueDoes DEF QueueEffect, Running, Handing
  <2> QED BY <1>0, <2>1, RunningKeepsStart DEF Places, Starting
<1>10. CASE taskWakeUp
  <2>1. /\ pc[Main] \in Running /\ UNCHANGED <<setup, startVars, index, accepted>>
        /\ pc' = [pc EXCEPT ![Main] = "events"]
    BY <1>10 DEF taskWakeUp, Go, Running
  <2> QED BY <1>0, <2>1, RunningKeepsStart DEF Places, Starting, Handing
<1>11. ASSUME NEW l \in Loops, processTaskEventLoop(l) \/ processTaskQ(l) PROVE StartInv'
  <2>1. /\ pc[l] \in Running /\ UNCHANGED <<setup, startVars, index, accepted>>
        /\ pc' = pc \/ pc' = [pc EXCEPT ![l] = ret[l]]
    BY <1>11, TaskDoes DEF TaskEffect, Running
  <2>2. pc' = pc \/ pc' = [pc EXCEPT ![l] = "wait"] \/ pc' = [pc EXCEPT ![l] = "events"]
    BY <1>t, <2>1
  <2> QED BY <1>0, <2>1, <2>2, RunningKeepsStart DEF Places, Starting, Handing
<1> QED BY <1>1, <1>2, <1>3, <1>4, <1>5, <1>6, <1>7, <1>8, <1>9, <1>10, <1>11
        DEF Next, Thread, MainThread, Worker

-----------------------------------------------------------------------------
(* Queues and sleep.                                                       *)

\* A thread that does not sleep goes to a place where it does not sleep either.
LEMMA AwakeKeepsSleep ==
  ASSUME TypeOK, SleepInv, NEW l \in Loops, NEW v \in Places \ {"signal", "wait"},
         pc' = pc \/ pc' = [pc EXCEPT ![l] = v],
         l = Main => taskQ[Main] = <<>> /\ pc[Main] # "wakeup",
         UNCHANGED <<taskQ, wake, started, accepted>>
  PROVE  SleepInv'
<1>1. pc \in [Loops -> Places] /\ Main \in Loops
  BY SetupFacts DEF TypeOK
<1> QED BY <1>1 DEF SleepInv

\* that nobody sleeps on top of a task,
LEMMA SleepStep ==
  ASSUME ReactorInv, Next
  PROVE  SleepInv'
<1>0. /\ TypeOK /\ StartInv /\ SleepInv /\ TaskInv /\ Main \in Loops /\ threadNum \in Nat
  BY SetupFacts DEF ReactorInv
<1>t. /\ pc \in [Loops -> Places] /\ started \subseteq 1..threadNum
      /\ accepted \in (Clients \cup {NoOne}) \X Loops /\ wake \in [Loops -> Nat]
      /\ ret \in [Loops -> {"wait", "events"}] /\ taskQ \in [Loops -> Seq(Tasks)]
  BY <1>0 DEF TypeOK
<1>q. pc[Main] # "drain" => taskQ[Main] = <<>>
  BY <1>0 DEF SleepInv
<1>1. ASSUME NEW c \in Clients, Connect(c) \/ Send(c) PROVE SleepInv'
  BY <1>0, <1>1 DEF Connect, Send, startVars, loopVars, SleepInv
<1>2. CASE runThreadPool
  <2>1. /\ pc[Main] = "create" /\ started' = started /\ taskQ' = taskQ /\ wake' = wake
        /\ pc'[Main] \in {"check", "wait"}
        /\ \A k \in Loops \ {Main} : pc'[k] = pc[k] \/ pc'[k] = "created"
    BY <1>0, <1>2, <1>t DEF runThreadPool, Go, startVars, loopVars
  <2> QED BY <1>0, <1>q, <2>1 DEF SleepInv
<1>3. CASE runWorkThread
  <2>1. /\ pc[Main] \in {"check", "woken"} /\ started' = started /\ taskQ' = taskQ
        /\ wake' = wake /\ pc'[Main] \in {"create", "cond"}
        /\ \A k \in Loops \ {Main} : pc'[k] = pc[k]
    BY <1>0, <1>3, <1>t DEF runWorkThread, Go, loopVars
  <2> QED BY <1>0, <1>q, <2>1 DEF SleepInv
<1>4. ASSUME NEW w \in Loops \ {Main}, subThreadRuning(w) PROVE SleepInv'
  <2>1. /\ taskQ' = taskQ /\ wake' = wake /\ accepted' = accepted
        /\ \A k \in Loops \ {Main, w} : pc'[k] = pc[k]
        /\ pc'[Main] = pc[Main] \/ (pc[Main] = "cond" /\ pc'[Main] = "woken")
        /\ \/ pc[w] = "created" /\ started' = started \cup {w}
           \/ pc[w] = "signal" /\ started' = started
    BY <1>0, <1>4, <1>t DEF subThreadRuning, Go, loopVars
  <2>2. pc[w] = "created" => taskQ[w] = <<>>
    BY <1>0, <1>4 DEF SleepInv, StartInv
  <2> QED BY <1>0, <1>q, <2>1, <2>2 DEF SleepInv
<1>5. ASSUME NEW l \in Loops, dispatch(l) PROVE SleepInv'
  <2>1. /\ pc[l] \in {"wait", "events"} /\ UNCHANGED <<taskQ, wake, started, accepted>>
        /\ pc' = [pc EXCEPT ![l] = "events"] \/ pc' = [pc EXCEPT ![l] = "drain"]
    BY <1>5 DEF dispatch, Go, startVars, loopVars
  <2> QED BY <1>0, <1>q, <2>1, AwakeKeepsSleep DEF Places
<1>6. ASSUME NEW l \in Loops, readMessage(l) PROVE SleepInv'
  <2>1. /\ pc[l] = "events" /\ UNCHANGED <<pc, taskQ, started, accepted>>
        /\ \A k \in Loops \ {l} : wake'[k] = wake[k]
    BY <1>6, <1>t DEF readMessage, Taken, startVars, loopVars
  <2> QED BY <1>0, <2>1 DEF SleepInv
<1>7. ASSUME NEW l \in Loops, NEW c \in Clients, ActivateEvent(l, c) \/ eventActive(l, c)
      PROVE  SleepInv'
  <2>1. ServeEffect(l, c)
    BY <1>7, ServeDoes
  <2>2. pc[l] = "events" /\ UNCHANGED <<wake, started, accepted>>
    BY <2>1 DEF ServeEffect, startVars
  <2>3. CASE taskQ' = taskQ /\ (pc' = pc \/ pc' = [pc EXCEPT ![l] = "stuck"])
    BY <1>0, <1>q, <2>2, <2>3, AwakeKeepsSleep DEF Places
  <2>4. CASE /\ taskQ' = [taskQ EXCEPT ![l] = Append(@, <<"DELETE", c>>)]
             /\ pc' = [pc EXCEPT ![l] = "drain"]
    <3>1. pc'[l] = "drain" /\ \A k \in Loops \ {l} : pc'[k] = pc[k] /\ taskQ'[k] = taskQ[k]
      BY <1>t, <2>4
    <3>2. l \in started \cup {Main}
      BY <1>0, <2>2 DEF StartInv
    <3> QED BY <1>0, <2>2, <3>1, <3>2 DEF SleepInv
  <2> QED BY <2>1, <2>3, <2>4 DEF ServeEffect
<1>8. CASE acceptConnection
  <2>1. /\ pc[Main] = "events" /\ started' = started /\ taskQ' = taskQ /\ wake' = wake
        /\ pc'[Main] \in {"push", "events"}
        /\ \A k \in Loops \ {Main} : pc'[k] = pc[k]
    BY <1>0, <1>8, <1>t DEF acceptConnection, Go, startVars, loopVars
  <2> QED BY <1>0, <1>q, <2>1 DEF SleepInv
<1>9. CASE AddTaskEventLoop \/ addTask
  <2>1. CASE QueueEffect(accepted[2])
    <3>1. PICK l \in Loops : l = accepted[2]
      BY <1>t
    <3>2. /\ UNCHANGED <<wake, started, accepted>> /\ pc[Main] \in Handing
          /\ pc[Main] \notin {"wait", "drain"} /\ pc[Main] # "wakeup"
      BY <2>1 DEF QueueEffect, startVars, Handing
    <3>3. l \in started \cup {Main} /\ \A k \in Loops \ {l} : taskQ'[k] = taskQ[k]
      BY <1>0, <1>t, <2>1, <3>1, <3>2 DEF StartInv, QueueEffect
    <3>4. /\ \A k \in Loops \ {Main} : pc'[k] = pc[k]
          /\ pc'[Main] = IF l = Main THEN "drain" ELSE "wakeup"
      BY <1>0, <1>t, <2>1, <3>1 DEF QueueEffect
    <3> QED BY <1>0, <1>q, <3>1, <3>2, <3>3, <3>4 DEF SleepInv
  <2>2. CASE ~QueueEffect(accepted[2])
    <3>1. /\ pc[Main] = "push" /\ UNCHANGED <<taskQ, wake, started, accepted>>
          /\ pc' = [pc EXCEPT ![Main] = "pushing"]
      BY <1>9, <2>2, QueueDoes DEF startVars
    <3> QED BY <1>0, <1>q, <3>1, AwakeKeepsSleep DEF Places
  <2> QED BY <2>1, <2>2
<1>10. CASE taskWakeUp
  <2>1. PICK l \in Loops : l = accepted[2]
    BY <1>t
  <2>2. /\ pc[Main] = "wakeup" /\ UNCHANGED <<taskQ, started, accepted>>
        /\ wake' = [wake EXCEPT ![l] = @ + 1] /\ pc' = [pc EXCEPT ![Main] = "events"]
    BY <1>10, <2>1 DEF taskWakeUp, Go, startVars, loopVars
  <2>3. wake'[l] > 0 /\ \A k \in Loops \ {l} : wake'[k] = wake[k]
    BY <1>t, <2>2
  <2>4. pc'[Main] = "events" /\ \A k \in Loops \ {Main} : pc'[k] = pc[k]
    BY <1>0, <1>t, <2>2
  <2> QED BY <1>0, <1>q, <2>1, <2>2, <2>3, <2>4 DEF SleepInv
<1>11. ASSUME NEW l \in Loops, processTaskEventLoop(l) \/ processTaskQ(l) PROVE SleepInv'
  <2>1. TaskEffect(l)
    BY <1>11, TaskDoes
  <2>2. pc[l] = "drain" /\ UNCHANGED <<wake, started, accepted>>
    BY <2>1 DEF TaskEffect, startVars
  <2>3. CASE taskQ[l] = <<>>
    <3>1. taskQ' = taskQ /\ \A k \in Loops \ {l} : pc'[k] = pc[k]
      BY <1>t, <2>1, <2>3 DEF TaskEffect
    <3> QED BY <1>0, <2>2, <2>3, <3>1 DEF SleepInv
  <2>4. CASE taskQ[l] # <<>>
    <3>1. pc' = pc /\ \A k \in Loops \ {l} : taskQ'[k] = taskQ[k]
      BY <1>t, <2>1, <2>4 DEF TaskEffect
    <3> QED BY <1>0, <2>2, <2>4, <3>1 DEF SleepInv
  <2> QED BY <2>3, <2>4
<1> QED BY <1>1, <1>2, <1>3, <1>4, <1>5, <1>6, <1>7, <1>8, <1>9, <1>10, <1>11
        DEF Next, Thread, MainThread, Worker

\* No step fails.
LEMMA EndStep ==
  ASSUME ReactorInv, Next
  PROVE  EndInv'
<1>0. /\ TypeOK /\ StartInv /\ EndInv /\ threadNum \in Nat
  BY SetupFacts DEF ReactorInv
<1>1. ASSUME NEW c \in Clients, Connect(c) \/ Send(c) PROVE EndInv'
  BY <1>0, <1>1 DEF EndInv, Connect, Send
<1>2. CASE runThreadPool \/ runWorkThread \/ taskWakeUp
  <2>1. over' = over
    BY <1>2 DEF runThreadPool, runWorkThread, taskWakeUp
  <2> QED BY <1>0, <2>1 DEF EndInv
<1>3. ASSUME NEW l \in Loops, subThreadRuning(l) \/ dispatch(l) \/ readMessage(l)
      PROVE  EndInv'
  BY <1>0, <1>3 DEF EndInv, subThreadRuning, dispatch, readMessage
<1>4. ASSUME NEW l \in Loops, NEW c \in Clients, ActivateEvent(l, c) \/ eventActive(l, c)
      PROVE  EndInv'
  BY <1>0, <1>4, ServeDoes DEF EndInv, ServeEffect
<1>5. CASE acceptConnection
  <2>1. pc[Main] \notin Starting
    BY <1>5 DEF acceptConnection, Starting
  <2>2. takeWorkEventLoop \in started \cup {Main}
    <3>1. started \subseteq 1..threadNum /\ index \in Nat
      BY <1>0 DEF TypeOK
    <3>2. 1..threadNum \subseteq started /\ (threadNum > 0 => index < threadNum)
      BY <1>0, <2>1 DEF StartInv
    <3> QED BY <1>0, <3>1, <3>2 DEF takeWorkEventLoop
  <2>3. over' = over
    BY <1>5, <2>2, Zenon DEF acceptConnection
  <2> QED BY <1>0, <2>3 DEF EndInv
<1>6. CASE AddTaskEventLoop \/ addTask
  <2>1. over' = over
    BY <1>6, QueueDoes DEF QueueEffect
  <2> QED BY <1>0, <2>1 DEF EndInv
<1>7. ASSUME NEW l \in Loops, processTaskEventLoop(l) \/ processTaskQ(l) PROVE EndInv'
  BY <1>0, <1>7, TaskDoes DEF EndInv, TaskEffect, AddEffect, DeleteEffect
<1> QED BY <1>1, <1>2, <1>3, <1>4, <1>5, <1>6, <1>7
        DEF Next, Thread, MainThread, Worker

-----------------------------------------------------------------------------
(* Tasks.                                                                  *)

\* A client that has an event to come has no task: neither an ADD, as it is
\* watched, nor a DELETE, as only its own loop could have one.
LEMMA EventMeansQuiet ==
  ASSUME ReactorInv, NEW l \in Loops, NEW c \in Clients, c \in batch[l]
  PROVE  Quiet(c) /\ c \in watched[l]
<1>1. c \in watched[l] /\ \A k \in Loops \ {l} : c \notin watched[k]
  BY DEF ReactorInv, MapInv
<1>2. ASSUME NEW k \in Loops, NEW j \in 1..Len(taskQ[k]), taskQ[k][j][2] = c PROVE FALSE
  <2>1. CASE taskQ[k][j][1] = "ADD"
    BY <1>1, <1>2, <2>1 DEF ReactorInv, TaskInv, TaskFits, Unwatched
  <2>2. CASE taskQ[k][j][1] # "ADD"
    BY <1>1, <1>2, <2>2 DEF ReactorInv, TaskInv, TaskFits
  <2> QED BY <2>1, <2>2
<1> QED BY <1>1, <1>2 DEF Quiet

\* Queues, descriptors and watches stay; a loop that has a DELETE stays where it
\* is, and gets no new events.
LEMMA MovesKeepTasks ==
  ASSUME TaskInv, UNCHANGED <<taskQ, fd, conn, watched, accepted>>,
         \A k \in Loops : pc[k] = "drain" /\ taskQ[k] # <<>> => pc'[k] = "drain",
         \A k \in Loops : pc[k] = "drain" => batch'[k] \subseteq batch[k],
         pc'[Main] \in {"push", "pushing"} => pc[Main] \in {"push", "pushing"}
  PROVE  TaskInv'
<1>1. OneTask' /\ Newcomer'
  BY DEF TaskInv, OneTask, Newcomer, Unwatched, Quiet
<1>2. HandOver'
  BY DEF TaskInv, HandOver, Unwatched, Quiet
<1>3. TaskFits'
  <2>1. \A k \in Loops : \A j \in 1..Len(taskQ[k]) : taskQ[k] # <<>>
    OBVIOUS
  <2> QED BY <2>1 DEF TaskInv, TaskFits, Unwatched
<1> QED BY <1>1, <1>2, <1>3 DEF TaskInv

\* A client connects.
LEMMA ConnectKeepsTasks ==
  ASSUME ReactorInv, NEW c \in Clients, Connect(c)
  PROVE  TaskInv'
<1>1. /\ UNCHANGED <<taskQ, fd, watched, accepted, pc, batch>> /\ conn[c] = "new"
      /\ conn' = [conn EXCEPT ![c] = "pending"] /\ conn \in [Clients -> Stages]
      /\ taskQ \in [Loops -> Seq(Tasks)]
  BY DEF Connect, loopVars, ReactorInv, TypeOK
<1>2. \A b \in Clients : conn[b] = "open" => conn'[b] = "open"
  BY <1>1
<1>3. \A b \in Clients : conn'[b] \in {"new", "pending"} => conn[b] \in {"new", "pending"}
  BY <1>1
<1>4. OneTask' /\ Newcomer'
  BY <1>1, <1>3 DEF ReactorInv, TaskInv, OneTask, Newcomer, Unwatched, Quiet
<1>5. HandOver'
  BY <1>1, <1>2 DEF ReactorInv, TaskInv, HandOver, Unwatched, Quiet
<1>6. TaskFits'
  <2>1. \A k \in Loops : \A j \in 1..Len(taskQ[k]) : taskQ[k][j][2] \in Clients
    BY <1>1 DEF Tasks
  <2> QED BY <1>1, <1>2, <2>1 DEF ReactorInv, TaskInv, TaskFits, Unwatched
<1> QED BY <1>4, <1>5, <1>6 DEF TaskInv

\* A callback queues the DELETE of its client.
LEMMA ServeKeepsTasks ==
  ASSUME ReactorInv, NEW l \in Loops, NEW c \in Clients, ServeEffect(l, c)
  PROVE  TaskInv'
<1>0. /\ TypeOK /\ TaskInv /\ SleepInv /\ Main \in Loops
  BY SetupFacts DEF ReactorInv
<1>t. /\ taskQ \in [Loops -> Seq(Tasks)] /\ pc \in [Loops -> Places]
      /\ batch \in [Loops -> SUBSET (Clients \cup {Wake, Listen})]
      /\ conn \in [Clients -> Stages]
  BY <1>0 DEF TypeOK
<1>1. /\ pc[l] = "events" /\ c \in batch[l] /\ batch' = [batch EXCEPT ![l] = @ \ {c}]
      /\ UNCHANGED <<fd, watched, accepted>>
  BY DEF ServeEffect
<1>2. \A k \in Loops : batch'[k] \subseteq batch[k]
  BY <1>t, <1>1
<1>3. CASE UNCHANGED <<conn, taskQ>> /\ (pc' = pc \/ pc' = [pc EXCEPT ![l] = "stuck"])
  <2>1. \A k \in Loops : pc[k] = "drain" => pc'[k] = "drain"
    BY <1>t, <1>1, <1>3
  <2>2. pc'[Main] \in {"push", "pushing"} => pc[Main] \in {"push", "pushing"}
    BY <1>0, <1>t, <1>1, <1>3
  <2> QED BY <1>0, <1>1, <1>2, <1>3, <2>1, <2>2, MovesKeepTasks
<1>4. CASE /\ conn' \in {[conn EXCEPT ![c] = "answered"], conn}
           /\ taskQ' = [taskQ EXCEPT ![l] = Append(@, <<"DELETE", c>>)]
           /\ pc' = [pc EXCEPT ![l] = "drain"]
  <2>1. Quiet(c) /\ c \in watched[l]
    BY <1>1, EventMeansQuiet
  <2>2. <<"DELETE", c>> \in Tasks
    BY DEF Tasks
  <2>3. /\ \A k \in Loops \ {l} : taskQ'[k] = taskQ[k]
        /\ Len(taskQ'[l]) = Len(taskQ[l]) + 1 /\ taskQ'[l][Len(taskQ[l]) + 1] = <<"DELETE", c>>
        /\ \A j \in 1..Len(taskQ[l]) : taskQ'[l][j] = taskQ[l][j]
    BY <1>t, <1>4, <2>2, Appended
  <2>4. \A k \in Loops : Len(taskQ[k]) \in Nat
    BY <1>t, LenProperties
  <2>5. ASSUME NEW k \in Loops, NEW j \in 1..Len(taskQ'[k])
        PROVE  \/ j \in 1..Len(taskQ[k]) /\ taskQ'[k][j] = taskQ[k][j]
               \/ k = l /\ j = Len(taskQ[l]) + 1 /\ taskQ'[k][j] = <<"DELETE", c>>
    BY <2>3, <2>4
  <2>6. \A b \in Clients \ {c} : conn'[b] = conn[b]
    BY <1>t, <1>4
  <2>7. conn[c] \notin {"new", "pending"} /\ conn'[c] \notin {"new", "pending"}
    BY <1>0, <1>t, <1>4, <2>1 DEF TaskInv, Newcomer, Unwatched
  <2>8. pc'[l] = "drain" /\ \A k \in Loops \ {l} : pc'[k] = pc[k]
    BY <1>t, <1>4
  <2>9. OneTask'
    <3> SUFFICES ASSUME NEW k \in Loops, NEW m \in Loops, NEW i \in 1..Len(taskQ'[k]),
                        NEW j \in 1..Len(taskQ'[m]), taskQ'[k][i][2] = taskQ'[m][j][2]
                 PROVE  k = m /\ i = j
      BY DEF OneTask
    <3>1. CASE i \in 1..Len(taskQ[k]) /\ j \in 1..Len(taskQ[m])
               /\ taskQ'[k][i] = taskQ[k][i] /\ taskQ'[m][j] = taskQ[m][j]
      BY <1>0, <3>1 DEF TaskInv, OneTask
    <3>2. CASE taskQ'[k][i] = <<"DELETE", c>> \/ taskQ'[m][j] = <<"DELETE", c>>
      <4>1. ASSUME NEW n \in Loops, NEW o \in 1..Len(taskQ'[n]), taskQ'[n][o][2] = c
            PROVE  n = l /\ o = Len(taskQ[l]) + 1
        BY <2>1, <2>5, <4>1 DEF Quiet
      <4>2. taskQ'[k][i][2] = c /\ taskQ'[m][j][2] = c
        BY <3>2
      <4> QED BY <4>1, <4>2
    <3> QED BY <2>5, <3>1, <3>2
  <2>10. TaskFits'
    <3> SUFFICES ASSUME NEW k \in Loops, NEW j \in 1..Len(taskQ'[k])
                 PROVE  IF taskQ'[k][j][1] = "ADD"
                          THEN fd'[taskQ'[k][j][2]] # 0 /\ conn'[taskQ'[k][j][2]] = "open"
                               /\ \A m \in Loops : taskQ'[k][j][2] \notin watched'[m]
                          ELSE taskQ'[k][j][2] \in watched'[k] /\ taskQ'[k][j][2] \notin batch'[k]
                               /\ pc'[k] = "drain"
      BY DEF TaskFits, Unwatched
    <3>1. CASE j \in 1..Len(taskQ[k]) /\ taskQ'[k][j] = taskQ[k][j]
      <4>1. taskQ[k][j][2] \in Clients /\ taskQ[k][j][2] # c
        BY <1>t, <2>1, <3>1 DEF Quiet, Tasks
      <4> QED BY <1>0, <1>1, <1>2, <2>6, <2>8, <3>1, <4>1 DEF TaskInv, TaskFits, Unwatched
    <3>2. CASE k = l /\ taskQ'[k][j] = <<"DELETE", c>>
      BY <1>t, <1>1, <2>1, <2>8, <3>2
    <3> QED BY <2>5, <3>1, <3>2
  <2>11. HandOver'
    <3> SUFFICES ASSUME pc'[Main] \in {"push", "pushing"} PROVE HandOver'
      BY DEF HandOver
    <3>1. Main # l /\ pc[Main] \in {"push", "pushing"}
      BY <1>0, <2>8
    <3>2. PICK a \in Clients : a = accepted[1] /\ fd[a] # 0 /\ conn[a] = "open" /\ Unwatched(a)
                               /\ Quiet(a)
      BY <1>0, <3>1 DEF TaskInv, HandOver
    <3>3. a # c
      BY <2>1, <3>2 DEF Unwatched
    <3>4. conn'[a] = "open"
      BY <2>6, <3>2, <3>3
    <3>5. \A k \in Loops : \A j \in 1..Len(taskQ'[k]) : taskQ'[k][j][2] # a
      BY <2>5, <3>2, <3>3 DEF Quiet
    <3> QED BY <1>1, <3>2, <3>4, <3>5 DEF HandOver, Unwatched, Quiet
  <2>12. Newcomer'
    <3> SUFFICES ASSUME NEW b \in Clients, conn'[b] \in {"new", "pending"}
                 PROVE  fd'[b] = 0 /\ Unwatched(b)' /\ Quiet(b)'
      BY DEF Newcomer
    <3>1. b # c /\ fd[b] = 0 /\ Unwatched(b) /\ Quiet(b)
      BY <1>0, <2>6, <2>7 DEF TaskInv, Newcomer
    <3> QED BY <1>1, <2>5, <3>1 DEF Unwatched, Quiet
  <2> QED BY <2>9, <2>10, <2>11, <2>12 DEF TaskInv
<1> QED BY <1>3, <1>4 DEF ServeEffect

\* A client is accepted: so far nobody knows of it.
LEMMA AcceptKeepsTasks ==
  ASSUME ReactorInv, acceptConnection
  PROVE  TaskInv'
<1>0. /\ TypeOK /\ TaskInv /\ Main \in Loops /\ 0 \notin Fds
  BY SetupFacts DEF ReactorInv
<1>t. /\ taskQ \in [Loops -> Seq(Tasks)] /\ pc \in [Loops -> Places]
      /\ batch \in [Loops -> SUBSET (Clients \cup {Wake, Listen})]
      /\ conn \in [Clients -> Stages] /\ fd \in [Clients -> Fds \cup {0}]
  BY <1>0 DEF TypeOK
<1>1. Min(FreeFds) \in Fds
  <2>1. FreeFds \subseteq Fds /\ FreeFds \subseteq Nat
    BY <1>0, SetupFacts DEF FreeFds
  <2> QED BY <2>1, MinIsMember DEF acceptConnection
<1>2. PICK c \in Clients : /\ conn[c] = "pending" /\ conn' = [conn EXCEPT ![c] = "open"]
                           /\ fd' = [fd EXCEPT ![c] = Min(FreeFds)]
                           /\ accepted' = <<c, takeWorkEventLoop>>
  BY Zenon DEF acceptConnection
<1>3. /\ UNCHANGED <<taskQ, watched>> /\ pc[Main] = "events"
      /\ batch' = [batch EXCEPT ![Main] = @ \ {Listen}]
      /\ pc' = [pc EXCEPT ![Main] = "push"] \/ pc' = pc
  BY DEF acceptConnection, Go, loopVars
<1>4. Unwatched(c) /\ Quiet(c)
  BY <1>0, <1>2 DEF TaskInv, Newcomer
<1>5. /\ fd'[c] # 0 /\ conn'[c] = "open"
      /\ \A b \in Clients \ {c} : fd'[b] = fd[b] /\ conn'[b] = conn[b]
  BY <1>0, <1>t, <1>1, <1>2
<1>6. \A k \in Loops : batch'[k] \subseteq batch[k] /\ (pc[k] = "drain" => pc'[k] = "drain")
  BY <1>0, <1>t, <1>3
<1>7. OneTask'
  BY <1>0, <1>3 DEF TaskInv, OneTask
<1>8. TaskFits'
  <2>1. \A k \in Loops : \A j \in 1..Len(taskQ[k]) :
          taskQ[k][j][2] \in Clients /\ taskQ[k][j][2] # c
    BY <1>t, <1>4 DEF Quiet, Tasks
  <2> QED BY <1>0, <1>3, <1>5, <1>6, <2>1 DEF TaskInv, TaskFits, Unwatched
<1>9. HandOver'
  BY <1>2, <1>3, <1>4, <1>5 DEF HandOver, Unwatched, Quiet
<1>10. Newcomer'
  <2> SUFFICES ASSUME NEW b \in Clients, conn'[b] \in {"new", "pending"}
               PROVE  fd'[b] = 0 /\ Unwatched(b)' /\ Quiet(b)'
    BY DEF Newcomer
  <2>1. b # c /\ fd[b] = 0 /\ Unwatched(b) /\ Quiet(b)
    BY <1>0, <1>5 DEF TaskInv, Newcomer
  <2> QED BY <1>3, <1>5, <2>1 DEF Unwatched, Quiet
<1> QED BY <1>7, <1>8, <1>9, <1>10 DEF TaskInv

\* The ADD of the new connection goes into a queue.
LEMMA QueueKeepsTasks ==
  ASSUME ReactorInv, QueueEffect(accepted[2])
  PROVE  TaskInv'
<1>0. /\ TypeOK /\ TaskInv /\ Main \in Loops
  BY SetupFacts DEF ReactorInv
<1>t. /\ taskQ \in [Loops -> Seq(Tasks)] /\ pc \in [Loops -> Places]
      /\ accepted \in (Clients \cup {NoOne}) \X Loops
  BY <1>0 DEF TypeOK
<1>1. PICK l \in Loops : l = accepted[2]
  BY <1>t
<1>2. pc[Main] \in {"push", "pushing"}
  BY DEF QueueEffect
<1>3. PICK c \in Clients : /\ c = accepted[1] /\ fd[c] # 0 /\ conn[c] = "open"
                           /\ Unwatched(c) /\ Quiet(c)
  BY <1>0, <1>2 DEF TaskInv, HandOver
<1>4. /\ UNCHANGED <<fd, conn, watched, batch>>
      /\ taskQ' = [taskQ EXCEPT ![l] = Append(@, <<"ADD", c>>)]
      /\ pc' = [pc EXCEPT ![Main] = IF l = Main THEN "drain" ELSE "wakeup"]
  BY <1>1, <1>3 DEF QueueEffect
<1>5. <<"ADD", c>> \in Tasks
  BY DEF Tasks
<1>6. /\ \A k \in Loops \ {l} : taskQ'[k] = taskQ[k]
      /\ Len(taskQ'[l]) = Len(taskQ[l]) + 1 /\ taskQ'[l][Len(taskQ[l]) + 1] = <<"ADD", c>>
      /\ \A j \in 1..Len(taskQ[l]) : taskQ'[l][j] = taskQ[l][j]
  BY <1>t, <1>4, <1>5, Appended
<1>7. \A k \in Loops : Len(taskQ[k]) \in Nat
  BY <1>t, LenProperties
<1>8. ASSUME NEW k \in Loops, NEW j \in 1..Len(taskQ'[k])
      PROVE  \/ j \in 1..Len(taskQ[k]) /\ taskQ'[k][j] = taskQ[k][j]
             \/ k = l /\ j = Len(taskQ[l]) + 1 /\ taskQ'[k][j] = <<"ADD", c>>
  BY <1>6, <1>7
<1>9. /\ \A k \in Loops : pc[k] = "drain" => pc'[k] = "drain"
      /\ pc'[Main] \notin {"push", "pushing"}
  BY <1>0, <1>t, <1>2, <1>4
<1>10. OneTask'
  <2> SUFFICES ASSUME NEW k \in Loops, NEW m \in Loops, NEW i \in 1..Len(taskQ'[k]),
                      NEW j \in 1..Len(taskQ'[m]), taskQ'[k][i][2] = taskQ'[m][j][2]
               PROVE  k = m /\ i = j
    BY DEF OneTask
  <2>1. CASE i \in 1..Len(taskQ[k]) /\ j \in 1..Len(taskQ[m])
             /\ taskQ'[k][i] = taskQ[k][i] /\ taskQ'[m][j] = taskQ[m][j]
    BY <1>0, <2>1 DEF TaskInv, OneTask
  <2>2. CASE taskQ'[k][i] = <<"ADD", c>> \/ taskQ'[m][j] = <<"ADD", c>>
    <3>1. ASSUME NEW n \in Loops, NEW o \in 1..Len(taskQ'[n]), taskQ'[n][o][2] = c
          PROVE  n = l /\ o = Len(taskQ[l]) + 1
      <4>1. ~ (o \in 1..Len(taskQ[n]) /\ taskQ'[n][o] = taskQ[n][o])
        BY <1>3, <3>1 DEF Quiet
      <4> QED BY <1>8, <4>1
    <3>2. taskQ'[k][i][2] = c /\ taskQ'[m][j][2] = c
      BY <2>2
    <3> QED BY <3>1, <3>2
  <2> QED BY <1>8, <2>1, <2>2
<1>11. TaskFits'
  <2> SUFFICES ASSUME NEW k \in Loops, NEW j \in 1..Len(taskQ'[k])
               PROVE  IF taskQ'[k][j][1] = "ADD"
                        THEN fd'[taskQ'[k][j][2]] # 0 /\ conn'[taskQ'[k][j][2]] = "open"
                             /\ \A m \in Loops : taskQ'[k][j][2] \notin watched'[m]
                        ELSE taskQ'[k][j][2] \in watched'[k] /\ taskQ'[k][j][2] \notin batch'[k]
                             /\ pc'[k] = "drain"
    BY DEF TaskFits, Unwatched
  <2>1. CASE j \in 1..Len(taskQ[k]) /\ taskQ'[k][j] = taskQ[k][j]
    BY <1>0, <1>4, <1>9, <2>1 DEF TaskInv, TaskFits, Unwatched
  <2>2. CASE taskQ'[k][j] = <<"ADD", c>>
    BY <1>3, <1>4, <2>2 DEF Unwatched
  <2> QED BY <1>8, <2>1, <2>2
<1>12. HandOver'
  BY <1>9 DEF HandOver
<1>13. Newcomer'
  <2> SUFFICES ASSUME NEW b \in Clients, conn'[b] \in {"new", "pending"}
               PROVE  fd'[b] = 0 /\ Unwatched(b)' /\ Quiet(b)'
    BY DEF Newcomer
  <2>1. b # c /\ fd[b] = 0 /\ Unwatched(b) /\ Quiet(b)
    BY <1>0, <1>3, <1>4 DEF TaskInv, Newcomer
  <2> QED BY <1>4, <1>8, <2>1 DEF Unwatched, Quiet
<1> QED BY <1>10, <1>11, <1>12, <1>13 DEF TaskInv

\* A task is done: its client has no other, so that no other task is disturbed.
LEMMA ExecuteKeepsTasks ==
  ASSUME ReactorInv, NEW l \in Loops, taskQ[l] # <<>>, TaskEffect(l)
  PROVE  TaskInv'
<1>0. /\ TypeOK /\ TaskInv /\ MapInv /\ Main \in Loops
  BY SetupFacts DEF ReactorInv
<1>t. /\ taskQ \in [Loops -> Seq(Tasks)] /\ conn \in [Clients -> Stages]
      /\ watched \in [Loops -> SUBSET Clients] /\ fd \in [Clients -> Fds \cup {0}]
  BY <1>0 DEF TypeOK
<1>1. taskQ' = [taskQ EXCEPT ![l] = Tail(@)] /\ UNCHANGED <<pc, batch, accepted>>
  BY DEF TaskEffect
<1>2. /\ \A k \in Loops \ {l} : taskQ'[k] = taskQ[k]
      /\ Len(taskQ[l]) \in Nat \ {0} /\ Len(taskQ'[l]) = Len(taskQ[l]) - 1
      /\ \A j \in 1..Len(taskQ'[l]) : taskQ'[l][j] = taskQ[l][j + 1]
      /\ taskQ[l][1] \in Tasks
  BY <1>t, <1>1, Shortened
<1>3. PICK c \in Clients : c = taskQ[l][1][2]
  BY <1>2 DEF Tasks
<1>4. 1 \in 1..Len(taskQ[l])
  BY <1>2
<1>5. \A k \in Loops : \A j \in 1..Len(taskQ[k]) : taskQ[k][j][2] = c => k = l /\ j = 1
  BY <1>0, <1>3, <1>4 DEF TaskInv, OneTask
<1>6. conn[c] \notin {"new", "pending"}
  BY <1>0, <1>3, <1>4 DEF TaskInv, Newcomer, Quiet
<1>7. \A k \in Loops, j \in 1..Len(taskQ'[l]) : j + 1 \in 1..Len(taskQ[l]) /\ j + 1 # 1
  BY <1>2
<1>8. ASSUME NEW k \in Loops, NEW j \in 1..Len(taskQ'[k])
      PROVE  \E i \in 1..Len(taskQ[k]) : taskQ'[k][j] = taskQ[k][i] /\ (k = l => i = j + 1)
                                         /\ (k # l => i = j)
  BY <1>2, <1>7
<1>9. ASSUME NEW k \in Loops, NEW j \in 1..Len(taskQ'[k]) PROVE taskQ'[k][j][2] # c
  <2>1. PICK i \in 1..Len(taskQ[k]) : taskQ'[k][j] = taskQ[k][i] /\ (k = l => i = j + 1)
    BY <1>8
  <2>2. k = l => i # 1
    BY <1>7, <2>1
  <2> QED BY <1>5, <2>1, <2>2
<1>10. /\ \A b \in Clients \ {c} : conn'[b] = conn[b] /\ fd'[b] = fd[b]
       /\ conn'[c] \notin {"new", "pending"}
       /\ \A k \in Loops, b \in Clients \ {c} : b \in watched'[k] <=> b \in watched[k]
  <2>1. CASE taskQ[l][1][1] = "ADD"
    <3>1. /\ UNCHANGED <<fd, conn>>
          /\ watched' = watched \/ watched' = [watched EXCEPT ![l] = @ \cup {c}]
      BY <1>3, <2>1 DEF TaskEffect, AddEffect
    <3> QED BY <1>t, <1>6, <3>1
  <2>2. CASE taskQ[l][1][1] # "ADD"
    <3>1. /\ watched' = [watched EXCEPT ![l] = @ \ {c}]
          /\ conn' = [conn EXCEPT ![c] = "closed"] \/ conn' = [conn EXCEPT ![c] = "leaked"]
          /\ fd' = fd \/ fd' = [fd EXCEPT ![c] = 0]
      BY <1>3, <2>2 DEF TaskEffect, DeleteEffect
    <3> QED BY <1>t, <3>1
  <2> QED BY <2>1, <2>2
<1>11. OneTask'
  <2> SUFFICES ASSUME NEW k \in Loops, NEW m \in Loops, NEW i \in 1..Len(taskQ'[k]),
                      NEW j \in 1..Len(taskQ'[m]), taskQ'[k][i][2] = taskQ'[m][j][2]
               PROVE  k = m /\ i = j
    BY DEF OneTask
  <2>1. PICK p \in 1..Len(taskQ[k]) : taskQ'[k][i] = taskQ[k][p] /\ (k = l => p = i + 1)
                                         /\ (k # l => p = i)
    BY <1>8
  <2>2. PICK q \in 1..Len(taskQ[m]) : taskQ'[m][j] = taskQ[m][q] /\ (m = l => q = j + 1)
                                         /\ (m # l => q = j)
    BY <1>8
  <2>3. k = m /\ p = q
    BY <1>0, <2>1, <2>2 DEF TaskInv, OneTask
  <2> QED BY <2>1, <2>2, <2>3
<1>12. TaskFits'
  <2> SUFFICES ASSUME NEW k \in Loops, NEW j \in 1..Len(taskQ'[k])
               PROVE  IF taskQ'[k][j][1] = "ADD"
                        THEN fd'[taskQ'[k][j][2]] # 0 /\ conn'[taskQ'[k][j][2]] = "open"
                             /\ \A m \in Loops : taskQ'[k][j][2] \notin watched'[m]
                        ELSE taskQ'[k][j][2] \in watched'[k] /\ taskQ'[k][j][2] \notin batch'[k]
                             /\ pc'[k] = "drain"
    BY DEF TaskFits, Unwatched
  <2>1. PICK i \in 1..Len(taskQ[k]) : taskQ'[k][j] = taskQ[k][i]
    BY <1>8
  <2>2. PICK b \in Clients : b = taskQ[k][i][2]
    BY <1>t DEF Tasks
  <2>3. b # c
    BY <1>9, <2>1, <2>2
  <2>4. /\ taskQ[k][i][1] = "ADD" => fd[b] # 0 /\ conn[b] = "open" /\ Unwatched(b)
        /\ taskQ[k][i][1] # "ADD" => b \in watched[k] /\ b \notin batch[k] /\ pc[k] = "drain"
    BY <1>0, <2>2 DEF TaskInv, TaskFits
  <2>5. /\ Unwatched(b) => \A m \in Loops : b \notin watched'[m]
        /\ b \in watched[k] => b \in watched'[k]
    BY <1>10, <2>3 DEF Unwatched
  <2> QED BY <1>1, <1>10, <2>1, <2>2, <2>3, <2>4, <2>5
<1>13. HandOver'
  <2> SUFFICES ASSUME pc'[Main] \in {"push", "pushing"} PROVE HandOver'
    BY DEF HandOver
  <2>1. PICK a \in Clients : /\ a = accepted[1] /\ fd[a] # 0 /\ conn[a] = "open"
                             /\ Unwatched(a) /\ Quiet(a)
    BY <1>0, <1>1 DEF TaskInv, HandOver
  <2>2. a # c
    BY <1>3, <1>4, <2>1 DEF Quiet
  <2>3. \A k \in Loops : \A j \in 1..Len(taskQ'[k]) : taskQ'[k][j][2] # a
    BY <1>8, <2>1 DEF Quiet
  <2>4. fd'[a] # 0 /\ conn'[a] = "open" /\ \A k \in Loops : a \notin watched'[k]
    BY <1>10, <2>1, <2>2 DEF Unwatched
  <2> QED BY <1>1, <2>1, <2>3, <2>4 DEF HandOver, Unwatched, Quiet
<1>14. Newcomer'
  <2> SUFFICES ASSUME NEW b \in Clients, conn'[b] \in {"new", "pending"}
               PROVE  fd'[b] = 0 /\ Unwatched(b)' /\ Quiet(b)'
    BY DEF Newcomer
  <2>1. b # c /\ fd[b] = 0 /\ Unwatched(b) /\ Quiet(b)
    BY <1>0, <1>10 DEF TaskInv, Newcomer
  <2>2. \A k \in Loops : \A j \in 1..Len(taskQ'[k]) : taskQ'[k][j][2] # b
    BY <1>8, <2>1 DEF Quiet
  <2> QED BY <1>10, <2>1, <2>2 DEF Unwatched, Quiet
<1> QED BY <1>11, <1>12, <1>13, <1>14 DEF TaskInv

\* where the tasks of a connection are,
LEMMA TaskStep ==
  ASSUME ReactorInv, Next
  PROVE  TaskInv'
<1>0. /\ TypeOK /\ StartInv /\ SleepInv /\ TaskInv /\ Main \in Loops
  BY SetupFacts DEF ReactorInv
<1>t. /\ pc \in [Loops -> Places] /\ ret \in [Loops -> {"wait", "events"}]
      /\ batch \in [Loops -> SUBSET (Clients \cup {Wake, Listen})]
  BY <1>0 DEF TypeOK
<1>1. ASSUME NEW c \in Clients, Connect(c) PROVE TaskInv'
  BY <1>1, ConnectKeepsTasks
<1>2. ASSUME NEW c \in Clients, Send(c) PROVE TaskInv'
  BY <1>0, <1>2, MovesKeepTasks DEF Send, loopVars
<1>3. CASE runThreadPool
  <2>1. /\ UNCHANGED <<taskQ, fd, conn, watched, accepted, batch>>
        /\ pc[Main] = "create" /\ pc'[Main] \notin {"push", "pushing"}
    BY <1>0, <1>3, <1>t DEF runThreadPool, Go, loopVars
  <2>2. \A k \in Loops : pc[k] = "drain" => pc'[k] = "drain"
    <3> SUFFICES ASSUME NEW k \in Loops, pc[k] = "drain" PROVE pc'[k] = "drain"
      OBVIOUS
    <3>1. k # Main /\ k # next
      BY <1>0, <2>1, SetupFacts DEF StartInv, TypeOK
    <3> QED BY <1>3, <1>t, <3>1 DEF runThreadPool, Go
  <2> QED BY <1>0, <2>1, <2>2, MovesKeepTasks
<1>4. CASE runWorkThread
  <2>1. /\ UNCHANGED <<taskQ, fd, conn, watched, accepted, batch>>
        /\ pc'[Main] \notin {"push", "pushing"}
        /\ \A k \in Loops : pc[k] = "drain" => pc'[k] = "drain"
    BY <1>0, <1>4, <1>t DEF runWorkThread, Go, loopVars
  <2> QED BY <1>0, <2>1, MovesKeepTasks
<1>5. ASSUME NEW w \in Loops \ {Main}, subThreadRuning(w) PROVE TaskInv'
  <2>1. /\ UNCHANGED <<taskQ, fd, conn, watched, accepted, batch>>
        /\ pc'[Main] \in {"push", "pushing"} => pc[Main] \in {"push", "pushing"}
        /\ \A k \in Loops : pc[k] = "drain" => pc'[k] = "drain"
    BY <1>0, <1>5, <1>t DEF subThreadRuning, Go, loopVars
  <2> QED BY <1>0, <2>1, MovesKeepTasks
<1>6. ASSUME NEW l \in Loops, dispatch(l) PROVE TaskInv'
  <2>1. /\ UNCHANGED <<taskQ, fd, conn, watched, accepted>> /\ pc[l] \in {"wait", "events"}
        /\ pc' = [pc EXCEPT ![l] = "events"] \/ pc' = [pc EXCEPT ![l] = "drain"]
        /\ batch' = batch \/ batch' = [batch EXCEPT ![l] = Ready(l)]
    BY <1>6 DEF dispatch, Go, loopVars
  <2>2. /\ pc'[Main] \in {"push", "pushing"} => pc[Main] \in {"push", "pushing"}
        /\ \A k \in Loops : pc[k] = "drain" => pc'[k] = "drain" /\ batch'[k] \subseteq batch[k]
    BY <1>0, <1>t, <2>1
  <2> QED BY <1>0, <2>1, <2>2, MovesKeepTasks
<1>7. ASSUME NEW l \in Loops, readMessage(l) PROVE TaskInv'
  <2>1. /\ UNCHANGED <<taskQ, fd, conn, watched, accepted, pc>>
        /\ \A k \in Loops : batch'[k] \subseteq batch[k]
    BY <1>7, <1>t DEF readMessage, Taken, loopVars
  <2> QED BY <1>0, <2>1, MovesKeepTasks
<1>8. ASSUME NEW l \in Loops, NEW c \in Clients, ActivateEvent(l, c) \/ eventActive(l, c)
      PROVE  TaskInv'
  BY <1>8, ServeDoes, ServeKeepsTasks
<1>9. CASE acceptConnection
  BY <1>9, AcceptKeepsTasks
<1>10. CASE AddTaskEventLoop \/ addTask
  <2>1. CASE QueueEffect(accepted[2])
    BY <2>1, QueueKeepsTasks
  <2>2. CASE ~QueueEffect(accepted[2])
    <3>1. /\ UNCHANGED <<taskQ, fd, conn, watched, accepted, batch>>
          /\ pc[Main] = "push" /\ pc' = [pc EXCEPT ![Main] = "pushing"]
      BY <1>10, <2>2, QueueDoes
    <3>2. \A k \in Loops : pc[k] = "drain" => pc'[k] = "drain"
      BY <1>t, <3>1
    <3> QED BY <1>0, <3>1, <3>2, MovesKeepTasks
  <2> QED BY <2>1, <2>2
<1>11. CASE taskWakeUp
  <2>1. /\ UNCHANGED <<taskQ, fd, conn, watched, accepted, batch>>
        /\ pc'[Main] \notin {"push", "pushing"}
        /\ \A k \in Loops : pc[k] = "drain" => pc'[k] = "drain"
    BY <1>0, <1>11, <1>t DEF taskWakeUp, Go, loopVars
  <2> QED BY <1>0, <2>1, MovesKeepTasks
<1>12. ASSUME NEW l \in Loops, processTaskEventLoop(l) \/ processTaskQ(l) PROVE TaskInv'
  <2>1. TaskEffect(l)
    BY <1>12, TaskDoes
  <2>2. CASE taskQ[l] # <<>>
    BY <2>1, <2>2, ExecuteKeepsTasks
  <2>3. CASE taskQ[l] = <<>>
    <3>1. /\ UNCHANGED <<taskQ, fd, conn, watched, accepted, batch>>
          /\ pc' = [pc EXCEPT ![l] = ret[l]]
      BY <2>1, <2>3 DEF TaskEffect
    <3>2. \A k \in Loops : pc[k] = "drain" /\ taskQ[k] # <<>> => pc'[k] = "drain"
      BY <1>t, <2>3, <3>1
    <3>3. pc'[Main] \in {"push", "pushing"} => pc[Main] \in {"push", "pushing"}
      BY <1>0, <1>t, <3>1
    <3> QED BY <1>0, <3>1, <3>2, <3>3, MovesKeepTasks
  <2> QED BY <2>2, <2>3
<1> QED BY <1>1, <1>2, <1>3, <1>4, <1>5, <1>6, <1>7, <1>8, <1>9, <1>10, <1>11, <1>12
        DEF Next, Thread, MainThread, Worker

-----------------------------------------------------------------------------
(* Descriptors, maps and watches.                                          *)

\* A step that at most takes events away.
LEMMA MapFrame ==
  ASSUME MapInv, UNCHANGED <<setup, fd, watched, map, size>>,
         \A l \in Loops : batch'[l] \cap Clients \subseteq batch[l]
  PROVE  MapInv'
<1>1. impl' = impl
  BY DEF impl
<1> QED BY <1>1 DEF MapInv

\* The descriptor of a new connection is nobody else's.
LEMMA AcceptKeepsMap ==
  ASSUME ReactorInv, acceptConnection
  PROVE  MapInv'
<1>0. /\ TypeOK /\ TaskInv /\ MapInv /\ Main \in Loops /\ 0 \notin Fds
  BY SetupFacts DEF ReactorInv
<1>t. /\ batch \in [Loops -> SUBSET (Clients \cup {Wake, Listen})]
      /\ fd \in [Clients -> Fds \cup {0}] /\ watched \in [Loops -> SUBSET Clients]
  BY <1>0 DEF TypeOK
<1>1. Min(FreeFds) \in FreeFds
  <2>1. FreeFds \subseteq Nat
    BY <1>0, SetupFacts DEF FreeFds
  <2> QED BY <2>1, MinIsMember DEF acceptConnection
<1>2. PICK f : f = Min(FreeFds)
  OBVIOUS
<1>3. f # 0 /\ \A b \in Clients : fd[b] # f
  <2>1. f \in setup.fds /\ f \notin {fd[b] : b \in Clients}
    BY <1>1, <1>2 DEF FreeFds
  <2>2. \A b \in Clients : fd[b] # f
    BY <2>1
  <2> QED BY <1>0, <2>1, <2>2, SetupFacts
<1>4. PICK c \in Clients : conn[c] = "pending" /\ fd' = [fd EXCEPT ![c] = f]
  BY <1>2, Zenon DEF acceptConnection
<1>5. /\ UNCHANGED <<setup, watched, map, size>>
      /\ \A l \in Loops : batch'[l] \cap Clients \subseteq batch[l]
  BY <1>0, <1>t DEF acceptConnection, loopVars
<1>6. \A l \in Loops : c \notin watched[l]
  BY <1>0, <1>4 DEF TaskInv, Newcomer, Unwatched
<1>7. fd'[c] = f /\ \A b \in Clients \ {c} : fd'[b] = fd[b]
  BY <1>t, <1>4
<1>8. impl' = impl
  BY <1>5 DEF impl
<1>9. \A a, b \in Clients : fd'[a] = fd'[b] /\ fd'[a] # 0 => a = b
  BY <1>0, <1>3, <1>7 DEF MapInv
<1>10. \A l \in Loops : \A b \in watched[l] : b \in Clients \ {c}
  BY <1>t, <1>6
<1>11. \A l \in Loops : \A b \in watched'[l] :
         /\ fd'[b] # 0 /\ map'[l][fd'[b]] = b
         /\ \A k \in Loops \ {l} : b \notin watched'[k]
  BY <1>0, <1>5, <1>7, <1>10 DEF MapInv
<1> QED BY <1>0, <1>5, <1>8, <1>9, <1>11 DEF MapInv

\* An ADD: the client's own entry, and no other that is in use.
LEMMA AddKeepsMap ==
  ASSUME ReactorInv, NEW l \in Loops, NEW c \in Clients, fd[c] # 0, Unwatched(c),
         AddEffect(l, c), UNCHANGED <<setup, batch>>
  PROVE  MapInv'
<1>0. /\ TypeOK /\ MapInv /\ impl \in {"c", "cpp"} /\ impl' = impl
  BY SetupFacts DEF ReactorInv, impl
<1>t. /\ fd \in [Clients -> Fds \cup {0}] /\ watched \in [Loops -> SUBSET Clients]
      /\ map \in [Loops -> [Fds -> Clients \cup {NoOne, Garbage}]]
  BY <1>0 DEF TypeOK
<1>1. /\ UNCHANGED <<fd, batch>>
      /\ \A k \in Loops, f \in Fds :
           (k # l \/ (f # fd[c] /\ (impl = "c" => f < size[l]))) => map'[k][f] = map[k][f]
      /\ impl = "c" => \A k \in Loops, f \in Fds : map'[k][f] \in Clients => f < size'[k]
  BY DEF AddEffect
<1>2. \/ watched' = watched
      \/ watched' = [watched EXCEPT ![l] = @ \cup {c}] /\ map'[l][fd[c]] = c
  BY DEF AddEffect
<1>3. \A k \in Loops : watched[k] \subseteq watched'[k]
  BY <1>t, <1>2
<1>4. \A k \in Loops : batch'[k] \cap Clients \subseteq watched'[k]
  BY <1>0, <1>1, <1>3 DEF MapInv
<1>5. ASSUME NEW k \in Loops, NEW b \in watched'[k]
      PROVE  /\ fd'[b] # 0 /\ map'[k][fd'[b]] = b
             /\ \A m \in Loops \ {k} : b \notin watched'[m]
  <2>1. CASE b = c
    <3>1. k = l /\ map'[l][fd[c]] = c /\ \A m \in Loops \ {l} : c \notin watched'[m]
      BY <1>t, <1>2, <1>5, <2>1 DEF Unwatched
    <3> QED BY <1>1, <2>1, <3>1
  <2>2. CASE b # c
    <3>1. b \in watched[k] /\ b \in Clients
      BY <1>t, <1>2, <1>5, <2>2
    <3>2. fd[b] # 0 /\ map[k][fd[b]] = b /\ \A m \in Loops \ {k} : b \notin watched[m]
      BY <1>0, <3>1 DEF MapInv
    <3>3. fd[b] \in Fds /\ fd[b] # fd[c]
      BY <1>0, <1>t, <2>2, <3>1, <3>2 DEF MapInv
    <3>4. impl = "c" => fd[b] < size[k]
      BY <1>0, <3>1, <3>2, <3>3 DEF MapInv
    <3>5. map'[k][fd[b]] = b
      BY <1>1, <3>2, <3>3, <3>4
    <3>6. \A m \in Loops \ {k} : b \notin watched'[m]
      BY <1>t, <1>2, <2>2, <3>2
    <3> QED BY <1>1, <3>2, <3>5, <3>6
  <2> QED BY <2>1, <2>2
<1>6. \A a, b \in Clients : fd'[a] = fd'[b] /\ fd'[a] # 0 => a = b
  BY <1>0, <1>1 DEF MapInv
<1> QED BY <1>0, <1>1, <1>4, <1>5, <1>6 DEF MapInv

\* A DELETE: the entry that is cleared is the client's own.
LEMMA DeleteKeepsMap ==
  ASSUME ReactorInv, NEW l \in Loops, NEW c \in watched[l], c \notin batch[l],
         DeleteEffect(l, c), UNCHANGED <<setup, batch>>
  PROVE  MapInv'
<1>0. /\ TypeOK /\ MapInv /\ impl' = impl /\ NoOne \notin Clients
  BY ClientsAssumption DEF ReactorInv, impl
<1>t. /\ fd \in [Clients -> Fds \cup {0}] /\ watched \in [Loops -> SUBSET Clients]
      /\ map \in [Loops -> [Fds -> Clients \cup {NoOne, Garbage}]]
  BY <1>0 DEF TypeOK
<1>1. c \in Clients /\ fd[c] # 0 /\ \A k \in Loops \ {l} : c \notin watched[k]
  BY <1>0, <1>t DEF MapInv
<1>2. PICK f \in Fds : f = fd[c]
  BY <1>t, <1>1
<1>3. /\ UNCHANGED <<batch, size>> /\ watched' = [watched EXCEPT ![l] = @ \ {c}]
      /\ \/ map' = [map EXCEPT ![l][f] = NoOne] /\ fd' = [fd EXCEPT ![c] = 0]
         \/ UNCHANGED <<map, fd>>
  BY <1>2 DEF DeleteEffect
<1>4. /\ watched'[l] = watched[l] \ {c} /\ \A k \in Loops \ {l} : watched'[k] = watched[k]
      /\ \A k \in Loops : \A b \in watched'[k] : b \in watched[k] /\ b # c /\ b \in Clients
  BY <1>t, <1>1, <1>3
<1>5. /\ \A b \in Clients \ {c} : fd'[b] = fd[b]
      /\ fd'[c] = fd[c] \/ fd'[c] = 0
  BY <1>t, <1>1, <1>3
<1>6. /\ \A k \in Loops, g \in Fds : g # f => map'[k][g] = map[k][g]
      /\ \A k \in Loops, g \in Fds : map'[k][g] \in Clients => map[k][g] \in Clients
      /\ \A k \in Loops \ {l}, g \in Fds : map'[k][g] = map[k][g]
  BY <1>0, <1>t, <1>3
<1>7. \A a, b \in Clients : fd'[a] = fd'[b] /\ fd'[a] # 0 => a = b
  BY <1>0, <1>1, <1>5 DEF MapInv
<1>8. \A k \in Loops : batch'[k] \cap Clients \subseteq watched'[k]
  BY <1>0, <1>3, <1>4 DEF MapInv
<1>9. ASSUME NEW k \in Loops, NEW b \in watched'[k]
      PROVE  /\ fd'[b] # 0 /\ map'[k][fd'[b]] = b
             /\ \A m \in Loops \ {k} : b \notin watched'[m]
  <2>1. b \in watched[k] /\ b # c /\ b \in Clients
    BY <1>4, <1>9
  <2>2. fd[b] # 0 /\ map[k][fd[b]] = b /\ \A m \in Loops \ {k} : b \notin watched[m]
    BY <1>0, <2>1 DEF MapInv
  <2>3. fd[b] \in Fds /\ fd[b] # f
    BY <1>0, <1>t, <1>1, <1>2, <2>1, <2>2 DEF MapInv
  <2>4. \A m \in Loops \ {k} : b \notin watched'[m]
    BY <1>4, <2>2
  <2> QED BY <1>5, <1>6, <2>1, <2>2, <2>3, <2>4
<1>10. impl = "c" => \A k \in Loops, g \in Fds : map'[k][g] \in Clients => g < size'[k]
  BY <1>0, <1>3, <1>6 DEF MapInv
<1> QED BY <1>0, <1>7, <1>8, <1>9, <1>10 DEF MapInv

\* and the agreement of map, dispatcher and descriptors.
LEMMA MapStep ==
  ASSUME ReactorInv, Next
  PROVE  MapInv'
<1>0. /\ TypeOK /\ TaskInv /\ MapInv /\ Main \in Loops
  BY SetupFacts DEF ReactorInv
<1>t. /\ batch \in [Loops -> SUBSET (Clients \cup {Wake, Listen})]
      /\ taskQ \in [Loops -> Seq(Tasks)] /\ watched \in [Loops -> SUBSET Clients]
  BY <1>0 DEF TypeOK
<1>1. ASSUME NEW c \in Clients, Connect(c) \/ Send(c) PROVE MapInv'
  BY <1>0, <1>1, MapFrame DEF Connect, Send, loopVars
<1>2. CASE runThreadPool \/ runWorkThread \/ taskWakeUp
  BY <1>0, <1>2, MapFrame DEF runThreadPool, runWorkThread, taskWakeUp, loopVars
<1>3. ASSUME NEW l \in Loops, subThreadRuning(l) PROVE MapInv'
  BY <1>0, <1>3, MapFrame DEF subThreadRuning, loopVars
<1>4. ASSUME NEW l \in Loops, dispatch(l) PROVE MapInv'
  <2>1. /\ UNCHANGED <<setup, fd, watched, map, size>>
        /\ batch' = batch \/ batch' = [batch EXCEPT ![l] = Ready(l)]
    BY <1>4 DEF dispatch, loopVars
  <2>2. Ready(l) \cap Clients \subseteq watched[l]
    BY ClientsAssumption DEF Ready
  <2>3. \A k \in Loops : batch'[k] \cap Clients \subseteq watched[k]
    BY <1>0, <1>t, <2>1, <2>2 DEF MapInv
  <2>4. impl' = impl
    BY <2>1 DEF impl
  <2> QED BY <1>0, <2>1, <2>3, <2>4 DEF MapInv
<1>5. ASSUME NEW l \in Loops, readMessage(l) PROVE MapInv'
  <2>1. /\ UNCHANGED <<setup, fd, watched, map, size>>
        /\ \A k \in Loops : batch'[k] \cap Clients \subseteq batch[k]
    BY <1>5, <1>t DEF readMessage, Taken, loopVars
  <2> QED BY <1>0, <2>1, MapFrame
<1>6. ASSUME NEW l \in Loops, NEW c \in Clients, ActivateEvent(l, c) \/ eventActive(l, c)
      PROVE  MapInv'
  <2>1. /\ UNCHANGED <<setup, fd, watched, map, size>>
        /\ batch' = [batch EXCEPT ![l] = @ \ {c}]
    BY <1>6, ServeDoes DEF ServeEffect
  <2>2. \A k \in Loops : batch'[k] \cap Clients \subseteq batch[k]
    BY <1>t, <2>1
  <2> QED BY <1>0, <2>1, <2>2, MapFrame
<1>7. CASE acceptConnection
  BY <1>7, AcceptKeepsMap
<1>8. CASE AddTaskEventLoop \/ addTask
  <2>1. UNCHANGED <<setup, fd, watched, map, size, batch>>
    BY <1>8, QueueDoes DEF QueueEffect
  <2> QED BY <1>0, <2>1, MapFrame
<1>9. ASSUME NEW l \in Loops, processTaskEventLoop(l) \/ processTaskQ(l) PROVE MapInv'
  <2>1. TaskEffect(l)
    BY <1>9, TaskDoes
  <2>2. CASE taskQ[l] = <<>>
    <3>1. UNCHANGED <<setup, fd, watched, map, size, batch>>
      BY <2>1, <2>2 DEF TaskEffect
    <3> QED BY <1>0, <3>1, MapFrame
  <2>3. CASE taskQ[l] # <<>>
    <3>1. /\ taskQ' = [taskQ EXCEPT ![l] = Tail(@)] /\ UNCHANGED <<setup, batch>>
          /\ IF taskQ[l][1][1] = "ADD" THEN AddEffect(l, taskQ[l][1][2])
                                       ELSE DeleteEffect(l, taskQ[l][1][2])
      BY <2>1, <2>3 DEF TaskEffect
    <3>2. Len(taskQ[l]) \in Nat \ {0} /\ taskQ[l][1] \in Tasks
      BY <1>t, <2>3, <3>1, Shortened
    <3>3. PICK c \in Clients : c = taskQ[l][1][2]
      BY <3>2 DEF Tasks
    <3>4. 1 \in 1..Len(taskQ[l])
      BY <3>2
    <3>5. /\ taskQ[l][1][1] = "ADD" => fd[c] # 0 /\ Unwatched(c)
          /\ taskQ[l][1][1] # "ADD" => c \in watched[l] /\ c \notin batch[l]
      BY <1>0, <3>3, <3>4 DEF TaskInv, TaskFits
    <3>6. CASE taskQ[l][1][1] = "ADD"
      BY <3>1, <3>3, <3>5, <3>6, AddKeepsMap
    <3>7. CASE taskQ[l][1][1] # "ADD"
      BY <3>1, <3>3, <3>5, <3>7, DeleteKeepsMap
    <3> QED BY <3>6, <3>7
  <2> QED BY <2>2, <2>3
<1> QED BY <1>1, <1>2, <1>3, <1>4, <1>5, <1>6, <1>7, <1>8, <1>9
        DEF Next, Thread, MainThread, Worker

-----------------------------------------------------------------------------
(* The theorems.                                                           *)

\* The program at its start.
LEMMA ReactorInit == Init => ReactorInv
<1> SUFFICES ASSUME Init PROVE ReactorInv
  OBVIOUS
<1>0. /\ setup \in Setups /\ MaxThreads \in Nat /\ threadNum \in 0..MaxThreads
      /\ setup.fds \subseteq Fds /\ Main \in Loops /\ 0 \notin Fds
  BY SetupsAssumption, FdsAssumption DEF Init, threadNum, Loops, Main
<1>1. /\ pc = [l \in Loops |-> IF l = Main THEN "create" ELSE "none"]
      /\ ret = [l \in Loops |-> "wait"] /\ started = {} /\ next = 1 /\ index = 0
      /\ taskQ = [l \in Loops |-> <<>>] /\ map = [l \in Loops |-> [f \in Fds |-> NoOne]]
      /\ size = [l \in Loops |-> MapSize] /\ watched = [l \in Loops |-> {}]
      /\ wake = [l \in Loops |-> 0] /\ batch = [l \in Loops |-> {}]
      /\ accepted = <<NoOne, Main>> /\ fd = [c \in Clients |-> 0]
      /\ conn = [c \in Clients |-> "new"] /\ over = "no"
  BY DEF Init, initThreadPool, initEventLoopEx
<1>2. sent \in [Clients -> BOOLEAN]
  BY Zenon DEF Init
<1>3. taskQ \in [Loops -> Seq(Tasks)] /\ \A l \in Loops : Len(taskQ[l]) = 0 /\ taskQ[l] = <<>>
  BY <1>1, EmptySeq
<1>4. TypeOK
  <2>1. pc \in [Loops -> Places] /\ ret \in [Loops -> {"wait", "events"}]
    BY <1>1 DEF Places
  <2>2. map \in [Loops -> [Fds -> Clients \cup {NoOne, Garbage}]] /\ size \in [Loops -> Sizes]
    BY <1>1, SizesAssumption
  <2>3. watched \in [Loops -> SUBSET Clients] /\ wake \in [Loops -> Nat]
        /\ batch \in [Loops -> SUBSET (Clients \cup {Wake, Listen})]
        /\ fd \in [Clients -> Fds \cup {0}] /\ conn \in [Clients -> Stages]
        /\ accepted \in (Clients \cup {NoOne}) \X Loops
    BY <1>0, <1>1 DEF Stages
  <2> QED BY <1>0, <1>1, <1>2, <1>3, <2>1, <2>2, <2>3 DEF TypeOK
<1>5. StartInv
  BY <1>0, <1>1 DEF StartInv, Starting, Handing, Loops, Main
<1>6. SleepInv
  BY <1>0, <1>3 DEF SleepInv
<1>7. TaskInv
  BY <1>0, <1>1, <1>3 DEF TaskInv, OneTask, TaskFits, HandOver, Newcomer, Unwatched, Quiet
<1>8. MapInv
  <2>1. NoOne \notin Clients
    BY ClientsAssumption
  <2> QED BY <1>1, <2>1 DEF MapInv
<1>9. EndInv
  BY <1>1 DEF EndInv
<1> QED BY <1>4, <1>5, <1>6, <1>7, <1>8, <1>9 DEF ReactorInv

\* Every step keeps the invariant.
LEMMA ReactorStep == ReactorInv /\ [Next]_vars => ReactorInv'
<1>1. ASSUME ReactorInv, Next PROVE ReactorInv'
  BY <1>1, TypeStep, StartStep, SleepStep, TaskStep, MapStep, EndStep DEF ReactorInv
<1>2. ASSUME ReactorInv, UNCHANGED vars PROVE ReactorInv'
  <2>1. /\ UNCHANGED <<setup, pc, ret, started, next, index, taskQ, map, size, watched, wake>>
        /\ UNCHANGED <<batch, accepted, fd, conn, sent, over>>
    BY <1>2 DEF vars, startVars, loopVars
  <2>2. threadNum' = threadNum /\ impl' = impl
    BY <2>1 DEF threadNum, impl
  <2>3. TypeOK'
    BY <1>2, <2>1, <2>2 DEF ReactorInv, TypeOK
  <2>4. StartInv' /\ SleepInv'
    BY <1>2, <2>1, <2>2 DEF ReactorInv, StartInv, SleepInv
  <2>5. TaskInv'
    BY <1>2, <2>1, MovesKeepTasks DEF ReactorInv
  <2>6. MapInv'
    BY <1>2, <2>1, MapFrame DEF ReactorInv
  <2>7. EndInv'
    BY <1>2, <2>1 DEF ReactorInv, EndInv
  <2> QED BY <2>3, <2>4, <2>5, <2>6, <2>7 DEF ReactorInv
<1> QED BY <1>1, <1>2

\* The inductive invariant of the reactor cores, EventLoop.c / EventLoop.cpp with ThreadPool and
\* TcpServer: types, the start of the workers, the queues, and the channel maps.
THEOREM ReactorInvariant == Spec => []ReactorInv
<1> QED BY ReactorInit, ReactorStep, PTL DEF Spec

\* No assertion of ActivateEvent() or eventActive() fails, no connection is given to a worker
\* that has no loop yet, and epollremove() is called only for what the kernel knows: in both
\* programs, for any number of workers, clients and descriptors, whatever the clients send.
\* A run ends only where it says so: in the handling of a request with another method, or with
\* a channel stored behind the map, as its descriptor is the size the map has grown to.
THEOREM NeverFails == Spec => []Survives
<1>1. ReactorInv => Survives
  BY DEF ReactorInv, EndInv, Survives
<1> QED BY ReactorInvariant, <1>1, PTL

\* What the dispatcher of a loop watches is in that loop's channel map under an open
\* descriptor that no other connection has, and is watched by no other loop, up to and in the
\* state in which a run ends; a descriptor that is the size the map has grown to is included.
THEOREM WatchedStaysMapped == Spec => []WatchedIsMapped
<1>1. ASSUME ReactorInv PROVE WatchedIsMapped
  <2>1. \A l \in Loops : watched[l] \subseteq Clients
    BY <1>1 DEF ReactorInv, TypeOK
  <2>2. MapInv
    BY <1>1 DEF ReactorInv
  <2> QED BY <2>1, <2>2 DEF MapInv, WatchedIsMapped
<1> QED BY ReactorInvariant, <1>1, PTL

\* A loop that sleeps in its dispatcher with a task in its queue has a message in its socket
\* pair, or the thread that queued the task is about to write one.
THEOREM WakeupNeverLost == Spec => []NoLostWakeup
<1>1. ReactorInv => NoLostWakeup
  BY DEF ReactorInv, SleepInv, NoLostWakeup
<1> QED BY ReactorInvariant, <1>1, PTL

=============================================================================
