--------------------------- MODULE TcpServerProofs --------------------------
(***************************************************************************)
(* Proofs about TcpServer for any set of clients, finite or not, any       *)
(* descriptors and any number of io threads.                               *)
(***************************************************************************)
EXTENDS TcpServer, SequenceTheorems, FiniteSetTheorems, TLAPS

Kinds == {"established", "remove", "destroy"}
Functors == Kinds \X Clients
Changes == [op : {"none", "insert", "erase"}, conn : Clients \cup {NoConn},
            seen : SUBSET (Fds \X Clients)]

ServerTypes ==
  /\ numThreads \in 0..MaxThreads
  /\ started \in 0..2
  /\ pc \in {"user", "pool", "sem", "check", "wait", "loop"}
  /\ thread \in [IoLoops -> {"none", "created", "running", "looping"}]
  /\ loops \in Nat
  /\ listening \in BOOLEAN

ConnTypes ==
  /\ next \in Nat
  /\ backlog \in Seq(Clients)
  /\ closed \subseteq Clients
  /\ state \in [Clients -> {"none", "kConnecting", "kConnected", "kDisconnected", "gone"}]
  /\ fd \in [Clients -> Fds]
  /\ loop \in [Clients -> Loops]
  /\ connections \subseteq Clients

PollTypes ==
  /\ queue \in [Loops -> Seq(Functors)]
  /\ registered \subseteq Clients
  /\ channels \in [Loops -> SUBSET (Fds \X Clients)]
  /\ access \in [Loops -> Changes]
  /\ guard \in [Loops -> Clients \cup {NoConn}]

TypeOK == ServerTypes /\ ConnTypes /\ PollTypes

(***************************************************************************)
(* Starting.  The loops the pool knows of belong to threads that run them, *)
(* the number of them does not change any more once the server listens,    *)
(* and nothing is accepted before.                                         *)
(***************************************************************************)
StartInv ==
  /\ loops <= numThreads
  /\ pc \in {"sem", "check", "wait"} => loops < numThreads
  /\ started = 0 => pc = "user" /\ loops = 0 /\ ~listening
  /\ listening => pc \in {"user", "loop"} /\ loops = numThreads
  /\ \A l \in 1..loops : thread[l] = "looping"

\* Where connections go: next_ stays an index of loops_.
DealInv ==
  /\ next < loops \/ next = 0
  /\ ~listening => /\ next = 0 /\ backlog = <<>>
                   /\ \A c \in Clients : state[c] = "none"
  /\ \A c \in Clients : state[c] # "none" => loop[c] <= loops

(***************************************************************************)
(* The life of a connection, told by what its state_ allows the others to  *)
(* hold: a client in the backlog has no connection yet, connectEstablished *)
(* is queued once, on the loop of the connection, removal and destruction  *)
(* only on the base loop and only for one that is down, and a channel that *)
(* is being put into a poller is not yet in its epoll set.                 *)
(***************************************************************************)
BacklogInv ==
  /\ \A i \in 1..Len(backlog) : state[backlog[i]] = "none"
  /\ \A i, j \in 1..Len(backlog) : backlog[i] = backlog[j] => i = j

FunctorAllowed(l, f) ==
  \/ /\ f[1] = "established" /\ l = loop[f[2]]
     /\ state[f[2]] = "kConnecting" /\ f[2] \in connections
  \/ f[1] \in {"remove", "destroy"} /\ l = BaseLoop /\ state[f[2]] = "kDisconnected"

Elements(s) == {s[i] : i \in 1..Len(s)}
EstablishedOnce(s) ==
  \A i, j \in 1..Len(s) : s[i] = s[j] /\ s[i][1] = "established" => i = j

QueueInv ==
  \A l \in Loops :
    /\ \A f \in Elements(queue[l]) : FunctorAllowed(l, f)
    /\ EstablishedOnce(queue[l])

ChangeAllowed(l, a) ==
  \/ a = Idle
  \/ /\ a.op = "insert" /\ a.conn \in Clients /\ l = loop[a.conn]
     /\ state[a.conn] = "kConnected" /\ a.conn \in connections \ registered
  \/ a.op = "erase" /\ a.conn \in Clients /\ l = BaseLoop /\ state[a.conn] = "kDisconnected"

AccessInv == \A l \in Loops : ChangeAllowed(l, access[l])

GuardInv ==
  \A l \in Loops :
    guard[l] # NoConn => state[guard[l]] = "kDisconnected" /\ loop[guard[l]] = l

LifeInv ==
  /\ BacklogInv /\ QueueInv /\ AccessInv /\ GuardInv
  /\ RegisteredIsOwned

\* next_ tells how far the current round has come: the loops before it have
\* been given one connection more than the others.
Accepted == {c \in Clients : state[c] # "none"}
RoundInv ==
  /\ IsFiniteSet(Accepted)
  /\ \E n \in Nat : \A l \in 1..loops : GivenTo(l) = IF l <= next THEN n + 1 ELSE n

ServerInv == TypeOK /\ StartInv /\ DealInv /\ LifeInv /\ RoundInv

-----------------------------------------------------------------------------
(* Loops, sequences and what a client was given. *)

\* The io loops and the base loop are loops.
LEMMA LoopFacts ==
  /\ MaxThreads \in Nat
  /\ BaseLoop \in Loops /\ BaseLoop = 0
  /\ \A l : l \in Loops <=> l \in Nat /\ l <= MaxThreads
  /\ \A l : l \in IoLoops <=> l \in Nat /\ 1 <= l /\ l <= MaxThreads
  BY MaxThreadsAssumption DEF BaseLoop, Loops, IoLoops

\* What Append() leaves where.
LEMMA Appended ==
  ASSUME NEW S, NEW s \in Seq(S), NEW e \in S
  PROVE  /\ Append(s, e) \in Seq(S)
         /\ Len(Append(s, e)) = Len(s) + 1 /\ Len(s) \in Nat
         /\ \A i \in 1..(Len(s) + 1) : Append(s, e)[i] = IF i <= Len(s) THEN s[i] ELSE e
         /\ \A i \in 1..Len(s) : s[i] \in S
<1>1. /\ Append(s, e) \in Seq(S) /\ Len(Append(s, e)) = Len(s) + 1
      /\ \A i \in 1..Len(s) : Append(s, e)[i] = s[i]
      /\ Append(s, e)[Len(s) + 1] = e
  BY AppendProperties
<1>2. Len(s) \in Nat /\ \A i \in 1..Len(s) : s[i] \in S
  BY LenProperties, ElementOfSeq
<1> QED BY <1>1, <1>2

\* What Head() and Tail() leave where.
LEMMA Popped ==
  ASSUME NEW S, NEW s \in Seq(S), s # <<>>
  PROVE  /\ Tail(s) \in Seq(S) /\ Head(s) \in S /\ Head(s) = s[1]
         /\ Len(s) \in Nat \ {0} /\ Len(Tail(s)) = Len(s) - 1
         /\ \A i \in 1..(Len(s) - 1) : Tail(s)[i] = s[i + 1]
         /\ \A i \in 1..Len(s) : s[i] \in S
<1>1. /\ Head(s) \in S /\ Tail(s) \in Seq(S) /\ Len(Tail(s)) = Len(s) - 1
      /\ \A i \in 1..Len(Tail(s)) : Tail(s)[i] = s[i + 1]
  BY HeadTailProperties
<1>2. Len(s) \in Nat \ {0}
  BY EmptySeq
<1>3. \A i \in 1..Len(s) : s[i] \in S
  BY ElementOfSeq
<1>4. Head(s) = s[1]
  OBVIOUS
<1> QED BY <1>1, <1>2, <1>3, <1>4

\* Queueing a functor.
LEMMA ElementsAppended ==
  ASSUME NEW S, NEW s \in Seq(S), NEW e \in S
  PROVE  /\ Append(s, e) \in Seq(S)
         /\ Elements(Append(s, e)) = Elements(s) \cup {e} /\ Elements(s) \subseteq S
         /\ EstablishedOnce(s) /\ (e[1] = "established" => e \notin Elements(s))
              => EstablishedOnce(Append(s, e))
<1> DEFINE n == Len(s)
           t == Append(s, e)
<1>1. /\ t \in Seq(S) /\ Len(t) = n + 1 /\ n \in Nat
      /\ \A i \in 1..(n + 1) : t[i] = IF i <= n THEN s[i] ELSE e
      /\ \A i \in 1..n : s[i] \in S
  BY Appended
<1> HIDE DEF n, t
<1>2. \A i \in 1..n : i \in 1..(n + 1) /\ t[i] = s[i]
  BY <1>1
<1>3. n + 1 \in 1..(n + 1) /\ t[n + 1] = e
  BY <1>1
<1>4. \A i \in 1..(n + 1) : i \in 1..n \/ i = n + 1
  BY <1>1
<1>5. Elements(t) = Elements(s) \cup {e} /\ Elements(s) \subseteq S
  BY <1>1, <1>2, <1>3, <1>4 DEF Elements, n
<1>6. ASSUME EstablishedOnce(s), e[1] = "established" => e \notin Elements(s),
             NEW i \in 1..(n + 1), NEW j \in 1..(n + 1), t[i] = t[j], t[i][1] = "established"
      PROVE  i = j
  <2>1. CASE i \in 1..n /\ j \in 1..n
    BY <1>2, <1>6, <2>1 DEF EstablishedOnce, n
  <2>2. CASE i = n + 1 /\ j \in 1..n
    BY <1>2, <1>3, <1>6, <2>2 DEF Elements, n
  <2>3. CASE i \in 1..n /\ j = n + 1
    BY <1>2, <1>3, <1>6, <2>3 DEF Elements, n
  <2> QED BY <1>4, <2>1, <2>2, <2>3
<1>7. EstablishedOnce(s) /\ (e[1] = "established" => e \notin Elements(s)) => EstablishedOnce(t)
  BY <1>1, <1>6 DEF EstablishedOnce
<1> QED BY <1>1, <1>5, <1>7 DEF t

\* Taking the functor at the head.
LEMMA ElementsPopped ==
  ASSUME NEW S, NEW s \in Seq(S), s # <<>>
  PROVE  /\ Tail(s) \in Seq(S)
         /\ Head(s) \in Elements(s) /\ Elements(Tail(s)) \subseteq Elements(s)
         /\ Elements(s) \subseteq S
         /\ EstablishedOnce(s) =>
              /\ EstablishedOnce(Tail(s))
              /\ Head(s)[1] = "established" => Head(s) \notin Elements(Tail(s))
<1> DEFINE n == Len(s)
           t == Tail(s)
<1>1. /\ t \in Seq(S) /\ Head(s) = s[1] /\ n \in Nat \ {0} /\ Len(t) = n - 1
      /\ \A i \in 1..(n - 1) : t[i] = s[i + 1]
      /\ \A i \in 1..n : s[i] \in S
  BY Popped
<1> HIDE DEF n, t
<1>2. 1 \in 1..n /\ \A i \in 1..(n - 1) : i + 1 \in 1..n /\ i + 1 # 1 /\ i \in Int
  BY <1>1
<1>3. Head(s) \in Elements(s) /\ Elements(t) \subseteq Elements(s) /\ Elements(s) \subseteq S
  BY <1>1, <1>2 DEF Elements, n
<1>4. ASSUME EstablishedOnce(s), NEW i \in 1..(n - 1), NEW j \in 1..(n - 1), t[i] = t[j],
             t[i][1] = "established"
      PROVE  i = j
  <2>1. i + 1 = j + 1
    BY <1>1, <1>2, <1>4 DEF EstablishedOnce, n
  <2> QED BY <1>2, <2>1
<1>5. ASSUME EstablishedOnce(s), NEW i \in 1..(n - 1), t[i] = s[1], s[1][1] = "established"
      PROVE  FALSE
  BY <1>1, <1>2, <1>5 DEF EstablishedOnce, n
<1>6. EstablishedOnce(s) => EstablishedOnce(t)
  BY <1>1, <1>4 DEF EstablishedOnce
<1>7. EstablishedOnce(s) /\ Head(s)[1] = "established" => Head(s) \notin Elements(t)
  BY <1>1, <1>5 DEF Elements
<1> QED BY <1>1, <1>3, <1>6, <1>7 DEF t

Given(l) == {c \in Clients : state[c] # "none" /\ loop[c] = l}

\* What a loop was given are accepted clients, so there are finitely many.
LEMMA GivenFinite ==
  ASSUME IsFiniteSet(Accepted), NEW l
  PROVE  /\ IsFiniteSet(Given(l)) /\ GivenTo(l) = Cardinality(Given(l))
         /\ GivenTo(l) \in Nat
<1>1. Given(l) \in SUBSET Accepted
  BY DEF Given, Accepted
<1>2. IsFiniteSet(Given(l))
  BY <1>1, FS_Subset
<1>3. GivenTo(l) = Cardinality(Given(l))
  BY DEF GivenTo, Given
<1> QED BY <1>2, <1>3, FS_CardinalityType

-----------------------------------------------------------------------------
(* Starting: only the server's own state changes. *)

\* What the connections look like does not depend on start() and the threads.
LEMMA ServerFrame ==
  ASSUME ServerInv, UNCHANGED otherThanServer
  PROVE  ConnTypes' /\ PollTypes' /\ LifeInv'
<1> USE DEF otherThanServer, connVars, pollVars
<1>1. ConnTypes' /\ PollTypes'
  BY DEF ServerInv, TypeOK, ConnTypes, PollTypes
<1>2. BacklogInv' /\ GuardInv' /\ RegisteredIsOwned'
  BY DEF ServerInv, LifeInv, BacklogInv, GuardInv, RegisteredIsOwned
<1>3. QueueInv'
  BY DEF ServerInv, LifeInv, QueueInv, FunctorAllowed
<1>4. AccessInv'
  BY DEF ServerInv, LifeInv, AccessInv, ChangeAllowed
<1> QED BY <1>1, <1>2, <1>3, <1>4 DEF LifeInv

\* Nor does what the loops were given, while their number stays.
LEMMA RoundFrame ==
  ASSUME ServerInv, UNCHANGED <<loops, next, loop>>, Accepted' = Accepted
  PROVE  RoundInv'
<1>1. \A l : Given(l)' = Given(l)
  BY DEF Given, Accepted
<1>2. \A l : GivenTo(l)' = GivenTo(l)
  BY <1>1 DEF Given, GivenTo
<1> QED BY <1>2 DEF ServerInv, RoundInv

\* Every step of start(), of the pool and of its threads keeps the invariant
\* (TcpServer.cc 45-54, EventLoopThreadPool.cc 18-33, EventLoopThread.cc 24-56).
LEMMA StartKeeps ==
  ASSUME ServerInv,
         \/ \E n \in 0..MaxThreads : setThreadNum(n)
         \/ Start \/ StartStep \/ SpuriousWakeup \/ EnterLoop
         \/ \E t \in IoLoops : ThreadPosts(t) \/ Publish(t)
  PROVE  ServerInv'
<1> USE LoopFacts
<1>1. UNCHANGED otherThanServer
  BY DEF setThreadNum, Start, StartStep, CreateThread, SemWait, CheckLoop, Listen,
         SpuriousWakeup, EnterLoop, ThreadPosts, Publish
<1>2. ConnTypes' /\ PollTypes' /\ LifeInv'
  BY <1>1, ServerFrame
<1>3. ServerTypes /\ StartInv /\ DealInv
  BY DEF ServerInv, TypeOK
<1>4. ServerTypes' /\ StartInv' /\ loops <= loops' /\ (listening => loops' = loops)
      /\ (listening => listening')
  <2>1. ASSUME NEW n \in 0..MaxThreads, setThreadNum(n) PROVE <1>4!:
    BY <1>3, <2>1 DEF setThreadNum, ServerTypes, StartInv
  <2>2. CASE Start BY <1>3, <2>2 DEF Start, ServerTypes, StartInv
  <2>3. CASE CreateThread
    <3>1. Newest \in IoLoops /\ Newest \notin 1..loops
      BY <1>3, <2>3 DEF CreateThread, Newest, ServerTypes
    <3>2. \A l \in 1..loops : l \in IoLoops
      BY <1>3 DEF ServerTypes, StartInv
    <3> QED BY <1>3, <2>3, <3>1, <3>2 DEF CreateThread, ServerTypes, StartInv
  <2>4. CASE SemWait BY <1>3, <2>4 DEF SemWait, ServerTypes, StartInv
  <2>5. CASE CheckLoop BY <1>3, <2>5 DEF CheckLoop, Newest, ServerTypes, StartInv
  <2>6. CASE Listen BY <1>3, <2>6 DEF Listen, ServerTypes, StartInv
  <2>7. CASE SpuriousWakeup BY <1>3, <2>7 DEF SpuriousWakeup, ServerTypes, StartInv
  <2>8. CASE EnterLoop BY <1>3, <2>8 DEF EnterLoop, ServerTypes, StartInv
  <2>9. ASSUME NEW t \in IoLoops, ThreadPosts(t) PROVE <1>4!:
    <3>1. \A l \in 1..loops : l \in IoLoops
      BY <1>3 DEF ServerTypes, StartInv
    <3> QED BY <1>3, <2>9, <3>1 DEF ThreadPosts, ServerTypes, StartInv
  <2>10. ASSUME NEW t \in IoLoops, Publish(t) PROVE <1>4!:
    <3>1. \A l \in 1..loops : l \in IoLoops
      BY <1>3 DEF ServerTypes, StartInv
    <3> QED BY <1>3, <2>10, <3>1 DEF Publish, ServerTypes, StartInv
  <2> QED BY <2>1, <2>2, <2>3, <2>4, <2>5, <2>6, <2>7, <2>8, <2>9, <2>10 DEF StartStep
<1>5. DealInv'
  BY <1>1, <1>3, <1>4 DEF otherThanServer, connVars, DealInv, ServerTypes, ServerInv,
     TypeOK, ConnTypes
<1>6. Accepted' = Accepted
  BY <1>1 DEF otherThanServer, connVars, Accepted
<1>7. RoundInv'
  <2>1. CASE listening
    BY <1>1, <1>4, <1>6, <2>1, RoundFrame DEF otherThanServer, connVars
  <2>2. CASE ~listening
    <3>1. next' = 0 /\ Accepted' = {}
      BY <1>1, <1>3, <1>6, <2>2 DEF otherThanServer, connVars, DealInv, Accepted
    <3>2. \A l : Given(l)' = {}
      BY <3>1 DEF Given, Accepted
    <3>3. \A l : GivenTo(l)' = 0
      BY <3>2, FS_EmptySet DEF Given, GivenTo
    <3>4. \A l \in 1..loops' : GivenTo(l)' = IF l <= next' THEN 0 + 1 ELSE 0
      BY <1>4, <3>1, <3>3 DEF ServerTypes
    <3> QED BY <3>1, <3>4, FS_EmptySet DEF RoundInv
  <2> QED BY <2>1, <2>2
<1> QED BY <1>2, <1>4, <1>5, <1>7 DEF ServerInv, TypeOK

-----------------------------------------------------------------------------
(* Connections: the server's own state stays. *)

\* What start() has built does not depend on the connections.
LEMMA ConnFrame ==
  ASSUME ServerInv, UNCHANGED serverVars
  PROVE  ServerTypes' /\ StartInv'
  BY DEF serverVars, ServerInv, TypeOK, ServerTypes, StartInv

\* Whom the loops were given does not change by a step that accepts nobody.
LEMMA DealFrame ==
  ASSUME ServerInv, UNCHANGED serverVars, UNCHANGED <<next, loop>>,
         Accepted' = Accepted, listening \/ backlog' = backlog
  PROVE  DealInv' /\ RoundInv'
<1>1. RoundInv'
  BY RoundFrame DEF serverVars
<1>2. \A c \in Clients : state'[c] # "none" <=> state[c] # "none"
  BY DEF Accepted
<1> QED BY <1>1, <1>2 DEF ServerInv, DealInv, serverVars

\* A client taken from the backlog has no connection yet: nothing is queued,
\* registered, changed or guarded for it.
LEMMA HeadIsFresh ==
  ASSUME ServerInv, backlog # <<>>
  PROVE  LET c == Head(backlog)
         IN  /\ c \in Clients /\ state[c] = "none" /\ c \notin registered
             /\ \A l \in Loops : \A e \in Elements(queue[l]) : e[2] # c
             /\ \A l \in Loops : access[l].conn # c /\ guard[l] # c
             /\ \A i \in 1..Len(Tail(backlog)) : Tail(backlog)[i] # c
<1> DEFINE c == Head(backlog)
<1>1. backlog \in Seq(Clients) /\ c = backlog[1] /\ 1 \in 1..Len(backlog) /\ c \in Clients
      /\ Len(Tail(backlog)) = Len(backlog) - 1 /\ Len(backlog) \in Nat
      /\ \A i \in 1..(Len(backlog) - 1) : Tail(backlog)[i] = backlog[i + 1]
  BY Popped DEF ServerInv, TypeOK, ConnTypes
<1>2. state[c] = "none"
  BY <1>1 DEF ServerInv, LifeInv, BacklogInv
<1>3. c \notin registered
  BY <1>2 DEF ServerInv, LifeInv, RegisteredIsOwned
<1>4. \A l \in Loops : \A e \in Elements(queue[l]) : e[2] # c
  BY <1>2 DEF ServerInv, LifeInv, QueueInv, FunctorAllowed
<1>5. \A l \in Loops : access[l].conn # c
  BY <1>1, <1>2, NoConnAssumption DEF ServerInv, LifeInv, AccessInv, ChangeAllowed, Idle
<1>6. \A l \in Loops : guard[l] # c
  BY <1>1, <1>2, NoConnAssumption DEF ServerInv, LifeInv, GuardInv
<1>7. \A i \in 1..Len(Tail(backlog)) : Tail(backlog)[i] # c
  <2> SUFFICES ASSUME NEW i \in 1..Len(Tail(backlog)), Tail(backlog)[i] = c PROVE FALSE
    OBVIOUS
  <2>1. i \in 1..(Len(backlog) - 1) /\ i + 1 \in 1..Len(backlog) /\ i + 1 # 1
    BY <1>1
  <2>2. backlog[i + 1] = backlog[1]
    BY <1>1, <2>1
  <2> QED BY <1>1, <2>1, <2>2 DEF ServerInv, LifeInv, BacklogInv
<1> QED BY <1>1, <1>2, <1>3, <1>4, <1>5, <1>6, <1>7

\* The rest of the backlog still waits.
LEMMA BacklogShrinks ==
  ASSUME ServerInv, backlog # <<>>, backlog' = Tail(backlog),
         \A c \in Clients : c # Head(backlog) => state'[c] = state[c]
  PROVE  BacklogInv' /\ backlog' \in Seq(Clients)
<1>1. /\ backlog \in Seq(Clients) /\ Len(backlog') = Len(backlog) - 1 /\ Len(backlog) \in Nat
      /\ \A i \in 1..(Len(backlog) - 1) : backlog'[i] = backlog[i + 1]
      /\ \A i \in 1..Len(backlog) : backlog[i] \in Clients
      /\ backlog' \in Seq(Clients)
  BY Popped DEF ServerInv, TypeOK, ConnTypes
<1>2. \A i \in 1..Len(backlog') : i + 1 \in 1..Len(backlog) /\ backlog'[i] = backlog[i + 1]
  BY <1>1
<1>3. \A i \in 1..Len(backlog') : backlog'[i] # Head(backlog)
  BY HeadIsFresh
<1>4. \A i \in 1..Len(backlog') : state'[backlog'[i]] = "none"
  BY <1>1, <1>2, <1>3 DEF ServerInv, LifeInv, BacklogInv
<1>5. \A i, j \in 1..Len(backlog') : backlog'[i] = backlog'[j] => i = j
  <2> SUFFICES ASSUME NEW i \in 1..Len(backlog'), NEW j \in 1..Len(backlog'),
                      backlog'[i] = backlog'[j]
               PROVE  i = j
    OBVIOUS
  <2>1. i + 1 = j + 1
    BY <1>2 DEF ServerInv, LifeInv, BacklogInv
  <2> QED BY <1>1, <2>1
<1> QED BY <1>1, <1>4, <1>5 DEF BacklogInv

\* A queue with one more functor, if that one is allowed there and the others
\* still are.
LEMMA QueueAppended ==
  ASSUME queue \in [Loops -> Seq(Functors)], QueueInv, NEW k \in Loops, NEW e \in Functors,
         queue' = [queue EXCEPT ![k] = Append(@, e)],
         e[1] = "established" => e \notin Elements(queue[k]),
         FunctorAllowed(k, e)',
         \A l \in Loops : \A d \in Elements(queue[l]) : FunctorAllowed(l, d)'
  PROVE  queue' \in [Loops -> Seq(Functors)] /\ QueueInv'
<1>1. /\ queue[k] \in Seq(Functors) /\ queue'[k] = Append(queue[k], e)
      /\ \A l \in Loops : l # k => queue'[l] = queue[l]
  OBVIOUS
<1>2. \A l \in Loops : EstablishedOnce(queue[l])
  BY DEF QueueInv
<1>3. /\ queue'[k] \in Seq(Functors) /\ Elements(queue'[k]) = Elements(queue[k]) \cup {e}
      /\ EstablishedOnce(queue'[k])
  BY <1>1, <1>2, ElementsAppended
<1>4. queue' \in [Loops -> Seq(Functors)]
  BY <1>1, <1>3
<1>5. ASSUME NEW l \in Loops
      PROVE  (\A d \in Elements(queue'[l]) : FunctorAllowed(l, d)') /\ EstablishedOnce(queue'[l])
  <2>1. CASE l # k BY <1>1, <1>2, <2>1
  <2>2. CASE l = k BY <1>3, <2>2 DEF FunctorAllowed
  <2> QED BY <2>1, <2>2
<1> QED BY <1>4, <1>5 DEF QueueInv, Elements, EstablishedOnce

\* A queue without its first functor.
LEMMA QueuePopped ==
  ASSUME queue \in [Loops -> Seq(Functors)], QueueInv, NEW k \in Loops, queue[k] # <<>>,
         queue' = [queue EXCEPT ![k] = Tail(@)],
         \A l \in Loops : \A d \in Elements(queue'[l]) : FunctorAllowed(l, d)'
  PROVE  queue' \in [Loops -> Seq(Functors)] /\ QueueInv'
<1>1. /\ queue[k] \in Seq(Functors) /\ queue'[k] = Tail(queue[k])
      /\ \A l \in Loops : l # k => queue'[l] = queue[l]
  OBVIOUS
<1>2. \A l \in Loops : EstablishedOnce(queue[l])
  BY DEF QueueInv
<1>3. queue'[k] \in Seq(Functors) /\ EstablishedOnce(queue'[k])
  BY <1>1, <1>2, ElementsPopped
<1>4. queue' \in [Loops -> Seq(Functors)]
  BY <1>1, <1>3
<1>5. \A l \in Loops : EstablishedOnce(queue'[l])
  BY <1>1, <1>2, <1>3
<1> QED BY <1>4, <1>5 DEF QueueInv, Elements, EstablishedOnce

\* newConnection() with io threads (TcpServer.cc 57-84, EventLoopThreadPool.cc
\* 36-49) keeps the invariant; the round goes on or a new one begins.
LEMMA AcceptOnIoLoop ==
  ASSUME ServerInv, NEW f \in Fds, listening, backlog # <<>>, UNCHANGED <<serverVars, closed>>,
         NewOnIoLoop(Head(backlog), f),
         connections' = connections \cup {Head(backlog)}, backlog' = Tail(backlog)
  PROVE  ServerInv'
<1> USE LoopFacts
<1>a. PICK c : c = Head(backlog)
  OBVIOUS
<1>b. PICK k : k = next + 1
  OBVIOUS
<1>1. /\ c \in Clients /\ state[c] = "none" /\ c \notin registered
      /\ \A l \in Loops : \A e \in Elements(queue[l]) : e[2] # c
      /\ \A l \in Loops : access[l].conn # c /\ guard[l] # c
  BY <1>a, HeadIsFresh
<1>2. /\ next \in Nat /\ loops \in Nat /\ loops > 0 /\ loops <= MaxThreads
      /\ k \in 1..loops /\ k \in Loops /\ k # BaseLoop
  <2>1. /\ next \in Nat /\ loops \in Nat /\ numThreads \in 0..MaxThreads
        /\ loops <= numThreads /\ (next < loops \/ next = 0) /\ loops > 0
    BY DEF ServerInv, TypeOK, ConnTypes, ServerTypes, StartInv, DealInv, NewOnIoLoop
  <2> QED BY <1>b, <2>1
<1>3. ServerTypes' /\ StartInv'
  BY ConnFrame DEF serverVars
<1>4. /\ state \in [Clients -> {"none", "kConnecting", "kConnected", "kDisconnected", "gone"}]
      /\ state' = [state EXCEPT ![c] = "kConnecting"]
      /\ loop \in [Clients -> Loops] /\ loop' = [loop EXCEPT ![c] = k]
      /\ queue \in [Loops -> Seq(Functors)]
      /\ queue' = [queue EXCEPT ![k] = Append(@, <<"established", c>>)]
      /\ UNCHANGED <<registered, channels, access, guard>>
  BY <1>a, <1>b DEF ServerInv, TypeOK, ConnTypes, PollTypes, NewOnIoLoop, pollVars
<1>5. BacklogInv' /\ backlog' \in Seq(Clients)
  BY <1>a, <1>1, <1>4, BacklogShrinks
<1>6. ConnTypes'
  <2>1. next' \in Nat /\ fd' \in [Clients -> Fds]
    BY <1>a, <1>1, <1>2 DEF NewOnIoLoop, Advance, ServerInv, TypeOK, ConnTypes
  <2>2. state' \in [Clients -> {"none", "kConnecting", "kConnected", "kDisconnected", "gone"}]
        /\ loop' \in [Clients -> Loops]
    BY <1>1, <1>2, <1>4
  <2> QED BY <1>a, <1>1, <1>5, <2>1, <2>2 DEF ConnTypes, ServerInv, TypeOK
<1>7. queue' \in [Loops -> Seq(Functors)] /\ QueueInv'
  <2>1. PICK e : e = <<"established", c>>
    OBVIOUS
  <2>2. e \in Functors /\ e \notin Elements(queue[k])
    BY <1>1, <1>2, <2>1 DEF Functors, Kinds
  <2>3. FunctorAllowed(k, e)'
    BY <1>a, <1>1, <1>2, <1>4, <2>1 DEF FunctorAllowed
  <2>4. \A l \in Loops : \A d \in Elements(queue[l]) : FunctorAllowed(l, d)'
    BY <1>a, <1>1, <1>4 DEF ServerInv, LifeInv, QueueInv, FunctorAllowed
  <2>5. queue' = [queue EXCEPT ![k] = Append(@, e)]
    BY <1>4, <2>1
  <2> QED BY <1>2, <1>4, <2>2, <2>3, <2>4, <2>5, QueueAppended DEF ServerInv, LifeInv
<1>8. PollTypes'
  BY <1>4, <1>7 DEF PollTypes, ServerInv, TypeOK
<1>9. AccessInv'
  <2> SUFFICES ASSUME NEW l \in Loops PROVE ChangeAllowed(l, access[l])'
    BY DEF AccessInv
  <2> QED BY <1>a, <1>1, <1>4 DEF ServerInv, LifeInv, AccessInv, ChangeAllowed
<1>10. GuardInv' /\ RegisteredIsOwned'
  BY <1>a, <1>1, <1>4, NoConnAssumption
     DEF ServerInv, TypeOK, PollTypes, LifeInv, GuardInv, RegisteredIsOwned
<1>11. DealInv'
  <2>1. next' < loops \/ next' = 0
    BY <1>2 DEF NewOnIoLoop, Advance
  <2>2. \A d \in Clients : state'[d] # "none" => loop'[d] <= loops
    BY <1>1, <1>2, <1>4 DEF ServerInv, DealInv
  <2> QED BY <2>1, <2>2 DEF DealInv, serverVars
<1>12. RoundInv'
  <2>1. Accepted' = Accepted \cup {c} /\ c \notin Accepted
    BY <1>1, <1>4 DEF Accepted
  <2>2. IsFiniteSet(Accepted) /\ IsFiniteSet(Accepted')
    BY <2>1, FS_AddElement DEF ServerInv, RoundInv
  <2>3. Given(k)' = Given(k) \cup {c} /\ c \notin Given(k)
    BY <1>1, <1>4 DEF Given
  <2>4. \A l : l # k => Given(l)' = Given(l)
    BY <1>1, <1>4 DEF Given
  <2>5. IsFiniteSet(Given(k)) /\ GivenTo(k) = Cardinality(Given(k)) /\ GivenTo(k) \in Nat
    BY <2>2, GivenFinite
  <2>6. GivenTo(k)' = GivenTo(k) + 1
    BY <2>3, <2>5, FS_AddElement DEF GivenTo, Given
  <2>7. \A l : l # k => GivenTo(l)' = GivenTo(l)
    BY <2>4 DEF GivenTo, Given
  <2>8. PICK n \in Nat : \A l \in 1..loops : GivenTo(l) = IF l <= next THEN n + 1 ELSE n
    BY DEF ServerInv, RoundInv
  <2>9. \A l \in 1..loops : GivenTo(l)' = IF l <= k THEN n + 1 ELSE n
    <3> SUFFICES ASSUME NEW l \in 1..loops
                 PROVE  GivenTo(l)' = IF l <= k THEN n + 1 ELSE n
      OBVIOUS
    <3>1. CASE l = k BY <1>b, <1>2, <2>6, <2>8, <3>1
    <3>2. CASE l # k BY <1>b, <1>2, <2>7, <2>8, <3>2
    <3> QED BY <3>1, <3>2
  <2>10. loops' = loops /\ next' = IF k >= loops THEN 0 ELSE k
    BY <1>b DEF NewOnIoLoop, Advance, serverVars
  <2>11. CASE k >= loops
    <3>1. \A l \in 1..loops' : GivenTo(l)' = IF l <= next' THEN (n + 1) + 1 ELSE n + 1
      BY <1>2, <2>9, <2>10, <2>11
    <3> QED BY <2>2, <3>1, n + 1 \in Nat DEF RoundInv
  <2>12. CASE ~(k >= loops)
    BY <2>2, <2>9, <2>10, <2>12 DEF RoundInv
  <2> QED BY <2>11, <2>12
<1> QED BY <1>3, <1>5, <1>6, <1>7, <1>8, <1>9, <1>10, <1>11, <1>12
        DEF ServerInv, TypeOK, LifeInv

\* newConnection() without io threads (TcpServer.cc 57-84, TcpConnection.cc
\* 119-126) keeps the invariant.
LEMMA AcceptOnBaseLoop ==
  ASSUME ServerInv, NEW f \in Fds, listening, backlog # <<>>, UNCHANGED <<serverVars, closed>>,
         NewOnBaseLoop(Head(backlog), f),
         connections' = connections \cup {Head(backlog)}, backlog' = Tail(backlog)
  PROVE  ServerInv'
<1> USE LoopFacts
<1>a. PICK c : c = Head(backlog)
  OBVIOUS
<1>1. /\ c \in Clients /\ state[c] = "none" /\ c \notin registered
      /\ \A l \in Loops : \A e \in Elements(queue[l]) : e[2] # c
      /\ \A l \in Loops : access[l].conn # c /\ guard[l] # c
  BY <1>a, HeadIsFresh
<1>2. ServerTypes' /\ StartInv'
  BY ConnFrame DEF serverVars
<1>3. /\ state \in [Clients -> {"none", "kConnecting", "kConnected", "kDisconnected", "gone"}]
      /\ state' = [state EXCEPT ![c] = "kConnected"]
      /\ loop \in [Clients -> Loops] /\ loop' = [loop EXCEPT ![c] = BaseLoop]
      /\ registered' = registered \cup {c}
      /\ UNCHANGED <<next, queue, access, guard>> /\ loops = 0
  BY <1>a DEF ServerInv, TypeOK, ConnTypes, NewOnBaseLoop
<1>4. BacklogInv' /\ backlog' \in Seq(Clients)
  BY <1>a, <1>1, <1>3, BacklogShrinks
<1>5. ConnTypes'
  <2>1. fd' \in [Clients -> Fds]
    BY <1>a, <1>1 DEF NewOnBaseLoop, ServerInv, TypeOK, ConnTypes
  <2>2. state' \in [Clients -> {"none", "kConnecting", "kConnected", "kDisconnected", "gone"}]
        /\ loop' \in [Clients -> Loops]
    BY <1>1, <1>3
  <2> QED BY <1>a, <1>1, <1>3, <1>4, <2>1, <2>2 DEF ConnTypes, ServerInv, TypeOK
<1>6. PollTypes'
  <2>1. channels' \in [Loops -> SUBSET (Fds \X Clients)]
    BY <1>a, <1>1 DEF NewOnBaseLoop, ServerInv, TypeOK, PollTypes
  <2> QED BY <1>1, <1>3, <2>1 DEF ServerInv, TypeOK, PollTypes
<1>7. QueueInv'
  <2>1. \A l \in Loops : \A d \in Elements(queue[l]) : FunctorAllowed(l, d)'
    BY <1>a, <1>1, <1>3 DEF ServerInv, LifeInv, QueueInv, FunctorAllowed
  <2> QED BY <1>3, <2>1 DEF ServerInv, LifeInv, QueueInv, FunctorAllowed
<1>8. AccessInv'
  <2> SUFFICES ASSUME NEW l \in Loops PROVE ChangeAllowed(l, access[l])'
    BY DEF AccessInv
  <2> QED BY <1>a, <1>1, <1>3 DEF ServerInv, LifeInv, AccessInv, ChangeAllowed
<1>9. GuardInv' /\ RegisteredIsOwned'
  BY <1>a, <1>1, <1>3, NoConnAssumption
     DEF ServerInv, TypeOK, PollTypes, LifeInv, GuardInv, RegisteredIsOwned
<1>10. DealInv'
  <2>1. \A d \in Clients : state'[d] # "none" => loop'[d] <= loops
    BY <1>1, <1>3 DEF ServerInv, DealInv
  <2> QED BY <1>3, <2>1 DEF ServerInv, DealInv, serverVars
<1>11. RoundInv'
  <2>1. Accepted' = Accepted \cup {c}
    BY <1>1, <1>3 DEF Accepted
  <2>2. IsFiniteSet(Accepted')
    BY <2>1, FS_AddElement DEF ServerInv, RoundInv
  <2>3. loops' = 0
    BY <1>3 DEF serverVars
  <2>4. \A l \in 1..loops' : GivenTo(l)' = IF l <= next' THEN 0 + 1 ELSE 0
    BY <2>3
  <2> QED BY <2>2, <2>4 DEF RoundInv
<1> QED BY <1>2, <1>4, <1>5, <1>6, <1>7, <1>8, <1>9, <1>10, <1>11
        DEF ServerInv, TypeOK, LifeInv

\* connectEstablished() is taken from the queue of an io loop and looks into
\* channels_ (TcpConnection.cc 119-126).
LEMMA BeginEstablishedKeeps ==
  ASSUME ServerInv, NEW l \in Loops, NEW c \in Clients, BeginEstablished(l, c)
  PROVE  ServerInv'
<1>1. /\ queue \in [Loops -> Seq(Functors)] /\ queue[l] \in Seq(Functors)
      /\ queue[l] # <<>> /\ Head(queue[l]) = <<"established", c>>
      /\ queue' = [queue EXCEPT ![l] = Tail(@)] /\ QueueInv
  BY DEF BeginEstablished, Takes, ServerInv, TypeOK, PollTypes, LifeInv
<1>2. PICK e : e = <<"established", c>>
  OBVIOUS
<1>3. /\ e \in Elements(queue[l]) /\ Elements(queue'[l]) \subseteq Elements(queue[l])
      /\ e \notin Elements(queue'[l])
      /\ \A k \in Loops : k # l => queue'[k] = queue[k]
  <2>1. EstablishedOnce(queue[l]) /\ Head(queue[l]) = e /\ e[1] = "established"
        /\ queue'[l] = Tail(queue[l])
    BY <1>1, <1>2 DEF QueueInv
  <2> QED BY <1>1, <2>1, ElementsPopped
<1>4. state[c] = "kConnecting" /\ c \in connections /\ l = loop[c]
  BY <1>1, <1>2, <1>3 DEF QueueInv, FunctorAllowed
<1>5. /\ state \in [Clients -> {"none", "kConnecting", "kConnected", "kDisconnected", "gone"}]
      /\ state' = [state EXCEPT ![c] = "kConnected"]
      /\ access' = [access EXCEPT ![l] = [op |-> "insert", conn |-> c, seen |-> channels[l]]]
      /\ UNCHANGED <<serverVars, backlog, closed, next, fd, loop, connections, registered,
                     channels, guard>>
  BY DEF BeginEstablished, ServerInv, TypeOK, ConnTypes
<1>6. queue' \in [Loops -> Seq(Functors)] /\ QueueInv'
  <2>1. ASSUME NEW k \in Loops, NEW d \in Elements(queue'[k]) PROVE FunctorAllowed(k, d)'
    <3>1. d \in Elements(queue[k]) /\ d \in Functors /\ FunctorAllowed(k, d)
      BY <1>1, <1>3, ElementOfSeq DEF QueueInv, Elements
    <3>2. d[2] # c
      <4>1. CASE d[2] = c
        <5>1. d[1] = "established" /\ k = l
          BY <1>4, <3>1, <4>1 DEF FunctorAllowed
        <5>2. d = e
          BY <1>2, <3>1, <4>1, <5>1 DEF Functors
        <5> QED BY <1>3, <5>1, <5>2
      <4> QED BY <4>1
    <3> QED BY <1>5, <3>1, <3>2 DEF FunctorAllowed, Functors
  <2> QED BY <1>1, <2>1, QueuePopped
<1>7. ServerTypes' /\ StartInv'
  BY <1>5, ConnFrame
<1>8. ConnTypes'
  BY <1>5 DEF ServerInv, TypeOK, ConnTypes
<1>9. PollTypes'
  <2>1. access' \in [Loops -> Changes]
    BY <1>5 DEF ServerInv, TypeOK, PollTypes, Changes
  <2> QED BY <1>5, <1>6, <2>1 DEF ServerInv, TypeOK, PollTypes
<1>10. BacklogInv' /\ GuardInv' /\ RegisteredIsOwned'
  <2>1. \A i \in 1..Len(backlog) : backlog[i] \in Clients
    BY ElementOfSeq DEF ServerInv, TypeOK, ConnTypes
  <2>2. BacklogInv'
    BY <1>4, <1>5, <2>1 DEF ServerInv, LifeInv, BacklogInv
  <2>3. GuardInv' /\ RegisteredIsOwned'
    BY <1>4, <1>5, NoConnAssumption
       DEF ServerInv, TypeOK, PollTypes, LifeInv, GuardInv, RegisteredIsOwned
  <2> QED BY <2>2, <2>3
<1>11. c \notin registered
  BY <1>4 DEF ServerInv, LifeInv, RegisteredIsOwned
<1>12. AccessInv'
  <2> SUFFICES ASSUME NEW k \in Loops PROVE ChangeAllowed(k, access[k])'
    BY DEF AccessInv
  <2>1. CASE k = l
    <3>1. access'[l] = [op |-> "insert", conn |-> c, seen |-> channels[l]]
      BY <1>5 DEF ServerInv, TypeOK, PollTypes
    <3> QED BY <1>4, <1>5, <1>11, <2>1, <3>1 DEF ChangeAllowed
  <2>2. CASE k # l
    <3>1. access'[k] = access[k] /\ ChangeAllowed(k, access[k])
      BY <1>5, <2>2 DEF ServerInv, TypeOK, PollTypes, LifeInv, AccessInv
    <3>2. access[k] # Idle => access[k].conn # c
      BY <1>4, <3>1 DEF ChangeAllowed
    <3> QED BY <1>5, <3>1, <3>2 DEF ChangeAllowed, Idle
  <2> QED BY <2>1, <2>2
<1>13. Accepted' = Accepted
  BY <1>4, <1>5 DEF Accepted
<1>14. DealInv' /\ RoundInv'
  BY <1>5, <1>13, DealFrame
<1> QED BY <1>6, <1>7, <1>8, <1>9, <1>10, <1>12, <1>14 DEF ServerInv, TypeOK, LifeInv

\* The backlog and what waits in it do not mind a connection changing that is
\* already there.
LEMMA BacklogFrame ==
  ASSUME ServerInv, backlog' = backlog,
         \A c \in Clients : state[c] = "none" => state'[c] = "none"
  PROVE  BacklogInv'
<1>1. \A i \in 1..Len(backlog) : backlog[i] \in Clients
  BY ElementOfSeq DEF ServerInv, TypeOK, ConnTypes
<1> QED BY <1>1 DEF ServerInv, LifeInv, BacklogInv

\* ... and puts the channel there (EpollPoller.cc 63-90): only now can the epoll
\* set hand it out.
LEMMA EndEstablishedKeeps ==
  ASSUME ServerInv, NEW l \in Loops, EndEstablished(l)
  PROVE  ServerInv'
<1>1. PICK c : c = access[l].conn
  OBVIOUS
<1>2. /\ c \in Clients /\ l = loop[c] /\ state[c] = "kConnected"
      /\ c \in connections \ registered
  BY <1>1 DEF EndEstablished, ServerInv, LifeInv, AccessInv, ChangeAllowed, Idle
<1>3. /\ registered' = registered \cup {c}
      /\ access \in [Loops -> Changes] /\ access' = [access EXCEPT ![l] = Idle]
      /\ UNCHANGED <<serverVars, backlog, closed, next, state, fd, loop, connections, queue, guard>>
  BY <1>1 DEF EndEstablished, ServerInv, TypeOK, PollTypes, connVars
<1>4. ServerTypes' /\ StartInv'
  BY <1>3, ConnFrame
<1>5. ConnTypes'
  BY <1>3 DEF ServerInv, TypeOK, ConnTypes
<1>6. PollTypes'
  <2>1. Idle \in Changes
    BY DEF Idle, Changes
  <2>2. access[l].seen \in SUBSET (Fds \X Clients)
    BY DEF ServerInv, TypeOK, PollTypes, Changes
  <2>3. <<fd[c], c>> \in Fds \X Clients
    BY <1>2 DEF ServerInv, TypeOK, ConnTypes
  <2>4. Inserted(access[l].seen, c) \in SUBSET (Fds \X Clients)
    BY <2>2, <2>3 DEF Inserted
  <2>5. channels' \in [Loops -> SUBSET (Fds \X Clients)]
    BY <1>1, <2>4 DEF EndEstablished, ServerInv, TypeOK, PollTypes
  <2> QED BY <1>2, <1>3, <2>1, <2>5 DEF ServerInv, TypeOK, PollTypes
<1>7. BacklogInv' /\ QueueInv' /\ GuardInv' /\ RegisteredIsOwned'
  BY <1>2, <1>3, BacklogFrame
     DEF ServerInv, LifeInv, QueueInv, FunctorAllowed, GuardInv, RegisteredIsOwned
<1>8. AccessInv'
  <2> SUFFICES ASSUME NEW k \in Loops PROVE ChangeAllowed(k, access[k])'
    BY DEF AccessInv
  <2>1. CASE k = l BY <1>3, <2>1 DEF ChangeAllowed
  <2>2. CASE k # l
    <3>1. access'[k] = access[k] /\ ChangeAllowed(k, access[k])
      BY <1>3, <2>2 DEF ServerInv, LifeInv, AccessInv
    <3>2. access[k].op = "insert" => access[k].conn # c
      BY <1>2, <2>2, <3>1 DEF ChangeAllowed, Idle
    <3> QED BY <1>3, <3>1, <3>2 DEF ChangeAllowed
  <2> QED BY <2>1, <2>2
<1>9. Accepted' = Accepted
  BY <1>3 DEF Accepted
<1>10. DealInv' /\ RoundInv'
  BY <1>3, <1>9, DealFrame
<1> QED BY <1>4, <1>5, <1>6, <1>7, <1>8, <1>10 DEF ServerInv, TypeOK, LifeInv

\* handleClose() (TcpConnection.cc 276-289, TcpServer.cc 87-93) takes the
\* connection out of the epoll set before anything else learns of it.
LEMMA HandleCloseKeeps ==
  ASSUME ServerInv, NEW l \in Loops, NEW c \in Clients, Closes(l, c)
  PROVE  ServerInv'
<1> USE LoopFacts
<1>1. state[c] = "kConnected" /\ c \in registered /\ c \in connections
  BY DEF Closes, ServerInv, LifeInv, RegisteredIsOwned
<1>2. /\ state \in [Clients -> {"none", "kConnecting", "kConnected", "kDisconnected", "gone"}]
      /\ state' = [state EXCEPT ![c] = "kDisconnected"]
      /\ registered' = registered \ {c}
      /\ guard \in [Loops -> Clients \cup {NoConn}] /\ guard' = [guard EXCEPT ![l] = c]
      /\ connections' \in {connections, connections \ {c}}
      /\ UNCHANGED <<serverVars, backlog, closed, next, fd, loop, channels, access>>
  BY DEF Closes, Disabled, ServerInv, TypeOK, ConnTypes, PollTypes
<1>3. PICK e \in {<<"destroy", c>>, <<"remove", c>>} :
        queue' = [queue EXCEPT ![BaseLoop] = Append(@, e)]
  BY DEF Closes
<1>4. queue' \in [Loops -> Seq(Functors)] /\ QueueInv'
  <2>1. e \in Functors /\ e[1] # "established" /\ e[1] \in {"remove", "destroy"} /\ e[2] = c
    BY DEF Functors, Kinds
  <2>2. FunctorAllowed(BaseLoop, e)'
    BY <1>2, <2>1 DEF FunctorAllowed
  <2>3. ASSUME NEW k \in Loops, NEW d \in Elements(queue[k]) PROVE FunctorAllowed(k, d)'
    <3>1. FunctorAllowed(k, d)
      BY DEF ServerInv, LifeInv, QueueInv
    <3>2. d[2] # c
      BY <1>1, <3>1 DEF FunctorAllowed
    <3> QED BY <1>2, <3>1, <3>2 DEF FunctorAllowed
  <2> QED BY <1>3, <2>1, <2>2, <2>3, QueueAppended
          DEF ServerInv, TypeOK, PollTypes, LifeInv
<1>5. ServerTypes' /\ StartInv'
  BY <1>2, ConnFrame
<1>6. ConnTypes'
  BY <1>2 DEF ServerInv, TypeOK, ConnTypes
<1>7. PollTypes'
  BY <1>2, <1>4 DEF ServerInv, TypeOK, PollTypes
<1>8. BacklogInv'
  BY <1>1, <1>2, BacklogFrame
<1>9. RegisteredIsOwned' /\ GuardInv'
  <2>1. loop[c] = l /\ guard'[l] = c /\ \A k \in Loops : k # l => guard'[k] = guard[k]
    BY <1>2 DEF Closes
  <2>2. \A k \in Loops : guard[k] # NoConn => guard[k] \in Clients
    BY <1>2
  <2>3. GuardInv'
    BY <1>2, <2>1, <2>2 DEF ServerInv, LifeInv, GuardInv
  <2> QED BY <1>1, <1>2, <2>3 DEF ServerInv, LifeInv, RegisteredIsOwned
<1>10. AccessInv'
  <2> SUFFICES ASSUME NEW k \in Loops PROVE ChangeAllowed(k, access[k])'
    BY DEF AccessInv
  <2>1. ChangeAllowed(k, access[k])
    BY DEF ServerInv, LifeInv, AccessInv
  <2>2. access[k] # Idle => access[k].conn # c
    BY <1>1, <2>1 DEF ChangeAllowed
  <2> QED BY <1>2, <2>1, <2>2 DEF ChangeAllowed, Idle
<1>11. Accepted' = Accepted
  BY <1>1, <1>2 DEF Accepted
<1>12. DealInv' /\ RoundInv'
  BY <1>2, <1>11, DealFrame
<1> QED BY <1>4, <1>5, <1>6, <1>7, <1>8, <1>9, <1>10, <1>12 DEF ServerInv, TypeOK, LifeInv

\* A functor of the base loop is run for a connection that is down.
LEMMA BaseTakes ==
  ASSUME ServerInv, NEW c \in Clients, NEW kind \in {"remove", "destroy"},
         Takes(BaseLoop, kind, c)
  PROVE  /\ queue \in [Loops -> Seq(Functors)] /\ queue[BaseLoop] # <<>>
         /\ queue[BaseLoop] \in Seq(Functors)
         /\ state[c] = "kDisconnected"
         /\ Elements(Tail(queue[BaseLoop])) \subseteq Elements(queue[BaseLoop])
         /\ Tail(queue[BaseLoop]) \in Seq(Functors)
         /\ EstablishedOnce(Tail(queue[BaseLoop]))
<1> USE LoopFacts
<1>1. /\ queue \in [Loops -> Seq(Functors)] /\ queue[BaseLoop] \in Seq(Functors)
      /\ queue[BaseLoop] # <<>> /\ Head(queue[BaseLoop]) = <<kind, c>>
  BY DEF Takes, ServerInv, TypeOK, PollTypes
<1>2. PICK e : e = <<kind, c>>
  OBVIOUS
<1>3. e \in Elements(queue[BaseLoop]) /\ EstablishedOnce(queue[BaseLoop])
  <2>1. Head(queue[BaseLoop]) \in Elements(queue[BaseLoop])
    BY <1>1, ElementsPopped
  <2> QED BY <1>1, <1>2, <2>1 DEF ServerInv, LifeInv, QueueInv
<1>4. state[c] = "kDisconnected"
  BY <1>2, <1>3 DEF ServerInv, LifeInv, QueueInv, FunctorAllowed
<1> QED BY <1>1, <1>3, <1>4, ElementsPopped

\* removeConnectionInLoop() (TcpServer.cc 94-99).
LEMMA RemoveKeeps ==
  ASSUME ServerInv, NEW c \in Clients, RemoveConnectionInLoop(c)
  PROVE  ServerInv'
<1> USE LoopFacts
<1>1. /\ queue \in [Loops -> Seq(Functors)]
      /\ state[c] = "kDisconnected"
      /\ Elements(Tail(queue[BaseLoop])) \subseteq Elements(queue[BaseLoop])
      /\ Tail(queue[BaseLoop]) \in Seq(Functors)
      /\ EstablishedOnce(Tail(queue[BaseLoop]))
  BY BaseTakes DEF RemoveConnectionInLoop
<1>2. PICK e : e = <<"destroy", c>>
  OBVIOUS
<1>3. /\ queue' = [queue EXCEPT ![BaseLoop] = Append(Tail(@), e)]
      /\ connections' = connections \ {c}
      /\ UNCHANGED <<serverVars, backlog, closed, next, state, fd, loop, pollVars>>
  BY <1>2 DEF RemoveConnectionInLoop
<1>4. e \in Functors /\ e[1] = "destroy" /\ e[2] = c
  BY <1>2 DEF Functors, Kinds
<1>5. /\ queue'[BaseLoop] \in Seq(Functors) /\ EstablishedOnce(queue'[BaseLoop])
      /\ Elements(queue'[BaseLoop]) \subseteq Elements(queue[BaseLoop]) \cup {e}
      /\ \A k \in Loops : k # BaseLoop => queue'[k] = queue[k]
  <2>1. queue'[BaseLoop] = Append(Tail(queue[BaseLoop]), e)
        /\ \A k \in Loops : k # BaseLoop => queue'[k] = queue[k]
    BY <1>1, <1>3
  <2>2. PICK q : q = Tail(queue[BaseLoop])
    OBVIOUS
  <2>3. /\ Append(q, e) \in Seq(Functors) /\ EstablishedOnce(Append(q, e))
        /\ Elements(Append(q, e)) = Elements(q) \cup {e}
    <3>1. q \in Seq(Functors) /\ EstablishedOnce(q) /\ e[1] # "established"
      BY <1>1, <1>4, <2>2
    <3> QED BY <1>4, <3>1, ElementsAppended
  <2> QED BY <1>1, <2>1, <2>2, <2>3
<1>6. queue' \in [Loops -> Seq(Functors)]
  BY <1>1, <1>3, <1>5
<1>7. QueueInv'
  <2>1. ASSUME NEW k \in Loops, NEW d \in Elements(queue[k]) PROVE FunctorAllowed(k, d)'
    <3>1. FunctorAllowed(k, d)
      BY DEF ServerInv, LifeInv, QueueInv
    <3>2. d[1] = "established" => d[2] # c
      BY <1>1, <3>1 DEF FunctorAllowed
    <3> QED BY <1>3, <3>1, <3>2 DEF FunctorAllowed
  <2>2. FunctorAllowed(BaseLoop, e)'
    BY <1>1, <1>3, <1>4 DEF FunctorAllowed
  <2>3. ASSUME NEW k \in Loops
        PROVE  (\A d \in Elements(queue'[k]) : FunctorAllowed(k, d)') /\ EstablishedOnce(queue'[k])
    <3>1. CASE k # BaseLoop
      BY <1>5, <2>1, <3>1 DEF ServerInv, LifeInv, QueueInv
    <3>2. CASE k = BaseLoop
      <4>1. \A d \in Elements(queue[BaseLoop]) : FunctorAllowed(BaseLoop, d)'
        BY <2>1
      <4>2. \A d \in Elements(queue'[BaseLoop]) : FunctorAllowed(BaseLoop, d)'
        BY <1>5, <2>2, <4>1
      <4> QED BY <1>5, <3>2, <4>2
    <3> QED BY <3>1, <3>2
  <2> QED BY <2>3 DEF QueueInv, Elements, EstablishedOnce
<1>8. ServerTypes' /\ StartInv'
  BY <1>3, ConnFrame
<1>9. ConnTypes' /\ PollTypes'
  BY <1>3, <1>6 DEF ServerInv, TypeOK, ConnTypes, PollTypes, pollVars
<1>10. BacklogInv' /\ GuardInv' /\ RegisteredIsOwned'
  <2>1. BacklogInv'
    BY <1>3, BacklogFrame
  <2> QED BY <1>1, <1>3, <2>1 DEF ServerInv, LifeInv, GuardInv, RegisteredIsOwned, pollVars
<1>11. AccessInv'
  <2> SUFFICES ASSUME NEW k \in Loops PROVE ChangeAllowed(k, access[k])'
    BY DEF AccessInv
  <2> QED BY <1>1, <1>3 DEF ServerInv, LifeInv, AccessInv, ChangeAllowed, pollVars
<1>12. Accepted' = Accepted
  BY <1>3 DEF Accepted
<1>13. DealInv' /\ RoundInv'
  BY <1>3, <1>12, DealFrame
<1> QED BY <1>7, <1>8, <1>9, <1>10, <1>11, <1>13 DEF ServerInv, TypeOK, LifeInv

\* connectDestroy() is taken from the queue of the base loop and looks into
\* channels_ (TcpConnection.cc 128-137).
LEMMA BeginDestroyKeeps ==
  ASSUME ServerInv, NEW c \in Clients, BeginDestroy(c)
  PROVE  ServerInv'
<1> USE LoopFacts
<1>1. /\ queue \in [Loops -> Seq(Functors)] /\ queue[BaseLoop] # <<>>
      /\ state[c] = "kDisconnected"
      /\ Elements(Tail(queue[BaseLoop])) \subseteq Elements(queue[BaseLoop])
  BY BaseTakes DEF BeginDestroy
<1>2. PICK a : a = [op |-> "erase", conn |-> c, seen |-> channels[loop[c]]]
  OBVIOUS
<1>3. /\ queue' = [queue EXCEPT ![BaseLoop] = Tail(@)]
      /\ access \in [Loops -> Changes] /\ access' = [access EXCEPT ![BaseLoop] = a]
      /\ UNCHANGED <<serverVars, backlog, closed, connVars, registered, channels, guard>>
  BY <1>2 DEF BeginDestroy, ServerInv, TypeOK, PollTypes
<1>4. queue' \in [Loops -> Seq(Functors)] /\ QueueInv'
  <2>1. ASSUME NEW k \in Loops, NEW d \in Elements(queue'[k]) PROVE FunctorAllowed(k, d)'
    <3>1. d \in Elements(queue[k])
      BY <1>1, <1>3
    <3> QED BY <1>3, <3>1 DEF ServerInv, LifeInv, QueueInv, FunctorAllowed, connVars
  <2> QED BY <1>1, <1>3, <2>1, QueuePopped DEF ServerInv, LifeInv
<1>5. ServerTypes' /\ StartInv'
  BY <1>3, ConnFrame
<1>6. ConnTypes'
  BY <1>3 DEF ServerInv, TypeOK, ConnTypes, connVars
<1>7. PollTypes'
  <2>1. a \in Changes
    BY <1>2 DEF Changes, ServerInv, TypeOK, ConnTypes, PollTypes
  <2> QED BY <1>3, <1>4, <2>1 DEF ServerInv, TypeOK, PollTypes
<1>8. BacklogInv' /\ GuardInv' /\ RegisteredIsOwned'
  BY <1>3, BacklogFrame DEF ServerInv, LifeInv, GuardInv, RegisteredIsOwned, connVars
<1>9. AccessInv'
  <2> SUFFICES ASSUME NEW k \in Loops PROVE ChangeAllowed(k, access[k])'
    BY DEF AccessInv
  <2>1. CASE k = BaseLoop
    BY <1>1, <1>2, <1>3, <2>1 DEF ChangeAllowed, connVars
  <2>2. CASE k # BaseLoop
    BY <1>3, <2>2 DEF ServerInv, LifeInv, AccessInv, ChangeAllowed, connVars
  <2> QED BY <2>1, <2>2
<1>10. Accepted' = Accepted
  BY <1>3 DEF Accepted, connVars
<1>11. DealInv' /\ RoundInv'
  BY <1>3, <1>10, DealFrame DEF connVars
<1> QED BY <1>4, <1>5, <1>6, <1>7, <1>8, <1>9, <1>11 DEF ServerInv, TypeOK, LifeInv

\* Giving up a reference to a connection that is down destroys the connection
\* if nothing else holds it; whatever is queued or registered is not that one.
LEMMA Released ==
  ASSUME ServerInv, NEW c \in Clients, state[c] = "kDisconnected",
         NEW owned \in BOOLEAN, state' = StateAfter(c, owned), Held(c) => owned,
         UNCHANGED <<serverVars, backlog, closed, next, fd, loop, connections, queue, registered>>
  PROVE  /\ ServerTypes' /\ StartInv' /\ ConnTypes'
         /\ BacklogInv' /\ QueueInv' /\ RegisteredIsOwned'
         /\ DealInv' /\ RoundInv'
         /\ \A d \in Clients : d # c \/ owned => state'[d] = state[d]
<1>1. state \in [Clients -> {"none", "kConnecting", "kConnected", "kDisconnected", "gone"}]
  BY DEF ServerInv, TypeOK, ConnTypes
<1>2. /\ \A d \in Clients : d # c \/ owned => state'[d] = state[d]
      /\ state'[c] \in {"kDisconnected", "gone"}
      /\ state' \in [Clients -> {"none", "kConnecting", "kConnected", "kDisconnected", "gone"}]
  BY <1>1 DEF StateAfter
<1>3. ServerTypes' /\ StartInv'
  BY ConnFrame
<1>4. ConnTypes'
  BY <1>2 DEF ServerInv, TypeOK, ConnTypes
<1>5. \A d \in Clients : state[d] = "none" <=> state'[d] = "none"
  BY <1>2
<1>6. BacklogInv'
  BY <1>5, BacklogFrame
<1>7. QueueInv'
  <2>1. ASSUME NEW k \in Loops, NEW d \in Elements(queue[k]) PROVE FunctorAllowed(k, d)'
    <3>1. FunctorAllowed(k, d) /\ d \in Functors
      BY ElementOfSeq DEF ServerInv, TypeOK, PollTypes, LifeInv, QueueInv, Elements
    <3>2. d[2] = c => Held(c)
      BY DEF Held, Elements
    <3>3. state'[d[2]] = state[d[2]]
      BY <1>2, <3>1, <3>2 DEF Functors
    <3> QED BY <3>1, <3>3 DEF FunctorAllowed
  <2> QED BY <2>1 DEF ServerInv, LifeInv, QueueInv, Elements, EstablishedOnce
<1>8. RegisteredIsOwned'
  BY <1>2 DEF ServerInv, TypeOK, PollTypes, LifeInv, RegisteredIsOwned
<1>9. Accepted' = Accepted
  BY <1>5 DEF Accepted
<1>10. DealInv' /\ RoundInv'
  BY <1>9, DealFrame
<1> QED BY <1>2, <1>3, <1>4, <1>6, <1>7, <1>8, <1>10

\* ... erases the channel, and the functor gives up the connection.
LEMMA EndDestroyKeeps ==
  ASSUME ServerInv, EndDestroy
  PROVE  ServerInv'
<1> USE LoopFacts
<1>1. PICK c : c = access[BaseLoop].conn
  OBVIOUS
<1>2. c \in Clients /\ state[c] = "kDisconnected"
  BY <1>1 DEF EndDestroy, ServerInv, LifeInv, AccessInv, ChangeAllowed, Idle
<1>3. PICK owned \in BOOLEAN : owned = (Held(c) \/ \E t \in Loops : guard[t] = c)
  OBVIOUS
<1>4. /\ state' = StateAfter(c, owned)
      /\ channels' = [channels EXCEPT ![loop[c]] = Erased(access[BaseLoop].seen, c)]
      /\ access \in [Loops -> Changes] /\ access' = [access EXCEPT ![BaseLoop] = Idle]
      /\ UNCHANGED <<serverVars, backlog, closed, next, fd, loop, connections, queue,
                     registered, guard>>
  BY <1>1, <1>3 DEF EndDestroy, ServerInv, TypeOK, PollTypes
<1>5. /\ ServerTypes' /\ StartInv' /\ ConnTypes'
      /\ BacklogInv' /\ QueueInv' /\ RegisteredIsOwned'
      /\ DealInv' /\ RoundInv'
      /\ \A d \in Clients : d # c \/ owned => state'[d] = state[d]
  BY <1>2, <1>3, <1>4, Released
<1>6. PollTypes'
  <2>1. Idle \in Changes
    BY DEF Idle, Changes
  <2>2. access[BaseLoop].seen \in SUBSET (Fds \X Clients)
    BY DEF ServerInv, TypeOK, PollTypes, Changes
  <2>3. channels' \in [Loops -> SUBSET (Fds \X Clients)]
    BY <1>4, <2>2 DEF Erased, ServerInv, TypeOK, PollTypes
  <2> QED BY <1>4, <2>1, <2>3 DEF ServerInv, TypeOK, PollTypes
<1>7. GuardInv'
  BY <1>3, <1>4, <1>5 DEF ServerInv, TypeOK, PollTypes, LifeInv, GuardInv
<1>8. AccessInv'
  <2> SUFFICES ASSUME NEW k \in Loops PROVE ChangeAllowed(k, access[k])'
    BY DEF AccessInv
  <2>1. CASE k = BaseLoop BY <1>4, <2>1 DEF ChangeAllowed
  <2>2. CASE k # BaseLoop
    <3>1. access'[k] = access[k] /\ ChangeAllowed(k, access[k])
      BY <1>4, <2>2 DEF ServerInv, LifeInv, AccessInv
    <3>2. access[k] # Idle => access[k].conn \in Clients /\ access[k].conn # c
      BY <1>2, <2>2, <3>1 DEF ChangeAllowed
    <3> QED BY <1>4, <1>5, <3>1, <3>2 DEF ChangeAllowed
  <2> QED BY <2>1, <2>2
<1> QED BY <1>5, <1>6, <1>7, <1>8 DEF ServerInv, TypeOK, LifeInv

\* handleEvent() returns and gives up the connection (Channel.cc 46-58).
LEMMA HandlerDoneKeeps ==
  ASSUME ServerInv, NEW l \in Loops, HandlerDone(l)
  PROVE  ServerInv'
<1>1. PICK c : c = guard[l]
  OBVIOUS
<1>2. c \in Clients /\ state[c] = "kDisconnected" /\ loop[c] = l
  BY <1>1 DEF HandlerDone, ServerInv, TypeOK, PollTypes, LifeInv, GuardInv
<1>3. PICK owned \in BOOLEAN : owned = (Held(c) \/ \E t \in Loops : access[t].conn = c)
  OBVIOUS
<1>4. /\ state' = StateAfter(c, owned)
      /\ guard \in [Loops -> Clients \cup {NoConn}] /\ guard' = [guard EXCEPT ![l] = NoConn]
      /\ UNCHANGED <<serverVars, backlog, closed, next, fd, loop, connections, queue,
                     registered, channels, access>>
  BY <1>1, <1>3 DEF HandlerDone, ServerInv, TypeOK, PollTypes
<1>5. /\ ServerTypes' /\ StartInv' /\ ConnTypes'
      /\ BacklogInv' /\ QueueInv' /\ RegisteredIsOwned'
      /\ DealInv' /\ RoundInv'
      /\ \A d \in Clients : d # c \/ owned => state'[d] = state[d]
  BY <1>2, <1>3, <1>4, Released
<1>6. PollTypes'
  BY <1>4 DEF ServerInv, TypeOK, PollTypes
<1>7. GuardInv'
  <2> SUFFICES ASSUME NEW k \in Loops, guard'[k] # NoConn
               PROVE  state'[guard'[k]] = "kDisconnected" /\ loop'[guard'[k]] = k
    BY DEF GuardInv
  <2>1. k # l /\ guard'[k] = guard[k] /\ guard[k] \in Clients
    BY <1>4
  <2>2. state[guard[k]] = "kDisconnected" /\ loop[guard[k]] = k
    BY <2>1 DEF ServerInv, LifeInv, GuardInv
  <2>3. guard[k] # c
    BY <1>2, <2>1, <2>2
  <2> QED BY <1>4, <1>5, <2>1, <2>2, <2>3
<1>8. AccessInv'
  <2> SUFFICES ASSUME NEW k \in Loops PROVE ChangeAllowed(k, access[k])'
    BY DEF AccessInv
  <2>1. ChangeAllowed(k, access[k])
    BY DEF ServerInv, LifeInv, AccessInv
  <2>2. access[k] # Idle => access[k].conn \in Clients
                            /\ state'[access[k].conn] = state[access[k].conn]
    BY <1>3, <1>5, <2>1 DEF ChangeAllowed
  <2> QED BY <1>4, <2>1, <2>2 DEF ChangeAllowed
<1> QED BY <1>5, <1>6, <1>7, <1>8 DEF ServerInv, TypeOK, LifeInv

-----------------------------------------------------------------------------
\* A client joins the backlog, or closes its end, or its connection stops reading.
LEMMA ClientKeeps ==
  ASSUME ServerInv, NEW c \in Clients,
         Connect(c) \/ ClientCloses(c) \/ \E l \in Loops : DrainOutput(l, c)
  PROVE  ServerInv'
<1>1. /\ UNCHANGED <<serverVars, connVars, queue, pollVars>>
      /\ closed' \subseteq Clients
  BY DEF Connect, ClientCloses, DrainOutput, ServerInv, TypeOK, ConnTypes
<1>2. /\ backlog' \in Seq(Clients) /\ BacklogInv' /\ (listening \/ backlog' = backlog)
  <2>1. CASE ClientCloses(c) \/ \E l \in Loops : DrainOutput(l, c)
    BY <2>1 DEF ClientCloses, DrainOutput, ServerInv, TypeOK, ConnTypes, LifeInv, BacklogInv,
                connVars
  <2>2. CASE Connect(c)
    <3>1. /\ backlog \in Seq(Clients) /\ backlog' = Append(backlog, c)
          /\ state[c] = "none" /\ listening /\ state' = state
          /\ \A i \in 1..Len(backlog) : backlog[i] # c
      BY <2>2 DEF Connect, Waiting, ServerInv, TypeOK, ConnTypes, connVars
    <3>2. /\ backlog' \in Seq(Clients)
          /\ Len(backlog') = Len(backlog) + 1 /\ Len(backlog) \in Nat
          /\ \A i \in 1..(Len(backlog) + 1) :
               backlog'[i] = IF i <= Len(backlog) THEN backlog[i] ELSE c
      BY <3>1, Appended
    <3>3. \A i \in 1..Len(backlog) : state[backlog[i]] = "none"
      BY DEF ServerInv, LifeInv, BacklogInv
    <3>4. \A i, j \in 1..Len(backlog) : backlog[i] = backlog[j] => i = j
      BY DEF ServerInv, LifeInv, BacklogInv
    <3>5. \A i \in 1..Len(backlog') : state'[backlog'[i]] = "none"
      BY <3>1, <3>2, <3>3
    <3>6. \A i, j \in 1..Len(backlog') : backlog'[i] = backlog'[j] => i = j
      BY <3>1, <3>2, <3>4
    <3> QED BY <3>1, <3>2, <3>5, <3>6 DEF BacklogInv
  <2> QED BY <2>1, <2>2
<1>3. ServerTypes' /\ StartInv'
  BY <1>1, ConnFrame
<1>4. ConnTypes' /\ PollTypes'
  BY <1>1, <1>2 DEF ServerInv, TypeOK, ConnTypes, PollTypes, connVars, pollVars
<1>5. QueueInv'
  BY <1>1 DEF ServerInv, LifeInv, QueueInv, FunctorAllowed, connVars
<1>6. AccessInv'
  BY <1>1 DEF ServerInv, LifeInv, AccessInv, ChangeAllowed, connVars, pollVars
<1>7. GuardInv' /\ RegisteredIsOwned'
  BY <1>1 DEF ServerInv, LifeInv, GuardInv, RegisteredIsOwned, connVars, pollVars
<1>8. Accepted' = Accepted
  BY <1>1 DEF Accepted, connVars
<1>9. DealInv' /\ RoundInv'
  BY <1>1, <1>2, <1>8, DealFrame DEF connVars
<1> QED BY <1>2, <1>3, <1>4, <1>5, <1>6, <1>7, <1>9 DEF ServerInv, TypeOK, LifeInv

\* Nothing changes.
LEMMA StutterKeeps ==
  ASSUME ServerInv, UNCHANGED vars
  PROVE  ServerInv'
<1>1. UNCHANGED otherThanServer /\ UNCHANGED serverVars
  BY DEF vars, otherThanServer, serverVars, connVars, pollVars
<1>2. Accepted' = Accepted
  BY <1>1 DEF otherThanServer, connVars, Accepted
<1>3. DealInv' /\ RoundInv'
  BY <1>1, <1>2, DealFrame DEF otherThanServer, connVars
<1> QED BY <1>1, <1>3, ServerFrame, ConnFrame DEF ServerInv, TypeOK

\* The constructor of TcpServer establishes the invariant.
LEMMA ServerInit == Init => ServerInv
<1> SUFFICES ASSUME Init PROVE ServerInv
  OBVIOUS
<1> USE LoopFacts DEF Init
<1>1. ServerTypes
  <2>1. thread \in [IoLoops -> {"none", "created", "running", "looping"}]
    OBVIOUS
  <2>2. numThreads \in 0..MaxThreads /\ started \in 0..2 /\ loops \in Nat
    OBVIOUS
  <2> QED BY <2>1, <2>2, Zenon DEF ServerTypes
<1>2. ConnTypes
  <2>1. (CHOOSE f \in Fds : TRUE) \in Fds
    BY FdsAssumption
  <2>2. fd \in [Clients -> Fds]
    BY <2>1
  <2>3. backlog \in Seq(Clients)
    BY EmptySeq
  <2> QED BY <2>2, <2>3 DEF ConnTypes
<1>3. PollTypes
  <2>1. Idle \in Changes
    BY DEF Idle, Changes
  <2>2. queue \in [Loops -> Seq(Functors)]
    BY EmptySeq
  <2>3. access \in [Loops -> Changes]
    BY <2>1
  <2>4. channels \in [Loops -> SUBSET (Fds \X Clients)]
    OBVIOUS
  <2> QED BY <2>2, <2>3, <2>4 DEF PollTypes
<1>4. StartInv /\ DealInv
  BY DEF StartInv, DealInv
<1>5. LifeInv
  <2>1. \A l \in Loops : Elements(queue[l]) = {} /\ EstablishedOnce(queue[l])
    BY EmptySeq DEF Elements, EstablishedOnce
  <2>2. BacklogInv
    BY EmptySeq DEF BacklogInv
  <2> QED BY <2>1, <2>2
          DEF LifeInv, QueueInv, AccessInv, ChangeAllowed, GuardInv, RegisteredIsOwned
<1>6. RoundInv
  <2>1. Accepted = {}
    BY DEF Accepted
  <2>2. \A l \in 1..loops : GivenTo(l) = IF l <= next THEN 0 + 1 ELSE 0
    BY DEF GivenTo
  <2> QED BY <2>1, <2>2, FS_EmptySet DEF RoundInv
<1> QED BY <1>1, <1>2, <1>3, <1>4, <1>5, <1>6 DEF ServerInv, TypeOK

\* Every step of every thread and of every client keeps the invariant.
LEMMA ServerStep == ServerInv /\ [Next]_vars => ServerInv'
<1> SUFFICES ASSUME ServerInv, [Next]_vars PROVE ServerInv'
  OBVIOUS
<1>1. CASE \/ \E n \in 0..MaxThreads : setThreadNum(n)
           \/ Start \/ StartStep \/ SpuriousWakeup \/ EnterLoop
           \/ \E t \in IoLoops : ThreadPosts(t) \/ Publish(t)
  BY <1>1, StartKeeps
<1>2. ASSUME NEW f \in Fds, Accept(f) PROVE ServerInv'
  <2>1. CASE NewOnIoLoop(Head(backlog), f)
    BY <1>2, <2>1, AcceptOnIoLoop DEF Accept
  <2>2. CASE NewOnBaseLoop(Head(backlog), f)
    BY <1>2, <2>2, AcceptOnBaseLoop DEF Accept
  <2> QED BY <1>2, <2>1, <2>2 DEF Accept
<1>3. CASE AcceptFails
  BY <1>3, StutterKeeps DEF AcceptFails
<1>4. ASSUME NEW l \in Loops, LoopStep(l) PROVE ServerInv'
  BY <1>4, BeginEstablishedKeeps, HandleCloseKeeps, EndEstablishedKeeps, HandlerDoneKeeps
     DEF LoopStep, HandleClose
<1>5. CASE BaseStep
  BY <1>5, RemoveKeeps, BeginDestroyKeeps, EndDestroyKeeps DEF BaseStep
<1>6. ASSUME NEW c \in Clients,
             Connect(c) \/ ClientCloses(c) \/ \E l \in Loops : DrainOutput(l, c)
      PROVE  ServerInv'
  BY <1>6, ClientKeeps
<1>7. ASSUME NEW l \in Loops, NEW c \in Clients, HandleHangup(l, c) PROVE ServerInv'
  BY <1>7, HandleCloseKeeps DEF HandleHangup
<1>8. CASE UNCHANGED vars
  BY <1>8, StutterKeeps
<1> QED BY <1>1, <1>2, <1>3, <1>4, <1>5, <1>6, <1>7, <1>8 DEF Next

-----------------------------------------------------------------------------
\* TcpServer.h, EventLoopThreadPool.h: the members keep their types.
THEOREM ServerTypeCorrect == Spec => []TypeOK
<1>1. ServerInv => TypeOK
  BY DEF ServerInv
<1> QED BY <1>1, ServerInit, ServerStep, PTL DEF Spec

\* TcpServer.cc 57-99: whatever the io threads and the base thread do, an epoll
\* set only ever holds connections that are up and that connections_ owns.
THEOREM RegisteredStaysOwned == Spec => []RegisteredIsOwned
<1>1. ServerInv => RegisteredIsOwned
  BY DEF ServerInv, LifeInv
<1> QED BY <1>1, ServerInit, ServerStep, PTL DEF Spec

\* EventLoopThread.cc 24-56, Thread.cc 26-39: for any number of io threads, a
\* connection is given only to a loop whose thread has come to run it.
THEOREM GivenToRunningLoop == Spec => []LoopIsRunning
<1>1. ServerInv => LoopIsRunning
  <2> SUFFICES ASSUME ServerInv, NEW c \in Clients, Alive(c), loop[c] # BaseLoop
               PROVE  thread[loop[c]] = "looping"
    BY DEF LoopIsRunning
  <2>1. loop[c] \in Nat /\ loop[c] # 0
    BY LoopFacts DEF ServerInv, TypeOK, ConnTypes
  <2>2. loop[c] <= loops /\ loops \in Nat
    BY DEF Alive, ServerInv, TypeOK, ServerTypes, DealInv
  <2>3. loop[c] \in 1..loops
    BY <2>1, <2>2
  <2> QED BY <2>3 DEF ServerInv, StartInv
<1> QED BY <1>1, ServerInit, ServerStep, PTL DEF Spec

\* EventLoopThreadPool.cc 36-49: getNextLoop() deals connections out evenly for
\* any number of loops and of clients.
THEOREM AlwaysEvenlyDealt == Spec => []EvenlyDealt
<1>1. ServerInv => EvenlyDealt
  <2> SUFFICES ASSUME ServerInv, NEW i \in 1..loops, NEW j \in 1..loops
               PROVE  GivenTo(i) <= GivenTo(j) + 1
    BY DEF EvenlyDealt
  <2>1. PICK n \in Nat : \A l \in 1..loops : GivenTo(l) = IF l <= next THEN n + 1 ELSE n
    BY DEF ServerInv, RoundInv
  <2> QED BY <2>1
<1> QED BY <1>1, ServerInit, ServerStep, PTL DEF Spec
=============================================================================
