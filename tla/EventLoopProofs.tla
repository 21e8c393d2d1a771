--------------------------- MODULE EventLoopProofs --------------------------
(***************************************************************************)
(* Proofs about EventLoop for any set of callers and any number of         *)
(* functors.                                                               *)
(***************************************************************************)
EXTENDS EventLoop, SequenceTheorems, TLAPS

\* The functor a thread hands over next is a functor, and is a fresh one.
LEMMA NextFunctorFresh ==
  ASSUME TypeOK, NEW t \in Threads, CanSubmit(t)
  PROVE  NextFunctor(t) \in Functors /\ NextFunctor(t) \notin submitted
<1>1. /\ handed[t] \in Nat /\ MaxTasks[t] \in Nat /\ handed[t] < MaxTasks[t]
  BY MaxTasksAssumption DEF TypeOK, CanSubmit
<1>2. NextFunctor(t) \in {t} \X (1..MaxTasks[t])
  BY <1>1 DEF NextFunctor
<1>3. NextFunctor(t) \in Functors
  BY <1>2 DEF Functors
<1>4. NextFunctor(t)[1] = t /\ NextFunctor(t)[2] = handed[t] + 1
  BY DEF NextFunctor
<1>5. ~(NextFunctor(t)[2] <= handed[NextFunctor(t)[1]])
  BY <1>1, <1>4
<1> QED
  BY <1>3, <1>5 DEF submitted

\* Counting one more functor of thread t stays within the bound of t.
LEMMA HandOver ==
  ASSUME TypeOK, NEW t \in Threads, CanSubmit(t),
         handed' = [handed EXCEPT ![t] = @ + 1]
  PROVE  handed' \in [Threads -> Nat] /\ \A u \in Threads : handed'[u] <= MaxTasks[u]
<1>1. handed \in [Threads -> Nat] /\ MaxTasks \in [Threads -> Nat]
  BY MaxTasksAssumption DEF TypeOK
<1>2. handed[t] < MaxTasks[t] /\ \A u \in Threads : handed[u] <= MaxTasks[u]
  BY DEF CanSubmit, TypeOK
<1> QED
  BY <1>1, <1>2

-----------------------------------------------------------------------------
\* Every step of the loop and of its callers keeps the types (EventLoop.h).
LEMMA TypeStep == TypeOK /\ [Next]_vars => TypeOK'
<1> SUFFICES ASSUME TypeOK, [Next]_vars PROVE TypeOK'
  OBVIOUS
<1> LoopThread \in Threads /\ Callers \subseteq Threads
  BY DEF Threads
<1>1. CASE LoopStep
  <2>1. CASE LoopEnter BY <2>1 DEF LoopEnter, TypeOK, taskVars
  <2>2. CASE LoopTest BY <2>2 DEF LoopTest, TypeOK, taskVars
  <2>3. CASE LoopExit BY <2>3 DEF LoopExit, TypeOK, taskVars
  <2>4. CASE PollReturn BY <2>4 DEF PollReturn, Ready, TypeOK, taskVars
  <2>5. CASE HandleRead BY <2>5 DEF HandleRead, TypeOK, taskVars
  <2>6. CASE HandleIo BY <2>6 DEF HandleIo, TypeOK, taskVars
  <2>7. CASE DoPendingFunctors BY <2>7 DEF DoPendingFunctors, TypeOK, taskVars
  <2>8. CASE SwapFunctors BY <2>8 DEF SwapFunctors, TypeOK
  <2>9. CASE RunFunctor
    <3>1. Head(functors) \in Functors /\ Tail(functors) \in Seq(Functors)
      BY <2>9, HeadTailProperties DEF RunFunctor, TypeOK
    <3>2. ran' \in Seq(Functors) /\ functors' \in Seq(Functors)
      BY <2>9, <3>1, AppendProperties DEF RunFunctor, TypeOK
    <3> QED BY <2>9, <3>2 DEF RunFunctor, TypeOK, taskVars
  <2>10. CASE FunctorsDone BY <2>10 DEF FunctorsDone, TypeOK, taskVars
  <2> QED
    BY <1>1, <2>1, <2>2, <2>3, <2>4, <2>5, <2>6, <2>7, <2>8, <2>9, <2>10 DEF LoopStep
<1>2. CASE PollTimeout BY <1>2 DEF PollTimeout, TypeOK, taskVars
<1>3. CASE Destroy BY <1>3 DEF Destroy, TypeOK, taskVars
<1>4. CASE LoopQueue
  <2>1. NextFunctor(LoopThread) \in Functors
    BY <1>4, NextFunctorFresh DEF LoopQueue
  <2>2. pendingFuntors' \in Seq(Functors)
    BY <1>4, <2>1, AppendProperties DEF LoopQueue, Emplace, TypeOK
  <2>3. handed' \in [Threads -> Nat] /\ \A t \in Threads : handed'[t] <= MaxTasks[t]
    BY <1>4, HandOver DEF LoopQueue
  <2>4. wakeupFd' \in Nat /\ initHanded' \in Nat
    BY <1>4 DEF LoopQueue, CountInit, TypeOK
  <2> QED BY <1>4, <2>2, <2>3, <2>4 DEF LoopQueue, TypeOK, loopVars
<1>5. CASE LoopRun
  <2>1. NextFunctor(LoopThread) \in Functors
    BY <1>5, NextFunctorFresh DEF LoopRun
  <2>2. ran' \in Seq(Functors)
    BY <1>5, <2>1, AppendProperties DEF LoopRun, TypeOK
  <2>3. handed' \in [Threads -> Nat] /\ \A t \in Threads : handed'[t] <= MaxTasks[t]
    BY <1>5, HandOver DEF LoopRun
  <2>4. initHanded' \in Nat
    BY <1>5 DEF LoopRun, CountInit, TypeOK
  <2> QED BY <1>5, <2>2, <2>3, <2>4 DEF LoopRun, TypeOK, loopVars
<1>6. CASE LoopQuit BY <1>6 DEF LoopQuit, TypeOK, loopVars, taskVars
<1>7. CASE UserReturn BY <1>7 DEF UserReturn, TypeOK, taskVars
<1>8. ASSUME NEW t \in Callers, CallerQueue(t) PROVE TypeOK'
  <2>1. NextFunctor(t) \in Functors
    BY <1>8, NextFunctorFresh DEF CallerQueue
  <2>2. pendingFuntors' \in Seq(Functors)
    BY <1>8, <2>1, AppendProperties DEF CallerQueue, Emplace, TypeOK
  <2>3. handed' \in [Threads -> Nat] /\ \A u \in Threads : handed'[u] <= MaxTasks[u]
    BY <1>8, HandOver DEF CallerQueue
  <2>4. caller' \in [Callers -> {"idle", "wake"}]
    BY <1>8 DEF CallerQueue, TypeOK
  <2> QED BY <1>8, <2>2, <2>3, <2>4 DEF CallerQueue, TypeOK, loopVars
<1>9. ASSUME NEW t \in Callers, CallerQuit(t) PROVE TypeOK'
  BY <1>9 DEF CallerQuit, TypeOK, loopVars, taskVars
<1>10. ASSUME NEW t \in Callers, CallerWakeup(t) PROVE TypeOK'
  <2>1. wakeupFd' \in Nat
    BY <1>10, wakeupFd \in Nat DEF CallerWakeup, TypeOK
  <2>2. caller' \in [Callers -> {"idle", "wake"}]
    BY <1>10 DEF CallerWakeup, TypeOK
  <2> QED BY <1>10, <2>1, <2>2 DEF CallerWakeup, TypeOK, loopVars, taskVars
<1>11. CASE IoArrives BY <1>11 DEF IoArrives, TypeOK, loopVars, taskVars
<1>12. CASE UNCHANGED vars BY <1>12 DEF vars, TypeOK
<1> QED
  BY <1>1, <1>2, <1>3, <1>4, <1>5, <1>6, <1>7, <1>8, <1>9, <1>10, <1>11, <1>12
  DEF Next, UserStep, CallerStep

\* The constructor starts within the types.
LEMMA TypeInit == Init => TypeOK
<1> SUFFICES ASSUME Init PROVE TypeOK
  OBVIOUS
<1>1. handed \in [Threads -> Nat] /\ \A t \in Threads : handed[t] <= MaxTasks[t]
  BY MaxTasksAssumption DEF Init
<1>2. caller \in [Callers -> {"idle", "wake"}]
  BY DEF Init
<1>4. wakeupFd \in Nat /\ initHanded \in Nat
  BY DEF Init
<1>5. /\ pendingFuntors \in Seq(Functors) /\ functors \in Seq(Functors)
      /\ ran \in Seq(Functors)
  BY EmptySeq DEF Init
<1> QED BY <1>1, <1>2, <1>4, <1>5, Zenon DEF Init, TypeOK

\* Types of EventLoop's members hold in every reachable state.
THEOREM TypeCorrect == Spec => []TypeOK
  BY TypeInit, TypeStep, PTL DEF Spec

-----------------------------------------------------------------------------
(***************************************************************************)
(* Wake-ups.  NoLostWakeup alone is not inductive: that a functor queueing *)
(* a functor wakes the loop rests on callingPendingFunctors_ being set     *)
(* exactly while the batch runs, that a callback does not need to wake it  *)
(* rests on callbacks running before the swap of the same iteration, and   *)
(* that only the ThreadInitCallback escapes rests on the count of what it  *)
(* handed over.                                                            *)
(***************************************************************************)
WakeupInv ==
  /\ TypeOK
  /\ callingPendingFunctors <=> pc \in {"swap", "functors"}
  /\ inUser => pc \in {"init", "handle", "functors"}
  /\ pc = "init" => initHanded = handed[LoopThread]
  /\ NoLostWakeup
  /\ NoLostQuit

\* The constructor establishes the invariant.
LEMMA WakeupInit == Init => WakeupInv
<1> SUFFICES ASSUME Init PROVE WakeupInv
  OBVIOUS
<1>1. TypeOK
  BY TypeInit
<1>2. ~NeedsWakeup
  BY DEF Init, NeedsWakeup
<1>3. initHanded = handed[LoopThread]
  BY DEF Init, Threads
<1> QED
  BY <1>1, <1>2, <1>3 DEF Init, WakeupInv, NoLostWakeup, NoLostQuit

\* Who needs a wake-up depends on nothing but the queue and the count.
LEMMA NeedsWakeupFrame ==
  ASSUME UNCHANGED <<pendingFuntors, initHanded>>
  PROVE  NeedsWakeup' <=> NeedsWakeup
  BY DEF NeedsWakeup, FromInit

\* Counting one more functor of the ThreadInitCallback only takes functors away
\* from those that need a wake-up.
LEMMA FewerNeedWakeup ==
  ASSUME TypeOK, initHanded' = initHanded + 1, UNCHANGED pendingFuntors
  PROVE  NeedsWakeup' => NeedsWakeup
<1> SUFFICES ASSUME NEW i \in 1..Len(pendingFuntors), FromInit(pendingFuntors[i])
             PROVE  FromInit(pendingFuntors[i])'
  BY DEF NeedsWakeup
<1>1. pendingFuntors[i] \in Functors
  BY ElementOfSeq DEF TypeOK
<1>2. PICK u \in Threads : pendingFuntors[i] \in {u} \X (1..MaxTasks[u])
  BY <1>1 DEF Functors
<1>3. pendingFuntors[i][2] \in Nat /\ initHanded \in Nat
  BY <1>2, MaxTasksAssumption DEF TypeOK
<1> QED BY <1>3 DEF FromInit

\* What a ThreadInitCallback queues does not make the queue need one.
LEMMA InitQueueSilent ==
  ASSUME TypeOK, pc = "init", initHanded = handed[LoopThread], LoopQueue
  PROVE  NeedsWakeup' => NeedsWakeup
<1> SUFFICES ASSUME NeedsWakeup' PROVE NeedsWakeup
  OBVIOUS
<1>1. /\ initHanded \in Nat /\ initHanded' = initHanded + 1
      /\ NextFunctor(LoopThread) = <<LoopThread, initHanded + 1>>
  BY DEF LoopQueue, CountInit, NextFunctor, TypeOK
<1>2. /\ pendingFuntors \in Seq(Functors) /\ NextFunctor(LoopThread) \in Functors
      /\ pendingFuntors' = Append(pendingFuntors, NextFunctor(LoopThread))
  BY NextFunctorFresh DEF LoopQueue, Emplace, TypeOK, Threads
<1>3. PICK i \in 1..Len(pendingFuntors') : ~FromInit(pendingFuntors[i])'
  BY DEF NeedsWakeup
<1>4. Len(pendingFuntors') = Len(pendingFuntors) + 1 /\ Len(pendingFuntors) \in Nat
      /\ pendingFuntors'[Len(pendingFuntors) + 1] = NextFunctor(LoopThread)
      /\ \A k \in 1..Len(pendingFuntors) : pendingFuntors'[k] = pendingFuntors[k]
  BY <1>2, AppendProperties, LenProperties
<1>5. i # Len(pendingFuntors) + 1
  BY <1>1, <1>3, <1>4 DEF FromInit
<1>6. i \in 1..Len(pendingFuntors) /\ pendingFuntors'[i] = pendingFuntors[i]
  BY <1>4, <1>5
<1>7. pendingFuntors[i][2] \in Nat
  <2>1. pendingFuntors[i] \in Functors
    BY <1>2, <1>6, ElementOfSeq
  <2>2. PICK u \in Threads : pendingFuntors[i] \in {u} \X (1..MaxTasks[u])
    BY <2>1 DEF Functors
  <2> QED BY <2>2, MaxTasksAssumption
<1>8. ~FromInit(pendingFuntors[i])
  BY <1>1, <1>3, <1>6, <1>7 DEF FromInit
<1> QED BY <1>6, <1>8 DEF NeedsWakeup

\* Every step of the loop thread and of its callers preserves it.
LEMMA WakeupStep == WakeupInv /\ [Next]_vars => WakeupInv'
<1> SUFFICES ASSUME WakeupInv, [Next]_vars PROVE WakeupInv'
  OBVIOUS
<1>t. TypeOK'
  BY TypeStep DEF WakeupInv
<1>s. LoopThread \in Threads /\ Callers \subseteq Threads /\ LoopThread \notin Callers
  BY CallersAssumption DEF Threads
<1> USE <1>t, NeedsWakeupFrame DEF WakeupInv, NoLostWakeup, NoLostQuit, WakeupComing
<1>1. CASE LoopEnter BY <1>1 DEF LoopEnter, taskVars
<1>2. CASE LoopTest BY <1>2 DEF LoopTest, taskVars
<1>3. CASE LoopExit BY <1>3 DEF LoopExit, taskVars
<1>4. CASE PollReturn BY <1>4 DEF PollReturn, taskVars
<1>5. CASE HandleRead BY <1>5 DEF HandleRead, taskVars
<1>6. CASE HandleIo BY <1>6 DEF HandleIo, taskVars
<1>7. CASE DoPendingFunctors BY <1>7 DEF DoPendingFunctors, taskVars
<1>8. CASE SwapFunctors
  <2>1. ~NeedsWakeup'
    BY <1>8 DEF SwapFunctors, NeedsWakeup
  <2> QED BY <1>8, <2>1 DEF SwapFunctors
<1>9. CASE RunFunctor BY <1>9 DEF RunFunctor, taskVars
<1>10. CASE FunctorsDone BY <1>10 DEF FunctorsDone, taskVars
<1>11. CASE PollTimeout BY <1>11 DEF PollTimeout, taskVars
<1>12. CASE Destroy BY <1>12 DEF Destroy, taskVars
<1>13. CASE LoopQueue
  <2>1. CASE pc = "functors"
    <3>1. wakeupFd' > 0
      BY <1>13, <2>1 DEF LoopQueue, WakesItself, TypeOK
    <3> QED BY <1>13, <2>1, <3>1 DEF LoopQueue, loopVars
  <2>2. CASE pc = "handle"
    BY <1>13, <2>2 DEF LoopQueue, loopVars
  <2>3. CASE pc = "init"
    <3>1. NeedsWakeup' => NeedsWakeup
      BY <1>13, <2>3, InitQueueSilent
    <3>2. initHanded' = handed'[LoopThread]
      BY <1>13, <2>3, <1>s DEF LoopQueue, CountInit, TypeOK
    <3> QED BY <1>13, <2>3, <3>1, <3>2 DEF LoopQueue, WakesItself, loopVars
  <2> QED BY <1>13, <2>1, <2>2, <2>3 DEF LoopQueue
<1>14. CASE LoopRun
  <2>1. CASE pc = "init"
    <3>1. initHanded' = handed'[LoopThread] /\ initHanded' = initHanded + 1
      BY <1>14, <2>1, <1>s DEF LoopRun, CountInit, TypeOK
    <3>2. NeedsWakeup' => NeedsWakeup
      BY <1>14, <3>1, FewerNeedWakeup DEF LoopRun
    <3> QED BY <1>14, <2>1, <3>1, <3>2 DEF LoopRun, loopVars
  <2>2. CASE pc # "init"
    BY <1>14, <2>2 DEF LoopRun, CountInit, loopVars
  <2> QED BY <2>1, <2>2
<1>15. CASE LoopQuit BY <1>15 DEF LoopQuit, loopVars, taskVars
<1>16. CASE UserReturn BY <1>16 DEF UserReturn, taskVars
<1>17. ASSUME NEW t \in Callers, CallerQueue(t) PROVE WakeupInv'
  <2>1. caller'[t] = "wake" /\ handed'[LoopThread] = handed[LoopThread]
    BY <1>17, <1>s DEF CallerQueue, TypeOK
  <2> QED BY <1>17, <2>1 DEF CallerQueue, loopVars
<1>18. ASSUME NEW t \in Callers, CallerQuit(t) PROVE WakeupInv'
  <2>1. caller'[t] = "wake"
    BY <1>18 DEF CallerQuit, TypeOK
  <2> QED BY <1>18, <2>1 DEF CallerQuit, loopVars, taskVars
<1>19. ASSUME NEW t \in Callers, CallerWakeup(t) PROVE WakeupInv'
  <2>1. CASE pc = "destroyed"
    BY <1>19, <2>1 DEF CallerWakeup, loopVars, taskVars
  <2>2. CASE pc # "destroyed"
    <3>1. wakeupFd' > 0
      BY <1>19, <2>2 DEF CallerWakeup, TypeOK
    <3> QED BY <1>19, <3>1 DEF CallerWakeup, loopVars, taskVars
  <2> QED BY <2>1, <2>2
<1>20. CASE IoArrives BY <1>20 DEF IoArrives, loopVars, taskVars
<1>21. CASE UNCHANGED vars BY <1>21 DEF vars
<1> QED
  BY <1>1, <1>2, <1>3, <1>4, <1>5, <1>6, <1>7, <1>8, <1>9, <1>10, <1>11, <1>12, <1>13,
     <1>14, <1>15, <1>16, <1>17, <1>18, <1>19, <1>20, <1>21
  DEF Next, LoopStep, UserStep, CallerStep

\* EventLoop.cc 96-107: a loop never sleeps on top of queued functors, those
\* of its ThreadInitCallback excepted.
THEOREM NoWakeupIsLost == Spec => []NoLostWakeup
<1>1. WakeupInv => NoLostWakeup
  BY DEF WakeupInv
<1> QED
  BY <1>1, WakeupInit, WakeupStep, PTL DEF Spec

\* EventLoop.cc 76-83: nor on top of a quit().
THEOREM NoQuitIsLost == Spec => []NoLostQuit
<1>1. WakeupInv => NoLostQuit
  BY DEF WakeupInv
<1> QED
  BY <1>1, WakeupInit, WakeupStep, PTL DEF Spec

-----------------------------------------------------------------------------
(***************************************************************************)
(* Refinement: the abstract queue is what is left of the batch followed by *)
(* what is pending.  The swap is invisible because the batch is empty then.*)
(***************************************************************************)
BatchInv == TypeOK /\ (functors # <<>> => pc = "functors")

\* Only doPendingFunctors() has functors in its local vector.
LEMMA BatchStep == BatchInv /\ [Next]_vars => BatchInv'
<1> SUFFICES ASSUME BatchInv, [Next]_vars PROVE BatchInv'
  OBVIOUS
<1>1. TypeOK'
  BY TypeStep DEF BatchInv
<1>2. functors' # <<>> => pc' = "functors"
  BY DEF BatchInv, Next, vars, LoopStep, UserStep, CallerStep, LoopEnter, LoopTest,
     LoopExit, PollReturn, HandleRead, HandleIo, DoPendingFunctors, SwapFunctors,
     RunFunctor, FunctorsDone, PollTimeout, Destroy, LoopQueue, LoopRun, LoopQuit,
     UserReturn, CallerQueue, CallerQuit, CallerWakeup, IoArrives, loopVars
<1> QED BY <1>1, <1>2 DEF BatchInv

\* Queueing at the end of pendingFuntors_ is queueing at the end of the queue.
LEMMA AppendToQueue ==
  ASSUME NEW S, NEW s \in Seq(S), NEW p \in Seq(S), NEW f \in S
  PROVE  s \o Append(p, f) = Append(s \o p, f)
<1>1. Append(p, f) = p \o <<f>> /\ <<f>> \in Seq(S)
  BY AppendIsConcat
<1>2. s \o p \in Seq(S)
  BY ConcatProperties
<1>3. Append(s \o p, f) = (s \o p) \o <<f>>
  BY <1>2, AppendIsConcat
<1> QED
  BY <1>1, <1>3, ConcatAssociative

\* Taking the head of the batch is taking the head of the queue.
LEMMA HeadOfQueue ==
  ASSUME NEW S, NEW s \in Seq(S), NEW p \in Seq(S), s # <<>>
  PROVE  /\ s \o p # <<>>
         /\ Head(s \o p) = Head(s)
         /\ Tail(s \o p) = Tail(s) \o p
<1>1. s \o p \in Seq(S) /\ Len(s) \in Nat \ {0} /\ Len(p) \in Nat
      /\ Len(s \o p) = Len(s) + Len(p)
  BY ConcatProperties, EmptySeq, LenProperties
<1>2. s \o p # <<>>
  BY <1>1, EmptySeq
<1>3. Head(s \o p) = Head(s)
  BY <1>1, <1>2, ConcatProperties
<1>4. Tail(s \o p) \in Seq(S) /\ Tail(s) \o p \in Seq(S)
      /\ Len(Tail(s \o p)) = Len(s) + Len(p) - 1
      /\ Len(Tail(s) \o p) = Len(s) + Len(p) - 1
  BY <1>1, <1>2, HeadTailProperties, ConcatProperties
<1>5. ASSUME NEW i \in 1..(Len(s) + Len(p) - 1)
      PROVE  Tail(s \o p)[i] = (Tail(s) \o p)[i]
  <2>1. Tail(s \o p)[i] = (s \o p)[i + 1]
    BY <1>1, <1>2, <1>4, HeadTailProperties
  <2>2. (s \o p)[i + 1] = IF i + 1 <= Len(s) THEN s[i + 1] ELSE p[i + 1 - Len(s)]
    BY <1>1, ConcatProperties
  <2>3. Tail(s) \in Seq(S) /\ Len(Tail(s)) = Len(s) - 1
    BY HeadTailProperties
  <2>4. (Tail(s) \o p)[i] = IF i <= Len(s) - 1 THEN Tail(s)[i] ELSE p[i - (Len(s) - 1)]
    BY <1>1, <2>3, ConcatProperties
  <2>5. i <= Len(s) - 1 => Tail(s)[i] = s[i + 1]
    BY <1>1, <2>3, HeadTailProperties
  <2> QED BY <1>1, <2>1, <2>2, <2>4, <2>5
<1>6. Tail(s \o p) = Tail(s) \o p
  BY <1>4, <1>5, SeqEqual
<1> QED BY <1>2, <1>3, <1>6

\* Handing over the next functor of t adds exactly that one to the history.
LEMMA SubmittedGrows ==
  ASSUME TypeOK, NEW t \in Threads, CanSubmit(t),
         handed' = [handed EXCEPT ![t] = @ + 1]
  PROVE  submitted' = submitted \cup {NextFunctor(t)}
<1>1. handed \in [Threads -> Nat] /\ handed[t] \in Nat
  BY DEF TypeOK
<1>2. NextFunctor(t) \in Functors
  BY NextFunctorFresh
<1>3. ASSUME NEW f \in Functors
      PROVE  f[2] <= handed'[f[1]] <=> f[2] <= handed[f[1]] \/ f = NextFunctor(t)
  <2>1. PICK u \in Threads : f \in {u} \X (1..MaxTasks[u])
    BY DEF Functors
  <2>2. f = <<f[1], f[2]>> /\ f[1] = u /\ f[2] \in 1..MaxTasks[u] /\ MaxTasks[u] \in Nat
    BY <2>1, MaxTasksAssumption
  <2>3. handed[u] \in Nat /\ handed'[u] = IF u = t THEN handed[u] + 1 ELSE handed[u]
    BY <1>1
  <2>4. CASE u = t
    <3>1. f[2] <= handed'[u] <=> f[2] <= handed[u] \/ f[2] = handed[u] + 1
      BY <2>2, <2>3, <2>4
    <3>2. f = NextFunctor(t) <=> f[2] = handed[u] + 1
      BY <2>2, <2>4 DEF NextFunctor
    <3> QED BY <2>2, <3>1, <3>2
  <2>5. CASE u # t
    <3>1. f # NextFunctor(t)
      BY <2>2, <2>5 DEF NextFunctor
    <3> QED BY <2>2, <2>3, <2>5, <3>1
  <2> QED BY <2>4, <2>5
<1> QED
  BY <1>2, <1>3 DEF submitted

\* A step that leaves queue, history and batch alone is a stutter.
LEMMA QueueStutter ==
  ASSUME UNCHANGED <<pendingFuntors, functors, handed, ran>>
  PROVE  UNCHANGED Abstract!vars
  BY DEF Abstract!vars, submitted

\* Every step of EventLoop is a step of FunctorQueue or a stutter.
LEMMA QueueStep == BatchInv /\ [Next]_vars => [Abstract!Next]_Abstract!vars
<1> SUFFICES ASSUME BatchInv, [Next]_vars PROVE [Abstract!Next]_Abstract!vars
  OBVIOUS
<1> LoopThread \in Threads /\ Callers \subseteq Threads
  BY DEF Threads
<1>1. functors \in Seq(Functors) /\ pendingFuntors \in Seq(Functors) /\ TypeOK
  BY DEF BatchInv, TypeOK
<1>2. CASE RunFunctor
  <2>1. Abstract!RunHead
    BY <1>1, <1>2, HeadOfQueue DEF RunFunctor, Abstract!RunHead, submitted, taskVars
  <2> QED BY <2>1 DEF Abstract!Next
<1>3. CASE SwapFunctors
  <2>1. functors = <<>>
    BY <1>3 DEF SwapFunctors, BatchInv
  <2>2. functors' \o pendingFuntors' = functors \o pendingFuntors
    BY <1>1, <1>3, <2>1, ConcatEmptySeq DEF SwapFunctors
  <2> QED BY <1>3, <2>2 DEF SwapFunctors, Abstract!vars, submitted
<1>4. CASE LoopQueue
  <2> DEFINE f == NextFunctor(LoopThread)
  <2>1. f \in Functors /\ f \notin submitted
    BY <1>1, <1>4, NextFunctorFresh DEF LoopQueue
  <2>2. submitted' = submitted \cup {f}
    BY <1>1, <1>4, SubmittedGrows DEF LoopQueue
  <2>3. functors' \o pendingFuntors' = Append(functors \o pendingFuntors, f)
    BY <1>1, <1>4, <2>1, AppendToQueue DEF LoopQueue, Emplace, loopVars
  <2>4. Abstract!Submit(f)
    BY <1>4, <2>1, <2>2, <2>3 DEF LoopQueue, Abstract!Submit
  <2> QED BY <2>1, <2>4 DEF Abstract!Next
<1>5. CASE LoopRun
  <2> DEFINE f == NextFunctor(LoopThread)
  <2>1. f \in Functors /\ f \notin submitted
    BY <1>1, <1>5, NextFunctorFresh DEF LoopRun
  <2>2. submitted' = submitted \cup {f}
    BY <1>1, <1>5, SubmittedGrows DEF LoopRun
  <2>3. Abstract!RunDirect(f)
    BY <1>5, <2>1, <2>2 DEF LoopRun, Abstract!RunDirect, loopVars
  <2> QED BY <2>1, <2>3 DEF Abstract!Next
<1>6. ASSUME NEW t \in Callers, CallerQueue(t) PROVE Abstract!Next
  <2> DEFINE f == NextFunctor(t)
  <2>1. f \in Functors /\ f \notin submitted
    BY <1>1, <1>6, NextFunctorFresh DEF CallerQueue
  <2>2. submitted' = submitted \cup {f}
    BY <1>1, <1>6, SubmittedGrows DEF CallerQueue
  <2>3. functors' \o pendingFuntors' = Append(functors \o pendingFuntors, f)
    BY <1>1, <1>6, <2>1, AppendToQueue DEF CallerQueue, Emplace, loopVars
  <2>4. Abstract!Submit(f)
    BY <1>6, <2>1, <2>2, <2>3 DEF CallerQueue, Abstract!Submit
  <2> QED BY <2>1, <2>4 DEF Abstract!Next
<1>7. CASE \/ LoopEnter \/ LoopTest \/ LoopExit \/ PollReturn \/ HandleRead \/ HandleIo
           \/ DoPendingFunctors \/ FunctorsDone \/ PollTimeout \/ Destroy
           \/ LoopQuit \/ UserReturn \/ IoArrives \/ UNCHANGED vars
           \/ \E t \in Callers : CallerQuit(t) \/ CallerWakeup(t)
  <2>1. UNCHANGED <<pendingFuntors, functors, handed, ran>>
    BY <1>7 DEF LoopEnter, LoopTest, LoopExit, PollReturn, HandleRead, HandleIo,
       DoPendingFunctors, FunctorsDone, PollTimeout, Destroy, LoopQuit, UserReturn,
       IoArrives, CallerQuit, CallerWakeup, loopVars, taskVars, vars
  <2> QED BY <2>1, QueueStutter
<1> QED
  BY <1>2, <1>3, <1>4, <1>5, <1>6, <1>7 DEF Next, LoopStep, UserStep, CallerStep

\* EventLoop.cc 85-107 and 132-146: EventLoop implements FunctorQueue, for
\* every set of threads and every number of functors.
THEOREM ImplementsFunctorQueue == Spec => AbstractQueue
<1>1. Init => BatchInv
  BY TypeInit DEF Init, BatchInv
<1>2. Init => Abstract!Init
  <2> SUFFICES ASSUME Init PROVE Abstract!Init
    OBVIOUS
  <2>1. \A f \in Functors : ~(f[2] <= handed[f[1]])
    BY MaxTasksAssumption DEF Init, Functors
  <2>2. functors \o pendingFuntors = <<>>
    BY ConcatEmptySeq, EmptySeq DEF Init
  <2> QED BY <2>1, <2>2 DEF Init, Abstract!Init, submitted
<1> QED
  BY <1>1, <1>2, BatchStep, QueueStep, PTL DEF Spec, AbstractQueue, Abstract!Spec
=============================================================================
