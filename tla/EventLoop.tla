----------------------------- MODULE EventLoop ------------------------------
(***************************************************************************)
(* One EventLoop (EventLoop.h, EventLoop.cc), the thread that runs it and  *)
(* the other threads that call queueInloop(), runInloop() and quit() on    *)
(* it.  The loop thread creates the EventLoop on its stack, may run a      *)
(* ThreadInitCallback, publishes the pointer, calls loop() and destroys    *)
(* the EventLoop when loop() returns (EventLoopThread::threadFunc).        *)
(*                                                                         *)
(* A functor is <<t, n>>: the n-th one that thread t handed over.  Steps   *)
(* are what another thread can observe: the mutex section of queueInloop() *)
(* and the write to the eventfd in wakeup() are two steps of a caller, so  *)
(* the loop can do anything in between.                                    *)
(***************************************************************************)
EXTENDS Integers, Sequences

CONSTANTS Callers,        \* threads other than the loop's own
          LoopThread,     \* the thread whose id is threadId_
          MaxTasks        \* bound: MaxTasks[t] functors are handed over by t

ASSUME CallersAssumption == LoopThread \notin Callers

Threads == Callers \cup {LoopThread}

ASSUME MaxTasksAssumption == MaxTasks \in [Threads -> Nat]

Functors == UNION {{t} \X (1..MaxTasks[t]) : t \in Threads}

VARIABLES
  pc,                     \* where the loop thread is (see TypeOK)
  inUser,                 \* the loop thread is inside a user callback
  looping,                \* looping_
  quit,                   \* quit_
  callingPendingFunctors, \* callingPendingFunctors_
  pendingFuntors,         \* pendingFuntors_, guarded by mutex_
  functors,               \* local vector of doPendingFunctors(), what is left
  wakeupFd,               \* counter of the eventfd
  ioReady,                \* some other channel of this loop is readable
  activeChannels,         \* activeChannels_ not handled yet
  caller,                 \* caller[t]: "idle", or "wake": about to wakeup()
  handed,                 \* history: handed[t], functors thread t handed over
  ran,                    \* history: functors run, in order
  quitCalled,             \* history: threads that called quit()
  initHanded              \* history: functors the ThreadInitCallback handed over

loopVars == <<pc, inUser, looping, callingPendingFunctors, functors, activeChannels>>
taskVars == <<pendingFuntors, handed>>
vars == <<pc, inUser, looping, quit, callingPendingFunctors, pendingFuntors,
          functors, wakeupFd, ioReady, activeChannels, caller, handed, ran,
          quitCalled, initHanded>>

\* One of the checked properties: every variable keeps its type, and the
\* eventfd counter in particular never leaves the naturals.
TypeOK ==
  /\ pc \in {"init", "test", "poll", "handle", "swap", "functors",
             "exited", "destroyed"}
  /\ inUser \in BOOLEAN
  /\ looping \in BOOLEAN
  /\ quit \in BOOLEAN
  /\ callingPendingFunctors \in BOOLEAN
  /\ pendingFuntors \in Seq(Functors)
  /\ functors \in Seq(Functors)
  /\ wakeupFd \in Nat
  /\ ioReady \in BOOLEAN
  /\ activeChannels \subseteq {"wakeup", "io"}
  /\ caller \in [Callers -> {"idle", "wake"}]
  /\ handed \in [Threads -> Nat]
  /\ \A t \in Threads : handed[t] <= MaxTasks[t]
  /\ ran \in Seq(Functors)
  /\ quitCalled \subseteq Threads
  /\ initHanded \in Nat

\* EventLoop::EventLoop(); threadFunc then calls callback_, if there is one
\* (no callback_ is one that returns at once).
Init ==
  /\ pc = "init"
  /\ inUser = TRUE
  /\ looping = FALSE
  /\ quit = FALSE
  /\ callingPendingFunctors = FALSE
  /\ pendingFuntors = <<>>
  /\ functors = <<>>
  /\ wakeupFd = 0
  /\ ioReady = FALSE
  /\ activeChannels = {}
  /\ caller = [t \in Callers |-> "idle"]
  /\ handed = [t \in Threads |-> 0]
  /\ ran = <<>>
  /\ quitCalled = {}
  /\ initHanded = 0

-----------------------------------------------------------------------------
(* Pieces of the operations, one per idea. *)

\* Thread t hands over its functors in the order 1, 2, ...
NextFunctor(t) == <<t, handed[t] + 1>>

CanSubmit(t) == handed[t] < MaxTasks[t]

\* queueInloop(): emplace_back under mutex_.
Emplace(f) == pendingFuntors' = Append(pendingFuntors, f)

\* Fault: line 103 without "|| callingPendingFunctors_".
NeverWakesItself == FALSE

\* queueInloop() on the loop thread wakes the loop only while the loop is
\* inside doPendingFunctors(); elsewhere the functor is still picked up in
\* this iteration.
WakesItself == callingPendingFunctors

\* The wait of EpollPoller::poll(): channels that epoll_wait() reports.
Ready == {c \in {"wakeup", "io"} : \/ c = "wakeup" /\ wakeupFd > 0
                                   \/ c = "io" /\ ioReady}

\* startLoop() hands the pointer out only after callback_ has returned.
Published == ~(pc = "init" /\ inUser) /\ pc # "destroyed"

-----------------------------------------------------------------------------
(* The loop thread: EventLoop::loop(). *)

LoopEnter ==
  /\ pc = "init" /\ ~inUser
  /\ pc' = "test"
  /\ looping' = TRUE
  /\ quit' = FALSE
  /\ UNCHANGED <<inUser, callingPendingFunctors, functors, activeChannels, taskVars,
                 wakeupFd, ioReady, caller, ran, quitCalled, initHanded>>

\* while (!quit_): another iteration starts with an empty activeChannels_.
LoopTest ==
  /\ pc = "test" /\ ~quit
  /\ pc' = "poll"
  /\ activeChannels' = {}
  /\ UNCHANGED <<inUser, looping, callingPendingFunctors, functors, quit, taskVars,
                 wakeupFd, ioReady, caller, ran, quitCalled, initHanded>>

LoopExit ==
  /\ pc = "test" /\ quit
  /\ pc' = "exited"
  /\ looping' = FALSE
  /\ UNCHANGED <<inUser, callingPendingFunctors, functors, activeChannels, quit, taskVars,
                 wakeupFd, ioReady, caller, ran, quitCalled, initHanded>>

\* epoll_wait() returns because some channel is ready ...
PollReturn ==
  /\ pc = "poll" /\ Ready # {}
  /\ pc' = "handle"
  /\ activeChannels' = Ready
  /\ UNCHANGED <<inUser, looping, callingPendingFunctors, functors, quit, taskVars,
                 wakeupFd, ioReady, caller, ran, quitCalled, initHanded>>

\* ... or because kPollerTimeMs passed.
PollTimeout ==
  /\ pc = "poll" /\ Ready = {}
  /\ pc' = "handle"
  /\ UNCHANGED <<inUser, looping, callingPendingFunctors, functors, activeChannels, quit,
                 taskVars, wakeupFd, ioReady, caller, ran, quitCalled, initHanded>>

\* EventLoop::handleRead(): one 8 byte read empties the eventfd.
HandleRead ==
  /\ pc = "handle" /\ ~inUser /\ "wakeup" \in activeChannels
  /\ activeChannels' = activeChannels \ {"wakeup"}
  /\ wakeupFd' = 0
  /\ UNCHANGED <<pc, inUser, looping, callingPendingFunctors, functors, quit, taskVars,
                 ioReady, caller, ran, quitCalled, initHanded>>

\* Any other channel: its callback consumes the event and is user code.
HandleIo ==
  /\ pc = "handle" /\ ~inUser /\ "io" \in activeChannels
  /\ activeChannels' = activeChannels \ {"io"}
  /\ ioReady' = FALSE
  /\ inUser' = TRUE
  /\ UNCHANGED <<pc, looping, callingPendingFunctors, functors, quit, taskVars,
                 wakeupFd, caller, ran, quitCalled, initHanded>>

\* doPendingFunctors() starts.
DoPendingFunctors ==
  /\ pc = "handle" /\ ~inUser /\ activeChannels = {}
  /\ pc' = "swap"
  /\ callingPendingFunctors' = TRUE
  /\ UNCHANGED <<inUser, looping, functors, activeChannels, quit, taskVars,
                 wakeupFd, ioReady, caller, ran, quitCalled, initHanded>>

\* Fault: the vector is copied instead of swapped.
CopyFunctors ==
  /\ pc = "swap"
  /\ pc' = "functors"
  /\ functors' = pendingFuntors
  /\ UNCHANGED <<inUser, looping, callingPendingFunctors, activeChannels, quit, taskVars,
                 wakeupFd, ioReady, caller, ran, quitCalled, initHanded>>

\* The mutex section: functors.swap(pendingFuntors_).
SwapFunctors ==
  /\ pc = "swap"
  /\ pc' = "functors"
  /\ functors' = pendingFuntors
  /\ pendingFuntors' = <<>>
  /\ UNCHANGED <<inUser, looping, callingPendingFunctors, activeChannels, quit, handed,
                 wakeupFd, ioReady, caller, ran, quitCalled, initHanded>>

RunFunctor ==
  /\ pc = "functors" /\ ~inUser /\ functors # <<>>
  /\ functors' = Tail(functors)
  /\ ran' = Append(ran, Head(functors))
  /\ inUser' = TRUE
  /\ UNCHANGED <<pc, looping, callingPendingFunctors, activeChannels, quit, taskVars,
                 wakeupFd, ioReady, caller, quitCalled, initHanded>>

FunctorsDone ==
  /\ pc = "functors" /\ ~inUser /\ functors = <<>>
  /\ pc' = "test"
  /\ callingPendingFunctors' = FALSE
  /\ UNCHANGED <<inUser, looping, functors, activeChannels, quit, taskVars,
                 wakeupFd, ioReady, caller, ran, quitCalled, initHanded>>

\* EventLoop::~EventLoop() when threadFunc returns: wakeupFd_ is closed.  The
\* queue dies with the object; the variable keeps what was never run.
Destroy ==
  /\ pc = "exited"
  /\ pc' = "destroyed"
  /\ wakeupFd' = 0
  /\ UNCHANGED <<inUser, looping, callingPendingFunctors, functors, activeChannels, quit,
                 taskVars, ioReady, caller, ran, quitCalled, initHanded>>

-----------------------------------------------------------------------------
(* User code on the loop thread: the body of a callback or of a functor.   *)

\* Counts what is handed over before loop().
CountInit ==
  initHanded' = IF pc = "init" THEN initHanded + 1 ELSE initHanded

\* queueInloop() with isInLoopThread().
LoopQueue ==
  /\ inUser /\ CanSubmit(LoopThread)
  /\ Emplace(NextFunctor(LoopThread))
  /\ handed' = [handed EXCEPT ![LoopThread] = @ + 1]
  /\ wakeupFd' = IF WakesItself THEN wakeupFd + 1 ELSE wakeupFd
  /\ CountInit
  /\ UNCHANGED <<loopVars, quit, ioReady, caller, ran, quitCalled>>

\* runInloop() with isInLoopThread(): the functor runs now.
LoopRun ==
  /\ inUser /\ CanSubmit(LoopThread)
  /\ ran' = Append(ran, NextFunctor(LoopThread))
  /\ handed' = [handed EXCEPT ![LoopThread] = @ + 1]
  /\ CountInit
  /\ UNCHANGED <<loopVars, quit, pendingFuntors, wakeupFd, ioReady, caller, quitCalled>>

\* quit() with isInLoopThread(): no wakeup().
LoopQuit ==
  /\ inUser
  /\ quit' = TRUE
  /\ quitCalled' = quitCalled \cup {LoopThread}
  /\ UNCHANGED <<loopVars, taskVars, wakeupFd, ioReady, caller, ran, initHanded>>

UserReturn ==
  /\ inUser
  /\ inUser' = FALSE
  /\ UNCHANGED <<pc, looping, callingPendingFunctors, functors, activeChannels, quit,
                 taskVars, wakeupFd, ioReady, caller, ran, quitCalled, initHanded>>

-----------------------------------------------------------------------------
(* Other threads. *)

\* queueInloop(), or runInloop() which calls it, up to the end of the mutex
\* section.
CallerQueue(t) ==
  /\ Published /\ caller[t] = "idle" /\ CanSubmit(t)
  /\ Emplace(NextFunctor(t))
  /\ handed' = [handed EXCEPT ![t] = @ + 1]
  /\ caller' = [caller EXCEPT ![t] = "wake"]
  /\ UNCHANGED <<loopVars, quit, wakeupFd, ioReady, ran, quitCalled, initHanded>>

\* Fault: quit() without the wakeup().
CallerQuitSilently(t) ==
  /\ Published /\ caller[t] = "idle" /\ t \notin quitCalled
  /\ quit' = TRUE
  /\ quitCalled' = quitCalled \cup {t}
  /\ UNCHANGED <<loopVars, taskVars, wakeupFd, ioReady, caller, ran, initHanded>>

\* quit() up to the test of isInLoopThread().
CallerQuit(t) ==
  /\ Published /\ caller[t] = "idle" /\ t \notin quitCalled
  /\ quit' = TRUE
  /\ quitCalled' = quitCalled \cup {t}
  /\ caller' = [caller EXCEPT ![t] = "wake"]
  /\ UNCHANGED <<loopVars, taskVars, wakeupFd, ioReady, ran, initHanded>>

\* wakeup(): the write to wakeupFd_.  After quit() the loop thread may already
\* have left loop() and destroyed the EventLoop; the descriptor is closed then.
CallerWakeup(t) ==
  /\ caller[t] = "wake"
  /\ caller' = [caller EXCEPT ![t] = "idle"]
  /\ wakeupFd' = IF pc = "destroyed" THEN wakeupFd ELSE wakeupFd + 1
  /\ UNCHANGED <<loopVars, quit, taskVars, ioReady, ran, quitCalled, initHanded>>

\* The kernel makes another channel readable.
IoArrives ==
  /\ ~ioReady /\ pc # "destroyed"
  /\ ioReady' = TRUE
  /\ UNCHANGED <<loopVars, quit, taskVars, wakeupFd, caller, ran, quitCalled, initHanded>>

-----------------------------------------------------------------------------
LoopStep ==
  \/ LoopEnter \/ LoopTest \/ LoopExit \/ PollReturn
  \/ HandleRead \/ HandleIo \/ DoPendingFunctors
  \/ SwapFunctors \/ RunFunctor \/ FunctorsDone

UserStep == LoopQueue \/ LoopRun \/ LoopQuit \/ UserReturn

CallerStep(t) == CallerQueue(t) \/ CallerQuit(t) \/ CallerWakeup(t)

Next ==
  \/ LoopStep \/ PollTimeout \/ Destroy
  \/ UserStep
  \/ \E t \in Callers : CallerStep(t)
  \/ IoArrives

Spec == Init /\ [][Next]_vars

(***************************************************************************)
(* The loop thread keeps running, user callbacks return, and a caller      *)
(* inside queueInloop() or quit() reaches its wakeup().  The timeout of    *)
(* epoll_wait() is not assumed to fire: what is promised must not depend   *)
(* on waiting 10 seconds.                                                  *)
(***************************************************************************)
Fairness ==
  /\ WF_vars(LoopStep)
  /\ WF_vars(UserReturn)
  /\ \A t \in Callers : WF_vars(CallerWakeup(t))

FairSpec == Spec /\ Fairness

-----------------------------------------------------------------------------
(* Properties *)

WakeupComing == wakeupFd > 0 \/ \E t \in Callers : caller[t] = "wake"

\* The functors a ThreadInitCallback queues run before loop(), so nobody wakes
\* the loop for them: they wait for the poll timeout or the next event.
FromInit(f) == f[1] = LoopThread /\ f[2] <= initHanded

NeedsWakeup == \E i \in 1..Len(pendingFuntors) : ~FromInit(pendingFuntors[i])

\* EventLoop.cc 96-107: whenever functors are queued and the loop thread is
\* past the point of this iteration where it would pick them up, the eventfd
\* is readable or the thread that queued is about to make it readable, so
\* the loop cannot go to sleep in poll() on top of pending work.  The one
\* exception is a queue that holds nothing but what the ThreadInitCallback
\* left there, which line 103 does not wake for.
NoLostWakeup ==
  NeedsWakeup /\ pc \in {"init", "test", "poll", "functors"} => WakeupComing

\* EventLoop.cc 76-83: a quit() that arrives while the loop sleeps in poll()
\* is followed by a wakeup.
NoLostQuit == quit /\ pc = "poll" => WakeupComing

submitted == {f \in Functors : f[2] <= handed[f[1]]}

Abstract == INSTANCE FunctorQueue WITH queue <- functors \o pendingFuntors

\* EventLoop.cc 85-107 and 132-146: EventLoop implements FunctorQueue, so a
\* queued functor runs at most once and in queue order, across the swap of
\* the two vectors and whatever the functors themselves queue.
AbstractQueue == Abstract!Spec

Stopped == pc \in {"exited", "destroyed"}

\* EventLoop.cc 57-107: every functor handed over is run, without waiting for
\* the poll timeout, unless loop() returns first (again but for those of the
\* ThreadInitCallback).
EveryFunctorRuns ==
  \A f \in Functors :
    f \in submitted /\ ~FromInit(f) ~> (Stopped \/ \E i \in 1..Len(ran) : ran[i] = f)

\* EventLoop.cc 57-83: a running loop that is told to quit() returns from
\* loop(), without waiting for the poll timeout.
QuitStopsLoop == looping /\ quit ~> ~looping

=============================================================================
