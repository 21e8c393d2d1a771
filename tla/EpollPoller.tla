---------------------------- MODULE EpollPoller -----------------------------
(***************************************************************************)
(* Channels, the poller that registers them and the kernel's epoll set:    *)
(* Channel.h, Channel.cc, Poller.cc, EpollPoller.cc.  The same facts are   *)
(* kept in three places: the channel (events_, index_), the poller's map   *)
(* (channels_) and the kernel (the interest list, external).  Everything   *)
(* here happens on the thread of the owning loop, in any order the users   *)
(* of Channel like; what has to hold is that the three never disagree,     *)
(* also when file descriptors are closed and given out again.              *)
(***************************************************************************)
EXTENDS Integers, FiniteSets

CONSTANTS Channels,            \* Channel objects
          Fds,                 \* file descriptors
          None,                \* no channel, no descriptor
          InitEventListSize,   \* kInitEventListSize
          Readiness            \* bound: what can be ready on a descriptor

ASSUME NoneAssumption == None \notin Channels /\ None \notin Fds
ASSUME EventListAssumption == InitEventListSize \in Nat \ {0}

kNew == -1
kAdded == 1
kDeleted == 2

\* kReadEvent (EPOLLIN | EPOLLPRI) and kWriteEvent (EPOLLOUT).
Interest == {"read", "write"}

\* What the kernel can report; EPOLLERR and EPOLLHUP are not asked for.
Reports == Interest \cup {"hup"}

ASSUME ReadinessAssumption == Readiness \subseteq SUBSET Reports

VARIABLES
  fd,             \* fd_ of each existing Channel, None if it does not exist
  events,         \* events_
  revents,        \* revents_ of a channel still to be handled, else {}
  index,          \* index_
  channels,       \* Poller::channels_, from descriptors to channels
  epollPtr,       \* external: data.ptr of each registered descriptor
  epollMask,      \* external: its event mask
  ready,          \* external: what is ready on each descriptor
  eventListSize,  \* events_.size()
  ctlErrors       \* history: operations on which epoll_ctl() failed

chanVars == <<fd, events, index, channels, epollPtr, epollMask, ctlErrors>>
pollVars == <<revents, eventListSize>>
vars == <<fd, events, revents, index, channels, epollPtr, epollMask, ready,
          eventListSize, ctlErrors>>

\* EventLoop::activeChannels_, what is left of it in this iteration: those
\* are the channels whose revents_ will still be looked at.
activeChannels == {c \in Channels : revents[c] # {}}

\* Types; epoll_wait() is never called with an empty event list.
TypeOK ==
  /\ fd \in [Channels -> Fds \cup {None}]
  /\ events \in [Channels -> SUBSET Interest]
  /\ revents \in [Channels -> SUBSET Reports]
  /\ index \in [Channels -> {kNew, kAdded, kDeleted}]
  /\ channels \in [Fds -> Channels \cup {None}]
  /\ epollPtr \in [Fds -> Channels \cup {None}]
  /\ epollMask \in [Fds -> SUBSET Interest]
  /\ ready \in [Fds -> SUBSET Reports]
  /\ eventListSize \in Nat \ {0}
  /\ ctlErrors \subseteq {"ADD", "MOD", "DEL"}

\* EpollPoller::EpollPoller(): nothing is registered.
Init ==
  /\ fd = [c \in Channels |-> None]
  /\ events = [c \in Channels |-> {}]
  /\ revents = [c \in Channels |-> {}]
  /\ index = [c \in Channels |-> kNew]
  /\ channels = [f \in Fds |-> None]
  /\ epollPtr = [f \in Fds |-> None]
  /\ epollMask = [f \in Fds |-> {}]
  /\ ready = [f \in Fds |-> {}]
  /\ eventListSize = InitEventListSize
  /\ ctlErrors = {}

-----------------------------------------------------------------------------
(* EpollPoller *)

\* LOG_FATAL after a failed ADD or MOD ends the process; a failed DEL is
\* only logged.
Running == ctlErrors \subseteq {"DEL"}

\* Fault: the mask of an epoll_event that was zeroed and never filled in.
UpdateZeroMask(op, c, mask) ==
  /\ epollPtr' = [epollPtr EXCEPT ![fd[c]] = IF op = "DEL" THEN None ELSE c]
  /\ epollMask' = [epollMask EXCEPT ![fd[c]] = {}]
  /\ UNCHANGED ctlErrors

\* The system call: ADD fails on a registered descriptor, MOD and DEL on one
\* that is not.
EpollCtlFails(op, c) == (op = "ADD") # (epollPtr[fd[c]] = None)

\* EpollPoller::update(): data.ptr is the channel, the mask its new events_.
Update(op, c, mask) ==
  IF EpollCtlFails(op, c)
  THEN /\ ctlErrors' = ctlErrors \cup {op}
       /\ UNCHANGED <<epollPtr, epollMask>>
  ELSE /\ epollPtr' = [epollPtr EXCEPT ![fd[c]] = IF op = "DEL" THEN None ELSE c]
       /\ epollMask' = [epollMask EXCEPT ![fd[c]] = IF op = "DEL" THEN {} ELSE mask]
       /\ UNCHANGED ctlErrors

\* Fault: DEL on no interest forgets set_index(kDeleted).
UpdateChannelKeepIndex(c, mask) ==
  \/ /\ index[c] \in {kNew, kDeleted}
     /\ channels' = IF index[c] = kNew THEN [channels EXCEPT ![fd[c]] = c] ELSE channels
     /\ index' = [index EXCEPT ![c] = kAdded]
     /\ Update("ADD", c, mask)
  \/ /\ index[c] = kAdded
     /\ Update(IF mask = {} THEN "DEL" ELSE "MOD", c, mask)
     /\ UNCHANGED <<index, channels>>

\* EpollPoller::updateChannel() for a channel whose events_ have become mask.
UpdateChannel(c, mask) ==
  \/ /\ index[c] \in {kNew, kDeleted}
     /\ channels' = IF index[c] = kNew THEN [channels EXCEPT ![fd[c]] = c] ELSE channels
     /\ index' = [index EXCEPT ![c] = kAdded]
     /\ Update("ADD", c, mask)
  \/ /\ index[c] = kAdded /\ mask = {}
     /\ Update("DEL", c, mask)
     /\ index' = [index EXCEPT ![c] = kDeleted]
     /\ UNCHANGED channels
  \/ /\ index[c] = kAdded /\ mask # {}
     /\ Update("MOD", c, mask)
     /\ UNCHANGED <<index, channels>>

Live(c) == fd[c] # None

\* Fault: removeChannel() without the EPOLL_CTL_DEL.
RemoveFromMapOnly(c) ==
  /\ Running /\ Live(c)
  /\ channels' = [channels EXCEPT ![fd[c]] = None]
  /\ index' = [index EXCEPT ![c] = kNew]
  /\ UNCHANGED <<fd, events, epollPtr, epollMask, ctlErrors, ready, pollVars>>

\* Fault: removeChannel() without channels_.erase().
RemoveFromKernelOnly(c) ==
  /\ Running /\ Live(c)
  /\ IF index[c] = kAdded
     THEN Update("DEL", c, {})
     ELSE UNCHANGED <<epollPtr, epollMask, ctlErrors>>
  /\ index' = [index EXCEPT ![c] = kNew]
  /\ UNCHANGED <<fd, events, channels, ready, pollVars>>

\* Channel::remove(), EventLoop::removeChannel(), EpollPoller::removeChannel().
RemoveChannel(c) ==
  /\ Running /\ Live(c)
  /\ channels' = [channels EXCEPT ![fd[c]] = None]
  /\ IF index[c] = kAdded
     THEN Update("DEL", c, {})
     ELSE UNCHANGED <<epollPtr, epollMask, ctlErrors>>
  /\ index' = [index EXCEPT ![c] = kNew]
  /\ UNCHANGED <<fd, events, ready, pollVars>>

-----------------------------------------------------------------------------
(* Channel: every change of events_ goes straight to the poller. *)

SetEvents(c, mask) ==
  /\ Running /\ Live(c)
  /\ events' = [events EXCEPT ![c] = mask]
  /\ UpdateChannel(c, mask)
  /\ UNCHANGED <<fd, ready, pollVars>>

EnableReading(c) == SetEvents(c, events[c] \cup {"read"})
DisableReading(c) == SetEvents(c, events[c] \ {"read"})
EnableWriting(c) == SetEvents(c, events[c] \cup {"write"})

\* As written: clears kReadEvent.
DisableWriting(c) == SetEvents(c, events[c] \ {"read"})
DisableAll(c) == SetEvents(c, {})

\* Channel::Channel() on a descriptor that the kernel just gave out.
Create(c, f) ==
  /\ Running /\ ~Live(c) /\ \A d \in Channels : fd[d] # f
  /\ fd' = [fd EXCEPT ![c] = f]
  /\ events' = [events EXCEPT ![c] = {}]
  /\ index' = [index EXCEPT ![c] = kNew]
  /\ ready' = [ready EXCEPT ![f] = {}]
  /\ UNCHANGED <<channels, epollPtr, epollMask, ctlErrors, pollVars>>

\* The owner (TcpConnection, Acceptor, EventLoop) removes the channel first,
\* never inside an iteration that still has to handle it, then destroys it
\* and closes the descriptor.
Close(c) ==
  /\ Running /\ Live(c) /\ index[c] = kNew /\ c \notin activeChannels
  /\ fd' = [fd EXCEPT ![c] = None]
  /\ ready' = [ready EXCEPT ![fd[c]] = {}]
  /\ UNCHANGED <<events, index, channels, epollPtr, epollMask, ctlErrors, pollVars>>

-----------------------------------------------------------------------------
(* EpollPoller::poll() and the iteration over the active channels *)

Reported(f) == IF epollPtr[f] = None THEN {} ELSE ready[f] \cap (epollMask[f] \cup {"hup"})

Reportable == {f \in Fds : Reported(f) # {}}

\* Fault: the event list keeps its first size.
FixedListSize(n) == eventListSize

\* poll() doubles a list that came back full.
GrownListSize(n) == IF n = eventListSize THEN 2 * eventListSize ELSE eventListSize

\* epoll_wait() fills the event list with ready descriptors, any of them when
\* they do not all fit; fillActiveChannels() follows data.ptr.
PollReturn ==
  /\ Running /\ activeChannels = {}
  /\ \E S \in SUBSET Reportable :
       /\ S # {}
       /\ Cardinality(S) = eventListSize \/ (S = Reportable /\ Cardinality(S) < eventListSize)
       /\ revents' = [c \in Channels |->
                        IF \E f \in S : epollPtr[f] = c
                        THEN Reported(CHOOSE f \in S : epollPtr[f] = c)
                        ELSE {}]
       /\ eventListSize' = GrownListSize(Cardinality(S))
  /\ UNCHANGED <<chanVars, ready>>

\* EventLoop::loop() turns to the next active channel; what its callbacks do
\* to channels are the actions above.
HandleEvent(c) ==
  /\ Running /\ c \in activeChannels
  /\ revents' = [revents EXCEPT ![c] = {}]
  /\ UNCHANGED <<chanVars, ready, eventListSize>>

\* The kernel: what is ready on an open descriptor changes.
KernelEvent(f, what) ==
  /\ Running /\ \E c \in Channels : fd[c] = f
  /\ ready[f] # what
  /\ ready' = [ready EXCEPT ![f] = what]
  /\ UNCHANGED <<chanVars, pollVars>>

-----------------------------------------------------------------------------
ChannelCall(c) ==
  \/ EnableReading(c) \/ DisableReading(c) \/ EnableWriting(c)
  \/ DisableWriting(c) \/ DisableAll(c) \/ RemoveChannel(c)
  \/ Close(c) \/ \E f \in Fds : Create(c, f)

LoopStep == PollReturn \/ \E c \in Channels : HandleEvent(c)

Next ==
  \/ LoopStep
  \/ \E c \in Channels : ChannelCall(c)
  \/ \E f \in Fds, what \in Readiness : KernelEvent(f, what)

Spec == Init /\ [][Next]_vars

\* The loop keeps polling and handling what poll() returned.
FairSpec == Spec /\ WF_vars(LoopStep)

-----------------------------------------------------------------------------
(* Properties *)

\* Poller::hasChannel().
HasChannel(c) == Live(c) /\ channels[fd[c]] = c

\* EpollPoller.cc 63-105: index_ says what the map and the kernel hold:
\* kAdded, in both; kDeleted, in the map only and nothing wanted; kNew, in
\* neither.
IndexAgrees ==
  \A c \in Channels : Live(c) =>
    /\ index[c] # kNew <=> HasChannel(c)
    /\ index[c] = kAdded <=> epollPtr[fd[c]] = c
    /\ index[c] = kDeleted => events[c] = {}

\* Channel.cc 26-32: the kernel watches exactly what events_ says.
MaskAgrees ==
  \A c \in Channels : Live(c) /\ index[c] = kAdded => epollMask[fd[c]] = events[c]

\* EpollPoller.cc 91-117: no descriptor leads, in the map or in the kernel,
\* to a channel that is gone or that has another descriptor: fd reuse cannot
\* make poll() follow a dangling data.ptr.
NoDanglingChannel ==
  \A f \in Fds :
    /\ channels[f] # None => fd[channels[f]] = f
    /\ epollPtr[f] # None => fd[epollPtr[f]] = f

\* EpollPoller.cc 130-140: epoll_ctl() never fails, so the LOG_FATAL that
\* ends the process is never reached, whatever order channels are enabled,
\* disabled, removed and recreated in.
EpollCtlNeverFails == ctlErrors = {}

\* EpollPoller.cc 108-117: poll() only hands out channels that hasChannel()
\* knows, with events they asked for (or a hang-up).
PollReportsInterest ==
  [][PollReturn =>
       \A c \in activeChannels' :
         /\ HasChannel(c)
         /\ revents'[c] \subseteq events[c] \cup {"hup"}]_vars

\* EpollPoller.cc 42-45: a channel that stays ready is handled again and
\* again, even if the kernel prefers others: the list grows until all fit.
NoStarvation ==
  \A f \in Fds :
    <>[](f \in Reportable) => []<>(epollPtr[f] \in activeChannels)
=============================================================================
