-------------------------- MODULE EpollPollerProofs -------------------------
(***************************************************************************)
(* Proofs about EpollPoller for any number of channels and descriptors.    *)
(***************************************************************************)
EXTENDS EpollPoller, TLAPS

(***************************************************************************)
(* The inductive invariant.  The agreement of channel, map and kernel is   *)
(* inductive only together with the kernel's promise that a descriptor in  *)
(* use is not given out again.                                             *)
(***************************************************************************)
FdsDistinct == \A c, d \in Channels : Live(c) /\ fd[c] = fd[d] => c = d

PollerInv ==
  /\ TypeOK
  /\ FdsDistinct
  /\ IndexAgrees
  /\ MaskAgrees
  /\ NoDanglingChannel
  /\ EpollCtlNeverFails

\* A poller that was just constructed agrees with the kernel.
LEMMA PollerInit == Init => PollerInv
<1> SUFFICES ASSUME Init PROVE PollerInv
  OBVIOUS
<1>1. TypeOK
  BY EventListAssumption DEF Init, TypeOK, kNew, kAdded, kDeleted
<1>2. \A c \in Channels : ~Live(c)
  BY DEF Init, Live
<1>3. FdsDistinct /\ IndexAgrees /\ MaskAgrees
  BY <1>2 DEF FdsDistinct, IndexAgrees, MaskAgrees
<1>4. NoDanglingChannel /\ EpollCtlNeverFails
  BY DEF Init, NoDanglingChannel, EpollCtlNeverFails
<1> QED BY <1>1, <1>3, <1>4 DEF PollerInv

\* EpollPoller::update() never fails for the operation its callers choose.
LEMMA CtlSucceeds ==
  ASSUME PollerInv, NEW c \in Channels, Live(c)
  PROVE  /\ fd[c] \in Fds
         /\ index[c] \in {kNew, kDeleted} => ~EpollCtlFails("ADD", c)
         /\ index[c] = kAdded => ~EpollCtlFails("MOD", c) /\ ~EpollCtlFails("DEL", c)
<1>1. fd[c] \in Fds
  BY DEF PollerInv, TypeOK, Live
<1>2. index[c] = kAdded <=> epollPtr[fd[c]] = c
  BY DEF PollerInv, IndexAgrees
<1>3. epollPtr[fd[c]] \in Channels \cup {None}
  BY <1>1 DEF PollerInv, TypeOK
<1>4. epollPtr[fd[c]] # None => epollPtr[fd[c]] = c
  <2>1. HAVE epollPtr[fd[c]] # None
  <2>2. epollPtr[fd[c]] \in Channels /\ fd[epollPtr[fd[c]]] = fd[c]
    BY <1>1, <1>3, <2>1 DEF PollerInv, NoDanglingChannel
  <2> QED BY <2>2 DEF PollerInv, FdsDistinct, Live
<1>5. c # None
  BY NoneAssumption
<1> QED
  BY <1>1, <1>2, <1>4, <1>5 DEF EpollCtlFails, kNew, kAdded, kDeleted

\* Two channels that exist use different descriptors.
LEMMA OtherFd ==
  ASSUME PollerInv, NEW c \in Channels, NEW d \in Channels, Live(c), d # c
  PROVE  fd[d] # fd[c]
  BY DEF PollerInv, FdsDistinct, Live

\* Channel::update(): any change of events_ keeps the three in agreement.
LEMMA SetEventsStep ==
  ASSUME PollerInv, NEW c \in Channels, NEW mask \in SUBSET Interest, SetEvents(c, mask)
  PROVE  PollerInv'
<1>1. /\ Live(c) /\ fd[c] \in Fds /\ fd' = fd
      /\ events' = [events EXCEPT ![c] = mask]
      /\ UNCHANGED <<ready, revents, eventListSize>>
  BY CtlSucceeds DEF SetEvents, pollVars
<1>2. \A d \in Channels : d # c => fd[d] # fd[c]
  BY <1>1, OtherFd
<1>3. c # None
  BY NoneAssumption
<1> USE DEF kNew, kAdded, kDeleted
<1>4. CASE index[c] \in {kNew, kDeleted}
  <2>1. /\ channels' = (IF index[c] = kNew THEN [channels EXCEPT ![fd[c]] = c] ELSE channels)
        /\ index' = [index EXCEPT ![c] = kAdded]
        /\ epollPtr' = [epollPtr EXCEPT ![fd[c]] = c]
        /\ epollMask' = [epollMask EXCEPT ![fd[c]] = mask]
        /\ ctlErrors' = ctlErrors
    BY <1>1, <1>4, CtlSucceeds DEF SetEvents, UpdateChannel, Update
  <2>2. TypeOK'
    BY <1>1, <2>1 DEF PollerInv, TypeOK
  <2>3. channels'[fd[c]] = c /\ \A f \in Fds : f # fd[c] => channels'[f] = channels[f]
    BY <1>1, <1>4, <2>1 DEF PollerInv, TypeOK, IndexAgrees, HasChannel
  <2>4. IndexAgrees'
    BY <1>1, <1>2, <1>3, <2>1, <2>2, <2>3 DEF PollerInv, TypeOK, IndexAgrees, HasChannel, Live
  <2>5. MaskAgrees'
    BY <1>1, <1>2, <2>1 DEF PollerInv, TypeOK, MaskAgrees, Live
  <2>6. NoDanglingChannel'
    BY <1>1, <2>1, <2>3 DEF PollerInv, TypeOK, NoDanglingChannel
  <2> QED BY <1>1, <2>1, <2>2, <2>4, <2>5, <2>6
          DEF PollerInv, FdsDistinct, EpollCtlNeverFails, Live
<1>5. CASE index[c] = kAdded /\ mask = {}
  <2>1. /\ channels' = channels
        /\ index' = [index EXCEPT ![c] = kDeleted]
        /\ epollPtr' = [epollPtr EXCEPT ![fd[c]] = None]
        /\ epollMask' = [epollMask EXCEPT ![fd[c]] = {}]
        /\ ctlErrors' = ctlErrors
    BY <1>1, <1>5, CtlSucceeds DEF SetEvents, UpdateChannel, Update
  <2>2. TypeOK'
    BY <1>1, <2>1 DEF PollerInv, TypeOK
  <2>4. IndexAgrees'
    BY <1>1, <1>2, <1>3, <1>5, <2>1, <2>2 DEF PollerInv, TypeOK, IndexAgrees, HasChannel, Live
  <2>5. MaskAgrees'
    BY <1>1, <1>2, <2>1 DEF PollerInv, TypeOK, MaskAgrees, Live
  <2>6. NoDanglingChannel'
    BY <1>1, <2>1 DEF PollerInv, TypeOK, NoDanglingChannel
  <2> QED BY <1>1, <2>1, <2>2, <2>4, <2>5, <2>6
          DEF PollerInv, FdsDistinct, EpollCtlNeverFails, Live
<1>6. CASE index[c] = kAdded /\ mask # {}
  <2>1. /\ channels' = channels /\ index' = index
        /\ epollPtr' = [epollPtr EXCEPT ![fd[c]] = c]
        /\ epollMask' = [epollMask EXCEPT ![fd[c]] = mask]
        /\ ctlErrors' = ctlErrors
    BY <1>1, <1>6, CtlSucceeds DEF SetEvents, UpdateChannel, Update
  <2>2. TypeOK'
    BY <1>1, <2>1 DEF PollerInv, TypeOK
  <2>4. IndexAgrees'
    BY <1>1, <1>2, <1>3, <1>6, <2>1, <2>2 DEF PollerInv, TypeOK, IndexAgrees, HasChannel, Live
  <2>5. MaskAgrees'
    BY <1>1, <1>2, <2>1 DEF PollerInv, TypeOK, MaskAgrees, Live
  <2>6. NoDanglingChannel'
    BY <1>1, <2>1 DEF PollerInv, TypeOK, NoDanglingChannel
  <2> QED BY <1>1, <2>1, <2>2, <2>4, <2>5, <2>6
          DEF PollerInv, FdsDistinct, EpollCtlNeverFails, Live
<1> QED
  BY <1>4, <1>5, <1>6 DEF PollerInv, TypeOK

\* EpollPoller::removeChannel() leaves no trace of the channel.
LEMMA RemoveStep ==
  ASSUME PollerInv, NEW c \in Channels, RemoveChannel(c)
  PROVE  PollerInv'
<1> USE DEF kNew, kAdded, kDeleted
<1>1. /\ Live(c) /\ fd[c] \in Fds /\ c # None
      /\ UNCHANGED <<fd, events, ready, revents, eventListSize>>
      /\ channels' = [channels EXCEPT ![fd[c]] = None]
      /\ index' = [index EXCEPT ![c] = kNew]
  BY CtlSucceeds, NoneAssumption DEF RemoveChannel, pollVars
<1>2. \A d \in Channels : d # c => fd[d] # fd[c]
  BY <1>1, OtherFd
<1>3. /\ ctlErrors' = ctlErrors
      /\ epollPtr' \in [Fds -> Channels \cup {None}]
      /\ epollMask' \in [Fds -> SUBSET Interest]
      /\ epollPtr'[fd[c]] # c
      /\ \A f \in Fds : epollPtr'[f] # None => epollPtr'[f] = epollPtr[f]
      /\ \A f \in Fds : f # fd[c] => epollPtr'[f] = epollPtr[f] /\ epollMask'[f] = epollMask[f]
  <2>1. CASE index[c] = kAdded
    <3>1. /\ ctlErrors' = ctlErrors
          /\ epollPtr' = [epollPtr EXCEPT ![fd[c]] = None]
          /\ epollMask' = [epollMask EXCEPT ![fd[c]] = {}]
      BY <1>1, <2>1, CtlSucceeds DEF RemoveChannel, Update
    <3> QED BY <1>1, <3>1 DEF PollerInv, TypeOK
  <2>2. CASE index[c] # kAdded
    <3>1. UNCHANGED <<epollPtr, epollMask, ctlErrors>>
      BY <2>2 DEF RemoveChannel
    <3> QED BY <1>1, <2>2, <3>1 DEF PollerInv, TypeOK, IndexAgrees
  <2> QED BY <2>1, <2>2
<1>4. TypeOK'
  BY <1>1, <1>3 DEF PollerInv, TypeOK
<1>5. IndexAgrees'
  BY <1>1, <1>2, <1>3 DEF PollerInv, TypeOK, IndexAgrees, HasChannel, Live
<1>6. MaskAgrees'
  BY <1>1, <1>2, <1>3 DEF PollerInv, TypeOK, MaskAgrees, Live
<1>7. NoDanglingChannel'
  BY <1>1, <1>3 DEF PollerInv, TypeOK, NoDanglingChannel
<1> QED BY <1>1, <1>3, <1>4, <1>5, <1>6, <1>7
        DEF PollerInv, FdsDistinct, EpollCtlNeverFails, Live

\* A new channel on a free descriptor finds no leftovers of the old one.
LEMMA CreateStep ==
  ASSUME PollerInv, NEW c \in Channels, NEW f \in Fds, Create(c, f)
  PROVE  PollerInv'
<1> USE DEF kNew, kAdded, kDeleted
<1>1. /\ ~Live(c) /\ \A d \in Channels : fd[d] # f
      /\ fd' = [fd EXCEPT ![c] = f]
      /\ events' = [events EXCEPT ![c] = {}]
      /\ index' = [index EXCEPT ![c] = kNew]
      /\ ready' = [ready EXCEPT ![f] = {}]
      /\ UNCHANGED <<channels, epollPtr, epollMask, ctlErrors, revents, eventListSize>>
  BY DEF Create, pollVars
<1>2. channels[f] = None /\ epollPtr[f] = None
  BY <1>1 DEF PollerInv, TypeOK, NoDanglingChannel
<1>3. TypeOK'
  BY <1>1 DEF PollerInv, TypeOK
<1>4. FdsDistinct'
  BY <1>1 DEF PollerInv, TypeOK, FdsDistinct, Live
<1>5. IndexAgrees'
  BY <1>1, <1>2, NoneAssumption DEF PollerInv, TypeOK, IndexAgrees, HasChannel, Live
<1>6. MaskAgrees'
  BY <1>1 DEF PollerInv, TypeOK, MaskAgrees, Live
<1>7. NoDanglingChannel'
  <2>1. ASSUME NEW g \in Fds, NEW d \in Channels, fd[d] = g PROVE fd'[d] = g
    BY <1>1, <2>1, NoneAssumption DEF PollerInv, TypeOK, Live
  <2> QED BY <1>1, <2>1 DEF PollerInv, TypeOK, NoDanglingChannel
<1> QED BY <1>1, <1>3, <1>4, <1>5, <1>6, <1>7 DEF PollerInv, EpollCtlNeverFails

\* Destroying a removed channel leaves nothing that points to it.
LEMMA CloseStep ==
  ASSUME PollerInv, NEW c \in Channels, Close(c)
  PROVE  PollerInv'
<1> USE DEF kNew, kAdded, kDeleted
<1>1. /\ Live(c) /\ index[c] = kNew /\ fd[c] \in Fds
      /\ fd' = [fd EXCEPT ![c] = None]
      /\ ready' = [ready EXCEPT ![fd[c]] = {}]
      /\ UNCHANGED <<events, index, channels, epollPtr, epollMask, ctlErrors, revents,
                     eventListSize>>
  BY CtlSucceeds DEF Close, pollVars
<1>2. \A f \in Fds : channels[f] # c /\ epollPtr[f] # c
  BY <1>1, NoneAssumption DEF PollerInv, NoDanglingChannel, IndexAgrees, HasChannel
<1>3. TypeOK'
  BY <1>1 DEF PollerInv, TypeOK
<1>4. FdsDistinct' /\ MaskAgrees'
  BY <1>1 DEF PollerInv, TypeOK, FdsDistinct, MaskAgrees, Live
<1>5. IndexAgrees'
  BY <1>1 DEF PollerInv, TypeOK, IndexAgrees, HasChannel, Live
<1>6. NoDanglingChannel'
  BY <1>1, <1>2 DEF PollerInv, TypeOK, NoDanglingChannel
<1> QED BY <1>1, <1>3, <1>4, <1>5, <1>6 DEF PollerInv, EpollCtlNeverFails

\* Polling and handling do not touch what the invariant relates.
LEMMA QuietStep ==
  ASSUME PollerInv, TypeOK', UNCHANGED chanVars
  PROVE  PollerInv'
  BY DEF PollerInv, chanVars, FdsDistinct, IndexAgrees, MaskAgrees, NoDanglingChannel,
         EpollCtlNeverFails, HasChannel, Live

\* Every step keeps channel, map and kernel in agreement.
LEMMA PollerStep == PollerInv /\ [Next]_vars => PollerInv'
<1> SUFFICES ASSUME PollerInv, [Next]_vars PROVE PollerInv'
  OBVIOUS
<1>1. CASE PollReturn
  <2>1. PICK S \in SUBSET Reportable :
          /\ revents' = [c \in Channels |->
                           IF \E f \in S : epollPtr[f] = c
                           THEN Reported(CHOOSE f \in S : epollPtr[f] = c)
                           ELSE {}]
          /\ eventListSize' = GrownListSize(Cardinality(S))
    BY <1>1 DEF PollReturn
  <2>2. \A f \in Fds : Reported(f) \in SUBSET Reports
    BY DEF PollerInv, TypeOK, Reported
  <2>3. \A c \in Channels : (\E f \in S : epollPtr[f] = c) =>
          (CHOOSE f \in S : epollPtr[f] = c) \in Fds
    BY DEF Reportable
  <2>4. revents' \in [Channels -> SUBSET Reports]
    BY <2>1, <2>2, <2>3
  <2>5. eventListSize' \in Nat \ {0}
    BY <2>1 DEF GrownListSize, PollerInv, TypeOK
  <2>6. TypeOK'
    BY <1>1, <2>4, <2>5 DEF PollReturn, PollerInv, TypeOK, chanVars
  <2> QED BY <1>1, <2>6, QuietStep DEF PollReturn
<1>2. ASSUME NEW c \in Channels, HandleEvent(c) PROVE PollerInv'
  <2>1. TypeOK'
    BY <1>2 DEF HandleEvent, PollerInv, TypeOK, chanVars
  <2> QED BY <1>2, <2>1, QuietStep DEF HandleEvent
<1>3. ASSUME NEW c \in Channels, ChannelCall(c) PROVE PollerInv'
  <2>1. events[c] \subseteq Interest
    BY DEF PollerInv, TypeOK
  <2>2. /\ events[c] \cup {"read"} \in SUBSET Interest
        /\ events[c] \cup {"write"} \in SUBSET Interest
        /\ events[c] \ {"read"} \in SUBSET Interest
        /\ {} \in SUBSET Interest
    BY <2>1 DEF Interest
  <2>3. CASE EnableReading(c) BY <2>2, <2>3, SetEventsStep DEF EnableReading
  <2>4. CASE DisableReading(c) BY <2>2, <2>4, SetEventsStep DEF DisableReading
  <2>5. CASE EnableWriting(c) BY <2>2, <2>5, SetEventsStep DEF EnableWriting
  <2>6. CASE DisableWriting(c) BY <2>2, <2>6, SetEventsStep DEF DisableWriting
  <2>7. CASE DisableAll(c) BY <2>2, <2>7, SetEventsStep DEF DisableAll
  <2>8. CASE RemoveChannel(c) BY <2>8, RemoveStep
  <2>9. CASE Close(c) BY <2>9, CloseStep
  <2>10. CASE \E f \in Fds : Create(c, f) BY <2>10, CreateStep
  <2> QED
    BY <1>3, <2>3, <2>4, <2>5, <2>6, <2>7, <2>8, <2>9, <2>10 DEF ChannelCall
<1>4. ASSUME NEW f \in Fds, NEW what \in Readiness, KernelEvent(f, what) PROVE PollerInv'
  <2>1. TypeOK'
    BY <1>4, ReadinessAssumption DEF KernelEvent, PollerInv, TypeOK, chanVars, pollVars
  <2> QED BY <1>4, <2>1, QuietStep DEF KernelEvent
<1>5. CASE UNCHANGED vars
  <2>1. TypeOK' /\ UNCHANGED chanVars
    BY <1>5 DEF vars, chanVars, PollerInv, TypeOK
  <2> QED BY <2>1, QuietStep
<1> QED
  BY <1>1, <1>2, <1>3, <1>4, <1>5 DEF Next, LoopStep

\* The state of a channel, the poller's map and the kernel's interest list
\* agree in every reachable state (EpollPoller.cc 63-141).
THEOREM Agreement ==
  Spec => [](TypeOK /\ IndexAgrees /\ MaskAgrees /\ NoDanglingChannel)
<1>1. PollerInv => TypeOK /\ IndexAgrees /\ MaskAgrees /\ NoDanglingChannel
  BY DEF PollerInv
<1> QED
  BY <1>1, PollerInit, PollerStep, PTL DEF Spec

\* No descriptor ever leads to a channel that is gone or that has another
\* descriptor, however descriptors are used again (EpollPoller.cc 91-117).
THEOREM NoStalePointer == Spec => []NoDanglingChannel
<1>1. PollerInv => NoDanglingChannel
  BY DEF PollerInv
<1> QED
  BY <1>1, PollerInit, PollerStep, PTL DEF Spec

\* No order of calls makes epoll_ctl() fail (EpollPoller.cc 130-140).
THEOREM CtlNeverFails == Spec => []EpollCtlNeverFails
<1>1. PollerInv => EpollCtlNeverFails
  BY DEF PollerInv
<1> QED
  BY <1>1, PollerInit, PollerStep, PTL DEF Spec

\* poll() hands out registered channels with events they asked for
\* (EpollPoller.cc 108-117).
THEOREM PollSound == Spec => PollReportsInterest
<1> DEFINE Wanted == PollReturn =>
             \A c \in activeChannels' :
               /\ HasChannel(c)
               /\ revents'[c] \subseteq events[c] \cup {"hup"}
<1>1. PollerInv /\ [Next]_vars => [Wanted]_vars
  <2> SUFFICES ASSUME PollerInv, PollReturn, NEW c \in activeChannels'
               PROVE  HasChannel(c) /\ revents'[c] \subseteq events[c] \cup {"hup"}
    OBVIOUS
  <2>1. PICK S \in SUBSET Reportable :
          revents' = [d \in Channels |->
                        IF \E f \in S : epollPtr[f] = d
                        THEN Reported(CHOOSE f \in S : epollPtr[f] = d)
                        ELSE {}]
    BY DEF PollReturn
  <2>2. c \in Channels /\ revents'[c] # {}
    BY DEF activeChannels
  <2>3. \E f \in S : epollPtr[f] = c
    BY <2>1, <2>2
  <2> DEFINE g == CHOOSE f \in S : epollPtr[f] = c
  <2>4. g \in S /\ epollPtr[g] = c /\ g \in Fds
    BY <2>3 DEF Reportable
  <2>5. revents'[c] = Reported(g)
    BY <2>1, <2>2, <2>3
  <2> HIDE DEF g
  <2>6. c # None /\ fd[c] = g
    BY <2>2, <2>4, NoneAssumption DEF PollerInv, NoDanglingChannel
  <2>7. Live(c) /\ index[c] = kAdded
    BY <2>2, <2>4, <2>6, NoneAssumption DEF PollerInv, IndexAgrees, Live
  <2>8. HasChannel(c) /\ epollMask[g] = events[c]
    BY <2>2, <2>6, <2>7 DEF PollerInv, IndexAgrees, MaskAgrees, kAdded, kNew
  <2> QED BY <2>5, <2>8 DEF Reported
<1> QED
  BY <1>1, PollerInit, PollerStep, PTL DEF Spec, PollReportsInterest
=============================================================================
