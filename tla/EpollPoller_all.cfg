CONSTANTS
  Channels = {c1, c2}
  Fds = {f1, f2}
  None = None
  InitEventListSize = 1
  Readiness <- MixedReadiness
SPECIFICATION FairSpec
INVARIANTS
  MaskAgrees
  NoDanglingChannel
  EpollCtlNeverFails
PROPERTIES
  PollReportsInterest
  NoStarvation
