SPECIFICATION Spec
CONSTANTS
  c1 = c1
  c2 = c2
  Clients = {c1, c2}
  Setups <- MCSetups
  MaxThreads = 2
  Fds = {1, 2, 3, 4}
  MapSize = 2
  Sizes = {2, 4}
  SelectMax = 3
  PairSize = 1
CHECK_DEADLOCK FALSE
INVARIANT WakeupSeen
