CONSTANTS
  c1 = c1
  c2 = c2
  c3 = c3
  f1 = f1
  f2 = f2
  Clients <- TwoClients
  SlowReaders <- OneClient
  Fds <- TwoFds
  MaxThreads = 1
  NoConn = NoConn
SPECIFICATION Spec
INVARIANTS
  ChannelsOfLiveConnections
CHECK_DEADLOCK FALSE
