CONSTANTS
  c1 = c1
  c2 = c2
  c3 = c3
  f1 = f1
  f2 = f2
  Clients <- ThreeClients
  SlowReaders <- TwoClients
  Fds <- TwoFds
  MaxThreads = 2
  NoConn = NoConn
SPECIFICATION FairSpec
INVARIANTS
  RegisteredIsOwned
  LoopIsRunning
  EvenlyDealt
PROPERTIES
  StartListens
  DescriptorReleased
  EveryClientServed
CHECK_DEADLOCK FALSE
