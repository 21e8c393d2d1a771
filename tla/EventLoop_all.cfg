CONSTANTS
  a = a
  b = b
  loop = loop
  LoopThread = loop
  Callers <- TwoCallers
  MaxTasks <- OneTaskEach
SPECIFICATION FairSpec
INVARIANTS
  NoLostWakeup
  NoLostQuit
PROPERTIES
  AbstractQueue
  EveryFunctorRuns
  QuitStopsLoop
CHECK_DEADLOCK FALSE
