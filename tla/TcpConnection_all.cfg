CONSTANTS
  Scripts <- EchoScripts
  Users = {u}
  UserOps = {"send", "shutdown"}
  RefsKept = FALSE
  StringsKept = FALSE
  MsgLen = 2
  SndBuf = 3
  HighWaterMark = 2
  WriteComplete = TRUE
  PeerMayReset = TRUE
  ServerMayStop = TRUE
  MaxCalls = 2
  MaxPeerMsgs = 1
SPECIFICATION FairSpec
INVARIANTS
  StreamIntact
  UpThenDown
  DownForEveryUp
PROPERTIES
  MessageWhileUp
  OutputDrains
  ClosedIsDestroyed
  FinAfterShutdown
  PeerCloseNoticed
CHECK_DEADLOCK FALSE
