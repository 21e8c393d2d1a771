CONSTANTS
  Scripts <- EchoScripts
  Users = {}
  UserOps = {}
  RefsKept = TRUE
  StringsKept = TRUE
  MsgLen = 2
  SndBuf = 1
  HighWaterMark = 0
  WriteComplete = FALSE
  PeerMayReset = TRUE
  ServerMayStop = FALSE
  MaxCalls = 0
  MaxPeerMsgs = 1
SPECIFICATION FairSpec
PROPERTIES
  ShutdownSendsFin
CHECK_DEADLOCK FALSE
