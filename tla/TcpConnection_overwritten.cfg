CONSTANTS
  Scripts <- EchoScripts
  Users = {u}
  UserOps = {"send", "shutdown"}
  RefsKept = TRUE
  StringsKept = TRUE
  MsgLen = 2
  SndBuf = 1
  HighWaterMark = 0
  WriteComplete = FALSE
  PeerMayReset = FALSE
  ServerMayStop = FALSE
  MaxCalls = 2
  MaxPeerMsgs = 0
SPECIFICATION FairSpec
PROPERTIES
  GivesUpWriting
CHECK_DEADLOCK FALSE
