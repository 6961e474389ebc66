SPECIFICATION FairSpec

CONSTANTS
  SendBuf = 1
  RecvBuf = 2
  MinusOne = {FALSE}
  MaxMsgs = 1
  ReturnCodes = {0}
  MaxAttempts = 2
  PingTicks = 2
  IdMod = 65536
  NothingResponse = 255
  Program = {"start", "connect", "publish", "disconnect", "stop"}
  TopicVectors <- OneTopic
  MaxCalls <- OneEach

INVARIANT
  RestartNotBlocked

PROPERTY
  CallReturns
  StopEndsWhenDown
  ArrivalsRead
  HeartbeatGoesOn

CHECK_DEADLOCK FALSE
