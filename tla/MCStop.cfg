SPECIFICATION FairSpec

CONSTANTS
  SendBuf = 1
  RecvBuf = 2
  MinusOne = {FALSE}
  MaxMsgs = 0
  ReturnCodes = {0, 5}
  MaxAttempts = 2
  PingTicks = 1
  IdMod = 65536
  NothingResponse = 255
  Program = {"start", "stop"}
  TopicVectors <- OneTopic
  MaxCalls <- OneEach

PROPERTY
  StopReturns

CHECK_DEADLOCK FALSE
