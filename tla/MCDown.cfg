SPECIFICATION Spec

CONSTANTS
  SendBuf = 1
  RecvBuf = 2
  MinusOne = {FALSE}
  MaxMsgs = 0
  ReturnCodes = {0}
  MaxAttempts = 2
  PingTicks = 1
  IdMod = 65536
  NothingResponse = 255
  Program = {"start", "connect"}
  TopicVectors <- OneTopic
  MaxCalls <- OneEach

PROPERTY
  DownIsReported

CHECK_DEADLOCK FALSE
