SPECIFICATION Spec

CONSTANTS
  SendBuf = 1
  RecvBuf = 2
  MinusOne = {FALSE}
  MaxMsgs = 2
  ReturnCodes = {0, 5}
  MaxAttempts = 2
  PingTicks = 1
  IdMod = 65536
  NothingResponse = 255
  Program = {"start", "connect", "get_message"}
  TopicVectors <- OneTopic
  MaxCalls <- OneEach

PROPERTY
  ReaderDiscardsNothing

CHECK_DEADLOCK FALSE
