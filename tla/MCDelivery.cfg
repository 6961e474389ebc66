SPECIFICATION Spec

CONSTANTS
  SendBuf = 1
  RecvBuf = 2
  MinusOne = {FALSE, TRUE}
  MaxMsgs = 2
  ReturnCodes = {0, 5}
  MaxAttempts = 2
  PingTicks = 2
  IdMod = 65536
  NothingResponse = 255
  Program = {"start", "connect", "get_message", "stop", "destroy", "set_stop_thread", "disconnect"}
  TopicVectors <- OneTopic
  MaxCalls <- TwoConnects

INVARIANT
  ReaderUsesOpenSocket
  PipeInv

PROPERTY
  MessagesInOrder
  LeakIsFinal

CHECK_DEADLOCK FALSE
