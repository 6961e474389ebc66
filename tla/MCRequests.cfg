SPECIFICATION Spec

CONSTANTS
  SendBuf = 1
  RecvBuf = 1
  MinusOne = {FALSE}
  MaxMsgs = 0
  ReturnCodes = {0}
  MaxAttempts = 2
  PingTicks = 1
  IdMod = 2
  NothingResponse = 255
  Program = {"start", "connect", "publish", "subscribe", "unsubscribe"}
  TopicVectors <- OneTopic
  MaxCalls <- ThreePublishes

INVARIANT
  TypeOK
  AckInv
  PublishConfirmed

PROPERTY
  TopicsAfterGrant

CHECK_DEADLOCK FALSE
