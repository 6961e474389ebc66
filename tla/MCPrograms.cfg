SPECIFICATION FairProgram

CONSTANTS
  SendBuf = 1
  RecvBuf = 2
  MinusOne = {FALSE}
  MaxMsgs = 1
  ReturnCodes = {0, 5}
  MaxAttempts = 2
  PingTicks = 1
  IdMod = 65536
  NothingResponse = 255
  Program = {"start", "connect", "publish", "subscribe", "disconnect", "get_message", "destroy"}
  TopicVectors <- OneTopic
  MaxCalls <- OneEach
  Words <- AllWords
  CommandLines <- Lines
  Numerals <- Numbers
  Atoi <- AtoiValues
  Levels <- TopicLevels

INVARIANT
  ProgramTypeOK
  ArgsInBounds
  NeverTerminated
  RefusedHangs

PROPERTY
  AcceptedMeansSession
  PublisherEnds
  SubscriberDrains

CHECK_DEADLOCK FALSE
