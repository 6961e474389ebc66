SPECIFICATION Spec

CONSTANTS
  Sendable <- SmallAndBoundary
  MaxPackets = 2
  Cuts = {1, 2, 3, 4, 5, 6}
  MAX_LEN = 260
  Garbage = {0, 2, 48}

INVARIANT
  TypeOK
  LengthDecoded
  WholePacketAnalyzed
  PartMessage
  LongMessageCut
  HeaderErased

CHECK_DEADLOCK FALSE
