SPECIFICATION Spec

CONSTANTS
  Requests <- AllRequests
  MaxRequests = 2
  MaxPings = 2
  Room = 48

INVARIANT
  TypeOK
  RequestsIntact
  SplitNeedsBacklog
  UnboxingInverts

PROPERTY
  IsPacketStream

CHECK_DEADLOCK FALSE
