SPECIFICATION Spec

CONSTANTS
  KeepAlives <- Intervals
  Lag = 5

INVARIANT
  TypeOK
  SessionKept
  StopDelayed
  TimeInv

PROPERTY
  PingsApart

CHECK_DEADLOCK FALSE
