\* Two shares, each sent up to twice.
SPECIFICATION Spec
CONSTANTS
  MaxRecords = 2
  MaxShares = 2
  MaxAttempts = 2
INVARIANTS SendAccountedFor QueueNeverRests NoUnconfirmedResend
PROPERTIES StoppedIsNotSent RemovedIsOver CancelledEnds
CHECK_DEADLOCK FALSE
