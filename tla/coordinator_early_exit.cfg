\* A job of a request and its replacement.
SPECIFICATION Spec
CONSTANTS
  MaxJobs = 2
  MaxRequests = 1
  MaxReveals = 0
  MaxFailures = 0
INVARIANT DestroyedAfterJobs
CHECK_DEADLOCK FALSE
