\* Two jobs, a hidden request, the window shown at the start and once more, which
\* may fail once.
SPECIFICATION Spec
CONSTANTS
  MaxJobs = 2
  MaxRequests = 1
  MaxReveals = 1
  MaxFailures = 1
INVARIANTS CountedWhileAlive DestroyedIdle
PROPERTY QuietEnds
CHECK_DEADLOCK FALSE
