\* The window of the first of two jobs fails to open once.
SPECIFICATION Spec
CONSTANTS
  MaxJobs = 2
  MaxFailures = 1
PROPERTY NothingLeavesUnpresented
CHECK_DEADLOCK FALSE
