\* Three jobs, two failures of presentations or of subscriptions.
SPECIFICATION Spec
CONSTANTS
  MaxJobs = 3
  MaxFailures = 2
INVARIANTS OneWindowPerJob SubscriptionsAccountedFor
PROPERTY AcceptedJobsLeave
CHECK_DEADLOCK FALSE
