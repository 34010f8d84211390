\* One job that publishes five revisions, and one refused subscription.
SPECIFICATION TaskSpec
CONSTANTS
  MaxRevision = 5
  MaxRefusals = 1
INVARIANTS TaskTypeOK OneInFlight PhaseIsSettled
PROPERTIES AcksAreTaken WindowFollowsJob
CHECK_DEADLOCK FALSE
