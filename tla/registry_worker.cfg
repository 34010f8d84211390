\* One job of every kind, its worker and its task window.
SPECIFICATION Spec
CONSTANTS
  Kind = {"create", "extract", "test"}
  MaxRetained = 1
  MaxAdmitted = 1
  MaxU64 = 60
  MaxJobs = 1
  MaxEvents = 2
  MaxControls = 4
INVARIANT GateMatchesStatus
PROPERTIES ImplementsLifecycle CancellationEnds WorkEnds
CHECK_DEADLOCK FALSE
