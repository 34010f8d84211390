\* Three ids compete for two places, two terminal records may be retained; the
\* revision counters run out.
SPECIFICATION Spec
CONSTANTS
  Kind = {"create"}
  MaxRetained = 2
  MaxAdmitted = 2
  MaxU64 = 9
  MaxJobs = 3
  MaxEvents = 0
  MaxControls = 1
INVARIANT CatalogCurrent
PROPERTY OldestLeaveFirst
CHECK_DEADLOCK FALSE
