\* A folder with a volatile file in a subfolder and a file beside it, one option
\* the planner accepts and one it refuses, three plan revisions.
SPECIFICATION Spec
CONSTANTS
  Source = {"s", "t"}
  Contents <- MCContents
  Directory <- MCDirectory
  Volatile <- MCVolatile
  Option = {"sound", "badSplit"}
  BadSplit = {"badSplit"}
  Query = {"q"}
  Matches <- MCMatches
  NoQuery = "none"
  MaxRevision = 3
INVARIANTS TypeOK PreviewIsCurrent ViewIsOfPlan SubmittedAsShown
PROPERTIES PlanningEnds
CHECK_DEADLOCK FALSE
