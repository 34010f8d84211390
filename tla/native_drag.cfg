\* A drag of a file and a folder: Finder asks up to four times, so for each of
\* them again while it is written, when it failed and when it is complete.
SPECIFICATION Spec
CONSTANTS
  Promise = {file, folder}
  Folders = {folder}
  MaxRequests = 4
INVARIANTS TypeOK CompletedMeansWritten
PROPERTIES CancelledKeepsNothing DragEnds
CHECK_DEADLOCK FALSE
