\* Two archives, one of them empty, two places for sessions, pages of one entry.
SPECIFICATION Spec
CONSTANTS
  Archive = {"full", "empty"}
  Folder = {"root", "sub"}
  Root = "root"
  Listing <- MCListing
  PageLimit = 1
  MaxSessions = 2
  MaxOpens = 2
  MaxActions = 3
  MaxRevision = 2
INVARIANTS TypeOK SessionsAccountedFor SettledPageIsWhole
PROPERTIES LoadingEnds
CHECK_DEADLOCK FALSE
