SPECIFICATION FairSpec
CONSTANTS
  Turn = {1}
  Access = "workspace-write"
  Requests <- OneRequest
  MaxNotices = 3
  MaxPages = 2
INVARIANTS
  TurnSound
PROPERTIES
  TurnDecided
  AbortEnds
CHECK_DEADLOCK FALSE
