SPECIFICATION Spec
CONSTANTS
  LengthLimit = 3
  Sections <- MCSections
  MaxData = 1
  MaxFrames = 3
INVARIANTS
  PeerFailuresHaveCodes
CHECK_DEADLOCK FALSE
