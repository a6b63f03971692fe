SPECIFICATION Spec
CONSTANTS
  LengthLimit = 3
  Sections <- MCSections
  MaxData = 2
  MaxFrames = 5
INVARIANTS
  TypeOK
  AcceptedExactlyLegal
  WholeIsComplete
  InStep
CHECK_DEADLOCK FALSE
