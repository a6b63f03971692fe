\* Stream 0 has the identifier of an empty slot.
SPECIFICATION Spec
CONSTANTS
  Streams = {0, 4}
  MaxBlockedStreams = 1
  SectionSlots = 3
  ReferenceSlots = 5
  MaxInserts = 3
  MaxRegistrations = 4
  MaxReferences = 2
INVARIANTS
  RangesTile
  AnswersAgree
PROPERTIES
  ImplementsLedger
CHECK_DEADLOCK FALSE
