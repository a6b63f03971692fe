\* Progress of two streams under the fairness of a caller that keeps reading.
SPECIFICATION FairSpec
CONSTANTS
  a = a
  b = b
  x = x
  Names <- MCNames
  Values <- MCValues
  ByteLen <- MCByteLen
  Streams = {s1, s2}
  MaxBlockedStreams = 1
  MaxCapacity = 70
  Capacities = {0, 70}
  ExplicitBases = {}
  LineKinds = {"indexed"}
  IntegerMax = 2
  MaxInserts = 2
  MaxSections = 2
  MaxLines = 1
  MaxInFlight = 2
PROPERTIES
  SectionsAreDecoded
  ReferencesAreReleased
  InsertionsBecomeKnown
CHECK_DEADLOCK FALSE
