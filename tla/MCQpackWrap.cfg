\* One stream, every representation and an explicit Base: five insertions take
\* the Required Insert Count, sent modulo four, round its range.
SPECIFICATION Spec
CONSTANTS
  a = a
  b = b
  x = x
  Names <- MCNames
  Values <- MCValues
  ByteLen <- MCByteLen
  Streams = {s1}
  MaxBlockedStreams = 1
  MaxCapacity = 70
  Capacities = {0, 70}
  ExplicitBases = {1}
  LineKinds = {"indexed", "named", "literal"}
  IntegerMax = 2
  MaxInserts = 5
  MaxSections = 2
  MaxLines = 1
  MaxInFlight = 2
INVARIANTS
  WrappedCountsRecovered
CHECK_DEADLOCK FALSE
