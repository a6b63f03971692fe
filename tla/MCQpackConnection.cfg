\* Two request streams, one of which may block; three sections, and three
\* insertions into a table of at most two entries, so that one is evicted.
SPECIFICATION Spec
CONSTANTS
  a = a
  b = b
  x = x
  Names <- MCNames
  Values <- MCValues
  ByteLen <- MCByteLen
  Streams = {s1, s2}
  MaxBlockedStreams = 1
  MaxCapacity = 70
  Capacities = {0, 70}
  ExplicitBases = {}
  LineKinds = {"indexed"}
  IntegerMax = 1
  MaxInserts = 3
  MaxSections = 3
  MaxLines = 1
  MaxInFlight = 2
SYMMETRY Symmetry
INVARIANTS
  NeverFails
  ReferencesStayActive
  FeedbackBringsAgreement
  AcknowledgmentsMatch
  TablesAgree
  BlockingIsForeseen
PROPERTIES
  EvictionsAreSafe
  DeliversHeaders
CHECK_DEADLOCK FALSE
