\* A table of 74 bytes holds two fields, one of 40 the long one, one of 34 the short
\* one; two changes of SETTINGS between any two blocks, with reductions that a later
\* increase hides.
SPECIFICATION Spec
CONSTANTS
  a = a
  b = b
  x = x
  Names <- MCNames
  Values <- MCValues
  ByteLen <- MCByteLen
  StaticTable <- MCStaticTable
  Capacity = 74
  InitialMaximum = 74
  Maxima = {34, 40, 74}
  Updates = {0}
  Representations <- MCRepresentations
  MaxSettings = 2
  MaxInFlight = 5
INVARIANTS
  NeverFails
  DecoderFollows
  MaximaStayAllowed
  ReductionsAreNotLost
PROPERTIES
  DeliversHeaders
CHECK_DEADLOCK FALSE
