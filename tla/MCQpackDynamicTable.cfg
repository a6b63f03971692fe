\* Three slots and 96 bytes: four empty entries would fit the bytes but not the
\* slots, so the table's capacity may not exceed 127.
SPECIFICATION TableSpec
CONSTANTS
  a = a
  b = b
  x = x
  y = y
  Names <- MCNames
  Values <- MCValues
  ByteLen <- MCByteLen
  StorageLen = 96
  SlotCount = 3
  Capacities = {32, 70, 105, 127, 128}
  MaxTableInserts = 5
INVARIANTS
  InsertionsFit
PROPERTIES
  ImplementsTable
CHECK_DEADLOCK FALSE
