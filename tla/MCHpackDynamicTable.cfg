\* Three slots and 96 bytes, as for QPACK's table: maxima that admit no entry, one, two
\* and three, and one that the slots do not allow.
SPECIFICATION Spec
CONSTANTS
  a = a
  b = b
  x = x
  Names <- MCNames
  Values <- MCValues
  ByteLen <- MCByteLen
  StorageLen = 96
  SlotCount = 3
  Maxima = {0, 34, 70, 105, 127, 128}
PROPERTIES
  ImplementsTable
CHECK_DEADLOCK FALSE
