SPECIFICATION Spec
CONSTANTS
    ByteValues = 8
    Streams <- MCStreams
    Headers <- MCHeaders
    Frames <- MCFrames
    Capacity = 13
    MaximumPayload = 8
    MaxWrites = 4
    MaxPending = 2
INVARIANTS
    StreamsComeBack
    StreamsExactlyLegal
    FramesExactlyLegal
    SettingsAreAsSent
CHECK_DEADLOCK FALSE
