\* Three frames of every kind in a row, at most two of them on the way.
SPECIFICATION Spec
CONSTANTS
    ByteValues = 4
    MinimumFrameSize = 20
    Streams <- MCStreams
    ForeignStreams <- MCForeignStreams
    FlagChoices <- MCFlagChoices
    PlainFlags <- MCPlainFlags
    Fragments <- MCFragments
    Pads <- MCPads
    PrioritySections <- MCPrioritySections
    Quads <- MCQuads
    SettingLists <- MCSettingLists
    RawStreams <- MCRawStreams
    RawFlags <- MCRawFlags
    RawTypes <- MCRawTypes
    RawPayloads <- MCRawPayloads
    SenderMaximum = 40
    Capacity = 25
    ReceiverMaximum = 11
    MaxFrames = 3
    MaxPending = 2
INVARIANTS
    FramesComeBack
    FragmentsExactlyLegal
    WholeBlocksAreTaken
CHECK_DEADLOCK FALSE
