SPECIFICATION Spec
CONSTANTS
    ByteValues = 256
    FrameByteValues = 16
    Scenarios <- MCScenarios
INVARIANTS
    DatagramsComeBack
    DamageIsNoticed
    PacketsComeBack
    PayloadsExactlyLegal
    AcknowledgedWereReceived
    ParametersExactlyAuthentic
CHECK_DEADLOCK FALSE
