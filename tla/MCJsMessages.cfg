SPECIFICATION Spec
CONSTANTS
    Objects <- MCObjects
    Instances <- MCInstances
    LongStrings = {"long"}
    Long = 7
    MaxUint16 = 9
    MAX_PACKET_LENGTH = 8
    MaxCalls = 3
INVARIANT RoundTrip
INVARIANT FramesExact
INVARIANT NothingLost
CHECK_DEADLOCK FALSE
