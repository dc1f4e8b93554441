\* Violation: packets from the end of an MPEG file come before its beginning.
SPECIFICATION Spec
CONSTANTS
    Streams = {1, 2}
    Files <- MCScanned
    MaxProbePackets = 2
    RawBufferSize = 8
    ScanSize = 3
    ScanRetries = 1
    MaxAgain = 1
    Video = {1}
    Decodable = {1, 2}
    GiveUp = 12
INVARIANTS
    PositionKept
CHECK_DEADLOCK FALSE
