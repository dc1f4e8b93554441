\* Two streams, containers of every kind, and a client that calls at will.
SPECIFICATION Spec
CONSTANTS
    Streams = {1, 2}
    Files <- MCFiles
    MaxProbePackets = 2
    RawBufferSize = 4
    ScanSize = 2
    ScanRetries = 2
    MaxAgain = 1
    Video = {1}
    Decodable = {1, 2}
    GiveUp = 12
INVARIANTS
    TypeOK
    RawBufferBounded
    FaultsAreMisuse
    AcceptedMeansSaved
PROPERTIES
    ImplementsSource
    CallsReturn
CHECK_DEADLOCK FALSE
