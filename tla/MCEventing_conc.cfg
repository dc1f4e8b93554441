\* Two threads, two subscriptions, one evented variable.
SPECIFICATION Spec
CONSTANTS
    Threads = {t1, t2}
    Subs = {s1, s2}
    NoSub = NoSub
    LastChange = LastChange
    TransportState = TransportState
    StateTable <- MCOneVar
    Evented = {LastChange}
    Values = {0, 1}
    InitValue = 0
    Timeouts <- MCLeases
    Silent = {}
    Portless = {}
    MaxCount = 1
    MaxClock = 1
    MaxWrites = 0
SYMMETRY Symmetry
INVARIANTS
    TypeOK
    ListWellFormed
    ExactCopy
    DroppedOnlyIfLapsed
PROPERTIES
    RefusedOnlyIfGone
CHECK_DEADLOCK FALSE
