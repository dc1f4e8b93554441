\* One thread: what the code promises when calls do not overlap, with a
\* subscriber whose callback URL makes every round that gets to it fail.
SPECIFICATION Spec
CONSTANTS
    Threads = {t1}
    Subs = {s1, s2, s3}
    NoSub = NoSub
    LastChange = LastChange
    TransportState = TransportState
    StateTable <- MCTable
    Evented = {LastChange}
    Values = {0, 1}
    InitValue = 0
    Timeouts <- MCLeases
    Silent = {}
    Portless = {s3}
    MaxCount = 2
    MaxClock = 1
    MaxWrites = 2
SYMMETRY Symmetry
INVARIANTS
    LapsedIsNotNotified
PROPERTIES
    SeqInOrder
CHECK_DEADLOCK FALSE
