\* Two threads under fairness, with changes of the variable: every debt of the
\* abstract channel ends, and no SEQ overtakes the events.
SPECIFICATION FairSpec
CONSTANTS
    Threads = {t1, t2}
    Subs = {s1, s2}
    NoSub = NoSub
    LastChange = LastChange
    TransportState = TransportState
    StateTable <- MCOneVar
    Evented = {LastChange}
    Values = {0, 1}
    InitValue = 0
    Timeouts <- MCForever
    Silent = {}
    Portless = {}
    MaxCount = 1
    MaxClock = 0
    MaxWrites = 1
INVARIANTS
    SeqNeverOvertakes
PROPERTIES
    ImplementsChannel
CHECK_DEADLOCK FALSE
