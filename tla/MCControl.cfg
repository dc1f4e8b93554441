\* Two connections, three requests.
SPECIFICATION Spec
CONSTANTS
    Threads = {t1, t2}
    Set = Set
    Play = Play
    Actions = {Set, Play}
    URI = URI
    MetaData = MetaData
    Track = Track
    Speed = Speed
    InArgs <- MCIn
    OutArgs <- MCOut
    Hosts = {h1, h2}
    MaxRequests = 3
    NoAction = NoAction
    NoHost = NoHost
    Nobody = Nobody
SYMMETRY Symmetry
INVARIANTS
    TypeOK
    InputsAreCurrent
    RepliesAreCurrent
    AloneIsExact
    LostAtFirstUseOnly
    DescriptionNamesItsAddress
CHECK_DEADLOCK FALSE
