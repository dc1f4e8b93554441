\* Two control requests at a time, and a user who clicks.
SPECIFICATION Spec
CONSTANTS
    Threads = {t1, t2}
    UI = UI
    mp4 = mp4
    mkv = mkv
    avi = avi
    jpg = jpg
    png = png
    Mp4 = {mp4}
    Mkv = {mkv}
    Wmv = {}
    Asf = {}
    Unsupported = {avi}
    Images = {jpg, png}
    NoPort = {}
    NoUrl = NoUrl
    Offers <- MCTwoOffers
    MaxInputs = 3
SYMMETRY Symmetry
INVARIANTS
    StateFollowsPlayer
    RowsCatchUp
    NullNeedsInterference
PROPERTIES
    ListedWereTested
CHECK_DEADLOCK FALSE
