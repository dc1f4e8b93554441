\* One control point at a time, and a user who clicks.
SPECIFICATION Spec
CONSTANTS
    Threads = {t1}
    UI = UI
    mp4 = mp4
    mkv = mkv
    avi = avi
    jpg = jpg
    png = png
    Mp4 = {mp4}
    Mkv = {mkv}
    Wmv = {}
    Asf = {}
    Unsupported = {avi}
    Images = {jpg, png}
    NoPort = {png}
    NoUrl = NoUrl
    Offers <- MCOffers
    MaxInputs = 5
INVARIANTS
    TypeOK
    NoBlankScreen
PROPERTIES
    URIOutcome
CHECK_DEADLOCK FALSE
