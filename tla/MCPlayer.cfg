CONSTANTS
    a = a
    b = b
    u = u
    NoTrack = NoTrack
    Tracks = {a, b, u}
    Unavailable = {u}
    Limit = 3
    Albums <- MCAlbums
    MaxClicks = 5
    MaxTrouble = 2
SPECIFICATION PlayerSpec
CHECK_DEADLOCK FALSE
INVARIANTS
    CursorNamesTrack
    PlayingIsHeard
    SavedAtRest
