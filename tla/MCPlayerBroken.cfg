CONSTANTS
    a = a
    b = b
    u = u
    NoTrack = NoTrack
    Tracks = {a, b, u}
    Unavailable = {u}
    Limit = 3
    Albums <- MCAlbums
    MaxClicks = 2
    MaxTrouble = 1
SPECIFICATION PlayerSpec
CHECK_DEADLOCK FALSE
INVARIANT
    FailedIsNotPlaying
