CONSTANTS
    Ids = {1, 2, 3}
    Scopes = {"tracks", "artist", "recent", "album", "fts", "prefix"}
    Titles = {1, 2, 3}
    LongTitles = {3}
    Places = {1, 2}
    Rows <- MCRows
    FirstTables <- MCFirstTables
    Limit = 1
    MaxChanges = 2
    MaxListings = 1
    MaxFailures = 1
SPECIFICATION FairSpec
CHECK_DEADLOCK FALSE
INVARIANTS
    ListedOnce
PROPERTIES
    ListingEnds
