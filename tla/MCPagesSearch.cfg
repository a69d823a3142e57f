CONSTANTS
    Ids = {1, 2, 3, 4, 5}
    Scopes = {"prefix"}
    Titles = {1}
    LongTitles = {}
    Places = {1}
    Rows <- SearchRows
    FirstTables <- SearchTables
    Limit = 1
    MaxChanges = 0
    MaxListings = 1
    MaxFailures = 0
SPECIFICATION FairSpec
CHECK_DEADLOCK FALSE
INVARIANT
    SearchListsEveryMatch
