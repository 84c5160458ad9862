CONSTANTS
    q = q
    MaxConn = 2
    MaxChanges = 2
    InboxBound = 1
    Mishap = {}
    Cli <- None
    Streamed <- None
SPECIFICATION FairSpec
PROPERTIES ResidentModelIsListed
CHECK_DEADLOCK FALSE
