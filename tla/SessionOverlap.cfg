CONSTANTS
    q = q
    MaxConn = 2
    MaxChanges = 2
    InboxBound = 1
    Mishap = {"stale", "bad"}
    Cli <- OneCli
    Streamed <- None
SPECIFICATION FairSpec
INVARIANTS TypeOK ListedOnlyInSession
PROPERTIES EntryComesBack FastFailure ReconnectRestoresModel
CHECK_DEADLOCK FALSE
