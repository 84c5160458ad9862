CONSTANTS
    NoModel = NoModel
    NoReq = NoReq
    a = a
    b = b
    x = x
    Model = {a, b, x}
    Unknown = {x}
    Req = {q}
    MaxConn = 2
    MaxCommand = 2
    MaxTrouble = 2
    MaxLost = 1
SPECIFICATION MCSpec
INVARIANTS TypeOK LoadedIsServed RunningIsCancellable LoadedIsListed
PROPERTIES CancelIsHandled WantedIsLoaded FailedIsRetried
CHECK_DEADLOCK FALSE
