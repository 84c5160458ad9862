CONSTANTS
    Repo = {"guv"}
    NoRun = NoRun
    MaxCommit = 2
    FirstRun = 1
    MaxSlot = 0
    SweepSlot = {}
    MaxQueue = 3
    MaxTrouble = 0
    Kinds = {"tested"}
    InOrder = TRUE
SPECIFICATION Spec
INVARIANTS TestedIsCovered
CHECK_DEADLOCK FALSE
