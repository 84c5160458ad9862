CONSTANTS
    Repo = {"guv"}
    NoRun = NoRun
    MaxCommit = 2
    FirstRun = 1
    MaxSlot = 3
    SweepSlot = {3}
    MaxQueue = 3
    MaxTrouble = 1
    Kinds = {"manual", "tested"}
    InOrder = FALSE
SPECIFICATION FairSpec
INVARIANTS TypeOK FrontIsExecuting RowIsExecuting
PROPERTIES ImplementsLog GapsAreTold SlotIsReviewed InterruptedRunsAgain
CHECK_DEADLOCK FALSE
