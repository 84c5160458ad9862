CONSTANTS
    Machine <- MCMachine
    ModelOf <- MCModelOf
    Capacity <- MCCapacity
    NChunk = 2
    NOpinion = 2
    Rotation <- MCRotation
    NFinding = 1
    Tokens <- MCTokens
    MaxPaused = 2
    MaxFailed = 2
    MaxPauses = 1
    MaxFailures = 1
    MaxConn = 3
    MaxHome = 1
    MaxGone = 2
    MaxTimeout = 1
    MaxQuestion = 1
SPECIFICATION MCSpec
INVARIANTS TypeOK MachineTakesOne AssignmentIsSound OpinionsDiffer EndedIsComplete
PROPERTIES CallEnds RunEnds QuestionEnds ImplementsClaims
CHECK_DEADLOCK FALSE
