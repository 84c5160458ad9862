CONSTANTS
    NoNode = 0
    AnyModel = AnyModel
    big = big
    small = small
    Model = {big, small}
    Node = {1}
    Cand <- OneMachine
    Control = {c1}
    Stream = {s1}
    Work = {w1}
    WantModel <- AnyWantModel
    WantNode <- AnyWantNode
    ControlRole = {}
    WorkRole = {}
    Flaky = {1}
SPECIFICATION MCSpec
PROPERTIES WorkIsReported UnwantedStreamsStop
CHECK_DEADLOCK FALSE
