CONSTANTS
    NoNode = 0
    AnyModel = AnyModel
    big = big
    small = small
    Model = {big, small}
    Node = {1}
    Cand <- OneMachine
    Control = {c1}
    Stream = {}
    Work = {w1}
    WantModel <- AnyWantModel
    WantNode <- AnyWantNode
    ControlRole = {}
    WorkRole = {}
    Flaky = {}
SPECIFICATION Spec
INVARIANTS HomeCommandsFirst
CHECK_DEADLOCK FALSE
