CONSTANTS
    NoNode = 0
    AnyModel = AnyModel
    big = big
    small = small
    Model = {big, small}
    Node = {1, 2}
    Cand <- MCCand
    c1 = c1
    c2 = c2
    Control = {c1, c2}
    Stream = {}
    Work = {w1, w2}
    WantModel <- AnyWantModel
    WantNode <- AnyWantNode
    ControlRole = {}
    WorkRole = {}
    Flaky = {1}
SPECIFICATION MCSpec
SYMMETRY WorkSymmetry
INVARIANTS TypeOK InFlightIsTrue NoStreamLeft
PROPERTIES EntryRemoval WorkGoesToIdleMachine ImplementsClaims
CHECK_DEADLOCK FALSE
