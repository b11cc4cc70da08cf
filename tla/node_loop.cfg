SPECIFICATION Spec
CONSTANTS
    c1 = c1
    c2 = c2
    App1 = App1
    s1 = s1
    s2 = s2
    None = None
    Caller = {c1, c2, App1}
    App = App1
    Leaders = {s1, s2}
    TickBuffer = 1
    MaxCalls = 4
CHECK_DEADLOCK FALSE
INVARIANTS
    NodeInv
    NothingLost
PROPERTIES
    CallsReturn
    ProposalsServed
