SPECIFICATION Spec
CONSTANTS
    s1 = s1
    s2 = s2
    s3 = s3
    Server = {s1, s2, s3}
    Nil = Nil
    FirstLeader = s1
    MaxTerm = 2
    MaxInputs = 2
VIEW View
CHECK_DEADLOCK FALSE
INVARIANTS
    ReadInv
    ReadsAreCurrent
PROPERTIES
    ReadsAreAnswered
