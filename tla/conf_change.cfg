SPECIFICATION Spec
CONSTANTS
    Id = {p1, p2, p3, p4}
    MaxChanges = 2
INVARIANTS
    ConfigInv
    OutcomeAsAsked
PROPERTIES
    QuorumsMeet
