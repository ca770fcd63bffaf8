SPECIFICATION Spec
CONSTANTS
    x1 = x1  x2 = x2  x3 = x3
    CommandIds = {x1, x2, x3}
    DecisionIds = {x1, x2, x3}
    Names <- EachItsOwn
    Paths = {"map"}
    Kinds = {"flow_intention", "merge", "partition", "protect"}
    Protectable = {"source"}
    MaxCommands = 3
    MaxPending = 1
    Maps <- BothMaps
SYMMETRY Identifiers
INVARIANTS TypeOK ViewIsComplete MapIsShown RecordedAsSeen RecordedApplies ProtectionFollowsTheMessage
