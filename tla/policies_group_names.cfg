SPECIFICATION Spec
CONSTANTS
    x1 = x1  x2 = x2  x3 = x3
    CommandIds = {x1, x2, x3}
    DecisionIds = {x1, x2, x3}
    Names <- EachItsOwn
    Paths = {"map"}
    Kinds = {"source_display_name", "partition"}
    Protectable = {}
    MaxCommands = 3
    MaxPending = 1
    Maps <- OneMap
SYMMETRY Identifiers
INVARIANTS PreparedIsRecorded
