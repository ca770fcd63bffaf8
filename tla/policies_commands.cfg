SPECIFICATION Spec
CONSTANTS
    x1 = x1  x2 = x2  x3 = x3
    CommandIds = {x1, x2, x3}
    DecisionIds = {x1, x2, x3}
    Names <- EachItsOwn
    Paths = {"map", "local"}
    Kinds = {"merge", "source_display_name"}
    Protectable = {"source"}
    MaxCommands = 4
    MaxPending = 2
    Maps <- OneMap
SYMMETRY Identifiers
INVARIANTS InForceIsDeclared UndoRestores ExecutedOnce ReceiptsTellTheLog ContextGoneIsNotApplied
PROPERTIES LogReplays RetryIsReplayed KeepsThePromise
