\* Two messages, two changes, two scans and every interruption.
SPECIFICATION MCSpec
CONSTANTS
    NumMessages = 2
    MaxHistory = 2
    RetryLimit = 1
    s1 = s1
    s2 = s2
    ScanIds = {s1, s2}
    NoScan = NoScan
SYMMETRY ScanSymmetry
INVARIANTS
    TypeOK
    CoverageInv
    CompletedIndexCovered
    PartialCursorCovered
    FullCursorCovered
PROPERTIES
    HistoryIdNeverGoesBack
    CursorNeverGoesBack
    ResultTellsTheIndex
