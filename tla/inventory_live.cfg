\* Calls return and full scans end.
SPECIFICATION FairSpec
CONSTANTS
    NumMessages = 1
    MaxHistory = 2
    RetryLimit = 2
    s1 = s1
    s2 = s2
    ScanIds = {s1, s2}
    NoScan = NoScan
PROPERTIES
    CallReturns
    FullScanEnds
