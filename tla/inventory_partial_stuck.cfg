\* A partial scan and a message deleted on a later page.
SPECIFICATION FairSpec
CONSTANTS
    NumMessages = 1
    MaxHistory = 2
    RetryLimit = 1
    s1 = s1
    s2 = s2
    ScanIds = {s1, s2}
    NoScan = NoScan
PROPERTY PartialScanEnds
