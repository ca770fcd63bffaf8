\* A new full scan against GMAIL_READONLY_INVENTORY_V1.md.
SPECIFICATION Spec
CONSTANTS
    NumMessages = 2
    MaxHistory = 2
    RetryLimit = 1
    s1 = s1
    s2 = s2
    ScanIds = {s1, s2}
    NoScan = NoScan
PROPERTY NewFullScanReplacesIndex
