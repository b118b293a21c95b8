\* The same scan; what a hard block on integrity is said to do.
CONSTANTS
    Issuers <- MCIssuers
    Catalogue <- Book
    Cases <- MCCases
    MaxRelease = 1
SPECIFICATION Spec
INVARIANT HardBlockHolds
CHECK_DEADLOCK FALSE
