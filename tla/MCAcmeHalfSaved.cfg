SPECIFICATION FairSpec
CONSTANTS
    RenewBefore = 2
    Lifetime = 4
    Absent = Absent
    Torn = Torn
    NoCert = NoCert
    MaxTime = 6
    MaxAccounts = 2
    MaxIssued = 3
CHECK_DEADLOCK FALSE
PROPERTY EveryStartGetsAccount
