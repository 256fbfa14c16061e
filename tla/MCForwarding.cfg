SPECIFICATION FairSpec
CONSTANTS
    s1 = s1
    s2 = s2
    s3 = s3
    a = a
    b = b
    Session = {s1, s2, s3}
    Id = {a, b}
    IdOf <- MCIdOf
    MaySend <- MCMaySend
    Reply = Reply
    Ignored = Ignored
    NoSession = NoSession
    Quota <- MCQuota
    Cap = 1
CHECK_DEADLOCK FALSE
INVARIANTS
    TypeOK
    PerSenderOrder
    OnlyAddressed
    NoGaps
PROPERTY ReadLoopsGoOn
