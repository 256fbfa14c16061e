SPECIFICATION FairSpec
CONSTANTS
    s1 = s1
    s2 = s2
    a = a
    Session = {s1, s2}
    Id = {a}
    IdOf <- MCReconnect
    NoSession = NoSession
CHECK_DEADLOCK FALSE
INVARIANTS
    TypeOK
    SoleSessionReachable
    ListedAreConnected
PROPERTIES
    RegistryIsDirectory
    ConnectionsAreDirectory
    DeadPeerForgotten
    GoroutinesEnd
    StaleRecordRemoved
