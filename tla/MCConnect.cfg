SPECIFICATION FairSpec
CONSTANTS
    r1 = r1
    r2 = r2
    k1 = k1
    e1 = e1
    e2 = e2
    edge = edge
    None = None
    Request = {r1, r2}
    Client = {k1}
    ClientOf <- MCRetry
    EdgeIdOf <- MCAskEdge
    Session = {e1, e2}
    Edge = {e1, e2}
    Id = {edge}
    IdOf <- MCIds
CHECK_DEADLOCK FALSE
INVARIANTS
    TypeOK
    ResponseRouted
    NoDanglingChannel
    SoleRequestSafe
PROPERTIES
    EveryRequestReturns
    ShutdownCompletes
    IsRendezvous
