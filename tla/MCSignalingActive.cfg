SPECIFICATION Spec
CONSTANTS
    s1 = s1
    s2 = s2
    a = a
    Session = {s1, s2}
    Id = {a}
    IdOf <- MCReconnect
    NoSession = NoSession
CHECK_DEADLOCK FALSE
INVARIANT NewConnectionActive
