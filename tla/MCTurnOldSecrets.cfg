SPECIFICATION Spec
CONSTANTS
    s1 = s1
    s2 = s2
    Secret = {s1, s2}
    NoSecret = NoSecret
    OldSecrets <- MCOldSecrets
    Login = {user}
    Password = Password
    Ttl <- MCTtl
    DefaultTtl = 1
    MaxTime = 3
    MaxCreds = 1
CHECK_DEADLOCK FALSE
INVARIANT OldSecretsAccepted
