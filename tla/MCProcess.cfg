SPECIFICATION FairSpec
CONSTANTS
    t1 = t1
    t2 = t2
    Tool = {t1, t2}
    NoKey = NoKey
    Missing = Missing
    Lost = Lost
    MaxEdits = 1
    WithAcme <- MCWithAcme
    Unusable = {}
INVARIANTS
    TypeOK
    SettingsKept
    RequestsServed
PROPERTIES
    KeysLeaveByRotation
    ReloadTakesEffect
    StopHonoured
CHECK_DEADLOCK FALSE
