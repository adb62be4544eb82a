SPECIFICATION Spec
CONSTANTS
    Browsers = {tab}
    Requests = {r1, r2}
    UserIds = {u}
    IPs = {home, away}
    NoIP = NoIP
    Roles <- CoreRoles
    RoleUser = 0
    RoleAdmin = 3
    Gates <- Routes
    MaxAge = 1
    IPHashSet = TRUE
    HasStamp = TRUE
    StartTime = 1
    MaxTime = 3
    MaxChanges = 2
SYMMETRY Alike
INVARIANTS TypeOK  AdminStaysPut
PROPERTIES OldSessionsDead ClearedForGood
