SPECIFICATION Spec
CONSTANTS
    g1 = g1  g2 = g2  d1 = d1  r1 = r1  r2 = r2  alice = alice  e1 = e1
    None = None
    Registrations = {g1, g2}
    Usernames = {alice}
    Emails = {e1}
    Devices = {d1}
    AccessTtl = 1
    MaxClock = 2
    Requests = {r1, r2}
    ContestStart = 1
    ContestEnd = 1
    MaxFaults = 1
INVARIANTS
    TypeOK
    RowsMatchMessages
    FreezeMissesOnlySlowRequests
    AccessNeedsALogin
SYMMETRY Symmetry
CHECK_DEADLOCK FALSE
