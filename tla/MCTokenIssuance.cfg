SPECIFICATION Spec
CONSTANTS
    k1 = k1
    k2 = k2
    c1 = c1
    c2 = c2
    u1 = u1
    r1 = r1
    r2 = r2
    offline = offline
    api = api
    Chain = {k1, k2}
    Client = {c1, c2}
    User = {u1}
    Scope = {offline, api}
    Offline = offline
    None = None
    Request = {r1, r2}
    MaxIssued = 4
    MaxEvents = 1
SYMMETRY Symmetry
INVARIANTS TypeOK SkipHonoured RefreshNeedsUser
PROPERTIES ImplementsGrants
CHECK_DEADLOCK FALSE
