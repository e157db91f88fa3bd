SPECIFICATION Spec
CONSTANTS
    c1 = c1
    c2 = c2
    n1 = n1
    n2 = n2
    r1 = r1
    r2 = r2
    p0 = p0
    p1 = p1
    None = None
    ClientId = {c1, c2}
    DisplayName = {n1, n2}
    Form <- FormsOf
    Entry <- EntryOf
    Request = {r1}
    Pass = {p0, p1}
    StartupPass = p0
    MaxEvents = 3
PROPERTIES StaticClientsUndeletable
CHECK_DEADLOCK FALSE
