SPECIFICATION FairSpec
CONSTANTS
    s = s
    e = e
    n1 = n1
    n2 = n2
    Client = {s, e}
    Name = {n1, n2}
    None = None
    NoText = NoText
    Undefined = Undefined
    Static = {s}
    Confidential = {s}
    Local = {n2}
    Filter = {"all", "public"}
    Query <- Searches
    Fetch = {1, 2}
    Op = {1, 2}
    MaxEvents = 4
INVARIANTS TypeOK SummaryMatchesFilters DeletionsAccounted
PROPERTIES ImplementsConfirmation RowsLeaveOnSuccess DeletionsReported NotificationsEnd
CHECK_DEADLOCK FALSE
