SPECIFICATION FairSpec
CONSTANTS
    t1 = t1
    t2 = t2
    u1 = u1
    u2 = u2
    Tab = {t1, t2}
    User = {u1, u2}
    None = None
    MaxEvents = 3
INVARIANTS TypeOK
PROPERTIES ExcusedOnce RequestsSettle
CHECK_DEADLOCK FALSE
