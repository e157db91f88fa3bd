SPECIFICATION FairSpec
CONSTANTS
    t1 = t1
    t2 = t2
    u1 = u1
    u2 = u2
    Tab = {t1, t2}
    User = {u1}
    None = None
    MaxEvents = 3
PROPERTIES MaxAgeKept
CHECK_DEADLOCK FALSE
