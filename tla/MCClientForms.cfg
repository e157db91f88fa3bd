SPECIFICATION FairSpec
CONSTANTS
    a = a
    b = b
    x = x
    y = y
    Client = {a, b}
    Content = {x, y}
    Confidential = {x}
    None = None
    Existing = {b}
    Slot = {1, 2}
    MaxInputs = 3
    MaxEvents = 1
INVARIANTS TypeOK SecretMatchesClient UpdatesAccounted
PROPERTIES EntersSignedIn SavedMeansAnsweredOrUnsent UpdatesAreReported NavigationsSettle
CHECK_DEADLOCK FALSE
