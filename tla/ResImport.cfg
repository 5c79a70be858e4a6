SPECIFICATION Spec
CONSTANTS
    JsonFiles = {1, 2}
    RciFiles = {r1}
    b1 = b1
    b2 = b2
    Bookings = {b1, b2}
    Contents <- MCContents
    MaxFaults = 2
INVARIANTS
    ProcessedDelivered
    LatestWins
PROPERTY
    ImportGoesOn
CHECK_DEADLOCK FALSE
