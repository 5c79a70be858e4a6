SPECIFICATION Spec
CONSTANTS
    Sync = Sync
    Push = Push
    r1 = r1
    r2 = r2
    g1 = g1
    g2 = g2
    NoRes = NoRes
    Reservations = {r1, r2}
    Guests = {g1, g2}
    guests <- MCguests
    BreakOnError = FALSE
    MaxFaults = 1
INVARIANTS
    RightGuest
    OneClientPerId
PROPERTY
    ResStored
CHECK_DEADLOCK FALSE
