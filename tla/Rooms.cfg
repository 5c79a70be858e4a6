\* Three events of Sihot on three days, notified to AcuServer or to BssServer, with a
\* fault of any kind, and a run of the log checker.
SPECIFICATION Spec
CONSTANTS
    a1 = a1
    a2 = a2
    a3 = a3
    b1 = b1
    g1 = g1
    g2 = g2
    Alloc = {a1, a2, a3, b1}
    NoAlloc = NoAlloc
    Apt <- MCApt
    Gds <- MCGds
    Sub <- MCSub
    Arrive <- MCArrive
    Depart <- MCDepart
    Hours = {1, 3}
    MaxDay = 2
    Servers = {"AcuServer", "BssServer"}
    MaxEvents = 3
    Faults = {"lost", "refused", "reordered", "noGds"}
    MaxFaults = 1
    MaxDaysDiff = 1
    CheckDaysDiff = 1
    WholeDays = FALSE
    MaxChecks = 1
    MainSubs = {"1/1", "2/1"}
    Rental = {g2}
CHECK_DEADLOCK FALSE
INVARIANT StatusTimes
INVARIANT AllocAgrees
INVARIANT CheckRepairs
INVARIANT CacheAgrees
INVARIANT NotInTwoRooms
