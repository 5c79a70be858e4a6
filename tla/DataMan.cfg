SPECIFICATION Spec
CONSTANTS
    k1 = k1
    k2 = k2
    k3 = k3
    v1 = v1
    v2 = v2
    Keys = {k1, k2, k3}
    Values = {v1, v2}
    Referred = {k1}
    Guests <- MCGuests
    None = None
    Runs <- MCRuns
    Start <- MCStart
    StartAccounts <- MCStartAccounts
    MaxRuns = 2
    MaxChanges = 1
    MaxFaults = 1
INVARIANTS
    LastPullWins
    ZeroMeansAll
    PushedIsEqual
    LoginNotRepeated
    OneAccount
    OneExtRef
CHECK_DEADLOCK FALSE
