\* The Reservation Opportunity is deleted twice while it is synced.
SPECIFICATION Spec
CONSTANTS
    r1 = r1
    h1 = h1
    Res = {r1}
    NoRes = NoRes
    Handlers = {h1}
    AcuKnown = {}
    Poison = {}
    Faults = {"sfDelete", "sfFail", "shFail"}
    MaxChanges = 2
    MaxRoomChanges = 2
    MaxFaults = 2
INVARIANT RowHoldsNewestOpp
PROPERTY NoDuplicateOpp
