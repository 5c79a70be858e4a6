\* Two reservations; Salesforce rejects the first data of one of them; fair threads.
SPECIFICATION FairSpec
CONSTANTS
    r1 = r1
    r2 = r2
    h1 = h1
    Res = {r1, r2}
    NoRes = NoRes
    Handlers = {h1}
    AcuKnown = {r1}
    Poison = {r2}
    Faults = {"sfFail", "sfLostReply", "sfDelete", "shFail"}
    MaxChanges = 2
    MaxRoomChanges = 0
    MaxFaults = 2
INVARIANT ResDelivered
PROPERTY EventuallyDelivered
