\* One reservation, two connection threads, every kind of fault.
SPECIFICATION Spec
CONSTANTS
    r1 = r1
    h1 = h1
    h2 = h2
    Res = {r1}
    NoRes = NoRes
    Handlers = {h1, h2}
    AcuKnown = {}
    Poison = {}
    Faults = {"crash", "sfFail", "sfLostReply", "sfDelete", "dbFail", "shFail"}
    MaxChanges = 2
    MaxRoomChanges = 2
    MaxFaults = 1
INVARIANT TypeOK
INVARIANT ResDeliveredOrExcused
INVARIANT RoomDeliveredOrExcused
PROPERTY ReplicaSpec
SYMMETRY Symmetry
