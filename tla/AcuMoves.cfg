\* Moves of one unit, every kind of fault, under fairness.
SPECIFICATION FairSpec
CONSTANTS
    u1 = u1
    hA = hA
    hB = hB
    hX = hX
    Units = {u1}
    Hotels = {hA, hB, hX}
    SihotHotels = {hA, hB}
    NoHotel = NoHotel
    Rooms = {}
    NoRoom = NoRoom
    NoChange = NoChange
    NoEntry = NoEntry
    Poison = {}
    BreakOnError = FALSE
    Faults = {"crash", "shFail", "shLostReply"}
    MaxChanges = 4
    MaxFaults = 2
INVARIANT TypeOK
INVARIANT SentOrQueuedOrLate
INVARIANT OldHotelCancelledOrForgotten
PROPERTY MoveSyncedMeansCancelledOrRefused
PROPERTY EventuallySent
