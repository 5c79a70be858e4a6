\* Two units that exchange a room, breakOnError, under fairness.
SPECIFICATION FairSpec
CONSTANTS
    u1 = u1
    u2 = u2
    hA = hA
    m1 = m1
    Units = {u1, u2}
    Hotels = {hA}
    SihotHotels = {hA}
    NoHotel = NoHotel
    Rooms = {m1}
    NoRoom = NoRoom
    NoChange = NoChange
    NoEntry = NoEntry
    Poison = {}
    BreakOnError = TRUE
    Faults = {}
    MaxChanges = 2
    MaxFaults = 0
INVARIANT RoomSwapsFit
PROPERTY EventuallySent
