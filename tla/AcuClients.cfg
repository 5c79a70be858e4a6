\* Two clients of one reservation, both programs, a fault of any kind; fair runs.
SPECIFICATION FairSpec
CONSTANTS
    c1 = c1
    c2 = c2
    r1 = r1
    Clients = {c1, c2}
    Couples = {c1}
    MayBePseudo = {c2}
    MayBeRefused <- Refusals
    Options <- Configurations
    Res = {r1}
    NoClient = NoClient
    NoRes = NoRes
    NoEntry = NoEntry
    Faults = {"crash", "shFail", "shLostReply"}
    MaxEvents = 2
INVARIANT ClientSentOrQueued
PROPERTY ResOfKnownGuests
PROPERTY EventuallySynced
