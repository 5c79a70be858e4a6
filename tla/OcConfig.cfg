\* Two connection threads, one edit of the file.
SPECIFICATION OcSpec
CONSTANTS
    t1 = t1
    t2 = t2
    Threads = {t1, t2}
    Order <- OcOrder
    Contents <- Files
    NotAList = NotAList
    MaxEdits = 1
INVARIANT TreatedAsConfigured
INVARIANT ReloadIsFinished
SYMMETRY Symmetry
