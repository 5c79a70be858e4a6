\* WatchPupPy and one batch of a user at a time, started twice, with any two faults.
SPECIFICATION FairSpec
CONSTANTS
    Child = Child
    m1 = m1
    Manual = {m1}
    NoBatch = NoBatch
    Interval = 2
    EnvChecks = 2
    Timeout = 1
    SleepAfterErr = 1
    BreakOnError = FALSE
    Faults = {"envCheck", "iniWrite", "batchError", "batchDies", "userBreak", "rollOver"}
    MaxManual = 2
    MaxFaults = 2
INVARIANT TypeOK
INVARIANT OneBatchOrBroken
PROPERTY SyncGoesOn
