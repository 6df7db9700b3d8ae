SPECIFICATION Spec
CONSTANTS
    Timeout = 2
    PostKill = 2
    Reap = 1
    MaxOutput = 2
    MaxWritten = 3
    DaemonFails = TRUE
INVARIANTS
    TypeOK
    NoSilentLoss
    FlagsAreTruthful
    BoundedWait
    NoProcessSurvives
PROPERTY EveryRunEnds
