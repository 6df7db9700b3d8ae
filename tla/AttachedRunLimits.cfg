SPECIFICATION Spec
CONSTANTS
    Timeout = 2
    PostKill = 2
    Reap = 1
    MaxOutput = 2
    MaxWritten = 3
    DaemonFails = FALSE
INVARIANT LimitsAreReported
