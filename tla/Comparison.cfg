SPECIFICATION Spec
CONSTANTS
    Calls = {"baseline", "candidate", "other"}
    Baseline = "baseline"
    Candidate = "candidate"
    Versions = {"v1", "v2", "v3"}
    First = "v1"
    Revision <- MCRevision
    Models = {"m1", "m2"}
    FirstModel = "m1"
    Images = {"i1", "i2"}
    FirstImage = "i1"
    Outcomes <- MCOutcomes
    MaxChanges = 1
INVARIANTS
    HalfMadeHasAnOwner
    RunsArePinned
    SomeoneWins
    ReportIsTrue
PROPERTIES
    EveryCallEnds
    CallsGetOn
