SPECIFICATION Spec
CONSTANTS
    Names <- MCNames
    Paths <- MCPaths
    Contents = {"old", "new"}
    Commit <- MCCommit
    Ignored <- MCIgnored
    Harnesses <- MCHarnesses
    Scorers <- MCScorers
    AllowedPaths <- MCAllowed
    ForbiddenPaths <- MCForbidden
    ExactPath <- MCExactPath
    Expected = "new"
    Correct = {"new"}
    MaxWrites = 1
INVARIANTS
    EvidenceIsComplete
    PathVerdictsAreRight
    SuccessIsOfTheTree
PROPERTY IsPartOfTheRun
