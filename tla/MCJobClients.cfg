SPECIFICATION ClientsSpec
CONSTANTS
    users <- mcUsers
    Games = {"limit", "nolimit"}
    maxRunningJobs <- mcJobs
    maxRunningBots = 1
    maxMatchRuns <- mcRuns
    Specs <- mcSpecs
    OtherLines = {"query"}
    MaxConns = 1
    MaxMatches = 2
    MaxLines = 2
    DealersMayHang = TRUE
    Leavers = {1}
    StartTimeout = FALSE
INVARIANTS
    OneJobPerMatch
    LimitsHold
    MatchesHaveTheirClients
PROPERTIES
    EveryMatchEnds
