SPECIFICATION ClientsSpec
CONSTANTS
    users <- mcUsers
    Games = {"limit", "nolimit"}
    maxRunningJobs <- mcJobs
    maxRunningBots = 1
    maxMatchRuns <- mcRuns
    Specs <- mcSpecs
    OtherLines = {}
    MaxConns = 1
    MaxMatches = 1
    MaxLines = 1
    DealersMayHang = FALSE
    Leavers = {}
    StartTimeout = TRUE
INVARIANTS
    RequestsAreQueued
