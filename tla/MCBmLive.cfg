SPECIFICATION SteadySpec
CONSTANTS
    users <- mcUsers
    Games = {"limit"}
    maxRunningJobs <- mcJobs
    maxRunningBots = 0
    maxMatchRuns <- mcRuns
    Specs <- mcSpecs
    OtherLines = {}
    MaxConns = 2
    MaxMatches = 3
    MaxLines = 1
    DealersMayHang = FALSE
    Leavers = {}
PROPERTIES
    EveryMatchIsServed
