SPECIFICATION PlayersSpec
CONSTANTS
    INT32_MAX = 127
    numPlayers = 2
    numRounds = 1
    stack <- mcStack
    blind <- mcBlind
    raiseSize <- mcRaiseSize
    noLimit = FALSE
    firstPlayer <- mcFirstPlayer
    maxRaises <- mcMaxRaises
    MaxNumActions = 64
    numHands = 2
    fixedSeats = FALSE
    strength <- mcStrength
    maxInvalidActions = 3
    maxResponse = 1
    maxUsedHand = 9
    maxUsedMatch = 9
    Answers <- mcAnswers
    Noise = {"comment", "malformed"}
    Quitters = {}
    Memory = 1
    MaxInbox = 4
    MaxWait = 0
    MaxRestarts = 1
    MaxExtra = 1
INVARIANTS
    LinesAreAwaited
    ChoicesHappen
    LogAddsUp
    EverySeatSeesTheState
PROPERTIES
    MatchEnds
