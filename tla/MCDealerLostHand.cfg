SPECIFICATION Spec
CONSTANTS
    INT32_MAX = 7
    numPlayers = 2
    numRounds = 1
    stack <- mcStack
    blind <- mcBlind
    raiseSize <- mcRaiseSize
    noLimit = TRUE
    firstPlayer <- mcFirstPlayer
    maxRaises <- mcMaxRaises
    MaxNumActions = 64
    numHands = 2
    fixedSeats = FALSE
    strength <- mcStrength
    maxInvalidActions = 1
    maxResponse = 1
    maxUsedHand = 9
    maxUsedMatch = 9
    Answers <- mcCallOnly
    Noise = {}
    Quitters = {}
    Memory = 1
    MaxInbox = 1
    MaxWait = 0
    MaxRestarts = 1
INVARIANTS
    LogHasEveryHand
