SPECIFICATION Spec
CONSTANTS
    INT32_MAX = 7
    numPlayers = 2
    numRounds = 1
    stack <- mcStack
    blind <- mcBlind
    raiseSize <- mcRaiseSize
    noLimit = TRUE
    firstPlayer <- mcFirstPlayer
    maxRaises <- mcMaxRaises
    MaxNumActions = 64
    numHands = 2
    fixedSeats = FALSE
    strength <- mcStrength
    maxInvalidActions = 1
    maxResponse = 1
    maxUsedHand = 1
    maxUsedMatch = 2
    Answers <- mcFoldOrRaise
    Noise = {"garbage"}
    Quitters = {0}
    Memory = 2
    MaxInbox = 1
    MaxWait = 2
    MaxRestarts = 1
INVARIANTS
    FileRecreatesMatch
PROPERTIES
    ImplementsMatch
