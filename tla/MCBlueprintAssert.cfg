SPECIFICATION BlueprintSpec
CONSTANTS
    INT32_MAX = 127
    numPlayers = 2
    numRounds = 2
    stack <- mcStack
    blind <- mcBlind
    raiseSize <- mcRaiseSize
    noLimit = TRUE
    firstPlayer <- mcFirstPlayer
    maxRaises <- mcMaxRaises
    MaxNumActions = 64
    numHands = 2
    fixedSeats = FALSE
    strength <- mcStrength
    mySeat = 0
    ante = 2
INVARIANTS
    AssertHolds
