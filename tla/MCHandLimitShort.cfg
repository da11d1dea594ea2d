SPECIFICATION Spec
CONSTANTS
    INT32_MAX = 127
    numPlayers = 2
    numRounds = 2
    stack <- mcStack
    blind <- mcBlind
    raiseSize <- mcRaiseSize
    noLimit = FALSE
    firstPlayer <- mcFirstPlayer
    maxRaises <- mcMaxRaises
    MaxNumActions = 64
INVARIANT
    MaxSpentIsLargestBet
