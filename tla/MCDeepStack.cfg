SPECIFICATION Spec
CONSTANTS
    INT32_MAX = 127
    numPlayers = 2
    numRounds = 2
    stack <- mcStack
    blind <- mcBlind
    raiseSize <- mcZero
    noLimit = TRUE
    firstPlayer <- mcZero
    maxRaises <- mcMaxRaises
    MaxNumActions = 64
    arguments <- mcArguments
    mySeat = 0
    matchHands = 2
INVARIANTS
    ReadsTheState
    AnswersAreValid
    TreeIsTheGame
    AssertsHold
    RangeIsMyHistory
    BoundIsMyLastAction
