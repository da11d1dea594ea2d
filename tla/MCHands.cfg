SPECIFICATION Spec
CONSTANTS
    INT32_MAX = 127
    numPlayers = 3
    numRounds = 2
    stack <- mcStack
    blind <- mcBlind
    raiseSize <- mcRaiseSize
    noLimit = TRUE
    firstPlayer <- mcFirstPlayer
    maxRaises <- mcMaxRaises
    MaxNumActions = 6
    numHoleCards = 2
    numBoardCards <- mcNumBoardCards
    Ranks = {0, 1, 2}
INVARIANTS
    TypeOK
    SomeoneToAct
    AskedOnce
    DoActionAsserts
    MaxSpentIsLargestBet
    SidePotsAreFair
    ReadsBack
    NothingHiddenIsTold
PROPERTIES
    ChipsStayIn
    RoundsCloseMatched
