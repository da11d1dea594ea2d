SPECIFICATION mcSpec
CONSTANTS
    Streams <- mcStreams
    READBUF_LEN = 3
    maxLen = 4
    Timeouts <- mcTimeouts
    TimeBits = 3
    MaxTime = 3
    MaxTimeouts = 2
    MaxEntries = 4
    arguments <- mcArguments
    MaxDepth = 10
    MaxCards = 4
    MaxDeck = 7
    numPlayers = 2
    numRounds = 2
    stack <- mcStack
    blind <- mcBlind
    raiseSize <- mcRaiseSize
    noLimit = TRUE
    firstPlayer <- mcFirstPlayer
    maxRaises <- mcMaxRaises
    MaxNumActions = 64
    numHands = 2
    fixedSeats = FALSE
    strength <- mcStrength
    mySeat = 0
    ante = 2
    numHoleCards = 2
    numBoardCards <- mcNumBoardCards
    MAX_SUITS = 4
    MAX_RANKS = 13
    numSuits = 2
    numRanks = 3
    suitLimit = 4
    rankLimit = 13
    MAX_PLAYERS = 10
    MAX_ROUNDS = 4
    MAX_HOLE_CARDS = 3
    INT32_MAX = 134217727
    Memory = {0, 9}
    Files <- mcFiles
    OddLines <- mcOddLines
    MaxMistakes = 3
    Variants <- mcVariants
INVARIANTS
    EveryCardOnce
    LinesAreTheStreams
    PoolIsSound
    CellsFollowTheTree
    GameFilesAreRead
    CellsAreEvaluated
    EveryBoardOnce
    ButtonFollowsHand
    TableFits
    EquityIsShowdown
    BucketsAreHands
PROPERTIES
    ImplementsPool
CHECK_DEADLOCK FALSE
