SPECIFICATION ReaderSpec
CONSTANTS
    Streams <- mcStreams
    READBUF_LEN = 3
    maxLen = 4
    Timeouts = {0}
    TimeBits = 3
    MaxTime = 3
    MaxTimeouts = 1
INVARIANTS
    WaitsWithinTimeout
CHECK_DEADLOCK FALSE
