------------------------------- MODULE GetLine -------------------------------
(***************************************************************************)
(* ACPCServer/net.c: getLine, which the dealer, the job server and every   *)
(* client read their lines with, called again and again on one ReadBuf     *)
(* while the peer writes a stream in pieces and then closes it.            *)
(***************************************************************************)
EXTENDS Integers, SequencesExt

CONSTANTS
    Streams,         \* what the peer may write: sequences of bytes
    READBUF_LEN,     \* size of ReadBuf's buffer
    maxLen,          \* the most characters of a line
    Timeouts,        \* what a caller may pass; negative: wait for ever
    TimeBits,        \* width of timeLeft, 64 in the code
    MaxTime,         \* bound: of the clock, from the start of a call
    MaxTimeouts      \* bound: calls that time out

ASSUME GetLineAssumption ==
    /\ Streams \subseteq Seq({"c", "\n"})
    /\ READBUF_LEN \in Nat \ {0} /\ maxLen \in Nat \ {0}
    /\ Timeouts \subseteq Int /\ TimeBits \in Nat
    /\ \A t \in Timeouts \cup {MaxTime} : t < 2 ^ TimeBits

VARIABLES
    stream,                 \* what the peer writes
    unsent, wire, closed,   \* the part that has not arrived, or is not read
    at,                     \* getLine: "returned", "copy", "wait" or "read"
    timeoutMicros,          \* its argument
    buf,                    \* readBuf, from bufStart to bufEnd
    line,                   \* the line so far
    clock, haveStartTime,   \* microseconds since `start'
    timeLeft,
    slept, waited,          \* time in this select, and in all of this call
    lines,                  \* ghost: the lines returned
    lost,                   \* ghost: did a call give up in the middle of one?
    timeouts                \* ghost: how many calls gave up

peer == <<stream, unsent, wire, closed>>
timer == <<clock, haveStartTime, timeLeft, slept, waited>>
results == <<lines, lost, timeouts>>
reader == <<peer, at, timeoutMicros, buf, line, timer, results>>

ReaderInit ==
    /\ stream \in Streams /\ unsent = stream /\ wire = << >> /\ closed = FALSE
    /\ at = "returned" /\ timeoutMicros = 0 /\ buf = << >> /\ line = << >>
    /\ clock = 0 /\ haveStartTime = FALSE /\ timeLeft = 0 /\ slept = 0 /\ waited = 0
    /\ lines = << >> /\ lost = FALSE /\ timeouts = 0

-----------------------------------------------------------------------------
AtEnd == closed /\ wire = << >> /\ buf = << >>

Call ==
    /\ at = "returned" /\ timeouts < MaxTimeouts /\ ~AtEnd
    /\ at' = "copy" /\ timeoutMicros' \in Timeouts /\ line' = << >> /\ haveStartTime' = FALSE /\ waited' = 0
    /\ UNCHANGED <<peer, buf, clock, timeLeft, slept, results>>

\* The test for the end of the buffer, and for that of `line'.
mustFill == buf = << >>
isFull(l) == Len(l) = maxLen

\* timeLeft is unsigned: the test for "less than 0" after it never holds.
timeRemaining(elapsed) == (timeoutMicros - elapsed) % 2 ^ TimeBits

Fill ==
    /\ at = "copy" /\ mustFill
    /\ IF timeoutMicros < 0
       THEN at' = "read" /\ UNCHANGED timer
       ELSE /\ at' = "wait" /\ haveStartTime' = TRUE /\ slept' = 0
            /\ IF haveStartTime
               THEN timeLeft' = timeRemaining(clock) /\ UNCHANGED clock
               ELSE timeLeft' = timeoutMicros /\ clock' = 0
            /\ UNCHANGED waited
    /\ UNCHANGED <<peer, timeoutMicros, buf, line, results>>

isReady == wire # << >> \/ closed

SelectReady ==
    /\ at = "wait" /\ isReady
    /\ at' = "read"
    /\ UNCHANGED <<peer, timeoutMicros, buf, line, timer, results>>

SelectTimesOut ==
    /\ at = "wait" /\ ~isReady /\ slept >= timeLeft
    /\ at' = "returned"
    /\ lost' = (lost \/ line # << >>) /\ timeouts' = timeouts + 1
    /\ UNCHANGED <<peer, timeoutMicros, buf, line, timer, lines>>

\* The line without its newline if the peer has closed the connection.
Return(l) == at' = "returned" /\ lines' = IF l = << >> THEN lines ELSE Append(lines, l)

Read ==
    /\ at = "read" /\ isReady
    /\ IF wire = << >>
       THEN Return(line) /\ UNCHANGED <<wire, buf>>
       ELSE \E n \in 1 .. READBUF_LEN :
                /\ n <= Len(wire)
                /\ n < READBUF_LEN => n = Len(wire)
                /\ buf' = SubSeq(wire, 1, n) /\ wire' = SubSeq(wire, n + 1, Len(wire))
                /\ at' = "copy" /\ UNCHANGED lines
    /\ UNCHANGED <<stream, unsent, closed, timeoutMicros, line, timer, lost, timeouts>>

\* ++readBuf->bufStart: what is behind a newline stays for the next call.
rest_Dropped(b) == << >>
rest(b) == Tail(b)

Copy ==
    /\ at = "copy" /\ ~mustFill
    /\ line' = Append(line, Head(buf)) /\ buf' = rest(buf)
    /\ IF Head(buf) = "\n" \/ isFull(line') THEN Return(line') ELSE UNCHANGED <<at, lines>>
    /\ UNCHANGED <<peer, timeoutMicros, timer, lost, timeouts>>

-----------------------------------------------------------------------------
\* Some of the stream arrives.
Arrive ==
    /\ unsent # << >>
    /\ \E n \in 1 .. Len(unsent) :
          /\ wire' = wire \o SubSeq(unsent, 1, n)
          /\ unsent' = SubSeq(unsent, n + 1, Len(unsent))
    /\ UNCHANGED <<stream, closed, at, timeoutMicros, buf, line, timer, results>>

Close ==
    /\ unsent = << >> /\ ~closed /\ closed' = TRUE
    /\ UNCHANGED <<stream, unsent, wire, at, timeoutMicros, buf, line, timer, results>>

\* Time passes while getLine waits, or while it runs; a select that can return
\* returns first.
Tick ==
    /\ at # "returned" /\ haveStartTime /\ clock < MaxTime
    /\ at = "wait" => ~isReady /\ slept < timeLeft
    /\ clock' = clock + 1
    /\ IF at = "wait" THEN slept' = slept + 1 /\ waited' = waited + 1
                      ELSE UNCHANGED <<slept, waited>>
    /\ UNCHANGED <<peer, at, timeoutMicros, buf, line, haveStartTime, timeLeft, results>>

ReaderNext == Call \/ Fill \/ SelectReady \/ SelectTimesOut \/ Read \/ Copy
        \/ Arrive \/ Close \/ Tick

ReaderSpec == ReaderInit /\ [][ReaderNext]_reader

-----------------------------------------------------------------------------
\* The lines of the stream, read by their definition: up to and with a newline
\* or maxLen characters, and what is left at its end.
put(sofar, byte) ==
    LET l == Append(sofar.line, byte)
    IN IF byte = "\n" \/ isFull(l)
       THEN [line |-> << >>, lines |-> Append(sofar.lines, l)]
       ELSE [sofar EXCEPT !.line = l]

\* What the first n bytes make, for every n.
madeOf(bytes) ==
    LET of[n \in 0 .. Len(bytes)] ==
            IF n = 0 THEN [line |-> << >>, lines |-> << >>] ELSE put(of[n - 1], bytes[n])
    IN of

StreamLines ==
    LET end == madeOf(stream)[Len(stream)]
    IN IF end.line = << >> THEN end.lines ELSE Append(end.lines, end.line)

\* Wherever the stream is cut into packets and buffers, and however long it
\* takes: the lines are those of the stream, all of them once it is closed, as
\* long as no call gave up in the middle of one.  A call that gives up loses the
\* beginning of one line and nothing else: the next calls return its end and the
\* lines that follow it, in their order, and none is missing but a last one that
\* has no newline.  (The end of a line that is too long may be cut elsewhere.)
LinesAreTheStreams ==
    /\ ~lost => /\ IsPrefix(lines, StreamLines)
                /\ at = "returned" /\ AtEnd => Len(lines) = Len(StreamLines)
    /\ (\A i \in DOMAIN StreamLines : Len(StreamLines[i]) < maxLen) =>
          /\ \A i \in DOMAIN lines : i \in DOMAIN StreamLines /\ IsSuffix(lines[i], StreamLines[i])
          /\ at = "returned" /\ AtEnd => Len(lines) + 1 >= Len(StreamLines)

\* "if timeoutMicros is non-negative, do not spend more than that number of
\* microseconds waiting to read data".
WaitsWithinTimeout == timeoutMicros >= 0 => waited <= timeoutMicros
=============================================================================
