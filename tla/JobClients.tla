----------------------------- MODULE JobClients -----------------------------
(***************************************************************************)
(* ACPCServer/bm_widget.c and bm_run_matches.c: the programs that people   *)
(* run to have matches played, put together with the job server and with   *)
(* the dealers and bots it starts.                                         *)
(*                                                                         *)
(* A widget passes the lines of its user on (WriteLine); bm_run_matches    *)
(* writes one line of its own.  Both then wait for lines "RUN host port"   *)
(* and start a bot for each, which connects to that port and so takes a    *)
(* seat of a match; all other lines are printed, which is left out.  A     *)
(* dealer plays when all its seats are taken, and ends when it has played. *)
(*                                                                         *)
(* A bot that is started when its dealer is gone cannot connect and ends:  *)
(* a RUN line is dropped with its dealer.  That another dealer may be      *)
(* given the same port is left out.                                        *)
(***************************************************************************)
EXTENDS BmServer

CONSTANT StartTimeout    \* startupTimeoutSecs # 0: dealers do not wait for ever

ASSUME ClientsAssumption == StartTimeout \in BOOLEAN

VARIABLES
    program,     \* of every connection: "none", "widget", or bm_run_matches:
                 \* "asks" before and "waits" after it has written its line
    told,        \* the RUN lines on their way to it, as <<match, player>>
    heard,       \* those that are in its ReadBuf
    seated,      \* the players of every match that have connected to its dealer
    gone,        \* ghost: those whose client ended before it started their bot
    stalled      \* the matches whose dealer a player keeps waiting

programs == <<program, told, heard, seated, gone, stalled>>
allVars == <<vars, programs>>

ClientsInit ==
    /\ Init
    /\ program = [c \in ConnEntries |-> "none"]
    /\ told = [c \in ConnEntries |-> << >>] /\ heard = told
    /\ seated = [e \in MatchEntries |-> {}] /\ gone = {} /\ stalled = {}

-----------------------------------------------------------------------------
(* The server, and what its steps mean to the clients.                     *)

\* sendStartMessage to every LOCAL player, in the order of the players.
StartTells ==
    /\ StartMatchJob
    /\ LET e == Head(jobs').match
           c == match[e].conn
           locals == SelectSeq([p \in DOMAIN match[e].players |-> p],
                               LAMBDA p : isTold(match[e], p))
           lines == [i \in DOMAIN locals |-> <<e, locals[i]>>]
       IN IF locals # << >> /\ conn[c].hungUp
          THEN gone' = gone \cup Range(lines) /\ UNCHANGED told
          ELSE told' = [told EXCEPT ![c] = @ \o lines] /\ UNCHANGED gone
    /\ UNCHANGED <<program, heard, seated, stalled>>

\* A new connection is that of a widget or of bm_run_matches.
Accepts ==
    /\ Select
    /\ IF knocking
       THEN \E kind \in {"widget", "asks"} : program' = [program EXCEPT ![NextEntry(conns)] = kind]
       ELSE UNCHANGED program
    /\ UNCHANGED <<told, heard, seated, gone, stalled>>

\* A client whose connection is closed ends (getLine returns 0).
ends(c) == c \in Range(conns.list) /\ (conn'[c].status = "closed" \/ conn'[c].hungUp)
clientsEnd ==
    /\ program' = [c \in ConnEntries |-> IF ends(c) THEN "none" ELSE program[c]]
    /\ told' = [c \in ConnEntries |-> IF ends(c) THEN << >> ELSE told[c]]
    /\ heard' = [c \in ConnEntries |-> IF ends(c) THEN << >> ELSE heard[c]]
    /\ gone' = gone \cup UNION {Range(told[c] \o heard[c]) : c \in {d \in ConnEntries : ends(d)}}
    /\ UNCHANGED <<seated, stalled>>

Serves == Serve /\ clientsEnd

ServerStep ==
    \/ StartTells \/ Accepts \/ Serves
    \/ (Reap \/ Sweep \/ NoMatchJob \/ EndOfLoop) /\ UNCHANGED programs

-----------------------------------------------------------------------------
(* The clients.                                                            *)

\* The user of a widget types a line, which it passes on.
PassesOn(c) == program[c] = "widget" /\ WriteLine(c) /\ UNCHANGED programs

\* bm_run_matches writes user, password and its request in a line; of such a
\* line validateLogon reads the first two words.
Asks(c) ==
    /\ program[c] = "asks" /\ pc \in {"select", "serve"} /\ Connected(c)
    /\ \E u \in Users :
          conn' = [conn EXCEPT ![c].arrived = Append(@, [kind |-> "logon", user |-> u])]
    /\ program' = [program EXCEPT ![c] = "waits"]
    /\ UNCHANGED <<pc, todo, knocking, conns, queue, running, told, heard, seated, gone, stalled>>

\* select finds lines of the server, and getLine reads them into its buffer;
\* the loop goes on until there are no more of them.
linesRead_First(c) == <<Head(told[c])>>
linesRead(c) == told[c]
Hears(c) ==
    /\ told[c] # << >> /\ heard[c] = << >>
    /\ heard' = [heard EXCEPT ![c] = linesRead(c)] /\ told' = [told EXCEPT ![c] = << >>]
    /\ UNCHANGED <<vars, program, seated, gone, stalled>>

\* A player for whom the dealer of match e waits.
Awaited(e, p) == IsRunning(e, 0) /\ p \notin seated[e]

\* The next RUN line of the buffer: a bot is forked, which connects.
StartsBot(c) ==
    /\ heard[c] # << >>
    /\ LET e == Head(heard[c])[1]
           p == Head(heard[c])[2]
       IN seated' = IF Awaited(e, p) THEN [seated EXCEPT ![e] = @ \cup {p}] ELSE seated
    /\ heard' = [heard EXCEPT ![c] = Tail(@)]
    /\ UNCHANGED <<vars, program, told, gone, stalled>>

\* A client ends or is ended; the bots it has started go on.
Leaves(c) == HangUp(c) /\ clientsEnd

ClientStep ==
    \/ Knock /\ UNCHANGED programs
    \/ \E c \in ConnEntries : PassesOn(c) \/ Asks(c) \/ Hears(c) \/ StartsBot(c) \/ Leaves(c)

-----------------------------------------------------------------------------
(* The dealers and the bots of the server.                                 *)

\* A bot that the server has started connects to the dealer.
BotConnects(e, p) ==
    /\ p # 0 /\ IsRunning(e, p) /\ Awaited(e, p)
    /\ seated' = [seated EXCEPT ![e] = @ \cup {p}]
    /\ UNCHANGED <<vars, program, told, heard, gone, stalled>>

withoutDealer(lines, e) == SelectSeq(lines, LAMBDA l : l[1] # e)

\* A process ends; when it is the dealer, nobody listens on its ports.
Ends(e, p) ==
    /\ Exit(e, p)
    /\ IF p = 0
       THEN /\ told' = [c \in ConnEntries |-> withoutDealer(told[c], e)]
            /\ heard' = [c \in ConnEntries |-> withoutDealer(heard[c], e)]
            /\ seated' = [seated EXCEPT ![e] = {}]
            /\ gone' = {s \in gone : s[1] # e} /\ stalled' = stalled \ {e}
       ELSE UNCHANGED <<told, heard, seated, gone, stalled>>
    /\ UNCHANGED program

\* A player that has connected may keep the dealer waiting for ever: its version is
\* read without a timeout, whether or not the others are there, a comment starts the
\* timeout of an answer anew before any time is charged, and what is left of a timeout
\* wraps around (see GetLine).
DealerWaits(e) ==
    /\ IsRunning(e, 0) /\ seated[e] # {} /\ e \notin stalled
    /\ stalled' = stalled \cup {e}
    /\ UNCHANGED <<vars, program, told, heard, seated, gone>>

\* A dealer must end when it was killed, and when it can play and no player keeps it
\* waiting, or when not all players connect in time.
hasAll(e) == seated[e] = DOMAIN match[e].players
killed(e) == \E i \in DOMAIN jobs : jobs[i].match = e /\ jobs[i].killed
DealerEnds(e) ==
    /\ killed(e) \/ (e \notin stalled /\ (StartTimeout \/ (e \in Queued /\ hasAll(e))))
    /\ Ends(e, 0)

\* A bot must end when its dealer has ended.
BotEnds(e, p) == p # 0 /\ ~IsRunning(e, 0) /\ Ends(e, p)

ProcessStep ==
    \E e \in MatchEntries :
        DealerWaits(e) \/ \E p \in AllProcs : Ends(e, p) \/ BotConnects(e, p)

ClientsNext ==
    \/ ServerStep \/ ClientStep \/ ProcessStep
    \/ (DealerHangs \/ Dead) /\ UNCHANGED programs

\* What is under way for a job and must happen: it comes to an end in a bounded
\* number of such steps.
JobGoesOn(e) ==
    DealerEnds(e) \/ \E p \in AllProcs : BotConnects(e, p) \/ BotEnds(e, p)

\* Programs run: the server, the loops of the clients that have something to
\* read, the bots on their way to their dealer, and what has to end.
ClientsSpec ==
    /\ ClientsInit /\ [][ClientsNext]_allVars
    /\ WF_allVars(ServerStep)
    /\ \A c \in ConnEntries : WF_allVars(Hears(c) \/ StartsBot(c))
    /\ \A e \in MatchEntries : WF_allVars(JobGoesOn(e))

-----------------------------------------------------------------------------
\* The match that is next needs more bots than the server may ever run.
HeldUp == \E e \in runnable : isBest(e) /\ maxRunningBots # 0 /\ botsInMatch(match[e]) > maxRunningBots

\* A dealer waits for a player that will not come: its bot has ended, or its
\* client has before it started one.
WaitsInVain ==
    /\ ~StartTimeout
    /\ \E i \in DOMAIN jobs :
          LET e == jobs[i].match
          IN \E p \in DOMAIN match[e].players :
                /\ Awaited(e, p)
                /\ <<e, p>> \in gone \/ (~isTold(match[e], p) /\ ~IsRunning(e, p))

\* No starvation: every match in the queue is at some time done with (run as
\* often as it was asked to, or cancelled), however many others are submitted,
\* whoever hangs up and whatever crashes.  What may stand against it is:
\* a dealer that prints no ports; a client that queries faster than
\* handleConnection answers, which goes on as long as there are lines; a player
\* that keeps its dealer waiting for ever, which the dealer's limits on time do not
\* prevent; a dealer without a start timeout that waits for a player who is gone;
\* and, as startMatchJob tries its best match and no other, a best match with more
\* bots than maxRunningBots.
EveryMatchEnds ==
    \/ <>[](pc = "serve")
    \/ \E e \in MatchEntries : <>[](e \in stalled)
    \/ \A e \in MatchEntries :
          (e \in Queued) ~> (e \notin Queued \/ pc = "dead" \/ HeldUp \/ WaitsInVain)

\* "bm_run_matches <bm_hostname> <bm_port> <username> <pw> run 2pl ...: Run
\* two-player limit matches" (printUsage): when the server has handled the line,
\* a match of that client is in the queue.
RequestsAreQueued ==
    \A c \in ConnEntries :
        pc = "select" /\ program[c] = "waits" /\ conn[c].status = "okay" =>
            \E e \in Queued : match[e].conn = c

=============================================================================
