------------------------------ MODULE BmServer ------------------------------
(***************************************************************************)
(* ACPCServer/bm_server.c: one thread that goes round a loop (reap the     *)
(* jobs, drop closed connections, start matches, select, serve), between   *)
(* clients that connect, write lines and hang up, and the dealers and bots *)
(* it has forked.  pc is the part of the loop that comes next.             *)
(*                                                                         *)
(* The clocks are only compared, so they are kept as orders: `waiting' has *)
(* the users by waitStart and `matches.list' the matches by queueTime, the *)
(* earliest first.  No two readings are equal: a fork, a select or a line  *)
(* of the configuration lies between them.                                 *)
(***************************************************************************)
EXTENDS Pool, Integers, FiniteSets

CONSTANTS
    users,               \* the user lines of the configuration, in their order
    Games,
    maxRunningJobs,      \* of every game; 0 disables the check
    maxRunningBots,      \* of the server; 0 disables the check
    maxMatchRuns,        \* of every game
    Specs,               \* the RUNMATCHES commands the clients may write
    OtherLines,          \* and their other lines, see Line
    MaxConns, MaxMatches,   \* bounds: entries of the two pools
    MaxLines,            \* bound: lines of a client that are not handled yet
    DealersMayHang,      \* may a dealer fail to print its ports in time?
    Leavers              \* the connections whose clients may hang up

ConnEntries == 1 .. MaxConns
MatchEntries == 1 .. MaxMatches

\* RUNMATCHES: a LOCAL player is the client itself; tag and seed are left out.
Spec_(s) == /\ s.game \in Games /\ s.numRuns \in Int
            /\ s.players \in Seq({"LOCAL", "bot"}) /\ s.players # << >>

ASSUME BmAssumption ==
    /\ IsInjective(users)
    /\ maxRunningJobs \in [Games -> Nat] /\ maxMatchRuns \in [Games -> Nat]
    /\ maxRunningBots \in Nat
    /\ \A s \in Specs : Spec_(s)
    /\ OtherLines \subseteq {"badLogon", "badSpec", "query", "unknown"}
    /\ {MaxConns, MaxMatches, MaxLines} \subseteq Nat
    /\ DealersMayHang \in BOOLEAN /\ Leavers \subseteq ConnEntries

Users == Range(users)

Line == [kind : {"logon"}, user : Users] \cup [kind : {"run"}, spec : Specs]
        \cup [kind : OtherLines]

VARIABLES
    pc,          \* "reap", "sweep", "start", "select", "serve" or "dead"
    knocking,    \* is a client waiting to be accepted?
    conns,       \* serv->conns, a pool
    conn,        \* the Connection in every entry
    todo,        \* connections that select found ready and that are not served
    matches,     \* serv->matches, a pool, its list by queueTime
    match,       \* the Match in every entry
    waiting,     \* the users by waitStart
    jobs,        \* serv->jobs: the match and the processes of each
    curRunningJobs

clients == <<knocking, conns, conn>>
queue == <<matches, match, waiting>>
running == <<jobs, curRunningJobs>>
vars == <<pc, todo, clients, queue, running>>

newConn == [status |-> "unvalidated", user |-> "NULL",
            arrived |-> << >>, buf |-> << >>, hungUp |-> FALSE]

\* An entry that is not in the list; what it held is not read again.
noConn == [newConn EXCEPT !.status = "closed"]

Init ==
    /\ pc = "reap" /\ todo = << >>
    /\ knocking = FALSE /\ conns = newLLPool
    /\ conn = [c \in ConnEntries |-> noConn]
    /\ matches = newLLPool /\ match = << >>
    /\ waiting = users
    /\ jobs = << >> /\ curRunningJobs = [g \in Games |-> 0]

-----------------------------------------------------------------------------
(* The jobs that have finished, and the connections that were closed.      *)

\* A job: process 0 is the dealer, process p the bot of player p.  A process
\* is "none" where the code has a 0 for its PID.
Procs(m) == 0 .. Len(m.players)
AllProcs == UNION {Procs(s) : s \in Specs}

botsOf(m) == {p \in DOMAIN m.players : m.players[p] = "bot"}
botsInMatch(m) == Cardinality(botsOf(m))

\* waitpid on all processes that were still there.
reaped(job) ==
    [job EXCEPT !.procs = [p \in DOMAIN @ |-> IF @[p] = "exited" THEN "none" ELSE @[p]]]

allDone(job) == \A p \in DOMAIN job.procs : reaped(job).procs[p] = "none"

finished == {i \in DOMAIN jobs : allDone(jobs[i])}

\* checkIfJobFinished and finishedJob for every job; a process that exits
\* during the pass is seen in the next one.
Reap ==
    /\ pc = "reap" /\ pc' = "sweep"
    /\ jobs' = LET kept == Only(jobs, {j \in Range(jobs) : ~allDone(j)})
               IN [i \in DOMAIN kept |-> reaped(kept[i])]
    /\ curRunningJobs' =
          [g \in Games |-> curRunningJobs[g]
              - Cardinality({i \in finished : match[jobs[i].match].game = g})]
    /\ match' = [e \in DOMAIN match |->
                    IF \E i \in finished : jobs[i].match = e
                    THEN [match[e] EXCEPT !.isRunning = FALSE] ELSE match[e]]
    /\ UNCHANGED <<todo, clients, matches, waiting>>

\* Entries of closed connections are given back, in the order of the list.
Sweep ==
    /\ pc = "sweep" /\ pc' = "start"
    /\ conns' = LLPoolRemoveAll(conns, {c \in Range(conns.list) : conn[c].status = "closed"})
    /\ conn' = [c \in ConnEntries |-> IF c \in Range(conns'.list) THEN conn[c] ELSE noConn]
    /\ UNCHANGED <<todo, knocking, queue, running>>

-----------------------------------------------------------------------------
(* startMatchJob.                                                          *)

Queued == Range(matches.list)

\* Matches that are over are cleaned up on the way.
isOver_Running(m) == m.numRuns <= 0
isOver(m) == m.numRuns <= 0 /\ ~m.isRunning
cleanedUp == LLPoolRemoveAll(matches, {e \in Queued : isOver(match[e])})
stillQueued == Restrict(match, Range(cleanedUp.list))

tooBusy_OneMore(g) == maxRunningJobs[g] # 0 /\ curRunningJobs[g] > maxRunningJobs[g]
tooBusy(g) == maxRunningJobs[g] # 0 /\ curRunningJobs[g] >= maxRunningJobs[g]

runnable == {e \in Queued : /\ match[e].numRuns > 0 /\ ~match[e].isRunning
                            /\ ~tooBusy(match[e].game)}

isBefore(seq, a, b) == \E i, j \in DOMAIN seq : i < j /\ seq[i] = a /\ seq[j] = b

\* The match of the user who has waited longest, and of these the oldest.
isBest(e) ==
    /\ e \in runnable
    /\ \A f \in runnable \ {e} :
          \/ isBefore(waiting, match[e].user, match[f].user)
          \/ match[e].user = match[f].user /\ isBefore(matches.list, e, f)

\* The sum of botsInMatch over the jobs: their bots, whether they still run or not.
jobBots == UNION {{i} \X botsOf(match[jobs[i].match]) : i \in DOMAIN jobs}
botsRunning == Cardinality(jobBots)

botsFit_NotCounted(m) == maxRunningBots = 0 \/ botsInMatch(m) <= maxRunningBots
botsFit(m) == maxRunningBots = 0 \/ botsInMatch(m) + botsRunning <= maxRunningBots

\* What runMatchJob has started when it could tell every LOCAL player, or when
\* telling player upTo failed and the job was aborted: the dealer and the bots
\* before that player, which are all killed.
jobStarted(e, upTo) ==
    [match |-> e, killed |-> upTo <= Len(match[e].players),
     procs |-> [p \in Procs(match[e]) |->
                   IF p = 0 \/ (p < upTo /\ match[e].players[p] = "bot")
                   THEN "running" ELSE "none"]]

isTold(m, p) == m.players[p] = "LOCAL"

\* sendStartMessage may fail once the client has hung up.
MayAbortAt(e, p) ==
    p \in DOMAIN match[e].players /\ isTold(match[e], p) /\ conn[match[e].conn].hungUp

\* The user goes to the end of those who wait, the match to that of the queue.
requeued(m) == [m EXCEPT !.isRunning = TRUE, !.numRuns = @ - 1]
servedLast_Stays(u) == waiting
servedLast(u) == Append(Without(waiting, {u}), u)

StartMatchJob ==
    /\ pc = "start"
    /\ \E e \in runnable :
          /\ isBest(e) /\ botsFit(match[e])
          /\ \E upTo \in 1 .. Len(match[e].players) + 1 :
                /\ upTo <= Len(match[e].players) => MayAbortAt(e, upTo)
                /\ jobs' = <<jobStarted(e, upTo)>> \o jobs
          /\ curRunningJobs' = [curRunningJobs EXCEPT ![match[e].game] = @ + 1]
          /\ match' = [stillQueued EXCEPT ![e] = requeued(@)]
          /\ matches' = [cleanedUp EXCEPT !.list = Append(Without(@, {e}), e)]
          /\ waiting' = servedLast(match[e].user)
    /\ UNCHANGED <<pc, todo, clients>>

\* A dealer that prints no ports within BM_DEALER_WAIT_SECS ends the server.
DealerHangs ==
    /\ DealersMayHang
    /\ pc = "start" /\ pc' = "dead"
    /\ \E e \in runnable : isBest(e) /\ botsFit(match[e])
    /\ UNCHANGED <<todo, clients, queue, running>>

NoMatchJob ==
    /\ pc = "start" /\ pc' = "select"
    /\ ~\E e \in runnable : isBest(e) /\ botsFit(match[e])
    /\ matches' = cleanedUp /\ match' = stillQueued
    /\ UNCHANGED <<todo, clients, waiting, running>>

-----------------------------------------------------------------------------
(* Serving the connections.                                                *)

\* select, at most BM_MAX_IOWAIT_SECS long, and handleListenSocket.
Select ==
    /\ pc = "select" /\ pc' = "serve"
    /\ todo' = SelectSeq(conns.list, LAMBDA c : conn[c].arrived # << >> \/ conn[c].hungUp)
    /\ IF knocking
       THEN /\ conns' = LLPoolAddItem(conns)
            /\ conn' = [conn EXCEPT ![NextEntry(conns)] = newConn]
       ELSE UNCHANGED <<conns, conn>>
    /\ knocking' = FALSE
    /\ UNCHANGED <<queue, running>>

EndOfLoop == pc = "serve" /\ todo = << >> /\ pc' = "reap" /\ UNCHANGED <<todo, clients, queue, running>>

\* handleConnection goes on with its next line, or returns.
Returns == todo' = Tail(todo)
GoesOn == UNCHANGED todo

matchUsesConnection(m, c) == m.conn = c /\ \E p \in DOMAIN m.players : m.players[p] = "LOCAL"

\* closeConnection: no match that needs the connection is run again.
cancelled_Pending(c) ==
    [e \in DOMAIN match |->
        IF e \in Queued /\ matchUsesConnection(match[e], c) /\ ~match[e].isRunning
        THEN [match[e] EXCEPT !.numRuns = 0] ELSE match[e]]
cancelled(c) ==
    [e \in DOMAIN match |->
        IF e \in Queued /\ matchUsesConnection(match[e], c)
        THEN [match[e] EXCEPT !.numRuns = 0] ELSE match[e]]

closeConnection(c) ==
    /\ conn' = [conn EXCEPT ![c].status = "closed", ![c].buf = << >>, ![c].arrived = << >>]
    /\ match' = cancelled(c)
    /\ Returns
    /\ UNCHANGED <<pc, knocking, conns, matches, waiting, running>>

\* getLine reads all that has arrived when its buffer is empty.
Read ==
    LET c == Head(todo)
    IN /\ pc = "serve" /\ todo # << >> /\ conn[c].buf = << >> /\ conn[c].arrived # << >>
       /\ conn' = [conn EXCEPT ![c].buf = conn[c].arrived, ![c].arrived = << >>]
       /\ UNCHANGED <<pc, todo, knocking, conns, queue, running>>

\* getLine finds no line: the end of the input, or no input yet.
NoLine(c) == pc = "serve" /\ todo # << >> /\ c = Head(todo) /\ conn[c].buf \o conn[c].arrived = << >>

Closed(c) == NoLine(c) /\ conn[c].hungUp /\ closeConnection(c)

NothingToRead(c) ==
    /\ NoLine(c) /\ ~conn[c].hungUp /\ Returns
    /\ UNCHANGED <<pc, clients, queue, running>>

\* The line of connection c that is handled now.
Handles(c, kinds, status) ==
    /\ pc = "serve" /\ todo # << >> /\ c = Head(todo) /\ conn[c].buf # << >>
    /\ Head(conn[c].buf).kind \in kinds /\ conn[c].status = status

Logon(c) ==
    /\ Handles(c, {"logon"}, "unvalidated")
    /\ conn' = [conn EXCEPT ![c].status = "okay", ![c].user = Head(conn[c].buf).user,
                            ![c].buf = Tail(@)]
    /\ Returns
    /\ UNCHANGED <<pc, knocking, conns, queue, running>>

BadLogon(c) ==
    /\ Handles(c, {"run"} \cup OtherLines, "unvalidated")
    /\ closeConnection(c)

\* HELP, GAMES and QSTAT are answered, and the next line is handled.
Query(c) ==
    /\ Handles(c, {"query"}, "okay")
    /\ conn' = [conn EXCEPT ![c].buf = Tail(@)]
    /\ GoesOn
    /\ UNCHANGED <<pc, knocking, conns, queue, running>>

\* parseMatchSpec refuses more runs than the game allows, and not 0 runs.
specOK(s) == 0 <= s.numRuns /\ s.numRuns <= maxMatchRuns[s.game]

newMatch(c, s) ==
    [user |-> conn[c].user, game |-> s.game, numRuns |-> s.numRuns,
     players |-> s.players, conn |-> c, isRunning |-> FALSE]

RunMatches(c) ==
    LET s == Head(conn[c].buf).spec
        e == NextEntry(matches)
    IN /\ Handles(c, {"run"}, "okay") /\ specOK(s) /\ e \in MatchEntries
       /\ match' = [d \in Queued \cup {e} |-> IF d = e THEN newMatch(c, s) ELSE match[d]]
       /\ matches' = [LLPoolAddItem(matches) EXCEPT !.list = Append(matches.list, e)]
       /\ conn' = [conn EXCEPT ![c].buf = Tail(@)]
       /\ Returns
       /\ UNCHANGED <<pc, knocking, conns, waiting, running>>

\* Everything else is answered with an error; a second logon is no command.
BadCommand(c) ==
    /\ \/ Handles(c, {"badSpec", "unknown", "badLogon", "logon"}, "okay")
       \/ Handles(c, {"run"}, "okay") /\ ~specOK(Head(conn[c].buf).spec)
    /\ conn' = [conn EXCEPT ![c].buf = Tail(@)]
    /\ Returns
    /\ UNCHANGED <<pc, knocking, conns, queue, running>>

Answer(c) == Logon(c) \/ BadLogon(c) \/ RunMatches(c) \/ BadCommand(c)

Serve == Read \/ \E c \in ConnEntries : Answer(c) \/ Query(c) \/ NothingToRead(c) \/ Closed(c)

-----------------------------------------------------------------------------
(* The clients and the processes.  The server looks for clients and lines  *)
(* when it selects and serves: they arrive then, the order is the same.  A *)
(* client that hangs up is noticed then or by a message that starts a job. *)
(* What happens after the end of the server is left out.                   *)

Knock ==
    /\ pc = "select" /\ ~knocking /\ Len(conns.list) < MaxConns
    /\ knocking' = TRUE
    /\ UNCHANGED <<pc, todo, conns, conn, queue, running>>

Connected(c) == c \in Range(conns.list) /\ conn[c].status # "closed" /\ ~conn[c].hungUp

Unhandled(c) == Len(conn[c].arrived) + Len(conn[c].buf)

\* Matches that are queued or on their way to the server.
Requests ==
    LET isRun(l) == l.kind = "run"
        ofConn(c) == Len(SelectSeq(conn[c].arrived \o conn[c].buf, isRun))
    IN Len(matches.list) + FoldFunction(+, 0, [c \in ConnEntries |-> ofConn(c)])

WriteLine(c) ==
    /\ pc \in {"select", "serve"} /\ Connected(c) /\ Unhandled(c) < MaxLines
    /\ \E l \in Line :
          /\ l.kind = "run" => Requests < MaxMatches
          /\ conn' = [conn EXCEPT ![c].arrived = Append(@, l)]
    /\ UNCHANGED <<pc, todo, knocking, conns, queue, running>>

HangUp(c) ==
    /\ c \in Leavers /\ Connected(c) /\ pc \in {"start", "select", "serve"}
    /\ conn' = [conn EXCEPT ![c].hungUp = TRUE]
    /\ UNCHANGED <<pc, todo, knocking, conns, queue, running>>

IsRunning(e, p) ==
    \E i \in DOMAIN jobs :
        jobs[i].match = e /\ p \in DOMAIN jobs[i].procs /\ jobs[i].procs[p] = "running"

\* A dealer or a bot comes to its end: the match is over, it was killed, or it
\* has crashed.
Exit(e, p) ==
    /\ IsRunning(e, p) /\ pc # "dead"
    /\ \E i \in DOMAIN jobs :
          /\ jobs[i].match = e
          /\ jobs' = [jobs EXCEPT ![i].procs[p] = "exited"]
    /\ UNCHANGED <<pc, todo, clients, queue, curRunningJobs>>

Dead == pc = "dead" /\ UNCHANGED vars

Jobs == Reap \/ Sweep \/ StartMatchJob \/ NoMatchJob \/ Select \/ EndOfLoop

Server == Jobs \/ Serve

Processes == \E e \in MatchEntries, p \in AllProcs : Exit(e, p)

\* Without hang-ups, queries and dealers that hang, which JobClients adds: the
\* server runs, and every process it starts comes to its end.
SteadyServer == Jobs \/ Read \/ \E c \in ConnEntries : Answer(c)
SteadyNext == SteadyServer \/ Knock \/ (\E c \in ConnEntries : WriteLine(c)) \/ Processes
SteadySpec == /\ Init /\ [][SteadyNext]_vars /\ WF_vars(SteadyServer)
              /\ \A e \in MatchEntries, p \in AllProcs : WF_vars(Exit(e, p))

-----------------------------------------------------------------------------
\* A match has a job exactly while it is marked as running, and never two; a
\* job never refers to an entry of the match pool that was given back.
OneJobPerMatch ==
    /\ \A i, j \in DOMAIN jobs : i # j => jobs[i].match # jobs[j].match
    /\ \A i \in DOMAIN jobs : jobs[i].match \in Queued
    /\ \A e \in Queued : match[e].isRunning <=> \E i \in DOMAIN jobs : jobs[i].match = e

\* The bots that run, those of aborted jobs and of jobs whose dealer has ended
\* included.
RunningBots ==
    UNION {{i} \X {p \in DOMAIN jobs[i].procs \ {0} : jobs[i].procs[p] = "running"} :
              i \in DOMAIN jobs}

\* The limits of the configuration hold of the processes themselves, started
\* and ended in whatever order: curRunningJobs counts the jobs of every game and
\* stays within its limit, and so do the "simultaneous bots at a time".
LimitsHold ==
    /\ \A g \in Games :
          /\ curRunningJobs[g] = Cardinality({i \in DOMAIN jobs : match[jobs[i].match].game = g})
          /\ maxRunningJobs[g] # 0 => curRunningJobs[g] <= maxRunningJobs[g]
    /\ maxRunningBots # 0 => Cardinality(RunningBots) <= maxRunningBots

\* A match that will be run again has the connection it was asked for on: the
\* entry was not given back, nor does it hold another client by now.
MatchesHaveTheirClients ==
    \A e \in Queued : \A c \in ConnEntries :
        match[e].numRuns > 0 /\ matchUsesConnection(match[e], c) =>
            /\ c \in Range(conns.list)
            /\ conn[c].status = "okay" /\ conn[c].user = match[e].user

\* No starvation between users: every match in the queue is at some time done with
\* (run as often as it was asked to, or cancelled), however many are submitted.
EveryMatchIsServed == \A e \in MatchEntries : (e \in Queued) ~> (e \notin Queued)

=============================================================================
