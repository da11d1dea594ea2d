------------------------------ MODULE BmProofs ------------------------------
(***************************************************************************)
(* Proofs about the job server and its clients: a match has at most one    *)
(* job, the limits of the configuration hold, and a match that will be run *)
(* again has the connection it was asked for on.  The inductive invariant  *)
(* counts by matches what the code counts by jobs, and knows that the two  *)
(* pools are sound and that whatever is not in the list of connections is  *)
(* closed.                                                                 *)
(***************************************************************************)
EXTENDS JobClients, PoolProofs, FiniteSetTheorems

-----------------------------------------------------------------------------
(* The inductive invariant.                                                *)

ConnRecord == [status : {"unvalidated", "okay", "closed"}, user : Users \cup {"NULL"},
               arrived : Seq(Line), buf : Seq(Line), hungUp : BOOLEAN]

MatchRecord == [user : Users \cup {"NULL"}, game : Games, numRuns : Int,
                players : Seq({"LOCAL", "bot"}), conn : ConnEntries, isRunning : BOOLEAN]

ProcTables == UNION {[0 .. n -> {"running", "exited", "none"}] : n \in Nat}

JobRecord == [match : MatchEntries, killed : BOOLEAN, procs : ProcTables]

BmTypeOK ==
    /\ SoundPool(conns) /\ SoundPool(matches) /\ Queued \subseteq MatchEntries
    /\ conn \in [ConnEntries -> ConnRecord]
    /\ DOMAIN match = Queued /\ \A e \in Queued : match[e] \in MatchRecord
    /\ jobs \in Seq(JobRecord)
    /\ curRunningJobs \in [Games -> Int]

\* An entry that is not in the list holds no client.
OthersAreClosed == \A c \in ConnEntries : c \in Range(conns.list) \/ conn[c].status = "closed"

\* The processes of a job beside its dealer are the bots of its match.
BotsAreThere ==
    \A i \in DOMAIN jobs : \A p \in DOMAIN jobs[i].procs \ {0} :
        jobs[i].procs[p] # "none" => p \in botsOf(match[jobs[i].match])

\* What the code counts by jobs, counted by matches.
Running == {e \in Queued : match[e].isRunning}
RunningOf(g) == {e \in Running : match[e].game = g}

\* The bots of the matches in S, of which table tells what they are.
BotPairs(S, table) == UNION {{e} \X botsOf(table[e]) : e \in S}

CountsAgree ==
    /\ \A g \in Games : /\ curRunningJobs[g] = Cardinality(RunningOf(g))
                        /\ maxRunningJobs[g] # 0 => curRunningJobs[g] <= maxRunningJobs[g]
    /\ maxRunningBots # 0 => Cardinality(BotPairs(Running, match)) <= maxRunningBots

ServerInv ==
    /\ BmTypeOK /\ OthersAreClosed /\ MatchesHaveTheirClients
    /\ OneJobPerMatch /\ BotsAreThere /\ CountsAgree

-----------------------------------------------------------------------------
(* The steps, by what they do to the server's tables.                      *)

tables == <<matches, match, jobs, curRunningJobs>>

\* Connections stay what they are: only lines come and go, and clients.
Keeps ==
    /\ conns' = conns /\ conn' \in [ConnEntries -> ConnRecord]
    /\ \A d \in ConnEntries : conn'[d].status = conn[d].status /\ conn'[d].user = conn[d].user

\* Connection c alone changes its status.
Changes(c, from, to) ==
    /\ conns' = conns /\ conn' \in [ConnEntries -> ConnRecord]
    /\ conn[c].status \in from /\ conn'[c].status = to
    /\ \A d \in ConnEntries \ {c} :
          conn'[d].status = conn[d].status /\ conn'[d].user = conn[d].user

LogsOn(c) == Changes(c, {"unvalidated"}, "okay") /\ UNCHANGED tables

Closes(c) ==
    /\ Changes(c, {"unvalidated", "okay", "closed"}, "closed") /\ match' = cancelled(c)
    /\ UNCHANGED <<matches, jobs, curRunningJobs>>

Submits(c) ==
    /\ Keeps /\ RunMatches(c) /\ Head(conn[c].buf).spec \in Specs

Steps ==
    \/ Keeps /\ UNCHANGED tables
    \/ Sweep
    \/ Select /\ knocking
    \/ \E c \in ConnEntries : LogsOn(c) \/ Closes(c) \/ Submits(c)
    \/ StartMatchJob
    \/ NoMatchJob
    \/ Reap
    \/ \E e \in MatchEntries, p \in AllProcs : Exit(e, p)

LEMMA Lines ==
  ASSUME NEW l \in Line
  PROVE  /\ l.kind = "run" => l.spec \in Specs
         /\ l.kind = "logon" => l.user \in Users
<1>1. CASE l \in [kind : {"logon"}, user : Users]
  BY <1>1
<1>2. CASE l \in [kind : {"run"}, spec : Specs]
  BY <1>2
<1>3. CASE l \in [kind : OtherLines]
  <2>1. l.kind \in {"badLogon", "badSpec", "query", "unknown"}
    BY <1>3, BmAssumption
  <2> QED BY <2>1
<1> QED BY <1>1, <1>2, <1>3 DEF Line

\* One field of one connection.
LEMMA KeepsOthers ==
  ASSUME BmTypeOK, NEW c \in ConnEntries, NEW k \in ConnRecord,
         conn' = [conn EXCEPT ![c] = k]
  PROVE  /\ conn' \in [ConnEntries -> ConnRecord]
         /\ conn'[c] = k
         /\ \A d \in ConnEntries \ {c} : conn'[d] = conn[d]
BY DEF BmTypeOK

LEMMA KeepsAll ==
  ASSUME BmTypeOK, NEW c \in ConnEntries, conns' = conns, NEW k \in ConnRecord,
         k.status = conn[c].status, k.user = conn[c].user, conn' = [conn EXCEPT ![c] = k]
  PROVE  Keeps
<1>1. /\ conn' \in [ConnEntries -> ConnRecord] /\ conn'[c] = k
      /\ \A d \in ConnEntries \ {c} : conn'[d] = conn[d]
  BY KeepsOthers
<1> QED BY <1>1 DEF Keeps

LEMMA NewLines ==
  ASSUME BmTypeOK, NEW c \in ConnEntries, conns' = conns,
         NEW arr \in Seq(Line), NEW buf \in Seq(Line), NEW h \in BOOLEAN, NEW k,
         k = [conn[c] EXCEPT !.arrived = arr, !.buf = buf, !.hungUp = h],
         conn' = [conn EXCEPT ![c] = k]
  PROVE  Keeps
<1>1. conn[c] \in ConnRecord
  BY DEF BmTypeOK
<1>2. k \in ConnRecord /\ k.status = conn[c].status /\ k.user = conn[c].user
  BY <1>1 DEF ConnRecord
<1> QED BY <1>2, KeepsAll

LEMMA HandledLine ==
  ASSUME BmTypeOK, NEW c \in ConnEntries, conn[c].buf # << >>
  PROVE  /\ Tail(conn[c].buf) \in Seq(Line)
         /\ Head(conn[c].buf).kind = "run" => Head(conn[c].buf).spec \in Specs
         /\ Head(conn[c].buf).kind = "logon" => Head(conn[c].buf).user \in Users
<1>1. conn[c].buf \in Seq(Line)
  BY DEF BmTypeOK, ConnRecord
<1> DEFINE buf == conn[c].buf
<1> HIDE DEF buf
<1>2. buf \in Seq(Line) /\ buf # << >>
  BY <1>1 DEF buf
<1>3. Head(buf) \in Line /\ Tail(buf) \in Seq(Line)
  BY <1>2
<1> QED BY <1>3, Lines DEF buf

LEMMA ServerSteps ==
  ASSUME BmTypeOK, Server \/ Knock \/ (\E c \in ConnEntries : WriteLine(c) \/ HangUp(c) \/ Asks(c))
                   \/ DealerHangs \/ Processes \/ UNCHANGED vars
  PROVE  Steps
<1> USE DEF BmTypeOK
<1>a. \A c \in ConnEntries :
        /\ conn[c] \in ConnRecord /\ conn[c].arrived \in Seq(Line) /\ conn[c].buf \in Seq(Line)
        /\ conn[c].hungUp \in BOOLEAN
        /\ << >> \in Seq(Line)
  BY DEF ConnRecord
<1> HIDE DEF BmTypeOK
<1>b. UNCHANGED <<conns, conn>> => Keeps
  BY DEF Keeps, BmTypeOK
<1>1. Reap \/ Sweep \/ StartMatchJob \/ NoMatchJob => Steps
  BY DEF Steps
<1>2. CASE Select
  <2>1. CASE knocking
    BY <1>2, <2>1 DEF Steps
  <2>2. CASE ~knocking
    BY <1>2, <1>b, <2>2 DEF Steps, Select, queue, running, tables
  <2> QED BY <2>1, <2>2
<1>3. CASE EndOfLoop \/ DealerHangs \/ Knock \/ UNCHANGED vars
  BY <1>3, <1>b DEF Steps, EndOfLoop, DealerHangs, Knock, vars, clients, queue, running, tables
<1>4. CASE Processes
  BY <1>4 DEF Processes, Steps
<1>5. ASSUME NEW c \in ConnEntries, WriteLine(c) PROVE Steps
  <2>1. PICK l \in Line : conn' = [conn EXCEPT ![c].arrived = Append(@, l)]
    BY <1>5 DEF WriteLine
  <2> DEFINE k == [conn[c] EXCEPT !.arrived = Append(conn[c].arrived, l),
                                  !.buf = conn[c].buf, !.hungUp = conn[c].hungUp]
  <2>2. Append(conn[c].arrived, l) \in Seq(Line)
    BY <1>a
  <2>3. conn' = [conn EXCEPT ![c] = k]
    BY <1>a, <2>1 DEF ConnRecord
  <2>4. Keeps
    BY <1>5, <1>a, <2>2, <2>3, NewLines DEF WriteLine
  <2> QED BY <1>5, <2>4 DEF Steps, WriteLine, queue, running, tables
<1>6. ASSUME NEW c \in ConnEntries, HangUp(c) PROVE Steps
  <2> DEFINE k == [conn[c] EXCEPT !.hungUp = TRUE]
  <2>1. conn' = [conn EXCEPT ![c] = k]
    BY <1>6 DEF HangUp
  <2>2. k \in ConnRecord /\ k.status = conn[c].status /\ k.user = conn[c].user
    BY <1>a DEF ConnRecord
  <2> HIDE DEF k
  <2>3. Keeps
    BY <1>6, <2>1, <2>2, KeepsAll DEF HangUp
  <2> QED BY <1>6, <2>3 DEF Steps, HangUp, queue, running, tables
<1>7. ASSUME NEW c \in ConnEntries, Asks(c) PROVE Steps
  <2>1. PICK u \in Users :
            conn' = [conn EXCEPT ![c].arrived = Append(@, [kind |-> "logon", user |-> u])]
    BY <1>7 DEF Asks
  <2> DEFINE l == [kind |-> "logon", user |-> u]
             k == [conn[c] EXCEPT !.arrived = Append(conn[c].arrived, l),
                                  !.buf = conn[c].buf, !.hungUp = conn[c].hungUp]
  <2>2. l \in Line
    BY DEF Line
  <2> HIDE DEF l
  <2>3. Append(conn[c].arrived, l) \in Seq(Line)
    BY <1>a, <2>2
  <2>4. conn' = [conn EXCEPT ![c] = k]
    BY <1>a, <2>1 DEF ConnRecord, l
  <2>5. Keeps
    BY <1>7, <1>a, <2>3, <2>4, NewLines DEF Asks
  <2> QED BY <1>7, <2>5 DEF Steps, Asks, queue, running, tables
<1>8. CASE Read
  <2> DEFINE c == Head(todo)
  <2>1. CASE c \in ConnEntries
    <3> DEFINE k == [conn[c] EXCEPT !.buf = conn[c].arrived, !.arrived = << >>]
    <3>1. conn' = [conn EXCEPT ![c] = k]
      BY <1>8 DEF Read
    <3>2. k \in ConnRecord /\ k.status = conn[c].status /\ k.user = conn[c].user
      BY <1>a, <2>1 DEF ConnRecord
    <3> HIDE DEF k
    <3>3. Keeps
      BY <1>8, <2>1, <3>1, <3>2, KeepsAll DEF Read
    <3> QED BY <1>8, <3>3 DEF Steps, Read, queue, running, tables
  <2>2. CASE c \notin ConnEntries
    <3>1. conn' = conn /\ conns' = conns
      BY <1>8, <2>2 DEF Read, BmTypeOK
    <3> QED BY <1>8, <1>b, <3>1 DEF Steps, Read, queue, running, tables
  <2> QED BY <2>1, <2>2
<1>d. ASSUME NEW c \in ConnEntries, closeConnection(c) PROVE Steps
  <2> DEFINE k == [conn[c] EXCEPT !.status = "closed", !.buf = << >>, !.arrived = << >>]
  <2>1. conn' = [conn EXCEPT ![c] = k] /\ conns' = conns
    BY <1>d DEF closeConnection
  <2>2. k \in ConnRecord /\ k.status = "closed"
    BY <1>a DEF ConnRecord
  <2> HIDE DEF k
  <2>3. /\ conn' \in [ConnEntries -> ConnRecord] /\ conn'[c] = k
        /\ \A d \in ConnEntries \ {c} : conn'[d] = conn[d]
    BY <2>1, <2>2, KeepsOthers
  <2>4. conn[c].status \in {"unvalidated", "okay", "closed"}
    BY <1>a DEF ConnRecord
  <2>5. Closes(c)
    BY <1>d, <2>1, <2>2, <2>3, <2>4 DEF Closes, Changes, closeConnection, running
  <2> QED BY <2>5 DEF Steps
<1>9. ASSUME NEW c \in ConnEntries,
             Answer(c) \/ Query(c) \/ NothingToRead(c) \/ Closed(c)
      PROVE  Steps
  <2>1. CASE Logon(c)
    <3> DEFINE u == Head(conn[c].buf).user
               k == [conn[c] EXCEPT !.status = "okay", !.user = u, !.buf = Tail(conn[c].buf)]
    <3>1. conn' = [conn EXCEPT ![c] = k] /\ conns' = conns /\ UNCHANGED tables
      BY <2>1 DEF Logon, queue, running, tables
    <3>2. u \in Users /\ Tail(conn[c].buf) \in Seq(Line) /\ conn[c].status = "unvalidated"
      BY <2>1, HandledLine DEF Logon, Handles
    <3> HIDE DEF u
    <3>3. k \in ConnRecord /\ k.status = "okay"
      BY <1>a, <3>2 DEF ConnRecord
    <3> HIDE DEF k
    <3>4. /\ conn' \in [ConnEntries -> ConnRecord] /\ conn'[c] = k
          /\ \A d \in ConnEntries \ {c} : conn'[d] = conn[d]
      BY <3>1, <3>3, KeepsOthers
    <3>5. LogsOn(c)
      BY <3>1, <3>2, <3>3, <3>4 DEF LogsOn, Changes
    <3> QED BY <3>5 DEF Steps
  <2>2. CASE BadLogon(c) \/ Closed(c)
    BY <1>d, <2>2 DEF BadLogon, Closed
  <2>3. ASSUME conn[c].buf # << >>, conns' = conns,
               conn' = [conn EXCEPT ![c].buf = Tail(@)]
        PROVE  Keeps
    <3> DEFINE k == [conn[c] EXCEPT !.buf = Tail(conn[c].buf)]
    <3>1. conn' = [conn EXCEPT ![c] = k]
      BY <2>3
    <3>2. Tail(conn[c].buf) \in Seq(Line)
      BY <2>3, HandledLine
    <3>3. k \in ConnRecord /\ k.status = conn[c].status /\ k.user = conn[c].user
      BY <1>a, <3>2 DEF ConnRecord
    <3> HIDE DEF k
    <3> QED BY <2>3, <3>1, <3>3, KeepsAll
  <2>4. CASE Query(c) \/ BadCommand(c)
    <3>1. Keeps
      BY <2>3, <2>4 DEF Query, BadCommand, Handles
    <3> QED BY <2>4, <3>1 DEF Steps, Query, BadCommand, queue, running, tables
  <2>5. CASE RunMatches(c)
    <3>1. conn[c].buf # << >> /\ Head(conn[c].buf).kind = "run"
      BY <2>5 DEF RunMatches, Handles
    <3>2. Keeps
      BY <2>3, <2>5, <3>1 DEF RunMatches
    <3>3. Head(conn[c].buf).spec \in Specs
      BY <3>1, HandledLine
    <3> QED BY <2>5, <3>2, <3>3 DEF Steps, Submits
  <2>6. CASE NothingToRead(c)
    BY <2>6, <1>b DEF Steps, NothingToRead, clients, queue, running, tables
  <2> QED BY <1>9, <2>1, <2>2, <2>4, <2>5, <2>6 DEF Answer
<1> QED BY <1>1, <1>2, <1>3, <1>4, <1>5, <1>6, <1>7, <1>8, <1>9 DEF Server, Jobs, Serve

LEMMA ClientsStep ==
  ASSUME BmTypeOK, [ClientsNext]_allVars
  PROVE  Steps
<1> DEFINE Others == \E c \in ConnEntries : WriteLine(c) \/ HangUp(c) \/ Asks(c)
<1>1. CASE ServerStep
  BY <1>1, ServerSteps DEF ServerStep, StartTells, Accepts, Serves, Server, Jobs
<1>2. CASE ClientStep
  <2>1. ASSUME NEW c \in ConnEntries, Hears(c) \/ StartsBot(c) PROVE UNCHANGED vars
    BY <2>1 DEF Hears, StartsBot
  <2>2. Knock \/ Others \/ UNCHANGED vars
    BY <1>2, <2>1 DEF ClientStep, PassesOn, Leaves
  <2> QED BY <2>2, ServerSteps
<1>3. CASE ProcessStep
  <2>1. Processes \/ UNCHANGED vars
    BY <1>3 DEF ProcessStep, DealerWaits, Ends, BotConnects, Processes
  <2> QED BY <2>1, ServerSteps
<1>4. CASE (DealerHangs \/ Dead) /\ UNCHANGED programs
  BY <1>4, ServerSteps DEF Dead
<1>5. CASE UNCHANGED allVars
  BY <1>5, ServerSteps DEF allVars
<1> QED BY <1>1, <1>2, <1>3, <1>4, <1>5 DEF ClientsNext

-----------------------------------------------------------------------------
(* The connections.                                                        *)

ConnsOK == /\ SoundPool(conns) /\ conn \in [ConnEntries -> ConnRecord]
           /\ OthersAreClosed

LEMMA ConnsStayOK ==
  ASSUME BmTypeOK, OthersAreClosed, Steps
  PROVE  ConnsOK'
<1>a. /\ SoundPool(conns) /\ conn \in [ConnEntries -> ConnRecord]
      /\ \A c \in ConnEntries : c \in Range(conns.list) \/ conn[c].status = "closed"
  BY DEF BmTypeOK, OthersAreClosed
<1>b. newConn \in ConnRecord /\ noConn \in ConnRecord /\ noConn.status = "closed"
  <2>1. << >> \in Seq(Line)
    OBVIOUS
  <2> QED BY <2>1 DEF newConn, noConn, ConnRecord
<1>c. UNCHANGED <<conns, conn>> => ConnsOK'
  BY <1>a DEF ConnsOK, OthersAreClosed
<1>1. CASE Keeps
  BY <1>1, <1>a DEF Keeps, ConnsOK, OthersAreClosed
<1>2. CASE Sweep
  <2> DEFINE S == {c \in Range(conns.list) : conn[c].status = "closed"}
  <2>1. conns' = LLPoolRemoveAll(conns, S)
    BY <1>2 DEF Sweep
  <2> HIDE DEF S
  <2>2. SoundPool(conns')
    BY <1>a, <2>1, RemoveAllIsSound
  <2>3. conn' = [c \in ConnEntries |-> IF c \in Range(conns'.list) THEN conn[c] ELSE noConn]
    BY <1>2 DEF Sweep
  <2>4. conn' \in [ConnEntries -> ConnRecord]
    BY <1>a, <1>b, <2>3
  <2>5. \A c \in ConnEntries : c \in Range(conns'.list) \/ conn'[c].status = "closed"
    BY <1>b, <2>3
  <2> QED BY <2>2, <2>4, <2>5 DEF ConnsOK, OthersAreClosed
<1>3. CASE Select /\ knocking
  <2> DEFINE n == NextEntry(conns)
  <2>1. conns' = LLPoolAddItem(conns) /\ conn' = [conn EXCEPT ![n] = newConn]
    BY <1>3 DEF Select
  <2>2. SoundPool(conns') /\ Range(conns'.list) = Range(conns.list) \cup {n}
    BY <1>a, <2>1, NewInFront
  <2> HIDE DEF n
  <2>3. conn' \in [ConnEntries -> ConnRecord] /\ \A c \in ConnEntries \ {n} : conn'[c] = conn[c]
    BY <1>a, <1>b, <2>1
  <2>4. \A c \in ConnEntries : c \in Range(conns'.list) \/ conn'[c].status = "closed"
    BY <1>a, <2>2, <2>3
  <2> QED BY <2>2, <2>3, <2>4 DEF ConnsOK, OthersAreClosed
<1>4. ASSUME NEW c \in ConnEntries, LogsOn(c) \/ Closes(c) PROVE ConnsOK'
  <2>1. CASE LogsOn(c)
    <3>1. c \in Range(conns.list)
      BY <2>1, <1>a DEF LogsOn, Changes
    <3> QED BY <2>1, <3>1, <1>a DEF LogsOn, Changes, ConnsOK, OthersAreClosed
  <2>2. CASE Closes(c)
    BY <2>2, <1>a DEF Closes, Changes, ConnsOK, OthersAreClosed
  <2> QED BY <1>4, <2>1, <2>2
<1>5. ASSUME NEW c \in ConnEntries, Submits(c) PROVE ConnsOK'
  BY <1>1, <1>5 DEF Submits
<1>6. CASE StartMatchJob \/ NoMatchJob \/ Reap
  BY <1>6, <1>c DEF StartMatchJob, NoMatchJob, Reap, clients
<1>7. ASSUME NEW e \in MatchEntries, NEW p \in AllProcs, Exit(e, p) PROVE ConnsOK'
  BY <1>7, <1>c DEF Exit, clients
<1> QED BY <1>1, <1>2, <1>3, <1>4, <1>5, <1>6, <1>7 DEF Steps

-----------------------------------------------------------------------------
(* The queue.                                                              *)

LEMMA CleanFacts ==
  ASSUME BmTypeOK
  PROVE  /\ SoundPool(cleanedUp)
         /\ Range(cleanedUp.list) = {e \in Queued : ~isOver(match[e])}
         /\ DOMAIN stillQueued = {e \in Queued : ~isOver(match[e])}
         /\ \A e \in DOMAIN stillQueued : stillQueued[e] = match[e]
<1> DEFINE S == {e \in Queued : isOver(match[e])}
<1>1. SoundPool(matches) /\ cleanedUp = LLPoolRemoveAll(matches, S)
  BY DEF BmTypeOK, cleanedUp
<1> HIDE DEF S
<1>2. SoundPool(cleanedUp) /\ Range(cleanedUp.list) = Queued \ S
  BY <1>1, RemoveAllIsSound DEF Queued
<1> QED BY <1>2 DEF S, stillQueued, Restrict

\* What is known of the match that is started.
Starts(e, upTo) ==
    /\ e \in runnable /\ botsFit(match[e]) /\ upTo \in 1 .. Len(match[e].players) + 1
    /\ jobs' = <<jobStarted(e, upTo)>> \o jobs
    /\ curRunningJobs' = [curRunningJobs EXCEPT ![match[e].game] = @ + 1]
    /\ SoundPool(matches)' /\ Queued' = {f \in Queued : ~isOver(match[f])} /\ e \in Queued'
    /\ DOMAIN match' = Queued' /\ match'[e] = requeued(match[e])
    /\ \A f \in Queued' \ {e} : match'[f] = match[f]
    /\ UNCHANGED <<conns, conn>>

LEMMA StartFacts ==
  ASSUME BmTypeOK, StartMatchJob
  PROVE  \E e \in Queued : \E upTo \in 1 .. Len(match[e].players) + 1 : Starts(e, upTo)
<1>1. PICK e \in runnable :
          /\ isBest(e) /\ botsFit(match[e])
          /\ \E upTo \in 1 .. Len(match[e].players) + 1 :
                /\ upTo <= Len(match[e].players) => MayAbortAt(e, upTo)
                /\ jobs' = <<jobStarted(e, upTo)>> \o jobs
          /\ curRunningJobs' = [curRunningJobs EXCEPT ![match[e].game] = @ + 1]
          /\ match' = [stillQueued EXCEPT ![e] = requeued(@)]
          /\ matches' = [cleanedUp EXCEPT !.list = Append(Without(@, {e}), e)]
  BY DEF StartMatchJob
<1>2. PICK upTo \in 1 .. Len(match[e].players) + 1 : jobs' = <<jobStarted(e, upTo)>> \o jobs
  BY <1>1
<1>3. e \in Queued /\ ~isOver(match[e])
  <2>1. e \in Queued /\ match[e].numRuns > 0 /\ match[e] \in MatchRecord
    BY DEF runnable, BmTypeOK
  <2> QED BY <2>1 DEF isOver, MatchRecord
<1>4. /\ SoundPool(cleanedUp)
      /\ Range(cleanedUp.list) = {f \in Queued : ~isOver(match[f])}
      /\ DOMAIN stillQueued = {f \in Queued : ~isOver(match[f])}
      /\ \A f \in DOMAIN stillQueued : stillQueued[f] = match[f]
  BY CleanFacts
<1>5. SoundPool(matches') /\ Range(matches'.list) = Range(cleanedUp.list)
  BY <1>1, <1>3, <1>4, MoveToEndIsSound
<1>6. Queued' = {f \in Queued : ~isOver(match[f])}
  BY <1>4, <1>5 DEF Queued
<1>7. /\ DOMAIN match' = Queued' /\ match'[e] = requeued(match[e])
      /\ \A f \in Queued' \ {e} : match'[f] = match[f]
  BY <1>1, <1>3, <1>4, <1>6
<1>8. UNCHANGED <<conns, conn>>
  BY DEF StartMatchJob, clients
<1>9. Starts(e, upTo)
  BY <1>1, <1>2, <1>3, <1>5, <1>6, <1>7, <1>8 DEF Starts
<1> QED BY <1>2, <1>3, <1>9

\* The match that a client asks for.
Queues(c, e) ==
    /\ Head(conn[c].buf).spec \in Specs /\ specOK(Head(conn[c].buf).spec)
    /\ conn[c].status = "okay" /\ e \in MatchEntries \ Queued
    /\ SoundPool(matches)' /\ Queued' = Queued \cup {e} /\ DOMAIN match' = Queued'
    /\ match'[e] = newMatch(c, Head(conn[c].buf).spec)
    /\ \A f \in Queued : match'[f] = match[f]
    /\ UNCHANGED <<jobs, curRunningJobs>> /\ Keeps

LEMMA SubmitFacts ==
  ASSUME BmTypeOK, NEW c \in ConnEntries, Submits(c)
  PROVE  \E e \in MatchEntries : Queues(c, e)
<1> DEFINE e == NextEntry(matches)
           s == Head(conn[c].buf).spec
<1>1. /\ conn[c].status = "okay" /\ specOK(s) /\ e \in MatchEntries
      /\ match' = [d \in Queued \cup {e} |-> IF d = e THEN newMatch(c, s) ELSE match[d]]
      /\ matches' = [LLPoolAddItem(matches) EXCEPT !.list = Append(matches.list, e)]
      /\ UNCHANGED <<jobs, curRunningJobs>> /\ Keeps /\ s \in Specs
  BY DEF Submits, RunMatches, Handles, running
<1>2. SoundPool(matches') /\ e \notin Queued /\ Queued' = Queued \cup {e}
  BY <1>1, NewAtEnd DEF BmTypeOK, Queued
<1> HIDE DEF e, s
<1>3. Queues(c, e)
  BY <1>1, <1>2 DEF Queues, s
<1> QED BY <1>1, <1>3

-----------------------------------------------------------------------------
(* The jobs.                                                               *)

\* What a job may become while it is there.
Goes(from, to) ==
    /\ to \in JobRecord /\ to.match = from.match /\ DOMAIN to.procs = DOMAIN from.procs
    /\ \A p \in DOMAIN to.procs : to.procs[p] # "none" => from.procs[p] # "none"

LEMMA ReapedGoes ==
  ASSUME NEW j \in JobRecord
  PROVE  Goes(j, reaped(j))
<1> DEFINE procs == [p \in DOMAIN j.procs |-> IF j.procs[p] = "exited" THEN "none" ELSE j.procs[p]]
<1>1. reaped(j) = [j EXCEPT !.procs = procs]
  BY DEF reaped
<1>2. PICK n \in Nat : j.procs \in [0 .. n -> {"running", "exited", "none"}]
  BY DEF JobRecord, ProcTables
<1>3. procs \in [0 .. n -> {"running", "exited", "none"}]
  BY <1>2
<1>4. /\ DOMAIN procs = DOMAIN j.procs
      /\ \A p \in DOMAIN procs : procs[p] # "none" => j.procs[p] # "none"
  OBVIOUS
<1> HIDE DEF procs
<1>5. procs \in ProcTables
  BY <1>3 DEF ProcTables
<1>6. [j EXCEPT !.procs = procs] \in JobRecord
  BY <1>5 DEF JobRecord
<1> QED BY <1>1, <1>4, <1>6 DEF Goes, JobRecord

LEMMA ExitedGoes ==
  ASSUME NEW j \in JobRecord, NEW p \in DOMAIN j.procs, j.procs[p] = "running"
  PROVE  Goes(j, [j EXCEPT !.procs[p] = "exited"])
<1> DEFINE procs == [j.procs EXCEPT ![p] = "exited"]
<1>1. [j EXCEPT !.procs[p] = "exited"] = [j EXCEPT !.procs = procs]
  OBVIOUS
<1>2. PICK n \in Nat : j.procs \in [0 .. n -> {"running", "exited", "none"}]
  BY DEF JobRecord, ProcTables
<1>3. procs \in [0 .. n -> {"running", "exited", "none"}]
  BY <1>2
<1>4. /\ DOMAIN procs = DOMAIN j.procs
      /\ \A q \in DOMAIN procs : procs[q] # "none" => j.procs[q] # "none"
  OBVIOUS
<1> HIDE DEF procs
<1>5. procs \in ProcTables
  BY <1>3 DEF ProcTables
<1>6. [j EXCEPT !.procs = procs] \in JobRecord
  BY <1>5 DEF JobRecord
<1> QED BY <1>1, <1>4, <1>6 DEF Goes, JobRecord

\* The jobs that are left, h[i] being where the i-th of them was.
Left(h) ==
    /\ jobs' \in Seq(JobRecord) /\ h \in [1 .. Len(jobs') -> 1 .. Len(jobs)]
    /\ \A i \in 1 .. Len(jobs') : Goes(jobs[h[i]], jobs'[i]) /\ h[i] \notin finished
    /\ \A i, j \in 1 .. Len(jobs') : h[i] = h[j] => i = j
    /\ \A k \in 1 .. Len(jobs) : k \notin finished => \E i \in 1 .. Len(jobs') : h[i] = k

LEMMA ReapFacts ==
  ASSUME BmTypeOK, Reap
  PROVE  \E h : Left(h)
<1> DEFINE S == {j \in Range(jobs) : ~allDone(j)}
           kept == Only(jobs, S)
<1>1. jobs \in Seq(JobRecord) /\ \A i \in 1 .. Len(jobs) : jobs[i] \in JobRecord
  BY DEF BmTypeOK
<1>2. jobs' = [i \in DOMAIN kept |-> reaped(kept[i])]
  BY DEF Reap
<1>a. \A k \in 1 .. Len(jobs) : jobs[k] \in S <=> k \notin finished
  BY <1>1 DEF finished, Range
<1> HIDE DEF S
<1>3. kept \in Seq(JobRecord) /\ Picks(kept, jobs, S, Len(jobs))
  BY <1>1, OnlyPicks
<1> HIDE DEF kept
<1>4. PICK h \in [1 .. Len(kept) -> 1 .. Len(jobs)] :
        /\ \A i \in 1 .. Len(kept) : kept[i] = jobs[h[i]] /\ kept[i] \in S
        /\ \A i, j \in 1 .. Len(kept) : h[i] = h[j] => i = j
        /\ \A k \in 1 .. Len(jobs) : jobs[k] \in S => \E i \in 1 .. Len(kept) : h[i] = k
  BY <1>3 DEF Picks
<1>5. \A i \in 1 .. Len(kept) : kept[i] \in JobRecord /\ Goes(kept[i], reaped(kept[i]))
  BY <1>3, ReapedGoes
<1>6. \A i \in 1 .. Len(kept) : reaped(kept[i]) \in JobRecord
  BY <1>5 DEF Goes
<1>7. jobs' = [i \in 1 .. Len(kept) |-> reaped(kept[i])]
  BY <1>2, <1>3
<1>8. jobs' \in Seq(JobRecord) /\ Len(jobs') = Len(kept)
  <2>1. Len(kept) \in Nat
    BY <1>3
  <2> DEFINE g == [i \in 1 .. Len(kept) |-> reaped(kept[i])]
  <2>2. g \in [1 .. Len(kept) -> JobRecord]
    BY <1>6
  <2>3. DOMAIN g = 1 .. Len(kept)
    OBVIOUS
  <2> HIDE DEF g
  <2>4. g \in Seq(JobRecord) /\ Len(g) = Len(kept)
    BY <2>1, <2>2, <2>3
  <2> QED BY <1>7, <2>4 DEF g
<1>9. \A i \in 1 .. Len(kept) : jobs'[i] = reaped(kept[i])
  BY <1>7
<1>10. \A i \in 1 .. Len(kept) : h[i] \in 1 .. Len(jobs)
  BY <1>4
<1>11. Left(h)
  BY <1>4, <1>5, <1>8, <1>9, <1>10, <1>a DEF Left
<1> QED BY <1>11

-----------------------------------------------------------------------------
(* Jobs and matches.                                                       *)

QueueOK ==
    /\ SoundPool(matches) /\ Queued \subseteq MatchEntries
    /\ DOMAIN match = Queued /\ \A e \in Queued : match[e] \in MatchRecord
    /\ jobs \in Seq(JobRecord)
    /\ OneJobPerMatch /\ BotsAreThere

\* A match keeps all but its numRuns, and perhaps isRunning.
SameMatch(from, to, isRunning) ==
    /\ to \in MatchRecord /\ to.isRunning = isRunning
    /\ to.user = from.user /\ to.game = from.game
    /\ to.players = from.players /\ to.conn = from.conn

LEMMA MatchTypes ==
  ASSUME BmTypeOK, NEW e \in Queued
  PROVE  /\ match[e] \in MatchRecord /\ e \in MatchEntries
         /\ SameMatch(match[e], [match[e] EXCEPT !.numRuns = 0], match[e].isRunning)
         /\ SameMatch(match[e], [match[e] EXCEPT !.isRunning = FALSE], FALSE)
         /\ SameMatch(match[e], requeued(match[e]), TRUE)
         /\ SameMatch(match[e], match[e], match[e].isRunning)
<1>1. match[e] \in MatchRecord /\ e \in MatchEntries
  BY DEF BmTypeOK
<1>2. SameMatch(match[e], [match[e] EXCEPT !.numRuns = 0], match[e].isRunning)
  BY <1>1 DEF SameMatch, MatchRecord
<1>3. SameMatch(match[e], [match[e] EXCEPT !.isRunning = FALSE], FALSE)
  BY <1>1 DEF SameMatch, MatchRecord
<1>4. SameMatch(match[e], requeued(match[e]), TRUE)
  <2> DEFINE n == match[e].numRuns - 1
  <2>1. match[e].numRuns \in Int
    BY <1>1 DEF MatchRecord
  <2>2. n \in Int
    BY <2>1
  <2>3. requeued(match[e]) = [match[e] EXCEPT !.isRunning = TRUE, !.numRuns = n]
    BY DEF requeued
  <2> HIDE DEF n
  <2> QED BY <1>1, <2>2, <2>3 DEF SameMatch, MatchRecord
<1>5. SameMatch(match[e], match[e], match[e].isRunning)
  BY <1>1 DEF SameMatch, MatchRecord
<1> QED BY <1>1, <1>2, <1>3, <1>4, <1>5

\* What closing a connection does to the matches.
LEMMA CloseFacts ==
  ASSUME BmTypeOK, NEW c \in ConnEntries, Closes(c)
  PROVE  /\ UNCHANGED <<matches, jobs, curRunningJobs>> /\ Queued' = Queued
         /\ DOMAIN match' = Queued
         /\ \A e \in Queued : SameMatch(match[e], match'[e], match[e].isRunning)
         /\ \A e \in Queued : \/ match'[e] = match[e] /\ ~matchUsesConnection(match[e], c)
                              \/ match'[e].numRuns = 0
<1>1. /\ UNCHANGED <<matches, jobs, curRunningJobs>> /\ Queued' = Queued
      /\ match' = cancelled(c) /\ DOMAIN match = Queued
  BY DEF Closes, Queued, BmTypeOK
<1>2. DOMAIN match' = Queued
  BY <1>1 DEF cancelled
<1>3. \A e \in Queued :
         match'[e] = IF matchUsesConnection(match[e], c)
                     THEN [match[e] EXCEPT !.numRuns = 0] ELSE match[e]
  BY <1>1 DEF cancelled
<1>4. \A e \in Queued : SameMatch(match[e], match'[e], match[e].isRunning)
  BY <1>3, MatchTypes
<1>5. \A e \in Queued : [match[e] EXCEPT !.numRuns = 0].numRuns = 0
  <2>1. \A e \in Queued : match[e] \in MatchRecord
    BY MatchTypes
  <2> QED BY <2>1 DEF MatchRecord
<1> QED BY <1>1, <1>2, <1>3, <1>4, <1>5

LEMMA NewMatchType ==
  ASSUME BmTypeOK, NEW c \in ConnEntries, NEW s \in Specs
  PROVE  newMatch(c, s) \in MatchRecord /\ ~newMatch(c, s).isRunning
<1>1. s.game \in Games /\ s.numRuns \in Int /\ s.players \in Seq({"LOCAL", "bot"})
  BY BmAssumption DEF Spec_
<1>2. conn[c].user \in Users \cup {"NULL"}
  BY DEF BmTypeOK, ConnRecord
<1> QED BY <1>1, <1>2 DEF newMatch, MatchRecord

\* A job that is started has the bots of its match and no others.
LEMMA StartedType ==
  ASSUME BmTypeOK, NEW e \in Queued, NEW upTo
  PROVE  /\ jobStarted(e, upTo) \in JobRecord /\ jobStarted(e, upTo).match = e
         /\ \A p \in DOMAIN jobStarted(e, upTo).procs \ {0} :
               jobStarted(e, upTo).procs[p] # "none" => p \in botsOf(match[e])
<1> DEFINE players == match[e].players
           procs == [p \in 0 .. Len(players) |->
                        IF p = 0 \/ (p < upTo /\ players[p] = "bot") THEN "running" ELSE "none"]
<1>1. players \in Seq({"LOCAL", "bot"}) /\ e \in MatchEntries
  BY MatchTypes DEF MatchRecord
<1>2. jobStarted(e, upTo) = [match |-> e, killed |-> upTo <= Len(players), procs |-> procs]
  BY DEF jobStarted, Procs
<1>3. Len(players) \in Nat /\ DOMAIN players = 1 .. Len(players)
  BY <1>1
<1>4. procs \in [0 .. Len(players) -> {"running", "exited", "none"}]
  OBVIOUS
<1>5. procs \in ProcTables
  BY <1>3, <1>4 DEF ProcTables
<1>6. \A p \in DOMAIN procs \ {0} : procs[p] # "none" => p \in DOMAIN players /\ players[p] = "bot"
  BY <1>3
<1> HIDE DEF procs
<1>7. \A p \in DOMAIN procs \ {0} : procs[p] # "none" => p \in botsOf(match[e])
  BY <1>6 DEF botsOf
<1>8. (upTo <= Len(players)) \in BOOLEAN
  OBVIOUS
<1> HIDE DEF players
<1> QED BY <1>1, <1>2, <1>5, <1>7, <1>8 DEF JobRecord

\* What reaping does to the matches: those of jobs that are done do not run.
LEMMA ReapedMatches ==
  ASSUME BmTypeOK, Reap
  PROVE  /\ UNCHANGED matches /\ Queued' = Queued /\ DOMAIN match' = Queued
         /\ UNCHANGED <<conns, conn>>
         /\ \A e \in Queued :
               /\ (\E i \in finished : jobs[i].match = e) => SameMatch(match[e], match'[e], FALSE)
               /\ ~(\E i \in finished : jobs[i].match = e) => match'[e] = match[e]
               /\ match'[e].numRuns = match[e].numRuns
<1>1. /\ UNCHANGED matches /\ Queued' = Queued /\ UNCHANGED <<conns, conn>>
      /\ match' = [e \in Queued |->
                    IF \E i \in finished : jobs[i].match = e
                    THEN [match[e] EXCEPT !.isRunning = FALSE] ELSE match[e]]
  BY DEF Reap, clients, Queued, BmTypeOK
<1>2. \A e \in Queued : /\ SameMatch(match[e], [match[e] EXCEPT !.isRunning = FALSE], FALSE)
                        /\ match[e] \in MatchRecord
  BY MatchTypes
<1>3. \A e \in Queued : [match[e] EXCEPT !.isRunning = FALSE].numRuns = match[e].numRuns
  BY <1>2 DEF MatchRecord
<1> QED BY <1>1, <1>2, <1>3

\* The job that a process of match e belongs to.
LEMMA ExitFacts ==
  ASSUME BmTypeOK, OneJobPerMatch, NEW e \in MatchEntries, NEW p \in AllProcs, Exit(e, p)
  PROVE  /\ UNCHANGED <<conns, conn, matches, match, curRunningJobs>>
         /\ jobs' \in Seq(JobRecord) /\ Len(jobs') = Len(jobs)
         /\ \A i \in 1 .. Len(jobs) : Goes(jobs[i], jobs'[i])
<1>1. PICK i \in DOMAIN jobs : jobs[i].match = e /\ jobs' = [jobs EXCEPT ![i].procs[p] = "exited"]
  BY DEF Exit
<1>2. p \in DOMAIN jobs[i].procs /\ jobs[i].procs[p] = "running"
  BY <1>1 DEF Exit, IsRunning, OneJobPerMatch
<1>3. jobs \in Seq(JobRecord) /\ \A k \in 1 .. Len(jobs) : jobs[k] \in JobRecord
  BY DEF BmTypeOK
<1> DEFINE to == [jobs[i] EXCEPT !.procs[p] = "exited"]
<1>4. Goes(jobs[i], to)
  BY <1>1, <1>2, <1>3, ExitedGoes
<1>5. jobs' = [jobs EXCEPT ![i] = to]
  BY <1>1
<1> HIDE DEF to
<1>6. to \in JobRecord /\ i \in 1 .. Len(jobs)
  BY <1>1, <1>3, <1>4 DEF Goes
<1>7. jobs' \in Seq(JobRecord) /\ Len(jobs') = Len(jobs)
  BY <1>3, <1>5, <1>6
<1>8. \A k \in 1 .. Len(jobs) : jobs'[k] = IF k = i THEN to ELSE jobs[k]
  BY <1>3, <1>5
<1>9. \A k \in 1 .. Len(jobs) : Goes(jobs[k], jobs[k])
  BY <1>3 DEF Goes
<1> QED BY <1>4, <1>7, <1>8, <1>9 DEF Exit, clients, queue

\* The jobs by their indices, as the proofs use them.
JobsByIndex ==
    /\ \A i, j \in 1 .. Len(jobs) : jobs[i].match = jobs[j].match => i = j
    /\ \A i \in 1 .. Len(jobs) : jobs[i].match \in Queued
    /\ \A e \in Queued : match[e].isRunning <=> \E i \in 1 .. Len(jobs) : jobs[i].match = e
    /\ \A i \in 1 .. Len(jobs) : \A p \in DOMAIN jobs[i].procs \ {0} :
          jobs[i].procs[p] # "none" => p \in botsOf(match[jobs[i].match])

LEMMA ByIndex ==
  ASSUME jobs \in Seq(JobRecord)
  PROVE  OneJobPerMatch /\ BotsAreThere <=> JobsByIndex
<1>1. DOMAIN jobs = 1 .. Len(jobs)
  OBVIOUS
<1> QED BY <1>1 DEF OneJobPerMatch, BotsAreThere, JobsByIndex

LEMMA ByIndexNext ==
  ASSUME jobs' \in Seq(JobRecord)
  PROVE  JobsByIndex' => OneJobPerMatch' /\ BotsAreThere'
<1>1. DOMAIN jobs' = 1 .. Len(jobs')
  OBVIOUS
<1> QED BY <1>1 DEF OneJobPerMatch, BotsAreThere, JobsByIndex

LEMMA SameBots ==
  ASSUME NEW m, NEW n, m.players = n.players
  PROVE  botsOf(m) = botsOf(n)
BY DEF botsOf

LEMMA QueueAfterClose ==
  ASSUME BmTypeOK, OneJobPerMatch, BotsAreThere, NEW c \in ConnEntries, Closes(c)
  PROVE  QueueOK'
<1>1. /\ UNCHANGED <<matches, jobs, curRunningJobs>> /\ Queued' = Queued
      /\ DOMAIN match' = Queued
      /\ \A e \in Queued : SameMatch(match[e], match'[e], match[e].isRunning)
  BY CloseFacts
<1>2. JobsByIndex /\ jobs \in Seq(JobRecord)
  BY ByIndex DEF BmTypeOK
<1>3. \A e \in Queued : /\ match'[e] \in MatchRecord /\ match'[e].isRunning = match[e].isRunning
                        /\ botsOf(match'[e]) = botsOf(match[e])
  BY <1>1, SameBots DEF SameMatch
<1>4. JobsByIndex'
  BY <1>1, <1>2, <1>3 DEF JobsByIndex
<1>5. OneJobPerMatch' /\ BotsAreThere'
  BY <1>1, <1>2, <1>4, ByIndexNext
<1> QED BY <1>1, <1>3, <1>5 DEF QueueOK, BmTypeOK

LEMMA QueueAfterSubmit ==
  ASSUME BmTypeOK, OneJobPerMatch, BotsAreThere, NEW c \in ConnEntries, NEW e \in MatchEntries,
         Queues(c, e)
  PROVE  QueueOK'
<1>1. /\ SoundPool(matches)' /\ Queued' = Queued \cup {e} /\ DOMAIN match' = Queued'
      /\ match'[e] \in MatchRecord /\ ~match'[e].isRunning
      /\ \A f \in Queued : match'[f] = match[f]
      /\ jobs' = jobs /\ e \notin Queued
  BY NewMatchType DEF Queues
<1>2. JobsByIndex /\ jobs \in Seq(JobRecord)
  BY ByIndex DEF BmTypeOK
<1>3. JobsByIndex'
  BY <1>1, <1>2 DEF JobsByIndex
<1>4. OneJobPerMatch' /\ BotsAreThere'
  BY <1>1, <1>2, <1>3, ByIndexNext
<1>5. Queued' \subseteq MatchEntries /\ \A f \in Queued' : match'[f] \in MatchRecord
  BY <1>1, MatchTypes
<1> QED BY <1>1, <1>2, <1>4, <1>5 DEF QueueOK

LEMMA QueueAfterClean ==
  ASSUME BmTypeOK, OneJobPerMatch, BotsAreThere, NoMatchJob
  PROVE  QueueOK' /\ Running' = Running /\ \A e \in Running : match'[e] = match[e]
<1>1. /\ SoundPool(cleanedUp) /\ Range(cleanedUp.list) = {e \in Queued : ~isOver(match[e])}
      /\ DOMAIN stillQueued = {e \in Queued : ~isOver(match[e])}
      /\ \A e \in DOMAIN stillQueued : stillQueued[e] = match[e]
  BY CleanFacts
<1>2. matches' = cleanedUp /\ match' = stillQueued /\ jobs' = jobs
  BY DEF NoMatchJob, running
<1>3. /\ SoundPool(matches)' /\ Queued' = {e \in Queued : ~isOver(match[e])}
      /\ DOMAIN match' = Queued' /\ \A e \in Queued' : match'[e] = match[e]
  BY <1>1, <1>2 DEF Queued
<1>4. JobsByIndex /\ jobs \in Seq(JobRecord)
  BY ByIndex DEF BmTypeOK
<1>5. \A e \in Queued : match[e].isRunning => ~isOver(match[e])
  BY DEF isOver
<1>6. JobsByIndex'
  BY <1>2, <1>3, <1>4, <1>5 DEF JobsByIndex
<1>7. OneJobPerMatch' /\ BotsAreThere'
  BY <1>2, <1>4, <1>6, ByIndexNext
<1>8. Queued' \subseteq MatchEntries /\ \A f \in Queued' : match'[f] \in MatchRecord
  BY <1>3, MatchTypes
<1> QED BY <1>2, <1>3, <1>4, <1>5, <1>7, <1>8 DEF QueueOK, Running

LEMMA QueueAfterExit ==
  ASSUME BmTypeOK, OneJobPerMatch, BotsAreThere,
         NEW e \in MatchEntries, NEW p \in AllProcs, Exit(e, p)
  PROVE  QueueOK'
<1>1. /\ UNCHANGED <<matches, match>> /\ Queued' = Queued
      /\ jobs' \in Seq(JobRecord) /\ Len(jobs') = Len(jobs)
      /\ \A i \in 1 .. Len(jobs) : Goes(jobs[i], jobs'[i])
  BY ExitFacts DEF Queued
<1>2. JobsByIndex
  BY ByIndex DEF BmTypeOK
<1>3. JobsByIndex'
  BY <1>1, <1>2 DEF JobsByIndex, Goes
<1>4. OneJobPerMatch' /\ BotsAreThere'
  BY <1>1, <1>3, ByIndexNext
<1> QED BY <1>1, <1>4 DEF QueueOK, BmTypeOK

\* Jobs after one that was put in front of them.
LEMMA OneMoreJob ==
  ASSUME NEW T, NEW list \in Seq(T), NEW x \in T
  PROVE  LET more == <<x>> \o list
         IN /\ more \in Seq(T) /\ Len(more) = Len(list) + 1 /\ more[1] = x
            /\ \A i \in 1 .. Len(list) : more[i + 1] = list[i]
            /\ \A i \in 1 .. Len(more) : i = 1 \/ (i - 1 \in 1 .. Len(list) /\ more[i] = list[i - 1])
<1> DEFINE more == <<x>> \o list
<1>1. /\ more \in Seq(T) /\ Len(more) = Len(list) + 1 /\ more[1] = x /\ Len(list) \in Nat
      /\ \A i \in 1 .. Len(list) : more[i + 1] = list[i]
  OBVIOUS
<1> HIDE DEF more
<1>2. ASSUME NEW i \in 1 .. Len(more), i # 1
      PROVE  i - 1 \in 1 .. Len(list) /\ more[i] = list[i - 1]
  <2>1. PICK k \in 1 .. Len(list) : k = i - 1 /\ i = k + 1
    BY <1>1, <1>2
  <2> QED BY <2>1, <1>1
<1>3. /\ more \in Seq(T) /\ Len(more) = Len(list) + 1 /\ more[1] = x
      /\ \A i \in 1 .. Len(list) : more[i + 1] = list[i]
      /\ \A i \in 1 .. Len(more) : i = 1 \/ (i - 1 \in 1 .. Len(list) /\ more[i] = list[i - 1])
  BY <1>1, <1>2
<1> QED BY <1>3, Zenon DEF more

LEMMA QueueAfterStart ==
  ASSUME BmTypeOK, OneJobPerMatch, BotsAreThere, NEW e \in Queued,
         NEW upTo \in 1 .. Len(match[e].players) + 1, Starts(e, upTo)
  PROVE  QueueOK'
<1> DEFINE j == jobStarted(e, upTo)
<1>1. /\ e \in runnable /\ jobs' = <<j>> \o jobs
      /\ SoundPool(matches)' /\ Queued' = {f \in Queued : ~isOver(match[f])} /\ e \in Queued'
      /\ DOMAIN match' = Queued' /\ match'[e] = requeued(match[e])
      /\ \A f \in Queued' \ {e} : match'[f] = match[f]
  BY DEF Starts
<1>2. /\ j \in JobRecord /\ j.match = e
      /\ \A p \in DOMAIN j.procs \ {0} : j.procs[p] # "none" => p \in botsOf(match[e])
  BY StartedType
<1> HIDE DEF j
<1>3. JobsByIndex /\ jobs \in Seq(JobRecord)
  BY ByIndex DEF BmTypeOK
<1> DEFINE n == Len(jobs)
           new == jobs'
<1>4. /\ new \in Seq(JobRecord) /\ Len(new) = n + 1 /\ new[1] = j
      /\ \A i \in 1 .. n : new[i + 1] = jobs[i]
      /\ \A i \in 1 .. Len(new) : i = 1 \/ (i - 1 \in 1 .. n /\ new[i] = jobs[i - 1])
  BY <1>1, <1>2, <1>3, OneMoreJob
<1>a. n \in Nat /\ 1 \in 1 .. Len(new) /\ \A i \in 1 .. n : i + 1 \in 1 .. Len(new)
  BY <1>3, <1>4
<1>5. /\ \A i, k \in 1 .. n : jobs[i].match = jobs[k].match => i = k
      /\ \A i \in 1 .. n : jobs[i].match \in Queued
      /\ \A f \in Queued : match[f].isRunning <=> \E i \in 1 .. n : jobs[i].match = f
      /\ \A i \in 1 .. n : \A p \in DOMAIN jobs[i].procs \ {0} :
            jobs[i].procs[p] # "none" => p \in botsOf(match[jobs[i].match])
  BY <1>3 DEF JobsByIndex
<1>6. SameMatch(match[e], match'[e], TRUE) /\ ~match[e].isRunning
  BY <1>1, MatchTypes DEF runnable
<1>7. \A f \in Queued : match[f].isRunning => f \in Queued'
  BY <1>1 DEF isOver
<1>8. \A i \in 1 .. n : jobs[i].match # e /\ jobs[i].match \in Queued'
  BY <1>5, <1>6, <1>7
<1>9. botsOf(match'[e]) = botsOf(match[e]) /\ match'[e] \in MatchRecord /\ match'[e].isRunning
  BY <1>6, SameBots DEF SameMatch
<1> HIDE DEF n, new
<1>10. \A i, k \in 1 .. Len(new) : new[i].match = new[k].match => i = k
  <2>1. ASSUME NEW i \in 1 .. Len(new), NEW k \in 1 .. Len(new), new[i].match = new[k].match
        PROVE  i = k
    <3>1. CASE i = 1 \/ k = 1
      BY <2>1, <3>1, <1>2, <1>4, <1>8
    <3>2. CASE i # 1 /\ k # 1
      <4>1. i - 1 \in 1 .. n /\ k - 1 \in 1 .. n /\ jobs[i - 1].match = jobs[k - 1].match
        BY <2>1, <3>2, <1>4
      <4>2. i - 1 = k - 1
        BY <4>1, <1>5
      <4> QED BY <4>2
    <3> QED BY <3>1, <3>2
  <2> QED BY <2>1
<1>11. \A i \in 1 .. Len(new) : new[i].match \in Queued'
  BY <1>1, <1>2, <1>4, <1>8
<1>12. ASSUME NEW f \in Queued'
       PROVE  match'[f].isRunning <=> \E i \in 1 .. Len(new) : new[i].match = f
  <2>1. CASE f = e
    BY <2>1, <1>2, <1>4, <1>9, <1>a
  <2>2. CASE f # e
    <3>1. match'[f] = match[f] /\ f \in Queued
      BY <2>2, <1>1
    <3>2. (\E i \in 1 .. n : jobs[i].match = f) => \E i \in 1 .. Len(new) : new[i].match = f
      BY <1>4, <1>a
    <3>3. (\E i \in 1 .. Len(new) : new[i].match = f) => \E i \in 1 .. n : jobs[i].match = f
      BY <2>2, <1>2, <1>4
    <3> QED BY <3>1, <3>2, <3>3, <1>5
  <2> QED BY <2>1, <2>2
<1>13. ASSUME NEW i \in 1 .. Len(new), NEW p \in DOMAIN new[i].procs \ {0}, new[i].procs[p] # "none"
       PROVE  p \in botsOf(match'[new[i].match])
  <2>1. CASE i = 1
    BY <1>13, <2>1, <1>2, <1>4, <1>9
  <2>2. CASE i # 1
    <3>1. i - 1 \in 1 .. n /\ new[i] = jobs[i - 1]
      BY <2>2, <1>4
    <3>2. match'[new[i].match] = match[new[i].match]
      BY <3>1, <1>1, <1>8
    <3> QED BY <1>13, <3>1, <3>2, <1>5
  <2> QED BY <2>1, <2>2
<1>14. JobsByIndex'
  BY <1>10, <1>11, <1>12, <1>13 DEF JobsByIndex, new
<1>15. OneJobPerMatch' /\ BotsAreThere'
  BY <1>4, <1>14, ByIndexNext DEF new
<1>16. Queued' \subseteq MatchEntries /\ \A f \in Queued' : match'[f] \in MatchRecord
  BY <1>1, <1>9, MatchTypes
<1> QED BY <1>1, <1>4, <1>15, <1>16 DEF QueueOK, new

LEMMA QueueAfterReap ==
  ASSUME BmTypeOK, OneJobPerMatch, BotsAreThere, Reap
  PROVE  QueueOK'
<1>1. /\ UNCHANGED matches /\ Queued' = Queued /\ DOMAIN match' = Queued
      /\ \A e \in Queued :
            /\ (\E i \in finished : jobs[i].match = e) => SameMatch(match[e], match'[e], FALSE)
            /\ ~(\E i \in finished : jobs[i].match = e) => match'[e] = match[e]
  BY ReapedMatches
<1>2. PICK h : Left(h)
  BY ReapFacts
<1> DEFINE n == Len(jobs)
           m == Len(jobs')
           new == jobs'
<1>3. /\ new \in Seq(JobRecord)
      /\ \A i \in 1 .. m : Goes(jobs[h[i]], new[i]) /\ h[i] \notin finished /\ h[i] \in 1 .. n
      /\ \A i, j \in 1 .. m : h[i] = h[j] => i = j
      /\ \A k \in 1 .. n : k \notin finished => \E i \in 1 .. m : h[i] = k
  BY <1>2 DEF Left
<1>4. /\ \A i, k \in 1 .. n : jobs[i].match = jobs[k].match => i = k
      /\ \A i \in 1 .. n : jobs[i].match \in Queued
      /\ \A f \in Queued : match[f].isRunning <=> \E i \in 1 .. n : jobs[i].match = f
      /\ \A i \in 1 .. n : \A p \in DOMAIN jobs[i].procs \ {0} :
            jobs[i].procs[p] # "none" => p \in botsOf(match[jobs[i].match])
  BY ByIndex DEF BmTypeOK, JobsByIndex
<1>5. finished \subseteq 1 .. n
  BY DEF finished, BmTypeOK
<1>a. \A i \in 1 .. m : new[i].match = jobs[h[i]].match
  BY <1>3 DEF Goes
<1> HIDE DEF n, m, new
<1>6. \A i \in 1 .. m : ~(\E k \in finished : jobs[k].match = jobs[h[i]].match)
  BY <1>3, <1>4, <1>5
<1>7. ASSUME NEW i \in 1 .. m
      PROVE  match'[new[i].match] = match[new[i].match] /\ new[i].match \in Queued
  <2>1. jobs[h[i]].match \in Queued
    BY <1>3, <1>4
  <2>2. match'[jobs[h[i]].match] = match[jobs[h[i]].match]
    BY <2>1, <1>1, <1>6
  <2> QED BY <2>1, <2>2, <1>a
<1>8. \A i, k \in 1 .. m : new[i].match = new[k].match => i = k
  BY <1>3, <1>4, <1>a
<1>9. ASSUME NEW e \in Queued
      PROVE  match'[e].isRunning <=> \E i \in 1 .. m : new[i].match = e
  <2>1. CASE \E k \in finished : jobs[k].match = e
    <3>1. ~match'[e].isRunning
      BY <2>1, <1>1 DEF SameMatch
    <3>2. ~\E i \in 1 .. m : new[i].match = e
      BY <2>1, <1>6, <1>a
    <3> QED BY <3>1, <3>2
  <2>2. CASE ~\E k \in finished : jobs[k].match = e
    <3>1. match'[e] = match[e]
      BY <2>2, <1>1
    <3>2. (\E k \in 1 .. n : jobs[k].match = e) <=> \E i \in 1 .. m : new[i].match = e
      BY <2>2, <1>3, <1>a
    <3> QED BY <3>1, <3>2, <1>4
  <2> QED BY <2>1, <2>2
<1>10. ASSUME NEW i \in 1 .. m, NEW p \in DOMAIN new[i].procs \ {0}, new[i].procs[p] # "none"
       PROVE  p \in botsOf(match'[new[i].match])
  <2>1. p \in DOMAIN jobs[h[i]].procs \ {0} /\ jobs[h[i]].procs[p] # "none"
    BY <1>10, <1>3 DEF Goes
  <2>2. p \in botsOf(match[jobs[h[i]].match])
    BY <2>1, <1>3, <1>4
  <2> QED BY <2>2, <1>7, <1>a
<1>11. JobsByIndex'
  BY <1>1, <1>7, <1>8, <1>9, <1>10 DEF JobsByIndex, m, new
<1>12. OneJobPerMatch' /\ BotsAreThere'
  BY <1>3, <1>11, ByIndexNext DEF new
<1>13. \A e \in Queued : match'[e] \in MatchRecord
  BY <1>1, MatchTypes DEF SameMatch
<1> QED BY <1>1, <1>3, <1>12, <1>13 DEF QueueOK, BmTypeOK, new

-----------------------------------------------------------------------------
(* Matches and clients.                                                    *)

\* No match is new, or will be run that would not have been.
NoneIsNew ==
    \A e \in Queued' :
        /\ e \in Queued /\ (match'[e].numRuns > 0 => match[e].numRuns > 0)
        /\ match'[e].conn = match[e].conn /\ match'[e].players = match[e].players
        /\ match'[e].user = match[e].user

\* Clients that have logged on stay where they are.
UsersStay(S) ==
    \A c \in S :
        c \in Range(conns.list) /\ conn[c].status = "okay" =>
            /\ c \in Range(conns'.list)
            /\ conn'[c].status = "okay" /\ conn'[c].user = conn[c].user

LEMMA ClientsOfOldMatches ==
  ASSUME MatchesHaveTheirClients, NoneIsNew, UsersStay(ConnEntries)
  PROVE  MatchesHaveTheirClients'
<1>1. SUFFICES ASSUME NEW e \in Queued', NEW c \in ConnEntries,
                      match'[e].numRuns > 0, matchUsesConnection(match'[e], c)
               PROVE  /\ c \in Range(conns'.list)
                      /\ conn'[c].status = "okay" /\ conn'[c].user = match'[e].user
  BY DEF MatchesHaveTheirClients, matchUsesConnection
<1>2. /\ e \in Queued /\ match[e].numRuns > 0 /\ matchUsesConnection(match[e], c)
      /\ match'[e].user = match[e].user
  BY <1>1 DEF NoneIsNew, matchUsesConnection
<1>3. c \in Range(conns.list) /\ conn[c].status = "okay" /\ conn[c].user = match[e].user
  BY <1>2 DEF MatchesHaveTheirClients
<1> QED BY <1>2, <1>3 DEF UsersStay

LEMMA SameTables ==
  ASSUME BmTypeOK, UNCHANGED <<matches, match>>
  PROVE  NoneIsNew
BY DEF NoneIsNew, Queued

LEMMA SameConns ==
  ASSUME UNCHANGED <<conns, conn>>
  PROVE  UsersStay(ConnEntries)
BY DEF UsersStay

LEMMA ClientsStay ==
  ASSUME BmTypeOK, OthersAreClosed, OneJobPerMatch, MatchesHaveTheirClients, Steps
  PROVE  MatchesHaveTheirClients'
<1>1. CASE Keeps /\ UNCHANGED tables
  BY <1>1, SameTables, ClientsOfOldMatches DEF Keeps, UsersStay, tables
<1>2. CASE Sweep
  <2> DEFINE S == {c \in Range(conns.list) : conn[c].status = "closed"}
  <2>1. conns' = LLPoolRemoveAll(conns, S) /\ UNCHANGED <<matches, match>>
    BY <1>2 DEF Sweep, queue
  <2> HIDE DEF S
  <2>2. Range(conns'.list) = Range(conns.list) \ S
    BY <2>1, RemoveAllIsSound DEF BmTypeOK
  <2>3. conn' = [c \in ConnEntries |-> IF c \in Range(conns'.list) THEN conn[c] ELSE noConn]
    BY <1>2 DEF Sweep
  <2>4. UsersStay(ConnEntries)
    BY <2>2, <2>3 DEF UsersStay, S
  <2> QED BY <2>1, <2>4, SameTables, ClientsOfOldMatches
<1>3. CASE Select /\ knocking
  <2> DEFINE n == NextEntry(conns)
  <2>1. conns' = LLPoolAddItem(conns) /\ conn' = [conn EXCEPT ![n] = newConn]
        /\ UNCHANGED <<matches, match>>
    BY <1>3 DEF Select, queue
  <2>2. Range(conns'.list) = Range(conns.list) \cup {n} /\ n \notin Range(conns.list)
    BY <2>1, NewInFront DEF BmTypeOK
  <2> HIDE DEF n
  <2>3. \A c \in ConnEntries \ {n} : conn'[c] = conn[c]
    BY <2>1 DEF BmTypeOK
  <2>4. UsersStay(ConnEntries)
    BY <2>2, <2>3 DEF UsersStay
  <2> QED BY <2>1, <2>4, SameTables, ClientsOfOldMatches
<1>4. ASSUME NEW c \in ConnEntries, LogsOn(c) PROVE MatchesHaveTheirClients'
  <2>1. UsersStay(ConnEntries)
    BY <1>4 DEF LogsOn, Changes, UsersStay
  <2> QED BY <1>4, <2>1, SameTables, ClientsOfOldMatches DEF LogsOn, tables
<1>5. ASSUME NEW c \in ConnEntries, Closes(c) PROVE MatchesHaveTheirClients'
  <2>1. /\ Queued' = Queued
        /\ \A e \in Queued : SameMatch(match[e], match'[e], match[e].isRunning)
        /\ \A e \in Queued : \/ match'[e] = match[e] /\ ~matchUsesConnection(match[e], c)
                             \/ match'[e].numRuns = 0
    BY <1>5, CloseFacts
  <2>2. SUFFICES ASSUME NEW e \in Queued', NEW d \in ConnEntries,
                        match'[e].numRuns > 0, matchUsesConnection(match'[e], d)
                 PROVE  /\ d \in Range(conns'.list)
                        /\ conn'[d].status = "okay" /\ conn'[d].user = match'[e].user
    BY DEF MatchesHaveTheirClients, matchUsesConnection
  <2>3. e \in Queued /\ match'[e] = match[e] /\ ~matchUsesConnection(match[e], c)
    BY <2>1, <2>2
  <2>4. d # c
    BY <2>2, <2>3
  <2>5. d \in Range(conns.list) /\ conn[d].status = "okay" /\ conn[d].user = match[e].user
    BY <2>2, <2>3 DEF MatchesHaveTheirClients
  <2> QED BY <1>5, <2>3, <2>4, <2>5 DEF Closes, Changes
<1>6. ASSUME NEW c \in ConnEntries, Submits(c) PROVE MatchesHaveTheirClients'
  <2>1. PICK e \in MatchEntries : Queues(c, e)
    BY <1>6, SubmitFacts
  <2>2. UsersStay(ConnEntries)
    BY <2>1 DEF Queues, Keeps, UsersStay
  <2>3. c \in Range(conns.list) /\ conn[c].status = "okay"
    BY <2>1 DEF Queues, OthersAreClosed
  <2>4. /\ match'[e].conn = c /\ match'[e].user = conn[c].user
        /\ Queued' = Queued \cup {e} /\ \A f \in Queued : match'[f] = match[f]
    BY <2>1 DEF Queues, newMatch
  <2>5. SUFFICES ASSUME NEW f \in Queued', NEW d \in ConnEntries,
                        match'[f].numRuns > 0, matchUsesConnection(match'[f], d)
                 PROVE  /\ d \in Range(conns'.list)
                        /\ conn'[d].status = "okay" /\ conn'[d].user = match'[f].user
    BY DEF MatchesHaveTheirClients, matchUsesConnection
  <2>6. CASE f = e
    <3>1. d = c
      BY <2>4, <2>5, <2>6 DEF matchUsesConnection
    <3> QED BY <3>1, <2>2, <2>3, <2>4, <2>6 DEF UsersStay
  <2>7. CASE f # e
    <3>1. f \in Queued /\ match'[f] = match[f]
      BY <2>4, <2>7
    <3>2. d \in Range(conns.list) /\ conn[d].status = "okay" /\ conn[d].user = match[f].user
      BY <2>5, <3>1 DEF MatchesHaveTheirClients
    <3> QED BY <3>1, <3>2, <2>2 DEF UsersStay
  <2> QED BY <2>6, <2>7
<1>7. CASE StartMatchJob
  <2>1. PICK e \in Queued : \E upTo \in 1 .. Len(match[e].players) + 1 : Starts(e, upTo)
    BY <1>7, StartFacts
  <2>2. /\ e \in runnable /\ Queued' \subseteq Queued /\ match'[e] = requeued(match[e])
        /\ \A f \in Queued' \ {e} : match'[f] = match[f]
        /\ UNCHANGED <<conns, conn>>
    BY <2>1 DEF Starts
  <2>3. match[e].numRuns > 0
    BY <2>2 DEF runnable
  <2>4. SameMatch(match[e], match'[e], TRUE)
    BY <2>2, MatchTypes
  <2>5. NoneIsNew
    BY <2>2, <2>3, <2>4 DEF NoneIsNew, SameMatch
  <2> QED BY <2>2, <2>5, SameConns, ClientsOfOldMatches
<1>8. CASE NoMatchJob
  <2>1. /\ Range(cleanedUp.list) = {e \in Queued : ~isOver(match[e])}
        /\ DOMAIN stillQueued = {e \in Queued : ~isOver(match[e])}
        /\ \A e \in DOMAIN stillQueued : stillQueued[e] = match[e]
    BY CleanFacts
  <2>2. matches' = cleanedUp /\ match' = stillQueued /\ UNCHANGED <<conns, conn>>
    BY <1>8 DEF NoMatchJob, clients
  <2>3. NoneIsNew
    BY <2>1, <2>2 DEF NoneIsNew, Queued
  <2> QED BY <2>2, <2>3, SameConns, ClientsOfOldMatches
<1>9. CASE Reap
  <2>1. /\ Queued' = Queued /\ UNCHANGED <<conns, conn>>
        /\ \A e \in Queued :
              /\ (\E i \in finished : jobs[i].match = e) => SameMatch(match[e], match'[e], FALSE)
              /\ ~(\E i \in finished : jobs[i].match = e) => match'[e] = match[e]
              /\ match'[e].numRuns = match[e].numRuns
    BY <1>9, ReapedMatches
  <2>2. NoneIsNew
    BY <2>1 DEF NoneIsNew, SameMatch
  <2> QED BY <2>1, <2>2, SameConns, ClientsOfOldMatches
<1>10. ASSUME NEW e \in MatchEntries, NEW p \in AllProcs, Exit(e, p)
       PROVE  MatchesHaveTheirClients'
  BY <1>10, ExitFacts, SameConns, SameTables, ClientsOfOldMatches
<1> QED BY <1>1, <1>2, <1>3, <1>4, <1>5, <1>6, <1>7, <1>8, <1>9, <1>10 DEF Steps

-----------------------------------------------------------------------------
(* Counting.                                                               *)

LEMMA SameSize ==
  ASSUME NEW S, IsFiniteSet(S), NEW T, NEW f \in [S -> T],
         \A x, y \in S : f[x] = f[y] => x = y, \A t \in T : \E x \in S : f[x] = t
  PROVE  IsFiniteSet(T) /\ Cardinality(T) = Cardinality(S)
<1>1. f \in Bijection(S, T)
  BY DEF Bijection, Injection, Surjection, IsInjective
<1> QED BY <1>1, FS_Bijection DEF ExistsBijection

LEMMA InBotPairs ==
  ASSUME NEW S, NEW table, NEW x
  PROVE  x \in BotPairs(S, table) <=> \E e \in S : \E p \in botsOf(table[e]) : x = <<e, p>>
BY DEF BotPairs

LEMMA PairsSame ==
  ASSUME NEW S, NEW old, NEW new, \A e \in S : botsOf(new[e]) = botsOf(old[e])
  PROVE  BotPairs(S, new) = BotPairs(S, old)
<1>1. ASSUME NEW x PROVE x \in BotPairs(S, new) <=> x \in BotPairs(S, old)
  <2>1. x \in BotPairs(S, new) <=> \E e \in S : \E p \in botsOf(new[e]) : x = <<e, p>>
    BY InBotPairs
  <2>2. x \in BotPairs(S, old) <=> \E e \in S : \E p \in botsOf(old[e]) : x = <<e, p>>
    BY InBotPairs
  <2> QED BY <2>1, <2>2
<1> QED BY <1>1

LEMMA PairsMore ==
  ASSUME NEW S, NEW T, T \subseteq S, NEW table
  PROVE  BotPairs(T, table) \subseteq BotPairs(S, table)
BY InBotPairs

LEMMA PairsAdd ==
  ASSUME NEW S, NEW e, NEW table
  PROVE  BotPairs(S \cup {e}, table) = BotPairs(S, table) \cup ({e} \X botsOf(table[e]))
<1>1. ASSUME NEW x
      PROVE  x \in BotPairs(S \cup {e}, table)
                <=> x \in BotPairs(S, table) \/ x \in {e} \X botsOf(table[e])
  <2>1. x \in BotPairs(S \cup {e}, table)
           <=> \E d \in S \cup {e} : \E p \in botsOf(table[d]) : x = <<d, p>>
    BY InBotPairs
  <2>2. x \in BotPairs(S, table) <=> \E d \in S : \E p \in botsOf(table[d]) : x = <<d, p>>
    BY InBotPairs
  <2> QED BY <2>1, <2>2
<1> QED BY <1>1

LEMMA BotsFinite ==
  ASSUME NEW m \in MatchRecord
  PROVE  IsFiniteSet(botsOf(m))
<1>1. m.players \in Seq({"LOCAL", "bot"})
  BY DEF MatchRecord
<1> DEFINE n == Len(m.players)
<1>2. botsOf(m) \in SUBSET (1 .. n) /\ n \in Int
  BY <1>1 DEF botsOf
<1> HIDE DEF n
<1>3. IsFiniteSet(1 .. n)
  BY <1>2, FS_Interval
<1> QED BY <1>2, <1>3, FS_Subset

LEMMA PairsFinite ==
  ASSUME NEW S, IsFiniteSet(S), NEW table, \A e \in S : table[e] \in MatchRecord
  PROVE  IsFiniteSet(BotPairs(S, table))
<1> DEFINE T == {{e} \X botsOf(table[e]) : e \in S}
           f == [e \in S |-> {e} \X botsOf(table[e])]
<1>1. f \in Surjection(S, T)
  BY DEF Surjection
<1>2. IsFiniteSet(T)
  <2> HIDE DEF f, T
  <2> QED BY <1>1, FS_Surjection
<1>3. ASSUME NEW e \in S PROVE IsFiniteSet({e} \X botsOf(table[e]))
  BY BotsFinite, FS_Singleton, FS_Product
<1>4. \A X \in T : IsFiniteSet(X)
  BY <1>3
<1> HIDE DEF T
<1>5. IsFiniteSet(UNION T)
  BY <1>2, <1>4, FS_UNION
<1> QED BY <1>5 DEF T, BotPairs

LEMMA QueueFinite ==
  ASSUME BmTypeOK
  PROVE  IsFiniteSet(Queued) /\ \A S \in SUBSET Queued : IsFiniteSet(S)
<1>1. Queued \in SUBSET (1 .. MaxMatches) /\ MaxMatches \in Int
  BY BmAssumption DEF BmTypeOK, MatchEntries
<1>2. IsFiniteSet(1 .. MaxMatches)
  BY <1>1, FS_Interval
<1>3. IsFiniteSet(Queued)
  BY <1>1, <1>2, FS_Subset
<1> QED BY <1>3, FS_Subset

LEMMA CountsSame ==
  ASSUME CountsAgree, Running' = Running, curRunningJobs' = curRunningJobs,
         \A e \in Running : /\ match'[e].game = match[e].game
                            /\ botsOf(match'[e]) = botsOf(match[e])
  PROVE  CountsAgree'
<1>1. \A g \in Games : RunningOf(g)' = RunningOf(g)
  BY DEF RunningOf
<1>2. BotPairs(Running, match)' = BotPairs(Running, match)
  BY PairsSame
<1> QED BY <1>1, <1>2 DEF CountsAgree

\* A job is found by its match: the indices of jobs are as many as their matches.
LEMMA JobsAreMatches ==
  ASSUME BmTypeOK, JobsByIndex, NEW I \in SUBSET (1 .. Len(jobs))
  PROVE  LET T == {e \in Queued : \E i \in I : jobs[i].match = e}
         IN IsFiniteSet(I) /\ IsFiniteSet(T) /\ Cardinality(T) = Cardinality(I)
<1> DEFINE T == {e \in Queued : \E i \in I : jobs[i].match = e}
           f == [i \in I |-> jobs[i].match]
<1>1. IsFiniteSet(I)
  <2>1. Len(jobs) \in Int
    BY DEF BmTypeOK
  <2>2. IsFiniteSet(1 .. Len(jobs))
    BY <2>1, FS_Interval
  <2> QED BY <2>2, FS_Subset
<1>2. f \in [I -> T]
  BY DEF JobsByIndex
<1>3. \A x, y \in I : f[x] = f[y] => x = y
  BY DEF JobsByIndex
<1>4. \A t \in T : \E x \in I : f[x] = t
  OBVIOUS
<1> HIDE DEF f, T
<1>5. IsFiniteSet(T) /\ Cardinality(T) = Cardinality(I)
  BY <1>1, <1>2, <1>3, <1>4, SameSize
<1> QED BY <1>1, <1>5 DEF T

LEMMA RunningTypes ==
  ASSUME BmTypeOK
  PROVE  /\ IsFiniteSet(Running) /\ \A g : IsFiniteSet(RunningOf(g))
         /\ IsFiniteSet(BotPairs(Running, match))
         /\ Cardinality(BotPairs(Running, match)) \in Nat
<1>1. Running \in SUBSET Queued /\ \A g : RunningOf(g) \in SUBSET Queued
  BY DEF Running, RunningOf
<1>2. IsFiniteSet(Running) /\ \A g : IsFiniteSet(RunningOf(g))
  BY <1>1, QueueFinite
<1>3. \A e \in Running : match[e] \in MatchRecord
  BY <1>1, MatchTypes
<1>4. IsFiniteSet(BotPairs(Running, match))
  BY <1>2, <1>3, PairsFinite
<1> QED BY <1>2, <1>4, FS_CardinalityType

\* The bots of the jobs, counted as the code does, are those of the matches.
LEMMA BotsAreCounted ==
  ASSUME BmTypeOK, JobsByIndex
  PROVE  botsRunning = Cardinality(BotPairs(Running, match))
<1> DEFINE S == BotPairs(Running, match)
           f == [s \in jobBots |-> <<jobs[s[1]].match, s[2]>>]
<1>1. DOMAIN jobs = 1 .. Len(jobs)
  BY DEF BmTypeOK
<1>2. ASSUME NEW s
      PROVE  s \in jobBots <=> \E i \in 1 .. Len(jobs) : \E p \in botsOf(match[jobs[i].match]) :
                                   s = <<i, p>>
  BY <1>1 DEF jobBots
<1>3. \A i \in 1 .. Len(jobs) : jobs[i].match \in Running
  BY DEF JobsByIndex, Running
<1>4. \A e \in Running : \E i \in 1 .. Len(jobs) : jobs[i].match = e
  BY DEF JobsByIndex, Running
<1>5. ASSUME NEW s \in jobBots PROVE f[s] \in S
  <2>1. PICK i \in 1 .. Len(jobs) : \E p \in botsOf(match[jobs[i].match]) : s = <<i, p>>
    BY <1>2
  <2>2. PICK p \in botsOf(match[jobs[i].match]) : s = <<i, p>>
    BY <2>1
  <2>3. f[s] = <<jobs[i].match, p>>
    BY <2>2
  <2> QED BY <2>2, <2>3, <1>3, InBotPairs
<1>6. ASSUME NEW s \in jobBots, NEW t \in jobBots, f[s] = f[t] PROVE s = t
  <2>1. PICK i \in 1 .. Len(jobs) : \E p \in botsOf(match[jobs[i].match]) : s = <<i, p>>
    BY <1>2
  <2>2. PICK p \in botsOf(match[jobs[i].match]) : s = <<i, p>>
    BY <2>1
  <2>3. PICK j \in 1 .. Len(jobs) : \E q \in botsOf(match[jobs[j].match]) : t = <<j, q>>
    BY <1>2
  <2>4. PICK q \in botsOf(match[jobs[j].match]) : t = <<j, q>>
    BY <2>3
  <2>5. jobs[i].match = jobs[j].match /\ p = q
    BY <1>6, <2>2, <2>4
  <2> QED BY <2>2, <2>4, <2>5 DEF JobsByIndex
<1>7. ASSUME NEW x \in S PROVE \E s \in jobBots : f[s] = x
  <2>1. PICK e \in Running : \E p \in botsOf(match[e]) : x = <<e, p>>
    BY InBotPairs
  <2>2. PICK p \in botsOf(match[e]) : x = <<e, p>>
    BY <2>1
  <2>3. PICK i \in 1 .. Len(jobs) : jobs[i].match = e
    BY <1>4
  <2>4. <<i, p>> \in jobBots /\ f[<<i, p>>] = x
    BY <1>2, <2>2, <2>3
  <2> QED BY <2>4
<1>8. f \in [jobBots -> S]
  BY <1>5
<1> HIDE DEF f, S
<1>9. f \in Injection(jobBots, S) /\ f \in Surjection(jobBots, S)
  BY <1>6, <1>7, <1>8 DEF Injection, Surjection, IsInjective
<1>10. IsFiniteSet(S)
  BY RunningTypes DEF S
<1> QED BY <1>9, <1>10, FS_Injection DEF botsRunning, S

LEMMA CountsAfterStart ==
  ASSUME BmTypeOK, JobsByIndex, CountsAgree, NEW e \in Queued,
         NEW upTo \in 1 .. Len(match[e].players) + 1, Starts(e, upTo)
  PROVE  CountsAgree'
<1> DEFINE g0 == match[e].game
<1>1. /\ e \in runnable /\ botsFit(match[e])
      /\ curRunningJobs' = [curRunningJobs EXCEPT ![g0] = @ + 1]
      /\ Queued' = {f \in Queued : ~isOver(match[f])} /\ e \in Queued'
      /\ match'[e] = requeued(match[e])
      /\ \A f \in Queued' \ {e} : match'[f] = match[f]
  BY DEF Starts
<1>2. /\ ~match[e].isRunning /\ ~tooBusy(g0) /\ g0 \in Games
  BY <1>1, MatchTypes DEF runnable, MatchRecord
<1>3. SameMatch(match[e], match'[e], TRUE)
  BY <1>1, MatchTypes
<1>4. \A f \in Queued : match[f].isRunning => ~isOver(match[f])
  BY DEF isOver
<1>5. e \notin Running /\ Running' = Running \cup {e}
  BY <1>1, <1>2, <1>3, <1>4 DEF Running, SameMatch
<1>6. /\ \A f \in Running : match'[f] = match[f]
      /\ match'[e].game = g0 /\ botsOf(match'[e]) = botsOf(match[e])
  BY <1>1, <1>3, <1>4, <1>5, SameBots DEF Running, SameMatch
<1> HIDE DEF g0
<1>7. ASSUME NEW g \in Games
      PROVE  RunningOf(g)' = IF g = g0 THEN RunningOf(g) \cup {e} ELSE RunningOf(g)
  BY <1>5, <1>6 DEF RunningOf
<1>8. \A g \in Games : /\ IsFiniteSet(RunningOf(g)) /\ e \notin RunningOf(g)
                       /\ curRunningJobs[g] \in Int
  BY <1>5, RunningTypes DEF RunningOf, BmTypeOK
<1>9. ASSUME NEW g \in Games
      PROVE  /\ curRunningJobs'[g] = Cardinality(RunningOf(g)')
             /\ maxRunningJobs[g] # 0 => curRunningJobs'[g] <= maxRunningJobs[g]
  <2>1. curRunningJobs[g] = Cardinality(RunningOf(g))
    BY DEF CountsAgree
  <2>2. maxRunningJobs[g] # 0 => curRunningJobs[g] <= maxRunningJobs[g]
    BY DEF CountsAgree
  <2>3. CASE g = g0
    <3>1. curRunningJobs'[g] = curRunningJobs[g] + 1
      BY <1>1, <1>2, <2>3 DEF BmTypeOK
    <3>2. Cardinality(RunningOf(g)') = Cardinality(RunningOf(g)) + 1
      BY <1>7, <1>8, <2>3, FS_AddElement
    <3>3. maxRunningJobs[g] # 0 => curRunningJobs[g] < maxRunningJobs[g]
      <4>1. maxRunningJobs[g] \in Nat
        BY BmAssumption
      <4> QED BY <4>1, <1>2, <1>8, <2>3 DEF tooBusy
    <3>4. maxRunningJobs[g] \in Nat
      BY BmAssumption
    <3> QED BY <3>1, <3>2, <3>3, <3>4, <2>1, <1>8
  <2>4. CASE g # g0
    <3>1. curRunningJobs'[g] = curRunningJobs[g]
      BY <1>1, <2>4 DEF BmTypeOK
    <3> QED BY <3>1, <1>7, <2>1, <2>2, <2>4
  <2> QED BY <2>3, <2>4
<1>10. maxRunningBots # 0 => Cardinality(BotPairs(Running, match)') <= maxRunningBots
  <2> DEFINE A == BotPairs(Running, match)
             B == {e} \X botsOf(match[e])
  <2>1. BotPairs(Running, match)' = A \cup B
    <3>1. BotPairs(Running', match') = BotPairs(Running, match') \cup ({e} \X botsOf(match'[e]))
      BY <1>5, PairsAdd
    <3>2. BotPairs(Running, match') = A
      BY <1>6, PairsSame
    <3> QED BY <3>1, <3>2, <1>6
  <2>2. IsFiniteSet(A) /\ Cardinality(A) \in Nat
    BY RunningTypes
  <2>3. IsFiniteSet(botsOf(match[e]))
    BY MatchTypes, BotsFinite
  <2>4. /\ IsFiniteSet(B) /\ Cardinality(B) = 1 * Cardinality(botsOf(match[e]))
        /\ Cardinality(botsOf(match[e])) \in Nat
    <3>1. IsFiniteSet({e}) /\ Cardinality({e}) = 1
      BY FS_Singleton
    <3>2. Cardinality(botsOf(match[e])) \in Nat
      BY <2>3, FS_CardinalityType
    <3>3. IsFiniteSet(B) /\ Cardinality(B) = Cardinality({e}) * Cardinality(botsOf(match[e]))
      BY <2>3, <3>1, FS_Product
    <3> QED BY <3>1, <3>2, <3>3
  <2>5. maxRunningBots # 0 => botsInMatch(match[e]) + Cardinality(A) <= maxRunningBots
    BY <1>1, BotsAreCounted DEF botsFit
  <2> HIDE DEF A, B
  <2>6. A \cap B = {}
    <3>1. \A x \in A : x \notin B
      BY <1>5, InBotPairs DEF A, B
    <3> QED BY <3>1
  <2>7. Cardinality(A \cup B) = Cardinality(A) + Cardinality(B) - Cardinality(A \cap B)
    BY <2>2, <2>4, FS_Union
  <2>8. Cardinality(A \cap B) = 0
    BY <2>6, FS_EmptySet
  <2>9. Cardinality(B) = botsInMatch(match[e]) /\ maxRunningBots \in Nat
    BY <2>4, BmAssumption DEF botsInMatch
  <2> QED BY <2>1, <2>2, <2>4, <2>5, <2>7, <2>8, <2>9
<1> QED BY <1>9, <1>10 DEF CountsAgree

LEMMA CountsAfterReap ==
  ASSUME BmTypeOK, JobsByIndex, CountsAgree, Reap
  PROVE  CountsAgree'
<1>1. /\ Queued' = Queued
      /\ \A e \in Queued :
            /\ (\E i \in finished : jobs[i].match = e) => SameMatch(match[e], match'[e], FALSE)
            /\ ~(\E i \in finished : jobs[i].match = e) => match'[e] = match[e]
  BY ReapedMatches
<1>2. /\ curRunningJobs' = [g \in Games |-> curRunningJobs[g]
                               - Cardinality({i \in finished : match[jobs[i].match].game = g})]
  BY DEF Reap
<1>3. finished \subseteq 1 .. Len(jobs)
  BY DEF finished, BmTypeOK
<1> DEFINE done == {e \in Queued : \E i \in finished : jobs[i].match = e}
<1>4. Running' = Running \ done
  BY <1>1 DEF Running, SameMatch
<1>5. \A e \in Running' : match'[e] = match[e]
  BY <1>1, <1>4 DEF Running
<1>6. ASSUME NEW g \in Games
      PROVE  /\ curRunningJobs'[g] = Cardinality(RunningOf(g)')
             /\ maxRunningJobs[g] # 0 => curRunningJobs'[g] <= maxRunningJobs[g]
  <2> DEFINE I == {i \in finished : match[jobs[i].match].game = g}
             D == {e \in Queued : \E i \in I : jobs[i].match = e}
             R == RunningOf(g)
  <2>1. IsFiniteSet(D) /\ Cardinality(D) = Cardinality(I)
    <3>1. I \in SUBSET (1 .. Len(jobs))
      BY <1>3
    <3> HIDE DEF I
    <3> QED BY <3>1, JobsAreMatches
  <2>2. D \subseteq R
    BY <1>3 DEF RunningOf, Running, JobsByIndex
  <2>3. RunningOf(g)' = R \ D
    BY <1>1, <1>4, <1>5 DEF RunningOf, Running
  <2>4. curRunningJobs'[g] = curRunningJobs[g] - Cardinality(I)
    BY <1>2
  <2> HIDE DEF I, D, R
  <2>5. IsFiniteSet(R)
    BY RunningTypes DEF R
  <2>6. Cardinality(R \ D) = Cardinality(R) - Cardinality(R \cap D) /\ R \cap D = D
    BY <2>2, <2>5, FS_Difference
  <2>7. /\ curRunningJobs[g] = Cardinality(R)
        /\ maxRunningJobs[g] # 0 => curRunningJobs[g] <= maxRunningJobs[g]
    BY DEF CountsAgree, R
  <2>8. Cardinality(R) \in Nat /\ Cardinality(D) \in Nat /\ maxRunningJobs[g] \in Nat
    BY <2>1, <2>5, FS_CardinalityType, BmAssumption
  <2> QED BY <2>1, <2>3, <2>4, <2>6, <2>7, <2>8
<1>7. maxRunningBots # 0 => Cardinality(BotPairs(Running, match)') <= maxRunningBots
  <2>1. BotPairs(Running', match') = BotPairs(Running', match)
    BY <1>5, PairsSame
  <2>2. BotPairs(Running', match) \subseteq BotPairs(Running, match)
    BY <1>4, PairsMore
  <2>3. IsFiniteSet(BotPairs(Running, match)) /\ Cardinality(BotPairs(Running, match)) \in Nat
    BY RunningTypes
  <2>4. /\ Cardinality(BotPairs(Running', match)) <= Cardinality(BotPairs(Running, match))
        /\ IsFiniteSet(BotPairs(Running', match))
    BY <2>2, <2>3, FS_Subset
  <2>5. Cardinality(BotPairs(Running', match)) \in Nat /\ maxRunningBots \in Nat
    BY <2>4, FS_CardinalityType, BmAssumption
  <2> QED BY <2>1, <2>3, <2>4, <2>5 DEF CountsAgree
<1> QED BY <1>6, <1>7 DEF CountsAgree

-----------------------------------------------------------------------------
(* The invariant.                                                          *)

LEMMA ServerInvInit == ClientsInit => ServerInv
<1> SUFFICES ASSUME ClientsInit PROVE ServerInv
  OBVIOUS
<1>1. /\ conns = newLLPool /\ matches = newLLPool /\ match = << >> /\ jobs = << >>
      /\ conn = [c \in ConnEntries |-> noConn]
      /\ curRunningJobs = [g \in Games |-> 0]
  BY DEF ClientsInit, Init
<1>2. SoundPool(conns) /\ SoundPool(matches) /\ Queued = {}
  BY <1>1, NewPoolIsSound DEF Queued
<1>3. noConn \in ConnRecord /\ noConn.status = "closed"
  <2>1. << >> \in Seq(Line)
    OBVIOUS
  <2> QED BY <2>1 DEF newConn, noConn, ConnRecord
<1>4. jobs \in Seq(JobRecord) /\ DOMAIN jobs = {} /\ DOMAIN match = {}
  BY <1>1
<1>5. BmTypeOK
  BY <1>1, <1>2, <1>3, <1>4 DEF BmTypeOK
<1>6. OthersAreClosed /\ MatchesHaveTheirClients /\ OneJobPerMatch /\ BotsAreThere
  BY <1>1, <1>2, <1>3, <1>4
     DEF OthersAreClosed, MatchesHaveTheirClients, OneJobPerMatch, BotsAreThere
<1>7. Running = {} /\ \A g : RunningOf(g) = {}
  BY <1>2 DEF Running, RunningOf
<1>8. BotPairs({}, match) = {}
  BY InBotPairs
<1>9. CountsAgree
  <2>1. Cardinality({}) = 0
    BY FS_EmptySet
  <2>2. maxRunningBots \in Nat /\ \A g \in Games : maxRunningJobs[g] \in Nat
    BY BmAssumption
  <2>3. \A g \in Games : curRunningJobs[g] = 0 /\ Cardinality(RunningOf(g)) = 0
    BY <1>1, <1>7, <2>1
  <2>4. Cardinality(BotPairs(Running, match)) = 0
    BY <1>7, <1>8, <2>1
  <2> QED BY <2>2, <2>3, <2>4 DEF CountsAgree
<1> QED BY <1>5, <1>6, <1>9 DEF ServerInv

LEMMA QueueStaysOK ==
  ASSUME ServerInv, Steps
  PROVE  QueueOK' /\ CountsAgree'
<1>1. /\ BmTypeOK /\ OneJobPerMatch /\ BotsAreThere /\ CountsAgree /\ JobsByIndex
      /\ QueueOK
  BY ByIndex DEF ServerInv, BmTypeOK, QueueOK
<1>2. CASE UNCHANGED tables
  <2>1. QueueOK'
    BY <1>1, <1>2 DEF tables, QueueOK, Queued, OneJobPerMatch, BotsAreThere
  <2>2. Running' = Running /\ match' = match /\ curRunningJobs' = curRunningJobs
    BY <1>2 DEF tables, Running, Queued
  <2> QED BY <1>1, <2>1, <2>2, CountsSame
<1>3. CASE Sweep \/ Select
  BY <1>2, <1>3 DEF Sweep, Select, queue, running, tables
<1>4. ASSUME NEW c \in ConnEntries, Closes(c) PROVE QueueOK' /\ CountsAgree'
  <2>1. QueueOK'
    BY <1>1, <1>4, QueueAfterClose
  <2>2. /\ UNCHANGED curRunningJobs /\ Queued' = Queued
        /\ \A e \in Queued : SameMatch(match[e], match'[e], match[e].isRunning)
    BY <1>1, <1>4, CloseFacts
  <2>3. Running' = Running /\ Running \subseteq Queued
    BY <2>2 DEF Running, SameMatch
  <2>4. \A e \in Running : match'[e].game = match[e].game /\ botsOf(match'[e]) = botsOf(match[e])
    BY <2>2, <2>3, SameBots DEF SameMatch
  <2> QED BY <1>1, <2>1, <2>2, <2>3, <2>4, CountsSame
<1>5. ASSUME NEW c \in ConnEntries, Submits(c) PROVE QueueOK' /\ CountsAgree'
  <2>1. PICK e \in MatchEntries : Queues(c, e)
    BY <1>1, <1>5, SubmitFacts
  <2>2. QueueOK'
    BY <1>1, <2>1, QueueAfterSubmit
  <2>3. ~match'[e].isRunning
    BY <1>1, <2>1, NewMatchType DEF Queues
  <2>4. Running' = Running /\ \A f \in Running : match'[f] = match[f]
    BY <2>1, <2>3 DEF Queues, Running
  <2>5. curRunningJobs' = curRunningJobs
    BY <2>1 DEF Queues
  <2> QED BY <1>1, <2>2, <2>4, <2>5, CountsSame
<1>6. CASE StartMatchJob
  <2>1. PICK e \in Queued : \E upTo \in 1 .. Len(match[e].players) + 1 : Starts(e, upTo)
    BY <1>1, <1>6, StartFacts
  <2>2. PICK upTo \in 1 .. Len(match[e].players) + 1 : Starts(e, upTo)
    BY <2>1
  <2> QED BY <1>1, <2>2, QueueAfterStart, CountsAfterStart
<1>7. CASE NoMatchJob
  <2>1. QueueOK' /\ Running' = Running /\ \A e \in Running : match'[e] = match[e]
    BY <1>1, <1>7, QueueAfterClean
  <2>2. curRunningJobs' = curRunningJobs
    BY <1>7 DEF NoMatchJob, running
  <2> QED BY <1>1, <2>1, <2>2, CountsSame
<1>8. CASE Reap
  BY <1>1, <1>8, QueueAfterReap, CountsAfterReap
<1>9. ASSUME NEW e \in MatchEntries, NEW p \in AllProcs, Exit(e, p)
      PROVE  QueueOK' /\ CountsAgree'
  <2>1. QueueOK'
    BY <1>1, <1>9, QueueAfterExit
  <2>2. Running' = Running /\ match' = match /\ curRunningJobs' = curRunningJobs
    BY <1>9 DEF Exit, queue, Running, Queued
  <2> QED BY <1>1, <2>1, <2>2, CountsSame
<1> QED BY <1>2, <1>3, <1>4, <1>5, <1>6, <1>7, <1>8, <1>9 DEF Steps, LogsOn

LEMMA CountersAreNumbers ==
  ASSUME BmTypeOK, Steps
  PROVE  curRunningJobs' \in [Games -> Int]
<1>1. curRunningJobs \in [Games -> Int] /\ finished \subseteq 1 .. Len(jobs) /\ Len(jobs) \in Int
  BY DEF BmTypeOK, finished
<1>2. CASE UNCHANGED curRunningJobs
  BY <1>1, <1>2
<1>3. CASE StartMatchJob
  <2>1. PICK e \in runnable : curRunningJobs' = [curRunningJobs EXCEPT ![match[e].game] = @ + 1]
    BY <1>3 DEF StartMatchJob
  <2>2. match[e].game \in Games
    BY MatchTypes DEF runnable, MatchRecord
  <2> QED BY <1>1, <2>1, <2>2
<1>4. CASE Reap
  <2> DEFINE I(g) == {i \in finished : match[jobs[i].match].game = g}
  <2>1. ASSUME NEW g \in Games PROVE Cardinality(I(g)) \in Nat
    <3>1. I(g) \in SUBSET (1 .. Len(jobs))
      BY <1>1
    <3> HIDE DEF I
    <3>2. IsFiniteSet(1 .. Len(jobs))
      BY <1>1, FS_Interval
    <3>3. IsFiniteSet(I(g))
      BY <3>1, <3>2, FS_Subset
    <3> QED BY <3>3, FS_CardinalityType
  <2>2. curRunningJobs' = [g \in Games |-> curRunningJobs[g] - Cardinality(I(g))]
    BY <1>4 DEF Reap
  <2> HIDE DEF I
  <2> QED BY <1>1, <2>1, <2>2
<1>5. ASSUME NEW c \in ConnEntries, LogsOn(c) \/ Closes(c) \/ Submits(c)
      PROVE  UNCHANGED curRunningJobs
  <2>1. CASE Submits(c)
    <3>1. \E e \in MatchEntries : Queues(c, e)
      BY <2>1, SubmitFacts
    <3> QED BY <3>1 DEF Queues
  <2> QED BY <1>5, <2>1 DEF LogsOn, Closes, tables
<1>6. CASE Sweep \/ Select \/ NoMatchJob \/ UNCHANGED tables
  BY <1>2, <1>6 DEF Sweep, Select, NoMatchJob, running, tables
<1>7. ASSUME NEW e \in MatchEntries, NEW p \in AllProcs, Exit(e, p)
      PROVE  UNCHANGED curRunningJobs
  BY <1>7 DEF Exit
<1> QED BY <1>2, <1>3, <1>4, <1>5, <1>6, <1>7 DEF Steps

LEMMA ServerInvStep == ServerInv /\ [ClientsNext]_allVars => ServerInv'
<1> SUFFICES ASSUME ServerInv, [ClientsNext]_allVars PROVE ServerInv'
  OBVIOUS
<1>1. BmTypeOK /\ OthersAreClosed /\ MatchesHaveTheirClients /\ OneJobPerMatch
  BY DEF ServerInv
<1>2. Steps
  BY <1>1, ClientsStep
<1>3. ConnsOK'
  BY <1>1, <1>2, ConnsStayOK
<1>4. QueueOK' /\ CountsAgree'
  BY <1>2, QueueStaysOK
<1>5. MatchesHaveTheirClients'
  BY <1>1, <1>2, ClientsStay
<1>6. curRunningJobs' \in [Games -> Int]
  BY <1>1, <1>2, CountersAreNumbers
<1>7. BmTypeOK' /\ OthersAreClosed' /\ OneJobPerMatch' /\ BotsAreThere'
  BY <1>3, <1>4, <1>6 DEF ConnsOK, QueueOK, BmTypeOK
<1> QED BY <1>4, <1>5, <1>7 DEF ServerInv

LEMMA ServerInvHolds == ClientsSpec => []ServerInv
<1>1. ClientsInit => ServerInv
  BY ServerInvInit
<1>2. ServerInv /\ [ClientsNext]_allVars => ServerInv'
  BY ServerInvStep
<1> QED BY <1>1, <1>2, PTL DEF ClientsSpec

-----------------------------------------------------------------------------
(* The theorems.                                                           *)

\* bm_server.c never forgets or doubles a job: whatever the clients do and in
\* whatever order processes end, a match has a job exactly while it is marked as
\* running (isRunning), never two, and a job's match is still in the queue.
THEOREM JobsAreOfMatches == ClientsSpec => []OneJobPerMatch
<1>1. ServerInv => OneJobPerMatch
  BY DEF ServerInv
<1> QED BY <1>1, ServerInvHolds, PTL

\* startMatchJob hands a match to the client that asked for it: a match that will
\* be run again has its connection, which is logged on as the same user; the entry
\* in the pool of connections holds no other client.
THEOREM ClientsAreThere == ClientsSpec => []MatchesHaveTheirClients
<1>1. ServerInv => MatchesHaveTheirClients
  BY DEF ServerInv
<1> QED BY <1>1, ServerInvHolds, PTL

LEMMA LimitsFollow == ServerInv => LimitsHold
<1> SUFFICES ASSUME ServerInv PROVE LimitsHold
  OBVIOUS
<1>1. BmTypeOK /\ JobsByIndex /\ CountsAgree
  BY ByIndex DEF ServerInv, BmTypeOK
<1>2. DOMAIN jobs = 1 .. Len(jobs)
  BY <1>1 DEF BmTypeOK
<1>3. ASSUME NEW g \in Games
      PROVE  Cardinality({i \in DOMAIN jobs : match[jobs[i].match].game = g})
                = Cardinality(RunningOf(g))
  <2> DEFINE I == {i \in DOMAIN jobs : match[jobs[i].match].game = g}
             T == {e \in Queued : \E i \in I : jobs[i].match = e}
  <2>1. T = RunningOf(g)
    BY <1>1, <1>2 DEF JobsByIndex, RunningOf, Running
  <2>2. I \in SUBSET (1 .. Len(jobs))
    BY <1>2
  <2>3. Cardinality(T) = Cardinality(I)
    <3> HIDE DEF I
    <3> QED BY <1>1, <2>2, JobsAreMatches
  <2> QED BY <2>1, <2>3
<1>4. /\ IsFiniteSet(RunningBots)
      /\ Cardinality(RunningBots) <= Cardinality(BotPairs(Running, match))
  <2> DEFINE S == BotPairs(Running, match)
             f == [s \in RunningBots |-> <<jobs[s[1]].match, s[2]>>]
  <2>1. ASSUME NEW s
        PROVE  s \in RunningBots <=>
                  \E i \in 1 .. Len(jobs) : \E p \in DOMAIN jobs[i].procs \ {0} :
                      s = <<i, p>> /\ jobs[i].procs[p] = "running"
    BY <1>2 DEF RunningBots
  <2>2. ASSUME NEW s \in RunningBots
        PROVE  \E i \in 1 .. Len(jobs) : \E p \in botsOf(match[jobs[i].match]) : s = <<i, p>>
    <3>1. PICK i \in 1 .. Len(jobs) : \E p \in DOMAIN jobs[i].procs \ {0} :
                      s = <<i, p>> /\ jobs[i].procs[p] = "running"
      BY <2>1
    <3>2. PICK p \in DOMAIN jobs[i].procs \ {0} : s = <<i, p>> /\ jobs[i].procs[p] = "running"
      BY <3>1
    <3> QED BY <1>1, <3>2 DEF JobsByIndex
  <2>3. \A i \in 1 .. Len(jobs) : jobs[i].match \in Running
    BY <1>1 DEF JobsByIndex, Running
  <2>4. ASSUME NEW s \in RunningBots PROVE f[s] \in S
    <3>1. PICK i \in 1 .. Len(jobs) : \E p \in botsOf(match[jobs[i].match]) : s = <<i, p>>
      BY <2>2
    <3>2. PICK p \in botsOf(match[jobs[i].match]) : s = <<i, p>>
      BY <3>1
    <3>3. f[s] = <<jobs[i].match, p>>
      BY <3>2
    <3> QED BY <3>2, <3>3, <2>3, InBotPairs
  <2>5. ASSUME NEW s \in RunningBots, NEW t \in RunningBots, f[s] = f[t] PROVE s = t
    <3>1. PICK i \in 1 .. Len(jobs) : \E p \in botsOf(match[jobs[i].match]) : s = <<i, p>>
      BY <2>2
    <3>2. PICK p \in botsOf(match[jobs[i].match]) : s = <<i, p>>
      BY <3>1
    <3>3. PICK j \in 1 .. Len(jobs) : \E q \in botsOf(match[jobs[j].match]) : t = <<j, q>>
      BY <2>2
    <3>4. PICK q \in botsOf(match[jobs[j].match]) : t = <<j, q>>
      BY <3>3
    <3>5. jobs[i].match = jobs[j].match /\ p = q
      BY <2>5, <3>2, <3>4
    <3> QED BY <1>1, <3>2, <3>4, <3>5 DEF JobsByIndex
  <2>6. f \in [RunningBots -> S]
    BY <2>4
  <2> HIDE DEF f, S
  <2>7. f \in Injection(RunningBots, S)
    BY <2>5, <2>6 DEF Injection, IsInjective
  <2>8. IsFiniteSet(S)
    BY <1>1, RunningTypes DEF S
  <2> QED BY <2>7, <2>8, FS_Injection DEF S
<1>5. maxRunningBots # 0 => Cardinality(RunningBots) <= maxRunningBots
  <2>1. Cardinality(BotPairs(Running, match)) \in Nat /\ IsFiniteSet(BotPairs(Running, match))
    BY <1>1, RunningTypes
  <2>2. Cardinality(RunningBots) \in Nat
    BY <1>4, FS_CardinalityType
  <2> QED BY <1>1, <1>4, <2>1, <2>2, BmAssumption DEF CountsAgree
<1> QED BY <1>1, <1>3, <1>5 DEF CountsAgree, LimitsHold

\* The limits of the configuration hold of the processes themselves: curRunningJobs
\* counts the jobs of every game and stays within maxRunningJobs, and no more bots
\* run than maxRunningBots, those of aborted jobs included.
THEOREM LimitsAreKept == ClientsSpec => []LimitsHold
BY LimitsFollow, ServerInvHolds, PTL

=============================================================================
