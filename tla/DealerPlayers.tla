--------------------------- MODULE DealerPlayers ----------------------------
(***************************************************************************)
(* The dealer and, in every seat, a client with the loop that              *)
(* example_player.c, tcc_ai_player.c and the Lua client share: read the    *)
(* next state, and answer it when it is this seat's turn.  Besides, a      *)
(* client may write any of its lines again, or a line of Noise.  The       *)
(* dealer may be killed and started again, and the clients with it.        *)
(***************************************************************************)
EXTENDS Dealer

CONSTANT MaxExtra       \* bound: lines besides those of the loop

VARIABLES
    chosen,     \* for every seat, what it made of each message it has read
    extra       \* the lines besides those of the loop: "again", or a kind of Noise

all == <<vars, chosen, extra>>

\* What a client makes of a message that it does not answer.
Silent == [type |-> "invalid", size |-> 0]

ValidActions(s) == {a \in Actions : isValidAction(s, FALSE, a)}

PlayersInit == Init /\ chosen = [s \in Seats |-> << >>] /\ extra = << >>

\* One turn of the client's loop.
Client(seat) ==
    LET m == sent[seat][Len(chosen[seat]) + 1]
        reads(a) == chosen' = [chosen EXCEPT ![seat] = Append(@, a)]
    IN /\ Len(chosen[seat]) < Len(sent[seat])
       /\ UNCHANGED extra
       /\ IF stateFinished(m.state) \/ currentPlayer(m.state) # m.viewingPlayer
          THEN reads(Silent) /\ UNCHANGED vars
          ELSE \E a \in ValidActions(m.state) :
                  /\ reads(a)
                  /\ Write(seat, [kind |-> "response", state |-> m, action |-> a])

\* A line of an earlier turn, at any time, and noise while the dealer reads.
Again(seat) ==
    \E k \in DOMAIN chosen[seat] :
        /\ chosen[seat][k] # Silent
        /\ Write(seat, [kind |-> "response", state |-> sent[seat][k], action |-> chosen[seat][k]])

WriteMore(seat) ==
    /\ Len(extra) < MaxExtra /\ UNCHANGED chosen
    /\ \/ Again(seat) /\ extra' = Append(extra, "again")
       \/ Chatter(seat) /\ extra' = Append(extra, Last(inbox'[seat]).kind)

DealerStep == Dealing /\ UNCHANGED <<chosen, extra>>
Killed ==
    /\ Crash /\ restarts < MaxRestarts
    /\ chosen' = [s \in Seats |-> << >>] /\ UNCHANGED extra
Restarted == Restart /\ UNCHANGED <<chosen, extra>>

\* Nobody has anything to do: the clients have read all they were sent, and the
\* dealer waits in getLine, or is done and waits for nothing.
Quiet ==
    /\ pc = "done" \/ (pc = "read" /\ inbox[currentSeat(table)] = << >>)
    /\ \A seat \in Seats : Len(chosen[seat]) = Len(sent[seat])

Waits == Quiet /\ UNCHANGED all

PlayersNext ==
    DealerStep \/ Killed \/ Restarted \/ Waits \/ \E seat \in Seats : Client(seat) \/ WriteMore(seat)

\* Whoever can run runs, and a dealer that was killed is started again: this is
\* WF_all of those steps, with the condition that enables them written out.
Fairness == []<>Quiet \/ []<><<TRUE>>_all

PlayersSpec == PlayersInit /\ [][PlayersNext]_all /\ Fairness

-----------------------------------------------------------------------------
\* The match comes to its end: the dealer never waits for a seat that waits for
\* the dealer, and a restart never loses the hand it has to go on with.
MatchEnds == <>(pc = "done")

\* No client's loop writes a line that the dealer has not asked for: only the
\* seat it asks has one on its way, which answers the state the dealer is in.
LinesAreAwaited ==
    \A seat \in Seats : extra = << >> /\ inbox[seat] # << >> =>
        /\ pc \in {"send", "read"} /\ seat = currentSeat(table)
        /\ Len(inbox[seat]) = 1 /\ isForState(table, seat, Head(inbox[seat]))

\* What a client chose is what happens: the next state it is sent is the one
\* its action leads to, unrepaired, and not that of an answer to some other
\* state that was still on its way or came twice.  Only a line with the right
\* state and no action that can be read is a call whatever the client chose.
ChoicesHappen ==
    "malformed" \notin Range(extra) =>
        \A seat \in Seats : \A k \in DOMAIN chosen[seat] :
            chosen[seat][k] # Silent /\ k < Len(sent[seat]) =>
                sent[seat][k + 1].state = doAction(sent[seat][k].state, chosen[seat][k])

=============================================================================
