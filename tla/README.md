# A TLA+ development for DeepStack-Leduc-Container

The repository is two programs that meet over a socket. `ACPCServer/` is the
dealer of the Annual Computer Poker Competition in C: a rules engine
(`game.c`), a match server (`dealer.c`), a job server that starts dealers and
bots (`bm_server.c`), a line reader (`net.c`) and clients. `Source/` is
DeepStack-Leduc in Lua: a client of that dealer that parses its messages,
builds game trees and lookaheads, and solves them numerically. This directory
models the parts whose correctness is a matter of states, orders and limits.

## 1. Inventory

| part | state it keeps | operations | who it talks to |
| --- | --- | --- | --- |
| betting engine, `game.c`, `game.h` | `Game`, read from a file; `State`: round, spent chips, bet, minimum raise, actions, folds, `finished`, cards | `readGame`, `initState`, `dealCards`, `isValidAction`, `doAction`, `valueOfState`, `printMatchState`, `readMatchState`, the counters | called by every other C program |
| match server, `dealer.c` | hand number, `State`, `player0Seat`, totals per seat, `ErrorInfo` (times, invalid actions), log and transaction log | `gameLoop`, `readPlayerResponse`, `setUpNewHand`, `processTransactionFile`, `logTransaction`, `checkErrorTimes`, ... | one socket per seat; files read back after a crash |
| line reader, `net.c` | `ReadBuf`: bytes received and not yet consumed | `getLine` | dealer, job server, every client |
| job server, `bm_server.c` | linked-list pools of connections, bots, users, games, matches and jobs | `handleConnection`, `parseMatchSpec`, `startMatchJob`, `runMatchJob`, `checkIfJobFinished`, `closeConnection` | users over sockets; dealers and bots as child processes |
| C clients, `example_player.c`, `tcc_ai_player*.c` (with `matchstate_to_action*.py`) | the last `MatchState` read | answer when it is their turn | the dealer |
| job clients, `bm_widget.c`, `bm_run_matches.c` | lines of the server not yet read | pass lines on, or write one; start a bot for every `RUN` line | job server; their bots take seats at its dealers |
| Lua client, `Source/ACPC`, `Source/Player` | last node, bucket/range and counterfactual values of the current hand, position | `get_next_situation`, `parse_state`, `start_new_hand`, `compute_action` | the dealer |
| tree, `Source/Tree`, `Source/Game` | game tree nodes | `build_tree`, `get_possible_bets`, strategy filling | lookahead and data generation |
| cards, `Source/Game`, `Source/TerminalEquity`, the bucketer of `Source/Nn` | the board, and matrices made for it | strength of hands, indices of boards, equity and fold matrices, buckets | lookahead, net |
| lookahead and CFR, `Source/Lookahead`, `Source/Nn` | tensors | regret matching, averaging, network evaluation | the Lua client |
| training, `Source/Training`, `Source/DataGeneration` | network weights, sample files | batches, epochs | the file system |

Not part of the inventory above, because they hold no state of the system:
the random number generator (vendored), the evaluator tables of `game.c`, the
Perl scripts, the Dockerfile, and the Lua mocks and tests.

### What is hard about it

- **Interleaving.** The dealer sends a state to one seat after the other while
  seats already answer; clients answer late, twice, or to a state that is gone.
  The job server is one thread, but its processes end in any order and its
  clients come and go between any two of its steps; two lines for a client may
  come in one packet. DeepStack computes for seconds while lines pile up.
- **Crash and restart.** The dealer may die between any two steps and is started
  again on a transaction file that must lead back to the same match.
- **Time.** Charged per response, per hand and per match; `getLine` restarts its
  clock with every line; the arithmetic of timeouts is unsigned.
- **Shared links.** The pools of the job server reuse freed entries at once and
  are changed while they are walked; queued matches point to connections.
- **Two games that must be one.** DeepStack re-implements the betting rules in
  its tree builder, guesses the state from a string, and lays its trees out in
  tensors where only the order of indices ties a cell to a node.
- **What is written must be read.** A state goes over the wire without its turn,
  its spent chips or its round ends, which the reader must recreate; nothing tells
  hole cards from the board; a game definition is read into memory that is not
  cleared, from lines that may be missing or come twice.
- **Boundaries of betting.** All-ins below the minimum raise, folds inside a
  bet, the option of the big blind, a limit raise by a short stack, side pots.

The file `PROJECT.json` lists each of these hazards at its line, with the
properties that would catch it going wrong, or a note saying why none does.

### What makes each part correct

| part | it is correct when |
| --- | --- |
| game file | every program that reads it refuses it or plays the same sound game |
| dealing and texts | no card is dealt twice; a state is read back as it was printed; nobody is told a card that is hidden from him |
| betting engine | a hand never stalls, asks nobody twice about one bet, closes a round only when it is matched, never runs out of its action array, never lets the bet shrink; every pot goes to whom the rules give it |
| match | the button moves as it should; a match ends after its hands; seats and players are not mixed up in the totals |
| match server | what its files say is the match it plays, across crashes; an answer counts for the state it names and once; all seats see one history; a dealer can read the file it wrote; a match of live clients ends |
| blueprint clients | the key made of a state has a row in the table, and what is drawn from the row is valid in that state |
| line reader | the lines are the stream's, however it is cut; a call does not wait longer than it was asked to |
| pools | list and free list stay disjoint and linked both ways; a walk visits what was there |
| job server | a match has at most one job; limits hold of processes; a match never runs for a client that is gone; nobody starves |
| job clients | every `RUN` line starts its bot; every match that is asked for comes to its end |
| Lua client | it knows when it is asked, reads the state right, answers validly; range and bound are those of this hand |
| all-in expectation | every board that may come is counted once |
| tree | it is the dealer's game |
| lookahead | every node has a cell, is reached by the views, is masked only if it is padding, and gets its value from the right source |
| cards of DeepStack | equities are what the dealer would pay; buckets tell hands apart |

## 2. Modules

    Game ──┬── Payoff ──── Table ──┬── Match ──── BlueprintPlayer
           │                │      └── Dealer ─── DealerPlayers   Dealer ▷ AbstractMatch
           │                │
           ├── Hand ────────┴── Showdown
           │     └───────────── Replay
           ├── Protocol ─ CardTexts ─ Dealing   (texts of states: Protocol is used by
           │                                     Dealer and BlueprintPlayer, CardTexts
           │                                     by Replay)
           └── ProtocolNode ─┐
               LeducTree ────┼── DeepStack      (the Lua client at the dealer's game)
               LeducTree ────┴── Lookahead
    Sums      (32-bit numbers, adding up: under Game, so under all above, and GameFile)
    Pool ──┬── EntryPool                                            LLPool ▷ EntryPool
           └── BmServer ─── JobClients          (the server with its clients and jobs)
    GetLine   AllInBoards   GameFile   LeducCards           (each by itself)

A line says that the module on the right extends the one on the left; `A ▷ B`
says that `A` is shown to implement `B` (`INSTANCE` with a refinement mapping).
`AbstractMatch` has the game as a parameter; `Match` gives it the tables of `Table`.
Theorems are in modules of their own: `GameProofs` (lemmas about `Game` and
`Table`), `HandProofs` (`Hand`, `Showdown` and `Replay`), `MatchProofs` (the match,
`Dealing` and `AllInBoards`), `DealerProofs` (the dealer, and `DealerPlayers`),
`PoolProofs` (lemmas about `Pool`), `PartsProofs` (`LLPool`, `GetLine` and `GameFile`),
`BmProofs` (`BmServer` with `JobClients`) and `DeepStackProofs`. Modules `MC*` give the constants
their values.

| module | models | how its state corresponds to the code |
| --- | --- | --- |
| `Game` | `game.c`: `nextPlayer` to `doAction`, `raiseIsValid`, `isValidAction` | a `State` is a record with the fields of the C struct, without cards, its sums of chips in `int32_t` (`Int32`: what overflows wraps around, as it does in what is built of the code); `action[r][]` with `actingPlayer[r][]` is one sequence of entries per round; the functions are operators from states to states |
| `Hand` | the loop of any caller: current player, valid action, `doAction` | `state` |
| `Protocol`, `CardTexts`, `Replay` | `printMatchState`, `readMatchState`, `matchStatesEqual` and what they call, for bettings and for cards; the round trip of every state of a hand | the betting of a text is a sequence of rounds of printed actions, which `readBetting` does one by one, as the code does; cards are tokens between separators, and `at` is the place that is read next |
| `Dealing` | `dealCards`, `dealCard`, `makeCard` | `deck` is the array, `dealt` the cards of the hand in the order of their places; the generator may draw anything |
| `GameFile` | `readGame`, `printGame` | a line is a field and its numbers; `unset` is what `malloc` left in a field, and two programs may find different things there; `read` has the local counters `stackRead`, `blindRead`, `raiseSizeRead` and `boardCardsRead`; `overrun` is where the sizes of raises go for which the array has no room: over the fields behind it, byte by byte as the struct lies in memory |
| `Payoff`, `Showdown`, `Sums` | `valueOfState`; the reference it is compared with; numbers of 32 bits and loops that only add up | `rank[p]` stands for what `rankHand` returns; chips are counted in 2520ths so that a split is exact |
| `Table`, `AbstractMatch`, `Match` | what `gameLoop` and `processTransactionFile` compute in common; the promise of the dealer, and the same for tables | a table is `handId`, `player0Seat`, `state`, `totalValue` |
| `Dealer` | `main` and `gameLoop` of `dealer.c` run with a log, a transaction file and `-a` | `pc` is the place in `gameLoop`, `next` the index of the loop over seats or file lines; `tlog` and `log` are the files, `sent` and `inbox` the sockets; `told` is a ghost: `told[n]` is what a replay of `n` lines of the transaction file arrives at, and `story` the last of these |
| `DealerPlayers` | the dealer with the client loop of `example_player.c` in each seat | `chosen` is what a client made of each message |
| `BlueprintPlayer` | `tcc_ai_player.c` with `matchstate_to_action.py`, in a match against any bets or against `tcc_ai_player_2.c`, which differs in its table only | `client` is whether the process runs; a key is a sequence of tokens; the strategy table, a binary file, is given by the rule its rows obey (`Follow`, `rowOf`) |
| `GetLine` | `getLine` of `net.c` on one `ReadBuf`, with `select` and the stream | `buf`, `line`, `timeLeft` are the variables of the function; the stream is a sequence of two kinds of byte |
| `LLPool` | the pools of `bm_server.c`, link by link, with the walk every user of a pool does | `head`, `free`, `next`, `prev`, `numEntries` |
| `Pool`, `EntryPool` | the same pools as sequences: operators, and the specification `LLPool` implements | list and free list |
| `BmServer` | the loop of `bm_server.c` with its clients and processes | pools as in `Pool`; the clock readings `waitStart` and `queueTime` are kept as the orders they are compared for |
| `JobClients` | `bm_widget.c` and `bm_run_matches.c` with the server, its dealers and the bots of both | `program` is which client a connection has; `told` and `heard` are the `RUN` lines on their way and in the client's `ReadBuf`; `seated` is who has connected to a dealer, `stalled` the matches whose dealer a player keeps waiting; `gone` is a ghost |
| `ProtocolNode` | `protocol_to_node.lua`, `acpc_game.lua` | from a dealer's message to a node, with the guesses the code makes |
| `LeducTree` | `tree_builder.lua`, `bet_sizing.lua`, constants | the children of a node and the bets that lead to them |
| `DeepStack` | `deepstack.lua`, `continual_resolving.lua`, the network client, against the engine in `Game` | ranges and counterfactual values are kept as *where they come from*: a range is the list of (node, action) it was multiplied by, a bound is the (node, action) it was read at |
| `AllInBoards` | the enumeration of boards in `all_in_expectation.c` | `used`, `numBoards` are the variables of the loop; `boards` is a ghost |
| `LeducCards` | `card_tools.lua`, `card_to_string_conversion.lua`, `evaluator.lua`, `terminal_equity.lua`, `bucketer.lua`, `bucket_conversion.lua` | cards are the numbers of the code, a matrix is a function of two cards, `divisor` the reciprocal of the weight its entries are multiplied by |
| `Lookahead` | `lookahead_builder.lua` and the index arithmetic of `lookahead.lua` | a cell is the triple of indices of a tensor; the tensors are kept as which node is in which cell, and which cells are masked |

An operator named `X_Fault` beside an operator `X` is `X` with a slip a
programmer could make. Nothing uses it: `PROJECT.json` says which property
notices when it takes the place of `X`, so that every property is known to be
able to fail.

### Order of work

1. The engine (`Game`, `Hand`, `Payoff`, `Showdown`), its texts (`Protocol`,
   `Replay`), the match and the dealer, the blueprint client, the line reader and
   the pools, the job server, DeepStack and the enumeration of boards, each with
   its run; the theorems of `HandProofs` and `MatchProofs`.
2. Cards (`CardTexts`, `Dealing`, `LeducCards`), game files (`GameFile`), the
   programs around the job server (`JobClients`), the second blueprint client; the
   order of answers (`HandProofs`), the theorems about `Dealing` and `Dealer`.
3. Theorems about the pools, link by link (`PartsProofs`), the job server with its
   clients (`BmProofs`), the dealer with its players, and DeepStack at the dealer's
   game (`DeepStackProofs`).
4. Theorems about what is computed from data: side pots (`SidePotsPayFairly`), the
   totals of the log, the enumeration of boards, the lines of a stream, the texts of
   states, bettings and cards (`AllIsReadBack`, `NothingHiddenIsEverTold`), and game
   files (`TheGamesAreRead`).
5. Open: the hand evaluator of `game.c` against a reference; the re-solving gadget
   (`cfrd_gadget.lua`) as index arithmetic; the configuration of `bm_server.c`, and
   the options and seeds of `dealer.c`. Proofs for the layout of the lookahead
   (`CellsFollowTheTree`) and for `TableFits`.

## 3. Runs

| run | checks | states | what it shows |
| --- | --- | --- | --- |
| `hands` | `TypeOK`, `SomeoneToAct`, `AskedOnce`, `DoActionAsserts`, `MaxSpentIsLargestBet`, `ChipsStayIn`, `RoundsCloseMatched`, `SidePotsAreFair`, `ReadsBack`, `NothingHiddenIsTold` | 15 101 | every hand of three players with three stacks: the betting is right, the pots are paid as the rules say and never fail the assertion on who is in a showdown, what is printed of a state is read back as that state, cards included, and nobody is sent a card that is hidden from him |
| `dealer_crash` | `FileRecreatesMatch`, `ImplementsMatch` | 369 613 | a dealer killed anywhere, or that gives up, goes on where it was and refuses no line of its file; through that file it plays the match of `AbstractMatch` |
| `dealer_players` | `LinesAreAwaited`, `ChoicesHappen`, `LogAddsUp`, `EverySeatSeesTheState`, `MatchEnds` | 505 016 | with live clients, a stray line and a crash, what a client chose for a state happens in that state, and the match ends |
| `bm_clients` | `OneJobPerMatch`, `LimitsHold`, `MatchesHaveTheirClients`, `EveryMatchEnds` | 731 057 | the job server with its clients, dealers and bots: its bookkeeping is right through reuse of its entries, and every match comes to its end but for five named reasons |
| `bm_live` | `EveryMatchIsServed` | 475 105 | nobody starves while others go on asking |
| `parts` | `LinesAreTheStreams`; `PoolIsSound`, `ImplementsPool`; `CellsFollowTheTree`, `CellsAreEvaluated`; `EveryBoardOnce`; `GameFilesAreRead`; `EveryCardOnce`; `EquityIsShowdown`, `BucketsAreHands`; `ButtonFollowsHand`, `TableFits` | 209 911 | the parts that share nothing, each from its own initial states: line reader, pools, lookahead, boards, game files, dealing, equities, blueprint clients |
| `deepstack` | `ReadsTheState`, `AnswersAreValid`, `TreeIsTheGame`, `AssertsHold`, `RangeIsMyHistory`, `BoundIsMyLastAction` | 73 265 | DeepStack at the dealer's game, reading its lines as late as it likes |
| `hand_limit_short` | `MaxSpentIsLargestBet` | violated | section 4 |
| `dealer_losthand` | `LogHasEveryHand` | violated | section 4 |
| `getline_wait` | `WaitsWithinTimeout` | violated | section 4 |
| `blueprint_assert` | `AssertHolds` | violated | section 4 |
| `bm_request` | `RequestsAreQueued` | violated | section 4 |

The longest run takes about three minutes on two cores. The parts of one run share
neither variables nor steps: a state of `parts` is a state of one part, with the
others as they begin.

What the less obvious properties say:

- `FileRecreatesMatch` relates the table in memory to `told`: wherever the process
  is killed, a replay of the file arrives at the hand, button, betting and totals
  it had (the action it was about to do included), and no line is refused.
- `ChoicesHappen`, `LinesAreAwaited`: a late, repeated or premature answer is never
  taken for the answer to another state.
- `EveryMatchEnds` names what may stand against it: a dealer that prints no ports
  ends the server; a client that queries faster than `handleConnection` answers
  keeps the only thread (`bm_server.c:864`); a player that has connected keeps its
  dealer waiting for ever (`DealerWaits`), by not sending its version
  (`dealer.c:527`), by sending comments (`dealer.c:306`), or because a timeout of
  `getLine` wrapped around (`net.c:74`), so that the dealer's limits on time do not
  end the match; a dealer without a start timeout waits for a player who has gone;
  and `startMatchJob` tries its best match and no other, so that one with more bots
  than the limit allows holds up the rest (`bm_server.c:1347`).
- `GameFilesAreRead`: two programs that read the same file into memory that holds
  different things refuse it or have the same game, and a printed game is read
  back. That includes files whose list of raises is longer than its array and
  overwrites the fields behind it (`game.c:207`), numbers of players and rounds
  among them: it does the same in every program, and what is accepted in the end is
  a sound game. There are two exceptions to the reading back: a game of more than
  `MAX_ROUNDS` players none of whom has a limit, as `printGame` leaves out the
  stacks and `readGame` sets only four (`game.c:164`); and a game whose betting type
  such a list has made neither limit nor no-limit, which is played as limit, and
  printed as limit without its raises.
- `EquityIsShowdown`: the entry of two hands in the equity matrix is what the
  dealer would pay, summed over the boards that may still come, whatever the
  numbers of suits, ranks and board cards.
- `LinesAreTheStreams`: as long as no call gives up, the lines are those of the stream,
  all of them once it is closed. A call that gives up loses the beginning of one line;
  if no line is too long, what is read after it is the end of that line and then the
  lines behind it, and none is missing but a last one without a newline.
- `TableFits` is `OnlyCarriedBetsAbort /\ RowsAreKnown`: every key has a row, and
  what is drawn is valid unless the first round was bet in a part of an ante.

### Bounds, and why they are enough

- **Hands.** `MCHands` has three players, two rounds, stacks 16/11/7 and blinds
  0/1/2: the least with three different stacks, hence a main pot and two side
  pots, all-ins below the minimum raise, folds in the middle of a bet and a
  blind that has its option. All raise sizes up to the largest stack are tried.
  `MaxNumActions` is 6, not 64, so that the end of the array is reached; no code
  depends on 64. `INT32_MAX` is small in all runs but `parts`, and the chips fit
  (`ChipsFit`), so that nothing overflows; section 4 says what happens where they do
  not. Three `Ranks` order three players in every way, ties included.
  Two hole cards each and two cards on the board, so that hole cards and board
  meet in every text.
- **BlueprintPlayer.** Eight antes of two chips, so that a bet may be whole or
  half an ante over, and rounding has a boundary in every ante; two hands, one in
  each position; the opponent bets anything, or is the second such client. The properties also hold with the real twelve antes of two chips
  (811 865 states) and with six antes of three chips.
- **Dealer.** Two seats, two hands, one round, a stack of three: hands end by
  fold, by call and by all-in, the transaction file may end anywhere in the
  first hand, between the hands or in the second. Times are ticks: one tick is
  in time for a response and a hand, two for a match, so every limit can be met
  and missed, by clocks that also step back. `Memory`, `MaxInbox`, `MaxWait`
  and `MaxRestarts` bound how old an answer may be (two messages), unread lines,
  ticks, and restarts (one; every restart begins with nothing but the files, so a
  second one adds no new kind of state).
- **DealerPlayers.** A limit game, so that the paths of `raiseIsValid` and
  `doAction` that no-limit games skip are taken. One line more than the answers
  (`MaxExtra`) at any time; times are off, as clients in it always answer.
- **GetLine.** Lines shorter, equal and longer than the buffer (3) and than
  `maxLen` (4), an unterminated last line and an empty stream, cut into packets
  in every way; two calls may give up. `TimeBits` is 3 instead of 64: the
  wrap-around is that of unsigned numbers of any width.
- **LLPool.** Four entries: first, last, middle and neighbouring removals, and
  reuse.
- **BmServer, JobClients.** `MCJobClients`: one connection at a time and its entry
  reused by the next client, two matches, two games of which one may have two
  jobs, one bot at a time and a match that asks for two, a request that is
  refused; `MCBmLive`: two users, two connections, three matches, one job.
  Starvation needs two users; what the limits count needs two jobs. `MaxLines`
  bounds the lines of a client that are not handled yet, `Leavers` who may hang up.
- **GameFile.** Two sound files, a no-limit game of two and a limit game of five
  (more players than `MAX_ROUNDS`), with up to three lines lost, wrong or too many
  of 24 kinds: too few or too many numbers, bytes that wrap around, the other
  betting type, blinds above the stack, lists of raises that overwrite the betting
  type, or every field up to the end of the struct. Two memories. `INT32_MAX` is
  2^27 - 1, since TLC's own numbers have 32 bits: a number then has four bytes, the
  highest of at most 7.
- **Dealing.** Two players with two cards and a board of two from six cards: the
  deck is dealt to its end.
- **LeducCards.** Leduc hold'em, with a fourth rank, and with a second card on the
  board: the last tells apart what agrees by chance for one board card.
- **DeepStack.** Real Leduc rules with twelve antes (the files have 1200 chips
  and an ante of 100), two hands, so both positions; the opponent may use every
  bet the dealer accepts.
- **Lookahead.** 24 antes and two bet sizes, all roots DeepStack can be asked
  at: layers in which some nodes have three bets and some fewer.

### Fairness, and what justifies it

- `DealerPlayers`: weak fairness of any step but those that wait, written out as
  the condition under which the steps are enabled. The dealer is a process that
  runs until it blocks in a read; its clients loop; `-a` exists so that a dealer
  that died is started again. Nothing is assumed of `Chatter`, `Again` or `Crash` by itself: they are bounded.
- `BmServer` (`SteadySpec`, run `bm_live`): weak fairness of the server's loop and of
  the end of each process. Clients may write or not; they do not hang up and do
  not query there, which `JobClients` adds.
- `JobClients`: weak fairness of the server's loop; of a client that has `RUN` lines
  to read, as it waits in `select` and forks a bot per line; and, per match, of what
  is under way for its job: a bot connects, a dealer that was killed or gave up
  waiting for its seats ends, one whose seats are taken and which no player keeps
  waiting plays to the end, and a bot ends with its dealer. A dealer's limits on time
  are not relied upon, since they do not bound its waiting: a player that has
  connected may keep it waiting from any moment on, for ever. Nothing is assumed of a client's writing or
  hanging up, of crashes, or of a dealer's printing its ports.
- All other modules are checked for safety, without fairness.

Deadlock is checked everywhere but in `MCParts` and `MCGetLineWait`, where it is
no error: a stream ends, and calls and entries are bounded. Where a program
rightly ends (`Finished`, `Over`, `Stays`, `Waits`, `Dead`), the specification
has a stuttering action for just those states, so that any other stop is
reported.

## 4. What disagrees with its documentation

Five runs expect a violation; each checks one sentence of the repository.

- `hand_limit_short`: `game.h:80` calls `maxSpent` the "largest bet so far,
  including all previous rounds". In a limit game `raiseIsValid` looks at no
  stack, and `doAction` cuts a raise at the raiser's stack even when that is
  below `maxSpent`, which then shrinks (`game.c:965`). It needs unequal stacks
  in a limit game, which `readGame` accepts and no game file here has.
- `dealer_losthand`: `dealer.c:710-711` promises "a single line for each
  completed match" in the log file. The last transaction of a hand is written
  before the hand's line; a dealer that dies between the two and is started
  again replays the hand without logging it (`dealer.c:841`).
- `getline_wait`: `net.c:38-39` says not to "spend more than that number of
  microseconds waiting to read data". `timeLeft` is unsigned, so a call whose
  time is over before its second `select` waits nearly for ever (`net.c:74`).
- `blueprint_assert`: `tcc_ai_player.c:189` asserts that the action from the table
  is valid. The table counts bets in whole antes, so `matchstate_to_action.py`
  rounds them up; in the second round the table may then believe in a smaller
  raise than the one the client faces. In `MATCHSTATE:1:0:r451c/r600:|Kh/Ks`
  (`leduc.game`) the row `r500c/r600:|K/K` has a raise to 700 with a positive
  weight, while the dealer's least raise is to 749. `OnlyCarriedBetsAbort` shows
  that this is the only way: within a round, rounding up costs no validity.
- `bm_request`: `bm_run_matches.c:28-31` says that `bm_run_matches <bm_hostname>
  <bm_port> <username> <pw> run 2pl ...` does "Run two-player limit matches". It
  writes user, password and request in one line; the first line of a connection
  goes to `validateLogon`, which reads two words of it (`bm_server.c:395-418`), and
  the rest is not looked at: the client is logged on, and waits.

Other things met on the way, which no run checks against a sentence:

- chips are added in `int32_t`, and `readGame` gives a player without a stack in the
  file `INT32_MAX` of them (`game.c:165-168`). In a no-limit game with such stacks a
  raise to more than half of that makes `size + size - maxSpent` overflow
  (`game.c:951`); `minNoLimitRaiseTo` stays where it was, far below the bet,
  `isValidAction` accepts a raise to it, and `assert( action->size >
  state->maxSpent )` (`game.c:947`) fails. With two players, blinds of 1 and 2 and
  default stacks, a raise to 2^30 + 2 and then one to 4 do it; TLC finds such a pair
  when module `Hand` is given two stacks of `INT32_MAX` and `DoActionAsserts`. The
  files here that leave out the stacks are of limit games, whose bets stay small;
- `readItems` is told that there is room for `MAX_PLAYERS` sizes of raises where there
  is room for `MAX_ROUNDS` (`game.c:207`), so that a longer list overwrites the fields
  behind the array: `GameFile` has it (`overrun`);
- a malformed action does not end a match even beyond the limit of invalid
  actions (`dealer.c:337`), and a comment starts the timeout anew (`dealer.c:306`);
  `Dealer` has both;
- `checkVersion` waits for its line without a timeout, and the time left to the
  start timeout is unsigned (`dealer.c:1228-1238`);
- `handleConnection` returns after a logon, a submission and an unknown command, and
  `select` does not see what is in the buffer already: a line sent together with
  such a one waits for the next byte (`bm_server.c:917`; `Read` and `Select` have it);
- `bm_run_matches` waits for a line that says the matches are finished, which the
  server never writes;
- a call of `getLine` that times out drops the part of a line it had read
  (`net.c:94`), also where `bm_widget` calls it with a timeout of 0;
- `useRngForSeed` is not set where the seed in a request is 0
  (`bm_server.c:786-789`, read at line 1357);
- `terminal_equity.lua:23-24` says that `x'Ay` is the first player's equity; with the
  lower strength the stronger one, the entries make it the second player's.
  `next_round_value.lua` weighs boards by `1 / (board_count - 2)`, which agrees with
  `terminal_equity.lua` for one board card only.

## 5. Theorems

| theorem | states, for every value of the constants |
| --- | --- |
| `HandProofs!TypeCorrect` | `Spec => []TypeOK` |
| `HandProofs!HandGoesOn` | `Spec => []SomeoneToAct`: `nextPlayer`'s loop ends |
| `HandProofs!AssertsNeverFail` | `ASSUME ChipsFit PROVE Spec => []DoActionAsserts`: the asserts of `doAction` on raises and on the array of actions |
| `HandProofs!LargestBet` | `ASSUME ChipsFit, FairStacks PROVE Spec => []MaxSpentIsLargestBet` |
| `HandProofs!ChipsNeverReturn` | `ASSUME ChipsFit, FairStacks PROVE Spec => ChipsStayIn` |
| `HandProofs!NobodyAskedTwice` | `Spec => []AskedOnce` |
| `HandProofs!RoundsClose` | `Spec => RoundsCloseMatched` |
| `HandProofs!SidePotsPayFairly` | `ASSUME ChipsFit, FairStacks, Antes PROVE Spec => []SidePotsAreFair`: every player is paid what the pots of single chips pay it, and the showdown's assertion holds |
| `HandProofs!AllIsReadBack` | `Spec => []ReadsBack`: of every state, betting and cards are read as they were printed |
| `HandProofs!NothingHiddenIsEverTold` | `Spec => []NothingHiddenIsTold` |
| `MatchProofs!ButtonIsRight` | `Spec => []ButtonFollowsHand`, for any number of hands and seats |
| `DealerProofs!FileIsSufficient` | `Spec => []FileRecreatesMatch`, for any limits, any number of crashes, and whatever the players write |
| `DealerProofs!DealerPlaysMatch` | `Spec => ImplementsMatch`: the refinement of `AbstractMatch` |
| `MatchProofs!NoCardTwice` | `DealSpec => []EveryCardOnce` |
| `MatchProofs!BoardsAreAll` | `BoardsSpec => []EveryBoardOnce`, for any number of cards |
| `DealerProofs!LogAddsUpToTotals` | `Spec => []LogAddsUp` |
| `DealerProofs!SeatsSeeTheState` | `Spec => []EverySeatSeesTheState` |
| `DealerProofs!OnlyTheAskedAnswer` | `PlayersSpec => []LinesAreAwaited`, for any number of clients and hands |
| `DealerProofs!ChoicesAreDone` | `PlayersSpec => []ChoicesHappen`, whatever lines come late, twice or as comments |
| `PartsProofs!PoolsAreSound` | `LinksSpec => []PoolIsSound`, for any number of entries |
| `PartsProofs!LinksAreLists` | `LinksSpec => ImplementsPool`: the refinement of `EntryPool` |
| `PartsProofs!TheLinesAreRead` | `ReaderSpec => []LinesAreTheStreams`, for any streams and sizes of buffer and line |
| `PartsProofs!TheGamesAreRead` | `FileSpec => []GameFilesAreRead`, for any lines of any length, lost or too many, and any memory |
| `BmProofs!JobsAreOfMatches` | `ClientsSpec => []OneJobPerMatch`, for any number of connections and matches |
| `BmProofs!ClientsAreThere` | `ClientsSpec => []MatchesHaveTheirClients` |
| `BmProofs!LimitsAreKept` | `ClientsSpec => []LimitsHold` |
| `DeepStackProofs!LinesAreUnderstood` | `Spec => []ReadsTheState`, for every stack, ante, number of hands and delay |
| `DeepStackProofs!AnswersAreTaken` | `Spec => []AnswersAreValid` |
| `DeepStackProofs!TreeFollowsTheGame` | `Spec => []TreeIsTheGame`: the tree builder has the rules of the engine |
| `DeepStackProofs!NoAssertFails` | `Spec => []AssertsHold` |
| `DeepStackProofs!RangeIsKept` | `Spec => []RangeIsMyHistory`: nothing of another hand, no action twice or left out |
| `DeepStackProofs!BoundIsKept` | `Spec => []BoundIsMyLastAction`, over the board too |

**Assumptions.** `GameAssumption` is what `readGame` checks, and what its types
say; `SomeoneHasChips` is the one thing it does not check and nothing works
without: somebody must have chips behind the blinds, or `currentPlayer` would not
end in the first state. `TableAssumption` is about the options of the dealer, `DealerAssumption` about its
limits and its players: what they write has a size in a no-limit game only, as
`readAction` reads none in a limit game. `DeckAssumption` is `readGame`'s check that
the deck has enough cards, `CardsAssumption` that there is no board in the first
round, as in every game file here. `BmAssumption` says that users differ by name and
that limits are numbers, 0 for none, as the configuration has them;
`LLPoolAssumption` that there is some number of entries. `SettingsAgree` says that
dealer and DeepStack are set up for the same game, with one stack and one ante for
both, and chips that fit in 32 bits (`ChipsFit`), and `RaisesFit` that a round has room for all the raises the stacks allow,
each of at least an ante: the tree builder knows no limit of raises, `leduc.game` sets
none (255 then), and its stacks are twelve antes.
`GetLineAssumption` gives streams, sizes and times their types (buffer and line have
room for a byte). `FileAssumption` bounds players and rounds as `game.h` does, says that
the stacks `readGame` sets have room (`MAX_ROUNDS` of them), and that a list of
`MAX_PLAYERS` raises ends within the struct, as with ten and four it just does.
`Int32Assumption` says that `INT32_MAX` is a number above 0.
`BoardsAssumption` and `RanksAssumption` say that cards are counted
and ranks are numbers.
`ChipsFit` says that what all players can have in the pot is a number of 32 bits: in a
no-limit game the largest stack times the players, in a limit game the largest bet times
the players. It is a hypothesis of the four theorems about amounts and asserts, since
sums overflow without it (section 4); `readGame` does not check it, and every game file
in the repository satisfies it. The other theorems about hands, texts, matches and the
dealer hold for any stacks. Where an assert of `doAction` would fail, `Hand` and `Dealer`
go on as a build without asserts does; a build with them stops there, and again at each
replay of the file.
`FairStacks` (no-limit, or equal stacks) is a hypothesis of the three theorems
that fail without it, as the run `hand_limit_short` shows; every game file in
the repository satisfies it. `Antes` (somebody has a blind, and everybody has chips) is
one of `SidePotsPayFairly`, for the assertion of `valueOfState` (`game.c:1099`): where
nothing is put in and everybody checks, the list of those who are in a showdown is empty.
Every game file here has blinds.

**The argument.** None of the properties is inductive: that somebody is left to
act after a fold depends on how many answers are still owed, and that a raise is
above the bet depends on the minimum raise that earlier actions left. `BettingInv`
(in `Hand`) adds what is needed: nobody has spent more than his stack, the largest
bet is somebody's bet, the minimum raise is above the bet, a limit bet is not more than
the raises so far can have made it (`RaisesBound`, so that no sum overflows where the
chips fit), fewer players have called than can act, and rounds to come have no actions. That a round's array has
an entry left needs more, since nothing but a raise looks at its length:
`AnswersFit` says that the entries used and the answers owed fit together, and it
is kept by a fold or an all-in call only because whoever made or called the bet has
matched it or is all-in (`BetIsMatched`), so that a player who can act no longer
is never one who was counted as having answered. `TypeOK /\ BettingInv` is
inductive (`InitEstablishes`, `NextKeeps`); `TakeKeeps` is the case of an action,
with the cases of fold, call and raise and of the ways `EndBetting` leaves a round.
`GameProofs` has the lemmas below it: the scans of `game.c` end and
find what they look for, the counters count, each branch of `doAction` writes what
it says. Facts about a set of naturals having a least member or a function having an
upper bound are derived there from well-foundedness of the naturals, since
induction over an arbitrary predicate is beyond the installed provers.

`HandProofs` also has the argument behind `numCalled`, which counts actions and is meant
to count players. Its invariant `OrderInv` says that the current bet has been
answered in the order of the seats from some player on, and that nobody has been
left out who can act. So the current player has not answered (`CurrentNotAsked`):
had he, everybody from the first on would have answered, and as many would have
called as can act, which `BettingInv` excludes. And when as many have called as can
act, everybody who can act has (`AllHaveAnswered`), since the entries that
`numCalled` counts belong to different players who can act.

What a showdown pays is the walk of `valueOfState` through the side pots; what it
should pay is said chip by chip: the n-th chips of all who have that many form a pot.
The walk takes one level of chips after the other, and between two levels all these
pots are the same, so that a level is that many times the pot of its first chip
(`PotPaysShares`, with `PotWinners` and `PotSize` for the loops over the players), and
the levels together are all the chips of the player (`ShowdownIsFair`). Where all others
have folded there is one pot (`FoldOutIsFair`). `PotInv` adds to
`BettingInv` what the two formulas need of a hand: there is a bet, nobody folds who has
made it, and at a showdown whoever is in has matched it or is all-in.

The texts. `TextIsRead(s)` says that `readBetting` makes of the betting of `s` exactly
`s`. It is kept by every action, because an entry more is printed as one action more at
the end (`StoredIsPrinted`), wherever a round ends, the reader does one action more
(`ReadOneMore`), and a size that is not printed is not looked at (`ActionIsRead`). For
cards, `GoesOn` says that a text has some piece in front and what follows is not a card.
Every part of a text is followed by a separator, by nothing or by the `/` before the
next board, since there is no board in the first round; so `readCards` stops where the
part ends although nothing says how long it is, a player whose cards are left out leaves
the reader where it was (`PartIsRead`), and the reader's loop makes the printed parts
(`PartsAreRead`, `HandsAreRead`, `BoardIsRead`). That nothing hidden is told is said of
the same texts: a token is a separator or of one of the parts (`TokensAreOfParts`), and
`prints` and `boardOfRound` say of which (`ShowdownPrints`, `RoundsAreOfBoard`).

`MatchProofs` takes the invariant of a hand to the hand inside a match
(`ButtonInv`), with the facts about tables at the end of `GameProofs`: a valid action leads from
a state in which somebody is asked to another such state, or ends the hand
(`ActionKeepsReady`, `TransactKeepsReady`).

`DealerProofs` shows that `DealerInv` is inductive. Its parts are: every line of the
file can be replayed where it stands, and leads to the next `told` (`ToldInv`); and,
place by place in `gameLoop`, how table, times and messages relate to what the file
tells (`BeforePlay`, `InHand`, `AtAction`, `AfterHand`). What makes it inductive is that
no seat is ever charged less than the file tells (`Covers`): times of ignored lines
are charged and not written, so that the check that let an answer through also lets
its line through at a replay; that times are forgotten with a hand on both sides;
and that the repaired action is valid as it stands (`FixedIsValid`). One action moves
the file, `logTransaction`, and it is a step of `AbstractMatch`; every other step
leaves `story` as it is.

The second half of `DealerProofs` puts clients in the seats. `PlayersInv` adds to
`DealerInv` what each client was sent, has read and has written. The messages to a
seat are in a strict order: a later hand, a later round, or more actions in the same
round (`MessagesInOrder`; `ActionIsLater` shows that `doAction` keeps to it). So no two
are of the same state, and `matchStatesEqual` tells the state that is waited for from
every other one a late line may name (`EqualIsNotEarlier`). A message that asks its
seat and is not read is the last one, and the dealer waits for it (`UnreadIsAwaited`);
the action that is logged and done is the last choice of the seat that was asked
(`ReplyIsPlayed`), and it leads to the state that is sent next (`ReplyHappened`). The
last three hold while nobody writes a line with the right state and no action in it
(`Calm`), since the dealer plays a call for such a line.

`MatchProofs` on dealing: `DealInv` says that what is left of the deck and what was dealt are
together all of it, without repetition; `dealCard` keeps it, as the entry it
overwrites is the one that was drawn.

And on boards: `BoardsInv` says that the boards evaluated so far are those whose
indices are above the present ones, where the highest difference decides (`Above`). The
indices are ascending, so that different ones are different boards (`BoardsDiffer`), and
the loop counts down to the next lower ones, or is done when there are none.

The log, in `DealerProofs`: `LogInv` says that a dealer that was never started again has
one line per hand and that its totals are what the lines add up to, seat by seat, with
one hand more in the totals between adding up and writing the line. The values are in
the order of players and the totals in that of seats, so it needs the button of each
line to be that of its hand.

`PartsProofs` works, for the pools, with two sequences that the links are paths along (`Holds`):
`next` leads from each entry to the one after it, `prev` back, and the two sequences
have no entry in common. `PathIsLinked` shows that what `Linked` finds by following
`next` is then the sequence; so the recursive definition is unfolded once, and adding
or removing an entry is a matter of which links change (`AddsInFront`, `RemovesOne`).
`prev` of the first free entry is what it was before, which is harmless because
nobody reads it there. `Walk` says that a walk is at some place of the list and has to
visit what is from there on; reading `next` before the body runs is what keeps it
when the body removes the entry.

For the line reader, `BytesInv` says where every byte of the stream is: taken, in the
buffer, on the wire or not sent. `madeOf` says what lines the first n bytes make, for
every n, and `LinesInv` compares the lines that were returned, and the one under way,
with those of the bytes taken: they are equal, or, once a call has given up, their ends
(`InStep`); only at the end of the stream there may be one more, without a newline
(`AtLastLine`). Each byte that is copied takes both sides one step further.

For game files, two memories never become equal: what no line has set differs. `SameGame`
says what does agree, the counters, the single numbers, and of each array what was set by
a default or by the line read last; a line keeps it (`ReadSame`) because it overwrites as
many numbers as it counts; a list of raises that is too long writes the same bytes over
the same fields in both memories (`OverrunSame`; `OverrunIs` says what the fields are
then), and leaves a game of numbers (`OverrunIsGame`). What is accepted has counters that cover its players and rounds
(`AcceptedIsKnown`), so that nothing else is looked at. The reading back goes through the
twelve parts of the text (`PrintedIsRead`): each is about another field and says what the
game has (`SaidIsHad`), or is left out, and then a new game has it; the other fields stay as
they were (`OtherFields`, `PartIsRead`).

`BmProofs` takes the pools as sequences, which `LinksAreLists` justifies, and its
invariant `ServerInv` says that no entry is in a pool twice or both used and free
(`SoundPool`, from the lemmas of `PoolProofs`), that a connection that is not in the
list is closed, and that jobs and running matches correspond one to one: the job list
is reordered and shortened while matches are moved, queued again and removed. What the
code counts by jobs, `CountsAgree` counts by matches: the jobs of a game are the
running matches of it, and the bots are the pairs of a running match and one of its
bot players, a set that grows only by a match that fits and that contains the bots that
run, those of an aborted job included (`BotsAreCounted`). Each action is first reduced to
what it does to the pools, the matches and the jobs (`ServerSteps`), as most change
one of them.

`DeepStackProofs` first finds out what the engine's states look like in DeepStack's
game. `InPlay` says what the two guesses of the parser need: the players take turns,
nobody has folded, a round is a check or none and then nothing but bets, the largest
bet is the size of the last raise, and what the other player has spent is the last raise
before it; no sum leaves the 32 bits (`TwiceTheStack`). `BetsLeaveRoom` counts: each raise is at least an ante above the
one before, so no round runs out of raises (`RaisesFit`), and the dealer's least raise
is never above the least bet of the tree. `FoldInPlay`, `CallInPlay` and `RaiseInPlay` give every field
of the state after an action, and lead to `InPlay` or to `IsOver`, whose last line is
never a question (`LastLineIsNoQuestion`). `NodeInPlay` says which node the parser makes of a state in play,
`TreeActionIsValid` that each bet in the tree is valid at the dealer without repair, and
`ChildrenAreNext` compares child by child with `doAction`. The machine's invariant
`IInv` then says that of the lines not read only the last may be a question, and it is
the state the dealer is in (`LinesInv`); that an answer on its way is the last decision,
made at the node of that state (`AnswerInv`); and that from this node the bet leads
somewhere the hand goes on (`WayOn`), in a street that is not behind the one of the
state (`ResolverInv`): that is why the tree in memory is of this hand and the asserts of
the resolver hold, though it was solved one street and up to two actions ago.

What the numbers are made from is a second invariant on top of it, `HistoryInv`: the
starting range is never touched, the range has one entry for each of DeepStack's actions
in the dealer's history and one for the answer on its way (`RangeFits`), and the child
that the last action leads to is followed through what the other player does (`LedTo`).
Before the board that child is the node of the state while the other is asked, and if he
raises, DeepStack is asked again and decides anew; so when the board is dealt, the other
did no more than call (`TurnGoesOn`), and the call ends at the chance node whose bets are
those of the engine (`LedByOther`, from `CallChild` and `FirstRoundBet`). Cardinalities stand for places
(`Places`, `LastPlace`): the n-th of DeepStack's actions has the n-th entry.

**What stays with TLC.** Liveness (`MatchEnds`, `EveryMatchIsServed`,
`EveryMatchEnds`), which needs `ENABLED` and fairness. The lookahead of DeepStack
(`CellsFollowTheTree`, `CellsAreEvaluated`) and its cards (`EquityIsShowdown`,
`BucketsAreHands`), which compare sums and products over whole trees and matrices; and the key and
the row of the blueprint's table (`TableFits`), which depend on its particular strings.

## 6. What is not modelled

| part | why |
| --- | --- |
| CFR iterations, neural net, training, data generation, tree tools of `Source/Tree` beyond the builder | real vectors; their correctness is convergence or fit, not a matter of states |
| ranges of `card_tools.lua` | real vectors; what holds of every two hands holds of every two ranges |
| hand evaluator of `game.c`, random numbers | a rank per player and free choice stand for them |
| game files: negative numbers and those above `INT32_MAX`, unknown fields, long lines; that somebody has chips behind the blinds, and that all boards fit `MAX_BOARD_CARDS` | `readGame` does not check the last two; the models assume them |
| dealer: seeds, options but `-f` and `-a`, starts without `-a`, the start timeout | they change no step of the modelled loops, or end the dealer before them |
| job server: configuration, names of log files, seeds, help texts, what happens to dealers and bots after its end | texts, and the end of the system |
| host and port of a `RUN` line | they stand for match and player; that a port is given to another dealer at once is left out |
| the averages of `all_in_expectation.c`, Perl scripts, visualiser | sums over finished logs, or pictures |
| the fold that `lookahead.lua:342-345` falls back to where a strategy is not a number | there are no numbers here that could fail to be one; `playable` has the actions of the tree |
| the weights of the strategy tables | any action of a row may be drawn |
| Lua tests and mocks | read for what the code is expected to do |
