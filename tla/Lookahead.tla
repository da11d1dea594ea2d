----------------------------- MODULE Lookahead ------------------------------
(***************************************************************************)
(* Source/Lookahead/lookahead_builder.lua: the tree of a street is laid    *)
(* out in one tensor per layer, so that lookahead.lua can work on a layer  *)
(* at once.  A cell of layer d is <<action_id, parent_id, gp_id>>; nodes   *)
(* with fewer bets than others of their layer leave cells empty.           *)
(*                                                                         *)
(* What the solver computes in the cells is left out; which cells it reads *)
(* and writes, by ranges of indices and reshaped views, is not.            *)
(***************************************************************************)
EXTENDS LeducTree, FiniteSets, FiniteSetsExt, Functions

CONSTANT MaxDepth        \* bound: layers of a tree

VARIABLES
    tree,                \* the root
    lookahead,           \* depth and the counts of every layer
    todo,                \* set_datastructures_from_tree_dfs: calls not made yet
    placed,              \* node.lookahead_coordinates, from cells to nodes
    empty_action_mask    \* the cells that are set to 0

vars == <<tree, lookahead, todo, placed, empty_action_mask>>

\* The nodes DeepStack is asked at: an even bet in the first street is the ante,
\* a raise is by an ante or more, or all-in.
Roots ==
    {n \in [kind : {"inner"}, street : {1, 2}, current_player : {P1, P2},
            bets : (arguments.ante .. arguments.stack) \X (arguments.ante .. arguments.stack)] :
        IF isEven(n) THEN /\ most(n.bets) < arguments.stack
                          /\ n.street = 1 => most(n.bets) = arguments.ante
        ELSE \/ own_bet(n) <= opponent_bet(n) - arguments.ante
             \/ own_bet(n) < arguments.stack /\ opponent_bet(n) = arguments.stack}

-----------------------------------------------------------------------------
(* _compute_tree_structures and _compute_structure.                        *)

isLeaf(node) == isTerminal(node) \/ node.current_player = chance

layersOf(root) ==
    LET layer[d \in 1 .. MaxDepth + 1] ==
            IF d = 1 THEN {root} ELSE UNION {Range(children(n)) : n \in layer[d - 1]}
    IN layer

terminalChildren(node) == Cardinality({i \in DOMAIN children(node) : isLeaf(children(node)[i])})

\* The counts, from layer -1 on, whose nodes count as one.
countsOf(root) ==
    LET layer == layersOf(root)
        most_(d, f) == Max({f[n] : n \in layer[d]} \cup {0})
        actions_count == [d \in -1 .. MaxDepth |-> IF d < 1 THEN 1
            ELSE most_(d, [n \in layer[d] |-> Len(children(n))])]
        terminal == [d \in -1 .. MaxDepth |-> IF d < 1 THEN 0
            ELSE most_(d, [n \in layer[d] |-> terminalChildren(n)])]
        nonallin == [d \in -1 .. MaxDepth |-> IF d < 1 THEN 1
            ELSE IF actions_count[d] = 2 THEN 0 ELSE actions_count[d] - terminal[d] - 1]
        nonallin_nodes[d \in 0 .. MaxDepth] ==
            IF d < 2 THEN 1
            ELSE IF d = 2 THEN actions_count[1] - terminal[1] - 1
            ELSE nonallin_nodes[d - 2] * nonallin[d - 2] * nonallin[d - 1]
    IN [depth |-> Max({d \in 1 .. MaxDepth : layer[d] # {}}),
        actions_count |-> actions_count, terminal_actions_count |-> terminal,
        bets_count |-> [d \in -1 .. MaxDepth |-> IF d < 1 THEN 1 ELSE actions_count[d] - terminal[d]],
        nonallinbets_count |-> nonallin,
        nonterminal_nonallin_nodes_count |-> nonallin_nodes]

\* The shape of the tensors of layer d.
dims(d) ==
    IF d = 1 THEN <<1, 1, 1>>
    ELSE <<lookahead.actions_count[d - 1], lookahead.bets_count[d - 2],
           lookahead.nonterminal_nonallin_nodes_count[d - 2]>>

cellsOf(d) == (1 .. dims(d)[1]) \X (1 .. dims(d)[2]) \X (1 .. dims(d)[3])

-----------------------------------------------------------------------------
(* set_datastructures_from_tree_dfs.                                       *)

Init ==
    /\ tree \in Roots
    /\ lookahead = countsOf(tree)
    /\ todo = <<[node |-> tree, layer |-> 1, cell |-> <<1, 1, 1>>, from |-> << >>]>>
    /\ placed = << >>
    /\ empty_action_mask = {}

next_parent_id(call) == call.cell[1] - lookahead.terminal_actions_count[call.layer - 1]

next_gp_id_AllBets(call) ==
    (call.cell[3] - 1) * lookahead.bets_count[call.layer - 2] + call.cell[2]
next_gp_id(call) ==
    (call.cell[3] - 1) * lookahead.nonallinbets_count[call.layer - 2] + call.cell[2]

hasEmptyActions(call) == Len(children(call.node)) < lookahead.actions_count[call.layer]

\* The cell of child i: the bets are moved to the end, so that all-in is last.
child_id(call, i) ==
    IF hasEmptyActions(call) /\ i > 2
    THEN lookahead.actions_count[call.layer] - Len(children(call.node)) + i ELSE i

\* (The bets are visited from the last one where some are missing; no call
\* depends on the ones before it.)
childCalls(call) ==
    [i \in DOMAIN children(call.node) |->
        [node |-> children(call.node)[i], layer |-> call.layer + 1,
         cell |-> <<child_id(call, i), next_parent_id(call), next_gp_id(call)>>,
         from |-> <<call.layer, call.cell>>]]

lastEmpty_OneMore(call) == lookahead.actions_count[call.layer] - Len(children(call.node)) + 3
lastEmpty(call) == lookahead.actions_count[call.layer] - Len(children(call.node)) + 2

\* The cells of the bets node does not have.
emptyActions(call) ==
    IF ~hasEmptyActions(call) THEN {}
    ELSE {<<call.layer + 1, <<a, next_parent_id(call), next_gp_id(call)>>>> :
             a \in 3 .. lastEmpty(call)}

Visit ==
    LET call == Head(todo)
        goesDeeper == call.layer < lookahead.depth + 1 /\ ~isLeaf(call.node)
    IN /\ todo # << >>
       /\ placed' = (<<call.layer, call.cell>> :> [node |-> call.node, from |-> call.from]) @@ placed
       /\ todo' = (IF goesDeeper THEN childCalls(call) ELSE << >>) \o Tail(todo)
       /\ empty_action_mask' = empty_action_mask \cup
             (IF goesDeeper THEN emptyActions(call) ELSE {})
       /\ UNCHANGED <<tree, lookahead>>

\* build_from_tree masks a free fold, after all nodes are in their cells.
freeFold == {<<2, <<1, 1, 1>>>>}

MaskFreeFold ==
    /\ todo = << >> /\ isEven(tree) /\ empty_action_mask' = empty_action_mask \cup freeFold
    /\ UNCHANGED <<tree, lookahead, todo, placed>>

Built == todo = << >> /\ ~isEven(tree) /\ UNCHANGED vars

Next == Visit \/ MaskFreeFold \/ Built

Spec == Init /\ [][Next]_vars

-----------------------------------------------------------------------------
(* lookahead.lua.                                                          *)

first_call == children(tree)[2]
first_call_terminal == isTerminal(first_call)
first_call_transition == first_call.current_player = chance

\* _compute_ranges and _compute_cfvs: the cell of layer d - 1 whose range cell
\* c of layer d gets, and to which its values go, as the views have it.
viewedParent(d, c) ==
    LET n == lookahead.nonallinbets_count[d - 3]
    IN <<c[2] + lookahead.terminal_actions_count[d - 2], ((c[3] - 1) % n) + 1, ((c[3] - 1) \div n) + 1>>

\* What gives a cell its value: the terminal equity of a fold or of a call, the
\* net for the next street, or the layers below.
evaluatedBy_EveryCall(d, c) ==
    IF c[1] = 1 THEN "fold"
    ELSE IF c[1] = 2 /\ (d > 2 \/ first_call_terminal) THEN "call"
    ELSE IF c[1] = 2 /\ first_call_transition THEN "net" ELSE "layers"
evaluatedBy(d, c) ==
    IF c[1] = 1 THEN "fold"
    ELSE IF c[1] # 2 THEN "layers"
    ELSE IF (d > 2 \/ first_call_terminal) /\ (tree.street = 1 => c[2] = dims(d)[2]) THEN "call"
    ELSE IF tree.street = 1 /\ (d > 2 \/ first_call_transition) THEN "net"
    ELSE "layers"

\* get_chance_action_cfv: the layer and the cell of its net's output.
batch_index_NoTransition(action_index) == action_index - 1
batch_index(action_index) ==
    IF first_call_transition THEN action_index - 2 ELSE action_index - 1

chanceCell(action_index) ==
    IF action_index = 2 /\ first_call_transition THEN <<2, <<2, 1, 1>>>>
    ELSE <<3, <<2, batch_index(action_index), 1>>>>

-----------------------------------------------------------------------------
isBuilt == todo = << >>
visited == Head(todo)

\* Every node has a cell of its own, inside the tensors of its layer; and the
\* views by which ranges go down and values come up lead from it to its parent,
\* although nothing but the shapes of the tensors ties them.
CellsFollowTheTree ==
    /\ todo # << >> =>
          /\ visited.layer <= lookahead.depth /\ visited.cell \in cellsOf(visited.layer)
          /\ <<visited.layer, visited.cell>> \notin DOMAIN placed
    /\ \A c \in DOMAIN placed : c[1] > 1 =>
          placed[c].from = <<c[1] - 1, viewedParent(c[1], c[2])>>

\* Of an inner node's row of children, just the empty cells are masked, and the
\* fold where a check is free.
MaskIsThePadding ==
    isBuilt =>
        \A c \in DOMAIN placed : ~isLeaf(placed[c].node) =>
            LET row == {<<c[1] + 1, k>> : k \in cellsOf(c[1] + 1)}
            IN {k \in row : <<c[1], viewedParent(c[1] + 1, k[2])>> = c
                            /\ k \notin empty_action_mask \ freeFold}
               = {k \in DOMAIN placed : placed[k].from = c}

\* Folds, calls and the ends of the street get their values from what evaluates
\* them, by their place alone; a call is final just when one of the two is all-in
\* or the street is the last.
CellsAreEvaluated ==
    \A c \in DOMAIN placed : c[1] > 1 =>
        evaluatedBy(c[1], c[2]) =
            CASE placed[c].node.kind = "fold" -> "fold"
              [] placed[c].node.kind = "call" -> "call"
              [] placed[c].node.kind = "chance" -> "net"
              [] OTHER -> "layers"

\* After my action and a call the values of the next street are looked up where
\* the net put those of this very end of the street.
ChanceCellIsTheCall ==
    isBuilt /\ tree.street = 1 =>
        \A a \in 2 .. Len(children(tree)) :
            LET mine == <<2, <<a, 1, 1>>>>
                at == chanceCell(a)
            IN ~isTerminal(children(tree)[a]) /\ most(children(tree)[a].bets) < arguments.stack =>
                 /\ at \in DOMAIN placed /\ placed[at].node.kind = "chance"
                 /\ at = mine \/ placed[at].from = mine

=============================================================================
