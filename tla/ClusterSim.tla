------------------------------ MODULE ClusterSim ------------------------------
(***************************************************************************)
(* The cluster simulation of puls-engine/sim/sim.cpp: a draw of requests is *)
(* gated and placed on empty nodes; then, round after round and node by     *)
(* node, any residents complete and the source replaces them.               *)
(***************************************************************************)
EXTENDS Simulation

CONSTANT Z              \* nodes

ASSUME SimAssumption ==
    /\ Z \in Nat \ {0}
    /\ {op.ctx_balance, op.decode_count_target, op.kv_operating_target} \subseteq Nat \ {0}
    /\ {op.edge_band, op.node_max, op.node_footprint_cap} \subseteq Nat

VARIABLES
    draw,       \* the requests drawn, until they are gated
    kept,       \* those let through and not placed yet
    leftover,   \* the lengths of those that fit on no node
    nodes,      \* the ClusterNode of each node
    turn        \* whose churn comes next

simVars == <<draw, kept, leftover, nodes, turn>>

\* The draw is enough to fill every node.
SimInit ==
    /\ draw \in SortedDraws(Lengths, Z * op.node_max)
    /\ kept = <<>>
    /\ leftover = {}
    /\ nodes = [z \in 1..Z |-> EmptyNode]
    /\ turn = 1

Gate ==
    /\ draw # <<>>
    /\ kept' = gate(draw, op).kept
    /\ draw' = <<>>
    /\ UNCHANGED <<leftover, nodes, turn>>

\* One step of cold_start; the shuffle may put any request next.
ColdStart ==
    /\ draw = <<>>
    /\ \E i \in DOMAIN kept :
           LET j == Placement(nodes, kept[i], op)
           IN  /\ kept' = RemoveAt(kept, i)
               /\ IF j = 0
                  THEN leftover' = leftover \cup {kept[i]} /\ UNCHANGED nodes
                  ELSE nodes' = [nodes EXCEPT ![j] = admit(@, kept[i])] /\ UNCHANGED leftover
               /\ UNCHANGED <<draw, turn>>

\* Mutant of HealOne: the room is what it was before the first replacement.
HealOneStaleRoom(node, hole, sample, room) ==
    LET len == PullSampled(sample, hole, room)
    IN  IF len < 0 THEN node ELSE admit(node, len)

\* heal_node for one hole.  room is the space before the first replacement.
HealOne(node, hole, sample, room) ==
    LET len == PullSampled(sample, hole, op.node_footprint_cap - node.total)
    IN  IF len < 0 THEN node ELSE admit(node, len)

\* heal_node: it gives up at the first hole that gets nothing.
heal_node(node, departed, samples) ==
    LET room == op.node_footprint_cap - node.total
        Step(h, k) ==
            LET healed == HealOne(h.node, departed[k], samples[k], room)
            IN  IF h.stopped \/ h.node.total >= op.node_footprint_cap \/ healed = h.node
                THEN [h EXCEPT !.stopped = TRUE]
                ELSE [h EXCEPT !.node = healed]
    IN  Iterate(Len(departed), Step, [node |-> node, stopped |-> FALSE]).node

\* A round of one node: some residents leave, the rest is counted anew.
Churn ==
    /\ draw = <<>> /\ kept = <<>>
    /\ \E gone \in SUBSET DOMAIN nodes[turn].lengths :
           LET lengths == nodes[turn].lengths
               positions == [i \in DOMAIN lengths |-> i]
               At(S) == LET at == Only(positions, S) IN [i \in DOMAIN at |-> lengths[at[i]]]
               stay == At(DOMAIN lengths \ gone)
               departed == At(gone)
           IN  \E samples \in [DOMAIN departed -> Samples] :
                   nodes' = [nodes EXCEPT ![turn] =
                       heal_node([lengths |-> stay, total |-> Sum(stay)], departed, samples)]
    /\ turn' = (turn % Z) + 1
    /\ UNCHANGED <<draw, kept, leftover>>

SimNext == Gate \/ ColdStart \/ Churn

SimSpec == SimInit /\ [][SimNext]_simVars
-----------------------------------------------------------------------------
\* No part of the draw larger than n is balanced.
NoLargerPart(n) ==
    \A S \in SUBSET DOMAIN draw :
        Balanced(SumAt(draw, S), Cardinality(S), op) => Cardinality(S) <= n

\* The gate sheds no more than it must: what it keeps has a mean within the
\* band, and no larger part of the draw, chosen in whatever way, does
\* (global_scheduler.cpp:15-16).
GateShedsFewest ==
    [][Gate => Balanced(Sum(kept'), Len(kept'), op) /\ NoLargerPart(Len(kept'))]_simVars

\* Neither the placement nor any sequence of completions and replacements
\* takes a node past its count or its footprint, counted from the residents
\* themselves (global_scheduler.cpp:37, 72-77).
NodesWithinCaps ==
    \A z \in 1..Z :
        /\ Len(nodes[z].lengths) <= op.node_max
        /\ Sum(nodes[z].lengths) <= op.node_footprint_cap

\* What cold_start counts as leftover fits nowhere, also not where the later
\* placements of the same start have left room (global_scheduler.cpp:45-61).
LeftoversFitNowhere ==
    [][ColdStart => \A len \in leftover', z \in 1..Z :
            ~CanFit(nodes'[z], len, op)]_simVars

\* When the check reports two batches on the operating point, the node really
\* holds two disjoint sets of residents of that size and KV
\* (global_scheduler.cpp:85-87).
OnPointIsReal ==
    \A z \in 1..Z :
        onpoint_batches(nodes[z], op, 2) = 2 =>
            LET lengths == nodes[z].lengths
                fine == {S \in SUBSET DOMAIN lengths :
                            OnPoint(Cardinality(S), SumAt(lengths, S), op)}
            IN  \E S \in fine, T \in fine : S \cap T = {}
=============================================================================
