---------------------------- MODULE GlobalScheduler ----------------------------
(***************************************************************************)
(* The cluster level algorithms of puls-engine/core/global_scheduler.cpp:   *)
(* which requests go to the edge, which node a request is placed on, how a  *)
(* completion is replaced, and whether a node can form batches on the       *)
(* operating point.  A node is [lengths, total], as in ClusterNode.         *)
(*                                                                         *)
(* op is a record with the fields of core/operating_point.h read here; the  *)
(* band around the KV target is the fraction idle_band[1] / idle_band[2].   *)
(* Means are compared by cross-multiplication, as in Steering.              *)
(***************************************************************************)
EXTENDS Steering

\* Of the members at the positions in S only.
SumAt(s, S) == Sum([i \in DOMAIN s |-> IF i \in S THEN s[i] ELSE 0])

EmptyNode == [lengths |-> <<>>, total |-> 0]

admit(node, len) == [lengths |-> Append(node.lengths, len), total |-> node.total + len]

-----------------------------------------------------------------------------
\* n requests drawn from the distribution; the gate sorts them, so one order
\* stands for all.
SortedDraws(lengths, n) == {d \in [1..n -> lengths] : \A i \in 2..n : d[i - 1] <= d[i]}

\* Mutant of GateOrder: requests are shed as they came.
GateOrderOfArrival(draw) == draw

\* The longest first: each request goes behind those that are as long.
SortStep(draw, sorted, k) ==
    InsertAt(sorted, Cardinality({i \in DOMAIN sorted : sorted[i] >= draw[k]}) + 1, draw[k])
GateOrder(draw) == Iterate(Len(draw), LAMBDA sorted, k : SortStep(draw, sorted, k), <<>>)

\* n requests of that total have a mean of at most the balance plus the band.
Balanced(total, n, op) == total <= (op.ctx_balance + op.edge_band) * n

\* Requests are shed from the front until the rest is balanced.
gate(draw, op) ==
    LET sorted == GateOrder(draw)
        rest(i) == SubSeq(sorted, i + 1, Len(sorted))
        shed == CHOOSE i \in 0..Len(sorted) :
                    /\ Balanced(Sum(rest(i)), Len(rest(i)), op)
                    /\ \A j \in 0..(i - 1) : ~Balanced(Sum(rest(j)), Len(rest(j)), op)
    IN  [kept |-> rest(shed), edged |-> SubSeq(sorted, 1, shed)]

-----------------------------------------------------------------------------
\* Mutant of CanFit: the count is compared after the fact.
CanFitCountLate(node, len, op) ==
    node.total + len <= op.node_footprint_cap /\ Len(node.lengths) <= op.node_max

CanFit(node, len, op) ==
    node.total + len <= op.node_footprint_cap /\ Len(node.lengths) < op.node_max

\* After taking len, a's mean is no further from the balance than b's.
NoFurther(a, b, len, op) ==
    LET size(node) == Len(node.lengths) + 1
        off(node) == Abs(node.total + len - op.ctx_balance * size(node))
    IN  off(a) * size(b) <= off(b) * size(a)

\* Mutant of Placement: the node with the best mean is chosen before asking
\* whether the request fits there.
PlacementBeforeFit(nodes, len, op) ==
    LET best == CHOOSE j \in DOMAIN nodes : \A k \in DOMAIN nodes :
                    /\ NoFurther(nodes[j], nodes[k], len, op)
                    /\ NoFurther(nodes[k], nodes[j], len, op) => j <= k
    IN  IF CanFit(nodes[best], len, op) THEN best ELSE 0

\* Where the next request goes, the first of equals; 0 if it fits nowhere.
Placement(nodes, len, op) ==
    LET fits == {j \in DOMAIN nodes : CanFit(nodes[j], len, op)}
    IN  IF fits = {} THEN 0
        ELSE CHOOSE j \in fits : \A k \in fits :
                 /\ NoFurther(nodes[j], nodes[k], len, op)
                 /\ NoFurther(nodes[k], nodes[j], len, op) => j <= k

\* The whole distribution, kept being already shuffled.
PlaceStep(c, nodes, k) ==
    LET j == Placement(nodes, c.kept[k], c.op)
    IN  IF j = 0 THEN nodes ELSE [nodes EXCEPT ![j] = admit(@, c.kept[k])]
cold_start(kept, Z, op) ==
    LET c == [kept |-> kept, op |-> op]
    IN  Iterate(Len(kept), LAMBDA nodes, k : PlaceStep(c, nodes, k), [z \in 1..Z |-> EmptyNode])

\* All orders std::shuffle may put s in.
Shuffles(s) ==
    LET Count(t, len) == Cardinality({i \in DOMAIN t : t[i] = len})
    IN  {t \in [DOMAIN s -> Range(s)] : \A len \in Range(s) : Count(t, len) = Count(s, len)}

\* The lengths the drivers give each of Z nodes first: the gated draw placed in
\* some order, cut at the pool's size.
ColdStarts(draw, Z, op) ==
    LET Cut(s) == SubSeq(s, 1, IF Len(s) < op.decode_pool THEN Len(s) ELSE op.decode_pool)
    IN  {[z \in 1..Z |-> Cut(cold_start(order, Z, op)[z].lengths)] :
            order \in Shuffles(gate(draw, op).kept)}

-----------------------------------------------------------------------------
\* The lengths of a node, the shortest first.
Ascending(s) == Reverse(GateOrder(s))

\* The next member is the free one nearest the rounded ideal, the shorter of equals.
ComposeStep(c, b, k) ==
    LET slots == c.op.decode_count_target - b.n
        room == c.op.kv_operating_target - b.S
        ideal == (2 * room + slots) \div (2 * slots)
        free == DOMAIN c.a \ (c.used \cup b.chosen)
        left == {i \in free : c.a[i] < ideal}
        right == free \ left
        L == CHOOSE i \in left : \A j \in left : i >= j
        R == CHOOSE i \in right : \A j \in right : i <= j
        best == IF left = {} THEN R
                ELSE IF right = {} \/ ideal - c.a[L] <= c.a[R] - ideal THEN L ELSE R
    IN  IF free = {} \/ room <= 0 THEN b
        ELSE [n |-> b.n + 1, S |-> b.S + c.a[best], chosen |-> b.chosen \cup {best}]

\* One batch over the sorted lengths a, avoiding used: n members, their tokens S,
\* and where they are.
ComposeBatch(a, used, op) ==
    LET c == [a |-> a, used |-> used, op |-> op]
    IN  Iterate(op.decode_count_target, LAMBDA b, k : ComposeStep(c, b, k),
                [n |-> 0, S |-> 0, chosen |-> {}])

\* n members with S tokens are what the operating point asks for.
OnPoint(n, S, op) ==
    /\ n = op.decode_count_target
    /\ Abs(S - op.kv_operating_target) * op.idle_band[2]
           <= op.idle_band[1] * op.kv_operating_target

\* Mutant of Composed: the members of one batch are free again for the next.
ComposedAfresh(got, a, op) ==
    LET b == ComposeBatch(a, {}, op)
    IN  IF got.failed \/ ~OnPoint(b.n, b.S, op)
        THEN [got EXCEPT !.failed = TRUE]
        ELSE [got EXCEPT !.batches = @ + 1, !.used = b.chosen]

\* One more batch, or the end of the attempt.
Composed(got, a, op) ==
    LET b == ComposeBatch(a, got.used, op)
    IN  IF got.failed \/ ~OnPoint(b.n, b.S, op)
        THEN [got EXCEPT !.failed = TRUE]
        ELSE [got EXCEPT !.batches = @ + 1, !.used = @ \cup b.chosen]

\* How many disjoint batches on the operating point the node yields, up to k.
onpoint_batches(node, op, k) ==
    LET a == Ascending(node.lengths)
        start == [batches |-> 0, used |-> {}, failed |-> FALSE]
    IN  IF Len(a) < op.decode_count_target THEN 0
        ELSE Iterate(k, LAMBDA got, b : Composed(got, a, op), start).batches
=============================================================================
