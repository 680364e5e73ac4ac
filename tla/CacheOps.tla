------------------------------- MODULE CacheOps -------------------------------
(***************************************************************************)
(* The operations of the cluster's KV cache (puls-engine/scheduler/         *)
(* cache.cpp) on its state c, a record [idx, used, budget]: an index from   *)
(* conversation to KV entry in one of three tiers, and for each node the    *)
(* HBM bytes its entries occupy against a budget.  The byte counters are    *)
(* maintained by four operations that never recount them.                   *)
(*                                                                         *)
(* Bytes are counted in tokens.  An entry's `last' is kept as the rounds    *)
(* since: every driver calls evict_tick once, first, in each round.  An id  *)
(* that was never recorded answers every call as one whose KV is gone.      *)
(***************************************************************************)
EXTENDS Integers, FiniteSetsExt

CONSTANTS
    node_capacity,              \* the budget until enforce_budget is called
    evict_age,                  \* idle rounds until HBM is left
    gone_age                    \* idle rounds until SSD is left

Gone == [tier |-> "Gone"]

Demote(entry) == [entry EXCEPT !.tier = "SSD"]

Resident(index, node) == {id \in DOMAIN index : index[id].tier = "HBM" /\ index[id].node = node}
Bytes(index, ids)     == MapThenSumSet(LAMBDA id : index[id].len, ids)

\* What lookup and peek find.
Find(c, id) == IF id \in DOMAIN c.idx THEN c.idx[id] ELSE Gone

-----------------------------------------------------------------------------
\* Mutant of Reclaimed: the bytes come back on the node of the new turn.
ReclaimedHere(c, node, id) ==
    IF Find(c, id).tier = "HBM"
    THEN [c.used EXCEPT ![node] = @ - c.idx[id].len]
    ELSE c.used

\* The bytes in use once the HBM entry of an earlier turn is given back.
Reclaimed(c, node, id) ==
    IF Find(c, id).tier = "HBM"
    THEN [c.used EXCEPT ![c.idx[id].node] = @ - c.idx[id].len]
    ELSE c.used

\* Mutant of Admits: the capacity of the node, not its budget, is the limit.
AdmitsToCapacity(c, used, node, len, threshold) ==
    len > threshold /\ used[node] + len <= node_capacity

\* HBM is for what is longer than the threshold and fits.
Admits(c, used, node, len, threshold) ==
    len > threshold /\ used[node] + len <= c.budget[node]

\* on_complete: a turn of the conversation ends on node: HBM if it fits, else
\* SSD only.
Recorded(c, node, id, len, threshold) ==
    LET used == Reclaimed(c, node, id)
        admitted == Admits(c, used, node, len, threshold)
        entry == [tier |-> IF admitted THEN "HBM" ELSE "SSD",
                  node |-> node, len |-> len, idle |-> 0]
    IN  [idx |-> [i \in DOMAIN c.idx \cup {id} |-> IF i = id THEN entry ELSE c.idx[i]],
         used |-> IF admitted THEN [used EXCEPT ![node] = @ + len] ELSE used,
         budget |-> c.budget]

\* Mutant of Touched: only a hit resets the idle age.
TouchedHits(c, id) ==
    IF Find(c, id).tier = "HBM" THEN [c EXCEPT !.idx[id].idle = 0] ELSE c

\* lookup: the next turn asks for its KV; one that is gone leaves no trace.
Touched(c, id) ==
    IF Find(c, id) # Gone THEN [c EXCEPT !.idx[id].idle = 0] ELSE c

\* Mutant of OldestFirst: the entry that was used last goes first.
YoungestFirst(index, a, b, rank) ==
    index[a].idle < index[b].idle \/ (index[a].idle = index[b].idle /\ rank[a] <= rank[b])

\* a is demoted before b; of two as old, the one the map iterates over first.
OldestFirst(index, a, b, rank) ==
    index[a].idle > index[b].idle \/ (index[a].idle = index[b].idle /\ rank[a] <= rank[b])

\* The entries enforce_budget takes out of HBM, one after the other while the
\* node is over the limit: those that find it over when the ones before have left.
Cut(c, node, limit, rank) ==
    LET resident == Resident(c.idx, node)
        earlier(a) == {b \in resident \ {a} : OldestFirst(c.idx, b, a, rank)}
    IN  {a \in resident : c.used[node] - Bytes(c.idx, earlier(a)) > limit}

\* Mutant of Limit: the static capacity minus the excess is used as it is.
LimitUnclamped(wanted) == wanted

Limit(wanted) == IF wanted < 0 THEN 0 ELSE wanted

\* enforce_budget: the budget of node becomes wanted, and entries leave HBM
\* until it is met.  rank is the iteration order of the hash map.
Enforced(c, node, wanted, rank) ==
    LET cut == Cut(c, node, Limit(wanted), rank)
    IN  [idx |-> [id \in DOMAIN c.idx |-> IF id \in cut THEN Demote(c.idx[id]) ELSE c.idx[id]],
         used |-> [c.used EXCEPT ![node] = @ - Bytes(c.idx, cut)],
         budget |-> [c.budget EXCEPT ![node] = Limit(wanted)]]

\* Mutant of Aged: HBM entries are given the SSD's time to live.
AgedByOneLimit(entry) ==
    LET older == [entry EXCEPT !.idle = @ + 1] IN
    CASE entry = Gone -> Gone
      [] entry.tier = "HBM" -> IF older.idle > gone_age THEN Demote(older) ELSE older
      [] entry.tier = "SSD" -> IF older.idle > gone_age THEN Gone ELSE older

\* What a round makes of an entry.
Aged(entry) ==
    LET older == [entry EXCEPT !.idle = @ + 1] IN
    CASE entry = Gone -> Gone
      [] entry.tier = "HBM" -> IF older.idle > evict_age THEN Demote(older) ELSE older
      [] entry.tier = "SSD" -> IF older.idle > gone_age THEN Gone ELSE older

\* evict_tick: a round begins, idle entries move one tier down.
Ticked(c) ==
    LET Leaving(node) == {id \in Resident(c.idx, node) : Aged(c.idx[id]).tier # "HBM"}
    IN  [idx |-> [id \in DOMAIN c.idx |-> Aged(c.idx[id])],
         used |-> [node \in DOMAIN c.used |-> c.used[node] - Bytes(c.idx, Leaving(node))],
         budget |-> c.budget]
=============================================================================
