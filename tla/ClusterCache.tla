----------------------------- MODULE ClusterCache -----------------------------
(***************************************************************************)
(* The KV cache of the cluster (puls-engine/scheduler/cache.cpp) on its     *)
(* own: any order of completions, lookups, budget cuts and rounds.          *)
(***************************************************************************)
EXTENDS CacheOps

CONSTANTS
    Ids,                        \* conversations
    Nodes,
    Lens,                       \* total lengths at completion
    Budgets,                    \* what a driver passes to enforce_budget
    eligibility_threshold       \* HBM is for longer entries only

ASSUME CacheAssumption ==
    /\ IsFiniteSet(Ids)
    /\ Lens \subseteq Nat /\ Budgets \subseteq Int
    /\ {node_capacity, eligibility_threshold, evict_age, gone_age} \subseteq Nat

VARIABLES
    idx,            \* idx_: the entries
    node_used,      \* HBM bytes in use
    node_budget,    \* HBM bytes allowed
    untouched       \* history: rounds since the last completion or lookup

cacheVars == <<idx, node_used, node_budget>>
vars == <<cacheVars, untouched>>

Entry == [tier : {"HBM", "SSD"}, node : Nodes, len : Lens, idle : Nat]

cache == [idx |-> idx, used |-> node_used, budget |-> node_budget]

Becomes(c) == idx' = c.idx /\ node_used' = c.used /\ node_budget' = c.budget

-----------------------------------------------------------------------------
Init ==
    /\ idx = [id \in Ids |-> Gone]
    /\ node_used = [node \in Nodes |-> 0]
    /\ node_budget = [node \in Nodes |-> node_capacity]
    /\ untouched = [id \in Ids |-> 0]

on_complete(node, id, len) == Becomes(Recorded(cache, node, id, len, eligibility_threshold))

lookup(id) == idx[id] # Gone /\ Becomes(Touched(cache, id))

\* The iteration order of the hash map is any.
enforce_budget(node, wanted) ==
    \E rank \in Bijection(Ids, 1..Cardinality(Ids)) : Becomes(Enforced(cache, node, wanted, rank))

evict_tick == Becomes(Ticked(cache))

Touch(id) == untouched' = [untouched EXCEPT ![id] = 0]

Wait == untouched' = [id \in Ids |-> IF idx'[id] = Gone THEN 0 ELSE untouched[id] + 1]

Next ==
    \/ \E node \in Nodes, id \in Ids, len \in Lens :
           on_complete(node, id, len) /\ Touch(id)
    \/ \E id \in Ids : lookup(id) /\ Touch(id)
    \/ \E node \in Nodes, wanted \in Budgets :
           enforce_budget(node, wanted) /\ UNCHANGED untouched
    \/ evict_tick /\ Wait

Spec == Init /\ [][Next]_vars

-----------------------------------------------------------------------------
(* Properties. *)

\* Every entry is an entry, every counter a byte count that never goes negative.
TypeOK ==
    /\ idx \in [Ids -> Entry \cup {Gone}]
    /\ node_used \in [Nodes -> Nat]
    /\ node_budget \in [Nodes -> Nat]

\* The closed loop of HBM bytes: a counter that is only ever added to and
\* subtracted from equals the entries it stands for, also when a conversation
\* completes on another node than last time, is demoted or is recorded anew.
UsedMatchesEntries ==
    \A node \in Nodes : node_used[node] = Bytes(idx, Resident(idx, node))

\* A node's cache never outgrows the budget last set for it (cache.h:45-47),
\* whichever of completions and budget cuts comes first in a round.
WithinBudget == \A node \in Nodes : node_used[node] <= node_budget[node]

\* Only what is long enough and was used in the last evict_age rounds is a hit,
\* no matter how often the entry was demoted, looked up and recorded again.
HitsAreWarm ==
    \A id \in Ids : idx[id].tier = "HBM" =>
        idx[id].len > eligibility_threshold /\ idx[id].idle <= evict_age

\* A budget cut takes the entries unused for longest and no more than it has
\* to (cache.h:45-47): whatever stays was used no earlier than what left, and
\* without the youngest of those that left the budget would not be met.
CutsAreLeastRecent ==
    [][node_budget' # node_budget =>
        \A node \in Nodes :
            LET left == Resident(idx, node) \ Resident(idx', node)
                stays == Resident(idx', node)
            IN
            /\ \A a \in left, b \in stays : idx[a].idle >= idx[b].idle
            /\ left # {} => \E a \in left :
                   /\ \A b \in left : idx[b].idle >= idx[a].idle
                   /\ node_used'[node] + idx[a].len > node_budget'[node]]_vars

\* Demotion, refusal and budget cuts cost a reload, never the KV itself: the
\* cache is a store that loses a conversation's KV only after gone_age rounds
\* without a completion or a lookup of it.
Store == INSTANCE KvStore WITH
    kept <- {id \in Ids : idx[id] # Gone},
    unused <- untouched,
    MinLife <- gone_age,
    MaxLife <- IF evict_age < gone_age THEN gone_age ELSE evict_age + 1

ImplementsKvStore == Store!Spec
=============================================================================
