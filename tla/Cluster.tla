-------------------------------- MODULE Cluster --------------------------------
(***************************************************************************)
(* The three cluster drivers side by side: which one runs is fixed at the   *)
(* start.  All of them fill their nodes, then serve round after round on    *)
(* one global queue, one cache and one table of pending returns.            *)
(***************************************************************************)
EXTENDS Csched, Baseline, Prepo

Init ==
    /\ driver \in {"csched", "baseline", "prepo"}
    /\ IF driver = "prepo" THEN PrepoInit ELSE PlacedInit
    /\ phase = "fill" /\ turn = 1 /\ now = 0
    /\ aff = [z \in 1..Z |-> <<>>]
    /\ pend = <<>>

BatchSize == IF driver = "prepo" THEN op.decode_count_target ELSE op.decode_pool

Serve ==
    \/ driver = "csched" /\ CschedServe
    \/ driver = "baseline" /\ BaselineServe
    \/ driver = "prepo" /\ PrepoServe

Begin ==
    \/ driver = "csched" /\ CschedBegin
    \/ driver # "csched" /\ QueueingBegin

Fill ==
    \/ driver = "csched" /\ CschedFill
    \/ driver = "baseline" /\ BaselineFill
    \/ driver = "prepo" /\ PrepoFill

Next == Fill \/ FillNext(BatchSize) \/ Begin \/ Serve

Spec == Init /\ [][Next]_vars
-----------------------------------------------------------------------------
\* Requests alive: resident, waiting somewhere, or yet to return.
Population ==
    Sum([b \in Batches |-> Len(pools[b])]) + Len(queue)
        + Sum([z \in 1..Z |-> Len(aff[z])]) + Len(pend)

\* The population is kept by every step (harness.h:107): no return, spill or
\* refill loses or doubles a request, and every conversation that ends is
\* followed by a new one.
PopulationConserved == [][Population' = Population]_vars

\* A batch is smaller after its round only if nothing could have entered it: the
\* queue holds nothing that fits or is overdue, and nobody waits for this node.
ShrinksOnlyWhenDry ==
    [][phase = "serve" /\ Len(pools'[turn]) < Len(pools[turn]) =>
          /\ Fitting(queue', cap_room) = {}
          /\ driver # "baseline" => Overdue(queue', now, global_age_cap) = {}
          /\ aff'[NodeOf(turn)] = <<>>]_vars

\* The global age cap (queue.h, queue.cpp:58-63): while a request over the cap
\* stays in the queue, whoever leaves the queue has waited at least as long.
\* Removals swap the last element in, so that the order of the queue says
\* nothing about age.
OldestForced ==
    [][phase = "serve" /\ driver # "baseline" =>
          \A i \in Overdue(queue', now, global_age_cap) :
              \A r \in Range(queue) \ Range(queue') : r.arrival <= queue'[i].arrival]_vars

\* A return waits for its node no longer than the spill cap: after the round
\* began, nobody over the cap is left (csched.cpp:245-256).
AffinityWaitBounded ==
    phase = "serve" => \A z \in 1..Z : \A i \in DOMAIN aff[z] :
        now - aff[z][i].arrival <= aff_spill_cap

\* The bytes of a node's HBM stay within its capacity: what the cache holds and
\* what the residents need beyond the design fit together, or the cache holds
\* nothing (csched.cpp:351, 360), through the growth of residents, completions
\* recorded against the budget of the round before, and refills.
HbmClosedLoop ==
    driver = "csched" => \A z \in 1..Z :
        cache.used[z] = 0 \/ cache.used[z] + Excess(pools[z]) <= node_capacity

\* The KV the cache finds under the id of a waiting return is its own context.
OwnKv(r) == r.turn > 0 /\ Find(cache, r.id) # Gone => cache.idx[r.id].len = r.cached_prefix
WaitingRequests == Range(queue) \cup UNION {Range(aff[z]) : z \in 1..Z}

\* What scheduler/request.h:8 promises by calling id unique, of the driver that
\* numbers its cold start by a counter of its own (csched.cpp:144, 211).
KvIsOwn == driver = "csched" => \A r \in WaitingRequests : OwnKv(r)

\* Where the workload numbers everybody, a conversation has one turn alive at a
\* time and finds its own KV, whatever was recorded, cut, aged out or refused
\* between its turns (prepo.cpp:106, 140-166).
PrepoKvIsOwn == driver = "prepo" => \A r \in WaitingRequests : OwnKv(r)
=============================================================================
