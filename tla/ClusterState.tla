------------------------------ MODULE ClusterState ------------------------------
(***************************************************************************)
(* What the cluster drivers sim/csched.cpp, sim/baseline.cpp and            *)
(* sim/prepo.cpp have in common: their state, their parameters, and the     *)
(* steps of a round that the three repeat.  A node holds one batch of       *)
(* residents in csched and baseline and two in prepo; a step of the models  *)
(* handles one batch.                                                       *)
(*                                                                         *)
(* What the code samples (prompts, decode lengths, think gaps, new          *)
(* messages) comes from the small sets below.                               *)
(***************************************************************************)
EXTENDS GlobalScheduler, GlobalQueue, CacheOps

CONSTANTS
    Z,                  \* nodes
    iters,              \* rounds
    op,                 \* the operating point
    Draws,              \* draws of the cold start
    ColdDecodes,        \* decode lengths of its decoders
    Seeds,              \* first arrivals: sequences of [prompt, max_tokens]
    FreshKinds,         \* later first turns: [prompt, max_tokens]
    ReturnKinds,        \* later turns: [think_gap, new_msg, max_tokens]
    seed_backlog,
    eligibility,        \* csched's and prepo's cache threshold
    global_age_cap,
    aff_spill_cap

FirstTurn == [prompt : Nat, max_tokens : Nat \ {0}]
LaterTurn == [think_gap : Nat, new_msg : Nat, max_tokens : Nat \ {0}]

ASSUME ClusterAssumption ==
    /\ {Z, iters, op.decode_pool, op.decode_count_target} \subseteq Nat \ {0}
    /\ {op.ctx_balance, op.edge_band, op.kv_operating_target, op.node_min,
        seed_backlog, eligibility, global_age_cap, aff_spill_cap,
        node_capacity, evict_age, gone_age} \subseteq Nat
    /\ op.decode_pool >= 2 * op.decode_count_target /\ op.decode_pool >= op.node_min
    /\ \A d \in Draws : d \in Seq(Nat) /\ Len(d) = 2 * Z * op.decode_pool
    /\ \A seed \in Seeds : /\ seed \in Seq(FirstTurn)
                           /\ Len(seed) >= seed_backlog + 2 * Z
                           /\ Len(seed) >= seed_backlog + Z * op.node_min
    /\ ColdDecodes \subseteq Nat \ {0}
    /\ FreshKinds \subseteq FirstTurn /\ ReturnKinds \subseteq LaterTurn

VARIABLES
    driver,     \* which of the three programs runs
    phase,      \* "fill": the cold start; "begin": a round begins; "serve"
    now,        \* the round
    turn,       \* the batch whose step is next
    pools,      \* the residents of each batch
    queue,      \* the global queue
    aff,        \* csched: returns waiting for the node that holds their KV
    pend,       \* returns of later rounds
    cache,      \* the KV cache
    next_id     \* the id of the workload's next conversation

vars == <<driver, phase, now, turn, pools, queue, aff, pend, cache, next_id>>

cap_room == op.decode_pool * op.ctx_balance * 4

Batches == DOMAIN pools
NodeOf(batch) == IF driver = "prepo" THEN (batch + 1) \div 2 ELSE batch

\* A request enters a batch.
NewDecoder(r) ==
    [id |-> r.id, prompt |-> r.prompt, max_tokens |-> r.max_tokens, dec |-> 0, wait |-> 0,
     turn |-> r.turn, cached_prefix |-> r.cached_prefix]

\* admitTTFT: a later turn looks its KV up.
AdmitTTFT(c, r) == IF r.turn > 0 THEN Touched(c, r.id) ELSE c

LiveKv(q) == q.prompt + q.dec
LiveSum(pool) == Sum([i \in DOMAIN pool |-> LiveKv(pool[i])])

\* The queue a program starts with: n first turns.
Seeded(seed, n) == [i \in 1..n |-> fresh_arrival(i - 1, seed[i], 0)]

EmptyCache(capacity) ==
    [idx |-> <<>>, used |-> [z \in 1..Z |-> 0], budget |-> [z \in 1..Z |-> capacity]]

-----------------------------------------------------------------------------
(* The step of one batch works on a record of what it may change.          *)

Here == [pool |-> pools[turn], queue |-> queue, aff |-> aff, pend |-> pend,
         cache |-> cache, next_id |-> next_id]

Commit(s) ==
    /\ pools' = [pools EXCEPT ![turn] = s.pool]
    /\ queue' = s.queue /\ aff' = s.aff /\ pend' = s.pend
    /\ cache' = s.cache /\ next_id' = s.next_id

Enter(s, r) == [s EXCEPT !.pool = Append(@, NewDecoder(r)), !.cache = AdmitTTFT(@, r)]

\* The request of a pull enters, if there is one.
EnterPulled(s, pulled) ==
    IF pulled.r = None THEN s ELSE Enter([s EXCEPT !.queue = pulled.q], pulled.r)

\* Mutant of Departed: a conversation that ends is not replaced.
DepartedForGood(s, q, fate) ==
    IF fate.returns
    THEN [s EXCEPT !.pend = AddReturn(@, maybe_return(q, fate.kind, now))]
    ELSE [s EXCEPT !.next_id = @ + 1]

\* Mutant of Departed: the new conversation keeps the number of the last one.
DepartedSameId(s, q, fate) ==
    IF fate.returns
    THEN [s EXCEPT !.pend = AddReturn(@, maybe_return(q, fate.kind, now))]
    ELSE [s EXCEPT !.queue = push(@, fresh_arrival(s.next_id - 1, fate.kind, now))]

\* A completed turn is followed by another one later, or its conversation is
\* over and a new one arrives.
Departed(s, q, fate) ==
    IF fate.returns
    THEN [s EXCEPT !.pend = AddReturn(@, maybe_return(q, fate.kind, now))]
    ELSE [s EXCEPT !.queue = push(@, fresh_arrival(s.next_id, fate.kind, now)),
                   !.next_id = @ + 1]

Fates == [returns : {TRUE}, kind : ReturnKinds] \cup [returns : {FALSE}, kind : FreshKinds]

Done(q) == q.dec >= q.max_tokens
Leavers(pool) == Only(pool, {q \in Range(pool) : Done(q)})
Stayers(pool) == Only(pool, {q \in Range(pool) : ~Done(q)})

\* The k-th of those who are done leaves with its fate, and the cache records
\* the tokens it has left.
RetireStep(c, h, k) ==
    Departed([h EXCEPT !.cache = Recorded(@, NodeOf(turn), c.gone[k].id, c.kept[k], c.threshold)],
             c.gone[k], c.fates[k])

\* The residents who are done leave, in order; kept are the tokens recorded.
Retired(s, fates, kept, threshold) ==
    LET c == [gone |-> Leavers(s.pool), fates |-> fates, kept |-> kept, threshold |-> threshold]
    IN  Iterate(Len(c.gone), LAMBDA h, k : RetireStep(c, h, k), [s EXCEPT !.pool = Stayers(@)])

\* Every resident of a batch has advanced as steering chose.
Steered(pool) ==
    AdvancedBy(pool, RoundMembers([i \in DOMAIN pool |->
        [kv_length |-> LiveKv(pool[i]), wait |-> pool[i].wait]], op))

-----------------------------------------------------------------------------
(* The cold start of csched and baseline: placed decoders, numbered from 0  *)
(* by a counter of their own.                                              *)

Placed(nodes, dtots) ==
    LET before(z) == Sum([y \in 1..(z - 1) |-> Len(nodes[y])])
    IN  [z \in 1..Z |-> [i \in DOMAIN nodes[z] |->
            NewDecoder(fresh_arrival(before(z) + i - 1,
                           [prompt |-> nodes[z][i], max_tokens |-> dtots[z][i]], 0))]]

PlacedInit ==
    /\ \E draw \in Draws : \E nodes \in ColdStarts(draw, Z, op) :
       \E dtots \in [1..Z -> [1..op.decode_pool -> ColdDecodes]] : pools = Placed(nodes, dtots)
    /\ \E seed \in Seeds : queue = Seeded(seed, seed_backlog + 2 * Z)
    /\ next_id = seed_backlog + 2 * Z
    /\ cache = EmptyCache(node_capacity)

\* The lengths a batch is topped up for.
TopUpHoles(pool) ==
    IF pool = <<>> THEN {op.ctx_balance} ELSE {pool[i].prompt : i \in DOMAIN pool}

-----------------------------------------------------------------------------
(* The order of the steps.                                                 *)

Advance(after) ==
    IF turn = Len(pools)
    THEN phase' = after /\ turn' = 1
    ELSE phase' = phase /\ turn' = turn + 1

\* The cold start moves on once a batch is full or nothing is left for it.
FillNext(size) ==
    /\ phase = "fill"
    /\ Len(pools[turn]) >= size \/ Fitting(queue, cap_room) = {}
    /\ Advance("begin")
    /\ UNCHANGED <<driver, now, pools, queue, aff, pend, cache, next_id>>

Filling(size) == phase = "fill" /\ Len(pools[turn]) < size /\ Fitting(queue, cap_room) # {}

\* A round begins: what is idle in the cache ages.
Beginning ==
    /\ phase = "begin" /\ now < iters
    /\ cache' = Ticked(cache)
    /\ pend' = NotDue(pend, now)
    /\ phase' = "serve"
    /\ UNCHANGED <<driver, now, turn, pools, next_id>>

\* A batch was served; after the last one the round is over.
Served ==
    /\ Advance("begin")
    /\ now' = IF turn = Len(pools) THEN now + 1 ELSE now
    /\ UNCHANGED driver
=============================================================================
