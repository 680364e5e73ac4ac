--------------------------------- MODULE Prepo ---------------------------------
(***************************************************************************)
(* The scheduler without a surplus, puls-engine/sim/prepo.cpp: a node is    *)
(* two fixed batches whose members all decode every round; the slots that   *)
(* become free are composed anew from the global queue.                     *)
(***************************************************************************)
EXTENDS ClusterState

\* A slot takes what was pulled for it, and the account of the batch goes on.
Slot(h, pulled) ==
    IF h.pp.slots_left <= 0 \/ pulled.r = None THEN h
    ELSE [s |-> EnterPulled(h.s, pulled), pp |-> place(h.pp, pulled.r.prompt)]

\* The batch is filled slot by slot: pull(q, ideal) is asked for each one.
Refilled(s, pull(_, _)) ==
    Iterate(op.decode_count_target, LAMBDA h, k : Slot(h, pull(h.s.queue, next_ideal(h.pp))),
            [s |-> s, pp |-> Preposition(LiveSum(s.pool), Len(s.pool), op)]).s

PrepoInit ==
    /\ pools = [b \in 1..(2 * Z) |-> <<>>]
    /\ \E seed \in Seeds : queue = Seeded(seed, Z * op.node_min + seed_backlog)
    /\ next_id = Z * op.node_min + seed_backlog
    /\ cache = EmptyCache(node_capacity + (op.decode_pool - op.node_min) * op.ctx_balance)

PrepoFill ==
    /\ Filling(op.decode_count_target)
    /\ Commit(Refilled(Here, LAMBDA q, ideal : pull_near(q, ideal, cap_room)))
    /\ UNCHANGED <<driver, phase, now, turn>>

PrepoServe ==
    LET advanced == [i \in DOMAIN pools[turn] |-> [pools[turn][i] EXCEPT !.dec = @ + 1]]
        gone == Leavers(advanced)
        length == [k \in DOMAIN gone |-> gone[k].prompt + gone[k].dec]
        Pull(q, ideal) == pull_slot(q, ideal, cap_room, now, global_age_cap)
    IN  /\ phase = "serve"
        /\ \E fates \in [DOMAIN gone -> Fates] :
               Commit(Refilled(
                   Retired([Here EXCEPT !.pool = advanced], fates, length, eligibility), Pull))
        /\ Served
=============================================================================
