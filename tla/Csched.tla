-------------------------------- MODULE Csched --------------------------------
(***************************************************************************)
(* The proposed scheduler, puls-engine/sim/csched.cpp: returns whose KV is  *)
(* in a node's HBM wait for that node and go to the global queue when they  *)
(* wait too long; the global queue forces overdue requests; the cache gets  *)
(* what the residents' own KV leaves of the HBM.                            *)
(***************************************************************************)
EXTENDS ClusterState

CschedFill ==
    /\ Filling(op.decode_pool)
    /\ \E hole \in TopUpHoles(pools[turn]) :
           Commit(EnterPulled(Here, pull_slot(queue, <<hole, 1>>, cap_room, 0, global_age_cap)))
    /\ UNCHANGED <<driver, phase, now, turn>>

-----------------------------------------------------------------------------
\* A due return goes where its KV is, if that is in HBM.
Routed(h, r, c) ==
    LET entry == Find(c, r.id)
    IN  IF entry.tier = "HBM"
        THEN [h EXCEPT !.aff[entry.node] = Append(@, r)]
        ELSE [h EXCEPT !.queue = push(@, r)]

\* Mutant of SpillNext: the request moved into the place is not looked at.
SpillNextSkips(h) ==
    CASE h.i > Len(h.az) -> h
      [] h.i <= Len(h.az) /\ now - h.az[h.i].arrival > aff_spill_cap ->
            [i |-> h.i + 1, az |-> Without(h.az, h.i), queue |-> push(h.queue, h.az[h.i])]
      [] OTHER -> [h EXCEPT !.i = @ + 1]

\* One pass of the spill loop over the waiters az of a node, at position i.
SpillNext(h) ==
    CASE h.i > Len(h.az) -> h
      [] h.i <= Len(h.az) /\ now - h.az[h.i].arrival > aff_spill_cap ->
            [h EXCEPT !.az = Without(@, h.i), !.queue = push(@, h.az[h.i])]
      [] OTHER -> [h EXCEPT !.i = @ + 1]

\* Node z's waiters of more than aff_spill_cap rounds go to the global queue.
Spilled(h, z) ==
    LET done == Iterate(Len(h.aff[z]), LAMBDA g, k : SpillNext(g),
                        [i |-> 1, az |-> h.aff[z], queue |-> h.queue])
    IN  [aff |-> [h.aff EXCEPT ![z] = done.az], queue |-> done.queue]

CschedBegin ==
    LET due == Due(pend, now)
        routed == Iterate(Len(due), LAMBDA h, k : Routed(h, due[k], Ticked(cache)),
                          [aff |-> aff, queue |-> queue])
        spilled == Iterate(Z, Spilled, routed)
    IN  /\ Beginning
        /\ aff' = spilled.aff /\ queue' = spilled.queue

-----------------------------------------------------------------------------
\* The oldest waiter of z enters.
EnterWaiter(s, z) ==
    LET oldest == FirstLeast(DOMAIN s.aff[z], LAMBDA i : s.aff[z][i].arrival)
        taken == take(s.aff[z], oldest)
    IN  Enter([s EXCEPT !.aff[z] = taken.q], taken.r)

\* Mutant of HealHole: the arguments of the pull are swapped.
HealHoleSwapped(s, z, hole) ==
    IF s.aff[z] # <<>>
    THEN EnterWaiter(s, z)
    ELSE EnterPulled(s, pull_slot(s.queue, <<cap_room, 1>>, hole, now, global_age_cap))

\* A hole of node z is filled from its waiters, else from the global queue.
\* (A pull that finds nothing ends the code's loop; so would the next one.)
HealHole(s, z, hole) ==
    IF s.aff[z] # <<>>
    THEN EnterWaiter(s, z)
    ELSE EnterPulled(s, pull_slot(s.queue, <<hole, 1>>, cap_room, now, global_age_cap))

\* By how much the residents' KV exceeds what the pool was designed for.
Excess(pool) ==
    LET over == LiveSum(pool) - op.decode_pool * op.ctx_balance
    IN  IF over > 0 THEN over ELSE 0

\* Two iteration orders of the hash map, opposite to each other.
Ranks(c) == {[id \in DOMAIN c.idx |-> id], [id \in DOMAIN c.idx |-> -id]}

\* Mutant of BudgetFor: the excess is the one before the holes were filled.
BudgetBeforeHealing(retired, healed) == node_capacity - Excess(retired)

\* The cache's share for the rest of the round.
BudgetFor(retired, healed) == node_capacity - Excess(healed)

CschedServe ==
    LET advanced == Steered(pools[turn])
        gone == Leavers(advanced)
        length == [k \in DOMAIN gone |-> gone[k].prompt + gone[k].dec]
    IN  /\ phase = "serve"
        /\ \E fates \in [DOMAIN gone -> Fates] :
               LET retired == Retired([Here EXCEPT !.pool = advanced], fates, length, eligibility)
                   healed == Iterate(Len(gone), LAMBDA s, k : HealHole(s, turn, gone[k].prompt),
                                     retired)
                   budget == BudgetFor(retired.pool, healed.pool)
               IN  \E rank \in Ranks(healed.cache) :
                       Commit([healed EXCEPT !.cache = Enforced(@, turn, budget, rank)])
        /\ Served
=============================================================================
