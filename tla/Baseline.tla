------------------------------- MODULE Baseline -------------------------------
(***************************************************************************)
(* The design without a global scheduler, puls-engine/sim/baseline.cpp:     *)
(* holes are filled like for like, nothing is forced, and nothing is long   *)
(* enough for the cache.                                                    *)
(***************************************************************************)
EXTENDS ClusterState

\* The cache's threshold: INT_MAX.
NoneEligible == 2147483647

BaselineFill ==
    /\ Filling(op.decode_pool)
    /\ \E hole \in TopUpHoles(pools[turn]) :
           Commit(EnterPulled(Here, pull_near(queue, <<hole, 1>>, cap_room)))
    /\ UNCHANGED <<driver, phase, now, turn>>

\* Due returns go to the global queue, in baseline and in prepo.
QueueingBegin ==
    /\ Beginning
    /\ queue' = queue \o Due(pend, now)
    /\ UNCHANGED aff

BaselineServe ==
    LET advanced == Steered(pools[turn])
        gone == Leavers(advanced)
        Heal(s, k) == EnterPulled(s, pull_near(s.queue, <<gone[k].prompt, 1>>, cap_room))
        length == [k \in DOMAIN gone |-> gone[k].prompt]
    IN  /\ phase = "serve"
        /\ \E fates \in [DOMAIN gone -> Fates] :
               Commit(Iterate(Len(gone), Heal,
                   Retired([Here EXCEPT !.pool = advanced], fates, length, NoneEligible)))
        /\ Served
=============================================================================
