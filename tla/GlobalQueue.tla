------------------------------ MODULE GlobalQueue ------------------------------
(***************************************************************************)
(* The global pool of waiting requests (puls-engine/scheduler/queue.cpp)    *)
(* and the composer of a batch (puls-engine/scheduler/preposition.cpp).     *)
(* A pull yields [r, q]: the request, None if there is none, and the queue  *)
(* that stays.  An ideal length is a fraction <<num, den>>, as in Steering. *)
(***************************************************************************)
EXTENDS Workload

push(q, r) == Append(q, r)

Fitting(q, cap_room) == {i \in DOMAIN q : q[i].prompt <= cap_room}

find_near(q, ideal, cap_room) ==
    FirstLeast(Fitting(q, cap_room), LAMBDA i : Abs(q[i].prompt * ideal[2] - ideal[1]))

Overdue(q, now, age_cap) == {i \in DOMAIN q : now - q[i].arrival > age_cap}

\* Mutant of find_oldest_aged: the first request over the cap.
FindFirstAged(q, now, age_cap) == FirstLeast(Overdue(q, now, age_cap), LAMBDA i : 0)

find_oldest_aged(q, now, age_cap) == FirstLeast(Overdue(q, now, age_cap), LAMBDA i : q[i].arrival)

\* The last one takes the place of the one removed.
Without(q, i) == IF i = Len(q) THEN Front(q) ELSE Front([q EXCEPT ![i] = Last(q)])

take(q, i) == [r |-> q[i], q |-> Without(q, i)]

pull_near(q, ideal, cap_room) ==
    IF Fitting(q, cap_room) = {} THEN [r |-> None, q |-> q]
    ELSE take(q, find_near(q, ideal, cap_room))

\* A request over the age cap is taken whatever its length.
pull_slot(q, ideal, cap_room, now, age_cap) ==
    IF Overdue(q, now, age_cap) # {} THEN take(q, find_oldest_aged(q, now, age_cap))
    ELSE pull_near(q, ideal, cap_room)

-----------------------------------------------------------------------------
\* A batch of count members with sum tokens, to be filled up to op's targets.
Preposition(sum, count, op) ==
    [sum |-> sum, slots_left |-> op.decode_count_target - count, kv_target |-> op.kv_operating_target]

next_ideal(pp) == <<pp.kv_target - pp.sum, pp.slots_left>>

place(pp, len) == [pp EXCEPT !.sum = @ + len, !.slots_left = @ - 1]
=============================================================================
