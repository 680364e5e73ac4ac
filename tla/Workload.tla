------------------------------- MODULE Workload -------------------------------
(***************************************************************************)
(* Where the drivers under puls-engine/sim get their requests from: the     *)
(* endless source of core/workload.cpp and the conversations of             *)
(* sim/workload_mt.cpp with the returns scheduled in sim/harness.h.  What   *)
(* the code samples is an argument here; the drivers quantify over it.      *)
(***************************************************************************)
EXTENDS Steering

None == [id |-> -1]

\* WorkloadSource::pull_near: the first sampled length that fits and is nearest
\* to ideal; -1 if none fits.
PullSampled(sample, ideal, cap_room) ==
    LET fits == {i \in DOMAIN sample : sample[i] <= cap_room}
    IN  IF fits = {} THEN -1
        ELSE sample[FirstLeast(fits, LAMBDA i : Abs(sample[i] - ideal))]

\* Its decode length is the prompt's, with a floor.
SourceDecodes(prompt, floor) == IF prompt > floor THEN prompt ELSE floor

-----------------------------------------------------------------------------
\* The first turn of a new conversation; kind is what is sampled for it.
fresh_arrival(id, kind, now) ==
    [id |-> id, prompt |-> kind.prompt, max_tokens |-> kind.max_tokens,
     cached_prefix |-> 0, arrival |-> now, turn |-> 0]

\* The next turn of prev: its whole context, plus a new message.
maybe_return(prev, kind, now) ==
    LET context == prev.prompt + prev.max_tokens
    IN  [id |-> prev.id, prompt |-> context + kind.new_msg, max_tokens |-> kind.max_tokens,
         cached_prefix |-> context, arrival |-> now + kind.think_gap, turn |-> prev.turn + 1]

\* PendingReturns: ordered by the round of return, then by entry.
AddReturn(pend, r) ==
    LET before == {i \in DOMAIN pend : pend[i].arrival <= r.arrival}
    IN  InsertAt(pend, Cardinality(before) + 1, r)

Due(pend, now)    == Only(pend, {r \in Range(pend) : r.arrival <= now})
NotDue(pend, now) == Only(pend, {r \in Range(pend) : r.arrival > now})
=============================================================================
