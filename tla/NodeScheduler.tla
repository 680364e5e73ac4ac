----------------------------- MODULE NodeScheduler -----------------------------
(***************************************************************************)
(* One serving node: the resident decode pool of core/node_scheduler.cpp,  *)
(* fed by the waiting queue of runtime/runtime.cpp (QueueSource).          *)
(*                                                                         *)
(* A round of the node selects two disjoint micro-batches, advances their  *)
(* members by one token, retires those that are done and refills every     *)
(* hole with one waiting request of nearly the same length.  Requests      *)
(* arrive between rounds.                                                  *)
(***************************************************************************)
EXTENDS Steering

CONSTANTS
  Lengths,              \* prompt lengths of arriving requests
  DecodeLengths,        \* how many tokens an arriving request decodes
  ctx_balance,          \* the operating point
  decode_count_target,
  kv_operating_target,
  decode_pool,
  age_cap,
  MinIdeal,             \* the floor of the centering ideal (1000 in the code)
  MaxArrivals           \* bound: requests that ever arrive

ASSUME OperatingPoint ==
  /\ {ctx_balance, decode_count_target, kv_operating_target, decode_pool} \subseteq Nat \ {0}
  /\ {age_cap, MinIdeal, MaxArrivals} \subseteq Nat
  /\ Lengths \subseteq Nat /\ DecodeLengths \subseteq Nat
  /\ decode_pool >= 2 * decode_count_target

VARIABLES
  pool,       \* the resident decoders, NodeScheduler::pool_
  queue,      \* the waiting requests, QueueSource::queue_
  started,    \* whether a round has run
  arrived,    \* history: requests enqueued
  completed   \* history: the sum of what advance_round returned

vars == <<pool, queue, started, arrived, completed>>

op == [decode_count_target |-> decode_count_target,
       kv_operating_target |-> kv_operating_target,
       age_cap |-> age_cap]

Request == [prompt : Lengths, dtot : DecodeLengths]
Decoder == [prompt : Lengths, dtot : DecodeLengths, dec : Nat, wait : Nat]

LiveKv(q) == q.prompt + q.dec
AddLive(p, s, k) == s + LiveKv(p[k])
LiveSum(p) == Iterate(Len(p), LAMBDA s, k : AddLive(p, s, k), 0)

\* A footprint limit so generous that only an absurd request exceeds it.
node_cap_room == decode_pool * ctx_balance * 4

-------------------------------------------------------------------------------
(* QueueSource::pull_near: the waiting request nearest in length.  The     *)
(* node and its source change together, so admission works on a pair.      *)

Admissible(q) == {i \in DOMAIN q : q[i].prompt <= node_cap_room}

NearestWaiting(q, ideal) == FirstLeast(Admissible(q), LAMBDA i : Abs(q[i].prompt - ideal))

Fresh(r) == [prompt |-> r.prompt, dtot |-> r.dtot, dec |-> 0, wait |-> 0]

\* Mutations: the source keeps what it hands out; the "none" answer of an empty
\* source is admitted as if it were a request.
AdmitWithoutTaking(s, ideal) ==
  IF Admissible(s.queue) = {} THEN s
  ELSE [s EXCEPT !.pool = Append(@, Fresh(s.queue[NearestWaiting(s.queue, ideal)]))]
AdmitNone(s, ideal) ==
  IF Admissible(s.queue) = {}
  THEN [s EXCEPT !.pool = Append(@, Fresh([prompt |-> -1, dtot |-> 0]))]
  ELSE LET i == NearestWaiting(s.queue, ideal)
       IN  [pool |-> Append(s.pool, Fresh(s.queue[i])), queue |-> RemoveAt(s.queue, i)]

\* Pull one request near ideal into the pool, or leave both alone.
AdmitNear(s, ideal) ==
  IF Admissible(s.queue) = {}
  THEN s
  ELSE LET i == NearestWaiting(s.queue, ideal)
       IN  [pool |-> Append(s.pool, Fresh(s.queue[i])), queue |-> RemoveAt(s.queue, i)]

\* Mutation: every admission aims at the balance itself.
CenteringIdealWithoutSum(p) == ctx_balance

\* admit_centered: the length that brings the pool's mean back to ctx_balance.
CenteringIdeal(p) ==
  LET ideal == ctx_balance * (Len(p) + 1) - LiveSum(p)
  IN  IF ideal < MinIdeal THEN MinIdeal ELSE ideal

-------------------------------------------------------------------------------
(* The two micro-batches of a round share the mask of used members.        *)

Decoders(p) == [i \in DOMAIN p |-> [kv_length |-> LiveKv(p[i]), wait |-> p[i].wait]]

compose_decode_batch(p, used) == steer_decode_set(Decoders(p), used, op)

FirstBatch(p) == compose_decode_batch(p, {})

SecondBatch(p) ==
  IF Len(p) >= 2 * decode_count_target
  THEN compose_decode_batch(p, Range(FirstBatch(p)))
  ELSE <<>>

Advanced(p) ==
  LET used == Range(FirstBatch(p)) \cup Range(SecondBatch(p))
  IN  [i \in DOMAIN p |->
         IF i \in used
         THEN [p[i] EXCEPT !.dec = @ + 1, !.wait = 0]
         ELSE [p[i] EXCEPT !.wait = @ + 1]]

Done(q) == q.dec >= q.dtot

\* One pass over the pool parts the requests that stay from the holes that the
\* completed ones leave, which are their lengths.
RetireStep(p, s, k) ==
  IF Done(p[k])
  THEN [s EXCEPT !.holes = Append(@, p[k].prompt)]
  ELSE [s EXCEPT !.keep = Append(@, p[k])]
Retired(p) == Iterate(Len(p), LAMBDA s, k : RetireStep(p, s, k), [keep |-> <<>>, holes |-> <<>>])

\* Mutations: batched healing, every hole aiming at the mean of the holes; one
\* refill a round.
HealBatched(p, q, holes) ==
  LET sum == FoldLeft(LAMBDA a, b : a + b, 0, holes)
      mean == IF holes = <<>> THEN 0 ELSE sum \div Len(holes)
  IN  FoldLeft(AdmitNear, [pool |-> p, queue |-> q], [i \in DOMAIN holes |-> mean])
HealOnce(p, q, holes) ==
  IF holes = <<>> THEN [pool |-> p, queue |-> q]
  ELSE AdmitNear([pool |-> p, queue |-> q], holes[1])

\* One like-for-like admission for each hole.
HealStep(holes, s, k) == AdmitNear(s, holes[k])
Heal(p, q, holes) ==
  Iterate(Len(holes), LAMBDA s, k : HealStep(holes, s, k), [pool |-> p, queue |-> q])

-------------------------------------------------------------------------------
Init ==
  /\ pool = <<>>
  /\ queue = <<>>
  /\ started = FALSE
  /\ arrived = 0
  /\ completed = 0

\* QueueSource::enqueue
Enqueue(r) ==
  /\ arrived < MaxArrivals
  /\ queue' = Append(queue, r)
  /\ arrived' = arrived + 1
  /\ UNCHANGED <<pool, started, completed>>

\* PulsRuntime::warm_fill, which the runtime calls before its first round: it
\* stops when the pool is full or the queue has nothing to admit.
FillStep(s) ==
  IF Len(s.pool) < decode_pool THEN AdmitNear(s, CenteringIdeal(s.pool)) ELSE s
Filled(p, q) == Iterate(decode_pool, LAMBDA s, k : FillStep(s), [pool |-> p, queue |-> q])

WarmFill ==
  LET filled == Filled(pool, queue)
  IN  /\ ~started
      /\ pool' = filled.pool
      /\ queue' = filled.queue
      /\ UNCHANGED <<started, arrived, completed>>

\* NodeScheduler::advance_round
AdvanceRound ==
  LET retired == Retired(Advanced(pool))
      holes == retired.holes
      healed == Heal(retired.keep, queue, holes)
  IN  /\ pool' = healed.pool
      /\ queue' = healed.queue
      /\ completed' = completed + Len(holes)
      /\ started' = TRUE
      /\ UNCHANGED arrived

Next ==
  \/ \E r \in Request : Enqueue(r)
  \/ WarmFill
  \/ AdvanceRound

Spec == Init /\ [][Next]_vars /\ WF_vars(AdvanceRound)
-------------------------------------------------------------------------------
TypeOK ==
  /\ pool \in Seq(Decoder)
  /\ queue \in Seq(Request)
  /\ started \in BOOLEAN
  /\ arrived \in 0..MaxArrivals
  /\ completed \in Nat

\* No request is lost or served twice: every arrival is waiting, resident or
\* complete, and the pool never outgrows its size.  Retiring, healing and
\* warm filling (node_scheduler.cpp:80-107, runtime.cpp:75-84) all move
\* requests between the two vectors.
NoRequestLost ==
  /\ arrived = Len(queue) + Len(pool) + completed
  /\ Len(pool) <= decode_pool

\* No resident starves whatever the lengths are: at least one aged member, the
\* longest waiting one, enters each micro-batch (steering.cpp:24-32), and a full
\* pool forms two micro-batches a round.  So of those that have waited for w
\* rounds since anybody aged, two a round are served as long as they fill two
\* batches, which is for K rounds, and one a round from then on.
WorstOvertaking ==
  LET K == (decode_pool - 2 * decode_count_target + 2) \div 2
  IN  decode_pool - K - (IF age_cap = 0 THEN 1 ELSE 2)
WaitBounded == \A i \in DOMAIN pool : pool[i].wait <= age_cap + WorstOvertaking

\* What CONTRACT.md:93 and OPERATING_POINT.md:99 promise: whatever mix of
\* lengths the pool holds, a member is in one of the next age_cap+1 batches.
WaitAtMostAgeCapPlusOne == \A i \in DOMAIN pool : pool[i].wait <= age_cap + 1

\* The reference for one micro-batch b formed while the members of used are
\* taken (the termination checks of validation/test_steering.cpp:67-85): it
\* ends only at a target or with nobody left, it exceeds the KV target by no
\* more than its last member, and it passes over no member that is aged and
\* has waited longer than somebody it took.
AddKv(c, s, k) == s + LiveKv(c.p[c.b[k]])
Kv(p, b) ==
  LET c == [p |-> p, b |-> b] IN Iterate(Len(b), LAMBDA s, k : AddKv(c, s, k), 0)
GoodBatch(p, used, b) ==
  /\ Range(b) \cap used = {}
  /\ IsInjective(b)
  /\ \/ Len(b) = decode_count_target
     \/ Kv(p, b) >= kv_operating_target
     \/ DOMAIN p = used \cup Range(b)
  /\ Len(b) <= decode_count_target
  /\ b # <<>> => Kv(p, Front(b)) < kv_operating_target
  /\ \A i \in DOMAIN p \ (used \cup Range(b)), j \in Range(b) :
        p[i].wait >= age_cap => p[j].wait >= p[i].wait

\* Both micro-batches of a round are good, and no member is in both.
RoundIsWellFormed ==
  /\ GoodBatch(pool, {}, FirstBatch(pool))
  /\ Len(pool) >= 2 * decode_count_target =>
       GoodBatch(pool, Range(FirstBatch(pool)), SecondBatch(pool))

\* The pool shrinks only when nothing that fits is waiting: a completion is
\* always refilled otherwise (node_scheduler.cpp:94-105).
ShrinksOnlyWhenDry == [][Len(pool') < Len(pool) => Admissible(queue') = {}]_vars

\* Healing is like for like, never towards the mean (CONTRACT.md:95): when the
\* queue has a request of the same length for every hole, the round leaves the
\* mix of lengths in the pool as it was, long requests included.
CountOf(s, len) == Cardinality({i \in DOMAIN s : s[i].prompt = len})
HoleCount(len) == Cardinality({i \in DOMAIN pool : Done(Advanced(pool)[i]) /\ pool[i].prompt = len})
HealingKeepsTheMix ==
  [][(completed' # completed /\ \A len \in Lengths : HoleCount(len) <= CountOf(queue, len))
       => \A len \in Lengths : CountOf(pool', len) = CountOf(pool, len)]_vars

\* The shortest and the longest prompt, if there are such, have the balance between
\* them; the shortest meets the floor of the ideal, the longest the footprint limit.
LengthsSpanBalance ==
  \E lo, hi \in Lengths :
     /\ \A len \in Lengths : lo <= len /\ len <= hi
     /\ MinIdeal <= lo /\ lo <= ctx_balance /\ ctx_balance <= hi /\ hi <= node_cap_room

\* Centering admission keeps the pool's sum within half a gap between
\* neighbouring lengths of ctx_balance per member, as long as every length is
\* on offer to the last admission (node_scheduler.cpp:26-40).
Gaps == {pair[2] - pair[1] : pair \in {pair \in Lengths \X Lengths :
           pair[1] <= pair[2] /\ \A len \in Lengths : len <= pair[1] \/ len >= pair[2]}}
WarmFillCentres ==
  [][(/\ pool = <<>> /\ ~started /\ Len(pool') = decode_pool
      /\ \A len \in Lengths : CountOf(queue', len) > 0)
       => \A gap \in Gaps : (\A g \in Gaps : g <= gap) =>
            2 * Abs(LiveSum(pool') - ctx_balance * Len(pool')) <= gap]_vars
===============================================================================
