----------------------------- MODULE ClusterProofs -----------------------------
(***************************************************************************)
(* What the three cluster programs keep, for any number of nodes, any       *)
(* operating point, any workload and queues of any length: no request is    *)
(* lost or doubled, the bytes of a node's HBM stay within its capacity,     *)
(* nobody waits for a node beyond the spill cap, whoever is over the age    *)
(* cap leaves the global queue in the order of age, and a batch is smaller  *)
(* after its round only if nothing could have entered it; and in prepo,     *)
(* where the workload numbers everybody, each conversation is in one place  *)
(* and finds its own KV.                                                    *)
(*                                                                         *)
(* A program's round is a few counted loops over one record, the step       *)
(* record of ClusterState.  Each loop is an instance of LoopTheory, and the *)
(* invariants of the loops are the heart of these proofs.                   *)
(***************************************************************************)
EXTENDS Cluster, OperatorProofs

Nodes == 1..Z

Request == [id : Nat, prompt : Nat, max_tokens : Nat, cached_prefix : Nat, arrival : Nat, turn : Nat]
Decoder == [id : Nat, prompt : Nat, max_tokens : Nat, dec : Nat, wait : Nat, turn : Nat,
            cached_prefix : Nat]

\* The numbers among the constants.
LEMMA Numbers ==
    /\ Z \in Nat \ {0} /\ iters \in Nat \ {0} /\ op.decode_pool \in Nat \ {0}
    /\ op.decode_count_target \in Nat \ {0}
    /\ op.ctx_balance \in Nat /\ op.edge_band \in Nat /\ op.kv_operating_target \in Nat
    /\ op.node_min \in Nat
    /\ seed_backlog \in Nat /\ eligibility \in Nat /\ global_age_cap \in Nat
    /\ aff_spill_cap \in Nat /\ node_capacity \in Nat /\ evict_age \in Nat /\ gone_age \in Nat
    /\ op.decode_pool >= op.node_min
  BY ClusterAssumption DEF ClusterAssumption
-----------------------------------------------------------------------------
(* Pulls from the global queue.                                            *)

\* The forced choice is over the cap, and nobody in the queue is older.
LEMMA OldestAged ==
    ASSUME NEW R, NEW q \in Seq(R), \A i \in DOMAIN q : q[i].arrival \in Nat,
           NEW rounds \in Nat, NEW age_cap \in Nat, Overdue(q, rounds, age_cap) # {}
    PROVE  /\ find_oldest_aged(q, rounds, age_cap) \in Overdue(q, rounds, age_cap)
           /\ \A j \in DOMAIN q : q[find_oldest_aged(q, rounds, age_cap)].arrival <= q[j].arrival
  <1> DEFINE C == Overdue(q, rounds, age_cap)
             costs == [i \in C |-> q[i].arrival]
             oldest == find_oldest_aged(q, rounds, age_cap)
  <1>1. C \subseteq DOMAIN q /\ C \subseteq Nat /\ C # {}
    BY DEF Overdue
  <1>2. costs \in [C -> Nat]
    BY <1>1
  <1>3. \E i \in C : \A j \in C :
            q[i].arrival < q[j].arrival \/ (q[i].arrival = q[j].arrival /\ i <= j)
    <2>1. PICK i \in C : \A j \in C : costs[i] < costs[j] \/ (costs[i] = costs[j] /\ i <= j)
      <3> HIDE DEF costs, C
      <3> QED BY <1>1, <1>2, LeastIndexExists
    <2>2. \A j \in C : costs[j] = q[j].arrival
      OBVIOUS
    <2> QED BY <2>1, <2>2
  <1>4. /\ oldest \in C
        /\ \A j \in C : \/ q[oldest].arrival < q[j].arrival
                        \/ q[oldest].arrival = q[j].arrival /\ oldest <= j
    BY <1>3 DEF find_oldest_aged, FirstLeast
  <1>5. ASSUME NEW j \in DOMAIN q PROVE q[oldest].arrival <= q[j].arrival
    <2>1. q[oldest].arrival \in Nat /\ q[j].arrival \in Nat
      BY <1>1, <1>4
    <2>2. CASE j \in C
      BY <1>4, <2>1, <2>2
    <2>3. CASE j \notin C
      <3>1. rounds - q[oldest].arrival > age_cap
        BY <1>4 DEF Overdue
      <3>2. ~(rounds - q[j].arrival > age_cap)
        BY <2>3 DEF Overdue
      <3> QED BY <2>1, <3>1, <3>2
    <2> QED BY <2>2, <2>3
  <1> QED BY <1>4, <1>5

\* A removal takes one place out: the last request moves there, all others stay
\* where they are, so that nobody is lost and nobody is doubled.
THEOREM RemovalKeepsTheRest ==
    ASSUME NEW R, NEW q \in Seq(R), NEW i \in DOMAIN q
    PROVE  /\ Without(q, i) \in Seq(R)
           /\ Len(Without(q, i)) = Len(q) - 1
           /\ \A j \in 1..(Len(q) - 1) : Without(q, i)[j] = IF j = i THEN q[Len(q)] ELSE q[j]
  <1>1. Len(q) \in Nat /\ i \in 1..Len(q)
    OBVIOUS
  <1>2. CASE i = Len(q)
    BY <1>1, <1>2 DEF Without, Front
  <1>3. CASE i # Len(q)
    <2> DEFINE moved == [q EXCEPT ![i] = Last(q)]
    <2>1. moved \in Seq(R) /\ Len(moved) = Len(q)
      BY <1>1 DEF Last
    <2>2. \A j \in 1..Len(q) : moved[j] = IF j = i THEN q[Len(q)] ELSE q[j]
      BY <1>1 DEF Last
    <2>3. Without(q, i) = SubSeq(moved, 1, Len(moved) - 1)
      BY <1>3 DEF Without, Front
    <2> HIDE DEF moved
    <2> QED BY <1>1, <2>1, <2>2, <2>3
  <1> QED BY <1>2, <1>3

\* While somebody is over the age cap, a pull yields a request over the cap, of
\* which nobody in the queue is older, whatever its length and however earlier
\* removals have shuffled the queue; the queue that stays is short of just it.
THEOREM PullSlotForcesOldest ==
    ASSUME NEW R, NEW q \in Seq(R), \A i \in DOMAIN q : q[i].arrival \in Nat,
           NEW ideal, NEW room, NEW rounds \in Nat, NEW age_cap \in Nat,
           Overdue(q, rounds, age_cap) # {}
    PROVE  LET pulled == pull_slot(q, ideal, room, rounds, age_cap)
           IN  /\ \E i \in DOMAIN q : pulled.r = q[i] /\ pulled.q = Without(q, i)
               /\ rounds - pulled.r.arrival > age_cap
               /\ \A j \in DOMAIN q : pulled.r.arrival <= q[j].arrival
  <1> DEFINE oldest == find_oldest_aged(q, rounds, age_cap)
  <1>1. oldest \in Overdue(q, rounds, age_cap) /\ \A j \in DOMAIN q : q[oldest].arrival <= q[j].arrival
    BY OldestAged
  <1>2. oldest \in DOMAIN q /\ rounds - q[oldest].arrival > age_cap
    BY <1>1 DEF Overdue
  <1>3. pull_slot(q, ideal, room, rounds, age_cap) = [r |-> q[oldest], q |-> Without(q, oldest)]
    BY DEF pull_slot, take
  <1> HIDE DEF oldest
  <1> QED BY <1>1, <1>2, <1>3

\* What a removal leaves, and what it takes, is what the queue held.
LEMMA RemovalRange ==
    ASSUME NEW R, NEW q \in Seq(R), NEW i \in DOMAIN q
    PROVE  /\ Range(Without(q, i)) \subseteq Range(q)
           /\ Range(q) = Range(Without(q, i)) \cup {q[i]}
           /\ q[i] \in R /\ Len(q) \in Nat \ {0}
  <1> DEFINE w == Without(q, i)
             n == Len(q)
  <1>1. /\ w \in Seq(R) /\ Len(w) = n - 1 /\ n \in Nat /\ i \in 1..n
        /\ \A j \in 1..(n - 1) : w[j] = IF j = i THEN q[n] ELSE q[j]
    <2>1. n \in Nat /\ i \in 1..n
      OBVIOUS
    <2>2. /\ Without(q, i) \in Seq(R) /\ Len(Without(q, i)) = Len(q) - 1
          /\ \A j \in 1..(Len(q) - 1) : Without(q, i)[j] = IF j = i THEN q[Len(q)] ELSE q[j]
      BY RemovalKeepsTheRest
    <2> QED BY <2>1, <2>2
  <1>2. DOMAIN w = 1..(n - 1) /\ DOMAIN q = 1..n /\ (\A j \in 1..n : q[j] \in R)
    BY <1>1
  <1> HIDE DEF w, n
  <1>3. ASSUME NEW x \in Range(w) PROVE x \in Range(q)
    <2>1. PICK j \in 1..(n - 1) : x = w[j]
      BY <1>2 DEF Range
    <2>2. j \in 1..n /\ n \in 1..n
      BY <1>1, <2>1
    <2> QED BY <1>1, <1>2, <2>1, <2>2 DEF Range
  <1>4. ASSUME NEW x \in Range(q) PROVE x \in Range(w) \cup {q[i]}
    <2>1. PICK j \in 1..n : x = q[j]
      BY <1>2 DEF Range
    <2>2. CASE j = i
      BY <2>1, <2>2
    <2>3. CASE j # i /\ j # n
      <3>1. j \in 1..(n - 1) /\ w[j] = x
        BY <1>1, <2>1, <2>3
      <3> QED BY <1>2, <3>1 DEF Range
    <2>4. CASE j # i /\ j = n
      <3>1. i \in 1..(n - 1) /\ w[i] = x
        BY <1>1, <2>1, <2>4
      <3> QED BY <1>2, <3>1 DEF Range
    <2> QED BY <2>2, <2>3, <2>4
  <1>5. q[i] \in Range(q) /\ q[i] \in R /\ n \in Nat \ {0}
    BY <1>1, <1>2 DEF Range
  <1> QED BY <1>3, <1>4, <1>5 DEF w, n

\* A pull by length finds a request unless none fits.
LEMMA PullNearTakes ==
    ASSUME NEW q \in Seq(Request), NEW ideal, ideal[1] \in Int, ideal[2] \in Int, NEW room
    PROVE  LET pulled == pull_near(q, ideal, room)
           IN  /\ Fitting(q, room) = {} => pulled = [r |-> None, q |-> q]
               /\ Fitting(q, room) # {} => \E i \in Fitting(q, room) : pulled = take(q, i)
  <1> DEFINE C == Fitting(q, room)
             cost(i) == Abs(q[i].prompt * ideal[2] - ideal[1])
             costs == [i \in C |-> cost(i)]
             near == find_near(q, ideal, room)
  <1>1. CASE C = {}
    BY <1>1 DEF pull_near
  <1>2. CASE C # {}
    <2>1. C \subseteq DOMAIN q /\ C \subseteq Nat
      BY DEF Fitting
    <2>2. \A i \in C : cost(i) \in Nat
      <3> TAKE i \in C
      <3>1. q[i] \in Request
        BY <2>1, SeqElements
      <3>2. q[i].prompt \in Nat
        BY <3>1 DEF Request
      <3> DEFINE x == q[i].prompt
                 y == x * ideal[2] - ideal[1]
      <3>3. y \in Int
        <4> HIDE DEF x
        <4> QED BY <3>2 DEF x
      <3> HIDE DEF y
      <3>4. Abs(y) \in Nat
        BY <3>3 DEF Abs
      <3> QED BY <3>4 DEF y
    <2> HIDE DEF C, cost
    <2>3. costs \in [C -> Nat] /\ \A i \in C : costs[i] = cost(i)
      BY <2>2
    <2>4. PICK i \in C : \A j \in C : costs[i] < costs[j] \/ (costs[i] = costs[j] /\ i <= j)
      <3> HIDE DEF costs
      <3> QED BY <1>2, <2>1, <2>3, LeastIndexExists
    <2>5. \A j \in C : cost(i) < cost(j) \/ (cost(i) = cost(j) /\ i <= j)
      BY <2>3, <2>4
    <2>6. near \in C
      BY <2>5 DEF find_near, FirstLeast, C, cost
    <2>7. pull_near(q, ideal, room) = take(q, near)
      BY <1>2 DEF pull_near, C
    <2> HIDE DEF near
    <2> QED BY <1>2, <2>6, <2>7 DEF C
  <1> QED BY <1>1, <1>2

\* With the age cap, unless none fits and none is overdue; one that is taken while
\* somebody is overdue is as old as anybody.
LEMMA PullSlotTakes ==
    ASSUME NEW q \in Seq(Request), NEW ideal, ideal[1] \in Int, ideal[2] \in Int, NEW room,
           NEW rounds \in Nat, NEW age_cap \in Nat,
           ~(Fitting(q, room) = {} /\ Overdue(q, rounds, age_cap) = {})
    PROVE  \E i \in DOMAIN q :
               /\ pull_slot(q, ideal, room, rounds, age_cap) = take(q, i)
               /\ Overdue(q, rounds, age_cap) # {} => \A j \in DOMAIN q : q[i].arrival <= q[j].arrival
  <1> DEFINE oldest == find_oldest_aged(q, rounds, age_cap)
  <1>1. \A i \in DOMAIN q : q[i].arrival \in Nat
    <2> TAKE i \in DOMAIN q
    <2>1. q[i] \in Request
      BY SeqElements
    <2> QED BY <2>1 DEF Request
  <1>2. CASE Overdue(q, rounds, age_cap) # {}
    <2>1. oldest \in Overdue(q, rounds, age_cap) /\ \A j \in DOMAIN q : q[oldest].arrival <= q[j].arrival
      BY <1>1, <1>2, OldestAged
    <2>2. oldest \in DOMAIN q /\ pull_slot(q, ideal, room, rounds, age_cap) = take(q, oldest)
      BY <1>2, <2>1 DEF pull_slot, Overdue
    <2> HIDE DEF oldest
    <2> QED BY <1>2, <2>1, <2>2
  <1>3. CASE Overdue(q, rounds, age_cap) = {}
    <2>1. pull_slot(q, ideal, room, rounds, age_cap) = pull_near(q, ideal, room)
      BY <1>3 DEF pull_slot
    <2>2. Fitting(q, room) \subseteq DOMAIN q
      BY DEF Fitting
    <2> QED BY <1>3, <2>1, <2>2, PullNearTakes
  <1> QED BY <1>2, <1>3
-----------------------------------------------------------------------------
(* The step of a batch: its record, and the moves it is made of.           *)

StepType(s) ==
    /\ s = [pool |-> s.pool, queue |-> s.queue, aff |-> s.aff, pend |-> s.pend,
            cache |-> s.cache, next_id |-> s.next_id]
    /\ s.pool \in Seq(Decoder) /\ s.queue \in Seq(Request)
    /\ s.aff \in [Nodes -> Seq(Request)] /\ s.pend \in Seq(Request)
    /\ Accounted(s.cache, Nodes) /\ DOMAIN s.cache.idx \subseteq Nat
    /\ s.next_id \in Nat

LEMMA RequestTypes ==
    ASSUME NEW r \in Request
    PROVE  /\ r.id \in Nat /\ r.prompt \in Nat /\ r.max_tokens \in Nat /\ r.cached_prefix \in Nat
           /\ r.arrival \in Nat /\ r.turn \in Nat /\ r # None
  <1>1. r.id \in Nat /\ r.prompt \in Nat /\ r.max_tokens \in Nat /\ r.cached_prefix \in Nat
        /\ r.arrival \in Nat /\ r.turn \in Nat
    BY DEF Request
  <1>2. None.id = -1
    BY DEF None
  <1> QED BY <1>1, <1>2

LEMMA DecoderTypes ==
    ASSUME NEW q \in Decoder
    PROVE  /\ q.id \in Nat /\ q.prompt \in Nat /\ q.max_tokens \in Nat /\ q.dec \in Nat
           /\ q.wait \in Nat /\ q.turn \in Nat /\ q.cached_prefix \in Nat
  BY DEF Decoder

\* A return joins the pending ones.
LEMMA ReturnAdded ==
    ASSUME NEW s \in Seq(Request), NEW r \in Request
    PROVE  /\ AddReturn(s, r) \in Seq(Request) /\ Len(AddReturn(s, r)) = Len(s) + 1
           /\ \E i \in 1..(Len(s) + 1) : AddReturn(s, r) = InsertAt(s, i, r)
  <1> DEFINE before == {i \in DOMAIN s : s[i].arrival <= r.arrival}
             i == Cardinality(before) + 1
  <1>1. Len(s) \in Nat /\ before \in SUBSET (1..Len(s))
    OBVIOUS
  <1>2. IsFiniteSet(1..Len(s)) /\ Cardinality(1..Len(s)) = Len(s)
    BY <1>1, FS_Interval
  <1> HIDE DEF before
  <1>3. Cardinality(before) \in Nat /\ Cardinality(before) <= Len(s)
    BY <1>1, <1>2, FS_Subset, FS_CardinalityType
  <1>4. i \in 1..(Len(s) + 1)
    BY <1>1, <1>3
  <1>5. AddReturn(s, r) = InsertAt(s, i, r)
    BY DEF AddReturn, before
  <1> HIDE DEF i
  <1> QED BY <1>4, <1>5, Inserted

\* What the workload makes are requests.
LEMMA Made ==
    /\ \A id, n \in Nat, kind \in FirstTurn : fresh_arrival(id, kind, n) \in Request
    /\ \A q \in Decoder, n \in Nat, kind \in LaterTurn : maybe_return(q, kind, n) \in Request
    /\ \A r \in Request : NewDecoder(r) \in Decoder
  BY DEF fresh_arrival, maybe_return, NewDecoder, Request, Decoder, FirstTurn, LaterTurn

\* s with r in the batch, whatever became of the places r came from.
Entered(s, t, r) ==
    /\ StepType(t)
    /\ t.pool = Append(s.pool, NewDecoder(r)) /\ Len(t.pool) = Len(s.pool) + 1
    /\ t.cache = AdmitTTFT(s.cache, r)
    /\ t.cache.used = s.cache.used /\ t.cache.budget = s.cache.budget
    /\ t.pend = s.pend /\ t.next_id = s.next_id

LEMMA EnterKeeps ==
    ASSUME NEW s, StepType(s), NEW r \in Request
    PROVE  /\ Entered(s, Enter(s, r), r)
           /\ Enter(s, r).queue = s.queue /\ Enter(s, r).aff = s.aff
  <1> DEFINE t == Enter(s, r)
             d == AdmitTTFT(s.cache, r)
             p == Append(s.pool, NewDecoder(r))
  <1>1. t = [pool |-> p, queue |-> s.queue, aff |-> s.aff, pend |-> s.pend, cache |-> d,
             next_id |-> s.next_id]
    <2>1. s = [pool |-> s.pool, queue |-> s.queue, aff |-> s.aff, pend |-> s.pend,
               cache |-> s.cache, next_id |-> s.next_id]
      BY DEF StepType
    <2> DEFINE u == [s EXCEPT !.pool = p]
    <2>2. u = [pool |-> p, queue |-> s.queue, aff |-> s.aff, pend |-> s.pend,
               cache |-> s.cache, next_id |-> s.next_id]
      BY <2>1
    <2>3. t = [u EXCEPT !.cache = d]
      BY <2>1 DEF Enter
    <2> HIDE DEF u, d, p
    <2> QED BY <2>2, <2>3
  <1>2. /\ Accounted(d, Nodes) /\ d.used = s.cache.used /\ d.budget = s.cache.budget
        /\ DOMAIN d.idx = DOMAIN s.cache.idx
    <2>1. Accounted(s.cache, Nodes)
      BY DEF StepType
    <2>2. CASE r.turn > 0
      <3>1. d = Touched(s.cache, r.id)
        BY <2>2 DEF AdmitTTFT
      <3> HIDE DEF d
      <3> QED BY <2>1, <3>1, TouchedAccounts
    <2>3. CASE ~(r.turn > 0)
      <3>1. d = s.cache
        BY <2>3 DEF AdmitTTFT
      <3> QED BY <2>1, <3>1
    <2> QED BY <2>2, <2>3
  <1>3. p \in Seq(Decoder) /\ Len(p) = Len(s.pool) + 1
    <2>1. NewDecoder(r) \in Decoder /\ s.pool \in Seq(Decoder)
      BY Made DEF StepType
    <2> QED BY <2>1, Appended
  <1> HIDE DEF d, p, t
  <1>4. StepType(t)
    BY <1>1, <1>2, <1>3 DEF StepType
  <1> QED BY <1>1, <1>2, <1>3, <1>4 DEF Entered, t, d, p

\* The request at i of the queue enters.
FromQueue(s, t, i) ==
    /\ Entered(s, t, s.queue[i])
    /\ t.queue = Without(s.queue, i) /\ Len(t.queue) = Len(s.queue) - 1
    /\ t.aff = s.aff

\* The request at i of the waiters of z enters.
FromWaiters(s, t, z, i) ==
    /\ Entered(s, t, s.aff[z][i])
    /\ t.aff = [s.aff EXCEPT ![z] = Without(s.aff[z], i)]
    /\ Len(t.aff[z]) = Len(s.aff[z]) - 1
    /\ t.queue = s.queue

LEMMA PulledEnters ==
    ASSUME NEW s, StepType(s)
    PROVE  /\ EnterPulled(s, [r |-> None, q |-> s.queue]) = s
           /\ \A i \in DOMAIN s.queue : FromQueue(s, EnterPulled(s, take(s.queue, i)), i)
  <1>1. EnterPulled(s, [r |-> None, q |-> s.queue]) = s
    BY DEF EnterPulled
  <1>2. ASSUME NEW i \in DOMAIN s.queue PROVE FromQueue(s, EnterPulled(s, take(s.queue, i)), i)
    <2> DEFINE r == s.queue[i]
               w == Without(s.queue, i)
               u == [s EXCEPT !.queue = w]
    <2>0. s.queue \in Seq(Request)
      BY DEF StepType
    <2>1. r \in Request /\ w \in Seq(Request) /\ Len(w) = Len(s.queue) - 1
      BY <2>0, RemovalKeepsTheRest, SeqElements
    <2>2. EnterPulled(s, take(s.queue, i)) = Enter(u, r)
      BY <2>1, RequestTypes DEF EnterPulled, take
    <2>3. u = [pool |-> s.pool, queue |-> w, aff |-> s.aff, pend |-> s.pend,
               cache |-> s.cache, next_id |-> s.next_id]
      <3>1. s = [pool |-> s.pool, queue |-> s.queue, aff |-> s.aff, pend |-> s.pend,
                 cache |-> s.cache, next_id |-> s.next_id]
        BY DEF StepType
      <3> HIDE DEF w
      <3> QED BY <3>1
    <2> HIDE DEF w, u, r
    <2>4. StepType(u)
      BY <2>1, <2>3 DEF StepType
    <2>5. Entered(u, Enter(u, r), r) /\ Enter(u, r).queue = u.queue /\ Enter(u, r).aff = u.aff
      BY <2>1, <2>4, EnterKeeps
    <2>6. Entered(s, Enter(u, r), r) /\ Enter(u, r).queue = w /\ Enter(u, r).aff = s.aff
      BY <2>3, <2>5 DEF Entered
    <2> QED BY <2>1, <2>2, <2>6 DEF FromQueue, w, r
  <1> QED BY <1>1, <1>2

\* What a pull by length, and one with the age cap, does to a step.
LEMMA NearEnters ==
    ASSUME NEW s, StepType(s), NEW ideal, ideal[1] \in Int, ideal[2] \in Int
    PROVE  LET t == EnterPulled(s, pull_near(s.queue, ideal, cap_room))
           IN  \/ t = s /\ Fitting(s.queue, cap_room) = {}
               \/ /\ Fitting(s.queue, cap_room) # {}
                  /\ \E i \in DOMAIN s.queue : FromQueue(s, t, i)
  <1>1. s.queue \in Seq(Request)
    BY DEF StepType
  <1> DEFINE pulled == pull_near(s.queue, ideal, cap_room)
  <1>2. CASE Fitting(s.queue, cap_room) = {}
    <2>1. pulled = [r |-> None, q |-> s.queue]
      BY <1>1, <1>2, PullNearTakes
    <2> HIDE DEF pulled
    <2>2. EnterPulled(s, pulled) = s
      BY <2>1, PulledEnters
    <2> QED BY <1>2, <2>2 DEF pulled
  <1>3. CASE Fitting(s.queue, cap_room) # {}
    <2>1. PICK i \in Fitting(s.queue, cap_room) : pulled = take(s.queue, i)
      BY <1>1, <1>3, PullNearTakes
    <2>2. i \in DOMAIN s.queue
      BY <2>1 DEF Fitting
    <2> HIDE DEF pulled
    <2>3. FromQueue(s, EnterPulled(s, pulled), i)
      BY <2>1, <2>2, PulledEnters
    <2> QED BY <1>3, <2>2, <2>3 DEF pulled
  <1> QED BY <1>2, <1>3

\* Nothing in q may enter a batch at the round n.
NoneFor(q, n) == Fitting(q, cap_room) = {} /\ Overdue(q, n, global_age_cap) = {}

LEMMA SlotEnters ==
    ASSUME NEW s, StepType(s), NEW ideal, ideal[1] \in Int, ideal[2] \in Int, NEW n \in Nat
    PROVE  LET t == EnterPulled(s, pull_slot(s.queue, ideal, cap_room, n, global_age_cap))
           IN  \/ t = s /\ NoneFor(s.queue, n)
               \/ /\ ~NoneFor(s.queue, n)
                  /\ \E i \in DOMAIN s.queue :
                      /\ FromQueue(s, t, i)
                      /\ Overdue(s.queue, n, global_age_cap) # {} =>
                             \A j \in DOMAIN s.queue : s.queue[i].arrival <= s.queue[j].arrival
  <1>1. s.queue \in Seq(Request) /\ global_age_cap \in Nat
    BY Numbers DEF StepType
  <1> DEFINE pulled == pull_slot(s.queue, ideal, cap_room, n, global_age_cap)
  <1>2. CASE NoneFor(s.queue, n)
    <2>1. pulled = [r |-> None, q |-> s.queue]
      BY <1>1, <1>2 DEF NoneFor, pull_slot, pull_near
    <2> HIDE DEF pulled
    <2>2. EnterPulled(s, pulled) = s
      BY <2>1, PulledEnters
    <2> QED BY <1>2, <2>2 DEF pulled
  <1>3. CASE ~NoneFor(s.queue, n)
    <2>0. ~(Fitting(s.queue, cap_room) = {} /\ Overdue(s.queue, n, global_age_cap) = {})
      BY <1>3 DEF NoneFor
    <2>1. PICK i \in DOMAIN s.queue :
              /\ pulled = take(s.queue, i)
              /\ Overdue(s.queue, n, global_age_cap) # {} =>
                     \A j \in DOMAIN s.queue : s.queue[i].arrival <= s.queue[j].arrival
      BY <1>1, <2>0, PullSlotTakes
    <2> HIDE DEF pulled
    <2>3. FromQueue(s, EnterPulled(s, pulled), i)
      BY <2>1, PulledEnters
    <2> QED BY <1>3, <2>1, <2>3 DEF pulled
  <1> QED BY <1>2, <1>3

\* A waiter of z enters, if there is one.
LEMMA WaiterEnters ==
    ASSUME NEW s, StepType(s), NEW z \in Nodes, s.aff[z] # <<>>
    PROVE  \E i \in DOMAIN s.aff[z] : FromWaiters(s, EnterWaiter(s, z), z, i)
  <1> DEFINE a == s.aff[z]
             oldest == FirstLeast(DOMAIN a, LAMBDA i : a[i].arrival)
             costs == [i \in DOMAIN a |-> a[i].arrival]
  <1>0. s.aff \in [Nodes -> Seq(Request)] /\ a \in Seq(Request)
    BY DEF StepType
  <1>1. /\ DOMAIN a \subseteq Nat /\ DOMAIN a # {}
        /\ \A i \in DOMAIN a : a[i] \in Request /\ a[i].arrival \in Nat
    <2>1. a # <<>>
      OBVIOUS
    <2> HIDE DEF a
    <2>2. \A i \in DOMAIN a : a[i] \in Request /\ a[i].arrival \in Nat
      BY <1>0, SeqElements, RequestTypes
    <2> QED BY <1>0, <2>1, <2>2
  <1>2. costs \in [DOMAIN a -> Nat] /\ \A i \in DOMAIN a : costs[i] = a[i].arrival
    <2> HIDE DEF a
    <2> QED BY <1>1
  <1>3. PICK m \in DOMAIN a : \A j \in DOMAIN a : costs[m] < costs[j] \/ (costs[m] = costs[j] /\ m <= j)
    <2> HIDE DEF costs, a
    <2> QED BY <1>1, <1>2, LeastIndexExists
  <1>4. oldest \in DOMAIN a
    <2> HIDE DEF costs, a
    <2>1. \A j \in DOMAIN a : a[m].arrival < a[j].arrival \/ (a[m].arrival = a[j].arrival /\ m <= j)
      BY <1>2, <1>3
    <2> QED BY <2>1 DEF FirstLeast
  <1> DEFINE w == Without(a, oldest)
             r == a[oldest]
             f == [s.aff EXCEPT ![z] = w]
             u == [s EXCEPT !.aff[z] = w]
  <1>5. w \in Seq(Request) /\ Len(w) = Len(a) - 1 /\ r \in Request
    <2> HIDE DEF a, oldest
    <2> QED BY <1>0, <1>1, <1>4, RemovalKeepsTheRest
  <1>6. EnterWaiter(s, z) = Enter(u, r)
    BY DEF EnterWaiter, take
  <1>7. u = [pool |-> s.pool, queue |-> s.queue, aff |-> f, pend |-> s.pend,
             cache |-> s.cache, next_id |-> s.next_id]
    <2>1. s = [pool |-> s.pool, queue |-> s.queue, aff |-> s.aff, pend |-> s.pend,
               cache |-> s.cache, next_id |-> s.next_id]
      BY DEF StepType
    <2> HIDE DEF w
    <2>2. u = [s EXCEPT !.aff = f]
      BY <2>1
    <2> HIDE DEF u, f
    <2> QED BY <2>1, <2>2
  <1>8. f \in [Nodes -> Seq(Request)] /\ f[z] = w
    <2> HIDE DEF w
    <2> QED BY <1>0, <1>5
  <1> HIDE DEF w, f, u, r, oldest
  <1>9. StepType(u)
    BY <1>7, <1>8 DEF StepType
  <1>10. Entered(u, Enter(u, r), r) /\ Enter(u, r).queue = u.queue /\ Enter(u, r).aff = u.aff
    BY <1>5, <1>9, EnterKeeps
  <1>11. Entered(s, Enter(u, r), r) /\ Enter(u, r).queue = s.queue /\ Enter(u, r).aff = f
    BY <1>7, <1>10 DEF Entered
  <1>12. FromWaiters(s, Enter(u, r), z, oldest)
    BY <1>5, <1>8, <1>11 DEF FromWaiters, w, f, r
  <1> QED BY <1>4, <1>6, <1>12
-----------------------------------------------------------------------------
(* Feeding a batch: some requests of s have entered, t is what is left.     *)

Waiters(a) == Sum([z \in 1..Z |-> Len(a[z])])

\* A node's waiters count as many as they are.
LEMMA WaitersChange ==
    ASSUME NEW a \in [Nodes -> Seq(Request)], NEW b \in [Nodes -> Seq(Request)], NEW z \in Nodes,
           \A y \in Nodes : y # z => b[y] = a[y]
    PROVE  /\ Waiters(a) \in Nat /\ Waiters(b) \in Nat
           /\ Waiters(b) + Len(a[z]) = Waiters(a) + Len(b[z])
  <1> DEFINE u == [y \in 1..Z |-> Len(a[y])]
             v == [y \in 1..Z |-> Len(b[y])]
  <1>1. /\ \A y \in 1..Z : u[y] \in Nat /\ v[y] \in Nat
        /\ \A y \in 1..Z : y # z => v[y] = u[y]
        /\ u[z] = Len(a[z]) /\ v[z] = Len(b[z])
        /\ Z \in Nat /\ z \in 1..Z
    BY Numbers DEF Nodes
  <1>2. Len(u) = Z /\ Len(v) = Z
    BY Numbers
  <1>3. Waiters(a) = SumTo(u, Z) /\ Waiters(b) = SumTo(v, Z)
    <2>1. Waiters(a) = Sum(u) /\ Waiters(b) = Sum(v)
      BY DEF Waiters
    <2> HIDE DEF u, v
    <2> QED BY <1>2, <2>1, SumIsSumTo
  <1> HIDE DEF u, v
  <1>4. SumTo(v, Z) + u[z] = SumTo(u, Z) + v[z]
    BY <1>1, SumChanges
  <1>5. SumTo(u, Z) \in Nat /\ SumTo(v, Z) \in Nat
    BY <1>1, SumOfNumbers
  <1> QED BY <1>1, <1>3, <1>4, <1>5

Fed(s, t) ==
    /\ StepType(t)
    /\ Len(t.pool) + Len(t.queue) + Waiters(t.aff) = Len(s.pool) + Len(s.queue) + Waiters(s.aff)
    /\ Len(s.pool) <= Len(t.pool)
    /\ t.pend = s.pend
    /\ \A z \in Nodes : Range(t.aff[z]) \subseteq Range(s.aff[z])
    /\ t.cache.used = s.cache.used /\ t.cache.budget = s.cache.budget

\* While somebody overdue is left in q2, whoever left q has waited at least as long.
Forced(q, q2) ==
    \A i \in Overdue(q2, now, global_age_cap) : \A r \in Range(q) \ Range(q2) :
        r.arrival <= q2[i].arrival

LEMMA FedNothing ==
    ASSUME NEW s, StepType(s)
    PROVE  Fed(s, s) /\ Forced(s.queue, s.queue)
  BY DEF Fed, Forced, StepType

\* The sizes of a step are numbers.
LEMMA Sizes ==
    ASSUME NEW s, StepType(s)
    PROVE  /\ Len(s.pool) \in Nat /\ Len(s.queue) \in Nat /\ Len(s.pend) \in Nat
           /\ Waiters(s.aff) \in Nat
           /\ \A z \in Nodes : s.aff[z] \in Seq(Request) /\ Len(s.aff[z]) \in Nat
  <1>1. s.aff \in [Nodes -> Seq(Request)] /\ 1 \in Nodes
    <2>1. s.aff \in [Nodes -> Seq(Request)]
      BY DEF StepType
    <2>2. 1 \in Nodes
      BY Numbers DEF Nodes
    <2> QED BY <2>1, <2>2
  <1>2. Waiters(s.aff) \in Nat
    BY <1>1, WaitersChange
  <1>3. s.pool \in Seq(Decoder) /\ s.queue \in Seq(Request) /\ s.pend \in Seq(Request)
    BY DEF StepType
  <1> QED BY <1>1, <1>2, <1>3

\* A request from the queue.
LEMMA FedFromQueue ==
    ASSUME NEW s, NEW h, NEW t, Fed(s, h), NEW i \in DOMAIN h.queue, FromQueue(h, t, i),
           Len(s.pool) \in Nat, Len(s.queue) \in Nat, Waiters(s.aff) \in Nat
    PROVE  Fed(s, t) /\ Len(t.pool) = Len(h.pool) + 1
  <1>1. StepType(h) /\ StepType(t)
    BY DEF Fed, FromQueue, Entered
  <1>2. /\ Len(t.pool) = Len(h.pool) + 1 /\ Len(t.queue) = Len(h.queue) - 1 /\ t.aff = h.aff
        /\ t.pend = h.pend /\ t.cache.used = h.cache.used /\ t.cache.budget = h.cache.budget
    BY DEF FromQueue, Entered
  <1>3. Len(t.pool) + Len(t.queue) + Waiters(t.aff) = Len(s.pool) + Len(s.queue) + Waiters(s.aff)
    <2> DEFINE a == Len(h.pool)
               b == Len(h.queue)
               w == Waiters(h.aff)
               n == Len(s.pool) + Len(s.queue) + Waiters(s.aff)
    <2>1. a \in Nat /\ b \in Nat /\ w \in Nat /\ a + b + w = n
      BY <1>1, Sizes DEF Fed
    <2> HIDE DEF a, b, w, n
    <2>2. (a + 1) + (b - 1) + w = n
      BY <2>1
    <2> QED BY <1>2, <2>2 DEF a, b, w, n
  <1>4. Len(s.pool) <= Len(h.pool) /\ Len(h.pool) \in Nat
    BY <1>1, Sizes DEF Fed
  <1>5. Len(s.pool) <= Len(t.pool)
    <2> DEFINE a == Len(h.pool)
               b == Len(t.pool)
               d == Len(s.pool)
    <2>1. a \in Nat /\ d \in Nat /\ b = a + 1 /\ d <= a
      BY <1>2, <1>4
    <2> HIDE DEF a, b, d
    <2>2. d <= b
      BY <2>1
    <2> QED BY <2>2 DEF b, d
  <1> QED BY <1>1, <1>2, <1>3, <1>5 DEF Fed

\* A request from the waiters of a node.
LEMMA FedFromWaiters ==
    ASSUME NEW s, NEW h, NEW t, Fed(s, h), NEW z \in Nodes, NEW i \in DOMAIN h.aff[z],
           FromWaiters(h, t, z, i),
           Len(s.pool) \in Nat, Len(s.queue) \in Nat, Waiters(s.aff) \in Nat
    PROVE  Fed(s, t) /\ Len(t.pool) = Len(h.pool) + 1
  <1>1. StepType(h) /\ StepType(t)
    BY DEF Fed, FromWaiters, Entered
  <1>2. /\ Len(t.pool) = Len(h.pool) + 1 /\ t.queue = h.queue
        /\ Len(t.aff[z]) = Len(h.aff[z]) - 1 /\ t.aff = [h.aff EXCEPT ![z] = Without(h.aff[z], i)]
        /\ t.pend = h.pend /\ t.cache.used = h.cache.used /\ t.cache.budget = h.cache.budget
    BY DEF FromWaiters, Entered
  <1>3. h.aff \in [Nodes -> Seq(Request)] /\ t.aff \in [Nodes -> Seq(Request)]
    BY <1>1 DEF StepType
  <1>4. t.aff[z] = Without(h.aff[z], i) /\ \A y \in Nodes : y # z => t.aff[y] = h.aff[y]
    BY <1>2, <1>3
  <1>5. Waiters(t.aff) + Len(h.aff[z]) = Waiters(h.aff) + Len(t.aff[z])
    BY <1>3, <1>4, WaitersChange
  <1>6. Len(t.pool) + Len(t.queue) + Waiters(t.aff) = Len(s.pool) + Len(s.queue) + Waiters(s.aff)
    <2> DEFINE a == Len(h.pool)
               b == Len(h.queue)
               w == Waiters(h.aff)
               v == Waiters(t.aff)
               x == Len(h.aff[z])
               y == Len(t.aff[z])
               n == Len(s.pool) + Len(s.queue) + Waiters(s.aff)
    <2>1. a \in Nat /\ b \in Nat /\ w \in Nat /\ v \in Nat /\ x \in Nat
      BY <1>1, Sizes
    <2>2. a + b + w = n /\ y = x - 1 /\ v + x = w + y
      BY <1>2, <1>5 DEF Fed
    <2> HIDE DEF a, b, w, v, x, y, n
    <2>3. (a + 1) + b + v = n
      BY <2>1, <2>2
    <2> QED BY <1>2, <2>3 DEF a, b, v, n
  <1>7. Len(s.pool) <= Len(t.pool)
    <2> DEFINE a == Len(h.pool)
               b == Len(t.pool)
               d == Len(s.pool)
    <2>1. a \in Nat /\ d \in Nat /\ b = a + 1 /\ d <= a
      BY <1>1, <1>2, Sizes DEF Fed
    <2> HIDE DEF a, b, d
    <2>2. d <= b
      BY <2>1
    <2> QED BY <2>2 DEF b, d
  <1>8. \A y \in Nodes : Range(t.aff[y]) \subseteq Range(s.aff[y])
    <2>1. Range(t.aff[z]) \subseteq Range(h.aff[z])
      BY <1>3, <1>4, RemovalRange
    <2> QED BY <1>4, <2>1 DEF Fed
  <1> QED BY <1>1, <1>2, <1>6, <1>7, <1>8 DEF Fed

\* A removal that takes the oldest while somebody is overdue.
LEMMA ForcedRemoval ==
    ASSUME NEW q \in Seq(Request), NEW h \in Seq(Request), NEW i \in DOMAIN h, now \in Nat,
           Range(q) \subseteq Request, Forced(q, h),
           Overdue(h, now, global_age_cap) # {} => \A j \in DOMAIN h : h[i].arrival <= h[j].arrival
    PROVE  Forced(q, Without(h, i))
  <1> DEFINE w == Without(h, i)
  <1>1. SUFFICES ASSUME NEW m \in Overdue(w, now, global_age_cap), NEW r \in Range(q) \ Range(w)
                 PROVE  r.arrival <= w[m].arrival
    BY DEF Forced
  <1>2. w \in Seq(Request) /\ Range(w) \subseteq Range(h) /\ Range(h) = Range(w) \cup {h[i]}
    BY RemovalKeepsTheRest, RemovalRange
  <1> HIDE DEF w
  <1>3. m \in DOMAIN w /\ now - w[m].arrival > global_age_cap /\ w[m] \in Range(w)
    BY <1>2 DEF Overdue, Range
  <1>4. PICK j \in DOMAIN h : h[j] = w[m]
    BY <1>2, <1>3 DEF Range
  <1>5. j \in Overdue(h, now, global_age_cap)
    BY <1>3, <1>4 DEF Overdue
  <1>6. CASE r \in Range(h)
    <2>1. r = h[i]
      BY <1>2, <1>6
    <2> QED BY <1>4, <1>5, <2>1
  <1>7. CASE r \notin Range(h)
    <2>1. r.arrival <= h[j].arrival
      BY <1>5, <1>7 DEF Forced
    <2> QED BY <1>4, <2>1
  <1> QED BY <1>6, <1>7
-----------------------------------------------------------------------------
(* The type invariant, and the residents of a batch.                       *)

TypeInv ==
    /\ driver \in {"csched", "baseline", "prepo"} /\ phase \in {"fill", "begin", "serve"}
    /\ now \in Nat
    /\ pools \in Seq(Seq(Decoder)) /\ Len(pools) = (IF driver = "prepo" THEN 2 * Z ELSE Z)
    /\ turn \in 1..Len(pools)
    /\ StepType(Here)

LEMMA TurnIsOfANode ==
    ASSUME TypeInv
    PROVE  NodeOf(turn) \in Nodes
  <1> DEFINE n == Len(pools)
  <1>1. turn \in 1..n /\ n = (IF driver = "prepo" THEN 2 * Z ELSE Z) /\ Z \in Nat \ {0}
    BY Numbers DEF TypeInv
  <1> HIDE DEF n
  <1>2. CASE driver = "prepo"
    <2>1. turn \in Nat /\ 1 <= turn /\ turn <= 2 * Z
      BY <1>1, <1>2
    <2>2. (turn + 1) \div 2 \in 1..Z
      BY <1>1, <2>1
    <2> QED BY <1>2, <2>2 DEF NodeOf, Nodes
  <1>3. CASE driver # "prepo"
    BY <1>1, <1>3 DEF NodeOf, Nodes
  <1> QED BY <1>2, <1>3

\* What the residents of a batch hold is a number of tokens.
LEMMA LiveSumIsNumber ==
    ASSUME NEW p \in Seq(Decoder)
    PROVE  LiveSum(p) \in Nat
  <1> DEFINE u == [i \in DOMAIN p |-> LiveKv(p[i])]
  <1>1. Len(p) \in Nat /\ DOMAIN p = 1..Len(p) /\ Len(u) = Len(p)
    OBVIOUS
  <1>2. \A i \in 1..Len(p) : u[i] \in Nat
    <2> TAKE i \in 1..Len(p)
    <2>1. p[i] \in Decoder
      BY <1>1, SeqElements
    <2>2. LiveKv(p[i]) \in Nat
      BY <2>1, DecoderTypes DEF LiveKv
    <2> QED BY <1>1, <2>2
  <1>3. LiveSum(p) = Sum(u)
    BY DEF LiveSum
  <1> HIDE DEF u
  <1>4. SumTo(u, Len(p)) \in Nat
    BY <1>1, <1>2, SumOfNumbers
  <1> QED BY <1>1, <1>3, <1>4, SumIsSumTo

\* Whoever steering chooses, a round keeps the batch.
LEMMA AdvancedTypes ==
    ASSUME NEW p \in Seq(Decoder), NEW chosen
    PROVE  AdvancedBy(p, chosen) \in Seq(Decoder) /\ Len(AdvancedBy(p, chosen)) = Len(p)
  <1> DEFINE e(i) == IF i \in chosen THEN [p[i] EXCEPT !.dec = @ + 1, !.wait = 0]
                     ELSE [p[i] EXCEPT !.wait = @ + 1]
             t == [i \in DOMAIN p |-> e(i)]
  <1>1. Len(p) \in Nat /\ DOMAIN p = 1..Len(p) /\ \A i \in 1..Len(p) : p[i] \in Decoder
    BY SeqElements
  <1>2. \A q \in Decoder : /\ [q EXCEPT !.dec = @ + 1, !.wait = 0] \in Decoder
                           /\ [q EXCEPT !.wait = @ + 1] \in Decoder
    <2> TAKE q \in Decoder
    <2> DEFINE a1 == q.id
               a2 == q.prompt
               a3 == q.max_tokens
               a4 == q.turn
               a5 == q.cached_prefix
               d == q.dec
               w == q.wait
               f(dec, wait) == [id |-> a1, prompt |-> a2, max_tokens |-> a3, dec |-> dec,
                                wait |-> wait, turn |-> a4, cached_prefix |-> a5]
    <2>1. q = f(d, w) /\ d = q.dec /\ w = q.wait
      BY DEF Decoder
    <2>5. a1 \in Nat /\ a2 \in Nat /\ a3 \in Nat /\ a4 \in Nat /\ a5 \in Nat /\ d \in Nat /\ w \in Nat
      BY DecoderTypes
    <2> HIDE DEF a1, a2, a3, a4, a5, d, w
    <2>2. [q EXCEPT !.dec = @ + 1, !.wait = 0] = f(d + 1, 0) /\ [q EXCEPT !.wait = @ + 1] = f(d, w + 1)
      <3>1. [q EXCEPT !.wait = @ + 1] = f(d, w + 1)
        BY <2>1
      <3>2. [q EXCEPT !.dec = @ + 1] = f(d + 1, w)
        BY <2>1
      <3>3. [q EXCEPT !.dec = @ + 1, !.wait = 0] = [[q EXCEPT !.dec = @ + 1] EXCEPT !.wait = 0]
        OBVIOUS
      <3> DEFINE r == [q EXCEPT !.dec = @ + 1]
      <3>4. r = f(d + 1, w)
        BY <3>2
      <3> HIDE DEF r
      <3>5. [r EXCEPT !.wait = 0] = f(d + 1, 0)
        BY <3>4
      <3> QED BY <3>1, <3>3, <3>5 DEF r
    <2>3. \A dec, wait \in Nat : f(dec, wait) \in Decoder
      BY <2>5 DEF Decoder
    <2>4. d + 1 \in Nat /\ w + 1 \in Nat /\ d \in Nat
      BY <2>5
    <2> HIDE DEF f
    <2> QED BY <2>2, <2>3, <2>4
  <1>3. \A i \in 1..Len(p) : e(i) \in Decoder
    BY <1>1, <1>2
  <1> HIDE DEF e
  <1>4. t \in Seq(Decoder) /\ Len(t) = Len(p)
    BY <1>1, <1>3
  <1> QED BY <1>4 DEF AdvancedBy, e

\* Those who are done and those who are not make up the batch.
LEMMA BatchParts ==
    ASSUME NEW p \in Seq(Decoder)
    PROVE  /\ Leavers(p) \in Seq(Decoder) /\ Stayers(p) \in Seq(Decoder)
           /\ Len(Leavers(p)) \in Nat /\ Len(Stayers(p)) \in Nat
           /\ Len(Leavers(p)) + Len(Stayers(p)) = Len(p)
           /\ Range(Leavers(p)) = {q \in Range(p) : Done(q)}
           /\ Range(Stayers(p)) = {q \in Range(p) : ~Done(q)}
  <1> DEFINE V == {q \in Range(p) : Done(q)}
             W == {q \in Range(p) : ~Done(q)}
  <1>1. W \cap Range(p) = Range(p) \ V /\ Range(p) \cap V = V /\ Range(p) \cap W = W
    OBVIOUS
  <1>2. /\ Leavers(p) = Only(p, V) /\ Stayers(p) = Only(p, W)
    BY DEF Leavers, Stayers
  <1> HIDE DEF V, W
  <1>3. /\ Only(p, V) \in Seq(Decoder) /\ Range(Only(p, V)) = Range(p) \cap V
        /\ Len(Only(p, V)) \in Nat
        /\ \A U : U \cap Range(p) = Range(p) \ V => Len(Only(p, V)) + Len(Only(p, U)) = Len(p)
    BY OnlyKeeps
  <1>4. Only(p, W) \in Seq(Decoder) /\ Range(Only(p, W)) = Range(p) \cap W /\ Len(Only(p, W)) \in Nat
    BY OnlyKeeps
  <1>5. Len(Only(p, V)) + Len(Only(p, W)) = Len(p)
    BY <1>1, <1>3
  <1> QED BY <1>1, <1>2, <1>3, <1>4, <1>5 DEF V, W

-----------------------------------------------------------------------------
(* Every conversation is in one place, and finds its own KV.                 *)

\* The ids of a queue, a batch or a table of returns, and that each is there once.
Ids(q) == {r.id : r \in Range(q)}
Single(q) == \A i, j \in DOMAIN q : q[i].id = q[j].id => i = j

LEMMA IdsAt ==
    ASSUME NEW R, NEW q \in Seq(R)
    PROVE  /\ \A i \in DOMAIN q : q[i].id \in Ids(q)
           /\ \A id \in Ids(q) : \E i \in DOMAIN q : q[i].id = id
  BY DEF Ids, Range

\* At the end, at a place or instead of another: who joins is one more.
LEMMA IdsAppended ==
    ASSUME NEW R, NEW q \in Seq(R), NEW r \in R
    PROVE  /\ Ids(Append(q, r)) = Ids(q) \cup {r.id}
           /\ Single(q) /\ r.id \notin Ids(q) => Single(Append(q, r))
  <1> DEFINE t == Append(q, r)
             n == Len(q)
  <1>1. /\ Range(t) = Range(q) \cup {r} /\ DOMAIN t = 1..(n + 1) /\ DOMAIN q = 1..n /\ n \in Nat
        /\ \A i \in 1..n : t[i] = q[i]
        /\ t[n + 1] = r
    <2>1. /\ t \in Seq(R) /\ Len(t) = Len(q) + 1 /\ Range(t) = Range(q) \cup {r} /\ t[Len(q) + 1] = r
          /\ \A i \in 1..Len(q) : t[i] = q[i]
      BY Appended
    <2> HIDE DEF t
    <2> QED BY <2>1
  <1> HIDE DEF t, n
  <1>2. Ids(t) = Ids(q) \cup {r.id}
    BY <1>1 DEF Ids
  <1>3. ASSUME Single(q), r.id \notin Ids(q) PROVE Single(t)
    <2>1. \A i \in 1..n : q[i].id # r.id
      BY <1>1, <1>3, IdsAt
    <2> SUFFICES ASSUME NEW i \in 1..(n + 1), NEW j \in 1..(n + 1), t[i].id = t[j].id PROVE i = j
      BY <1>1 DEF Single
    <2>2. CASE i \in 1..n /\ j \in 1..n
      BY <1>1, <1>3, <2>2 DEF Single
    <2>3. CASE i = n + 1 \/ j = n + 1
      BY <1>1, <2>1, <2>3
    <2> QED BY <1>1, <2>2, <2>3
  <1> QED BY <1>2, <1>3 DEF t

LEMMA IdsWithout ==
    ASSUME NEW R, NEW q \in Seq(R), NEW i \in DOMAIN q, Single(q)
    PROVE  Single(Without(q, i)) /\ Ids(Without(q, i)) = Ids(q) \ {q[i].id}
  <1> DEFINE w == Without(q, i)
             n == Len(q)
  <1>1. /\ n \in Nat /\ DOMAIN q = 1..n /\ i \in 1..n /\ DOMAIN w = 1..(n - 1)
        /\ \A j \in 1..(n - 1) : w[j] = IF j = i THEN q[n] ELSE q[j]
    <2>1. /\ Without(q, i) \in Seq(R) /\ Len(Without(q, i)) = Len(q) - 1
          /\ \A j \in 1..(Len(q) - 1) : Without(q, i)[j] = IF j = i THEN q[Len(q)] ELSE q[j]
      BY RemovalKeepsTheRest
    <2> HIDE DEF w
    <2> QED BY <2>1 DEF w
  <1>2. /\ Range(w) \subseteq Range(q) /\ Range(q) = Range(w) \cup {q[i]}
    BY RemovalRange
  <1> HIDE DEF w, n
  <1>3. \A j, k \in 1..n : q[j].id = q[k].id => j = k
    BY <1>1 DEF Single
  <1>4. Single(w)
    <2> SUFFICES ASSUME NEW j \in 1..(n - 1), NEW k \in 1..(n - 1), w[j].id = w[k].id PROVE j = k
      BY <1>1 DEF Single
    <2>1. j \in 1..n /\ k \in 1..n /\ n \in 1..n
      BY <1>1
    <2> QED BY <1>1, <1>3, <2>1
  <1>5. q[i].id \notin Ids(w)
    <2> SUFFICES ASSUME NEW j \in 1..(n - 1), w[j].id = q[i].id PROVE FALSE
      BY <1>1 DEF Ids, Range
    <2>1. j \in 1..n /\ n \in 1..n
      BY <1>1
    <2> QED BY <1>1, <1>3, <2>1
  <1>6. Ids(w) \subseteq Ids(q) /\ Ids(q) = Ids(w) \cup {q[i].id}
    BY <1>2 DEF Ids
  <1> QED BY <1>4, <1>5, <1>6 DEF w

LEMMA IdsInserted ==
    ASSUME NEW R, NEW q \in Seq(R), NEW i \in 1..(Len(q) + 1), NEW r \in R,
           Single(q), r.id \notin Ids(q)
    PROVE  Single(InsertAt(q, i, r)) /\ Ids(InsertAt(q, i, r)) = Ids(q) \cup {r.id}
           /\ Range(InsertAt(q, i, r)) = Range(q) \cup {r}
  <1> DEFINE t == InsertAt(q, i, r)
             n == Len(q)
  <1>1. /\ n \in Nat /\ DOMAIN q = 1..n /\ i \in 1..(n + 1) /\ DOMAIN t = 1..(n + 1)
        /\ \A j \in 1..(n + 1) : t[j] = IF j < i THEN q[j] ELSE IF j = i THEN r ELSE q[j - 1]
    <2> HIDE DEF t, n
    <2>0. q \in Seq(R) /\ i \in 1..(Len(q) + 1) /\ r \in R
      OBVIOUS
    <2>1. InsertAt(q, i, r) \in Seq(R) /\ Len(InsertAt(q, i, r)) = Len(q) + 1
      BY ONLY <2>0, Inserted
    <2>2. ASSUME NEW j \in 1..(Len(q) + 1)
          PROVE  InsertAt(q, i, r)[j] = IF j < i THEN q[j] ELSE IF j = i THEN r ELSE q[j - 1]
      BY ONLY <2>0, j \in 1..(Len(q) + 1), Inserted
    <2>3. t \in Seq(R) /\ Len(t) = n + 1 /\ n \in Nat
      BY <2>1 DEF t, n
    <2> QED BY <2>1, <2>2, <2>3 DEF t, n
  <1> HIDE DEF t, n
  <1>2. Range(t) = Range(q) \cup {r}
    <2>1. ASSUME NEW j \in 1..(n + 1) PROVE t[j] \in Range(q) \cup {r}
      <3>1. CASE j < i
        <4>1. j \in 1..n
          BY <1>1, <3>1
        <4> QED BY <1>1, <3>1, <4>1 DEF Range
      <3>2. CASE j = i
        BY <1>1, <3>2
      <3>3. CASE j > i
        <4>1. j - 1 \in 1..n
          BY <1>1, <3>3
        <4>2. t[j] = q[j - 1]
          BY <1>1, <3>3
        <4> QED BY <1>1, <4>1, <4>2 DEF Range
      <3> QED BY <1>1, <3>1, <3>2, <3>3
    <2>2. ASSUME NEW j \in 1..n PROVE q[j] \in Range(t)
      <3>1. CASE j < i
        <4>1. j \in 1..(n + 1) /\ t[j] = q[j]
          BY <1>1, <3>1
        <4> QED BY <1>1, <4>1 DEF Range
      <3>2. CASE ~(j < i)
        <4>1. j + 1 \in 1..(n + 1) /\ ~(j + 1 < i) /\ j + 1 # i /\ (j + 1) - 1 = j
          BY <1>1, <3>2
        <4>2. t[j + 1] = q[(j + 1) - 1]
          BY <1>1, <4>1
        <4> QED BY <1>1, <4>1, <4>2 DEF Range
      <3> QED BY <3>1, <3>2
    <2>3. r \in Range(t)
      BY <1>1 DEF Range
    <2> QED BY <1>1, <2>1, <2>2, <2>3 DEF Range
  <1>3. Ids(t) = Ids(q) \cup {r.id}
    BY <1>2 DEF Ids
  <1>4. Single(t)
    <2> DEFINE back(j) == IF j < i THEN j ELSE j - 1
    <2>1. \A j \in 1..(n + 1) : j # i => back(j) \in 1..n /\ t[j] = q[back(j)]
      BY <1>1
    <2>2. \A j \in 1..n : q[j].id # r.id
      BY <1>1, IdsAt
    <2>3. t[i] = r
      BY <1>1
    <2> SUFFICES ASSUME NEW j \in 1..(n + 1), NEW k \in 1..(n + 1), t[j].id = t[k].id PROVE j = k
      BY <1>1 DEF Single
    <2>4. CASE j # i /\ k # i
      <3>1. back(j) \in 1..n /\ back(k) \in 1..n /\ q[back(j)].id = q[back(k)].id
        BY <2>1, <2>4
      <3> HIDE DEF back
      <3>2. back(j) = back(k)
        BY <1>1, <3>1 DEF Single
      <3> QED BY <1>1, <2>4, <3>2 DEF back
    <2> HIDE DEF back
    <2>5. CASE j = i /\ k # i
      BY <2>1, <2>2, <2>3, <2>5
    <2>6. CASE j # i /\ k = i
      BY <2>1, <2>2, <2>3, <2>6
    <2> QED BY <2>4, <2>5, <2>6
  <1> QED BY <1>2, <1>3, <1>4 DEF t

\* Who is kept of those that are single is single.
LEMMA IdsOnly ==
    ASSUME NEW R, NEW s \in Seq(R), NEW V, Single(s)
    PROVE  Single(Only(s, V)) /\ Ids(Only(s, V)) = {r.id : r \in Range(s) \cap V}
  <1> DEFINE first(k) == {s[i].id : i \in 1..k}
             S == {k \in Nat : k <= Len(s) => /\ OnlyTo(s, V, k) \in Seq(R)
                                              /\ Single(OnlyTo(s, V, k))
                                              /\ Ids(OnlyTo(s, V, k)) \subseteq first(k)}
  <1>0. Len(s) \in Nat /\ DOMAIN s = 1..Len(s) /\ \A j \in 1..Len(s) : s[j] \in R
    OBVIOUS
  <1>1. 0 \in S
    <2>1. OnlyTo(s, V, 0) = <<>> /\ <<>> \in Seq(R) /\ DOMAIN (<<>>) = {}
      BY OnlyToStep
    <2>2. Single(<<>>) /\ Ids(<<>>) = {}
      BY <2>1 DEF Single, Ids, Range
    <2> QED BY <2>1, <2>2
  <1>2. ASSUME NEW k \in Nat, k \in S PROVE k + 1 \in S
    <2> SUFFICES ASSUME k + 1 <= Len(s)
                 PROVE  /\ OnlyTo(s, V, k + 1) \in Seq(R)
                        /\ Single(OnlyTo(s, V, k + 1))
                        /\ Ids(OnlyTo(s, V, k + 1)) \subseteq first(k + 1)
      OBVIOUS
    <2> DEFINE t == OnlyTo(s, V, k)
               e == s[k + 1]
    <2>1. /\ t \in Seq(R) /\ Single(t) /\ Ids(t) \subseteq first(k) /\ e \in R
          /\ OnlyTo(s, V, k + 1) = IF e \in V THEN Append(t, e) ELSE t
      <3>1. /\ t \in Seq(R) /\ Single(t) /\ Ids(t) \subseteq first(k)
        <4>1. k <= Len(s)
          BY <1>0
        <4> HIDE DEF first, t
        <4> QED BY <1>2, <4>1 DEF t
      <3>2. e \in R
        BY <1>0
      <3>3. OnlyTo(s, V, k + 1) = IF e \in V THEN Append(t, e) ELSE t
        BY OnlyToStep
      <3> HIDE DEF first, t, e
      <3> QED BY <3>1, <3>2, <3>3
    <2>2. e.id \notin first(k) /\ first(k + 1) = first(k) \cup {e.id}
      <3>1. \A i \in 1..k : i \in DOMAIN s /\ k + 1 \in DOMAIN s /\ i # k + 1
        BY <1>0
      <3>2. \A i \in 1..k : s[i].id # s[k + 1].id
        BY <3>1 DEF Single
      <3> QED BY <3>2
    <2> HIDE DEF t, e, first
    <2>3. /\ Append(t, e) \in Seq(R) /\ Single(Append(t, e)) /\ Ids(Append(t, e)) = Ids(t) \cup {e.id}
      <3>1. Append(t, e) \in Seq(R)
        BY <2>1, Appended
      <3>2. e.id \notin Ids(t)
        BY <2>1, <2>2
      <3> QED BY <2>1, <3>1, <3>2, IdsAppended
    <2> QED BY <2>1, <2>2, <2>3
  <1> HIDE DEF S
  <1>3. Len(s) \in S
    BY <1>0, <1>1, <1>2, OnlyLoop!Induct
  <1>4. Single(OnlyTo(s, V, Len(s)))
    BY <1>0, <1>3 DEF S
  <1>5. Only(s, V) = OnlyTo(s, V, Len(s))
    BY OnlyIsOnlyTo
  <1>6. Range(Only(s, V)) = Range(s) \cap V
    BY OnlyKeeps
  <1> QED BY <1>4, <1>5, <1>6 DEF Ids

\* Of two that are single and apart the sequence is.
LEMMA IdsJoined ==
    ASSUME NEW R, NEW s \in Seq(R), NEW t \in Seq(R)
    PROVE  /\ Range(s \o t) = Range(s) \cup Range(t)
           /\ Ids(s \o t) = Ids(s) \cup Ids(t)
           /\ Single(s) /\ Single(t) /\ Ids(s) \cap Ids(t) = {} => Single(s \o t)
  <1> DEFINE u == s \o t
             m == Len(s)
             n == Len(t)
  <1>1. /\ m \in Nat /\ n \in Nat /\ DOMAIN s = 1..m /\ DOMAIN t = 1..n /\ DOMAIN u = 1..(m + n)
        /\ \A j \in 1..(m + n) : u[j] = IF j <= m THEN s[j] ELSE t[j - m]
    <2>1. /\ s \o t \in Seq(R) /\ Len(s \o t) = Len(s) + Len(t)
          /\ \A j \in 1..(Len(s) + Len(t)) :
                 (s \o t)[j] = IF j <= Len(s) THEN s[j] ELSE t[j - Len(s)]
      BY Joined
    <2> QED BY <2>1
  <1> HIDE DEF u, m, n
  <1>2. \A j \in 1..(m + n) : \/ j \in 1..m /\ u[j] = s[j]
                              \/ ~(j \in 1..m) /\ j - m \in 1..n /\ u[j] = t[j - m]
    BY <1>1
  <1>3. Range(u) = Range(s) \cup Range(t)
    <2>1. \A j \in 1..(m + n) : u[j] \in Range(s) \cup Range(t)
      BY <1>1, <1>2 DEF Range
    <2>2. ASSUME NEW j \in 1..m PROVE s[j] \in Range(u)
      <3>1. j \in 1..(m + n) /\ u[j] = s[j]
        BY <1>1
      <3> QED BY <1>1, <3>1 DEF Range
    <2>3. ASSUME NEW j \in 1..n PROVE t[j] \in Range(u)
      <3>1. j + m \in 1..(m + n) /\ ~(j + m <= m) /\ (j + m) - m = j
        BY <1>1
      <3>2. u[j + m] = t[j]
        BY <1>1, <3>1
      <3> QED BY <1>1, <3>1, <3>2 DEF Range
    <2> QED BY <1>1, <2>1, <2>2, <2>3 DEF Range
  <1>4. Ids(u) = Ids(s) \cup Ids(t)
    BY <1>3 DEF Ids
  <1>5. ASSUME Single(s), Single(t), Ids(s) \cap Ids(t) = {} PROVE Single(u)
    <2>1. \A i \in 1..m : \A j \in 1..n : s[i].id # t[j].id
      BY <1>1, <1>5, IdsAt
    <2> SUFFICES ASSUME NEW i \in 1..(m + n), NEW j \in 1..(m + n), u[i].id = u[j].id PROVE i = j
      BY <1>1 DEF Single
    <2>2. CASE i \in 1..m /\ j \in 1..m
      BY <1>1, <1>2, <1>5, <2>2 DEF Single
    <2>3. CASE ~(i \in 1..m) /\ ~(j \in 1..m)
      <3>1. i - m \in 1..n /\ j - m \in 1..n /\ t[i - m].id = t[j - m].id
        BY <1>2, <2>3
      <3>2. i - m = j - m
        BY <1>1, <1>5, <3>1 DEF Single
      <3> QED BY <1>1, <3>2
    <2>4. CASE (i \in 1..m /\ ~(j \in 1..m)) \/ (~(i \in 1..m) /\ j \in 1..m)
      BY <1>2, <2>1, <2>4
    <2> QED BY <2>2, <2>3, <2>4
  <1> QED BY <1>3, <1>4, <1>5 DEF u

\* What becomes of the KV a conversation finds: a lookup keeps it, a round keeps it or
\* takes it away, and a completion leaves the context of its own conversation and the
\* others alone.
KvKept(c, d, id) == Find(d, id) # Gone => Find(c, id) # Gone /\ d.idx[id].len = c.idx[id].len

LEMMA KvTouched ==
    ASSUME NEW c, Accounted(c, Nodes), NEW x, NEW id
    PROVE  KvKept(c, Touched(c, x), id)
  <1>1. CASE Find(c, x) = Gone
    BY <1>1 DEF Touched, KvKept
  <1>2. CASE Find(c, x) # Gone
    <2> DEFINE young == [c.idx[x] EXCEPT !.idle = 0]
               m == [c.idx EXCEPT ![x] = young]
               d == Touched(c, x)
    <2>1. x \in DOMAIN c.idx /\ c.idx[x] \in CacheEntry(Nodes)
      BY <1>2 DEF Find, Accounted
    <2>2. young.len = c.idx[x].len
      BY <2>1 DEF CacheEntry
    <2>3. d.idx = m
      <3>1. c = [idx |-> c.idx, used |-> c.used, budget |-> c.budget]
        BY DEF Accounted
      <3>2. d = [c EXCEPT !.idx = m]
        BY <1>2 DEF Touched
      <3> HIDE DEF m, d
      <3> QED BY <3>1, <3>2
    <2> HIDE DEF d, young
    <2>4. DOMAIN m = DOMAIN c.idx /\ m[x] = young /\ \A i \in DOMAIN c.idx : i # x => m[i] = c.idx[i]
      BY <2>1 DEF Accounted
    <2> HIDE DEF m
    <2>5. KvKept(c, d, id)
      <3>1. CASE id = x
        BY <1>2, <2>2, <2>3, <2>4, <3>1 DEF KvKept
      <3>2. CASE id # x
        BY <2>3, <2>4, <3>2 DEF KvKept, Find
      <3> QED BY <3>1, <3>2
    <2> QED BY <2>5 DEF d
  <1> QED BY <1>1, <1>2

LEMMA KvTicked ==
    ASSUME NEW c, Accounted(c, Nodes), NEW id
    PROVE  KvKept(c, Ticked(c), id)
  <1> DEFINE d == Ticked(c)
  <1>1. d.idx = [i \in DOMAIN c.idx |-> Aged(c.idx[i])]
    BY DEF Ticked
  <1>2. ASSUME NEW e \in CacheEntry(Nodes) \cup {Gone}, Aged(e) # Gone
        PROVE  e # Gone /\ Aged(e).len = e.len
    <2>1. Aged(Gone) = Gone
      BY DEF Aged, Gone
    <2>2. e \in CacheEntry(Nodes)
      BY <1>2, <2>1
    <2> DEFINE older == [e EXCEPT !.idle = @ + 1]
    <2>3. older.len = e.len /\ Demote(older).len = e.len /\ e.tier \in {"HBM", "SSD"} /\ Gone.tier = "Gone"
      BY <2>2 DEF CacheEntry, Demote, Gone
    <2>4. e # Gone
      BY <1>2, <2>1
    <2>5. Aged(e) \in {older, Demote(older), Gone}
      <3> HIDE DEF older
      <3> QED BY <2>3, <2>4 DEF Aged, older
    <2> QED BY <1>2, <2>3, <2>4, <2>5
  <1> HIDE DEF d
  <1>3. CASE id \in DOMAIN c.idx
    <2>1. c.idx[id] \in CacheEntry(Nodes) \cup {Gone} /\ d.idx[id] = Aged(c.idx[id]) /\ DOMAIN d.idx = DOMAIN c.idx
      BY <1>1, <1>3 DEF Accounted
    <2>2. Find(d, id) = Aged(c.idx[id]) /\ Find(c, id) = c.idx[id]
      BY <1>3, <2>1 DEF Find
    <2> DEFINE e == c.idx[id]
    <2> HIDE DEF e
    <2>3. Aged(e) # Gone => e # Gone /\ Aged(e).len = e.len
      BY <1>2, <2>1 DEF e
    <2> QED BY <2>1, <2>2, <2>3 DEF KvKept, d, e
  <1>4. CASE id \notin DOMAIN c.idx
    <2>1. id \notin DOMAIN d.idx
      BY <1>1, <1>4
    <2>2. Find(d, id) = Gone
      BY <2>1 DEF Find
    <2> QED BY <2>2 DEF KvKept, d
  <1> QED BY <1>3, <1>4 DEF d

LEMMA KvRecorded ==
    ASSUME NEW c, Accounted(c, Nodes), NEW node, NEW x, NEW len, NEW threshold
    PROVE  LET d == Recorded(c, node, x, len, threshold)
           IN  d.idx[x].len = len /\ \A id : id # x => KvKept(c, d, id)
  <1> DEFINE d == Recorded(c, node, x, len, threshold)
             u == Reclaimed(c, node, x)
             admitted == Admits(c, u, node, len, threshold)
             entry == [tier |-> IF admitted THEN "HBM" ELSE "SSD",
                       node |-> node, len |-> len, idle |-> 0]
  <1>1. d.idx = [i \in DOMAIN c.idx \cup {x} |-> IF i = x THEN entry ELSE c.idx[i]]
    BY DEF Recorded
  <1>2. entry.len = len
    OBVIOUS
  <1> HIDE DEF d, entry
  <1>3. d.idx[x].len = len
    BY <1>1, <1>2
  <1>4. \A id : id # x => Find(d, id) = Find(c, id) /\ (id \in DOMAIN c.idx => d.idx[id] = c.idx[id])
    BY <1>1 DEF Find
  <1>5. \A id : Find(c, id) # Gone => id \in DOMAIN c.idx
    BY DEF Find
  <1> QED BY <1>3, <1>4, <1>5 DEF KvKept, d

\* The KV a request of a later turn finds is its own context.
OwnIn(c, r) == r.turn > 0 /\ Find(c, r.id) # Gone => c.idx[r.id].len = r.cached_prefix
Own(c, q) == \A r \in Range(q) : r.max_tokens > 0 /\ OwnIn(c, r)

Apart(P, Q, D, T) ==
    /\ P \cap Q = {} /\ P \cap D = {} /\ Q \cap D = {}
    /\ T \cap P = {} /\ T \cap Q = {} /\ T \cap D = {}

\* Every conversation is in one place of a step, or in one of those T tells of, and those
\* who are not resident find their own KV.
Lone(s, T) ==
    /\ Single(s.pool) /\ Single(s.queue) /\ Single(s.pend)
    /\ Apart(Ids(s.pool), Ids(s.queue), Ids(s.pend), T)
    /\ \A id \in Ids(s.pool) \cup Ids(s.queue) \cup Ids(s.pend) \cup T : id \in Nat /\ id < s.next_id
    /\ Own(s.cache, s.queue) /\ Own(s.cache, s.pend)

\* Nobody in the batch has decoded all there is.
Going(p) == \A q \in Range(p) : q.dec < q.max_tokens

LEMMA OwnKept ==
    ASSUME NEW c, NEW d, NEW q, Own(c, q), \A r \in Range(q) : KvKept(c, d, r.id)
    PROVE  Own(d, q)
  BY DEF Own, OwnIn, KvKept

\* A request moves from the queue to the batch.
LEMMA EntersAlone ==
    ASSUME NEW s, StepType(s), NEW T, Lone(s, T), NEW i \in DOMAIN s.queue, NEW t, FromQueue(s, t, i)
    PROVE  Lone(t, T) /\ (Going(s.pool) => Going(t.pool))
  <1> DEFINE r == s.queue[i]
             d == NewDecoder(r)
             P == Ids(s.pool)
             Q == Ids(s.queue)
             D == Ids(s.pend)
  <1>1. s.queue \in Seq(Request) /\ s.pool \in Seq(Decoder) /\ Accounted(s.cache, Nodes)
    BY DEF StepType
  <1>2. r \in Request /\ d \in Decoder /\ r \in Range(s.queue)
    BY <1>1, SeqElements, Made DEF Range
  <1>3. /\ t.pool = Append(s.pool, d) /\ t.queue = Without(s.queue, i) /\ t.pend = s.pend
        /\ t.cache = AdmitTTFT(s.cache, r) /\ t.next_id = s.next_id
    BY DEF FromQueue, Entered
  <1>4. d.id = r.id /\ d.dec = 0 /\ d.max_tokens = r.max_tokens /\ r.id \in Q
    <2>1. d.id = r.id /\ d.dec = 0 /\ d.max_tokens = r.max_tokens
      BY DEF NewDecoder
    <2> QED BY <1>2, <2>1 DEF Ids
  <1>5. Single(t.queue) /\ Ids(t.queue) = Q \ {r.id} /\ Range(t.queue) \subseteq Range(s.queue)
    <2>1. Single(s.queue)
      BY DEF Lone
    <2>2. Single(Without(s.queue, i)) /\ Ids(Without(s.queue, i)) = Q \ {r.id}
      BY <1>1, <2>1, IdsWithout
    <2>3. Range(Without(s.queue, i)) \subseteq Range(s.queue)
      BY <1>1, RemovalRange
    <2> QED BY <1>3, <2>2, <2>3
  <1> HIDE DEF r, d
  <1>6. Single(t.pool) /\ Ids(t.pool) = P \cup {r.id} /\ Range(t.pool) = Range(s.pool) \cup {d}
    <2>1. Single(s.pool) /\ d.id \notin P
      BY <1>4 DEF Lone, Apart
    <2>2. Single(Append(s.pool, d)) /\ Ids(Append(s.pool, d)) = P \cup {d.id}
      BY <1>1, <1>2, <2>1, IdsAppended
    <2>3. Range(Append(s.pool, d)) = Range(s.pool) \cup {d}
      BY <1>1, <1>2, Appended
    <2> QED BY <1>3, <1>4, <2>2, <2>3
  <1>7. \A id : KvKept(s.cache, t.cache, id)
    <2>1. t.cache = s.cache \/ t.cache = Touched(s.cache, r.id)
      BY <1>3 DEF AdmitTTFT
    <2>2. \A id : KvKept(s.cache, s.cache, id)
      BY DEF KvKept
    <2>3. \A id : KvKept(s.cache, Touched(s.cache, r.id), id)
      BY <1>1, KvTouched
    <2> QED BY <2>1, <2>2, <2>3
  <1>8. Own(t.cache, t.queue) /\ Own(t.cache, t.pend)
    <2>1. Own(s.cache, s.queue) /\ Own(s.cache, s.pend)
      BY DEF Lone
    <2>2. Own(s.cache, t.queue)
      BY <1>5, <2>1 DEF Own
    <2> QED BY <1>3, <1>7, <2>1, <2>2, OwnKept
  <1>9. Apart(P, Q, D, T) /\ Single(s.pend) /\ \A id \in P \cup Q \cup D \cup T : id \in Nat /\ id < s.next_id
    BY DEF Lone
  <1>10. Going(s.pool) => Going(t.pool)
    <2>1. d.dec < d.max_tokens
      <3>1. r.max_tokens > 0 /\ r.max_tokens \in Nat
        BY <1>2, RequestTypes DEF Lone, Own
      <3> QED BY <1>4, <3>1
    <2> QED BY <1>6, <2>1 DEF Going
  <1> HIDE DEF P, Q, D
  <1>11. Apart(P \cup {r.id}, Q \ {r.id}, D, T)
         /\ \A id \in (P \cup {r.id}) \cup (Q \ {r.id}) \cup D \cup T : id \in Nat /\ id < s.next_id
    BY <1>4, <1>9 DEF Apart
  <1>12. Lone(t, T)
    BY <1>3, <1>5, <1>6, <1>8, <1>9, <1>11 DEF Lone, D
  <1> QED BY <1>10, <1>12

\* t is as s in that, for whatever the other batches hold.
KeepsAlone(s, t) == \A T : Lone(s, T) /\ Going(s.pool) => Lone(t, T) /\ Going(t.pool)

-----------------------------------------------------------------------------
(* Completions.                                                            *)

\* A completed turn is replaced, now or later.
Replaced(h, q, fate, t) ==
    /\ StepType(t) /\ t.pool = h.pool /\ t.aff = h.aff /\ t.cache = h.cache
    /\ Len(t.queue) + Len(t.pend) = Len(h.queue) + Len(h.pend) + 1
    /\ Range(h.queue) \subseteq Range(t.queue)
    /\ fate.returns =>
           /\ fate.kind \in LaterTurn
           /\ t.queue = h.queue /\ t.pend = AddReturn(h.pend, maybe_return(q, fate.kind, now))
           /\ t.next_id = h.next_id
    /\ ~fate.returns =>
           /\ fate.kind \in FirstTurn
           /\ t.queue = Append(h.queue, fresh_arrival(h.next_id, fate.kind, now)) /\ t.pend = h.pend
           /\ t.next_id = h.next_id + 1

LEMMA DepartedKeeps ==
    ASSUME NEW h, StepType(h), NEW q \in Decoder, NEW fate \in Fates, now \in Nat
    PROVE  Replaced(h, q, fate, Departed(h, q, fate))
  <1> DEFINE t == Departed(h, q, fate)
  <1>0. /\ h = [pool |-> h.pool, queue |-> h.queue, aff |-> h.aff, pend |-> h.pend,
                cache |-> h.cache, next_id |-> h.next_id]
        /\ h.queue \in Seq(Request) /\ h.pend \in Seq(Request) /\ h.next_id \in Nat
        /\ Len(h.queue) \in Nat /\ Len(h.pend) \in Nat
    BY DEF StepType
  <1>1. CASE fate.returns
    <2>1. fate.kind \in LaterTurn
      BY <1>1, ClusterAssumption DEF Fates, ClusterAssumption
    <2> DEFINE r == maybe_return(q, fate.kind, now)
               p == AddReturn(h.pend, r)
    <2>2. r \in Request
      BY <2>1, Made
    <2> HIDE DEF r
    <2>3. p \in Seq(Request) /\ Len(p) = Len(h.pend) + 1
      BY <1>0, <2>2, ReturnAdded
    <2>4. t = [pool |-> h.pool, queue |-> h.queue, aff |-> h.aff, pend |-> p,
               cache |-> h.cache, next_id |-> h.next_id]
      <3>1. t = [h EXCEPT !.pend = p]
        BY <1>1 DEF Departed, r
      <3> HIDE DEF p, t
      <3> QED BY <1>0, <3>1
    <2> HIDE DEF p, t
    <2>5. StepType(t)
      BY <2>3, <2>4 DEF StepType
    <2>6. Len(t.queue) + Len(t.pend) = Len(h.queue) + Len(h.pend) + 1
      <3> DEFINE a == Len(h.queue)
                 b == Len(h.pend)
                 d == Len(p)
      <3>1. a \in Nat /\ b \in Nat /\ d = b + 1
        BY <1>0, <2>3
      <3> HIDE DEF a, b, d
      <3>2. a + d = a + b + 1
        BY <3>1
      <3> QED BY <2>4, <3>2 DEF a, b, d
    <2>7. Replaced(h, q, fate, t)
      BY <1>1, <2>1, <2>4, <2>5, <2>6 DEF p, r, Replaced
    <2> QED BY <2>7 DEF t
  <1>2. CASE ~fate.returns
    <2>1. fate.kind \in FirstTurn
      BY <1>2, ClusterAssumption DEF Fates, ClusterAssumption
    <2> DEFINE r == fresh_arrival(h.next_id, fate.kind, now)
               w == Append(h.queue, r)
    <2>2. r \in Request
      BY <1>0, <2>1, Made
    <2> HIDE DEF r
    <2>3. w \in Seq(Request) /\ Len(w) = Len(h.queue) + 1 /\ Range(w) = Range(h.queue) \cup {r}
      BY <1>0, <2>2, Appended
    <2>4. t = [pool |-> h.pool, queue |-> w, aff |-> h.aff, pend |-> h.pend,
               cache |-> h.cache, next_id |-> h.next_id + 1]
      <3>1. t = [h EXCEPT !.queue = w, !.next_id = @ + 1]
        BY <1>2 DEF Departed, push, r
      <3> DEFINE u == [h EXCEPT !.queue = w]
      <3>2. u = [pool |-> h.pool, queue |-> w, aff |-> h.aff, pend |-> h.pend,
                 cache |-> h.cache, next_id |-> h.next_id]
        <4> HIDE DEF w
        <4> QED BY <1>0
      <3>3. t = [u EXCEPT !.next_id = @ + 1]
        BY <3>1
      <3> HIDE DEF w, t, u
      <3> QED BY <1>0, <3>2, <3>3
    <2> HIDE DEF w, t
    <2>5. StepType(t)
      BY <1>0, <2>3, <2>4 DEF StepType
    <2>6. Len(t.queue) + Len(t.pend) = Len(h.queue) + Len(h.pend) + 1
      <3> DEFINE a == Len(h.queue)
                 b == Len(h.pend)
                 d == Len(w)
      <3>1. a \in Nat /\ b \in Nat /\ d = a + 1
        BY <1>0, <2>3
      <3> HIDE DEF a, b, d
      <3>2. d + b = a + b + 1
        BY <3>1
      <3> QED BY <2>4, <3>2 DEF a, b, d
    <2>7. Replaced(h, q, fate, t)
      BY <1>2, <2>1, <2>3, <2>4, <2>5, <2>6 DEF w, r, Replaced
    <2> QED BY <2>7 DEF t
  <1> QED BY <1>1, <1>2

\* The cache records the context of a conversation that is nowhere in the step.
LEMMA RecordsAlone ==
    ASSUME NEW h, StepType(h), NEW T, Lone(h, T), NEW q \in Decoder, q.id \in T, NEW g,
           NEW node, NEW len, NEW threshold,
           g.pool = h.pool, g.queue = h.queue, g.pend = h.pend, g.next_id = h.next_id,
           g.cache = Recorded(h.cache, node, q.id, len, threshold)
    PROVE  Lone(g, T) /\ g.cache.idx[q.id].len = len
  <1>1. /\ g.cache.idx[q.id].len = len
        /\ \A id : id # q.id => KvKept(h.cache, g.cache, id)
    <2>1. Accounted(h.cache, Nodes)
      BY DEF StepType
    <2> QED BY <2>1, KvRecorded
  <1>2. \A r \in Range(h.queue) \cup Range(h.pend) : r.id # q.id
    BY DEF Lone, Apart, Ids
  <1>3. Own(g.cache, h.queue) /\ Own(g.cache, h.pend)
    <2>1. Own(h.cache, h.queue) /\ Own(h.cache, h.pend)
      BY DEF Lone
    <2> QED BY <1>1, <1>2, <2>1, OwnKept
  <1> QED BY <1>1, <1>3 DEF Lone

\* A completed turn is followed by the next of its conversation, or by a new one.
LEMMA ReplacedAlone ==
    ASSUME NEW g, StepType(g), NEW T, NEW q \in Decoder, q.id \notin T, Lone(g, T \cup {q.id}),
           g.cache.idx[q.id].len = q.prompt + q.max_tokens,
           NEW fate, NEW t, Replaced(g, q, fate, t), now \in Nat
    PROVE  Lone(t, T)
  <1> DEFINE P == Ids(g.pool)
             Q == Ids(g.queue)
             D == Ids(g.pend)
             x == q.id
  <1>1. /\ Single(g.pool) /\ Single(g.queue) /\ Single(g.pend) /\ Apart(P, Q, D, T \cup {x})
        /\ \A id \in P \cup Q \cup D \cup (T \cup {x}) : id \in Nat /\ id < g.next_id
        /\ Own(g.cache, g.queue) /\ Own(g.cache, g.pend)
    BY DEF Lone
  <1>2. g.queue \in Seq(Request) /\ g.pend \in Seq(Request) /\ g.next_id \in Nat
    BY DEF StepType
  <1>3. t.pool = g.pool /\ t.cache = g.cache
    BY DEF Replaced
  <1>4. CASE fate.returns
    <2> DEFINE r == maybe_return(q, fate.kind, now)
    <2>1. /\ t.queue = g.queue /\ t.pend = AddReturn(g.pend, r) /\ t.next_id = g.next_id
          /\ fate.kind \in LaterTurn
      BY <1>4 DEF Replaced
    <2>2. r \in Request /\ r.id = x /\ r.max_tokens > 0 /\ r.cached_prefix = q.prompt + q.max_tokens
      <3>1. r \in Request
        BY <2>1, Made
      <3>2. r.id = x /\ r.max_tokens = fate.kind.max_tokens /\ r.cached_prefix = q.prompt + q.max_tokens
        BY DEF maybe_return
      <3>3. fate.kind.max_tokens \in Nat \ {0}
        BY <2>1 DEF LaterTurn
      <3>4. fate.kind.max_tokens > 0
        BY <3>3
      <3> QED BY <3>1, <3>2, <3>4
    <2> HIDE DEF r
    <2>3. PICK i \in 1..(Len(g.pend) + 1) : AddReturn(g.pend, r) = InsertAt(g.pend, i, r)
      BY <1>2, <2>2, ReturnAdded
    <2>4. r.id \notin D
      BY <1>1, <2>2 DEF Apart
    <2>5. /\ Single(t.pend) /\ Ids(t.pend) = D \cup {x} /\ Range(t.pend) = Range(g.pend) \cup {r}
      BY <1>1, <1>2, <2>1, <2>2, <2>3, <2>4, IdsInserted
    <2>6. OwnIn(g.cache, r)
      BY <2>2 DEF OwnIn
    <2>7. Own(t.cache, t.pend)
      BY <1>1, <1>3, <2>2, <2>5, <2>6 DEF Own
    <2> HIDE DEF P, Q, D, x
    <2>8. Apart(P, Q, D \cup {x}, T) /\ \A id \in P \cup Q \cup (D \cup {x}) \cup T : id \in Nat /\ id < g.next_id
      <3>1. x \notin T
        BY DEF x
      <3> QED BY <1>1, <3>1 DEF Apart
    <2> QED BY <1>1, <1>3, <2>1, <2>5, <2>7, <2>8 DEF Lone, P, Q
  <1>5. CASE ~fate.returns
    <2> DEFINE r == fresh_arrival(g.next_id, fate.kind, now)
               y == g.next_id
    <2>1. /\ t.queue = Append(g.queue, r) /\ t.pend = g.pend /\ t.next_id = y + 1
          /\ fate.kind \in FirstTurn
      BY <1>5 DEF Replaced
    <2>2. r \in Request /\ r.id = y /\ r.max_tokens > 0 /\ r.turn = 0
      <3>1. r \in Request
        BY <1>2, <2>1, Made
      <3>2. r.id = y /\ r.max_tokens = fate.kind.max_tokens /\ r.turn = 0
        BY DEF fresh_arrival
      <3>3. fate.kind.max_tokens \in Nat \ {0}
        BY <2>1 DEF FirstTurn
      <3>4. fate.kind.max_tokens > 0
        BY <3>3
      <3> QED BY <3>1, <3>2, <3>4
    <2> HIDE DEF r
    <2>3. y \in Nat /\ ~(y < y)
      BY <1>2
    <2>4. y \notin P \cup Q \cup D \cup (T \cup {x})
      BY <1>1, <2>3
    <2>5. Single(t.queue) /\ Ids(t.queue) = Q \cup {y}
      BY <1>1, <1>2, <2>1, <2>2, <2>4, IdsAppended
    <2>6. Range(t.queue) = Range(g.queue) \cup {r}
      BY <1>2, <2>1, <2>2, Appended
    <2>7. Own(t.cache, t.queue)
      BY <1>1, <1>3, <2>2, <2>6 DEF Own, OwnIn
    <2>8. P \cup Q \cup D \cup T \subseteq Nat
      BY <1>1
    <2> HIDE DEF P, Q, D, x, y
    <2>9. Apart(P, Q \cup {y}, D, T)
      BY <1>1, <2>4 DEF Apart
    <2>10. \A id \in P \cup (Q \cup {y}) \cup D \cup T : id \in Nat /\ id < y + 1
      BY <1>1, <2>3, <2>8 DEF y
    <2> QED BY <1>1, <1>3, <2>1, <2>5, <2>7, <2>9, <2>10 DEF Lone, P, D
  <1> QED BY <1>4, <1>5

\* Those who leave the batch are apart from those who stay and all others.
LEMMA LeavesAlone ==
    ASSUME NEW s, StepType(s), NEW T, Lone(s, T), NEW g,
           g.pool = Stayers(s.pool), g.queue = s.queue, g.pend = s.pend, g.next_id = s.next_id,
           g.cache = s.cache
    PROVE  /\ Single(Leavers(s.pool)) /\ Ids(Leavers(s.pool)) \cap T = {}
           /\ Lone(g, T \cup Ids(Leavers(s.pool)))
  <1> DEFINE p == s.pool
             V == {q \in Range(p) : Done(q)}
             W == {q \in Range(p) : ~Done(q)}
             A == Ids(Leavers(p))
             B == Ids(Stayers(p))
             P == Ids(p)
             Q == Ids(s.queue)
             D == Ids(s.pend)
  <1>1. p \in Seq(Decoder) /\ Single(p)
    BY DEF StepType, Lone
  <1>2. Single(Only(p, V)) /\ Ids(Only(p, V)) = {q.id : q \in Range(p) \cap V}
    BY <1>1, IdsOnly
  <1>3. Single(Only(p, W)) /\ Ids(Only(p, W)) = {q.id : q \in Range(p) \cap W}
    BY <1>1, IdsOnly
  <1>4. A \cap B = {} /\ A \subseteq P /\ B \subseteq P
    <2>1. A = {q.id : q \in Range(p) \cap V} /\ B = {q.id : q \in Range(p) \cap W}
      BY <1>2, <1>3 DEF Leavers, Stayers
    <2>2. \A a, b \in Range(p) : a.id = b.id => a = b
      BY <1>1 DEF Single, Range
    <2>3. P = {q.id : q \in Range(p)}
      BY DEF Ids
    <2>4. V \cap W = {}
      OBVIOUS
    <2> HIDE DEF A, B, P, V, W
    <2> QED BY <2>1, <2>2, <2>3, <2>4
  <1>5. /\ Single(s.queue) /\ Single(s.pend) /\ Apart(P, Q, D, T)
        /\ \A id \in P \cup Q \cup D \cup T : id \in Nat /\ id < s.next_id
        /\ Own(s.cache, s.queue) /\ Own(s.cache, s.pend)
    BY DEF Lone
  <1>6. Single(Leavers(p)) /\ Single(Stayers(p))
    BY <1>2, <1>3 DEF Leavers, Stayers
  <1> HIDE DEF A, B, P, Q, D, V, W
  <1>7. A \cap T = {} /\ Apart(B, Q, D, T \cup A)
    BY <1>4, <1>5 DEF Apart
  <1>8. \A id \in B \cup Q \cup D \cup (T \cup A) : id \in Nat /\ id < s.next_id
    BY <1>4, <1>5
  <1> QED BY <1>5, <1>6, <1>7, <1>8 DEF Lone, A, B, Q, D

\* What is recorded of those who leave is their whole context.
Contexts(gone, kept) == \A k \in DOMAIN gone : kept[k] = gone[k].prompt + gone[k].max_tokens

\* Who is yet to leave after k are gone.
Later(gone, k) == {gone[j].id : j \in (k + 1)..Len(gone)}

\* c.s is the step that the loop starts from.
RetireBody(c, h, k) == RetireStep(c, h, k)
RetireInv(c, h, k) ==
    /\ StepType(h) /\ h.pool = c.s.pool /\ h.aff = c.s.aff
    /\ Len(h.queue) + Len(h.pend) = Len(c.s.queue) + Len(c.s.pend) + k
    /\ Range(c.s.queue) \subseteq Range(h.queue)
    /\ \A n \in Nodes : n # NodeOf(turn) => h.cache.used[n] <= c.s.cache.used[n]
    /\ \A T : Lone(c.s, T \cup Ids(c.gone)) /\ Ids(c.gone) \cap T = {} /\ Single(c.gone)
                  /\ Contexts(c.gone, c.kept)
              => Lone(h, T \cup Later(c.gone, k))
RetireLoop == INSTANCE LoopTheory WITH Step <- RetireBody, Inv <- RetireInv

\* A retirement with the fates of its leavers and what the cache is to record.
RetireCall(gone, fates, kept) ==
    /\ gone \in Seq(Decoder) /\ fates \in [DOMAIN gone -> Fates] /\ kept \in [DOMAIN gone -> Nat]

\* One completion.
LEMMA RetireStepKeeps ==
    ASSUME TypeInv, NEW c, RetireCall(c.gone, c.fates, c.kept),
           NEW k \in 0..(Len(c.gone) - 1), NEW h, RetireInv(c, h, k), StepType(c.s)
    PROVE  RetireInv(c, RetireBody(c, h, k + 1), k + 1)
  <1> DEFINE q == c.gone[k + 1]
             fate == c.fates[k + 1]
             len == c.kept[k + 1]
             d == Recorded(h.cache, NodeOf(turn), q.id, len, c.threshold)
             g == [h EXCEPT !.cache = Recorded(@, NodeOf(turn), q.id, len, c.threshold)]
             t == Departed(g, q, fate)
  <1>1. q \in Decoder /\ fate \in Fates /\ len \in Nat /\ k \in Nat
    <2>1. Len(c.gone) \in Nat /\ k + 1 \in DOMAIN c.gone
      BY DEF RetireCall
    <2> QED BY <2>1 DEF RetireCall
  <1>2. RetireBody(c, h, k + 1) = t
    BY DEF RetireBody, RetireStep
  <1>3. StepType(h) /\ Accounted(h.cache, Nodes) /\ NodeOf(turn) \in Nodes /\ q.id \in Nat /\ now \in Nat
    BY <1>1, DecoderTypes, TurnIsOfANode DEF RetireInv, StepType, TypeInv
  <1> HIDE DEF q, fate, len
  <1>4. /\ Accounted(d, Nodes) /\ d.budget = h.cache.budget /\ DOMAIN d.idx = DOMAIN h.cache.idx \cup {q.id}
        /\ \A n \in Nodes : n # NodeOf(turn) => d.used[n] <= h.cache.used[n]
    <2> DEFINE old == h.cache
               node == NodeOf(turn)
               id == q.id
               threshold == c.threshold
    <2>1. Accounted(old, Nodes) /\ node \in Nodes /\ len \in Nat
      BY <1>1, <1>3
    <2>2. d = Recorded(old, node, id, len, threshold)
      OBVIOUS
    <2> HIDE DEF d, old, node, id, threshold
    <2>4. LET e == Recorded(old, node, id, len, threshold)
          IN  /\ Accounted(e, Nodes) /\ e.budget = old.budget /\ DOMAIN e.idx = DOMAIN old.idx \cup {id}
              /\ \A n \in Nodes : e.used[n] <= old.used[n] \/ (n = node /\ e.used[n] <= old.budget[n])
      BY <2>1, RecordedAccounts
    <2>3. /\ Accounted(d, Nodes) /\ d.budget = old.budget /\ DOMAIN d.idx = DOMAIN old.idx \cup {id}
          /\ \A n \in Nodes : d.used[n] <= old.used[n] \/ (n = node /\ d.used[n] <= old.budget[n])
      BY <2>2, <2>4
    <2> QED BY <2>3 DEF old, node, id
  <1>5. g = [pool |-> h.pool, queue |-> h.queue, aff |-> h.aff, pend |-> h.pend,
             cache |-> d, next_id |-> h.next_id]
    <2>1. h = [pool |-> h.pool, queue |-> h.queue, aff |-> h.aff, pend |-> h.pend,
               cache |-> h.cache, next_id |-> h.next_id]
      BY <1>3 DEF StepType
    <2>2. g = [h EXCEPT !.cache = d]
      OBVIOUS
    <2> HIDE DEF g, d
    <2> QED BY <2>1, <2>2
  <1> HIDE DEF d, g
  <1>6. StepType(g)
    BY <1>3, <1>4, <1>5 DEF StepType
  <1>7. /\ StepType(t) /\ t.pool = g.pool /\ t.aff = g.aff /\ t.cache = g.cache
        /\ Len(t.queue) + Len(t.pend) = Len(g.queue) + Len(g.pend) + 1
        /\ Range(g.queue) \subseteq Range(t.queue)
    BY <1>1, <1>3, <1>6, DepartedKeeps DEF Replaced
  <1> HIDE DEF t
  <1>8. Len(t.queue) + Len(t.pend) = Len(c.s.queue) + Len(c.s.pend) + (k + 1)
    <2> DEFINE a == Len(t.queue) + Len(t.pend)
               b == Len(h.queue) + Len(h.pend)
               e == Len(c.s.queue) + Len(c.s.pend)
    <2>1. Len(c.s.queue) \in Nat /\ Len(c.s.pend) \in Nat
      BY Sizes
    <2>2. b = e + k
      BY DEF RetireInv
    <2>3. g.queue = h.queue /\ g.pend = h.pend
      BY <1>5
    <2>4. a = b + 1
      BY <1>7, <2>3
    <2>5. e \in Nat
      <3> DEFINE e1 == Len(c.s.queue)
                 e2 == Len(c.s.pend)
      <3>1. e1 \in Nat /\ e2 \in Nat
        BY <2>1
      <3> HIDE DEF e1, e2
      <3>2. e1 + e2 \in Nat
        BY <3>1
      <3> QED BY <3>2 DEF e1, e2
    <2> HIDE DEF a, b, e
    <2>6. a = e + (k + 1)
      BY <1>1, <2>2, <2>4, <2>5
    <2> QED BY <2>6 DEF a, e
  <1>9. \A n \in Nodes : n # NodeOf(turn) => t.cache.used[n] <= c.s.cache.used[n]
    <2> TAKE n \in Nodes
    <2> HAVE n # NodeOf(turn)
    <2>1. t.cache.used[n] <= h.cache.used[n] /\ h.cache.used[n] <= c.s.cache.used[n]
      BY <1>4, <1>5, <1>7 DEF RetireInv
    <2>2. t.cache.used[n] \in Nat /\ h.cache.used[n] \in Nat /\ c.s.cache.used[n] \in Nat
      BY <1>3, <1>7 DEF StepType, Accounted
    <2> DEFINE x == t.cache.used[n]
               y == h.cache.used[n]
               z == c.s.cache.used[n]
    <2> HIDE DEF x, y, z
    <2>3. x <= z
      BY <2>1, <2>2 DEF x, y, z
    <2> QED BY <2>3 DEF x, z
  <1>10. h.pool = c.s.pool /\ h.aff = c.s.aff /\ Range(c.s.queue) \subseteq Range(h.queue)
    BY DEF RetireInv
  <1>11. ASSUME NEW T, Lone(c.s, T \cup Ids(c.gone)), Ids(c.gone) \cap T = {}, Single(c.gone),
                Contexts(c.gone, c.kept)
         PROVE  Lone(t, T \cup Later(c.gone, k + 1))
    <2> DEFINE x == q.id
               now_k == T \cup Later(c.gone, k)
               L == T \cup Later(c.gone, k + 1)
               n == Len(c.gone)
    <2>1. /\ n \in Nat /\ k + 1 \in 1..n /\ DOMAIN c.gone = 1..n
          /\ Later(c.gone, k) = {c.gone[j].id : j \in (k + 1)..n}
          /\ Later(c.gone, k + 1) = {c.gone[j].id : j \in ((k + 1) + 1)..n}
      <3>1. n \in Nat /\ DOMAIN c.gone = 1..n
        BY DEF RetireCall
      <3> HIDE DEF n
      <3>2. k + 1 \in 1..n
        BY <1>1, <3>1 DEF n
      <3> QED BY <3>1, <3>2 DEF Later, n
    <2>2. x = c.gone[k + 1].id /\ len = q.prompt + q.max_tokens
      <3>1. x = c.gone[k + 1].id
        BY DEF q
      <3>2. len = q.prompt + q.max_tokens
        BY <1>11, <2>1 DEF q, len, Contexts
      <3> QED BY <3>1, <3>2
    <2> HIDE DEF x, n
    <2>3. now_k = L \cup {x} /\ x \notin L
      <3>1. \A j \in (k + 1)..n : j = k + 1 \/ j \in ((k + 1) + 1)..n
        BY <1>1, <2>1
      <3>2. \A j \in ((k + 1) + 1)..n : j \in (k + 1)..n /\ j \in 1..n /\ j # k + 1
        BY <1>1, <2>1
      <3>3. k + 1 \in (k + 1)..n
        BY <1>1, <2>1
      <3>4. Later(c.gone, k) = Later(c.gone, k + 1) \cup {x}
        BY <2>1, <2>2, <3>1, <3>2, <3>3
      <3>5. x \notin Later(c.gone, k + 1)
        <4>1. \A j \in ((k + 1) + 1)..n : c.gone[j].id # c.gone[k + 1].id
          BY <1>11, <2>1, <3>2 DEF Single
        <4> QED BY <2>1, <2>2, <4>1
      <3>6. x \notin T
        BY <1>11, <2>1, <2>2 DEF Ids, Range
      <3> QED BY <3>4, <3>5, <3>6
    <2>4. Lone(h, now_k)
      BY <1>11 DEF RetireInv
    <2> HIDE DEF now_k, L
    <2>5. Lone(h, L \cup {x}) /\ x \in L \cup {x}
      BY <2>3, <2>4
    <2>6. /\ g.pool = h.pool /\ g.queue = h.queue /\ g.pend = h.pend /\ g.next_id = h.next_id
          /\ g.cache = Recorded(h.cache, NodeOf(turn), q.id, len, c.threshold)
      BY <1>5 DEF d
    <2>7. Lone(g, L \cup {x}) /\ g.cache.idx[q.id].len = q.prompt + q.max_tokens
      BY <1>1, <1>3, <2>2, <2>5, <2>6, RecordsAlone DEF x
    <2>8. Replaced(g, q, fate, t)
      BY <1>1, <1>3, <1>6, DepartedKeeps DEF t
    <2>9. Lone(t, L)
      BY <1>1, <1>3, <1>6, <2>3, <2>7, <2>8, ReplacedAlone DEF x
    <2> QED BY <2>9 DEF L
  <1>12. RetireInv(c, t, k + 1)
    BY <1>5, <1>7, <1>8, <1>9, <1>10, <1>11 DEF RetireInv
  <1> QED BY <1>2, <1>12

\* All completions of a batch.
LEMMA RetiredKeeps ==
    ASSUME TypeInv, NEW s, StepType(s), NEW fates, NEW kept, NEW threshold,
           RetireCall(Leavers(s.pool), fates, kept)
    PROVE  LET h == Retired(s, fates, kept, threshold)
           IN  /\ StepType(h) /\ h.pool = Stayers(s.pool) /\ h.aff = s.aff
               /\ Len(h.queue) + Len(h.pend) = Len(s.queue) + Len(s.pend) + Len(Leavers(s.pool))
               /\ Range(s.queue) \subseteq Range(h.queue)
               /\ \A n \in Nodes : n # NodeOf(turn) => h.cache.used[n] <= s.cache.used[n]
               /\ Contexts(Leavers(s.pool), kept) => \A T : Lone(s, T) => Lone(h, T)
  <1> DEFINE gone == Leavers(s.pool)
             loop == [gone |-> gone, fates |-> fates, kept |-> kept, threshold |-> threshold]
             p == Stayers(s.pool)
             start == [s EXCEPT !.pool = Stayers(@)]
             c == [gone |-> gone, fates |-> fates, kept |-> kept, threshold |-> threshold, s |-> start]
             n == Len(gone)
  <1>1. p \in Seq(Decoder) /\ gone \in Seq(Decoder) /\ n \in Nat
    BY BatchParts DEF StepType
  <1>2. start = [pool |-> p, queue |-> s.queue, aff |-> s.aff, pend |-> s.pend,
                 cache |-> s.cache, next_id |-> s.next_id]
    <2>1. s = [pool |-> s.pool, queue |-> s.queue, aff |-> s.aff, pend |-> s.pend,
               cache |-> s.cache, next_id |-> s.next_id]
      BY DEF StepType
    <2>2. start = [s EXCEPT !.pool = p]
      OBVIOUS
    <2> HIDE DEF p, start
    <2> QED BY <2>1, <2>2
  <1>4. /\ c.gone = gone /\ c.fates = fates /\ c.kept = kept /\ c.threshold = threshold /\ c.s = start
        /\ loop.gone = gone /\ loop.fates = fates /\ loop.kept = kept /\ loop.threshold = threshold
    OBVIOUS
  <1>3. Retired(s, fates, kept, threshold) = RetireLoop!Loop(c, n, start)
    <2>1. \A h, k : RetireBody(loop, h, k) = RetireBody(c, h, k)
      BY <1>4 DEF RetireBody, RetireStep
    <2>2. Retired(s, fates, kept, threshold)
              = Iterate(Len(loop.gone), LAMBDA h, k : RetireStep(loop, h, k), start)
      BY DEF Retired
    <2>3. Len(loop.gone) = n
      BY <1>4
    <2> HIDE DEF loop, c, start, n
    <2>4. RetireLoop!Loop(loop, n, start) = Iterate(n, LAMBDA h, k : RetireStep(loop, h, k), start)
      BY DEF RetireLoop!Loop, RetireLoop!Iterate, Iterate, RetireBody
    <2>5. RetireLoop!Loop(loop, n, start) = RetireLoop!Loop(c, n, start)
      BY <1>1, <2>1, RetireLoop!SameBody
    <2> QED BY <2>2, <2>3, <2>4, <2>5
  <1> HIDE DEF p, start, loop, c, n
  <1>5. StepType(start)
    BY <1>1, <1>2 DEF StepType
  <1>6. RetireInv(c, start, 0)
    <2>1. Len(start.queue) \in Nat /\ Len(start.pend) \in Nat /\ start.cache.used \in [Nodes -> Nat]
      BY <1>5, Sizes DEF StepType, Accounted
    <2>2. \A m \in Nodes : start.cache.used[m] <= start.cache.used[m]
      BY <2>1
    <2>3. Later(c.gone, 0) = Ids(c.gone)
      <3>1. Later(c.gone, 0) = {c.gone[j].id : j \in 1..Len(c.gone)}
        BY DEF Later
      <3>2. DOMAIN c.gone = 1..Len(c.gone)
        BY <1>1, <1>4
      <3> QED BY <3>1, <3>2 DEF Ids, Range
    <2>4. c.s = start
      BY <1>4
    <2>5. \A T : Lone(c.s, T \cup Ids(c.gone)) => Lone(start, T \cup Later(c.gone, 0))
      BY <2>3, <2>4
    <2>6. /\ StepType(start) /\ start.pool = c.s.pool /\ start.aff = c.s.aff
          /\ Len(start.queue) + Len(start.pend) = Len(c.s.queue) + Len(c.s.pend) + 0
          /\ Range(c.s.queue) \subseteq Range(start.queue)
          /\ \A m \in Nodes : m # NodeOf(turn) => start.cache.used[m] <= c.s.cache.used[m]
      BY <1>5, <2>1, <2>2, <2>4
    <2> QED BY <2>5, <2>6 DEF RetireInv
  <1>7. RetireCall(c.gone, c.fates, c.kept) /\ Len(c.gone) = n
    BY <1>4 DEF n
  <1>8. ASSUME NEW k \in 0..(n - 1), NEW h, RetireInv(c, h, k)
        PROVE  RetireInv(c, RetireBody(c, h, k + 1), k + 1)
    BY <1>4, <1>5, <1>7, <1>8, RetireStepKeeps
  <1>9. RetireInv(c, RetireLoop!Loop(c, n, start), n)
    BY <1>1, <1>6, <1>8, RetireLoop!LoopInvariant
  <1> DEFINE h == Retired(s, fates, kept, threshold)
  <1>10. h = RetireLoop!Loop(c, n, start)
    BY <1>3
  <1> HIDE DEF h
  <1>11. RetireInv(c, h, n)
    BY <1>9, <1>10
  <1>12. /\ StepType(h) /\ h.pool = Stayers(s.pool) /\ h.aff = s.aff
         /\ Len(h.queue) + Len(h.pend) = Len(s.queue) + Len(s.pend) + Len(Leavers(s.pool))
         /\ Range(s.queue) \subseteq Range(h.queue)
         /\ \A m \in Nodes : m # NodeOf(turn) => h.cache.used[m] <= s.cache.used[m]
    <2>1. /\ StepType(h) /\ h.pool = start.pool /\ h.aff = start.aff
          /\ Len(h.queue) + Len(h.pend) = Len(start.queue) + Len(start.pend) + n
          /\ Range(start.queue) \subseteq Range(h.queue)
          /\ \A m \in Nodes : m # NodeOf(turn) => h.cache.used[m] <= start.cache.used[m]
      BY <1>4, <1>11 DEF RetireInv
    <2>2. start.pool = p /\ start.aff = s.aff /\ start.queue = s.queue /\ start.pend = s.pend
          /\ start.cache = s.cache
      BY <1>2
    <2> QED BY <2>1, <2>2 DEF p, n
  <1>13. ASSUME Contexts(gone, kept), NEW T, Lone(s, T) PROVE Lone(h, T)
    <2>1. /\ start.pool = Stayers(s.pool) /\ start.queue = s.queue /\ start.pend = s.pend
          /\ start.next_id = s.next_id /\ start.cache = s.cache
      BY <1>2 DEF p
    <2>2. Single(gone) /\ Ids(gone) \cap T = {} /\ Lone(start, T \cup Ids(gone))
      BY <1>13, <2>1, LeavesAlone
    <2>3. Lone(h, T \cup Later(c.gone, n))
      BY <1>4, <1>11, <1>13, <2>2 DEF RetireInv
    <2>4. Later(c.gone, n) = {}
      <3>1. (n + 1)..n = {}
        BY <1>1
      <3> QED BY <1>7, <3>1 DEF Later
    <2>5. T \cup Later(c.gone, n) = T
      BY <2>4
    <2> QED BY <2>3, <2>5
  <1> QED BY <1>12, <1>13 DEF h
-----------------------------------------------------------------------------
(* Healing a batch, in csched and baseline.                                *)

\* c.gone are the members whose holes are filled, c.s what their retiring left.
CschedHeal(c, h, k) == HealHole(h, turn, c.gone[k].prompt)
CschedHealInv(c, h, k) ==
    /\ Fed(c.s, h) /\ Forced(c.s.queue, h.queue)
    /\ Len(h.pool) <= Len(c.s.pool) + k
    /\ Len(h.pool) = Len(c.s.pool) + k \/ (NoneFor(h.queue, now) /\ h.aff[turn] = <<>>)
CschedHealLoop == INSTANCE LoopTheory WITH Step <- CschedHeal, Inv <- CschedHealInv

BaselineHeal(c, h, k) == EnterPulled(h, pull_near(h.queue, <<c.gone[k].prompt, 1>>, cap_room))
BaselineHealInv(c, h, k) ==
    /\ Fed(c.s, h)
    /\ Len(h.pool) <= Len(c.s.pool) + k
    /\ Len(h.pool) = Len(c.s.pool) + k \/ Fitting(h.queue, cap_room) = {}
BaselineHealLoop == INSTANCE LoopTheory WITH Step <- BaselineHeal, Inv <- BaselineHealInv

LEMMA CschedHealStep ==
    ASSUME TypeInv, driver = "csched", NEW c, StepType(c.s), c.gone \in Seq(Decoder),
           NEW k \in 0..(Len(c.gone) - 1), NEW h, CschedHealInv(c, h, k)
    PROVE  CschedHealInv(c, CschedHeal(c, h, k + 1), k + 1)
  <1> DEFINE t == CschedHeal(c, h, k + 1)
             hole == c.gone[k + 1].prompt
             Dry(s) == NoneFor(s.queue, now) /\ s.aff[turn] = <<>>
             n == Len(h.pool)
             m == Len(c.s.pool)
  <1>1. hole \in Nat /\ k \in Nat
    <2>1. Len(c.gone) \in Nat /\ c.gone[k + 1] \in Decoder /\ k \in Nat
      BY SeqElements
    <2> QED BY <2>1, DecoderTypes
  <1>2. turn \in Nodes /\ now \in Nat
    BY TurnIsOfANode DEF NodeOf, TypeInv
  <1>3. StepType(h) /\ Fed(c.s, h) /\ Forced(c.s.queue, h.queue) /\ n <= m + k /\ (n = m + k \/ Dry(h))
    BY DEF CschedHealInv, Fed
  <1>4. m \in Nat /\ Len(c.s.queue) \in Nat /\ Waiters(c.s.aff) \in Nat /\ n \in Nat
        /\ c.s.queue \in Seq(Request) /\ h.queue \in Seq(Request) /\ Range(c.s.queue) \subseteq Request
    BY <1>3, Sizes, SeqElements DEF StepType
  <1> HIDE DEF n, m
  <1>5. CASE h.aff[turn] # <<>>
    <2>1. t = EnterWaiter(h, turn)
      BY <1>5 DEF CschedHeal, HealHole
    <2> HIDE DEF t, hole
    <2>2. PICK i \in DOMAIN h.aff[turn] : FromWaiters(h, t, turn, i)
      BY <1>2, <1>3, <1>5, <2>1, WaiterEnters
    <2>3. Fed(c.s, t) /\ Len(t.pool) = n + 1
      BY <1>2, <1>3, <1>4, <2>2, FedFromWaiters DEF m, n
    <2>4. t.queue = h.queue
      BY <2>2 DEF FromWaiters
    <2>5. n + 1 = m + (k + 1) /\ n + 1 <= m + (k + 1)
      BY <1>1, <1>3, <1>4, <1>5
    <2>6. CschedHealInv(c, t, k + 1)
      BY <1>3, <2>3, <2>4, <2>5 DEF CschedHealInv, m
    <2> QED BY <2>6 DEF t
  <1>6. CASE h.aff[turn] = <<>>
    <2> DEFINE ideal == <<hole, 1>>
    <2>1. t = EnterPulled(h, pull_slot(h.queue, ideal, cap_room, now, global_age_cap))
      BY <1>6 DEF CschedHeal, HealHole
    <2>2. ideal[1] \in Int /\ ideal[2] \in Int
      BY <1>1
    <2> HIDE DEF t, hole, ideal
    <2>3. \/ t = h /\ NoneFor(h.queue, now)
          \/ /\ ~NoneFor(h.queue, now)
             /\ \E i \in DOMAIN h.queue :
                    /\ FromQueue(h, t, i)
                    /\ Overdue(h.queue, now, global_age_cap) # {} =>
                           \A j \in DOMAIN h.queue : h.queue[i].arrival <= h.queue[j].arrival
      BY <1>2, <1>3, <2>1, <2>2, SlotEnters
    <2>4. CASE t = h /\ NoneFor(h.queue, now)
      <3>1. n <= m + (k + 1)
        BY <1>1, <1>3, <1>4
      <3> QED BY <1>3, <1>6, <2>4, <3>1 DEF CschedHealInv, m, n, t
    <2>5. CASE ~NoneFor(h.queue, now)
      <3>1. PICK i \in DOMAIN h.queue :
                /\ FromQueue(h, t, i)
                /\ Overdue(h.queue, now, global_age_cap) # {} =>
                       \A j \in DOMAIN h.queue : h.queue[i].arrival <= h.queue[j].arrival
        BY <2>3, <2>5
      <3>2. Fed(c.s, t) /\ Len(t.pool) = n + 1
        BY <1>3, <1>4, <3>1, FedFromQueue DEF m, n
      <3>3. Forced(c.s.queue, Without(h.queue, i))
        BY <1>2, <1>3, <1>4, <3>1, ForcedRemoval
      <3>4. t.queue = Without(h.queue, i)
        BY <3>1 DEF FromQueue
      <3>5. n + 1 = m + (k + 1) /\ n + 1 <= m + (k + 1)
        BY <1>1, <1>3, <1>4, <2>5
      <3>6. CschedHealInv(c, t, k + 1)
        BY <3>2, <3>3, <3>4, <3>5 DEF CschedHealInv, m
      <3> QED BY <3>6 DEF t
    <2> QED BY <2>3, <2>4, <2>5
  <1> QED BY <1>5, <1>6

\* The holes of gone in csched, filled from s.
LEMMA CschedHealed ==
    ASSUME TypeInv, driver = "csched", NEW s, StepType(s), NEW gone \in Seq(Decoder)
    PROVE  CschedHealInv([gone |-> gone, s |-> s],
               Iterate(Len(gone), LAMBDA h, k : HealHole(h, turn, gone[k].prompt), s), Len(gone))
  <1> DEFINE c == [gone |-> gone, s |-> s]
             n == Len(gone)
  <1>1. CschedHealLoop!Loop(c, n, s) = Iterate(n, LAMBDA h, k : HealHole(h, turn, gone[k].prompt), s)
    BY DEF CschedHealLoop!Loop, CschedHealLoop!Iterate, Iterate, CschedHeal
  <1>2. c.gone = gone /\ c.s = s /\ n \in Nat
    OBVIOUS
  <1> HIDE DEF c
  <1>3. CschedHealInv(c, s, 0)
    <2>1. Len(s.pool) \in Nat
      BY Sizes
    <2> QED BY <1>2, <2>1, FedNothing DEF CschedHealInv
  <1>4. ASSUME NEW k \in 0..(n - 1), NEW h, CschedHealInv(c, h, k)
        PROVE  CschedHealInv(c, CschedHeal(c, h, k + 1), k + 1)
    BY <1>2, <1>4, CschedHealStep
  <1> HIDE DEF n
  <1>5. CschedHealInv(c, CschedHealLoop!Loop(c, n, s), n)
    BY <1>2, <1>3, <1>4, CschedHealLoop!LoopInvariant
  <1> QED BY <1>1, <1>5 DEF c, n

LEMMA BaselineHealStep ==
    ASSUME TypeInv, NEW c, StepType(c.s), c.gone \in Seq(Decoder),
           NEW k \in 0..(Len(c.gone) - 1), NEW h, BaselineHealInv(c, h, k)
    PROVE  BaselineHealInv(c, BaselineHeal(c, h, k + 1), k + 1)
  <1> DEFINE t == BaselineHeal(c, h, k + 1)
             hole == c.gone[k + 1].prompt
             ideal == <<hole, 1>>
             n == Len(h.pool)
             m == Len(c.s.pool)
  <1>1. hole \in Nat /\ k \in Nat
    <2>1. Len(c.gone) \in Nat /\ c.gone[k + 1] \in Decoder /\ k \in Nat
      BY SeqElements
    <2> QED BY <2>1, DecoderTypes
  <1>2. ideal[1] \in Int /\ ideal[2] \in Int
    BY <1>1
  <1>3. StepType(h) /\ Fed(c.s, h) /\ n <= m + k /\ (n = m + k \/ Fitting(h.queue, cap_room) = {})
    BY DEF BaselineHealInv, Fed
  <1>4. m \in Nat /\ Len(c.s.queue) \in Nat /\ Waiters(c.s.aff) \in Nat /\ n \in Nat
    BY <1>3, Sizes
  <1>5. t = EnterPulled(h, pull_near(h.queue, ideal, cap_room))
    BY DEF BaselineHeal
  <1> HIDE DEF n, m, t, ideal, hole
  <1>6. \/ t = h /\ Fitting(h.queue, cap_room) = {}
        \/ Fitting(h.queue, cap_room) # {} /\ \E i \in DOMAIN h.queue : FromQueue(h, t, i)
    BY <1>2, <1>3, <1>5, NearEnters
  <1>7. CASE t = h /\ Fitting(h.queue, cap_room) = {}
    <2>1. n <= m + (k + 1)
      BY <1>1, <1>3, <1>4
    <2> QED BY <1>3, <1>7, <2>1 DEF BaselineHealInv, m, n, t
  <1>8. CASE Fitting(h.queue, cap_room) # {}
    <2>1. PICK i \in DOMAIN h.queue : FromQueue(h, t, i)
      BY <1>6, <1>8
    <2>2. Fed(c.s, t) /\ Len(t.pool) = n + 1
      BY <1>3, <1>4, <2>1, FedFromQueue DEF m, n
    <2>3. n + 1 = m + (k + 1) /\ n + 1 <= m + (k + 1)
      BY <1>1, <1>3, <1>4, <1>8
    <2>4. BaselineHealInv(c, t, k + 1)
      BY <2>2, <2>3 DEF BaselineHealInv, m
    <2> QED BY <2>4 DEF t
  <1> QED BY <1>6, <1>7, <1>8

\* The holes of gone in baseline, filled from s.
LEMMA BaselineHealed ==
    ASSUME TypeInv, NEW s, StepType(s), NEW gone \in Seq(Decoder)
    PROVE  BaselineHealInv([gone |-> gone, s |-> s],
               Iterate(Len(gone), LAMBDA h, k :
                   EnterPulled(h, pull_near(h.queue, <<gone[k].prompt, 1>>, cap_room)), s), Len(gone))
  <1> DEFINE c == [gone |-> gone, s |-> s]
             n == Len(gone)
  <1>1. BaselineHealLoop!Loop(c, n, s) =
            Iterate(n, LAMBDA h, k : EnterPulled(h, pull_near(h.queue, <<gone[k].prompt, 1>>, cap_room)), s)
    BY DEF BaselineHealLoop!Loop, BaselineHealLoop!Iterate, Iterate, BaselineHeal
  <1>2. c.gone = gone /\ c.s = s /\ n \in Nat
    OBVIOUS
  <1> HIDE DEF c
  <1>3. BaselineHealInv(c, s, 0)
    <2>1. Len(s.pool) \in Nat
      BY Sizes
    <2> QED BY <1>2, <2>1, FedNothing DEF BaselineHealInv
  <1>4. ASSUME NEW k \in 0..(n - 1), NEW h, BaselineHealInv(c, h, k)
        PROVE  BaselineHealInv(c, BaselineHeal(c, h, k + 1), k + 1)
    BY <1>2, <1>4, BaselineHealStep
  <1> HIDE DEF n
  <1>5. BaselineHealInv(c, BaselineHealLoop!Loop(c, n, s), n)
    BY <1>2, <1>3, <1>4, BaselineHealLoop!LoopInvariant
  <1> QED BY <1>1, <1>5 DEF c, n
-----------------------------------------------------------------------------
(* Refilling a batch, in prepo.                                            *)

\* Nothing is left for a batch that fills up by length, or with the age cap.
Dry(aged, q) == IF aged THEN NoneFor(q, now) ELSE Fitting(q, cap_room) = {}

\* c.s is the step that the loop starts from; c.aged tells the two pulls apart.
RefillInv(c, h, k) ==
    /\ h.pp = [sum |-> h.pp.sum, slots_left |-> h.pp.slots_left, kv_target |-> h.pp.kv_target]
    /\ h.pp.sum \in Int /\ h.pp.slots_left \in Int /\ h.pp.kv_target \in Int
    /\ Fed(c.s, h.s)
    /\ c.aged => Forced(c.s.queue, h.s.queue)
    /\ Len(h.s.pool) + h.pp.slots_left = op.decode_count_target
    /\ Len(h.s.pool) <= op.decode_count_target
    /\ \/ Len(h.s.pool) = op.decode_count_target
       \/ Len(h.s.pool) = Len(c.s.pool) + k
       \/ Dry(c.aged, h.s.queue)
    /\ KeepsAlone(c.s, h.s)

NearSlot(c, h, k) == Slot(h, pull_near(h.s.queue, next_ideal(h.pp), cap_room))
AgedSlot(c, h, k) == Slot(h, pull_slot(h.s.queue, next_ideal(h.pp), cap_room, now, global_age_cap))
NearRefill == INSTANCE LoopTheory WITH Step <- NearSlot, Inv <- RefillInv
AgedRefill == INSTANCE LoopTheory WITH Step <- AgedSlot, Inv <- RefillInv

\* One slot: the pull finds nothing, or what it finds enters.
LEMMA SlotKeeps ==
    ASSUME TypeInv, NEW c, StepType(c.s), NEW k \in Nat, NEW h, RefillInv(c, h, k), NEW pulled,
           \/ /\ pulled.r = None /\ Dry(c.aged, h.s.queue)
           \/ /\ ~Dry(c.aged, h.s.queue)
              /\ \E i \in DOMAIN h.s.queue :
                     /\ pulled = take(h.s.queue, i)
                     /\ c.aged /\ Overdue(h.s.queue, now, global_age_cap) # {} =>
                            \A j \in DOMAIN h.s.queue : h.s.queue[i].arrival <= h.s.queue[j].arrival
    PROVE  RefillInv(c, Slot(h, pulled), k + 1)
  <1> DEFINE n == Len(h.s.pool)
             m == Len(c.s.pool)
             slots == h.pp.slots_left
             target == op.decode_count_target
  <1>1. /\ StepType(h.s) /\ Fed(c.s, h.s) /\ (c.aged => Forced(c.s.queue, h.s.queue))
        /\ n + slots = target /\ n <= target /\ slots \in Int
        /\ (n = target \/ n = m + k \/ Dry(c.aged, h.s.queue))
    BY DEF RefillInv, Fed
  <1>2. /\ m \in Nat /\ Len(c.s.queue) \in Nat /\ Waiters(c.s.aff) \in Nat /\ n \in Nat
        /\ c.s.queue \in Seq(Request) /\ h.s.queue \in Seq(Request) /\ Range(c.s.queue) \subseteq Request
        /\ target \in Nat /\ now \in Nat
    BY <1>1, Sizes, SeqElements, Numbers DEF StepType, TypeInv
  <1> HIDE DEF n, m, slots, target
  <1>3. CASE slots <= 0
    <2>1. Slot(h, pulled) = h
      BY <1>3 DEF Slot, slots
    <2>2. n = target
      BY <1>1, <1>2, <1>3
    <2> QED BY <2>1, <2>2 DEF RefillInv, n, target
  <1>4. CASE pulled.r = None /\ Dry(c.aged, h.s.queue)
    <2>1. Slot(h, pulled) = h
      BY <1>4 DEF Slot
    <2> QED BY <1>4, <2>1 DEF RefillInv
  <1>5. CASE ~(slots <= 0) /\ ~Dry(c.aged, h.s.queue)
    <2>1. PICK i \in DOMAIN h.s.queue :
              /\ pulled = take(h.s.queue, i)
              /\ c.aged /\ Overdue(h.s.queue, now, global_age_cap) # {} =>
                     \A j \in DOMAIN h.s.queue : h.s.queue[i].arrival <= h.s.queue[j].arrival
      BY <1>5
    <2>2. pulled.r = h.s.queue[i] /\ pulled.r \in Request /\ pulled.r # None
      <3>1. h.s.queue[i] \in Request
        BY <1>2, SeqElements
      <3> QED BY <2>1, <3>1, RequestTypes DEF take
    <2> DEFINE t == EnterPulled(h.s, pulled)
               pp == place(h.pp, pulled.r.prompt)
               g == [s |-> t, pp |-> pp]
    <2>3. Slot(h, pulled) = g
      BY <1>5, <2>2 DEF Slot, slots
    <2>4. FromQueue(h.s, t, i)
      BY <1>1, <2>1, PulledEnters
    <2>5. /\ pp = [sum |-> pp.sum, slots_left |-> pp.slots_left, kv_target |-> pp.kv_target]
          /\ pp.sum \in Int /\ pp.kv_target \in Int /\ pp.slots_left = slots - 1
      <3> DEFINE len == pulled.r.prompt
                 a == h.pp.sum
                 b == h.pp.slots_left
                 d == h.pp.kv_target
      <3>1. len \in Nat
        BY <2>2, RequestTypes
      <3>2. h.pp = [sum |-> a, slots_left |-> b, kv_target |-> d] /\ a \in Int /\ b \in Int /\ d \in Int
        BY DEF RefillInv
      <3> HIDE DEF len, a, b, d
      <3>4. pp = [[h.pp EXCEPT !.sum = @ + len] EXCEPT !.slots_left = @ - 1]
        BY DEF place, len
      <3>5. [h.pp EXCEPT !.sum = @ + len] = [sum |-> a + len, slots_left |-> b, kv_target |-> d]
        BY <3>2
      <3> HIDE DEF pp
      <3>3. pp = [sum |-> a + len, slots_left |-> b - 1, kv_target |-> d]
        BY <3>4, <3>5
      <3> QED BY <3>1, <3>2, <3>3 DEF slots, b
    <2> HIDE DEF t, pp
    <2>6. Fed(c.s, t) /\ Len(t.pool) = n + 1
      BY <1>1, <1>2, <2>4, FedFromQueue DEF m, n
    <2>7. c.aged => Forced(c.s.queue, t.queue)
      <3> SUFFICES ASSUME c.aged PROVE Forced(c.s.queue, t.queue)
        OBVIOUS
      <3>1. Forced(c.s.queue, Without(h.s.queue, i))
        BY <1>1, <1>2, <2>1, ForcedRemoval
      <3> QED BY <2>4, <3>1 DEF FromQueue
    <2>8. /\ slots - 1 \in Int /\ (n + 1) + (slots - 1) = target /\ n + 1 <= target
          /\ n + 1 = target \/ n + 1 = m + (k + 1)
      BY <1>1, <1>2, <1>5
    <2>9. g.s = t /\ g.pp = pp
      OBVIOUS
    <2> HIDE DEF g
    <2>10. KeepsAlone(c.s, t)
      <3>1. KeepsAlone(c.s, h.s)
        BY DEF RefillInv
      <3> SUFFICES ASSUME NEW T, Lone(c.s, T), Going(c.s.pool) PROVE Lone(t, T) /\ Going(t.pool)
        BY DEF KeepsAlone
      <3>2. Lone(h.s, T) /\ Going(h.s.pool)
        BY <3>1 DEF KeepsAlone
      <3> QED BY <1>1, <2>4, <3>2, EntersAlone
    <2>11. RefillInv(c, g, k + 1)
      BY <2>5, <2>6, <2>7, <2>8, <2>9, <2>10 DEF RefillInv, m, target
    <2> QED BY <2>3, <2>11
  <1> QED BY <1>3, <1>4, <1>5

\* The next ideal length is a fraction of whole numbers.
LEMMA NextIdeal ==
    ASSUME NEW c, NEW h, NEW k, RefillInv(c, h, k)
    PROVE  next_ideal(h.pp)[1] \in Int /\ next_ideal(h.pp)[2] \in Int
  <1> DEFINE a == h.pp.sum
             b == h.pp.slots_left
             d == h.pp.kv_target
  <1>1. a \in Int /\ b \in Int /\ d \in Int
    BY DEF RefillInv
  <1>2. next_ideal(h.pp) = <<d - a, b>>
    BY DEF next_ideal
  <1> HIDE DEF a, b, d
  <1> QED BY <1>1, <1>2

\* The composer of a batch starts with the members it has.
LEMMA RefillStarts ==
    ASSUME NEW s, StepType(s), Len(s.pool) <= op.decode_count_target, NEW aged \in BOOLEAN
    PROVE  RefillInv([s |-> s, aged |-> aged],
                     [s |-> s, pp |-> Preposition(LiveSum(s.pool), Len(s.pool), op)], 0)
  <1> DEFINE pp == Preposition(LiveSum(s.pool), Len(s.pool), op)
             live == LiveSum(s.pool)
             n == Len(s.pool)
             target == op.decode_count_target
             kv == op.kv_operating_target
             c == [s |-> s, aged |-> aged]
             h == [s |-> s, pp |-> pp]
  <1>1. live \in Nat /\ n \in Nat /\ target \in Nat /\ kv \in Nat /\ n <= target
    BY Sizes, LiveSumIsNumber, Numbers DEF StepType
  <1>2. pp = [sum |-> live, slots_left |-> target - n, kv_target |-> kv]
    BY DEF Preposition
  <1> HIDE DEF live, n, target, kv, pp
  <1>3. /\ pp = [sum |-> pp.sum, slots_left |-> pp.slots_left, kv_target |-> pp.kv_target]
        /\ pp.sum \in Int /\ pp.slots_left \in Int /\ pp.kv_target \in Int
        /\ n + pp.slots_left = target /\ n = n + 0
    BY <1>1, <1>2
  <1>4. Fed(s, s) /\ Forced(s.queue, s.queue) /\ KeepsAlone(s, s)
    BY FedNothing DEF KeepsAlone
  <1>5. c.s = s /\ c.aged = aged /\ h.s = s /\ h.pp = pp
    OBVIOUS
  <1> HIDE DEF c, h
  <1>6. RefillInv(c, h, 0)
    BY <1>1, <1>3, <1>4, <1>5 DEF RefillInv, n, target
  <1> QED BY <1>6 DEF c, h, pp

\* What refilling leaves.
RefilledAs(s, aged, t) ==
    /\ Fed(s, t)
    /\ aged => Forced(s.queue, t.queue)
    /\ Len(t.pool) <= op.decode_count_target
    /\ Len(t.pool) = op.decode_count_target \/ Dry(aged, t.queue)
    /\ KeepsAlone(s, t)

LEMMA RefillEnds ==
    ASSUME NEW c, NEW h, StepType(c.s), RefillInv(c, h, op.decode_count_target)
    PROVE  RefilledAs(c.s, c.aged, h.s)
  <1> DEFINE n == Len(h.s.pool)
             m == Len(c.s.pool)
             target == op.decode_count_target
  <1>1. n \in Nat /\ m \in Nat /\ target \in Nat
    BY Sizes, Numbers DEF RefillInv, Fed
  <1>2. n <= target /\ (n = target \/ n = m + target \/ Dry(c.aged, h.s.queue))
    BY DEF RefillInv
  <1> HIDE DEF n, m, target
  <1>3. n = target \/ Dry(c.aged, h.s.queue)
    BY <1>1, <1>2
  <1> QED BY <1>2, <1>3 DEF RefillInv, RefilledAs, n, target

LEMMA NearRefilled ==
    ASSUME TypeInv, NEW s, StepType(s), Len(s.pool) <= op.decode_count_target
    PROVE  RefilledAs(s, FALSE, Refilled(s, LAMBDA q, ideal : pull_near(q, ideal, cap_room)))
  <1> DEFINE c == [s |-> s, aged |-> FALSE]
             start == [s |-> s, pp |-> Preposition(LiveSum(s.pool), Len(s.pool), op)]
             n == op.decode_count_target
             last == NearRefill!Loop(c, n, start)
  <1>1. Refilled(s, LAMBDA q, ideal : pull_near(q, ideal, cap_room)) = last.s
    <2> HIDE DEF start
    <2>1. Refilled(s, LAMBDA q, ideal : pull_near(q, ideal, cap_room)) =
              Iterate(n, LAMBDA h, k : Slot(h, pull_near(h.s.queue, next_ideal(h.pp), cap_room)), start).s
      BY DEF Refilled, start
    <2> HIDE DEF c, n
    <2>2. last = Iterate(n, LAMBDA h, k : Slot(h, pull_near(h.s.queue, next_ideal(h.pp), cap_room)), start)
      BY DEF NearRefill!Loop, NearRefill!Iterate, Iterate, NearSlot
    <2> HIDE DEF last
    <2> QED BY <2>1, <2>2 DEF n
  <1>2. RefillInv(c, start, 0)
    BY RefillStarts
  <1>3. c.s = s /\ c.aged = FALSE /\ n \in Nat
    BY Numbers
  <1> HIDE DEF c, start
  <1>4. ASSUME NEW k \in 0..(n - 1), NEW h, RefillInv(c, h, k)
        PROVE  RefillInv(c, NearSlot(c, h, k + 1), k + 1)
    <2> DEFINE q == h.s.queue
               ideal == next_ideal(h.pp)
               pulled == pull_near(q, ideal, cap_room)
    <2>1. q \in Seq(Request) /\ k \in Nat
      BY <1>3, <1>4 DEF RefillInv, Fed, StepType
    <2>2. ideal[1] \in Int /\ ideal[2] \in Int
      BY <1>4, NextIdeal
    <2> HIDE DEF q, ideal
    <2>3. /\ Fitting(q, cap_room) = {} => pulled = [r |-> None, q |-> q]
          /\ Fitting(q, cap_room) # {} => \E i \in Fitting(q, cap_room) : pulled = take(q, i)
      BY <2>1, <2>2, PullNearTakes
    <2>4. Fitting(q, cap_room) \subseteq DOMAIN q /\ (Dry(c.aged, q) <=> Fitting(q, cap_room) = {})
      BY <1>3 DEF Fitting, Dry
    <2> HIDE DEF pulled
    <2>5. \/ /\ pulled.r = None /\ Dry(c.aged, q)
          \/ /\ ~Dry(c.aged, q)
             /\ \E i \in DOMAIN q :
                    /\ pulled = take(q, i)
                    /\ c.aged /\ Overdue(q, now, global_age_cap) # {} =>
                           \A j \in DOMAIN q : q[i].arrival <= q[j].arrival
      BY <1>3, <2>3, <2>4
    <2>6. RefillInv(c, Slot(h, pulled), k + 1)
      BY <1>3, <1>4, <2>1, <2>5, SlotKeeps DEF q
    <2> QED BY <2>6 DEF NearSlot, pulled, q, ideal
  <1> HIDE DEF n
  <1>5. RefillInv(c, last, n)
    BY <1>2, <1>3, <1>4, NearRefill!LoopInvariant
  <1> HIDE DEF last
  <1>6. RefilledAs(s, FALSE, last.s)
    BY <1>3, <1>5, RefillEnds DEF n
  <1> QED BY <1>1, <1>6

LEMMA AgedRefilled ==
    ASSUME TypeInv, NEW s, StepType(s), Len(s.pool) <= op.decode_count_target
    PROVE  RefilledAs(s, TRUE, Refilled(s, LAMBDA q, ideal :
                                               pull_slot(q, ideal, cap_room, now, global_age_cap)))
  <1> DEFINE c == [s |-> s, aged |-> TRUE]
             start == [s |-> s, pp |-> Preposition(LiveSum(s.pool), Len(s.pool), op)]
             n == op.decode_count_target
             last == AgedRefill!Loop(c, n, start)
  <1>1. Refilled(s, LAMBDA q, ideal : pull_slot(q, ideal, cap_room, now, global_age_cap)) = last.s
    <2> HIDE DEF start
    <2>1. Refilled(s, LAMBDA q, ideal : pull_slot(q, ideal, cap_room, now, global_age_cap)) =
              Iterate(n, LAMBDA h, k :
                  Slot(h, pull_slot(h.s.queue, next_ideal(h.pp), cap_room, now, global_age_cap)), start).s
      BY DEF Refilled, start
    <2> HIDE DEF c, n
    <2>2. last = Iterate(n, LAMBDA h, k :
                  Slot(h, pull_slot(h.s.queue, next_ideal(h.pp), cap_room, now, global_age_cap)), start)
      BY DEF AgedRefill!Loop, AgedRefill!Iterate, Iterate, AgedSlot
    <2> HIDE DEF last
    <2> QED BY <2>1, <2>2 DEF n
  <1>2. RefillInv(c, start, 0)
    BY RefillStarts
  <1>3. c.s = s /\ c.aged = TRUE /\ n \in Nat /\ now \in Nat /\ global_age_cap \in Nat
    BY Numbers DEF TypeInv
  <1> HIDE DEF c, start
  <1>4. ASSUME NEW k \in 0..(n - 1), NEW h, RefillInv(c, h, k)
        PROVE  RefillInv(c, AgedSlot(c, h, k + 1), k + 1)
    <2> DEFINE q == h.s.queue
               ideal == next_ideal(h.pp)
               pulled == pull_slot(q, ideal, cap_room, now, global_age_cap)
    <2>1. q \in Seq(Request) /\ k \in Nat
      BY <1>3, <1>4 DEF RefillInv, Fed, StepType
    <2>2. ideal[1] \in Int /\ ideal[2] \in Int
      BY <1>4, NextIdeal
    <2> HIDE DEF q, ideal
    <2> DEFINE none == Fitting(q, cap_room) = {} /\ Overdue(q, now, global_age_cap) = {}
    <2>6. none => pulled = [r |-> None, q |-> q]
      BY DEF pull_slot, pull_near
    <2>7. ASSUME ~(Fitting(q, cap_room) = {} /\ Overdue(q, now, global_age_cap) = {})
          PROVE  \E i \in DOMAIN q :
                     /\ pulled = take(q, i)
                     /\ Overdue(q, now, global_age_cap) # {} =>
                            \A j \in DOMAIN q : q[i].arrival <= q[j].arrival
      <3>1. PICK i \in DOMAIN q :
                     /\ pulled = take(q, i)
                     /\ Overdue(q, now, global_age_cap) # {} =>
                            \A j \in DOMAIN q : q[i].arrival <= q[j].arrival
        <4>1. q \in Seq(Request) /\ now \in Nat /\ global_age_cap \in Nat
          BY <1>3, <2>1
        <4> QED BY <2>2, <2>7, <4>1, PullSlotTakes
      <3> HIDE DEF pulled
      <3> QED BY <3>1
    <2>3. /\ none => pulled = [r |-> None, q |-> q]
          /\ ~none => \E i \in DOMAIN q :
                 /\ pulled = take(q, i)
                 /\ Overdue(q, now, global_age_cap) # {} =>
                        \A j \in DOMAIN q : q[i].arrival <= q[j].arrival
      BY <2>6, <2>7
    <2>4. Dry(c.aged, q) <=> none
      BY <1>3 DEF Dry, NoneFor
    <2> HIDE DEF pulled, none
    <2>5. \/ /\ pulled.r = None /\ Dry(c.aged, q)
          \/ /\ ~Dry(c.aged, q)
             /\ \E i \in DOMAIN q :
                    /\ pulled = take(q, i)
                    /\ c.aged /\ Overdue(q, now, global_age_cap) # {} =>
                           \A j \in DOMAIN q : q[i].arrival <= q[j].arrival
      BY <1>3, <2>3, <2>4
    <2>8. RefillInv(c, Slot(h, pulled), k + 1)
      BY <1>3, <1>4, <2>1, <2>5, SlotKeeps DEF q
    <2> QED BY <2>8 DEF AgedSlot, pulled, q, ideal
  <1> HIDE DEF n
  <1>5. RefillInv(c, last, n)
    BY <1>2, <1>3, <1>4, AgedRefill!LoopInvariant
  <1> HIDE DEF last
  <1>6. RefilledAs(s, TRUE, last.s)
    BY <1>3, <1>5, RefillEnds DEF n
  <1> QED BY <1>1, <1>6
-----------------------------------------------------------------------------
(* A round of a batch.                                                     *)

\* t is what serving the batch leaves to be committed.
ServedAs(t) ==
    /\ StepType(t)
    /\ Len(t.pool) + Len(t.queue) + Waiters(t.aff) + Len(t.pend)
           = Len(pools[turn]) + Len(queue) + Waiters(aff) + Len(pend)
    /\ \A z \in Nodes : Range(t.aff[z]) \subseteq Range(aff[z])
    /\ \A z \in Nodes : z # NodeOf(turn) => t.cache.used[z] <= cache.used[z]
    /\ driver # "baseline" => Forced(queue, t.queue)
    /\ Len(t.pool) < Len(pools[turn]) =>
           /\ Dry(driver # "baseline", t.queue)
           /\ driver = "csched" => t.aff[turn] = <<>>
    /\ driver = "csched" => t.cache.used[turn] <= Limit(node_capacity - Excess(t.pool))
    /\ driver = "prepo" => Len(t.pool) <= op.decode_count_target

\* The step record of the batch whose turn it is.
LEMMA HereTypes ==
    ASSUME TypeInv
    PROVE  /\ StepType(Here) /\ Here.pool = pools[turn] /\ Here.queue = queue /\ Here.aff = aff
           /\ Here.pend = pend /\ Here.cache = cache /\ Here.next_id = next_id
           /\ pools[turn] \in Seq(Decoder) /\ queue \in Seq(Request) /\ aff \in [Nodes -> Seq(Request)]
           /\ pend \in Seq(Request) /\ Accounted(cache, Nodes) /\ cache.used \in [Nodes -> Nat]
           /\ now \in Nat /\ turn \in DOMAIN pools /\ next_id \in Nat
  <1>1. StepType(Here) /\ now \in Nat /\ pools \in Seq(Seq(Decoder)) /\ turn \in 1..Len(pools)
    BY DEF TypeInv
  <1>2. /\ Here.pool = pools[turn] /\ Here.queue = queue /\ Here.aff = aff
        /\ Here.pend = pend /\ Here.cache = cache /\ Here.next_id = next_id
    BY DEF Here
  <1>3. turn \in DOMAIN pools
    BY <1>1
  <1>4. /\ Here.pool \in Seq(Decoder) /\ Here.queue \in Seq(Request)
        /\ Here.aff \in [Nodes -> Seq(Request)] /\ Here.pend \in Seq(Request)
        /\ Accounted(Here.cache, Nodes) /\ Here.cache.used \in [Nodes -> Nat] /\ Here.next_id \in Nat
    BY <1>1 DEF StepType, Accounted
  <1> QED BY <1>1, <1>2, <1>3, <1>4

\* The residents of a batch advance, those who are done leave, and others enter.
RetiredFrom(p, r) ==
    /\ StepType(r) /\ r.pool = Stayers(p) /\ r.aff = aff
    /\ Len(r.queue) + Len(r.pend) = Len(queue) + Len(pend) + Len(Leavers(p))
    /\ Range(queue) \subseteq Range(r.queue)
    /\ \A n \in Nodes : n # NodeOf(turn) => r.cache.used[n] <= cache.used[n]

LEMMA RoundRetires ==
    ASSUME TypeInv, NEW p \in Seq(Decoder), NEW fates \in [DOMAIN Leavers(p) -> Fates],
           NEW kept \in [DOMAIN Leavers(p) -> Nat], NEW threshold
    PROVE  LET s == [Here EXCEPT !.pool = p]
               r == Retired(s, fates, kept, threshold)
           IN  /\ RetiredFrom(p, r)
               /\ Contexts(Leavers(p), kept) => \A T : Lone(s, T) => Lone(r, T)
  <1> DEFINE s == [Here EXCEPT !.pool = p]
  <1>1. /\ s = [pool |-> p, queue |-> queue, aff |-> aff, pend |-> pend, cache |-> cache,
                next_id |-> next_id]
    BY DEF Here
  <1>2. /\ StepType(s) /\ s.pool = p /\ s.queue = queue /\ s.aff = aff /\ s.pend = pend
        /\ s.cache = cache
    <2>1. /\ StepType(Here) /\ Here.queue = queue /\ Here.aff = aff
          /\ Here.pend = pend /\ Here.cache = cache /\ Here.next_id = next_id
      BY HereTypes
    <2> HIDE DEF s
    <2> QED BY <1>1, <2>1 DEF StepType
  <1> HIDE DEF s
  <1>3. RetireCall(Leavers(s.pool), fates, kept)
    BY <1>2, BatchParts DEF RetireCall
  <1> DEFINE h == Retired(s, fates, kept, threshold)
  <1>4. /\ StepType(h) /\ h.pool = Stayers(s.pool) /\ h.aff = s.aff
        /\ Len(h.queue) + Len(h.pend) = Len(s.queue) + Len(s.pend) + Len(Leavers(s.pool))
        /\ Range(s.queue) \subseteq Range(h.queue)
        /\ \A n \in Nodes : n # NodeOf(turn) => h.cache.used[n] <= s.cache.used[n]
        /\ Contexts(Leavers(s.pool), kept) => \A T : Lone(s, T) => Lone(h, T)
    BY <1>2, <1>3, RetiredKeeps
  <1> HIDE DEF h
  <1>5. RetiredFrom(p, h)
    BY <1>2, <1>4 DEF RetiredFrom
  <1>6. Contexts(Leavers(p), kept) => \A T : Lone(s, T) => Lone(h, T)
    BY <1>2, <1>4
  <1> QED BY <1>5, <1>6 DEF h, s

\* The parts of ServedAs that feeding a retired batch always gives.
LEMMA RoundFeeds ==
    ASSUME TypeInv, NEW p \in Seq(Decoder), Len(p) = Len(pools[turn]), NEW r, RetiredFrom(p, r),
           NEW t, Fed(r, t)
    PROVE  /\ StepType(t)
           /\ Len(t.pool) + Len(t.queue) + Waiters(t.aff) + Len(t.pend)
                  = Len(pools[turn]) + Len(queue) + Waiters(aff) + Len(pend)
           /\ \A z \in Nodes : Range(t.aff[z]) \subseteq Range(aff[z])
           /\ \A z \in Nodes : z # NodeOf(turn) => t.cache.used[z] <= cache.used[z]
           /\ Forced(r.queue, t.queue) => Forced(queue, t.queue)
           /\ Len(r.pool) + Len(Leavers(p)) = Len(pools[turn])
           /\ Len(r.pool) \in Nat /\ Len(Leavers(p)) \in Nat
  <1> DEFINE a == Len(t.pool)
             b == Len(t.queue)
             c == Waiters(t.aff)
             d == Len(t.pend)
             a1 == Len(r.pool)
             b1 == Len(r.queue)
             c1 == Waiters(aff)
             d1 == Len(r.pend)
             g == Len(Leavers(p))
             a0 == Len(pools[turn])
             b0 == Len(queue)
             d0 == Len(pend)
  <1>1. StepType(t) /\ StepType(r) /\ r.aff = aff
    BY DEF Fed, RetiredFrom
  <1>2. /\ a \in Nat /\ b \in Nat /\ c \in Nat /\ d \in Nat
        /\ a1 \in Nat /\ b1 \in Nat /\ c1 \in Nat /\ d1 \in Nat
    BY <1>1, Sizes
  <1>3. g \in Nat /\ a0 \in Nat /\ b0 \in Nat /\ d0 \in Nat /\ a1 + g = a0
    <2>1. Len(Leavers(p)) + Len(Stayers(p)) = Len(p) /\ g \in Nat
      BY BatchParts
    <2>2. a1 = Len(Stayers(p))
      BY DEF RetiredFrom
    <2>3. pools[turn] \in Seq(Decoder) /\ queue \in Seq(Request) /\ pend \in Seq(Request)
      BY HereTypes
    <2>4. a0 \in Nat /\ b0 \in Nat /\ d0 \in Nat
      BY <2>3
    <2>5. g + a1 = a0
      BY <2>1, <2>2
    <2> HIDE DEF g, a1, a0, b0, d0
    <2> QED BY <1>2, <2>1, <2>4, <2>5 DEF g
  <1>4. a + b + c = a1 + b1 + c1 /\ d = d1
    BY <1>1 DEF Fed
  <1>5. b1 + d1 = b0 + d0 + g
    BY DEF RetiredFrom
  <1>6. a + b + c + d = a0 + b0 + c1 + d0
    <2> HIDE DEF a, b, c, d, a1, b1, c1, d1, g, a0, b0, d0
    <2> QED BY <1>2, <1>3, <1>4, <1>5
  <1>7. \A z \in Nodes : Range(t.aff[z]) \subseteq Range(aff[z])
    BY <1>1 DEF Fed
  <1>8. \A z \in Nodes : z # NodeOf(turn) => t.cache.used[z] <= cache.used[z]
    BY DEF Fed, RetiredFrom
  <1>9. Forced(r.queue, t.queue) => Forced(queue, t.queue)
    BY DEF Forced, RetiredFrom
  <1> QED BY <1>1, <1>2, <1>3, <1>6, <1>7, <1>8, <1>9

\* A resident that decodes a token stays one.
LEMMA DecodesOne == \A q \in Decoder : [q EXCEPT !.dec = @ + 1] \in Decoder
  BY DEF Decoder

\* A batch as steering advances it, and as prepo does.
LEMMA Advances ==
    ASSUME TypeInv
    PROVE  /\ Steered(pools[turn]) \in Seq(Decoder) /\ Len(Steered(pools[turn])) = Len(pools[turn])
           /\ LET all == [i \in DOMAIN pools[turn] |-> [pools[turn][i] EXCEPT !.dec = @ + 1]]
              IN  all \in Seq(Decoder) /\ Len(all) = Len(pools[turn])
  <1>1. pools[turn] \in Seq(Decoder)
    BY HereTypes
  <1>2. Steered(pools[turn]) \in Seq(Decoder) /\ Len(Steered(pools[turn])) = Len(pools[turn])
    BY <1>1, AdvancedTypes DEF Steered
  <1> DEFINE p == pools[turn]
             e(i) == [p[i] EXCEPT !.dec = @ + 1]
             t == [i \in DOMAIN p |-> e(i)]
  <1>3. t \in Seq(Decoder) /\ Len(t) = Len(p)
    <2>1. Len(p) \in Nat /\ DOMAIN p = 1..Len(p) /\ \A i \in 1..Len(p) : p[i] \in Decoder
      BY <1>1, SeqElements
    <2>2. \A q \in Decoder : [q EXCEPT !.dec = @ + 1] \in Decoder
      BY DecodesOne
    <2>3. \A i \in 1..Len(p) : e(i) \in Decoder
      BY <2>1, <2>2
    <2> HIDE DEF e, p
    <2> QED BY <2>1, <2>3
  <1> QED BY <1>2, <1>3

\* The tokens recorded of those who leave.
LEMMA LengthsRecorded ==
    ASSUME NEW p \in Seq(Decoder)
    PROVE  /\ [k \in DOMAIN Leavers(p) |-> Leavers(p)[k].prompt + Leavers(p)[k].dec]
                  \in [DOMAIN Leavers(p) -> Nat]
           /\ [k \in DOMAIN Leavers(p) |-> Leavers(p)[k].prompt] \in [DOMAIN Leavers(p) -> Nat]
  <1> DEFINE g == Leavers(p)
  <1>1. g \in Seq(Decoder)
    BY BatchParts
  <1> HIDE DEF g
  <1>2. \A k \in DOMAIN g : g[k].prompt \in Nat /\ g[k].dec \in Nat
    <2> TAKE k \in DOMAIN g
    <2>1. g[k] \in Decoder
      BY <1>1, SeqElements
    <2> QED BY <2>1, DecoderTypes
  <1>3. \A k \in DOMAIN g : g[k].prompt + g[k].dec \in Nat
    BY <1>2
  <1> QED BY <1>2, <1>3 DEF g

\* A round of prepo advances everybody by one token, so that those who leave have
\* decoded exactly what they were to, and their whole context is recorded.
LEMMA AdvancesAlone ==
    ASSUME NEW p \in Seq(Decoder)
    PROVE  LET all == [i \in DOMAIN p |-> [p[i] EXCEPT !.dec = @ + 1]]
           IN  /\ Ids(all) = Ids(p) /\ (Single(p) => Single(all))
               /\ Going(p) => Contexts(Leavers(all), [k \in DOMAIN Leavers(all) |->
                                    Leavers(all)[k].prompt + Leavers(all)[k].dec])
               /\ all \in Seq(Decoder) => Going(Stayers(all))
  <1> DEFINE e(i) == [p[i] EXCEPT !.dec = @ + 1]
             all == [i \in DOMAIN p |-> e(i)]
             gone == Leavers(all)
             length == [k \in DOMAIN gone |-> gone[k].prompt + gone[k].dec]
  <1>1. ASSUME NEW i \in DOMAIN p
        PROVE  /\ p[i] \in Decoder /\ e(i) \in Decoder /\ e(i).id = p[i].id /\ e(i).dec = p[i].dec + 1
               /\ e(i).max_tokens = p[i].max_tokens
    <2>1. p[i] \in Decoder
      BY SeqElements
    <2>2. \A q \in Decoder : [q EXCEPT !.dec = @ + 1] \in Decoder
      BY DecodesOne
    <2>3. \A q \in Decoder : DOMAIN q = {"id", "prompt", "max_tokens", "dec", "wait", "turn", "cached_prefix"}
      BY DEF Decoder
    <2> DEFINE q == p[i]
    <2> HIDE DEF q
    <2>4. /\ [q EXCEPT !.dec = @ + 1].id = q.id /\ [q EXCEPT !.dec = @ + 1].dec = q.dec + 1
          /\ [q EXCEPT !.dec = @ + 1].max_tokens = q.max_tokens
      BY <2>1, <2>3 DEF q
    <2> QED BY <2>1, <2>2, <2>4 DEF q
  <1> HIDE DEF e
  <1>2. DOMAIN all = DOMAIN p /\ \A i \in DOMAIN p : all[i] = e(i)
    OBVIOUS
  <1>3. all \in Seq(Decoder)
    <2>1. Len(p) \in Nat /\ DOMAIN p = 1..Len(p)
      OBVIOUS
    <2>2. \A i \in 1..Len(p) : e(i) \in Decoder
      BY <1>1, <2>1
    <2> QED BY <2>1, <2>2
  <1> HIDE DEF all
  <1>4. Ids(all) = Ids(p) /\ (Single(p) => Single(all))
    BY <1>1, <1>2 DEF Ids, Range, Single
  <1>5. ASSUME Going(p), NEW k \in DOMAIN gone
        PROVE  gone[k].prompt + gone[k].dec = gone[k].prompt + gone[k].max_tokens
    <2>1. gone \in Seq(Decoder) /\ Range(gone) = {q \in Range(all) : Done(q)}
      BY <1>3, BatchParts
    <2> DEFINE q == gone[k]
    <2>2. q \in Range(all) /\ q.dec >= q.max_tokens /\ q \in Decoder
      <3> HIDE DEF gone
      <3>1. gone[k] \in Range(gone)
        BY DEF Range
      <3>2. gone[k] \in Decoder
        BY <2>1, SeqElements
      <3> QED BY <2>1, <3>1, <3>2 DEF Done
    <2> HIDE DEF q
    <2>3. PICK i \in DOMAIN p : q = e(i)
      BY <1>2, <2>2 DEF Range
    <2>4. p[i].dec < p[i].max_tokens
      BY <1>5 DEF Going, Range
    <2>5. /\ p[i].dec \in Nat /\ p[i].max_tokens \in Nat
          /\ q.dec = p[i].dec + 1 /\ q.max_tokens = p[i].max_tokens
      BY <1>1, <2>3, DecoderTypes
    <2>6. q.dec = q.max_tokens
      BY <2>2, <2>4, <2>5
    <2> QED BY <2>6 DEF q
  <1>6. Going(p) => Contexts(gone, length)
    <2> HIDE DEF gone
    <2> QED BY <1>5 DEF Contexts
  <1>7. Going(Stayers(all))
    <2>1. Range(Stayers(all)) = {q \in Range(all) : ~Done(q)}
      BY <1>3, BatchParts
    <2>2. \A q \in Range(all) : q.dec \in Nat /\ q.max_tokens \in Nat
      BY <1>3, SeqElements, DecoderTypes DEF Range
    <2> QED BY <2>1, <2>2 DEF Going, Done
  <1> QED BY <1>4, <1>6, <1>7 DEF all, e

\* An excess is a number of tokens.
LEMMA ExcessIsNumber ==
    ASSUME NEW p \in Seq(Decoder)
    PROVE  Excess(p) \in Nat
  <1> DEFINE live == LiveSum(p)
             room == op.decode_pool * op.ctx_balance
  <1>1. live \in Nat
    BY LiveSumIsNumber
  <1>2. room \in Nat
    <2> DEFINE x == op.decode_pool
               y == op.ctx_balance
    <2>1. x \in Nat /\ y \in Nat
      BY Numbers
    <2> HIDE DEF x, y
    <2>2. x * y \in Nat
      BY <2>1
    <2> QED BY <2>2 DEF x, y
  <1>3. Excess(p) = IF live - room > 0 THEN live - room ELSE 0
    BY DEF Excess
  <1> HIDE DEF live, room
  <1> QED BY <1>1, <1>2, <1>3

\* The budget of a round is met at its end, and nothing else changes.
LEMMA BudgetMet ==
    ASSUME TypeInv, driver = "csched", NEW h, StepType(h), NEW rank \in Ranks(h.cache), NEW wanted \in Int
    PROVE  LET t == [h EXCEPT !.cache = Enforced(@, turn, wanted, rank)]
           IN  /\ StepType(t) /\ t.pool = h.pool /\ t.queue = h.queue /\ t.aff = h.aff
               /\ t.pend = h.pend /\ t.next_id = h.next_id
               /\ t.cache.used[turn] <= Limit(wanted)
               /\ \A n \in Nodes : n # turn => t.cache.used[n] = h.cache.used[n]
  <1> DEFINE old == h.cache
             d == Enforced(old, turn, wanted, rank)
             t == [h EXCEPT !.cache = Enforced(@, turn, wanted, rank)]
  <1>1. Accounted(old, Nodes) /\ DOMAIN old.idx \subseteq Nat /\ turn \in Nodes
    BY TurnIsOfANode DEF StepType, NodeOf
  <1>2. Ranked(rank, Resident(old.idx, turn))
    <2>1. Resident(old.idx, turn) \subseteq DOMAIN old.idx
      BY DEF Resident
    <2>2. rank = [id \in DOMAIN old.idx |-> id] \/ rank = [id \in DOMAIN old.idx |-> -id]
      BY DEF Ranks
    <2> HIDE DEF old
    <2>3. \A id \in Resident(old.idx, turn) : id \in Nat /\ (rank[id] = id \/ rank[id] = -id)
      BY <1>1, <2>1, <2>2
    <2>4. \A a, b \in Resident(old.idx, turn) : rank[a] = rank[b] => a = b
      <3>1. CASE rank = [id \in DOMAIN old.idx |-> id]
        BY <1>1, <2>1, <3>1
      <3>2. CASE rank = [id \in DOMAIN old.idx |-> -id]
        BY <1>1, <2>1, <3>2
      <3> QED BY <2>2, <3>1, <3>2
    <2> QED BY <2>3, <2>4 DEF Ranked
  <1>3. t = [pool |-> h.pool, queue |-> h.queue, aff |-> h.aff, pend |-> h.pend,
             cache |-> d, next_id |-> h.next_id]
    <2>1. h = [pool |-> h.pool, queue |-> h.queue, aff |-> h.aff, pend |-> h.pend,
               cache |-> h.cache, next_id |-> h.next_id]
      BY DEF StepType
    <2>2. t = [h EXCEPT !.cache = d]
      OBVIOUS
    <2> HIDE DEF t, d
    <2> QED BY <2>1, <2>2
  <1>4. /\ Accounted(d, Nodes) /\ DOMAIN d.idx = DOMAIN old.idx
        /\ d.used[turn] <= Limit(wanted)
        /\ \A n \in Nodes : n # turn => d.used[n] = old.used[n]
    <2> HIDE DEF old
    <2>1. LET e == Enforced(old, turn, wanted, rank)
              cut == Cut(old, turn, Limit(wanted), rank)
          IN  /\ Accounted(e, Nodes) /\ DOMAIN e.idx = DOMAIN old.idx
              /\ e.budget = [old.budget EXCEPT ![turn] = Limit(wanted)]
              /\ e.used[turn] = old.used[turn] - Bytes(old.idx, cut)
              /\ e.used[turn] <= Limit(wanted)
              /\ \A n \in Nodes : n # turn => e.used[n] = old.used[n]
              /\ \A n \in Nodes : Resident(e.idx, n) = Resident(old.idx, n) \ cut
      BY <1>1, <1>2, EnforcedAccounts
    <2> QED BY <2>1
  <1> HIDE DEF d, t, old
  <1>5. StepType(t)
    BY <1>1, <1>3, <1>4 DEF StepType
  <1>6. /\ StepType(t) /\ t.pool = h.pool /\ t.queue = h.queue /\ t.aff = h.aff
        /\ t.pend = h.pend /\ t.next_id = h.next_id
        /\ t.cache.used[turn] <= Limit(wanted)
        /\ \A n \in Nodes : n # turn => t.cache.used[n] = h.cache.used[n]
    BY <1>3, <1>4, <1>5 DEF old
  <1> QED BY <1>6 DEF t

\* A round of csched.
LEMMA CschedServes ==
    ASSUME TypeInv, driver = "csched", CschedServe
    PROVE  \E t : ServedAs(t) /\ Commit(t)
  <1> DEFINE p == Steered(pools[turn])
             gone == Leavers(p)
             length == [k \in DOMAIN gone |-> gone[k].prompt + gone[k].dec]
             r(fates) == Retired([Here EXCEPT !.pool = p], fates, length, eligibility)
             h(fates) == Iterate(Len(gone), LAMBDA s, k : HealHole(s, turn, gone[k].prompt), r(fates))
             t(fates, rank) == [h(fates) EXCEPT !.cache =
                 Enforced(@, turn, BudgetFor(r(fates).pool, h(fates).pool), rank)]
  <1>1. PICK fates \in [DOMAIN gone -> Fates] :
            \E rank \in Ranks(h(fates).cache) : Commit(t(fates, rank))
    BY DEF CschedServe
  <1>2. PICK rank \in Ranks(h(fates).cache) : Commit(t(fates, rank))
    BY <1>1
  <1>3. p \in Seq(Decoder) /\ Len(p) = Len(pools[turn])
    BY Advances
  <1>4. length \in [DOMAIN gone -> Nat] /\ gone \in Seq(Decoder)
    BY <1>3, LengthsRecorded, BatchParts
  <1> HIDE DEF p, length
  <1>5. RetiredFrom(p, r(fates))
    BY <1>3, <1>4, RoundRetires
  <1> DEFINE rr == r(fates)
             hh == h(fates)
             n == Len(gone)
  <1>6. StepType(rr)
    BY <1>5 DEF RetiredFrom
  <1> HIDE DEF r
  <1>7. CschedHealInv([gone |-> gone, s |-> rr], hh, n)
    <2> HIDE DEF gone
    <2> QED BY <1>4, <1>6, CschedHealed
  <1> HIDE DEF h
  <1>8. /\ Fed(rr, hh) /\ Forced(rr.queue, hh.queue)
        /\ Len(hh.pool) <= Len(rr.pool) + n
        /\ Len(hh.pool) = Len(rr.pool) + n \/ (NoneFor(hh.queue, now) /\ hh.aff[turn] = <<>>)
    BY <1>7 DEF CschedHealInv
  <1> HIDE DEF rr, hh
  <1>9. /\ StepType(hh)
        /\ Len(hh.pool) + Len(hh.queue) + Waiters(hh.aff) + Len(hh.pend)
               = Len(pools[turn]) + Len(queue) + Waiters(aff) + Len(pend)
        /\ \A z \in Nodes : Range(hh.aff[z]) \subseteq Range(aff[z])
        /\ \A z \in Nodes : z # NodeOf(turn) => hh.cache.used[z] <= cache.used[z]
        /\ Forced(rr.queue, hh.queue) => Forced(queue, hh.queue)
        /\ Len(rr.pool) + n = Len(pools[turn])
    BY <1>3, <1>5, <1>8, RoundFeeds DEF rr
  <1> DEFINE wanted == node_capacity - Excess(hh.pool)
             tt == [hh EXCEPT !.cache = Enforced(@, turn, wanted, rank)]
  <1>10. t(fates, rank) = tt
    BY DEF hh, BudgetFor
  <1>11. wanted \in Int /\ rank \in Ranks(hh.cache)
    <2>1. Excess(hh.pool) \in Nat /\ node_capacity \in Nat
      BY <1>9, ExcessIsNumber, Numbers DEF StepType
    <2>2. rank \in Ranks(hh.cache)
      BY <1>2 DEF hh
    <2> QED BY <2>1, <2>2
  <1>12. /\ StepType(tt) /\ tt.pool = hh.pool /\ tt.queue = hh.queue /\ tt.aff = hh.aff
         /\ tt.pend = hh.pend
         /\ tt.cache.used[turn] <= Limit(wanted)
         /\ \A m \in Nodes : m # turn => tt.cache.used[m] = hh.cache.used[m]
    <2>1. StepType(hh)
      BY <1>9
    <2> HIDE DEF wanted
    <2> QED BY <1>11, <2>1, BudgetMet
  <1>13. Commit(tt)
    BY <1>2, <1>10
  <1> HIDE DEF tt, n
  <1>14. ServedAs(tt)
    <2>1. NodeOf(turn) = turn
      BY DEF NodeOf
    <2>2. \A z \in Nodes : z # NodeOf(turn) => tt.cache.used[z] <= cache.used[z]
      BY <1>9, <1>12, <2>1
    <2>3. Len(tt.pool) < Len(pools[turn]) => Dry(driver # "baseline", tt.queue) /\ tt.aff[turn] = <<>>
      <3>1. SUFFICES ASSUME Len(tt.pool) < Len(pools[turn])
                     PROVE  NoneFor(hh.queue, now) /\ hh.aff[turn] = <<>>
        BY <1>12 DEF Dry
      <3>2. Len(tt.pool) = Len(hh.pool) /\ Len(hh.pool) \in Nat
        BY <1>9, <1>12, Sizes
      <3>3. ~(Len(hh.pool) = Len(rr.pool) + n)
        <4> DEFINE x == Len(hh.pool)
                   y == Len(pools[turn])
        <4>1. x < y /\ x \in Nat /\ Len(rr.pool) + n = y
          BY <1>9, <3>1, <3>2
        <4> HIDE DEF x, y
        <4>2. x # y
          BY <4>1
        <4> QED BY <4>1, <4>2 DEF x
      <3> QED BY <1>8, <3>3
    <2>4. Forced(queue, tt.queue)
      BY <1>8, <1>9, <1>12
    <2>5. driver # "prepo"
      OBVIOUS
    <2>6. /\ StepType(tt)
          /\ Len(tt.pool) + Len(tt.queue) + Waiters(tt.aff) + Len(tt.pend)
               = Len(pools[turn]) + Len(queue) + Waiters(aff) + Len(pend)
          /\ \A z \in Nodes : Range(tt.aff[z]) \subseteq Range(aff[z])
          /\ tt.cache.used[turn] <= Limit(node_capacity - Excess(tt.pool))
      BY <1>9, <1>12 DEF wanted
    <2> QED BY <2>2, <2>3, <2>4, <2>5, <2>6 DEF ServedAs
  <1> QED BY <1>13, <1>14

\* A round of baseline.
LEMMA BaselineServes ==
    ASSUME TypeInv, driver = "baseline", BaselineServe
    PROVE  \E t : ServedAs(t) /\ Commit(t)
  <1> DEFINE p == Steered(pools[turn])
             gone == Leavers(p)
             length == [k \in DOMAIN gone |-> gone[k].prompt]
             r(fates) == Retired([Here EXCEPT !.pool = p], fates, length, NoneEligible)
             h(fates) == Iterate(Len(gone), LAMBDA s, k :
                             EnterPulled(s, pull_near(s.queue, <<gone[k].prompt, 1>>, cap_room)), r(fates))
  <1>1. PICK fates \in [DOMAIN gone -> Fates] : Commit(h(fates))
    BY DEF BaselineServe
  <1>3. p \in Seq(Decoder) /\ Len(p) = Len(pools[turn])
    BY Advances
  <1>4. length \in [DOMAIN gone -> Nat] /\ gone \in Seq(Decoder)
    BY <1>3, LengthsRecorded, BatchParts
  <1> HIDE DEF p, length
  <1>5. RetiredFrom(p, r(fates))
    BY <1>3, <1>4, RoundRetires
  <1> DEFINE rr == r(fates)
             hh == h(fates)
             n == Len(gone)
  <1>6. StepType(rr)
    BY <1>5 DEF RetiredFrom
  <1> HIDE DEF r
  <1>7. BaselineHealInv([gone |-> gone, s |-> rr], hh, n)
    <2> HIDE DEF gone
    <2> QED BY <1>4, <1>6, BaselineHealed
  <1>8. Commit(hh)
    BY <1>1
  <1> HIDE DEF h
  <1>9. /\ Fed(rr, hh)
        /\ Len(hh.pool) <= Len(rr.pool) + n
        /\ Len(hh.pool) = Len(rr.pool) + n \/ Fitting(hh.queue, cap_room) = {}
    BY <1>7 DEF BaselineHealInv
  <1> HIDE DEF rr, hh
  <1>10. /\ StepType(hh)
         /\ Len(hh.pool) + Len(hh.queue) + Waiters(hh.aff) + Len(hh.pend)
                = Len(pools[turn]) + Len(queue) + Waiters(aff) + Len(pend)
         /\ \A z \in Nodes : Range(hh.aff[z]) \subseteq Range(aff[z])
         /\ \A z \in Nodes : z # NodeOf(turn) => hh.cache.used[z] <= cache.used[z]
         /\ Len(rr.pool) + n = Len(pools[turn])
    BY <1>3, <1>5, <1>9, RoundFeeds DEF rr
  <1> HIDE DEF n
  <1>11. Len(hh.pool) < Len(pools[turn]) => Dry(driver # "baseline", hh.queue)
    <2>1. SUFFICES ASSUME Len(hh.pool) < Len(pools[turn]) PROVE Fitting(hh.queue, cap_room) = {}
      BY DEF Dry
    <2>2. ~(Len(hh.pool) = Len(rr.pool) + n)
      <3> DEFINE x == Len(hh.pool)
                 y == Len(pools[turn])
      <3>1. x < y /\ x \in Nat /\ Len(rr.pool) + n = y
        BY <1>10, <2>1, Sizes
      <3> HIDE DEF x, y
      <3>2. x # y
        BY <3>1
      <3> QED BY <3>1, <3>2 DEF x
    <2> QED BY <1>9, <2>2
  <1>12. ServedAs(hh)
    BY <1>10, <1>11 DEF ServedAs
  <1> QED BY <1>8, <1>12

\* A round of prepo.
LEMMA PrepoServes ==
    ASSUME TypeInv, driver = "prepo", Len(pools[turn]) <= op.decode_count_target, PrepoServe
    PROVE  \E t : ServedAs(t) /\ Commit(t) /\ KeepsAlone(Here, t)
  <1> DEFINE p == [i \in DOMAIN pools[turn] |-> [pools[turn][i] EXCEPT !.dec = @ + 1]]
             gone == Leavers(p)
             length == [k \in DOMAIN gone |-> gone[k].prompt + gone[k].dec]
             r(fates) == Retired([Here EXCEPT !.pool = p], fates, length, eligibility)
             h(fates) == Refilled(r(fates), LAMBDA q, ideal :
                             pull_slot(q, ideal, cap_room, now, global_age_cap))
  <1>1. PICK fates \in [DOMAIN gone -> Fates] : Commit(h(fates))
    BY DEF PrepoServe
  <1>2. p \in Seq(Decoder) /\ Len(p) = Len(pools[turn])
    BY Advances
  <1>3. length \in [DOMAIN gone -> Nat] /\ gone \in Seq(Decoder)
    BY <1>2, LengthsRecorded, BatchParts
  <1>4. /\ Ids(p) = Ids(pools[turn]) /\ (Single(pools[turn]) => Single(p)) /\ Going(Stayers(p))
        /\ Going(pools[turn]) => Contexts(gone, length)
    <2>1. pools[turn] \in Seq(Decoder)
      BY HereTypes
    <2> QED BY <1>2, <2>1, AdvancesAlone
  <1> HIDE DEF p, length
  <1>5. /\ RetiredFrom(p, r(fates))
        /\ Contexts(gone, length) => \A T : Lone([Here EXCEPT !.pool = p], T) => Lone(r(fates), T)
    BY <1>2, <1>3, RoundRetires
  <1> DEFINE rr == r(fates)
             hh == h(fates)
             n == Len(gone)
  <1>6. StepType(rr) /\ Len(rr.pool) <= op.decode_count_target
    <2>1. StepType(rr) /\ rr.pool = Stayers(p)
      BY <1>5 DEF RetiredFrom
    <2>2. Len(Leavers(p)) + Len(Stayers(p)) = Len(p) /\ Len(Leavers(p)) \in Nat /\ Len(Stayers(p)) \in Nat
      BY <1>2, BatchParts
    <2> DEFINE x == Len(Stayers(p))
               y == Len(p)
               target == op.decode_count_target
               z == Len(Leavers(p))
    <2>3. x \in Nat /\ z \in Nat /\ z + x = y /\ y <= target /\ target \in Nat
      BY <1>2, <2>2, Numbers
    <2> HIDE DEF x, y, target, z
    <2>4. x <= target
      BY <2>3
    <2> QED BY <2>1, <2>4 DEF x, target
  <1> HIDE DEF r
  <1>7. RefilledAs(rr, TRUE, hh)
    <2> HIDE DEF rr
    <2> QED BY <1>6, AgedRefilled DEF rr
  <1>8. Commit(hh)
    BY <1>1
  <1> HIDE DEF h
  <1>9. /\ Fed(rr, hh) /\ Forced(rr.queue, hh.queue) /\ Len(hh.pool) <= op.decode_count_target
        /\ Len(hh.pool) = op.decode_count_target \/ Dry(TRUE, hh.queue)
    BY <1>7 DEF RefilledAs
  <1> HIDE DEF rr, hh
  <1>10. /\ StepType(hh)
         /\ Len(hh.pool) + Len(hh.queue) + Waiters(hh.aff) + Len(hh.pend)
                = Len(pools[turn]) + Len(queue) + Waiters(aff) + Len(pend)
         /\ \A z \in Nodes : Range(hh.aff[z]) \subseteq Range(aff[z])
         /\ \A z \in Nodes : z # NodeOf(turn) => hh.cache.used[z] <= cache.used[z]
         /\ Forced(rr.queue, hh.queue) => Forced(queue, hh.queue)
    BY <1>5, <1>2, <1>9, RoundFeeds DEF rr
  <1>11. Len(hh.pool) < Len(pools[turn]) => Dry(driver # "baseline", hh.queue)
    <2>1. SUFFICES ASSUME Len(hh.pool) < Len(pools[turn]) PROVE Dry(TRUE, hh.queue)
      OBVIOUS
    <2>2. ~(Len(hh.pool) = op.decode_count_target)
      <3> DEFINE x == Len(hh.pool)
                 y == Len(pools[turn])
                 target == op.decode_count_target
      <3>1. pools[turn] \in Seq(Decoder)
        BY HereTypes
      <3>2. x < y /\ x \in Nat /\ y <= target /\ target \in Nat /\ y \in Nat
        BY <1>10, <2>1, <3>1, Sizes, Numbers
      <3> HIDE DEF x, y, target
      <3>3. x # target
        BY <3>2
      <3> QED BY <3>3 DEF x, target
    <2> QED BY <1>9, <2>2
  <1>12. ServedAs(hh)
    BY <1>9, <1>10, <1>11 DEF ServedAs
  <1>13. ASSUME NEW T, Lone(Here, T), Going(Here.pool) PROVE Lone(hh, T) /\ Going(hh.pool)
    <2> DEFINE s == [Here EXCEPT !.pool = p]
    <2>1. Here.pool = pools[turn]
      BY HereTypes
    <2>2. /\ s.pool = p /\ s.queue = Here.queue /\ s.pend = Here.pend /\ s.cache = Here.cache
          /\ s.next_id = Here.next_id
      BY DEF Here
    <2> HIDE DEF s
    <2>3. Lone(s, T)
      BY <1>4, <1>13, <2>1, <2>2 DEF Lone
    <2>4. Lone(rr, T)
      BY <1>5, <1>4, <1>13, <2>1, <2>3 DEF rr, s
    <2>5. Going(rr.pool)
      BY <1>5, <1>4 DEF RetiredFrom, rr
    <2> QED BY <1>7, <2>4, <2>5 DEF RefilledAs, KeepsAlone
  <1>14. KeepsAlone(Here, hh)
    BY <1>13 DEF KeepsAlone
  <1> QED BY <1>8, <1>12, <1>14
-----------------------------------------------------------------------------
(* The inductive invariant, and the steps that commit a batch.              *)

\* Only csched lets returns wait for a node.
NoneWaitsForNode == driver # "csched" => \A z \in Nodes : aff[z] = <<>>

\* prepo's batches are no larger than they were designed.
BatchesFit == driver = "prepo" => \A b \in Batches : Len(pools[b]) <= op.decode_count_target

\* Nothing is cached before the first round.
NothingCached == phase = "fill" => \A z \in Nodes : cache.used[z] = 0

ClusterInv ==
    /\ TypeInv /\ NoneWaitsForNode /\ BatchesFit /\ NothingCached
    /\ HbmClosedLoop /\ AffinityWaitBounded

\* The requests that a step of the batch moves between places are still there.
Balance(t) ==
    Len(t.pool) + Len(t.queue) + Waiters(t.aff) + Len(t.pend)
        = Len(pools[turn]) + Len(queue) + Waiters(aff) + Len(pend)

LEMMA StepMade ==
    ASSUME NEW p \in Seq(Decoder), NEW q \in Seq(Request), NEW a \in [Nodes -> Seq(Request)],
           NEW r \in Seq(Request), NEW c, Accounted(c, Nodes), DOMAIN c.idx \subseteq Nat, NEW n \in Nat
    PROVE  StepType([pool |-> p, queue |-> q, aff |-> a, pend |-> r, cache |-> c, next_id |-> n])
  <1> DEFINE s == [pool |-> p, queue |-> q, aff |-> a, pend |-> r, cache |-> c, next_id |-> n]
  <1>1. s.pool = p /\ s.queue = q /\ s.aff = a /\ s.pend = r /\ s.cache = c /\ s.next_id = n
    OBVIOUS
  <1>2. s = [pool |-> s.pool, queue |-> s.queue, aff |-> s.aff, pend |-> s.pend,
             cache |-> s.cache, next_id |-> s.next_id]
    OBVIOUS
  <1> HIDE DEF s
  <1>3. StepType(s)
    BY <1>1, <1>2 DEF StepType
  <1> QED BY <1>3 DEF s

\* The state after a step that commits t.
LEMMA Committed ==
    ASSUME TypeInv, NEW t, StepType(t), Commit(t), driver' = driver,
           phase' \in {"fill", "begin", "serve"}, now' \in Nat, turn' \in 1..Len(pools)
    PROVE  /\ TypeInv' /\ Len(pools') = Len(pools) /\ DOMAIN pools' = DOMAIN pools
           /\ pools'[turn] = t.pool
           /\ \A b \in DOMAIN pools : pools[b] \in Seq(Decoder) /\ pools'[b] \in Seq(Decoder)
           /\ \A b \in DOMAIN pools : b # turn => pools'[b] = pools[b]
  <1>1. /\ pools \in Seq(Seq(Decoder)) /\ turn \in DOMAIN pools /\ DOMAIN pools = 1..Len(pools)
        /\ t.pool \in Seq(Decoder)
    <2>1. pools \in Seq(Seq(Decoder)) /\ turn \in 1..Len(pools)
      BY DEF TypeInv
    <2>2. t.pool \in Seq(Decoder)
      BY DEF StepType
    <2> QED BY <2>1, <2>2
  <1>2. pools' = [pools EXCEPT ![turn] = t.pool]
    BY DEF Commit
  <1> DEFINE new == t.pool
             after == [pools EXCEPT ![turn] = new]
  <1>3. /\ after \in Seq(Seq(Decoder)) /\ Len(after) = Len(pools) /\ DOMAIN after = DOMAIN pools
        /\ after[turn] = new
        /\ \A b \in DOMAIN pools : pools[b] \in Seq(Decoder) /\ after[b] \in Seq(Decoder)
        /\ \A b \in DOMAIN pools : b # turn => after[b] = pools[b]
    <2> HIDE DEF new
    <2> QED BY <1>1 DEF new
  <1> HIDE DEF after, new
  <1>4. pools' = after
    BY <1>2 DEF after, new
  <1>5. turn' \in DOMAIN pools
    BY <1>1
  <1>6. pools'[turn'] \in Seq(Decoder)
    BY <1>3, <1>4, <1>5
  <1>7. /\ queue' \in Seq(Request) /\ aff' \in [Nodes -> Seq(Request)] /\ pend' \in Seq(Request)
        /\ Accounted(cache', Nodes) /\ DOMAIN cache'.idx \subseteq Nat /\ next_id' \in Nat
    BY DEF Commit, StepType
  <1>8. StepType(Here')
    <2>1. StepType([pool |-> pools'[turn'], queue |-> queue', aff |-> aff', pend |-> pend',
                    cache |-> cache', next_id |-> next_id'])
      BY <1>6, <1>7, StepMade
    <2> QED BY <2>1 DEF Here
  <1>9. StepType(Here)'
    BY <1>8 DEF StepType
  <1>10. /\ driver' \in {"csched", "baseline", "prepo"}
         /\ Len(pools') = (IF driver' = "prepo" THEN 2 * Z ELSE Z)
         /\ turn' \in 1..Len(pools')
    BY <1>3, <1>4 DEF TypeInv
  <1>11. TypeInv'
    BY <1>3, <1>4, <1>9, <1>10 DEF TypeInv
  <1> QED BY <1>3, <1>4, <1>11 DEF new

\* A step that keeps the balance of its batch keeps the population.
LEMMA BalanceKeepsPopulation ==
    ASSUME TypeInv, NEW t, StepType(t), Commit(t), Balance(t), driver' = driver,
           phase' \in {"fill", "begin", "serve"}, now' \in Nat, turn' \in 1..Len(pools)
    PROVE  Population' = Population
  <1> DEFINE old == [b \in Batches |-> Len(pools[b])]
             new == [b \in Batches |-> Len(pools'[b])]
             n == Len(pools)
  <1>1. /\ DOMAIN pools' = DOMAIN pools /\ pools'[turn] = t.pool
        /\ \A b \in DOMAIN pools : pools[b] \in Seq(Decoder) /\ pools'[b] \in Seq(Decoder)
        /\ \A b \in DOMAIN pools : b # turn => pools'[b] = pools[b]
    BY Committed
  <1>2. Batches = 1..n /\ n \in Nat /\ turn \in 1..n
    BY DEF TypeInv, Batches
  <1>3. /\ \A b \in 1..n : old[b] \in Nat /\ new[b] \in Nat
        /\ \A b \in 1..n : b # turn => new[b] = old[b]
        /\ old[turn] = Len(pools[turn]) /\ new[turn] = Len(t.pool)
        /\ Len(old) = n /\ Len(new) = n
    <2> HIDE DEF n
    <2>1. \A b \in 1..n : pools[b] \in Seq(Decoder) /\ pools'[b] \in Seq(Decoder)
      BY <1>1, <1>2 DEF Batches
    <2>2. \A b \in 1..n : old[b] = Len(pools[b]) /\ new[b] = Len(pools'[b])
      BY <1>2
    <2>3. \A b \in 1..n : old[b] \in Nat /\ new[b] \in Nat
      <3> HIDE DEF old, new
      <3> TAKE b \in 1..n
      <3>1. Len(pools[b]) \in Nat /\ Len(pools'[b]) \in Nat
        BY <2>1
      <3> QED BY <2>2, <3>1
    <2>4. \A b \in 1..n : b # turn => new[b] = old[b]
      BY <1>1, <1>2, <2>2 DEF Batches
    <2>5. Len(old) = n /\ Len(new) = n
      BY <1>2
    <2> QED BY <1>1, <1>2, <2>2, <2>3, <2>4, <2>5
  <1>4. Batches' = Batches
    BY <1>1 DEF Batches
  <1>5. /\ Population = Sum(old) + Len(queue) + Waiters(aff) + Len(pend)
        /\ Population' = Sum(new) + Len(queue') + Waiters(aff') + Len(pend')
    BY <1>4 DEF Population, Waiters
  <1> HIDE DEF old, new, n
  <1>6. SumTo(new, n) + old[turn] = SumTo(old, n) + new[turn]
    BY <1>2, <1>3, SumChanges
  <1>7. SumTo(old, n) \in Nat /\ SumTo(new, n) \in Nat
    BY <1>2, <1>3, SumOfNumbers
  <1>8. Sum(old) = SumTo(old, n) /\ Sum(new) = SumTo(new, n)
    BY <1>3, SumIsSumTo
  <1>9. queue' = t.queue /\ aff' = t.aff /\ pend' = t.pend
    BY DEF Commit
  <1> DEFINE x0 == SumTo(old, n)
             x1 == SumTo(new, n)
             a0 == Len(pools[turn])
             a1 == Len(t.pool)
             b0 == Len(queue)
             b1 == Len(t.queue)
             c0 == Waiters(aff)
             c1 == Waiters(t.aff)
             d0 == Len(pend)
             d1 == Len(t.pend)
  <1>10. /\ a1 \in Nat /\ b1 \in Nat /\ c1 \in Nat /\ d1 \in Nat
         /\ a0 \in Nat /\ b0 \in Nat /\ c0 \in Nat /\ d0 \in Nat
    BY Sizes, HereTypes
  <1>11. a1 + b1 + c1 + d1 = a0 + b0 + c0 + d0 /\ x1 + a0 = x0 + a1 /\ x0 \in Nat /\ x1 \in Nat
    BY <1>3, <1>6, <1>7 DEF Balance
  <1>12. Population = x0 + b0 + c0 + d0 /\ Population' = x1 + b1 + c1 + d1
    BY <1>5, <1>8, <1>9
  <1> HIDE DEF x0, x1, a0, a1, b0, b1, c0, c1, d0, d1
  <1> QED BY <1>10, <1>11, <1>12

\* The order of the steps moves on to a batch.
LEMMA Advanced ==
    ASSUME TypeInv, NEW after, Advance(after)
    PROVE  /\ turn' \in 1..Len(pools) /\ (phase' = after \/ phase' = phase)
           /\ turn # Len(pools) => phase' = phase
  <1> DEFINE n == Len(pools)
  <1>1. n \in Nat /\ turn \in 1..n
    BY DEF TypeInv
  <1>2. IF turn = n THEN phase' = after /\ turn' = 1 ELSE phase' = phase /\ turn' = turn + 1
    BY DEF Advance
  <1> HIDE DEF n
  <1> QED BY <1>1, <1>2 DEF n
-----------------------------------------------------------------------------
(* The cold start.                                                         *)

\* t is what a fill leaves to be committed.
FilledAs(t) ==
    /\ StepType(t) /\ Balance(t)
    /\ \A z \in Nodes : Range(t.aff[z]) \subseteq Range(aff[z])
    /\ t.cache.used = cache.used
    /\ driver = "prepo" => Len(t.pool) <= op.decode_count_target

LEMMA FillFeeds ==
    ASSUME TypeInv, NEW t, Fed(Here, t), driver = "prepo" => Len(t.pool) <= op.decode_count_target
    PROVE  FilledAs(t)
  <1>1. /\ StepType(t)
        /\ Len(t.pool) + Len(t.queue) + Waiters(t.aff) = Len(pools[turn]) + Len(queue) + Waiters(aff)
        /\ t.pend = pend
        /\ \A z \in Nodes : Range(t.aff[z]) \subseteq Range(aff[z])
        /\ t.cache.used = cache.used
    BY HereTypes DEF Fed
  <1>2. Balance(t)
    BY <1>1 DEF Balance
  <1> QED BY <1>1, <1>2 DEF FilledAs

\* Every length that a batch is topped up for is a number.
LEMMA HolesAreNumbers ==
    ASSUME NEW p \in Seq(Decoder), NEW hole \in TopUpHoles(p)
    PROVE  hole \in Nat
  <1>1. CASE p = <<>>
    BY <1>1, Numbers DEF TopUpHoles
  <1>2. CASE p # <<>>
    <2>1. PICK i \in DOMAIN p : hole = p[i].prompt
      BY <1>2 DEF TopUpHoles
    <2>2. p[i] \in Decoder
      BY SeqElements
    <2> QED BY <2>1, <2>2, DecoderTypes
  <1> QED BY <1>1, <1>2

\* A fill of csched.
LEMMA CschedFills ==
    ASSUME TypeInv, driver = "csched", CschedFill
    PROVE  \E t : FilledAs(t) /\ Commit(t)
  <1>1. PICK hole \in TopUpHoles(pools[turn]) :
            Commit(EnterPulled(Here, pull_slot(queue, <<hole, 1>>, cap_room, 0, global_age_cap)))
    BY DEF CschedFill
  <1> DEFINE ideal == <<hole, 1>>
             t == EnterPulled(Here, pull_slot(Here.queue, ideal, cap_room, 0, global_age_cap))
  <1>2. StepType(Here) /\ pools[turn] \in Seq(Decoder) /\ Here.queue = queue
    BY HereTypes
  <1>3. ideal[1] \in Int /\ ideal[2] \in Int /\ 0 \in Nat
    BY <1>2, HolesAreNumbers
  <1>4. Commit(t)
    BY <1>1, <1>2
  <1> HIDE DEF ideal
  <1>5. \/ t = Here /\ NoneFor(Here.queue, 0)
        \/ /\ ~NoneFor(Here.queue, 0)
           /\ \E i \in DOMAIN Here.queue :
                  /\ FromQueue(Here, t, i)
                  /\ Overdue(Here.queue, 0, global_age_cap) # {} =>
                         \A j \in DOMAIN Here.queue : Here.queue[i].arrival <= Here.queue[j].arrival
    BY <1>2, <1>3, SlotEnters
  <1> HIDE DEF t
  <1>6. t = Here \/ \E i \in DOMAIN Here.queue : FromQueue(Here, t, i)
    BY <1>5
  <1>7. Fed(Here, Here) /\ Len(Here.pool) \in Nat /\ Len(Here.queue) \in Nat /\ Waiters(Here.aff) \in Nat
    BY <1>2, FedNothing, Sizes
  <1>8. Fed(Here, t)
    BY <1>6, <1>7, FedFromQueue
  <1> QED BY <1>4, <1>8, FillFeeds

\* A fill of baseline.
LEMMA BaselineFills ==
    ASSUME TypeInv, driver = "baseline", BaselineFill
    PROVE  \E t : FilledAs(t) /\ Commit(t)
  <1>1. PICK hole \in TopUpHoles(pools[turn]) :
            Commit(EnterPulled(Here, pull_near(queue, <<hole, 1>>, cap_room)))
    BY DEF BaselineFill
  <1> DEFINE ideal == <<hole, 1>>
             t == EnterPulled(Here, pull_near(Here.queue, ideal, cap_room))
  <1>2. StepType(Here) /\ pools[turn] \in Seq(Decoder) /\ Here.queue = queue
    BY HereTypes
  <1>3. ideal[1] \in Int /\ ideal[2] \in Int
    BY <1>2, HolesAreNumbers
  <1>4. Commit(t)
    BY <1>1, <1>2
  <1> HIDE DEF ideal
  <1>5. \/ t = Here /\ Fitting(Here.queue, cap_room) = {}
        \/ /\ Fitting(Here.queue, cap_room) # {}
           /\ \E i \in DOMAIN Here.queue : FromQueue(Here, t, i)
    BY <1>2, <1>3, NearEnters
  <1> HIDE DEF t
  <1>6. t = Here \/ \E i \in DOMAIN Here.queue : FromQueue(Here, t, i)
    BY <1>5
  <1>7. Fed(Here, Here) /\ Len(Here.pool) \in Nat /\ Len(Here.queue) \in Nat /\ Waiters(Here.aff) \in Nat
    BY <1>2, FedNothing, Sizes
  <1>8. Fed(Here, t)
    BY <1>6, <1>7, FedFromQueue
  <1> QED BY <1>4, <1>8, FillFeeds

\* A fill of prepo.
LEMMA PrepoFills ==
    ASSUME TypeInv, driver = "prepo", PrepoFill
    PROVE  \E t : FilledAs(t) /\ Commit(t) /\ KeepsAlone(Here, t)
  <1> DEFINE t == Refilled(Here, LAMBDA q, ideal : pull_near(q, ideal, cap_room))
  <1>1. Commit(t) /\ Len(pools[turn]) < op.decode_count_target
    BY DEF PrepoFill, Filling
  <1>2. StepType(Here) /\ Here.pool = pools[turn]
    BY HereTypes
  <1>3. Len(Here.pool) <= op.decode_count_target
    <2> DEFINE a == Len(Here.pool)
               b == op.decode_count_target
    <2>1. a \in Nat /\ b \in Nat /\ a < b
      BY <1>1, <1>2, Sizes, Numbers
    <2> HIDE DEF a, b
    <2>2. a <= b
      BY <2>1
    <2> QED BY <2>2 DEF a, b
  <1>4. RefilledAs(Here, FALSE, t)
    BY <1>2, <1>3, NearRefilled
  <1> HIDE DEF t
  <1>5. Fed(Here, t) /\ Len(t.pool) <= op.decode_count_target /\ KeepsAlone(Here, t)
    BY <1>4 DEF RefilledAs
  <1> QED BY <1>1, <1>5, FillFeeds

\* What holds nothing new of nothing is empty.
LEMMA StillEmpty ==
    ASSUME NEW T, NEW s \in Seq(T), Range(s) \subseteq Range(<<>>)
    PROVE  s = <<>>
  <1>1. Range(<<>>) = {}
    BY DEF Range
  <1>2. Len(s) \in Nat /\ DOMAIN s = 1..Len(s)
    OBVIOUS
  <1>3. DOMAIN s = {}
    BY <1>1 DEF Range
  <1>4. Len(s) = 0
    BY <1>2, <1>3
  <1> QED BY <1>4

\* A batch is filled: one more enters, or prepo composes it.
LEMMA FillKeepsInv ==
    ASSUME ClusterInv, Fill
    PROVE  ClusterInv' /\ Population' = Population
  <1>1. /\ TypeInv /\ phase = "fill" /\ UNCHANGED <<driver, phase, now, turn>>
        /\ \E t : FilledAs(t) /\ Commit(t)
    <2>1. TypeInv
      BY DEF ClusterInv
    <2>2. CASE driver = "csched" /\ CschedFill
      BY <2>1, <2>2, CschedFills DEF CschedFill, Filling
    <2>3. CASE driver = "baseline" /\ BaselineFill
      BY <2>1, <2>3, BaselineFills DEF BaselineFill, Filling
    <2>4. CASE driver = "prepo" /\ PrepoFill
      BY <2>1, <2>4, PrepoFills DEF PrepoFill, Filling
    <2> QED BY <2>2, <2>3, <2>4 DEF Fill
  <1>2. PICK t : FilledAs(t) /\ Commit(t)
    BY <1>1
  <1>3. /\ StepType(t) /\ Balance(t) /\ driver' = driver /\ phase' = "fill" /\ now' \in Nat
        /\ turn' \in 1..Len(pools)
    BY <1>1, <1>2 DEF FilledAs, TypeInv
  <1>4. /\ TypeInv' /\ DOMAIN pools' = DOMAIN pools /\ pools'[turn] = t.pool
        /\ \A b \in DOMAIN pools : b # turn => pools'[b] = pools[b]
    BY <1>1, <1>2, <1>3, Committed
  <1>5. Population' = Population
    BY <1>1, <1>2, <1>3, BalanceKeepsPopulation
  <1>6. NoneWaitsForNode'
    <2>1. SUFFICES ASSUME driver # "csched", NEW z \in Nodes PROVE aff'[z] = <<>>
      BY <1>1 DEF NoneWaitsForNode, Nodes
    <2>2. Range(aff'[z]) \subseteq Range(aff[z]) /\ aff[z] = <<>>
      BY <1>2, <2>1 DEF FilledAs, Commit, ClusterInv, NoneWaitsForNode
    <2>3. aff'[z] \in Seq(Request)
      BY <1>2, <2>1 DEF FilledAs, StepType, Commit
    <2> QED BY <2>2, <2>3, StillEmpty
  <1>7. BatchesFit'
    BY <1>1, <1>2, <1>4 DEF FilledAs, BatchesFit, ClusterInv, Batches
  <1>8. NothingCached' /\ \A z \in Nodes : cache'.used[z] = 0
    BY <1>1, <1>2 DEF FilledAs, Commit, ClusterInv, NothingCached, Nodes
  <1>9. HbmClosedLoop' /\ AffinityWaitBounded'
    BY <1>3, <1>8 DEF HbmClosedLoop, AffinityWaitBounded, Nodes
  <1> QED BY <1>4, <1>5, <1>6, <1>7, <1>8, <1>9 DEF ClusterInv

\* The cold start moves on to the next batch.
LEMMA FillNextKeepsInv ==
    ASSUME ClusterInv, FillNext(BatchSize)
    PROVE  ClusterInv' /\ Population' = Population
  <1>1. /\ TypeInv /\ phase = "fill" /\ Advance("begin")
        /\ UNCHANGED <<driver, now, pools, queue, aff, pend, cache, next_id>>
    BY DEF ClusterInv, FillNext
  <1>2. turn' \in 1..Len(pools) /\ (phase' = "begin" \/ phase' = "fill")
    BY <1>1, Advanced
  <1>3. TypeInv'
    <2>1. /\ pools'[turn'] \in Seq(Decoder) /\ queue' \in Seq(Request) /\ aff' \in [Nodes -> Seq(Request)]
          /\ pend' \in Seq(Request) /\ Accounted(cache', Nodes) /\ DOMAIN cache'.idx \subseteq Nat
          /\ next_id' \in Nat
      <3>1. /\ queue \in Seq(Request) /\ aff \in [Nodes -> Seq(Request)] /\ pend \in Seq(Request)
            /\ Accounted(cache, Nodes) /\ DOMAIN cache.idx \subseteq Nat /\ next_id \in Nat
        <4>1. DOMAIN Here.cache.idx \subseteq Nat /\ Here.cache = cache
          BY <1>1, HereTypes DEF StepType
        <4> QED BY <1>1, <4>1, HereTypes
      <3>2. pools[turn'] \in Seq(Decoder)
        BY <1>1, <1>2 DEF TypeInv
      <3> QED BY <1>1, <3>1, <3>2
    <2>2. StepType([pool |-> pools'[turn'], queue |-> queue', aff |-> aff', pend |-> pend',
                    cache |-> cache', next_id |-> next_id'])
      BY <2>1, StepMade
    <2>3. StepType(Here)'
      BY <2>2 DEF Here, StepType
    <2> QED BY <1>1, <1>2, <2>3 DEF TypeInv
  <1>4. Population' = Population
    BY <1>1 DEF Population, Batches
  <1>5. \A z \in Nodes : cache'.used[z] = 0
    BY <1>1 DEF ClusterInv, NothingCached
  <1>6. NoneWaitsForNode' /\ BatchesFit' /\ NothingCached'
    BY <1>1, <1>5 DEF ClusterInv, NoneWaitsForNode, BatchesFit, NothingCached, Batches, Nodes
  <1>7. HbmClosedLoop' /\ AffinityWaitBounded'
    BY <1>2, <1>5 DEF HbmClosedLoop, AffinityWaitBounded, Nodes
  <1> QED BY <1>3, <1>4, <1>6, <1>7 DEF ClusterInv
-----------------------------------------------------------------------------
(* Serving a batch.                                                        *)

LEMMA Serves ==
    ASSUME ClusterInv, Serve
    PROVE  \E t : ServedAs(t) /\ Commit(t)
  <1>1. TypeInv
    BY DEF ClusterInv
  <1>2. CASE driver = "csched" /\ CschedServe
    BY <1>1, <1>2, CschedServes
  <1>3. CASE driver = "baseline" /\ BaselineServe
    BY <1>1, <1>3, BaselineServes
  <1>4. CASE driver = "prepo" /\ PrepoServe
    <2>1. turn \in Batches
      BY <1>1, HereTypes DEF Batches
    <2>2. Len(pools[turn]) <= op.decode_count_target
      BY <1>4, <2>1 DEF ClusterInv, BatchesFit
    <2> QED BY <1>1, <1>4, <2>2, PrepoServes
  <1> QED BY <1>2, <1>3, <1>4 DEF Serve

\* The budget of a round leaves room for what the residents need.
LEMMA BudgetLeavesRoom ==
    ASSUME NEW u \in Nat, NEW x \in Nat, u <= Limit(node_capacity - x)
    PROVE  u = 0 \/ u + x <= node_capacity
  <1>1. node_capacity \in Nat
    BY Numbers
  <1>2. CASE node_capacity - x < 0
    BY <1>1, <1>2 DEF Limit
  <1>3. CASE ~(node_capacity - x < 0)
    BY <1>1, <1>3 DEF Limit
  <1> QED BY <1>2, <1>3

\* The cache's share closes the loop for the node that was served; the others'
\* entries only became fewer.
LEMMA ServeClosesHbm ==
    ASSUME ClusterInv, driver = "csched", NEW t, ServedAs(t), Commit(t),
           pools'[turn] = t.pool, \A b \in DOMAIN pools : b # turn => pools'[b] = pools[b]
    PROVE  \A z \in Nodes : cache'.used[z] = 0 \/ cache'.used[z] + Excess(pools'[z]) <= node_capacity
  <1> SUFFICES ASSUME NEW z \in Nodes
               PROVE  cache'.used[z] = 0 \/ cache'.used[z] + Excess(pools'[z]) <= node_capacity
    OBVIOUS
  <1>1. /\ StepType(t) /\ cache' = t.cache /\ t.cache.used \in [Nodes -> Nat] /\ NodeOf(turn) = turn
        /\ TypeInv /\ DOMAIN pools = Nodes
    <2>1. StepType(t) /\ cache' = t.cache /\ t.cache.used \in [Nodes -> Nat] /\ TypeInv
      BY DEF ServedAs, StepType, Accounted, Commit, ClusterInv
    <2>2. pools \in Seq(Seq(Decoder)) /\ Len(pools) = Z
      BY <2>1 DEF TypeInv
    <2>3. DOMAIN pools = 1..Z
      BY <2>2
    <2> QED BY <2>1, <2>3 DEF NodeOf, Nodes
  <1>2. CASE z = turn
    <2> DEFINE u == t.cache.used[turn]
               x == Excess(t.pool)
    <2>1. u \in Nat /\ x \in Nat /\ u <= Limit(node_capacity - x)
      BY <1>1, <1>2, ExcessIsNumber DEF ServedAs, StepType
    <2> HIDE DEF u, x
    <2>2. u = 0 \/ u + x <= node_capacity
      BY <2>1, BudgetLeavesRoom
    <2> QED BY <1>1, <1>2, <2>2 DEF u, x
  <1>3. CASE z # turn
    <2> DEFINE u == t.cache.used[z]
               v == cache.used[z]
               x == Excess(pools[z])
    <2>1. u \in Nat /\ v \in Nat /\ u <= v
      BY <1>1, <1>3, HereTypes DEF ServedAs
    <2>2. v = 0 \/ v + x <= node_capacity
      BY <1>1 DEF ClusterInv, HbmClosedLoop, Nodes
    <2>3. x \in Nat /\ node_capacity \in Nat
      <3>1. pools[z] \in Seq(Decoder)
        BY <1>1 DEF TypeInv
      <3> QED BY <3>1, ExcessIsNumber, Numbers
    <2>4. pools'[z] = pools[z]
      BY <1>1, <1>3
    <2> HIDE DEF u, v, x
    <2>5. u = 0 \/ u + x <= node_capacity
      BY <2>1, <2>2, <2>3
    <2> QED BY <1>1, <2>4, <2>5 DEF u, x
  <1> QED BY <1>2, <1>3

\* A batch is served.
LEMMA ServeKeepsInv ==
    ASSUME ClusterInv, Serve
    PROVE  ClusterInv' /\ Population' = Population
  <1>1. PICK t : ServedAs(t) /\ Commit(t)
    BY Serves
  <1>2. TypeInv /\ phase = "serve" /\ Served /\ driver' = driver
    BY DEF ClusterInv, Serve, CschedServe, BaselineServe, PrepoServe, Served
  <1>3. /\ turn' \in 1..Len(pools) /\ phase' \in {"begin", "serve"} /\ now' \in Nat
        /\ phase' = "serve" => now' = now
    <2>1. /\ turn' \in 1..Len(pools) /\ (phase' = "begin" \/ phase' = "serve")
          /\ Advance("begin") /\ now' = IF turn = Len(pools) THEN now + 1 ELSE now
      BY <1>2, Advanced DEF Served
    <2>2. turn = Len(pools) => phase' = "begin"
      BY <2>1 DEF Advance
    <2>3. now \in Nat
      BY <1>2 DEF TypeInv
    <2>4. now' \in Nat
      BY <2>1, <2>3
    <2> QED BY <2>1, <2>2, <2>4
  <1>4. StepType(t) /\ Balance(t)
    BY <1>1 DEF ServedAs, Balance
  <1>5. /\ TypeInv' /\ DOMAIN pools' = DOMAIN pools /\ pools'[turn] = t.pool
        /\ \A b \in DOMAIN pools : b # turn => pools'[b] = pools[b]
    BY <1>1, <1>2, <1>3, <1>4, Committed
  <1>6. Population' = Population
    BY <1>1, <1>2, <1>3, <1>4, BalanceKeepsPopulation
  <1>7. NoneWaitsForNode'
    <2>1. SUFFICES ASSUME driver # "csched", NEW z \in Nodes PROVE aff'[z] = <<>>
      BY <1>2 DEF NoneWaitsForNode, Nodes
    <2>2. Range(aff'[z]) \subseteq Range(aff[z]) /\ aff[z] = <<>>
      BY <1>1, <2>1 DEF ServedAs, Commit, ClusterInv, NoneWaitsForNode
    <2>3. aff'[z] \in Seq(Request)
      BY <1>1, <2>1 DEF ServedAs, StepType, Commit
    <2> QED BY <2>2, <2>3, StillEmpty
  <1>8. BatchesFit'
    BY <1>1, <1>2, <1>5 DEF ServedAs, BatchesFit, ClusterInv, Batches
  <1>9. NothingCached'
    BY <1>3 DEF NothingCached
  <1>10. HbmClosedLoop'
    <2>1. SUFFICES ASSUME driver = "csched", NEW z \in Nodes
                   PROVE  cache'.used[z] = 0 \/ cache'.used[z] + Excess(pools'[z]) <= node_capacity
      BY <1>2 DEF HbmClosedLoop, Nodes, Excess, LiveSum, LiveKv
    <2> QED BY <1>1, <1>5, <2>1, ServeClosesHbm
  <1>11. AffinityWaitBounded'
    <2>1. SUFFICES ASSUME phase' = "serve", NEW z \in Nodes, NEW i \in DOMAIN aff'[z]
                   PROVE  now' - aff'[z][i].arrival <= aff_spill_cap
      BY DEF AffinityWaitBounded, Nodes
    <2>2. Range(aff'[z]) \subseteq Range(aff[z])
      BY <1>1 DEF ServedAs, Commit
    <2>3. PICK j \in DOMAIN aff[z] : aff[z][j] = aff'[z][i]
      BY <2>2 DEF Range
    <2>4. now - aff[z][j].arrival <= aff_spill_cap
      BY <1>2 DEF ClusterInv, AffinityWaitBounded, Nodes
    <2> QED BY <1>3, <2>1, <2>3, <2>4
  <1> QED BY <1>5, <1>6, <1>7, <1>8, <1>9, <1>10, <1>11 DEF ClusterInv
-----------------------------------------------------------------------------
(* A round begins.                                                         *)

\* The returns that are due and those that are not.
LEMMA DueParts ==
    ASSUME NEW p \in Seq(Request), NEW n \in Nat
    PROVE  /\ Due(p, n) \in Seq(Request) /\ NotDue(p, n) \in Seq(Request)
           /\ Len(Due(p, n)) \in Nat /\ Len(NotDue(p, n)) \in Nat
           /\ Len(Due(p, n)) + Len(NotDue(p, n)) = Len(p)
  <1> DEFINE V == {r \in Range(p) : r.arrival <= n}
             W == {r \in Range(p) : r.arrival > n}
  <1>1. \A r \in Range(p) : r.arrival \in Nat
    BY SeqElements, RequestTypes
  <1>2. W \cap Range(p) = Range(p) \ V
    BY <1>1
  <1>3. Due(p, n) = Only(p, V) /\ NotDue(p, n) = Only(p, W)
    BY DEF Due, NotDue
  <1> HIDE DEF V, W
  <1>4. /\ Only(p, V) \in Seq(Request) /\ Len(Only(p, V)) \in Nat
        /\ \A U : U \cap Range(p) = Range(p) \ V => Len(Only(p, V)) + Len(Only(p, U)) = Len(p)
    BY OnlyKeeps
  <1>5. Only(p, W) \in Seq(Request) /\ Len(Only(p, W)) \in Nat
    BY OnlyKeeps
  <1>6. Len(Only(p, V)) + Len(Only(p, W)) = Len(p)
    BY <1>2, <1>4
  <1> QED BY <1>3, <1>4, <1>5, <1>6

\* The waiters of the nodes and the global queue, as the beginning of a round
\* works on them.
WaitType(h) ==
    /\ h = [aff |-> h.aff, queue |-> h.queue]
    /\ h.aff \in [Nodes -> Seq(Request)] /\ h.queue \in Seq(Request)

Waiting(h) == Len(h.queue) + Waiters(h.aff)

LEMMA WaitersAreNumbers ==
    ASSUME NEW a \in [Nodes -> Seq(Request)]
    PROVE  Waiters(a) \in Nat
  <1>1. 1 \in Nodes
    BY Numbers DEF Nodes
  <1> QED BY <1>1, WaitersChange

LEMMA WaitingIsNumber ==
    ASSUME NEW h, WaitType(h)
    PROVE  Len(h.queue) \in Nat /\ Waiters(h.aff) \in Nat /\ Waiting(h) \in Nat
  <1>1. h.aff \in [Nodes -> Seq(Request)] /\ h.queue \in Seq(Request)
    BY DEF WaitType
  <1>2. Waiters(h.aff) \in Nat /\ Len(h.queue) \in Nat
    BY <1>1, WaitersAreNumbers
  <1> QED BY <1>2 DEF Waiting

\* One more request waits, for a node or in the queue.
LEMMA OneMoreWaits ==
    ASSUME NEW h, WaitType(h), NEW r \in Request, NEW z \in Nodes
    PROVE  /\ LET t == [h EXCEPT !.aff[z] = Append(@, r)]
              IN  WaitType(t) /\ Waiting(t) = Waiting(h) + 1
           /\ LET t == [h EXCEPT !.queue = push(@, r)]
              IN  WaitType(t) /\ Waiting(t) = Waiting(h) + 1
  <1>0. /\ h = [aff |-> h.aff, queue |-> h.queue]
        /\ h.aff \in [Nodes -> Seq(Request)] /\ h.queue \in Seq(Request)
        /\ Len(h.queue) \in Nat /\ Waiters(h.aff) \in Nat
    BY WaitingIsNumber DEF WaitType
  <1>1. LET t == [h EXCEPT !.aff[z] = Append(@, r)]
        IN  WaitType(t) /\ Waiting(t) = Waiting(h) + 1
    <2> DEFINE a == Append(h.aff[z], r)
               f == [h.aff EXCEPT ![z] = a]
               t == [h EXCEPT !.aff[z] = Append(@, r)]
    <2>1. a \in Seq(Request) /\ Len(a) = Len(h.aff[z]) + 1 /\ Len(h.aff[z]) \in Nat
      <3>1. h.aff[z] \in Seq(Request)
        BY <1>0
      <3> QED BY <3>1, Appended
    <2>2. t = [aff |-> f, queue |-> h.queue]
      <3>1. t = [h EXCEPT !.aff = f]
        BY <1>0
      <3> HIDE DEF f, t
      <3> QED BY <1>0, <3>1
    <2> HIDE DEF a
    <2>3. f \in [Nodes -> Seq(Request)] /\ f[z] = a /\ \A y \in Nodes : y # z => f[y] = h.aff[y]
      BY <1>0, <2>1
    <2> HIDE DEF f, t
    <2>4. WaitType(t) /\ t.aff = f /\ t.queue = h.queue
      BY <1>0, <2>2, <2>3 DEF WaitType
    <2>5. Waiters(f) + Len(h.aff[z]) = Waiters(h.aff) + Len(f[z]) /\ Waiters(f) \in Nat
      BY <1>0, <2>3, WaitersChange
    <2> DEFINE x == Waiters(f)
               y == Waiters(h.aff)
               n == Len(h.aff[z])
               q == Len(h.queue)
    <2>6. x + n = y + (n + 1) /\ x \in Nat /\ y \in Nat /\ n \in Nat /\ q \in Nat
      BY <1>0, <2>1, <2>3, <2>5
    <2> HIDE DEF x, y, n, q
    <2>7. q + x = (q + y) + 1
      BY <2>6
    <2>8. Waiting(t) = q + x /\ Waiting(h) = q + y
      BY <2>4 DEF Waiting, q, x, y
    <2> QED BY <2>4, <2>7, <2>8 DEF t
  <1>2. LET t == [h EXCEPT !.queue = push(@, r)]
        IN  WaitType(t) /\ Waiting(t) = Waiting(h) + 1
    <2> DEFINE w == Append(h.queue, r)
               t == [h EXCEPT !.queue = push(@, r)]
    <2>1. w \in Seq(Request) /\ Len(w) = Len(h.queue) + 1
      BY <1>0, Appended
    <2>2. t = [aff |-> h.aff, queue |-> w]
      <3>1. t = [h EXCEPT !.queue = w]
        BY DEF push
      <3> HIDE DEF w, t
      <3> QED BY <1>0, <3>1
    <2> HIDE DEF w, t
    <2>3. WaitType(t) /\ t.aff = h.aff /\ t.queue = w
      BY <1>0, <2>1, <2>2 DEF WaitType
    <2> DEFINE y == Waiters(h.aff)
               q == Len(h.queue)
               q1 == Len(w)
    <2>4. y \in Nat /\ q \in Nat /\ q1 = q + 1
      BY <1>0, <2>1
    <2> HIDE DEF y, q, q1
    <2>5. q1 + y = (q + y) + 1
      BY <2>4
    <2>6. Waiting(t) = q1 + y /\ Waiting(h) = q + y
      BY <2>3 DEF Waiting, q1, q, y
    <2> QED BY <2>3, <2>5, <2>6 DEF t
  <1> QED BY <1>1, <1>2

\* Due returns are routed: c.due are they, c.cache tells where their KV is, c.s is
\* what waited before.
RouteBody(c, h, k) == Routed(h, c.due[k], c.cache)
RouteInv(c, h, k) == WaitType(h) /\ Waiting(h) = Waiting(c.s) + k
RouteLoop == INSTANCE LoopTheory WITH Step <- RouteBody, Inv <- RouteInv

LEMMA RouteStep ==
    ASSUME NEW c, c.due \in Seq(Request), Accounted(c.cache, Nodes), WaitType(c.s),
           NEW k \in 0..(Len(c.due) - 1), NEW h, RouteInv(c, h, k)
    PROVE  RouteInv(c, RouteBody(c, h, k + 1), k + 1)
  <1> DEFINE r == c.due[k + 1]
             entry == Find(c.cache, r.id)
             t == RouteBody(c, h, k + 1)
  <1>1. r \in Request /\ k \in Nat /\ WaitType(h)
    <2>1. Len(c.due) \in Nat /\ k + 1 \in DOMAIN c.due /\ k \in Nat
      OBVIOUS
    <2> QED BY <2>1, SeqElements DEF RouteInv
  <1>2. WaitType(t) /\ Waiting(t) = Waiting(h) + 1
    <2> HIDE DEF r
    <2>1. CASE entry.tier = "HBM"
      <3>1. entry.node \in Nodes
        <4>1. entry # Gone
          BY <2>1 DEF Gone
        <4>2. r.id \in DOMAIN c.cache.idx /\ entry = c.cache.idx[r.id]
          BY <4>1 DEF Find
        <4>3. entry \in CacheEntry(Nodes)
          BY <4>1, <4>2 DEF Accounted
        <4> QED BY <4>3 DEF CacheEntry
      <3>2. t = [h EXCEPT !.aff[entry.node] = Append(@, r)]
        BY <2>1 DEF RouteBody, Routed, r
      <3> HIDE DEF t, entry
      <3> QED BY <1>1, <3>1, <3>2, OneMoreWaits
    <2>2. CASE entry.tier # "HBM"
      <3>1. t = [h EXCEPT !.queue = push(@, r)]
        BY <2>2 DEF RouteBody, Routed, r
      <3>2. 1 \in Nodes
        BY Numbers DEF Nodes
      <3> HIDE DEF t
      <3> QED BY <1>1, <3>1, <3>2, OneMoreWaits
    <2> QED BY <2>1, <2>2
  <1> HIDE DEF t
  <1> DEFINE x == Waiting(t)
             y == Waiting(h)
             z == Waiting(c.s)
  <1>3. x = y + 1 /\ y = z + k /\ z \in Nat
    BY <1>2, WaitingIsNumber DEF RouteInv
  <1> HIDE DEF x, y, z
  <1>4. x = z + (k + 1)
    BY <1>1, <1>3
  <1> QED BY <1>2, <1>4 DEF RouteInv, x, z, t

\* Routing loses nobody.
AllRouted(due, cc, s) == Iterate(Len(due), LAMBDA h, k : Routed(h, due[k], cc), s)

LEMMA RoutedKeeps ==
    ASSUME NEW due \in Seq(Request), NEW cc, Accounted(cc, Nodes), NEW s, WaitType(s)
    PROVE  /\ WaitType(AllRouted(due, cc, s))
           /\ Waiting(AllRouted(due, cc, s)) = Waiting(s) + Len(due)
  <1> DEFINE c == [due |-> due, cache |-> cc, s |-> s]
             n == Len(due)
             t == AllRouted(due, cc, s)
  <1>1. RouteLoop!Loop(c, n, s) = t
    BY DEF RouteLoop!Loop, RouteLoop!Iterate, Iterate, RouteBody, AllRouted
  <1>2. c.due = due /\ c.cache = cc /\ c.s = s /\ n \in Nat
    OBVIOUS
  <1> HIDE DEF c, t
  <1>3. RouteInv(c, s, 0)
    <2>1. Waiting(s) \in Nat
      BY WaitingIsNumber
    <2> QED BY <1>2, <2>1 DEF RouteInv
  <1>4. ASSUME NEW k \in 0..(n - 1), NEW h, RouteInv(c, h, k)
        PROVE  RouteInv(c, RouteBody(c, h, k + 1), k + 1)
    BY <1>2, <1>4, RouteStep
  <1> HIDE DEF n
  <1>5. RouteInv(c, t, n)
    BY <1>1, <1>2, <1>3, <1>4, RouteLoop!LoopInvariant
  <1> QED BY <1>2, <1>5 DEF RouteInv, n, t
-----------------------------------------------------------------------------
(* Spilling: who waited too long for a node goes to the global queue.       *)

Patient(r) == now - r.arrival <= aff_spill_cap

\* c.az are the waiters of a node, c.queue the global queue before.  After k passes
\* either all waiters were looked at, or k were looked at or moved.
SpillNextBody(c, h, k) == SpillNext(h)
SpillNextInv(c, h, k) ==
    /\ h = [i |-> h.i, az |-> h.az, queue |-> h.queue]
    /\ h.i \in Nat \ {0} /\ h.az \in Seq(Request) /\ h.queue \in Seq(Request)
    /\ h.i <= Len(h.az) + 1
    /\ Len(h.az) + Len(h.queue) = Len(c.az) + Len(c.queue)
    /\ \A j \in 1..(h.i - 1) : Patient(h.az[j])
    /\ h.i = Len(h.az) + 1 \/ h.i - 1 + (Len(c.az) - Len(h.az)) = k
SpillNextLoop == INSTANCE LoopTheory WITH Step <- SpillNextBody, Inv <- SpillNextInv

\* One pass.  The request that moves into the place is looked at next.
LEMMA SpillNextStep ==
    ASSUME TypeInv, NEW c, c.az \in Seq(Request), c.queue \in Seq(Request),
           NEW k \in Nat, NEW h, SpillNextInv(c, h, k)
    PROVE  SpillNextInv(c, SpillNext(h), k + 1)
  <1> DEFINE i == h.i
             az == h.az
             q == h.queue
             n == Len(h.az)
             m == Len(h.queue)
             n0 == Len(c.az)
             m0 == Len(c.queue)
             t == SpillNext(h)
  <1>1. /\ h = [i |-> i, az |-> az, queue |-> q]
        /\ i \in Nat \ {0} /\ az \in Seq(Request) /\ q \in Seq(Request)
        /\ i <= n + 1 /\ n + m = n0 + m0
        /\ \A j \in 1..(i - 1) : Patient(az[j])
        /\ i = n + 1 \/ i - 1 + (n0 - n) = k
    BY DEF SpillNextInv
  <1>2. n \in Nat /\ m \in Nat /\ n0 \in Nat /\ m0 \in Nat /\ now \in Nat /\ aff_spill_cap \in Nat
        /\ \A j \in 1..n : az[j] \in Request /\ az[j].arrival \in Nat
    <2>1. now \in Nat /\ aff_spill_cap \in Nat
      BY Numbers DEF TypeInv
    <2>2. n \in Nat /\ m \in Nat /\ n0 \in Nat /\ m0 \in Nat
      BY <1>1
    <2>3. \A j \in 1..n : az[j] \in Request /\ az[j].arrival \in Nat
      <3> TAKE j \in 1..n
      <3>1. az[j] \in Request
        BY <1>1, SeqElements
      <3> QED BY <3>1, RequestTypes
    <2> QED BY <2>1, <2>2, <2>3
  <1>3. CASE i > n
    <2>1. SpillNext(h) = h
      <3>1. ~(i <= n) /\ h.i = i /\ Len(h.az) = n
        BY <1>1, <1>2, <1>3
      <3> HIDE DEF i, n
      <3> QED BY <1>3, <3>1 DEF SpillNext
    <2>2. i = n + 1
      BY <1>1, <1>2, <1>3
    <2> QED BY <2>1, <2>2 DEF SpillNextInv
  <1>4. CASE i <= n /\ now - az[i].arrival > aff_spill_cap
    <2> DEFINE w == Without(az, i)
               q1 == push(q, az[i])
    <2>1. ~(i > n)
      BY <1>1, <1>2, <1>4
    <2>2. t = [h EXCEPT !.az = Without(@, h.i), !.queue = push(@, h.az[h.i])]
      BY <1>4, <2>1 DEF SpillNext
    <2>3. i \in DOMAIN az /\ i \in 1..n
      BY <1>1, <1>2, <1>4
    <2>4. /\ w \in Seq(Request) /\ Len(w) = n - 1
          /\ \A j \in 1..(n - 1) : w[j] = IF j = i THEN az[n] ELSE az[j]
      BY <1>1, <2>3, RemovalKeepsTheRest
    <2>5. q1 \in Seq(Request) /\ Len(q1) = m + 1
      BY <1>1, <1>2, <2>3, Appended DEF push
    <2>6. t = [i |-> i, az |-> w, queue |-> q1]
      <3> DEFINE u == [h EXCEPT !.az = w]
      <3>1. u = [i |-> i, az |-> w, queue |-> q]
        <4> HIDE DEF w, i, az, q
        <4> QED BY <1>1
      <3>2. t = [u EXCEPT !.queue = q1]
        BY <2>2
      <3> HIDE DEF w, q1, u, t, i, az, q
      <3> QED BY <3>1, <3>2
    <2>7. \A j \in 1..(i - 1) : Patient(w[j])
      <3> TAKE j \in 1..(i - 1)
      <3>1. j \in 1..(n - 1) /\ j # i
        BY <1>1, <1>2, <1>4
      <3> QED BY <1>1, <2>4, <3>1
    <2> HIDE DEF w, q1, t, i, az, q, n, m, n0, m0
    <2>8. /\ i <= (n - 1) + 1 /\ (n - 1) + (m + 1) = n0 + m0
          /\ i - 1 + (n0 - (n - 1)) = k + 1
      <3>1. i \in Nat /\ n \in Nat /\ m \in Nat /\ n0 \in Nat /\ m0 \in Nat /\ i <= n
        BY <1>1, <1>2, <1>4
      <3>2. n + m = n0 + m0
        BY <1>1
      <3>3. i - 1 + (n0 - n) = k
        BY <1>1, <3>1
      <3> QED BY <3>1, <3>2, <3>3
    <2>9. t.i = i /\ t.az = w /\ t.queue = q1 /\ t = [i |-> t.i, az |-> t.az, queue |-> t.queue]
      BY <2>6
    <2>10. SpillNextInv(c, t, k + 1)
      BY <1>1, <2>4, <2>5, <2>7, <2>8, <2>9 DEF SpillNextInv, n0, m0
    <2> QED BY <2>10 DEF t
  <1>5. CASE i <= n /\ ~(now - az[i].arrival > aff_spill_cap)
    <2>1. ~(i > n) /\ i \in 1..n
      <3>1. i \in Nat \ {0} /\ n \in Nat /\ i <= n
        BY <1>1, <1>2, <1>5
      <3> HIDE DEF i, n
      <3> QED BY <3>1
    <2>2. t = [h EXCEPT !.i = @ + 1]
      BY <1>5, <2>1 DEF SpillNext
    <2>3. t = [i |-> i + 1, az |-> az, queue |-> q]
      <3> HIDE DEF t, i, az, q
      <3> QED BY <1>1, <2>2 DEF i
    <2>4. Patient(az[i])
      BY <1>2, <1>5, <2>1 DEF Patient
    <2> HIDE DEF t, i, az, q, n, m, n0, m0
    <2>5. \A j \in 1..((i + 1) - 1) : Patient(az[j])
      BY <1>1, <2>4
    <2>6. i + 1 \in Nat \ {0} /\ i + 1 <= n + 1 /\ (i + 1) - 1 + (n0 - n) = k + 1
      <3>1. /\ i \in Nat /\ n \in Nat /\ n0 \in Nat /\ i <= n
            /\ i = n + 1 \/ i - 1 + (n0 - n) = k
        BY <1>1, <1>2, <1>5
      <3> QED BY <3>1
    <2>7. t.i = i + 1 /\ t.az = az /\ t.queue = q /\ t = [i |-> t.i, az |-> t.az, queue |-> t.queue]
      BY <2>3
    <2>8. SpillNextInv(c, t, k + 1)
      BY <1>1, <2>5, <2>6, <2>7 DEF SpillNextInv, n, m, n0, m0
    <2> QED BY <2>8 DEF t
  <1> QED BY <1>1, <1>2, <1>3, <1>4, <1>5

\* After one pass for each waiter, all who are left are within the cap.
LEMMA SpillPasses ==
    ASSUME TypeInv, NEW az \in Seq(Request), NEW q \in Seq(Request)
    PROVE  LET t == Iterate(Len(az), LAMBDA g, k : SpillNext(g), [i |-> 1, az |-> az, queue |-> q])
           IN  /\ t.az \in Seq(Request) /\ t.queue \in Seq(Request)
               /\ Len(t.az) + Len(t.queue) = Len(az) + Len(q)
               /\ \A j \in DOMAIN t.az : Patient(t.az[j])
  <1> DEFINE c == [az |-> az, queue |-> q]
             start == [i |-> 1, az |-> az, queue |-> q]
             n == Len(az)
             t == Iterate(n, LAMBDA g, k : SpillNext(g), start)
  <1>1. SpillNextLoop!Loop(c, n, start) = t
    BY DEF SpillNextLoop!Loop, SpillNextLoop!Iterate, Iterate, SpillNextBody
  <1>2. c.az = az /\ c.queue = q /\ n \in Nat /\ Len(q) \in Nat
    OBVIOUS
  <1>3. /\ start = [i |-> start.i, az |-> start.az, queue |-> start.queue]
        /\ start.i = 1 /\ start.az = az /\ start.queue = q
    OBVIOUS
  <1> HIDE DEF c, t, start
  <1>4. SpillNextInv(c, start, 0)
    BY <1>2, <1>3 DEF SpillNextInv
  <1>5. ASSUME NEW k \in 0..(n - 1), NEW h, SpillNextInv(c, h, k)
        PROVE  SpillNextInv(c, SpillNextBody(c, h, k + 1), k + 1)
    <2>1. k \in Nat
      OBVIOUS
    <2> QED BY <1>2, <1>5, <2>1, SpillNextStep DEF SpillNextBody
  <1> HIDE DEF n
  <1>6. SpillNextInv(c, t, n)
    BY <1>1, <1>2, <1>4, <1>5, SpillNextLoop!LoopInvariant
  <1> DEFINE i == t.i
             m == Len(t.az)
  <1>7. /\ t.az \in Seq(Request) /\ t.queue \in Seq(Request)
        /\ Len(t.az) + Len(t.queue) = Len(az) + Len(q)
        /\ i \in Nat \ {0} /\ (\A j \in 1..(i - 1) : Patient(t.az[j]))
        /\ i = m + 1 \/ i - 1 + (n - m) = n
    BY <1>2, <1>6 DEF SpillNextInv, n
  <1>8. m \in Nat /\ DOMAIN t.az = 1..m
    BY <1>7
  <1> HIDE DEF i, m
  <1>9. i - 1 = m
    BY <1>2, <1>7, <1>8
  <1>10. \A j \in DOMAIN t.az : Patient(t.az[j])
    BY <1>7, <1>8, <1>9
  <1> QED BY <1>7, <1>10 DEF t, start, n

\* The nodes one after the other; c is what waited before.
SpillBody(c, h, z) == Spilled(h, z)
SpillInv(c, h, n) ==
    /\ WaitType(h) /\ Waiting(h) = Waiting(c)
    /\ \A z \in 1..n : \A j \in DOMAIN h.aff[z] : Patient(h.aff[z][j])
SpillLoop == INSTANCE LoopTheory WITH Step <- SpillBody, Inv <- SpillInv

LEMMA SpillStep ==
    ASSUME TypeInv, NEW c, WaitType(c), NEW n \in 0..(Z - 1), NEW h, SpillInv(c, h, n)
    PROVE  SpillInv(c, SpillBody(c, h, n + 1), n + 1)
  <1> DEFINE z == n + 1
             az == h.aff[z]
             done == Iterate(Len(az), LAMBDA g, k : SpillNext(g), [i |-> 1, az |-> az, queue |-> h.queue])
             a1 == done.az
             q1 == done.queue
             f == [h.aff EXCEPT ![z] = a1]
             t == [aff |-> f, queue |-> q1]
  <1>1. WaitType(h) /\ z \in Nodes /\ n \in Nat /\ Z \in Nat
    BY Numbers DEF SpillInv, Nodes
  <1>2. h.aff \in [Nodes -> Seq(Request)] /\ az \in Seq(Request) /\ h.queue \in Seq(Request)
    BY <1>1 DEF WaitType
  <1>3. Spilled(h, z) = t
    BY DEF Spilled
  <1> HIDE DEF az
  <1>4. /\ a1 \in Seq(Request) /\ q1 \in Seq(Request)
        /\ Len(a1) + Len(q1) = Len(az) + Len(h.queue)
        /\ \A j \in DOMAIN a1 : Patient(a1[j])
    BY <1>2, SpillPasses
  <1> HIDE DEF done, a1, q1
  <1>5. f \in [Nodes -> Seq(Request)] /\ f[z] = a1 /\ \A y \in Nodes : y # z => f[y] = h.aff[y]
    <2> HIDE DEF z
    <2> QED BY <1>1, <1>2, <1>4
  <1> HIDE DEF f
  <1>6. WaitType(t) /\ t.aff = f /\ t.queue = q1
    <2>1. t.aff = f /\ t.queue = q1 /\ t = [aff |-> t.aff, queue |-> t.queue]
      OBVIOUS
    <2> HIDE DEF t
    <2> QED BY <1>4, <1>5, <2>1 DEF WaitType
  <1>7. Waiters(f) + Len(h.aff[z]) = Waiters(h.aff) + Len(f[z])
    <2> HIDE DEF z
    <2> QED BY <1>1, <1>2, <1>5, WaitersChange
  <1>8. Waiting(t) = Waiting(h)
    <2> DEFINE w1 == Waiters(f)
               w0 == Waiters(h.aff)
               y1 == Len(a1)
               y0 == Len(az)
               x1 == Len(q1)
               x0 == Len(h.queue)
    <2>1. w1 \in Nat /\ w0 \in Nat /\ x1 \in Nat /\ x0 \in Nat
      BY <1>1, <1>6, WaitingIsNumber
    <2>2. y1 \in Nat /\ y0 \in Nat
      BY <1>2, <1>4
    <2>3. y1 + x1 = y0 + x0 /\ w1 + y0 = w0 + y1
      BY <1>4, <1>5, <1>7 DEF az
    <2> HIDE DEF w1, w0, y1, y0, x1, x0
    <2>4. x1 + w1 = x0 + w0
      BY <2>1, <2>2, <2>3
    <2> QED BY <1>6, <2>4 DEF Waiting, x1, w1, x0, w0
  <1>9. \A y \in 1..(n + 1) : \A j \in DOMAIN t.aff[y] : Patient(t.aff[y][j])
    <2> TAKE y \in 1..(n + 1)
    <2>1. CASE y = z
      BY <1>4, <1>5, <1>6, <2>1
    <2>2. CASE y # z
      <3>1. y \in 1..n /\ y \in Nodes
        BY <1>1, <2>2 DEF Nodes
      <3>2. t.aff[y] = h.aff[y]
        BY <1>5, <1>6, <2>2, <3>1
      <3> QED BY <3>1, <3>2 DEF SpillInv
    <2> QED BY <2>1, <2>2
  <1>10. SpillInv(c, t, n + 1)
    BY <1>6, <1>8, <1>9 DEF SpillInv
  <1> QED BY <1>3, <1>10 DEF SpillBody

\* After all nodes nobody over the cap waits for a node, and nobody is lost.
LEMMA SpilledKeeps ==
    ASSUME TypeInv, NEW s, WaitType(s)
    PROVE  LET t == Iterate(Z, Spilled, s)
           IN  /\ WaitType(t) /\ Waiting(t) = Waiting(s)
               /\ \A z \in Nodes : \A j \in DOMAIN t.aff[z] : Patient(t.aff[z][j])
  <1> DEFINE t == Iterate(Z, Spilled, s)
  <1>1. SpillLoop!Loop(s, Z, s) = t
    BY DEF SpillLoop!Loop, SpillLoop!Iterate, Iterate, SpillBody
  <1>2. SpillInv(s, s, 0) /\ Z \in Nat
    BY Numbers DEF SpillInv
  <1>3. ASSUME NEW k \in 0..(Z - 1), NEW h, SpillInv(s, h, k)
        PROVE  SpillInv(s, SpillBody(s, h, k + 1), k + 1)
    BY <1>3, SpillStep
  <1> HIDE DEF t
  <1>4. SpillInv(s, t, Z)
    BY <1>1, <1>2, <1>3, SpillLoop!LoopInvariant
  <1> QED BY <1>4 DEF SpillInv, Nodes, t
-----------------------------------------------------------------------------
(* The beginning of a round, whichever program runs.                       *)

\* The due returns wait, for a node or in the queue; what is cached ages.
LEMMA Begun ==
    ASSUME ClusterInv, Beginning, queue' \in Seq(Request), aff' \in [Nodes -> Seq(Request)],
           Len(queue') + Waiters(aff') = Len(queue) + Waiters(aff) + Len(Due(pend, now))
    PROVE  /\ TypeInv' /\ HbmClosedLoop' /\ BatchesFit' /\ NothingCached'
           /\ Population' = Population
  <1>1. /\ TypeInv /\ UNCHANGED <<driver, now, turn, pools, next_id>> /\ phase' = "serve"
        /\ cache' = Ticked(cache) /\ pend' = NotDue(pend, now)
    BY DEF ClusterInv, Beginning
  <1>2. /\ pend \in Seq(Request) /\ queue \in Seq(Request) /\ aff \in [Nodes -> Seq(Request)]
        /\ Accounted(cache, Nodes) /\ now \in Nat /\ pools[turn] \in Seq(Decoder)
        /\ DOMAIN cache.idx \subseteq Nat /\ next_id \in Nat
    BY <1>1, HereTypes DEF StepType
  <1>3. /\ Accounted(cache', Nodes) /\ DOMAIN cache'.idx = DOMAIN cache.idx
        /\ \A n \in Nodes : cache'.used[n] <= cache.used[n]
    <2>1. /\ Accounted(Ticked(cache), Nodes) /\ DOMAIN Ticked(cache).idx = DOMAIN cache.idx
          /\ Ticked(cache).budget = cache.budget
          /\ \A n \in Nodes : Ticked(cache).used[n] <= cache.used[n]
      BY <1>2, TickedAccounts
    <2> QED BY <1>1, <2>1
  <1>4. /\ pend' \in Seq(Request) /\ Len(Due(pend, now)) + Len(pend') = Len(pend)
        /\ Len(Due(pend, now)) \in Nat /\ Len(pend') \in Nat
    BY <1>1, <1>2, DueParts
  <1>5. TypeInv'
    <2>1. StepType([pool |-> pools'[turn'], queue |-> queue', aff |-> aff', pend |-> pend',
                    cache |-> cache', next_id |-> next_id'])
      BY <1>1, <1>2, <1>3, <1>4, StepMade
    <2>2. StepType(Here)'
      BY <2>1 DEF Here, StepType
    <2> QED BY <1>1, <2>2 DEF TypeInv
  <1>6. Population' = Population
    <2> DEFINE s == Sum([b \in Batches |-> Len(pools[b])])
    <2>1. Population = s + Len(queue) + Waiters(aff) + Len(pend)
      BY DEF Population, Waiters
    <2>2. Population' = s + Len(queue') + Waiters(aff') + Len(pend')
      BY <1>1 DEF Population, Waiters, Batches
    <2>3. s \in Nat
      <3> DEFINE u == [b \in Batches |-> Len(pools[b])]
                 n == Len(pools)
      <3>1. n \in Nat /\ Batches = 1..n /\ Len(u) = n
        BY <1>1 DEF TypeInv, Batches
      <3>2. \A b \in 1..n : u[b] \in Nat
        <4> TAKE b \in 1..n
        <4>1. pools[b] \in Seq(Decoder)
          BY <1>1 DEF TypeInv
        <4>2. Len(pools[b]) \in Nat /\ u[b] = Len(pools[b])
          BY <3>1, <4>1
        <4> QED BY <4>2
      <3> HIDE DEF u, n
      <3>3. SumTo(u, n) \in Nat
        BY <3>1, <3>2, SumOfNumbers
      <3> QED BY <3>1, <3>3, SumIsSumTo DEF u
    <2> DEFINE b0 == Len(queue)
               b1 == Len(queue')
               c0 == Waiters(aff)
               c1 == Waiters(aff')
               d0 == Len(pend)
               d1 == Len(pend')
               e == Len(Due(pend, now))
    <2>4. b0 \in Nat /\ b1 \in Nat /\ c0 \in Nat /\ c1 \in Nat /\ d0 \in Nat
      <3>1. c0 \in Nat /\ c1 \in Nat
        BY <1>2, WaitersAreNumbers
      <3> QED BY <1>2, <3>1
    <2>5. b1 + c1 = b0 + c0 + e /\ e + d1 = d0 /\ e \in Nat /\ d1 \in Nat
      BY <1>4
    <2> HIDE DEF s, b0, b1, c0, c1, d0, d1, e
    <2>6. s + b1 + c1 + d1 = s + b0 + c0 + d0
      BY <2>3, <2>4, <2>5
    <2> QED BY <2>1, <2>2, <2>6 DEF b0, b1, c0, c1, d0, d1
  <1>7. HbmClosedLoop'
    <2>1. SUFFICES ASSUME driver = "csched", NEW z \in Nodes
                   PROVE  cache'.used[z] = 0 \/ cache'.used[z] + Excess(pools[z]) <= node_capacity
      BY <1>1 DEF HbmClosedLoop, Nodes, Excess, LiveSum, LiveKv
    <2> DEFINE u == cache'.used[z]
               v == cache.used[z]
               x == Excess(pools[z])
    <2>2. u \in Nat /\ v \in Nat /\ u <= v
      BY <1>2, <1>3 DEF Accounted
    <2>3. v = 0 \/ v + x <= node_capacity
      BY <2>1 DEF ClusterInv, HbmClosedLoop, Nodes
    <2>4. x \in Nat /\ node_capacity \in Nat
      <3>1. pools \in Seq(Seq(Decoder)) /\ Len(pools) = Z
        BY <1>1, <2>1 DEF TypeInv
      <3>2. z \in DOMAIN pools
        BY <3>1 DEF Nodes
      <3>3. pools[z] \in Seq(Decoder)
        BY <3>1, <3>2
      <3> QED BY <3>3, ExcessIsNumber, Numbers
    <2> HIDE DEF u, v, x
    <2>5. u = 0 \/ u + x <= node_capacity
      BY <2>2, <2>3, <2>4
    <2> QED BY <2>5 DEF u, x
  <1>8. BatchesFit' /\ NothingCached'
    BY <1>1 DEF ClusterInv, BatchesFit, NothingCached, Batches
  <1> QED BY <1>5, <1>6, <1>7, <1>8

\* csched routes the due returns, then spills.
LEMMA CschedBegins ==
    ASSUME ClusterInv, driver = "csched", CschedBegin
    PROVE  ClusterInv' /\ Population' = Population
  <1> DEFINE due == Due(pend, now)
             tick == Ticked(cache)
             start == [aff |-> aff, queue |-> queue]
             routed == Iterate(Len(due), LAMBDA h, k : Routed(h, due[k], tick), start)
             spilled == Iterate(Z, Spilled, routed)
  <1>1. TypeInv /\ Beginning /\ aff' = spilled.aff /\ queue' = spilled.queue
    BY DEF ClusterInv, CschedBegin
  <1>2. /\ pend \in Seq(Request) /\ queue \in Seq(Request) /\ aff \in [Nodes -> Seq(Request)]
        /\ Accounted(cache, Nodes) /\ now \in Nat
    BY <1>1, HereTypes
  <1>3. due \in Seq(Request) /\ Len(due) \in Nat
    BY <1>2, DueParts
  <1>4. Accounted(tick, Nodes)
    BY <1>2, TickedAccounts
  <1>5. WaitType(start) /\ Waiting(start) = Len(queue) + Waiters(aff)
    <2>1. start.aff = aff /\ start.queue = queue /\ start = [aff |-> start.aff, queue |-> start.queue]
      OBVIOUS
    <2> HIDE DEF start
    <2> QED BY <1>2, <2>1 DEF WaitType, Waiting
  <1> HIDE DEF due, tick, start
  <1>6. WaitType(routed) /\ Waiting(routed) = Waiting(start) + Len(due)
    <2>1. routed = AllRouted(due, tick, start)
      BY DEF AllRouted
    <2> HIDE DEF routed
    <2> QED BY <1>3, <1>4, <1>5, <2>1, RoutedKeeps
  <1> HIDE DEF routed
  <1>7. /\ WaitType(spilled) /\ Waiting(spilled) = Waiting(routed)
        /\ \A z \in Nodes : \A j \in DOMAIN spilled.aff[z] : Patient(spilled.aff[z][j])
    BY <1>1, <1>6, SpilledKeeps
  <1> HIDE DEF spilled
  <1>8. /\ queue' \in Seq(Request) /\ aff' \in [Nodes -> Seq(Request)]
        /\ Len(queue') + Waiters(aff') = Len(queue) + Waiters(aff) + Len(Due(pend, now))
    BY <1>1, <1>5, <1>6, <1>7 DEF WaitType, Waiting, due
  <1>9. TypeInv' /\ HbmClosedLoop' /\ BatchesFit' /\ NothingCached' /\ Population' = Population
    BY <1>1, <1>8, Begun
  <1>10. driver' = driver /\ now' = now
    BY <1>1 DEF Beginning
  <1>11. NoneWaitsForNode'
    BY <1>10 DEF NoneWaitsForNode
  <1>12. AffinityWaitBounded'
    BY <1>1, <1>7, <1>10 DEF AffinityWaitBounded, Nodes, Patient
  <1> QED BY <1>9, <1>11, <1>12 DEF ClusterInv

\* baseline and prepo queue them.
LEMMA QueueingBegins ==
    ASSUME ClusterInv, driver # "csched", QueueingBegin
    PROVE  ClusterInv' /\ Population' = Population
  <1>1. TypeInv /\ Beginning /\ queue' = queue \o Due(pend, now) /\ aff' = aff
    BY DEF ClusterInv, QueueingBegin
  <1>2. /\ pend \in Seq(Request) /\ queue \in Seq(Request) /\ aff \in [Nodes -> Seq(Request)]
        /\ now \in Nat
    BY <1>1, HereTypes
  <1>3. Due(pend, now) \in Seq(Request) /\ Len(Due(pend, now)) \in Nat
    BY <1>2, DueParts
  <1>4. queue' \in Seq(Request) /\ Len(queue') = Len(queue) + Len(Due(pend, now))
    BY <1>1, <1>2, <1>3, Joined
  <1>5. Len(queue') + Waiters(aff') = Len(queue) + Waiters(aff) + Len(Due(pend, now))
    <2> DEFINE a == Len(queue)
               b == Len(Due(pend, now))
               c == Waiters(aff)
    <2>1. c \in Nat
      BY <1>2, WaitersAreNumbers
    <2>2. a \in Nat /\ b \in Nat
      BY <1>2, <1>3
    <2> HIDE DEF a, b, c
    <2>3. (a + b) + c = a + c + b
      BY <2>1, <2>2
    <2> QED BY <1>1, <1>4, <2>3 DEF a, b, c
  <1>6. TypeInv' /\ HbmClosedLoop' /\ BatchesFit' /\ NothingCached' /\ Population' = Population
    <2>1. aff' \in [Nodes -> Seq(Request)]
      BY <1>1, <1>2
    <2> QED BY <1>1, <1>4, <1>5, <2>1, Begun
  <1>7. driver' = driver /\ \A z \in Nodes : aff'[z] = <<>>
    BY <1>1 DEF Beginning, ClusterInv, NoneWaitsForNode
  <1>8. NoneWaitsForNode' /\ AffinityWaitBounded'
    BY <1>7 DEF NoneWaitsForNode, AffinityWaitBounded, Nodes
  <1> QED BY <1>6, <1>8 DEF ClusterInv

-----------------------------------------------------------------------------
(* The steps.                                                              *)

LEMMA StutterKeepsInv ==
    ASSUME ClusterInv, UNCHANGED vars
    PROVE  ClusterInv' /\ Population' = Population
  BY DEF ClusterInv, TypeInv, NoneWaitsForNode, BatchesFit, NothingCached, HbmClosedLoop,
         AffinityWaitBounded, Population, Here, StepType, Batches, vars, Excess, LiveSum, LiveKv

LEMMA NextKeepsInv ==
    ASSUME ClusterInv, [Next]_vars
    PROVE  ClusterInv' /\ Population' = Population
  <1>1. CASE Fill
    BY <1>1, FillKeepsInv
  <1>2. CASE FillNext(BatchSize)
    BY <1>2, FillNextKeepsInv
  <1>3. CASE Begin
    BY <1>3, CschedBegins, QueueingBegins DEF Begin
  <1>4. CASE Serve
    BY <1>4, ServeKeepsInv
  <1>5. CASE UNCHANGED vars
    BY <1>5, StutterKeepsInv
  <1> QED BY <1>1, <1>2, <1>3, <1>4, <1>5 DEF Next

\* What a round does besides.
LEMMA RoundsFeedAndForce ==
    ASSUME ClusterInv, [Next]_vars
    PROVE  /\ phase = "serve" /\ Len(pools'[turn]) < Len(pools[turn]) =>
                  /\ Fitting(queue', cap_room) = {}
                  /\ driver # "baseline" => Overdue(queue', now, global_age_cap) = {}
                  /\ aff'[NodeOf(turn)] = <<>>
           /\ phase = "serve" /\ driver # "baseline" =>
                  \A i \in Overdue(queue', now, global_age_cap) :
                      \A r \in Range(queue) \ Range(queue') : r.arrival <= queue'[i].arrival
  <1>1. SUFFICES ASSUME phase = "serve"
                 PROVE  /\ Len(pools'[turn]) < Len(pools[turn]) =>
                               /\ Fitting(queue', cap_room) = {}
                               /\ driver # "baseline" => Overdue(queue', now, global_age_cap) = {}
                               /\ aff'[NodeOf(turn)] = <<>>
                        /\ driver # "baseline" =>
                               \A i \in Overdue(queue', now, global_age_cap) :
                                   \A r \in Range(queue) \ Range(queue') :
                                       r.arrival <= queue'[i].arrival
    OBVIOUS
  <1>2. CASE UNCHANGED vars
    <2>1. pools' = pools /\ queue' = queue
      BY <1>2 DEF vars
    <2>2. Len(pools[turn]) \in Nat
      <3>1. pools[turn] \in Seq(Decoder)
        BY HereTypes DEF ClusterInv
      <3> QED BY <3>1
    <2>3. ~(Len(pools[turn]) < Len(pools[turn]))
      <3> DEFINE n == Len(pools[turn])
      <3> HIDE DEF n
      <3>1. ~(n < n)
        BY <2>2 DEF n
      <3> QED BY <3>1 DEF n
    <2> QED BY <2>1, <2>3
  <1>3. CASE Serve
    <2>1. PICK t : ServedAs(t) /\ Commit(t)
      BY <1>3, Serves
    <2>2. pools'[turn] = t.pool /\ queue' = t.queue /\ aff' = t.aff
      BY <2>1, HereTypes DEF Commit, ClusterInv
    <2>3. driver # "baseline" => Forced(queue, queue')
      BY <2>1, <2>2 DEF ServedAs
    <2>4. ASSUME Len(pools'[turn]) < Len(pools[turn])
          PROVE  /\ Fitting(queue', cap_room) = {}
                 /\ driver # "baseline" => Overdue(queue', now, global_age_cap) = {}
                 /\ aff'[NodeOf(turn)] = <<>>
      <3>1. Dry(driver # "baseline", queue') /\ (driver = "csched" => aff'[turn] = <<>>)
        BY <2>1, <2>2, <2>4 DEF ServedAs
      <3>2. driver # "csched" => aff'[NodeOf(turn)] = <<>>
        <4>1. NoneWaitsForNode' /\ driver' = driver
          BY <1>3, ServeKeepsInv DEF ClusterInv, Serve, CschedServe, BaselineServe, PrepoServe, Served
        <4>2. NodeOf(turn) \in Nodes
          BY TurnIsOfANode DEF ClusterInv
        <4> QED BY <4>1, <4>2 DEF NoneWaitsForNode, Nodes
      <3>3. driver = "csched" => NodeOf(turn) = turn
        BY DEF NodeOf
      <3> QED BY <3>1, <3>2, <3>3 DEF Dry, NoneFor
    <2> QED BY <2>3, <2>4 DEF Forced
  <1>4. ~Fill /\ ~FillNext(BatchSize) /\ ~Begin
    BY <1>1 DEF Fill, CschedFill, BaselineFill, PrepoFill, Filling, FillNext, Begin, CschedBegin,
        QueueingBegin, Beginning
  <1> QED BY <1>2, <1>3, <1>4 DEF Next
-----------------------------------------------------------------------------
(* The cold start's states: gate, shuffle, placement.                      *)

\* The decoders that the nodes start with.
LEMMA PlacedTypes ==
    ASSUME NEW nodes, NEW dtots \in [1..Z -> [1..op.decode_pool -> ColdDecodes]],
           \A z \in Nodes : nodes[z] \in Seq(Nat) /\ Len(nodes[z]) <= op.decode_pool
    PROVE  Placed(nodes, dtots) \in Seq(Seq(Decoder)) /\ Len(Placed(nodes, dtots)) = Z
  <1> DEFINE before(z) == Sum([y \in 1..(z - 1) |-> Len(nodes[y])])
             kind(z, i) == [prompt |-> nodes[z][i], max_tokens |-> dtots[z][i]]
             e(z, i) == NewDecoder(fresh_arrival(before(z) + i - 1, kind(z, i), 0))
             p(z) == [i \in DOMAIN nodes[z] |-> e(z, i)]
             all == [z \in 1..Z |-> p(z)]
  <1>1. Placed(nodes, dtots) = all
    BY DEF Placed
  <1>2. Z \in Nat /\ \A z \in 1..Z : Len(nodes[z]) \in Nat /\ DOMAIN nodes[z] = 1..Len(nodes[z])
    BY Numbers DEF Nodes
  <1>3. ASSUME NEW z \in 1..Z PROVE before(z) \in Nat
    <2> DEFINE u == [y \in 1..(z - 1) |-> Len(nodes[y])]
               n == z - 1
    <2>1. n \in Nat /\ \A y \in 1..n : y \in 1..Z
      BY <1>2
    <2>2. Len(u) = n /\ \A y \in 1..n : u[y] \in Nat
      <3>1. \A y \in 1..n : Len(nodes[y]) \in Nat
        BY <1>2, <2>1
      <3> QED BY <2>1, <3>1
    <2> HIDE DEF u, n
    <2>3. SumTo(u, n) \in Nat
      BY <2>1, <2>2, SumOfNumbers
    <2> QED BY <2>2, <2>3, SumIsSumTo DEF u
  <1> HIDE DEF before
  <1>4. ASSUME NEW z \in 1..Z, NEW i \in DOMAIN nodes[z] PROVE e(z, i) \in Decoder
    <2>1. i \in 1..Len(nodes[z]) /\ nodes[z] \in Seq(Nat) /\ Len(nodes[z]) <= op.decode_pool
      BY <1>2, <1>4 DEF Nodes
    <2>2. nodes[z][i] \in Nat /\ i \in 1..op.decode_pool
      BY <2>1, Numbers
    <2>3. dtots[z][i] \in Nat \ {0}
      BY <2>2, ClusterAssumption DEF ClusterAssumption
    <2>4. kind(z, i) \in FirstTurn
      BY <2>2, <2>3 DEF FirstTurn
    <2>5. before(z) + i - 1 \in Nat
      BY <1>3, <2>2
    <2> HIDE DEF kind
    <2>6. fresh_arrival(before(z) + i - 1, kind(z, i), 0) \in Request
      BY <2>4, <2>5, Made
    <2> QED BY <2>6, Made
  <1> HIDE DEF e
  <1>5. ASSUME NEW z \in 1..Z PROVE p(z) \in Seq(Decoder)
    <2>1. Len(nodes[z]) \in Nat /\ DOMAIN nodes[z] = 1..Len(nodes[z])
      BY <1>2
    <2>2. \A i \in 1..Len(nodes[z]) : e(z, i) \in Decoder
      BY <1>4, <2>1
    <2> QED BY <2>1, <2>2
  <1> HIDE DEF p
  <1>6. all \in Seq(Seq(Decoder)) /\ Len(all) = Z
    BY <1>2, <1>5
  <1> QED BY <1>1, <1>6

\* The first turns that a program starts with.
LEMMA SeededTypes ==
    ASSUME NEW seed \in Seq(FirstTurn), NEW n \in Nat, n <= Len(seed)
    PROVE  Seeded(seed, n) \in Seq(Request)
  <1> DEFINE e(i) == fresh_arrival(i - 1, seed[i], 0)
  <1>1. ASSUME NEW i \in 1..n PROVE e(i) \in Request
    <2>1. i \in DOMAIN seed /\ i - 1 \in Nat /\ 0 \in Nat
      OBVIOUS
    <2>2. seed[i] \in FirstTurn
      BY <2>1, SeqElements
    <2> QED BY <2>1, <2>2, Made
  <1> HIDE DEF e
  <1>2. [i \in 1..n |-> e(i)] \in Seq(Request)
    BY <1>1
  <1> QED BY <1>2 DEF Seeded, e

\* An empty cache holds no bytes.
LEMMA EmptyAccounts ==
    ASSUME NEW capacity \in Nat
    PROVE  LET c == EmptyCache(capacity)
           IN  /\ Accounted(c, Nodes) /\ DOMAIN c.idx \subseteq Nat
               /\ \A z \in Nodes : c.used[z] = 0
  <1> DEFINE c == EmptyCache(capacity)
  <1>1. /\ c = [idx |-> c.idx, used |-> c.used, budget |-> c.budget] /\ c.idx = <<>>
        /\ c.used = [z \in Nodes |-> 0] /\ c.budget = [z \in Nodes |-> capacity]
    BY DEF EmptyCache, Nodes
  <1> HIDE DEF c
  <1>2. DOMAIN c.idx = {} /\ c.idx = [id \in DOMAIN c.idx |-> c.idx[id]]
    BY <1>1
  <1>3. IsFiniteSet(DOMAIN c.idx)
    BY <1>2, FS_EmptySet
  <1>4. ASSUME NEW z \in Nodes PROVE Bytes(c.idx, Resident(c.idx, z)) = 0
    <2>1. Resident(c.idx, z) = {}
      BY <1>2 DEF Resident
    <2>2. IsFiniteSet({})
      BY FS_EmptySet
    <2>3. Bytes(c.idx, {}) = 0
      BY <2>2, SumUnfold
    <2> QED BY <2>1, <2>3
  <1>5. /\ c.used \in [Nodes -> Nat] /\ c.budget \in [Nodes -> Nat]
        /\ \A z \in Nodes : c.used[z] = 0
    BY <1>1
  <1>6. Accounted(c, Nodes)
    BY <1>1, <1>2, <1>3, <1>4, <1>5 DEF Accounted
  <1> QED BY <1>2, <1>5, <1>6 DEF c
-----------------------------------------------------------------------------
(* The initial states.                                                     *)

LEMMA PlacedStart ==
    ASSUME PlacedInit
    PROVE  /\ pools \in Seq(Seq(Decoder)) /\ Len(pools) = Z
           /\ queue \in Seq(Request) /\ next_id \in Nat
           /\ \E capacity \in Nat : cache = EmptyCache(capacity)
  <1>1. PICK draw \in Draws : \E nodes \in ColdStarts(draw, Z, op) :
            \E dtots \in [1..Z -> [1..op.decode_pool -> ColdDecodes]] : pools = Placed(nodes, dtots)
    BY DEF PlacedInit
  <1>2. PICK nodes \in ColdStarts(draw, Z, op) :
            \E dtots \in [1..Z -> [1..op.decode_pool -> ColdDecodes]] : pools = Placed(nodes, dtots)
    BY <1>1
  <1>3. PICK dtots \in [1..Z -> [1..op.decode_pool -> ColdDecodes]] : pools = Placed(nodes, dtots)
    BY <1>2
  <1>4. \A z \in Nodes : nodes[z] \in Seq(Nat) /\ Len(nodes[z]) <= op.decode_pool
    <2>1. draw \in Seq(Nat)
      BY ClusterAssumption DEF ClusterAssumption
    <2> QED BY <2>1, Numbers, ColdStartTypes DEF Nodes
  <1>5. pools \in Seq(Seq(Decoder)) /\ Len(pools) = Z
    BY <1>3, <1>4, PlacedTypes
  <1> DEFINE n == seed_backlog + 2 * Z
  <1>6. n \in Nat
    BY Numbers
  <1>7. PICK seed \in Seeds : queue = Seeded(seed, n)
    BY DEF PlacedInit
  <1>8. seed \in Seq(FirstTurn) /\ n <= Len(seed)
    <2>1. seed \in Seq(FirstTurn) /\ Len(seed) >= n
      BY ClusterAssumption DEF ClusterAssumption
    <2>2. Len(seed) \in Nat
      BY <2>1
    <2> DEFINE m == Len(seed)
    <2> HIDE DEF m, n
    <2>3. n <= m
      BY <1>6, <2>1, <2>2 DEF m
    <2> QED BY <2>1, <2>3 DEF m
  <1> HIDE DEF n
  <1>9. queue \in Seq(Request)
    BY <1>6, <1>7, <1>8, SeededTypes
  <1>10. next_id \in Nat /\ cache = EmptyCache(node_capacity) /\ node_capacity \in Nat
    BY <1>6, Numbers DEF PlacedInit, n
  <1> QED BY <1>5, <1>9, <1>10

LEMMA PrepoStart ==
    ASSUME PrepoInit
    PROVE  /\ pools \in Seq(Seq(Decoder)) /\ Len(pools) = 2 * Z
           /\ \A b \in DOMAIN pools : pools[b] = <<>>
           /\ queue \in Seq(Request) /\ next_id \in Nat
           /\ \E capacity \in Nat : cache = EmptyCache(capacity)
           /\ \E seed \in Seq(FirstTurn) : /\ next_id \in Nat /\ next_id <= Len(seed)
                                           /\ queue = Seeded(seed, next_id)
  <1> DEFINE n == Z * op.node_min + seed_backlog
             capacity == node_capacity + (op.decode_pool - op.node_min) * op.ctx_balance
             x == Z
             y == op.node_min
             d == op.decode_pool
             a == op.ctx_balance
  <1>1. x \in Nat /\ y \in Nat /\ d \in Nat /\ a \in Nat /\ y <= d
    BY Numbers
  <1>2. n \in Nat /\ capacity \in Nat /\ 2 * Z \in Nat
    <2> HIDE DEF x, y, d, a
    <2>1. x * y \in Nat /\ d - y \in Nat /\ (d - y) * a \in Nat
      BY <1>1
    <2>2. x * y + seed_backlog \in Nat /\ node_capacity + (d - y) * a \in Nat
      BY <2>1, Numbers
    <2> QED BY <2>2, Numbers DEF x, y, d, a
  <1>3. pools = [b \in 1..(2 * Z) |-> <<>>] /\ next_id = n /\ cache = EmptyCache(capacity)
    BY DEF PrepoInit
  <1>4. PICK seed \in Seeds : queue = Seeded(seed, n)
    BY DEF PrepoInit
  <1>5. seed \in Seq(FirstTurn) /\ n <= Len(seed)
    <2>1. seed \in Seq(FirstTurn) /\ Len(seed) >= seed_backlog + x * y
      BY ClusterAssumption DEF ClusterAssumption
    <2> DEFINE m == Len(seed)
               xy == x * y
    <2>2. m \in Nat /\ xy \in Nat /\ seed_backlog \in Nat /\ m >= seed_backlog + xy
      <3>1. xy \in Nat
        <4> HIDE DEF x, y
        <4> QED BY <1>1
      <3> QED BY <2>1, <3>1, Numbers
    <2>3. n = xy + seed_backlog
      OBVIOUS
    <2> HIDE DEF m, xy, n
    <2>4. n <= m
      BY <2>2, <2>3
    <2> QED BY <2>1, <2>4 DEF m
  <1> HIDE DEF n, capacity
  <1>6. queue \in Seq(Request)
    BY <1>2, <1>4, <1>5, SeededTypes
  <1>7. pools \in Seq(Seq(Decoder)) /\ Len(pools) = 2 * Z /\ \A b \in DOMAIN pools : pools[b] = <<>>
    <2> DEFINE m == 2 * Z
    <2>1. <<>> \in Seq(Decoder) /\ m \in Nat
      BY <1>2
    <2> HIDE DEF m
    <2>2. [b \in 1..m |-> <<>>] \in Seq(Seq(Decoder)) /\ Len([b \in 1..m |-> <<>>]) = m
      BY <2>1
    <2> QED BY <1>3, <2>2 DEF m
  <1>8. /\ seed \in Seq(FirstTurn) /\ next_id \in Nat /\ next_id <= Len(seed)
        /\ queue = Seeded(seed, next_id)
    BY <1>2, <1>3, <1>4, <1>5
  <1> QED BY <1>2, <1>3, <1>6, <1>7, <1>8

LEMMA InitInv ==
    ASSUME Init
    PROVE  ClusterInv
  <1>1. /\ driver \in {"csched", "baseline", "prepo"} /\ phase = "fill" /\ turn = 1 /\ now = 0
        /\ aff = [z \in Nodes |-> <<>>] /\ pend = <<>>
    BY DEF Init, Nodes
  <1>2. /\ pools \in Seq(Seq(Decoder)) /\ Len(pools) = (IF driver = "prepo" THEN 2 * Z ELSE Z)
        /\ queue \in Seq(Request) /\ next_id \in Nat
        /\ \E capacity \in Nat : cache = EmptyCache(capacity)
        /\ driver = "prepo" => \A b \in DOMAIN pools : pools[b] = <<>>
    <2>1. CASE driver = "prepo"
      BY <2>1, PrepoStart DEF Init
    <2>2. CASE driver # "prepo"
      BY <2>2, PlacedStart DEF Init
    <2> QED BY <2>1, <2>2
  <1>3. PICK capacity \in Nat : cache = EmptyCache(capacity)
    BY <1>2
  <1>4. /\ Accounted(cache, Nodes) /\ DOMAIN cache.idx \subseteq Nat
        /\ \A z \in Nodes : cache.used[z] = 0
    BY <1>3, EmptyAccounts
  <1>5. turn \in 1..Len(pools)
    <2> DEFINE n == Len(pools)
    <2>1. Z \in Nat \ {0} /\ (n = Z \/ n = 2 * Z)
      BY <1>2, Numbers
    <2> HIDE DEF n
    <2>2. 1 \in 1..n
      BY <2>1
    <2> QED BY <1>1, <2>2 DEF n
  <1>6. StepType(Here)
    <2>1. aff \in [Nodes -> Seq(Request)] /\ pend \in Seq(Request)
      BY <1>1
    <2>2. pools[turn] \in Seq(Decoder)
      BY <1>2, <1>5
    <2>3. StepType([pool |-> pools[turn], queue |-> queue, aff |-> aff, pend |-> pend,
                    cache |-> cache, next_id |-> next_id])
      BY <1>2, <1>4, <2>1, <2>2, StepMade
    <2> QED BY <2>3 DEF Here
  <1>7. TypeInv
    BY <1>1, <1>2, <1>5, <1>6 DEF TypeInv
  <1>8. NoneWaitsForNode /\ NothingCached /\ HbmClosedLoop /\ AffinityWaitBounded
    BY <1>1, <1>4 DEF NoneWaitsForNode, NothingCached, HbmClosedLoop, AffinityWaitBounded, Nodes
  <1>9. BatchesFit
    BY <1>2, Numbers DEF BatchesFit, Batches
  <1> QED BY <1>7, <1>8, <1>9 DEF ClusterInv

\* The inductive invariant.
LEMMA ClusterInvHolds == Spec => []ClusterInv
  <1>1. Init => ClusterInv
    BY InitInv
  <1>2. ClusterInv /\ [Next]_vars => ClusterInv'
    BY NextKeepsInv
  <1> QED BY <1>1, <1>2, PTL DEF Spec
-----------------------------------------------------------------------------
(* Where the workload numbers everybody: each conversation of prepo is in   *)
(* one place, and finds its own KV.                                        *)

\* Nobody is in two of the batches, the queue and the pending returns.
AllAlone(batches, q, p, c, n) ==
    \A b \in DOMAIN batches :
        /\ Lone([pool |-> batches[b], queue |-> q, pend |-> p, cache |-> c, next_id |-> n],
                UNION {Ids(batches[a]) : a \in DOMAIN batches \ {b}})
        /\ Going(batches[b])

\* The inductive invariant.
EveryoneAlone == driver = "prepo" => AllAlone(pools, queue, pend, cache, next_id)

\* A batch serves itself from the queue, and what it leaves is in one place again.
LEMMA CommitsAlone ==
    ASSUME NEW batches, NEW b \in DOMAIN batches, NEW s, NEW t, KeepsAlone(s, t),
           s.pool = batches[b], AllAlone(batches, s.queue, s.pend, s.cache, s.next_id),
           NEW after, DOMAIN after = DOMAIN batches, after[b] = t.pool,
           \A a \in DOMAIN batches : a # b => after[a] = batches[a],
           s.next_id \in Nat, t.next_id \in Nat
    PROVE  AllAlone(after, t.queue, t.pend, t.cache, t.next_id)
  <1> DEFINE Others(f, x) == UNION {Ids(f[a]) : a \in DOMAIN batches \ {x}}
             Of(x) == [pool |-> batches[x], queue |-> s.queue, pend |-> s.pend, cache |-> s.cache,
                       next_id |-> s.next_id]
             To(x) == [pool |-> after[x], queue |-> t.queue, pend |-> t.pend, cache |-> t.cache,
                       next_id |-> t.next_id]
             T == Others(batches, b)
  <1>1. \A x \in DOMAIN batches : Lone(Of(x), Others(batches, x)) /\ Going(batches[x])
    BY DEF AllAlone
  <1>2. Lone(s, T)
    <2>1. Lone(Of(b), T)
      BY <1>1
    <2> HIDE DEF T, Others
    <2> QED BY <2>1 DEF Lone
  <1>3. Lone(t, T) /\ Going(t.pool)
    BY <1>1, <1>2 DEF KeepsAlone
  <1>4. \A x, a \in DOMAIN batches : x # a => Ids(batches[x]) \subseteq Others(batches, a)
    OBVIOUS
  <1>5. ASSUME NEW x \in DOMAIN batches PROVE Lone(To(x), Others(after, x)) /\ Going(after[x])
    <2>1. CASE x = b
      <3>1. Others(after, x) = T
        BY <2>1
      <3> HIDE DEF Others, T
      <3> QED BY <1>3, <2>1, <3>1 DEF Lone
    <2>2. CASE x # b
      <3> DEFINE P == Ids(batches[x])
                 U == Others(batches, x)
                 V == Others(after, x)
                 P1 == Ids(t.pool)
                 Q1 == Ids(t.queue)
                 D1 == Ids(t.pend)
      <3>1. after[x] = batches[x] /\ Going(batches[x]) /\ Single(batches[x])
        BY <1>1, <2>2 DEF Lone
      <3>2. P \subseteq T /\ P \cap U = {}
        BY <1>1, <1>4, <2>2 DEF Lone, Apart
      <3>3. V \subseteq P1 \cup (U \cap T)
        <4>1. ASSUME NEW a \in DOMAIN batches \ {x} PROVE Ids(after[a]) \subseteq P1 \cup (U \cap T)
          <5>1. CASE a = b
            BY <5>1
          <5>2. CASE a # b
            <6>1. after[a] = batches[a] /\ Ids(batches[a]) \subseteq T /\ Ids(batches[a]) \subseteq U
              BY <1>4, <5>2
            <6> QED BY <6>1
          <5> QED BY <5>1, <5>2
        <4> HIDE DEF P1, U, T
        <4> QED BY <4>1
      <3>4. /\ Single(t.queue) /\ Single(t.pend) /\ Apart(P1, Q1, D1, T)
            /\ \A id \in P1 \cup Q1 \cup D1 \cup T : id \in Nat /\ id < t.next_id
            /\ Own(t.cache, t.queue) /\ Own(t.cache, t.pend)
        BY <1>3 DEF Lone
      <3> HIDE DEF Others, P, U, V, P1, Q1, D1, T
      <3>5. Apart(P, Q1, D1, V)
        BY <3>2, <3>3, <3>4 DEF Apart
      <3>6. \A id \in P \cup Q1 \cup D1 \cup V : id \in Nat /\ id < t.next_id
        BY <3>2, <3>3, <3>4
      <3> QED BY <3>1, <3>4, <3>5, <3>6 DEF Lone, P, V, Q1, D1
    <2> QED BY <2>1, <2>2
  <1> HIDE DEF To, Others
  <1>6. \A x \in DOMAIN after : Lone(To(x), Others(after, x)) /\ Going(after[x])
    BY <1>5
  <1> QED BY <1>6 DEF AllAlone, To, Others

\* The step of a batch in either phase.
LEMMA BatchAlone ==
    ASSUME TypeInv, EveryoneAlone, driver = "prepo", driver' = driver,
           phase' \in {"fill", "begin", "serve"}, now' \in Nat, turn' \in 1..Len(pools),
           NEW t, StepType(t), Commit(t), KeepsAlone(Here, t)
    PROVE  EveryoneAlone'
  <1>1. /\ DOMAIN pools' = DOMAIN pools /\ pools'[turn] = t.pool /\ turn \in DOMAIN pools
        /\ \A b \in DOMAIN pools : b # turn => pools'[b] = pools[b]
    BY Committed, HereTypes
  <1>2. /\ Here.pool = pools[turn] /\ Here.queue = queue /\ Here.pend = pend /\ Here.cache = cache
        /\ Here.next_id = next_id /\ next_id \in Nat
    BY HereTypes
  <1>3. t.next_id \in Nat
    BY DEF StepType
  <1>4. AllAlone(pools, queue, pend, cache, next_id)
    BY DEF EveryoneAlone
  <1>5. AllAlone(pools', t.queue, t.pend, t.cache, t.next_id)
    BY <1>1, <1>2, <1>3, <1>4, CommitsAlone
  <1>6. queue' = t.queue /\ pend' = t.pend /\ cache' = t.cache /\ next_id' = t.next_id
    BY DEF Commit
  <1>7. AllAlone(pools', queue', pend', cache', next_id')
    BY <1>5, <1>6
  <1> QED BY <1>7 DEF EveryoneAlone

\* Who is due and who is not.
LEMMA DueAlone ==
    ASSUME NEW p \in Seq(Request), NEW n \in Nat, Single(p)
    PROVE  /\ Single(Due(p, n)) /\ Single(NotDue(p, n))
           /\ Range(Due(p, n)) \subseteq Range(p) /\ Range(NotDue(p, n)) \subseteq Range(p)
           /\ Ids(Due(p, n)) \cap Ids(NotDue(p, n)) = {}
  <1> DEFINE V == {r \in Range(p) : r.arrival <= n}
             W == {r \in Range(p) : r.arrival > n}
  <1>1. Due(p, n) = Only(p, V) /\ NotDue(p, n) = Only(p, W)
    BY DEF Due, NotDue
  <1>2. V \subseteq Range(p) /\ W \subseteq Range(p) /\ V \cap W = {}
    <2>1. \A r \in Range(p) : r.arrival \in Nat
      BY SeqElements, RequestTypes
    <2> QED BY <2>1
  <1>3. \A a, b \in Range(p) : a.id = b.id => a = b
    BY DEF Single, Range
  <1> HIDE DEF V, W
  <1>4. Single(Only(p, V)) /\ Ids(Only(p, V)) = {r.id : r \in Range(p) \cap V}
    BY IdsOnly
  <1>5. Single(Only(p, W)) /\ Ids(Only(p, W)) = {r.id : r \in Range(p) \cap W}
    BY IdsOnly
  <1>6. Range(Only(p, V)) = Range(p) \cap V /\ Range(Only(p, W)) = Range(p) \cap W
    BY OnlyKeeps
  <1>7. Ids(Only(p, V)) \cap Ids(Only(p, W)) = {}
    BY <1>2, <1>3, <1>4, <1>5
  <1> QED BY <1>1, <1>4, <1>5, <1>6, <1>7

\* The due returns join the queue, and what is cached ages.
LEMMA ReturnsAlone ==
    ASSUME NEW s, s.queue \in Seq(Request), s.pend \in Seq(Request), Accounted(s.cache, Nodes),
           NEW n \in Nat, NEW T, Lone(s, T), NEW t, t.pool = s.pool, t.queue = s.queue \o Due(s.pend, n),
           t.pend = NotDue(s.pend, n), t.cache = Ticked(s.cache), t.next_id = s.next_id
    PROVE  Lone(t, T)
  <1> DEFINE due == Due(s.pend, n)
             rest == NotDue(s.pend, n)
             P == Ids(s.pool)
             Q == Ids(s.queue)
             D == Ids(s.pend)
             D1 == Ids(due)
             D2 == Ids(rest)
  <1>1. /\ Single(s.pool) /\ Single(s.queue) /\ Single(s.pend) /\ Apart(P, Q, D, T)
        /\ \A id \in P \cup Q \cup D \cup T : id \in Nat /\ id < s.next_id
        /\ Own(s.cache, s.queue) /\ Own(s.cache, s.pend)
    BY DEF Lone
  <1>2. /\ Single(due) /\ Single(rest) /\ Range(due) \subseteq Range(s.pend)
        /\ Range(rest) \subseteq Range(s.pend) /\ D1 \cap D2 = {}
    BY <1>1, DueAlone
  <1>3. due \in Seq(Request)
    BY DueParts
  <1> HIDE DEF due, rest
  <1>4. D1 \subseteq D /\ D2 \subseteq D
    BY <1>2 DEF Ids
  <1>5. Q \cap D1 = {}
    BY <1>1, <1>4 DEF Apart
  <1>6. /\ Range(s.queue \o due) = Range(s.queue) \cup Range(due)
        /\ Ids(s.queue \o due) = Q \cup D1 /\ Single(s.queue \o due)
    BY <1>1, <1>2, <1>3, <1>5, IdsJoined
  <1> HIDE DEF P, Q, D, D1, D2
  <1>7. \A id : KvKept(s.cache, t.cache, id)
    BY KvTicked
  <1>8. t.queue = s.queue \o due /\ t.pend = rest
    BY DEF due, rest
  <1>9. Own(t.cache, t.queue) /\ Own(t.cache, t.pend)
    <2>1. Own(s.cache, t.queue) /\ Own(s.cache, t.pend)
      BY <1>1, <1>2, <1>6, <1>8 DEF Own
    <2> QED BY <1>7, <2>1, OwnKept
  <1>10. Apart(P, Q \cup D1, D2, T)
    BY <1>1, <1>2, <1>4 DEF Apart
  <1>11. \A id \in P \cup (Q \cup D1) \cup D2 \cup T : id \in Nat /\ id < s.next_id
    BY <1>1, <1>4
  <1> QED BY <1>1, <1>2, <1>6, <1>8, <1>9, <1>10, <1>11 DEF Lone, P, D2

LEMMA RoundBeginsAlone ==
    ASSUME ClusterInv, EveryoneAlone, driver = "prepo", QueueingBegin
    PROVE  EveryoneAlone'
  <1>1. /\ TypeInv /\ UNCHANGED <<driver, now, turn, pools, next_id>>
        /\ cache' = Ticked(cache) /\ pend' = NotDue(pend, now) /\ queue' = queue \o Due(pend, now)
    BY DEF ClusterInv, QueueingBegin, Beginning
  <1>2. /\ pend \in Seq(Request) /\ queue \in Seq(Request) /\ Accounted(cache, Nodes) /\ now \in Nat
    BY <1>1, HereTypes
  <1> DEFINE Of(b) == [pool |-> pools[b], queue |-> queue, pend |-> pend, cache |-> cache,
                       next_id |-> next_id]
             To(b) == [pool |-> pools[b], queue |-> queue', pend |-> pend', cache |-> cache',
                       next_id |-> next_id]
             Others(b) == UNION {Ids(pools[a]) : a \in DOMAIN pools \ {b}}
  <1>3. ASSUME NEW b \in DOMAIN pools PROVE Lone(To(b), Others(b)) /\ Going(pools[b])
    <2>1. Lone(Of(b), Others(b)) /\ Going(pools[b])
      BY DEF EveryoneAlone, AllAlone
    <2>2. /\ Of(b).pool = pools[b] /\ Of(b).queue = queue /\ Of(b).pend = pend /\ Of(b).cache = cache
          /\ Of(b).next_id = next_id
      OBVIOUS
    <2>3. /\ To(b).pool = pools[b] /\ To(b).queue = queue' /\ To(b).pend = pend' /\ To(b).cache = cache'
          /\ To(b).next_id = next_id
      OBVIOUS
    <2> HIDE DEF Of, To, Others
    <2>4. Lone(To(b), Others(b))
      BY <1>1, <1>2, <2>1, <2>2, <2>3, ReturnsAlone
    <2> QED BY <2>1, <2>4
  <1>4. AllAlone(pools, queue', pend', cache', next_id)
    BY <1>3 DEF AllAlone
  <1>5. AllAlone(pools', queue', pend', cache', next_id')
    BY <1>1, <1>4
  <1> QED BY <1>5 DEF EveryoneAlone

\* The first turns that a program starts with are numbered in order.
LEMMA SeededAlone ==
    ASSUME NEW seed \in Seq(FirstTurn), NEW n \in Nat, n <= Len(seed)
    PROVE  /\ Single(Seeded(seed, n))
           /\ \A id \in Ids(Seeded(seed, n)) : id \in Nat /\ id < n
           /\ \A r \in Range(Seeded(seed, n)) : r.max_tokens > 0 /\ r.turn = 0
  <1> DEFINE q == Seeded(seed, n)
  <1>1. /\ DOMAIN q = 1..n
        /\ \A i \in 1..n : q[i].id = i - 1 /\ q[i].turn = 0 /\ q[i].max_tokens = seed[i].max_tokens
    BY DEF Seeded, fresh_arrival
  <1>2. \A i \in 1..n : i - 1 \in Nat /\ i - 1 < n /\ seed[i].max_tokens > 0
    <2> SUFFICES ASSUME NEW i \in 1..n PROVE i - 1 \in Nat /\ i - 1 < n /\ seed[i].max_tokens > 0
      OBVIOUS
    <2>1. i \in DOMAIN seed
      OBVIOUS
    <2>2. seed[i] \in FirstTurn
      BY <2>1, SeqElements
    <2>3. seed[i].max_tokens \in Nat \ {0}
      BY <2>2 DEF FirstTurn
    <2> QED BY <2>3
  <1> HIDE DEF q
  <1>3. Single(q)
    BY <1>1 DEF Single
  <1>4. \A id \in Ids(q) : id \in Nat /\ id < n
    BY <1>1, <1>2 DEF Ids, Range
  <1>5. \A r \in Range(q) : r.max_tokens > 0 /\ r.turn = 0
    BY <1>1, <1>2 DEF Range
  <1> QED BY <1>3, <1>4, <1>5 DEF q

\* prepo starts with empty batches and a queue numbered below the next conversation.
LEMMA StartsAlone ==
    ASSUME Init
    PROVE  EveryoneAlone
  <1> SUFFICES ASSUME driver = "prepo" PROVE AllAlone(pools, queue, pend, cache, next_id)
    BY DEF EveryoneAlone
  <1>1. PrepoInit /\ pend = <<>>
    BY DEF Init
  <1>2. /\ \A b \in DOMAIN pools : pools[b] = <<>>
        /\ \E seed \in Seq(FirstTurn) : /\ next_id \in Nat /\ next_id <= Len(seed)
                                        /\ queue = Seeded(seed, next_id)
    BY <1>1, PrepoStart
  <1>3. PICK seed \in Seq(FirstTurn) : /\ next_id \in Nat /\ next_id <= Len(seed)
                                       /\ queue = Seeded(seed, next_id)
    BY <1>2
  <1>4. /\ Single(queue) /\ \A id \in Ids(queue) : id \in Nat /\ id < next_id
        /\ \A r \in Range(queue) : r.max_tokens > 0 /\ r.turn = 0
    BY <1>3, SeededAlone
  <1>5. Range(<<>>) = {} /\ Ids(<<>>) = {} /\ Single(<<>>) /\ Going(<<>>)
    BY DEF Range, Ids, Single, Going
  <1>6. Own(cache, queue) /\ Own(cache, pend)
    BY <1>1, <1>4, <1>5 DEF Own, OwnIn
  <1>7. ASSUME NEW b \in DOMAIN pools
        PROVE  /\ Lone([pool |-> pools[b], queue |-> queue, pend |-> pend, cache |-> cache,
                        next_id |-> next_id],
                       UNION {Ids(pools[a]) : a \in DOMAIN pools \ {b}})
               /\ Going(pools[b])
    <2> DEFINE T == UNION {Ids(pools[a]) : a \in DOMAIN pools \ {b}}
    <2>1. pools[b] = <<>> /\ T = {}
      BY <1>2, <1>5
    <2> HIDE DEF T
    <2>2. Apart({}, Ids(queue), {}, T)
      BY <2>1 DEF Apart
    <2>3. Lone([pool |-> pools[b], queue |-> queue, pend |-> pend, cache |-> cache,
                next_id |-> next_id], T)
      BY <1>1, <1>4, <1>5, <1>6, <2>1, <2>2 DEF Lone
    <2> QED BY <1>5, <2>1, <2>3 DEF T
  <1> QED BY <1>7 DEF AllAlone

LEMMA FillsAlone ==
    ASSUME ClusterInv, EveryoneAlone, driver = "prepo", Fill
    PROVE  EveryoneAlone'
  <1>1. TypeInv /\ PrepoFill /\ phase = "fill" /\ UNCHANGED <<driver, phase, now, turn>>
    BY DEF ClusterInv, Fill, PrepoFill, Filling
  <1>2. PICK t : FilledAs(t) /\ Commit(t) /\ KeepsAlone(Here, t)
    BY <1>1, PrepoFills
  <1>3. /\ StepType(t) /\ driver' = driver /\ phase' \in {"fill", "begin", "serve"} /\ now' \in Nat
        /\ turn' \in 1..Len(pools)
    BY <1>1, <1>2 DEF FilledAs, TypeInv
  <1> QED BY <1>1, <1>2, <1>3, BatchAlone

LEMMA ServesAlone ==
    ASSUME ClusterInv, EveryoneAlone, driver = "prepo", Serve
    PROVE  EveryoneAlone'
  <1>1. TypeInv /\ PrepoServe /\ Served /\ phase = "serve" /\ driver' = driver
    BY DEF ClusterInv, Serve, PrepoServe, Served
  <1>2. Len(pools[turn]) <= op.decode_count_target
    <2>1. turn \in Batches
      BY <1>1, HereTypes DEF Batches
    <2> QED BY <2>1 DEF ClusterInv, BatchesFit
  <1>3. PICK t : ServedAs(t) /\ Commit(t) /\ KeepsAlone(Here, t)
    BY <1>1, <1>2, PrepoServes
  <1>4. turn' \in 1..Len(pools) /\ phase' \in {"fill", "begin", "serve"} /\ now' \in Nat
    <2>1. /\ turn' \in 1..Len(pools) /\ (phase' = "begin" \/ phase' = "serve")
          /\ now' = IF turn = Len(pools) THEN now + 1 ELSE now
      BY <1>1, Advanced DEF Served
    <2>2. now \in Nat
      BY <1>1 DEF TypeInv
    <2>3. now' \in Nat
      BY <2>1, <2>2
    <2> QED BY <2>1, <2>3
  <1>5. StepType(t)
    BY <1>3 DEF ServedAs
  <1> QED BY <1>1, <1>3, <1>4, <1>5, BatchAlone

LEMMA NextKeepsAlone ==
    ASSUME ClusterInv, EveryoneAlone, [Next]_vars
    PROVE  EveryoneAlone'
  <1>1. driver' = driver
    BY DEF Next, vars, Fill, CschedFill, BaselineFill, PrepoFill, FillNext, Begin, CschedBegin,
        QueueingBegin, Beginning, Serve, CschedServe, BaselineServe, PrepoServe, Served
  <1>2. CASE driver # "prepo"
    BY <1>1, <1>2 DEF EveryoneAlone
  <1>3. CASE driver = "prepo" /\ Fill
    BY <1>3, FillsAlone
  <1>4. CASE driver = "prepo" /\ Serve
    BY <1>4, ServesAlone
  <1>5. CASE driver = "prepo" /\ Begin
    BY <1>5, RoundBeginsAlone DEF Begin
  <1>6. CASE FillNext(BatchSize) \/ UNCHANGED vars
    <2>1. UNCHANGED <<driver, pools, queue, pend, cache, next_id>>
      BY <1>6 DEF FillNext, vars
    <2> QED BY <2>1 DEF EveryoneAlone
  <1> QED BY <1>2, <1>3, <1>4, <1>5, <1>6 DEF Next

\* Whoever waits in prepo waits in the queue.
LEMMA AloneFindOwn ==
    ASSUME ClusterInv, EveryoneAlone
    PROVE  PrepoKvIsOwn
  <1> SUFFICES ASSUME driver = "prepo", NEW r \in WaitingRequests PROVE OwnKv(r)
    BY DEF PrepoKvIsOwn
  <1>1. r \in Range(queue)
    <2>1. \A z \in 1..Z : Range(aff[z]) = {}
      BY DEF ClusterInv, NoneWaitsForNode, Nodes, Range
    <2> QED BY <2>1 DEF WaitingRequests
  <1>2. turn \in DOMAIN pools
    BY HereTypes DEF ClusterInv
  <1>3. Own(cache, queue)
    BY <1>2 DEF EveryoneAlone, AllAlone, Lone
  <1> QED BY <1>1, <1>3 DEF Own, OwnIn, OwnKv

LEMMA EveryoneAloneHolds == Spec => []EveryoneAlone
  <1>1. Init => EveryoneAlone
    BY StartsAlone
  <1>2. ClusterInv /\ EveryoneAlone /\ [Next]_vars => EveryoneAlone'
    BY NextKeepsAlone
  <1> QED BY <1>1, <1>2, ClusterInvHolds, PTL DEF Spec
-----------------------------------------------------------------------------
(* The theorems.                                                           *)

\* In all three programs the residents, the queue, the waiters, the pending
\* returns and the cache are what their names say, and the cache's byte counters
\* agree with its entries.
THEOREM TypeCorrect == Spec => []TypeInv
  <1>1. ClusterInv => TypeInv
    BY DEF ClusterInv
  <1> QED BY <1>1, ClusterInvHolds, PTL

\* csched.cpp:351-360: what the cache holds of a node's HBM and what the residents
\* need beyond the design fit together, or the cache holds nothing there.
THEOREM HbmLoopIsClosed == Spec => []HbmClosedLoop
  <1>1. ClusterInv => HbmClosedLoop
    BY DEF ClusterInv
  <1> QED BY <1>1, ClusterInvHolds, PTL

\* csched.cpp:245-256: while batches are served, nobody has waited for a node
\* longer than the spill cap.
THEOREM NobodyWaitsBeyondTheCap == Spec => []AffinityWaitBounded
  <1>1. ClusterInv => AffinityWaitBounded
    BY DEF ClusterInv
  <1> QED BY <1>1, ClusterInvHolds, PTL

\* harness.h:107: no fill, return, routing, spill, completion or refill loses or
\* doubles a request.
THEOREM PopulationIsKept == Spec => PopulationConserved
  <1>1. ClusterInv /\ [Next]_vars => Population' = Population
    BY NextKeepsInv
  <1>2. ClusterInv /\ [Next]_vars => [Population' = Population]_vars
    BY <1>1
  <1> QED BY <1>2, ClusterInvHolds, PTL DEF PopulationConserved, Spec

\* queue.cpp:58-63: while somebody over the age cap stays in the queue, whoever
\* leaves it in that round has waited at least as long.
THEOREM OldestLeaveFirst == Spec => OldestForced
  <1> DEFINE Oldest == phase = "serve" /\ driver # "baseline" =>
                 \A i \in Overdue(queue', now, global_age_cap) :
                     \A r \in Range(queue) \ Range(queue') : r.arrival <= queue'[i].arrival
  <1>1. ClusterInv /\ [Next]_vars => [Oldest]_vars
    BY RoundsFeedAndForce
  <1> HIDE DEF Oldest
  <1>2. [][Oldest]_vars => OldestForced
    BY DEF OldestForced, Oldest
  <1> QED BY <1>1, <1>2, ClusterInvHolds, PTL DEF Spec

\* A batch shrinks only if nothing in the queue fits or is overdue and nobody waits
\* for its node.
THEOREM BatchesShrinkOnlyWhenDry == Spec => ShrinksOnlyWhenDry
  <1> DEFINE Shrinks == phase = "serve" /\ Len(pools'[turn]) < Len(pools[turn]) =>
                 /\ Fitting(queue', cap_room) = {}
                 /\ driver # "baseline" => Overdue(queue', now, global_age_cap) = {}
                 /\ aff'[NodeOf(turn)] = <<>>
  <1>1. ClusterInv /\ [Next]_vars => [Shrinks]_vars
    BY RoundsFeedAndForce
  <1> HIDE DEF Shrinks
  <1>2. [][Shrinks]_vars => ShrinksOnlyWhenDry
    BY DEF ShrinksOnlyWhenDry, Shrinks
  <1> QED BY <1>1, <1>2, ClusterInvHolds, PTL DEF Spec

\* prepo.cpp:106, 140-166: the KV that prepo finds under the id of a waiting return is
\* that return's own context, for as long as it is cached: ids are never given twice,
\* and no conversation has two turns alive.
THEOREM PrepoFindsOwnKv == Spec => []PrepoKvIsOwn
  <1>1. ClusterInv /\ EveryoneAlone => PrepoKvIsOwn
    BY AloneFindOwn
  <1> QED BY <1>1, ClusterInvHolds, EveryoneAloneHolds, PTL
=============================================================================
