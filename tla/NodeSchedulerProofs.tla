-------------------------- MODULE NodeSchedulerProofs --------------------------
(***************************************************************************)
(* For every operating point, every pool size and every mix of lengths:    *)
(* what NodeScheduler checks on an instance.                               *)
(***************************************************************************)
EXTENDS NodeScheduler, FiniteSetTheorems, TLAPS

\* One batch as a loop: the pool and mask of c, b after k iterations.
SteeringPool == Seq([kv_length : Nat, wait : Nat])
SteeringCall(c) ==
  /\ c.pool \in SteeringPool
  /\ c.used \subseteq DOMAIN c.pool
  /\ c.op.age_cap \in Nat
  /\ c.op.decode_count_target \in Nat \ {0}
  /\ c.op.kv_operating_target \in Nat \ {0}

\* The total length of the first n members of a batch.
True(c, s, k) == TRUE
AddLength(c, s, k) == s + c.p[c.b[k]].kv_length
LengthLoop == INSTANCE LoopTheory WITH Step <- AddLength, Inv <- True
Total(p, b, n) == LengthLoop!Loop([p |-> p, b |-> b], n, 0)

\* The oldest first: whoever is aged and was left waited no longer than anybody taken.
LongestFirst(c, sel) ==
  \A i \in DOMAIN c.pool \ (c.used \cup Range(sel)), j \in Range(sel) :
     c.pool[i].wait >= c.op.age_cap => c.pool[j].wait >= c.pool[i].wait

BatchInv(c, b, k) ==
  /\ b = [sel |-> b.sel, S |-> b.S]
  /\ b.S \in Nat
  /\ b.S = Total(c.pool, b.sel, Len(b.sel))
  /\ b.sel \in Seq(DOMAIN c.pool \ c.used)
  /\ IsInjective(b.sel)
  /\ Len(b.sel) <= k
  /\ \/ Len(b.sel) = k
     \/ b.S >= c.op.kv_operating_target
     \/ DOMAIN c.pool = c.used \cup Range(b.sel)
  /\ b.sel # <<>> => Total(c.pool, b.sel, Len(b.sel) - 1) < c.op.kv_operating_target
  /\ LongestFirst(c, b.sel)

BatchLoop == INSTANCE LoopTheory WITH Step <- DecodeStep, Inv <- BatchInv
-------------------------------------------------------------------------------
(* The scan that keeps the first of the best.                              *)

\* A cost on some of the indices 1..n has a first least index.
LEMMA LeastExists ==
    ASSUME NEW n \in Nat, NEW C, C \subseteq 1..n, C # {}, NEW cost \in [C -> Int]
    PROVE  \E i \in C : \A j \in C : cost[i] < cost[j] \/ (cost[i] = cost[j] /\ i <= j)
  <1> DEFINE Best(i, D) == \A j \in D : cost[i] < cost[j] \/ (cost[i] = cost[j] /\ i <= j)
             S == {m \in Nat : \A D \in SUBSET C : D \subseteq 1..m /\ D # {} =>
                                  \E i \in D : Best(i, D)}
  <1>1. 0 \in S
    <2>1. 1..0 = {}
      OBVIOUS
    <2> QED BY <2>1
  <1>2. ASSUME NEW m \in Nat, m \in S PROVE m + 1 \in S
    <2> SUFFICES ASSUME NEW D \in SUBSET C, D \subseteq 1..(m + 1), D # {}
                 PROVE  \E i \in D : Best(i, D)
      OBVIOUS
    <2>1. CASE m + 1 \notin D
      <3>1. D \subseteq 1..m
        BY <2>1
      <3> QED BY <1>2, <3>1
    <2>2. CASE D = {m + 1}
      BY <2>2
    <2>3. CASE m + 1 \in D /\ D # {m + 1}
      <3> DEFINE E == D \ {m + 1}
      <3>1. E \in SUBSET C /\ E \subseteq 1..m /\ E # {} /\ D = E \cup {m + 1}
        BY <2>3
      <3>2. PICK i \in E : Best(i, E)
        BY <1>2, <3>1
      <3>3. CASE cost[i] <= cost[m + 1]
        <4>1. Best(i, D)
          BY <3>1, <3>2, <3>3
        <4> QED BY <4>1, <3>1
      <3>4. CASE cost[m + 1] < cost[i]
        <4>1. Best(m + 1, D)
          BY <3>1, <3>2, <3>4
        <4> QED BY <4>1, <2>3
      <3>5. cost[i] \in Int /\ cost[m + 1] \in Int
        BY <3>1
      <3> QED BY <3>3, <3>4, <3>5
    <2> QED BY <2>1, <2>2, <2>3
  <1> HIDE DEF S
  <1>3. n \in S
    BY <1>1, <1>2, BatchLoop!Induct
  <1> QED BY <1>3 DEF S

\* The elements of a sequence, at its indices (the vectors of the code hold one type).
LEMMA SeqElements ==
    ASSUME NEW T, NEW s \in Seq(T)
    PROVE  Len(s) \in Nat /\ DOMAIN s = 1..Len(s) /\ \A j \in DOMAIN s : s[j] \in T
  OBVIOUS

\* What a sequence over T holds is in T.
LEMMA SeqRange ==
    ASSUME NEW T, NEW s \in Seq(T)
    PROVE  Range(s) \subseteq T
  BY SeqElements DEF Range

\* The members steer_decode_set reads: a wait and a length each.
LEMMA MemberTypes ==
    ASSUME NEW p \in SteeringPool
    PROVE  /\ Len(p) \in Nat /\ DOMAIN p = 1..Len(p)
           /\ \A i \in DOMAIN p : p[i].wait \in Nat /\ p[i].kv_length \in Nat
  <1> DEFINE T == [kv_length : Nat, wait : Nat]
  <1>1. p \in Seq(T)
    BY DEF SteeringPool
  <1>2. \A x \in T : x.wait \in Nat /\ x.kv_length \in Nat
    OBVIOUS
  <1> HIDE DEF T
  <1> QED BY <1>1, <1>2, SeqElements

\* A choice of steering is free, and the longest waiting of the aged if there are any.
LEMMA PickIsOldest ==
    ASSUME NEW p \in SteeringPool, NEW free, free \subseteq DOMAIN p, free # {},
           NEW o, o.age_cap \in Nat, o.decode_count_target \in Nat, o.kv_operating_target \in Nat,
           NEW S \in Nat, NEW n \in Nat
    PROVE  LET i == DecodePick(p, free, o, S, n)
           IN  /\ i \in free
               /\ \A j \in free : p[j].wait >= o.age_cap => p[i].wait >= p[j].wait
  <1> DEFINE i == DecodePick(p, free, o, S, n)
             aged == {j \in free : p[j].wait >= o.age_cap}
             slots == o.decode_count_target - n
             room == o.kv_operating_target - S
             waited == [j \in aged |-> -p[j].wait]
             dist == [j \in free |-> Abs(p[j].kv_length * slots - room)]
  <1>1. Len(p) \in Nat /\ DOMAIN p = 1..Len(p)
    BY MemberTypes
  <1>2. \A j \in free : p[j].wait \in Nat /\ p[j].kv_length \in Nat
    BY MemberTypes
  <1>3. CASE aged # {}
    <2>1. waited \in [aged -> Int]
      BY <1>2
    <2>2. \E a \in aged : \A j \in aged :
             waited[a] < waited[j] \/ (waited[a] = waited[j] /\ a <= j)
      <3> HIDE DEF waited
      <3> QED BY <1>1, <1>3, <2>1, LeastExists
    <2>3. i = CHOOSE a \in aged : \A j \in aged :
                 -p[a].wait < -p[j].wait \/ (-p[a].wait = -p[j].wait /\ a <= j)
      BY <1>3 DEF DecodePick, LongestWaiting, FirstLeast
    <2>4. i \in aged /\ \A j \in aged : waited[i] <= waited[j]
      <3> HIDE DEF i, aged
      <3>1. \E a \in aged : \A j \in aged :
                 -p[a].wait < -p[j].wait \/ (-p[a].wait = -p[j].wait /\ a <= j)
        BY <2>2
      <3>2. i \in aged /\ \A j \in aged :
                 -p[i].wait < -p[j].wait \/ (-p[i].wait = -p[j].wait /\ i <= j)
        BY <2>3, <3>1
      <3> QED BY <3>2, <2>1
    <2>5. \A j \in aged : p[i].wait >= p[j].wait
      BY <2>4, <1>2
    <2> QED BY <2>4, <2>5
  <1>4. CASE aged = {}
    <2>1. dist \in [free -> Int]
      <3>1. ASSUME NEW j \in free PROVE Abs(p[j].kv_length * slots - room) \in Int
        <4>1. p[j].kv_length * slots \in Int
          BY <1>2
        <4> QED BY <4>1 DEF Abs
      <3> QED BY <3>1
    <2>2. \E a \in free : \A j \in free :
             dist[a] < dist[j] \/ (dist[a] = dist[j] /\ a <= j)
      <3> HIDE DEF dist
      <3> QED BY <1>1, <2>1, LeastExists
    <2>3. i = CHOOSE a \in free : \A j \in free :
                 \/ Abs(p[a].kv_length * slots - room) < Abs(p[j].kv_length * slots - room)
                 \/ /\ Abs(p[a].kv_length * slots - room) = Abs(p[j].kv_length * slots - room)
                    /\ a <= j
      BY <1>4 DEF DecodePick, FirstLeast
    <2>4. i \in free
      <3> HIDE DEF i, slots, room
      <3> QED BY <2>2, <2>3
    <2> QED BY <2>4, <1>4
  <1> QED BY <1>3, <1>4

-------------------------------------------------------------------------------
(* One micro-batch.                                                        *)

\* push_back adds one member to what a vector holds.
LEMMA RangeAppend ==
    ASSUME NEW T, NEW s \in Seq(T), NEW x \in T
    PROVE  Range(Append(s, x)) = Range(s) \cup {x}
  <1>1. DOMAIN s = 1..Len(s) /\ DOMAIN Append(s, x) = 1..(Len(s) + 1) /\ Len(s) \in Nat
    OBVIOUS
  <1>2. \A k \in 1..Len(s) : Append(s, x)[k] = s[k]
    OBVIOUS
  <1>3. Append(s, x)[Len(s) + 1] = x
    OBVIOUS
  <1> QED BY <1>1, <1>2, <1>3 DEF Range

\* The total grows member by member and looks no further than the first n.
LEMMA TotalStep ==
    ASSUME NEW p, NEW b
    PROVE  /\ Total(p, b, 0) = 0
           /\ \A n \in Nat : Total(p, b, n + 1) = Total(p, b, n) + p[b[n + 1]].kv_length
  <1>1. \A n \in Nat : LET c == [p |-> p, b |-> b] IN
           LengthLoop!Loop(c, n + 1, 0) = AddLength(c, LengthLoop!Loop(c, n, 0), n + 1)
    BY LengthLoop!Unfold
  <1>2. Total(p, b, 0) = 0
    BY LengthLoop!Unfold DEF Total
  <1> QED BY <1>1, <1>2 DEF Total, AddLength

\* The running total S of steer_decode_set depends on the batch so far and on nothing else.
LEMMA TotalOfPrefix ==
    ASSUME NEW p, NEW a, NEW b, NEW n \in Nat, \A k \in 1..n : a[k] = b[k]
    PROVE  Total(p, a, n) = Total(p, b, n)
  <1> DEFINE S == {k \in Nat : k <= n => Total(p, a, k) = Total(p, b, k)}
  <1>1. 0 \in S
    BY TotalStep
  <1>2. ASSUME NEW k \in Nat, k \in S PROVE k + 1 \in S
    <2> SUFFICES ASSUME k + 1 <= n PROVE Total(p, a, k + 1) = Total(p, b, k + 1)
      OBVIOUS
    <2>1. Total(p, a, k) = Total(p, b, k) /\ a[k + 1] = b[k + 1]
      BY <1>2
    <2>2. Total(p, a, k + 1) = Total(p, a, k) + p[a[k + 1]].kv_length
      BY TotalStep
    <2>3. Total(p, b, k + 1) = Total(p, b, k) + p[b[k + 1]].kv_length
      BY TotalStep
    <2> QED BY <2>1, <2>2, <2>3
  <1> HIDE DEF S
  <1>3. n \in S
    BY <1>1, <1>2, BatchLoop!Induct
  <1> QED BY <1>3 DEF S

\* One iteration of the selection loop of steer_decode_set keeps BatchInv.
LEMMA BatchStep ==
    ASSUME NEW c, SteeringCall(c), NEW k \in Nat, NEW b, BatchInv(c, b, k)
    PROVE  BatchInv(c, DecodeStep(c, b, k + 1), k + 1)
  <1> DEFINE free == DOMAIN c.pool \ (c.used \cup Range(b.sel))
             i == DecodePick(c.pool, free, c.op, b.S, Len(b.sel))
             d == [sel |-> Append(b.sel, i), S |-> b.S + c.pool[i].kv_length]
             T == DOMAIN c.pool \ c.used
  <1>1. Len(b.sel) \in Nat /\ b.sel \in Seq(T) /\ b.S \in Nat /\ Range(b.sel) \subseteq T
    BY DEF BatchInv, Range
  <1>2. CASE free = {} \/ b.S >= c.op.kv_operating_target
    <2>1. DecodeStep(c, b, k + 1) = b
      BY <1>2 DEF DecodeStep
    <2>2. free = {} => DOMAIN c.pool = c.used \cup Range(b.sel)
      BY <1>1 DEF SteeringCall
    <2> HIDE DEF free
    <2> QED BY <2>1, <2>2, <1>1, <1>2 DEF BatchInv
  <1>3. CASE free # {} /\ ~(b.S >= c.op.kv_operating_target)
    <2>1. DecodeStep(c, b, k + 1) = d
      BY <1>3 DEF DecodeStep
    <2>2. /\ i \in free
          /\ \A j \in free : c.pool[j].wait >= c.op.age_cap => c.pool[i].wait >= c.pool[j].wait
      <3> HIDE DEF free, i
      <3>1. c.pool \in SteeringPool /\ c.op.age_cap \in Nat /\ c.op.decode_count_target \in Nat
            /\ c.op.kv_operating_target \in Nat
        BY DEF SteeringCall
      <3>2. free \subseteq DOMAIN c.pool
        BY DEF free
      <3> QED BY <1>1, <1>3, <3>1, <3>2, PickIsOldest DEF i
    <2>3. i \in T /\ i \notin Range(b.sel)
      BY <2>2
    <2> HIDE DEF i
    <2>4. Range(d.sel) = Range(b.sel) \cup {i}
      BY <1>1, <2>3, RangeAppend
    <2>5. Len(d.sel) = Len(b.sel) + 1 /\ d.sel \in Seq(T) /\ d.sel[Len(d.sel)] = i
      BY <1>1, <2>3
    <2>6. IsInjective(d.sel)
      <3>1. \A m \in 1..Len(b.sel) : d.sel[m] = b.sel[m] /\ b.sel[m] # i
        BY <1>1, <2>3 DEF Range
      <3>2. DOMAIN d.sel = 1..(Len(b.sel) + 1) /\ DOMAIN b.sel = 1..Len(b.sel)
        BY <1>1, <2>5
      <3>3. IsInjective(b.sel)
        BY DEF BatchInv
      <3>4. \A m, j \in 1..Len(b.sel) : b.sel[m] = b.sel[j] => m = j
        BY <3>2, <3>3 DEF IsInjective
      <3>5. d.sel[Len(b.sel) + 1] = i
        BY <2>5
      <3> HIDE DEF d
      <3>6. \A m, j \in 1..(Len(b.sel) + 1) : d.sel[m] = d.sel[j] => m = j
        BY <1>1, <3>1, <3>4, <3>5
      <3> QED BY <3>2, <3>6 DEF IsInjective
    <2>7. c.pool[i].kv_length \in Nat
      BY <2>3, MemberTypes DEF SteeringCall
    <2>8. Len(d.sel) <= k + 1 /\ (Len(d.sel) = k + 1 \/ d.S >= c.op.kv_operating_target
                                  \/ DOMAIN c.pool = c.used \cup Range(d.sel))
      <3>1. Len(b.sel) = k
        BY <1>1, <1>3 DEF BatchInv, SteeringCall
      <3> QED BY <2>5, <3>1
    <2>9. LongestFirst(c, d.sel)
      <3> SUFFICES ASSUME NEW m \in DOMAIN c.pool \ (c.used \cup Range(d.sel)), NEW j \in Range(d.sel),
                          c.pool[m].wait >= c.op.age_cap
                   PROVE  c.pool[j].wait >= c.pool[m].wait
        BY DEF LongestFirst
      <3>1. m \in free
        BY <2>4
      <3>2. CASE j = i
        BY <2>2, <3>1, <3>2
      <3>3. CASE j \in Range(b.sel)
        BY <3>1, <3>3 DEF BatchInv, LongestFirst
      <3> QED BY <2>4, <3>2, <3>3
    <2>10. /\ d.S \in Nat /\ d.S = Total(c.pool, d.sel, Len(d.sel))
           /\ Total(c.pool, d.sel, Len(d.sel) - 1) < c.op.kv_operating_target
      <3>1. d.S = b.S + c.pool[i].kv_length
        OBVIOUS
      <3>2. c.op.kv_operating_target \in Nat
        BY DEF SteeringCall
      <3>3. \A m \in 1..Len(b.sel) : b.sel[m] = d.sel[m]
        BY <1>1, <2>3
      <3>4. Total(c.pool, d.sel, Len(b.sel)) = b.S
        <4> HIDE DEF d
        <4>1. b.S = Total(c.pool, b.sel, Len(b.sel))
          BY DEF BatchInv
        <4> QED BY <4>1, <1>1, <3>3, TotalOfPrefix
      <3>5. d.sel[Len(b.sel) + 1] = i
        BY <2>5
      <3> HIDE DEF d
      <3>6. Total(c.pool, d.sel, Len(b.sel) + 1) = b.S + c.pool[i].kv_length
        BY <1>1, <3>4, <3>5, TotalStep
      <3>7. Len(d.sel) - 1 = Len(b.sel)
        BY <1>1, <2>5
      <3> QED BY <1>1, <1>3, <2>5, <2>7, <3>1, <3>2, <3>4, <3>6, <3>7
    <2>11. d.sel # <<>>
      <3>1. Len(d.sel) # 0
        BY <1>1, <2>5
      <3> QED BY <3>1
    <2>12. d = [sel |-> d.sel, S |-> d.S]
      OBVIOUS
    <2> HIDE DEF d
    <2> QED BY <2>1, <2>5, <2>6, <2>8, <2>9, <2>10, <2>11, <2>12 DEF BatchInv
  <1> QED BY <1>2, <1>3

\* What a call of steer_decode_set computes, with the total length S of it.
LEMMA BatchCorrect ==
    ASSUME NEW c, SteeringCall(c)
    PROVE  \E b : /\ BatchInv(c, b, c.op.decode_count_target)
                  /\ b.sel = BatchLoop!Loop(c, c.op.decode_count_target, [sel |-> <<>>, S |-> 0]).sel
  <1> DEFINE start == [sel |-> <<>>, S |-> 0]
             n == c.op.decode_count_target
  <1>1. BatchInv(c, start, 0)
    <2>1. start.sel = <<>> /\ start.S = 0 /\ Len(start.sel) = 0 /\ Range(start.sel) = {}
      BY DEF Range
    <2>4. Total(c.pool, start.sel, 0) = 0
      BY TotalStep
    <2>2. start.sel \in Seq(DOMAIN c.pool \ c.used)
      OBVIOUS
    <2>3. IsInjective(start.sel) /\ LongestFirst(c, start.sel)
      BY <2>1 DEF IsInjective, LongestFirst
    <2> QED BY <2>1, <2>2, <2>3, <2>4 DEF BatchInv
  <1>2. n \in Nat
    BY DEF SteeringCall
  <1>3. \A k \in 0..(n - 1) : \A s : BatchInv(c, s, k) => BatchInv(c, DecodeStep(c, s, k + 1), k + 1)
    BY BatchStep, <1>2
  <1>4. BatchInv(c, BatchLoop!Loop(c, n, start), n)
    <2> HIDE DEF start, n
    <2> QED BY <1>1, <1>2, <1>3, BatchLoop!LoopInvariant
  <1> QED BY <1>4

AddKvLoop == INSTANCE LoopTheory WITH Step <- AddKv, Inv <- True

\* The sum begin_round takes over a batch's live lengths is the total S that steer_decode_set ran up.
LEMMA KvIsTotal ==
    ASSUME NEW p, NEW b, NEW n \in Nat, \A k \in 1..n : b[k] \in DOMAIN p
    PROVE  AddKvLoop!Loop([p |-> p, b |-> b], n, 0) = Total(Decoders(p), b, n)
  <1> DEFINE c == [p |-> p, b |-> b]
             S == {k \in Nat : k <= n => AddKvLoop!Loop(c, k, 0) = Total(Decoders(p), b, k)}
  <1>1. 0 \in S
    BY TotalStep, AddKvLoop!Unfold
  <1>2. ASSUME NEW k \in Nat, k \in S PROVE k + 1 \in S
    <2> SUFFICES ASSUME k + 1 <= n PROVE AddKvLoop!Loop(c, k + 1, 0) = Total(Decoders(p), b, k + 1)
      OBVIOUS
    <2>1. AddKvLoop!Loop(c, k, 0) = Total(Decoders(p), b, k) /\ b[k + 1] \in DOMAIN p
      BY <1>2
    <2>2. AddKvLoop!Loop(c, k + 1, 0) = AddKv(c, AddKvLoop!Loop(c, k, 0), k + 1)
      BY AddKvLoop!Unfold
    <2>3. Decoders(p)[b[k + 1]].kv_length = LiveKv(p[b[k + 1]])
      BY <2>1 DEF Decoders
    <2> QED BY <2>1, <2>2, <2>3, TotalStep DEF AddKv
  <1> HIDE DEF S
  <1>3. n \in S
    BY <1>1, <1>2, BatchLoop!Induct
  <1> QED BY <1>3 DEF S

\* The ranges of the operating point and of the bounds, from OperatingPoint.
LEMMA Numbers ==
    /\ ctx_balance \in Nat \ {0} /\ decode_count_target \in Nat \ {0}
    /\ kv_operating_target \in Nat \ {0} /\ decode_pool \in Nat \ {0}
    /\ age_cap \in Nat /\ MinIdeal \in Nat /\ MaxArrivals \in Nat
    /\ decode_pool >= 2 * decode_count_target
    /\ Lengths \subseteq Nat /\ DecodeLengths \subseteq Nat
  BY OperatingPoint DEF OperatingPoint

\* The fields of a resident decoder.
LEMMA DecoderTypes ==
    ASSUME NEW q \in Decoder
    PROVE  /\ q.prompt \in Lengths /\ q.prompt \in Nat /\ q.dtot \in DecodeLengths /\ q.dtot \in Nat
           /\ q.dec \in Nat /\ q.wait \in Nat /\ LiveKv(q) \in Nat
  <1>1. q.prompt \in Lengths /\ q.dtot \in DecodeLengths /\ q.dec \in Nat /\ q.wait \in Nat
    BY DEF Decoder
  <1>2. q.prompt \in Nat /\ q.dtot \in Nat
    BY <1>1, Numbers
  <1> QED BY <1>1, <1>2 DEF LiveKv

\* The view of the pool that steering gets (Decoders) has the shape it expects, with the same waits.
LEMMA DecodersTypes ==
    ASSUME NEW p \in Seq(Decoder)
    PROVE  /\ Len(p) \in Nat /\ DOMAIN p = 1..Len(p) /\ DOMAIN Decoders(p) = DOMAIN p
           /\ \A i \in DOMAIN p : p[i] \in Decoder /\ p[i].wait \in Nat /\ Decoders(p)[i].wait = p[i].wait
           /\ Decoders(p) \in SteeringPool
  <1>1. Len(p) \in Nat /\ DOMAIN p = 1..Len(p) /\ \A i \in DOMAIN p : p[i] \in Decoder
    BY SeqElements
  <1>2. \A q \in Decoder : LiveKv(q) \in Nat /\ q.wait \in Nat
    BY DecoderTypes
  <1>3. Decoders(p) \in [1..Len(p) -> [kv_length : Nat, wait : Nat]]
    BY <1>1, <1>2 DEF Decoders
  <1> QED BY <1>1, <1>2, <1>3 DEF Decoders, SteeringPool

\* The reference of RoundIsWellFormed holds of every batch.
LEMMA BatchIsGood ==
    ASSUME NEW p \in Seq(Decoder), NEW used, used \subseteq DOMAIN p
    PROVE  /\ compose_decode_batch(p, used) \in Seq(DOMAIN p \ used)
           /\ GoodBatch(p, used, compose_decode_batch(p, used))
  <1> DEFINE c == [pool |-> Decoders(p), used |-> used, op |-> op]
             n == decode_count_target
             sel == compose_decode_batch(p, used)
  <1>1. SteeringCall(c)
    BY DecodersTypes, Numbers DEF SteeringCall, op
  <1>2. c.op.decode_count_target = n /\ c.op.kv_operating_target = kv_operating_target /\ c.op.age_cap = age_cap
        /\ c.pool = Decoders(p) /\ c.used = used
    BY DEF op
  <1>3. sel = BatchLoop!Loop(c, n, [sel |-> <<>>, S |-> 0]).sel
    BY <1>2 DEF compose_decode_batch, steer_decode_set, BatchLoop!Loop, BatchLoop!Iterate, Iterate
  <1> HIDE DEF c, sel
  <1>4. PICK b : BatchInv(c, b, n) /\ b.sel = sel
    BY <1>1, <1>2, <1>3, BatchCorrect
  <1>5. sel \in Seq(DOMAIN p \ used) /\ Len(sel) \in Nat /\ DOMAIN sel = 1..Len(sel) /\ Range(sel) \subseteq DOMAIN p \ used
    BY <1>2, <1>4, DecodersTypes DEF BatchInv, Range
  <1>6. Kv(p, sel) = b.S
    <2>1. Kv(p, sel) = AddKvLoop!Loop([p |-> p, b |-> sel], Len(sel), 0)
      BY DEF Kv, AddKvLoop!Loop, AddKvLoop!Iterate, Iterate
    <2>2. Kv(p, sel) = Total(Decoders(p), sel, Len(sel))
      BY <1>5, <2>1, KvIsTotal DEF Range
    <2> QED BY <1>2, <1>4, <2>2 DEF BatchInv
  <1>7. sel # <<>> => Kv(p, Front(sel)) < kv_operating_target
    <2> SUFFICES ASSUME sel # <<>> PROVE Kv(p, Front(sel)) < kv_operating_target
      OBVIOUS
    <2> DEFINE f == Front(sel)
    <2>1. Len(sel) - 1 \in Nat /\ Len(f) = Len(sel) - 1 /\ \A k \in 1..(Len(sel) - 1) : f[k] = sel[k]
      BY <1>5 DEF Front
    <2> HIDE DEF f
    <2>2. Kv(p, f) = AddKvLoop!Loop([p |-> p, b |-> f], Len(f), 0)
      BY DEF Kv, AddKvLoop!Loop, AddKvLoop!Iterate, Iterate
    <2>3. \A k \in 1..Len(f) : f[k] \in DOMAIN p
      BY <1>5, <2>1 DEF Range
    <2>4. Kv(p, f) = Total(Decoders(p), f, Len(f))
      BY <2>1, <2>2, <2>3, KvIsTotal
    <2>5. Kv(p, f) = Total(Decoders(p), sel, Len(sel) - 1)
      BY <2>1, <2>4, TotalOfPrefix
    <2> QED BY <1>2, <1>4, <2>5 DEF BatchInv, f
  <1>8. \A i \in DOMAIN p \ (used \cup Range(sel)), j \in Range(sel) :
           p[i].wait >= age_cap => p[j].wait >= p[i].wait
    <2>1. LongestFirst(c, sel)
      BY <1>4 DEF BatchInv
    <2>2. \A i \in DOMAIN p : c.pool[i].wait = p[i].wait
      BY <1>2, DecodersTypes
    <2>3. DOMAIN c.pool = DOMAIN p
      BY <1>2, DecodersTypes
    <2> QED BY <1>2, <1>5, <2>1, <2>2, <2>3 DEF LongestFirst
  <1>9. /\ IsInjective(sel) /\ Len(sel) <= n
        /\ Len(sel) = n \/ Kv(p, sel) >= kv_operating_target \/ DOMAIN p = used \cup Range(sel)
    BY <1>2, <1>4, <1>6, DecodersTypes DEF BatchInv
  <1>10. Range(sel) \cap used = {}
    BY <1>5
  <1> QED BY <1>5, <1>7, <1>8, <1>9, <1>10 DEF GoodBatch, sel

-------------------------------------------------------------------------------
(* Who is left over by a round.                                            *)

Waiting(p, t) == {i \in DOMAIN p : p[i].wait >= t}
Served(p) == Range(FirstBatch(p)) \cup Range(SecondBatch(p))

\* A micro-batch takes somebody, and one of the aged if there are any.
LEMMA BatchServes ==
    ASSUME NEW p \in Seq(Decoder), NEW used, used \subseteq DOMAIN p,
           NEW X, X = DOMAIN p \/ (\E t \in Nat : t >= age_cap /\ X = Waiting(p, t)),
           X \ used # {}
    PROVE  Range(compose_decode_batch(p, used)) \cap X # {}
  <1> DEFINE b == compose_decode_batch(p, used)
  <1>1. b \in Seq(DOMAIN p \ used) /\ GoodBatch(p, used, b)
    BY BatchIsGood
  <1> HIDE DEF b
  <1>2. Len(b) \in Nat /\ DOMAIN b = 1..Len(b) /\ Range(b) \subseteq DOMAIN p \ used
    BY <1>1 DEF Range
  <1>3. X \subseteq DOMAIN p
    BY DEF Waiting
  <1>4. Range(b) # {}
    <2> SUFFICES ASSUME Range(b) = {} PROVE FALSE
      OBVIOUS
    <2>1. Len(b) = 0 /\ b = <<>>
      <3>1. DOMAIN b = {}
        BY DEF Range
      <3> QED BY <1>1, <1>2, <3>1
    <2>2. Kv(p, b) = 0
      <3>1. Kv(p, b) = AddKvLoop!Loop([p |-> p, b |-> b], 0, 0)
        BY <2>1 DEF Kv, AddKvLoop!Loop, AddKvLoop!Iterate, Iterate
      <3> QED BY <3>1, AddKvLoop!Unfold
    <2>3. DOMAIN p = used \cup Range(b)
      BY <1>1, <2>1, <2>2, Numbers DEF GoodBatch
    <2> QED BY <1>3, <2>3
  <1>5. CASE X = DOMAIN p
    BY <1>2, <1>4, <1>5 DEF b
  <1>6. CASE \E t \in Nat : t >= age_cap /\ X = Waiting(p, t)
    <2>1. PICK t \in Nat : t >= age_cap /\ X = Waiting(p, t)
      BY <1>6
    <2>2. PICK i \in X \ used : TRUE
      OBVIOUS
    <2>3. CASE i \in Range(b)
      BY <2>2, <2>3 DEF b
    <2>4. CASE i \notin Range(b)
      <3>1. PICK j \in Range(b) : TRUE
        BY <1>4
      <3>2. i \in DOMAIN p /\ p[i].wait \in Nat /\ p[i].wait >= t /\ p[i].wait >= age_cap
        BY <1>3, <2>1, <2>2, DecodersTypes, Numbers DEF Waiting
      <3>3. j \in DOMAIN p /\ p[j].wait \in Nat
        BY <1>2, <3>1, DecodersTypes
      <3>4. p[j].wait >= p[i].wait
        BY <1>1, <2>2, <2>4, <3>1, <3>2 DEF GoodBatch
      <3>5. j \in X
        BY <2>1, <3>2, <3>3, <3>4 DEF Waiting
      <3> QED BY <3>1, <3>5 DEF b
    <2> QED BY <2>3, <2>4
  <1> QED BY <1>5, <1>6

\* A round serves members of the pool, and its second batch none of the first (end_round advances
\* each once).
LEMMA ServedMembers ==
    ASSUME NEW p \in Seq(Decoder)
    PROVE  /\ Range(FirstBatch(p)) \subseteq DOMAIN p
           /\ Len(p) >= 2 * decode_count_target =>
                Range(SecondBatch(p)) \subseteq DOMAIN p \ Range(FirstBatch(p))
           /\ Served(p) \subseteq DOMAIN p
  <1>1. Range(FirstBatch(p)) \subseteq DOMAIN p
    <2>1. FirstBatch(p) \in Seq(DOMAIN p \ {})
      BY BatchIsGood DEF FirstBatch
    <2> QED BY <2>1, SeqRange
  <1>2. CASE Len(p) >= 2 * decode_count_target
    <2>1. SecondBatch(p) \in Seq(DOMAIN p \ Range(FirstBatch(p)))
      BY <1>1, <1>2, BatchIsGood DEF SecondBatch
    <2> QED BY <1>1, <2>1, SeqRange DEF Served
  <1>3. CASE ~(Len(p) >= 2 * decode_count_target)
    <2>1. SecondBatch(p) = <<>>
      BY <1>3 DEF SecondBatch
    <2>2. Range(SecondBatch(p)) = {}
      BY <2>1 DEF Range
    <2> QED BY <1>1, <1>3, <2>2 DEF Served
  <1> QED BY <1>2, <1>3

\* Of n who compete, so many are left: two fewer if they fill two batches.
LeftOf(n) == IF n >= 2 * decode_count_target THEN n - 2 ELSE IF n >= 1 THEN n - 1 ELSE 0

\* Of the whole pool, or of everybody who waited t >= age_cap rounds, a round leaves at most LeftOf
\* unserved.
LEMMA RoundServes ==
    ASSUME NEW p \in Seq(Decoder),
           NEW X, X = DOMAIN p \/ (\E t \in Nat : t >= age_cap /\ X = Waiting(p, t))
    PROVE  /\ IsFiniteSet(X) /\ IsFiniteSet(X \ Served(p)) /\ Cardinality(X) \in Nat
           /\ Cardinality(X \ Served(p)) \in Nat
           /\ Cardinality(X \ Served(p)) <= LeftOf(Cardinality(X))
  <1> DEFINE b1 == Range(FirstBatch(p))
             b2 == Range(SecondBatch(p))
             c == decode_count_target
             L == X \ Served(p)
  <1>1. Len(p) \in Nat /\ DOMAIN p = 1..Len(p)
    BY DecodersTypes
  <1>2. IsFiniteSet(DOMAIN p) /\ Cardinality(DOMAIN p) = Len(p) /\ X \subseteq DOMAIN p
    <2>1. IsFiniteSet(1..Len(p)) /\ Cardinality(1..Len(p)) = IF 1 > Len(p) THEN 0 ELSE Len(p) - 1 + 1
      BY <1>1, FS_Interval
    <2> QED BY <1>1, <2>1 DEF Waiting
  <1>3. IsFiniteSet(X) /\ Cardinality(X) \in Nat /\ Cardinality(X) <= Len(p)
    BY <1>2, FS_Subset, FS_CardinalityType
  <1>4. IsFiniteSet(L) /\ Cardinality(L) \in Nat
    BY <1>3, FS_Subset, FS_CardinalityType
  <1>5. c \in Nat \ {0}
    BY Numbers
  <1>6. CASE L = {}
    <2>1. Cardinality(L) = 0
      BY <1>6, FS_EmptySet
    <2> QED BY <1>3, <1>4, <1>5, <2>1 DEF LeftOf
  <1>7. CASE L # {}
    <2>1. PICK x \in X : x \in b1
      <3>1. X \ {} # {}
        BY <1>7
      <3> QED BY <3>1, BatchServes DEF FirstBatch
    <2>2. Cardinality(X \ {x}) = Cardinality(X) - 1 /\ IsFiniteSet(X \ {x})
      BY <1>3, <2>1, FS_RemoveElement
    <2>3. L \in SUBSET (X \ {x})
      BY <2>1 DEF Served
    <2>4. Cardinality(L) <= Cardinality(X) - 1
      BY <2>2, <2>3, FS_Subset
    <2>5. CASE Cardinality(X) >= 2 * c
      <3>1. Len(p) >= 2 * c
        BY <1>1, <1>3, <1>5, <2>5
      <3>2. X \ b1 # {} /\ b1 \subseteq DOMAIN p
        BY <1>7, ServedMembers DEF Served
      <3>3. PICK y \in X : y \in b2
        BY <3>1, <3>2, BatchServes DEF SecondBatch
      <3>4. y # x
        BY <2>1, <3>1, <3>3, ServedMembers
      <3>5. Cardinality((X \ {x}) \ {y}) = Cardinality(X) - 2 /\ IsFiniteSet((X \ {x}) \ {y})
        <4>1. y \in X \ {x}
          BY <3>3, <3>4
        <4> DEFINE Y == X \ {x}
        <4> HIDE DEF Y
        <4>2. IsFiniteSet(Y \ {y}) /\ Cardinality(Y \ {y}) = Cardinality(Y) - 1
          BY <2>2, <4>1, FS_RemoveElement DEF Y
        <4> QED BY <1>3, <2>2, <4>2 DEF Y
      <3>6. L \in SUBSET ((X \ {x}) \ {y})
        BY <2>3, <3>3 DEF Served
      <3>7. Cardinality(L) <= Cardinality(X) - 2
        BY <3>5, <3>6, FS_Subset
      <3> QED BY <1>3, <1>4, <2>5, <3>7 DEF LeftOf
    <2>6. CASE ~(Cardinality(X) >= 2 * c)
      BY <1>3, <1>4, <2>4, <2>6 DEF LeftOf
    <2> QED BY <2>5, <2>6
  <1> QED BY <1>3, <1>4, <1>6, <1>7

\* How many may have waited for w rounds more than the first to age.
Halving == (decode_pool - 2 * decode_count_target + 2) \div 2
Room(w) ==
  IF w <= Halving THEN decode_pool - 2 * w
  ELSE IF w <= decode_pool - Halving THEN decode_pool - Halving - w ELSE 0

\* What a round leaves of Room(w) fits in Room(w + 1): the schedule of WaitInv closes.
LEMMA RoomShrinks ==
    ASSUME NEW w \in Nat, NEW n \in Nat, n <= Room(w)
    PROVE  LeftOf(n) <= Room(w + 1)
  <1> DEFINE c == decode_count_target
             N == decode_pool
             K == Halving
  <1>1. c \in Nat \ {0} /\ N \in Nat /\ N >= 2 * c
    BY Numbers
  <1>2. K \in Nat /\ 2 * K <= N - 2 * c + 2 /\ N - 2 * c + 2 <= 2 * K + 1
    BY <1>1 DEF Halving
  <1> HIDE DEF c, N, K
  <1>3. Room(w) = IF w <= K THEN N - 2 * w ELSE IF w <= N - K THEN N - K - w ELSE 0
    BY DEF Room, K, N
  <1>4. Room(w + 1) = IF w + 1 <= K THEN N - 2 * (w + 1) ELSE IF w + 1 <= N - K THEN N - K - (w + 1) ELSE 0
    BY DEF Room, K, N
  <1>5. LeftOf(n) = IF n >= 2 * c THEN n - 2 ELSE IF n >= 1 THEN n - 1 ELSE 0
    BY DEF LeftOf, c
  <1> QED BY <1>1, <1>2, <1>3, <1>4, <1>5

\* After every round, of those that have waited for w rounds since the first
\* to age only so many are left.
Floor == IF age_cap = 0 THEN 1 ELSE age_cap
WaitInv(p) == \A w \in Nat : Cardinality(Waiting(p, Floor + w)) <= Room(w + 1)

\* The waits of end_round keep WaitInv: the aged are served oldest first.
LEMMA RoundBoundsWaits ==
    ASSUME NEW p \in Seq(Decoder), Len(p) <= decode_pool, WaitInv(p)
    PROVE  WaitInv(Advanced(p))
  <1> SUFFICES ASSUME NEW w \in Nat
               PROVE  Cardinality(Waiting(Advanced(p), Floor + w)) <= Room(w + 1)
    BY DEF WaitInv
  <1> DEFINE X == IF w = 0 THEN DOMAIN p ELSE Waiting(p, Floor + w - 1)
             a == Advanced(p)
  <1>1. Floor \in Nat /\ Floor >= 1 /\ Floor >= age_cap
    BY Numbers DEF Floor
  <1>2. Len(p) \in Nat /\ DOMAIN p = 1..Len(p) /\ \A i \in DOMAIN p : p[i].wait \in Nat /\ p[i] \in Decoder
    BY DecodersTypes
  <1>3. Waiting(a, Floor + w) \subseteq X \ Served(p)
    <2> SUFFICES ASSUME NEW i \in Waiting(a, Floor + w) PROVE i \in X \ Served(p)
      OBVIOUS
    <2>1. i \in DOMAIN p /\ a[i].wait >= Floor + w
      BY DEF Waiting, Advanced
    <2>2. p[i] = [prompt |-> p[i].prompt, dtot |-> p[i].dtot, dec |-> p[i].dec, wait |-> p[i].wait]
      BY <1>2, <2>1 DEF Decoder
    <2>3. a[i].wait = IF i \in Served(p) THEN 0 ELSE p[i].wait + 1
      BY <2>1, <2>2 DEF Advanced, Served
    <2>4. i \notin Served(p) /\ p[i].wait >= Floor + w - 1
      BY <1>1, <1>2, <2>1, <2>3
    <2> QED BY <2>1, <2>4 DEF Waiting
  <1>4. X = DOMAIN p \/ (\E t \in Nat : t >= age_cap /\ X = Waiting(p, t))
    <2>1. CASE w = 0
      BY <2>1
    <2>2. CASE w # 0
      <3>1. Floor + w - 1 \in Nat /\ Floor + w - 1 >= age_cap
        BY <1>1, <2>2, Numbers
      <3> QED BY <2>2, <3>1
    <2> QED BY <2>1, <2>2
  <1>5. Cardinality(X) <= Room(w)
    <2>1. CASE w = 0
      <3>1. Cardinality(X) = Len(p)
        BY <1>2, <2>1, FS_Interval
      <3>2. Room(0) = decode_pool
        <4>1. decode_pool - 2 * decode_count_target + 2 \in Nat
          BY Numbers
        <4>2. Halving \in Nat
          BY <4>1 DEF Halving
        <4> QED BY <4>2, Numbers DEF Room
      <3> QED BY <2>1, <3>1, <3>2
    <2>2. CASE w # 0
      <3>1. w - 1 \in Nat /\ Floor + (w - 1) = Floor + w - 1 /\ w - 1 + 1 = w
        BY <1>1, <2>2
      <3> QED BY <2>2, <3>1 DEF WaitInv
    <2> QED BY <2>1, <2>2
  <1> HIDE DEF X
  <1>6. /\ IsFiniteSet(X \ Served(p)) /\ Cardinality(X) \in Nat /\ Cardinality(X \ Served(p)) \in Nat
        /\ Cardinality(X \ Served(p)) <= LeftOf(Cardinality(X))
    BY <1>4, RoundServes
  <1>7. LeftOf(Cardinality(X)) <= Room(w + 1)
    BY <1>5, <1>6, RoomShrinks
  <1>8. Cardinality(Waiting(a, Floor + w)) <= Cardinality(X \ Served(p)) /\ IsFiniteSet(Waiting(a, Floor + w))
    BY <1>3, <1>6, FS_Subset
  <1>9. Cardinality(Waiting(a, Floor + w)) \in Nat
    BY <1>8, FS_CardinalityType
  <1>10. LeftOf(Cardinality(X)) \in Int /\ Room(w + 1) \in Int
    <2>1. Halving \in Int
      BY Numbers DEF Halving
    <2> QED BY <1>6, <2>1, Numbers DEF LeftOf, Room
  <1> QED BY <1>6, <1>7, <1>8, <1>9, <1>10

-------------------------------------------------------------------------------
(* Admission: one request moves from the queue to the end of the pool.     *)

Fitting == {len \in Lengths : len <= node_cap_room}
Resident == {q \in Decoder : q.prompt \in Fitting}

NodePair(s) ==
  /\ s = [pool |-> s.pool, queue |-> s.queue]
  /\ s.pool \in Seq(Resident)
  /\ s.queue \in Seq(Request)

\* The fields of a waiting request.
LEMMA RequestTypes ==
    ASSUME NEW r \in Request
    PROVE  r.prompt \in Lengths /\ r.prompt \in Nat /\ r.dtot \in DecodeLengths
  <1>1. r.prompt \in Lengths /\ r.dtot \in DecodeLengths
    BY DEF Request
  <1> QED BY <1>1, Numbers

\* admit_nearest finds an admissible request with the prompt nearest to the ideal.
LEMMA NearestIsBest ==
    ASSUME NEW q \in Seq(Request), Admissible(q) # {}, NEW ideal \in Int
    PROVE  LET i == NearestWaiting(q, ideal)
           IN  /\ i \in DOMAIN q /\ q[i].prompt \in Fitting
               /\ \A j \in Admissible(q) : Abs(q[i].prompt - ideal) <= Abs(q[j].prompt - ideal)
  <1> DEFINE C == Admissible(q)
             i == NearestWaiting(q, ideal)
             cost == [j \in C |-> Abs(q[j].prompt - ideal)]
  <1>1. /\ Len(q) \in Nat /\ DOMAIN q = 1..Len(q) /\ C \subseteq 1..Len(q)
        /\ \A j \in C : q[j].prompt \in Nat /\ q[j].prompt \in Lengths
    BY SeqElements, RequestTypes DEF Admissible
  <1>2. cost \in [C -> Int]
    BY <1>1 DEF Abs
  <1>3. \E a \in C : \A j \in C : cost[a] < cost[j] \/ (cost[a] = cost[j] /\ a <= j)
    <2> HIDE DEF cost, C
    <2> QED BY <1>1, <1>2, LeastExists DEF C
  <1>4. i = CHOOSE a \in C : \A j \in C :
              \/ Abs(q[a].prompt - ideal) < Abs(q[j].prompt - ideal)
              \/ Abs(q[a].prompt - ideal) = Abs(q[j].prompt - ideal) /\ a <= j
    BY DEF NearestWaiting, FirstLeast
  <1>5. \E a \in C : \A j \in C :
              \/ Abs(q[a].prompt - ideal) < Abs(q[j].prompt - ideal)
              \/ Abs(q[a].prompt - ideal) = Abs(q[j].prompt - ideal) /\ a <= j
    <2> HIDE DEF C
    <2> QED BY <1>3
  <1>6. i \in C /\ \A j \in C :
              \/ Abs(q[i].prompt - ideal) < Abs(q[j].prompt - ideal)
              \/ Abs(q[i].prompt - ideal) = Abs(q[j].prompt - ideal) /\ i <= j
    <2> HIDE DEF C, i
    <2> QED BY <1>4, <1>5
  <1>7. \A j \in C : Abs(q[j].prompt - ideal) \in Int
    BY <1>1 DEF Abs
  <1>8. \A j \in C : Abs(q[i].prompt - ideal) <= Abs(q[j].prompt - ideal)
    <2> HIDE DEF C, i
    <2> QED BY <1>6, <1>7
  <1>9. i \in DOMAIN q /\ q[i].prompt \in Fitting
    BY <1>1, <1>6 DEF Admissible, Fitting
  <1> QED BY <1>8, <1>9

\* erase(begin() + i) of the waiting queue: one shorter, the rest in order.
LEMMA Removal ==
    ASSUME NEW T, NEW q \in Seq(T), NEW i \in DOMAIN q
    PROVE  /\ RemoveAt(q, i) \in Seq(T) /\ Len(RemoveAt(q, i)) = Len(q) - 1
           /\ \A j \in 1..(Len(q) - 1) : RemoveAt(q, i)[j] = IF j < i THEN q[j] ELSE q[j + 1]
  <1>1. Len(q) \in Nat /\ i \in 1..Len(q)
    OBVIOUS
  <1> DEFINE a == SubSeq(q, 1, i - 1)
             b == SubSeq(q, i + 1, Len(q))
  <1>2. a \in Seq(T) /\ Len(a) = i - 1 /\ \A j \in 1..(i - 1) : a[j] = q[j]
    BY <1>1
  <1>3. b \in Seq(T) /\ Len(b) = Len(q) - i /\ \A j \in 1..(Len(q) - i) : b[j] = q[i + j]
    BY <1>1
  <1> HIDE DEF a, b
  <1>4. RemoveAt(q, i) = a \o b
    BY DEF RemoveAt, a, b
  <1>5. a \o b \in Seq(T) /\ Len(a \o b) = Len(q) - 1
    BY <1>1, <1>2, <1>3
  <1>6. \A j \in 1..(Len(q) - 1) : (a \o b)[j] = IF j < i THEN q[j] ELSE q[j + 1]
    <2> TAKE j \in 1..(Len(q) - 1)
    <2>1. CASE j < i
      BY <1>1, <1>2, <1>3, <2>1
    <2>2. CASE ~(j < i)
      <3>1. (a \o b)[j] = b[j - (i - 1)]
        BY <1>1, <1>2, <1>3, <2>2
      <3>2. j - (i - 1) \in 1..(Len(q) - i) /\ i + (j - (i - 1)) = j + 1
        BY <1>1, <2>2
      <3> QED BY <1>3, <2>2, <3>1, <3>2
    <2> QED BY <2>1, <2>2
  <1> QED BY <1>4, <1>5, <1>6

\* make_decoder: a request whose prompt fits becomes a resident that has waited no round.
LEMMA FreshTypes ==
    ASSUME NEW r \in Request, r.prompt \in Fitting
    PROVE  Fresh(r) \in Resident /\ Fresh(r).wait = 0 /\ Fresh(r).prompt = r.prompt
  BY RequestTypes DEF Fresh, Resident, Decoder

\* admit_nearest does nothing, if nothing fits, or moves the nearest request from the queue into the
\* pool.
LEMMA AdmitNearMoves ==
    ASSUME NEW s, NodePair(s), NEW ideal \in Int
    PROVE  \/ Admissible(s.queue) = {} /\ AdmitNear(s, ideal) = s
           \/ \E i \in DOMAIN s.queue :
                /\ Admissible(s.queue) # {}
                /\ s.queue[i].prompt \in Fitting
                /\ \A j \in Admissible(s.queue) :
                      Abs(s.queue[i].prompt - ideal) <= Abs(s.queue[j].prompt - ideal)
                /\ AdmitNear(s, ideal).pool = Append(s.pool, Fresh(s.queue[i]))
                /\ AdmitNear(s, ideal).queue = RemoveAt(s.queue, i)
                /\ NodePair(AdmitNear(s, ideal))
  <1>1. CASE Admissible(s.queue) = {}
    BY <1>1 DEF AdmitNear
  <1>2. CASE Admissible(s.queue) # {}
    <2> DEFINE i == NearestWaiting(s.queue, ideal)
               t == [pool |-> Append(s.pool, Fresh(s.queue[i])), queue |-> RemoveAt(s.queue, i)]
    <2>1. AdmitNear(s, ideal) = t
      BY <1>2 DEF AdmitNear
    <2>2. /\ i \in DOMAIN s.queue /\ s.queue[i].prompt \in Fitting
          /\ \A j \in Admissible(s.queue) :
                Abs(s.queue[i].prompt - ideal) <= Abs(s.queue[j].prompt - ideal)
      BY <1>2, NearestIsBest DEF NodePair
    <2> HIDE DEF i
    <2>3. s.queue[i] \in Request
      BY <2>2, SeqElements DEF NodePair
    <2>4. Fresh(s.queue[i]) \in Resident
      BY <2>2, <2>3, FreshTypes
    <2>5. RemoveAt(s.queue, i) \in Seq(Request)
      BY <2>2, Removal DEF NodePair
    <2>6. Append(s.pool, Fresh(s.queue[i])) \in Seq(Resident)
      BY <2>4 DEF NodePair
    <2>7. NodePair(t)
      BY <2>5, <2>6 DEF NodePair
    <2> QED BY <1>2, <2>1, <2>2, <2>7
  <1> QED BY <1>1, <1>2

\* Nobody who has waited is added or removed by an admission.
LEMMA WaitingAfterAppend ==
    ASSUME NEW p \in Seq(Decoder), NEW q \in Decoder, NEW t \in Nat
    PROVE  Waiting(Append(p, q), t) = Waiting(p, t) \cup (IF q.wait >= t THEN {Len(p) + 1} ELSE {})
  <1>1. Len(p) \in Nat /\ DOMAIN p = 1..Len(p) /\ DOMAIN Append(p, q) = 1..(Len(p) + 1)
    OBVIOUS
  <1>2. \A i \in 1..Len(p) : Append(p, q)[i] = p[i]
    OBVIOUS
  <1>3. Append(p, q)[Len(p) + 1] = q
    OBVIOUS
  <1> DEFINE a == Append(p, q)
  <1> HIDE DEF a
  <1>4. Waiting(a, t) = {i \in 1..(Len(p) + 1) : a[i].wait >= t}
    BY <1>1 DEF Waiting, a
  <1>5. Waiting(p, t) = {i \in 1..Len(p) : p[i].wait >= t}
    BY <1>1 DEF Waiting
  <1> QED BY <1>1, <1>2, <1>3, <1>4, <1>5 DEF a

\* What c.n admissions leave as it was; they start from c.pool and c.queue.
Conserved(c, s) ==
  /\ NodePair(s)
  /\ Len(s.pool) + Len(s.queue) = Len(c.pool) + Len(c.queue)
  /\ \A t \in Nat \ {0} : Waiting(s.pool, t) = Waiting(c.pool, t)

\* A resident is a decoder whose prompt fits: a pool of residents is a pool.
LEMMA ResidentSeq == Seq(Resident) \subseteq Seq(Decoder)
  <1>1. Resident \subseteq Decoder
    BY DEF Resident
  <1> QED BY <1>1

\* One admission loses no request and duplicates none; it leaves the pool as it is only when nothing
\* fits.
LEMMA AdmissionConserves ==
    ASSUME NEW c, NEW s, Conserved(c, s), NEW ideal \in Int
    PROVE  LET t == AdmitNear(s, ideal)
           IN  /\ Conserved(c, t)
               /\ \/ t = s /\ Admissible(t.queue) = {}
                  \/ Len(t.pool) = Len(s.pool) + 1
  <1> DEFINE t == AdmitNear(s, ideal)
  <1>1. NodePair(s)
    BY DEF Conserved
  <1>2. CASE Admissible(s.queue) = {} /\ t = s
    BY <1>2
  <1>3. CASE \E i \in DOMAIN s.queue :
                /\ s.queue[i].prompt \in Fitting
                /\ t.pool = Append(s.pool, Fresh(s.queue[i]))
                /\ t.queue = RemoveAt(s.queue, i)
                /\ NodePair(t)
    <2> HIDE DEF t
    <2>1. PICK i \in DOMAIN s.queue :
                /\ s.queue[i].prompt \in Fitting
                /\ t.pool = Append(s.pool, Fresh(s.queue[i]))
                /\ t.queue = RemoveAt(s.queue, i)
                /\ NodePair(t)
      BY <1>3
    <2> DEFINE f == Fresh(s.queue[i])
    <2>2. f \in Resident /\ f \in Decoder /\ f.wait = 0
      <3>1. s.queue[i] \in Request
        BY <1>1, SeqElements DEF NodePair
      <3> QED BY <2>1, <3>1, FreshTypes DEF Resident
    <2> HIDE DEF f
    <2>3. s.pool \in Seq(Decoder) /\ s.pool \in Seq(Resident) /\ s.queue \in Seq(Request)
      BY <1>1, ResidentSeq DEF NodePair
    <2>4. Len(t.pool) = Len(s.pool) + 1
      BY <2>1, <2>3
    <2>5. Len(t.queue) = Len(s.queue) - 1
      BY <2>1, <2>3, Removal
    <2>6. \A w \in Nat \ {0} : Waiting(t.pool, w) = Waiting(c.pool, w)
      <3> TAKE w \in Nat \ {0}
      <3>1. Waiting(t.pool, w) = Waiting(s.pool, w) \cup (IF f.wait >= w THEN {Len(s.pool) + 1} ELSE {})
        BY <2>1, <2>2, <2>3, WaitingAfterAppend DEF f
      <3>2. ~(f.wait >= w)
        BY <2>2
      <3> QED BY <3>1, <3>2 DEF Conserved
    <2>7. Len(s.pool) \in Nat /\ Len(s.queue) \in Nat
      BY <2>3
    <2>8. Conserved(c, t)
      <3>1. Len(t.pool) + Len(t.queue) = Len(s.pool) + Len(s.queue)
        <4> DEFINE tp == Len(t.pool)
                   tq == Len(t.queue)
                   sp == Len(s.pool)
                   sq == Len(s.queue)
        <4>1. tp = sp + 1 /\ tq = sq - 1 /\ sp \in Nat /\ sq \in Nat
          BY <2>4, <2>5, <2>7
        <4> HIDE DEF tp, tq, sp, sq
        <4>2. tp + tq = sp + sq
          BY <4>1
        <4> QED BY <4>2 DEF tp, tq, sp, sq
      <3> QED BY <2>1, <2>6, <3>1 DEF Conserved
    <2> QED BY <2>4, <2>8 DEF t
  <1> QED BY <1>1, <1>2, <1>3, AdmitNearMoves

-------------------------------------------------------------------------------
(* Filling before the first round.                                         *)

LiveLoop == INSTANCE LoopTheory WITH Step <- AddLive, Inv <- True

\* The prompt that warm_fill aims at is a whole number.
LEMMA IdealIsNumber ==
    ASSUME NEW p \in Seq(Decoder)
    PROVE  CenteringIdeal(p) \in Int
  <1> DEFINE S == {n \in Nat : n <= Len(p) => LiveLoop!Loop(p, n, 0) \in Nat}
  <1>1. 0 \in S
    BY LiveLoop!Unfold
  <1>2. ASSUME NEW n \in Nat, n \in S PROVE n + 1 \in S
    <2> SUFFICES ASSUME n + 1 <= Len(p) PROVE LiveLoop!Loop(p, n + 1, 0) \in Nat
      OBVIOUS
    <2>1. LiveLoop!Loop(p, n + 1, 0) = AddLive(p, LiveLoop!Loop(p, n, 0), n + 1)
      BY LiveLoop!Unfold
    <2>2. n + 1 \in DOMAIN p
      BY DecodersTypes
    <2>3. LiveKv(p[n + 1]) \in Nat
      BY <2>2, DecodersTypes, DecoderTypes
    <2>4. LiveLoop!Loop(p, n, 0) \in Nat
      BY <1>2, DecodersTypes
    <2> QED BY <2>1, <2>3, <2>4 DEF AddLive
  <1> HIDE DEF S
  <1>3. Len(p) \in S
    BY <1>1, <1>2, BatchLoop!Induct, DecodersTypes
  <1>4. LiveLoop!Loop(p, Len(p), 0) \in Nat
    BY <1>3, DecodersTypes DEF S
  <1>5. LiveSum(p) \in Nat
    BY <1>4 DEF LiveSum, LiveLoop!Loop, LiveLoop!Iterate, Iterate
  <1>6. ctx_balance * (Len(p) + 1) - LiveSum(p) \in Int
    BY <1>5, Numbers, DecodersTypes
  <1> QED BY <1>6, Numbers DEF CenteringIdeal

\* c is the node before it is filled.
FillBody(c, s, k) == FillStep(s)
FillInv(c, s, k) == Conserved(c, s) /\ Len(s.pool) <= decode_pool /\ Len(c.pool) <= Len(s.pool)
FillLoop == INSTANCE LoopTheory WITH Step <- FillBody, Inv <- FillInv

\* warm_fill loses no request and stops short of the pool only when nothing that waits fits.
LEMMA FillKeeps ==
    ASSUME NEW c, NodePair(c), Len(c.pool) <= decode_pool
    PROVE  FillInv(c, Filled(c.pool, c.queue), decode_pool)
  <1>1. FillInv(c, c, 0)
    <2>1. Len(c.pool) \in Nat
      BY DEF NodePair
    <2> QED BY <2>1 DEF FillInv, Conserved
  <1>2. ASSUME NEW k \in 0..(decode_pool - 1), NEW s, FillInv(c, s, k)
        PROVE  FillInv(c, FillBody(c, s, k + 1), k + 1)
    <2>1. CASE ~(Len(s.pool) < decode_pool)
      BY <1>2, <2>1 DEF FillInv, FillBody, FillStep
    <2>2. CASE Len(s.pool) < decode_pool
      <3> DEFINE t == AdmitNear(s, CenteringIdeal(s.pool))
      <3>1. s.pool \in Seq(Decoder) /\ Conserved(c, s)
        BY <1>2, ResidentSeq DEF FillInv, Conserved, NodePair
      <3>2. Conserved(c, t) /\ (t = s \/ Len(t.pool) = Len(s.pool) + 1)
        BY <3>1, IdealIsNumber, AdmissionConserves
      <3>3. FillBody(c, s, k + 1) = t
        BY <2>2 DEF FillBody, FillStep
      <3>4. Len(s.pool) \in Nat /\ decode_pool \in Nat /\ Len(c.pool) \in Nat
        BY <3>1, Numbers DEF NodePair
      <3> HIDE DEF t
      <3> QED BY <1>2, <2>2, <3>2, <3>3, <3>4 DEF FillInv
    <2> QED BY <2>1, <2>2
  <1>3. decode_pool \in Nat
    BY Numbers
  <1>4. FillInv(c, FillLoop!Loop(c, decode_pool, c), decode_pool)
    BY <1>1, <1>2, <1>3, FillLoop!LoopInvariant
  <1>5. Filled(c.pool, c.queue) = FillLoop!Loop(c, decode_pool, [pool |-> c.pool, queue |-> c.queue])
    BY DEF Filled, FillBody, FillLoop!Loop, FillLoop!Iterate, Iterate
  <1>6. c = [pool |-> c.pool, queue |-> c.queue]
    BY DEF NodePair
  <1> QED BY <1>4, <1>5, <1>6

-------------------------------------------------------------------------------
(* Retiring and healing.                                                   *)

WaitingUpTo(p, t, k) == {i \in 1..k : p[i].wait >= t}
RetireInv(p, s, k) ==
  /\ s = [keep |-> s.keep, holes |-> s.holes]
  /\ s.keep \in Seq(Resident) /\ s.holes \in Seq(Fitting)
  /\ Len(s.keep) + Len(s.holes) = k
  /\ \A t \in Nat : Cardinality(Waiting(s.keep, t)) <= Cardinality(WaitingUpTo(p, t, k))
RetireLoop == INSTANCE LoopTheory WITH Step <- RetireStep, Inv <- RetireInv

\* How many have waited t rounds is a number.
LEMMA WaitingIsFinite ==
    ASSUME NEW p, NEW t, NEW k \in Nat
    PROVE  /\ IsFiniteSet(WaitingUpTo(p, t, k)) /\ Cardinality(WaitingUpTo(p, t, k)) \in Nat
           /\ p \in Seq(Decoder) => /\ Waiting(p, t) = WaitingUpTo(p, t, Len(p))
                                    /\ IsFiniteSet(Waiting(p, t)) /\ Cardinality(Waiting(p, t)) \in Nat
  <1>1. \A m \in Nat : IsFiniteSet(WaitingUpTo(p, t, m)) /\ Cardinality(WaitingUpTo(p, t, m)) \in Nat
    <2> TAKE m \in Nat
    <2>1. IsFiniteSet(1..m)
      BY FS_Interval
    <2>2. WaitingUpTo(p, t, m) \in SUBSET (1..m)
      BY DEF WaitingUpTo
    <2> QED BY <2>1, <2>2, FS_Subset, FS_CardinalityType
  <1>2. p \in Seq(Decoder) => Len(p) \in Nat /\ Waiting(p, t) = WaitingUpTo(p, t, Len(p))
    BY DecodersTypes DEF Waiting, WaitingUpTo
  <1> QED BY <1>1, <1>2

\* One iteration of the retire loop of end_round keeps RetireInv.
LEMMA RetireStepKeeps ==
    ASSUME NEW p \in Seq(Resident), NEW k \in 0..(Len(p) - 1), NEW s, RetireInv(p, s, k)
    PROVE  RetireInv(p, RetireStep(p, s, k + 1), k + 1)
  <1> DEFINE q == p[k + 1]
             d == RetireStep(p, s, k + 1)
  <1>1. Len(p) \in Nat /\ k \in Nat /\ k + 1 \in 1..Len(p) /\ p \in Seq(Decoder)
    BY ResidentSeq
  <1>2. q \in Resident /\ q \in Decoder /\ q.prompt \in Fitting /\ q.wait \in Nat
    <2>1. q \in Resident
      BY <1>1
    <2> QED BY <2>1, DecoderTypes DEF Resident
  <1> HIDE DEF q
  <1>3. s.keep \in Seq(Resident) /\ s.keep \in Seq(Decoder) /\ s.holes \in Seq(Fitting)
        /\ Len(s.keep) + Len(s.holes) = k /\ Len(s.keep) \in Nat /\ Len(s.holes) \in Nat
    BY ResidentSeq DEF RetireInv
  <1>4. \A t \in Nat : WaitingUpTo(p, t, k + 1) = WaitingUpTo(p, t, k) \cup (IF q.wait >= t THEN {k + 1} ELSE {})
    BY <1>1 DEF WaitingUpTo, q
  <1>5. \A t \in Nat :
           /\ Cardinality(WaitingUpTo(p, t, k)) \in Nat
           /\ q.wait >= t =>
                Cardinality(WaitingUpTo(p, t, k + 1)) = Cardinality(WaitingUpTo(p, t, k)) + 1
           /\ ~(q.wait >= t) =>
                Cardinality(WaitingUpTo(p, t, k + 1)) = Cardinality(WaitingUpTo(p, t, k))
    <2> TAKE t \in Nat
    <2>1. /\ IsFiniteSet(WaitingUpTo(p, t, k)) /\ Cardinality(WaitingUpTo(p, t, k)) \in Nat
          /\ k + 1 \notin WaitingUpTo(p, t, k)
      <3>1. IsFiniteSet(WaitingUpTo(p, t, k)) /\ Cardinality(WaitingUpTo(p, t, k)) \in Nat
        BY <1>1, WaitingIsFinite
      <3>2. k + 1 \notin WaitingUpTo(p, t, k)
        BY <1>1 DEF WaitingUpTo
      <3> QED BY <3>1, <3>2
    <2>2. Cardinality(WaitingUpTo(p, t, k) \cup {k + 1}) = Cardinality(WaitingUpTo(p, t, k)) + 1
      BY <2>1, FS_AddElement
    <2>3. CASE q.wait >= t
      <3>1. WaitingUpTo(p, t, k + 1) = WaitingUpTo(p, t, k) \cup {k + 1}
        BY <1>4, <2>3
      <3> QED BY <2>1, <2>2, <2>3, <3>1
    <2>4. CASE ~(q.wait >= t)
      <3>1. WaitingUpTo(p, t, k + 1) = WaitingUpTo(p, t, k)
        BY <1>4, <2>4
      <3> QED BY <2>1, <2>4, <3>1
    <2> QED BY <2>3, <2>4
  <1>6. CASE Done(q)
    <2>1. d = [keep |-> s.keep, holes |-> Append(s.holes, q.prompt)]
      BY <1>6 DEF RetireStep, RetireInv, q
    <2>2. Append(s.holes, q.prompt) \in Seq(Fitting) /\ Len(Append(s.holes, q.prompt)) = Len(s.holes) + 1
      BY <1>2, <1>3
    <2>3. \A t \in Nat : Cardinality(Waiting(s.keep, t)) <= Cardinality(WaitingUpTo(p, t, k + 1))
      <3> TAKE t \in Nat
      <3>1. Cardinality(Waiting(s.keep, t)) \in Nat
        BY <1>3, WaitingIsFinite
      <3>2. Cardinality(Waiting(s.keep, t)) <= Cardinality(WaitingUpTo(p, t, k))
        BY DEF RetireInv
      <3> DEFINE m == Cardinality(WaitingUpTo(p, t, k))
                 n == Cardinality(WaitingUpTo(p, t, k + 1))
      <3>3. m \in Nat /\ (n = m + 1 \/ n = m)
        BY <1>5
      <3> HIDE DEF m, n
      <3> QED BY <3>1, <3>2, <3>3 DEF m, n
    <2> HIDE DEF d
    <2>4. RetireInv(p, d, k + 1)
      BY <1>1, <1>3, <2>1, <2>2, <2>3 DEF RetireInv
    <2> QED BY <2>4 DEF d
  <1>7. CASE ~Done(q)
    <2> DEFINE e == Append(s.keep, q)
    <2>1. d = [keep |-> e, holes |-> s.holes]
      BY <1>7 DEF RetireStep, RetireInv, q
    <2>2. e \in Seq(Resident) /\ Len(e) = Len(s.keep) + 1
      BY <1>2, <1>3
    <2>3. \A t \in Nat : Cardinality(Waiting(e, t)) <= Cardinality(WaitingUpTo(p, t, k + 1))
      <3> TAKE t \in Nat
      <3> DEFINE W == Waiting(s.keep, t)
      <3>1. IsFiniteSet(W) /\ Cardinality(W) \in Nat
        BY <1>3, WaitingIsFinite
      <3>2. Cardinality(W) <= Cardinality(WaitingUpTo(p, t, k))
        BY DEF RetireInv
      <3>3. Waiting(e, t) = W \cup (IF q.wait >= t THEN {Len(s.keep) + 1} ELSE {})
        BY <1>2, <1>3, WaitingAfterAppend
      <3>4. Len(s.keep) + 1 \notin W
        <4>1. W \subseteq 1..Len(s.keep)
          BY <1>3 DEF Waiting
        <4> QED BY <1>3, <4>1
      <3> DEFINE m == Cardinality(WaitingUpTo(p, t, k))
                 n == Cardinality(WaitingUpTo(p, t, k + 1))
      <3>7. m \in Nat /\ (q.wait >= t => n = m + 1) /\ (~(q.wait >= t) => n = m) /\ Cardinality(W) <= m
        BY <1>5, <3>2
      <3> HIDE DEF W, e, m, n
      <3>5. CASE q.wait >= t
        <4>1. Cardinality(Waiting(e, t)) = Cardinality(W) + 1
          BY <3>1, <3>3, <3>4, <3>5, FS_AddElement
        <4>2. Cardinality(Waiting(e, t)) <= n
          BY <3>1, <3>5, <3>7, <4>1
        <4> QED BY <4>2 DEF n
      <3>6. CASE ~(q.wait >= t)
        <4>1. Waiting(e, t) = W
          BY <3>3, <3>6
        <4>2. Cardinality(Waiting(e, t)) <= n
          BY <3>1, <3>6, <3>7, <4>1
        <4> QED BY <4>2 DEF n
      <3> QED BY <3>5, <3>6
    <2> HIDE DEF d, e
    <2>4. RetireInv(p, d, k + 1)
      BY <1>1, <1>3, <2>1, <2>2, <2>3 DEF RetireInv
    <2> QED BY <2>4 DEF d
  <1> QED BY <1>6, <1>7

\* A round parts the pool; nobody who stays has waited for longer.
LEMMA RetireParts ==
    ASSUME NEW p \in Seq(Resident)
    PROVE  RetireInv(p, Retired(p), Len(p))
  <1> DEFINE start == [keep |-> <<>>, holes |-> <<>>]
  <1>1. RetireInv(p, start, 0)
    <2>1. \A t \in Nat : Waiting(start.keep, t) = {} /\ WaitingUpTo(p, t, 0) = {}
      BY DEF Waiting, WaitingUpTo
    <2>2. \A t \in Nat : Cardinality(Waiting(start.keep, t)) <= Cardinality(WaitingUpTo(p, t, 0))
      <3> TAKE t \in Nat
      <3>1. Cardinality(Waiting(start.keep, t)) = 0 /\ Cardinality(WaitingUpTo(p, t, 0)) = 0
        BY <2>1, FS_EmptySet
      <3> QED BY <3>1
    <2>3. start.keep \in Seq(Resident) /\ start.holes \in Seq(Fitting) /\ Len(start.keep) + Len(start.holes) = 0
      OBVIOUS
    <2> QED BY <2>2, <2>3 DEF RetireInv
  <1> HIDE DEF start
  <1>2. \A k \in 0..(Len(p) - 1) : \A s : RetireInv(p, s, k) => RetireInv(p, RetireStep(p, s, k + 1), k + 1)
    BY RetireStepKeeps
  <1>3. RetireInv(p, RetireLoop!Loop(p, Len(p), start), Len(p))
    <2>1. Len(p) \in Nat
      OBVIOUS
    <2> QED BY <1>1, <1>2, <2>1, RetireLoop!LoopInvariant
  <1>4. Retired(p) = RetireLoop!Loop(p, Len(p), start)
    BY DEF Retired, RetireLoop!Loop, RetireLoop!Iterate, Iterate, start
  <1> QED BY <1>3, <1>4

\* c is what retiring left: the pool, the queue and the holes to heal.
HealBody(c, s, k) == HealStep(c.holes, s, k)
HealInv(c, s, k) ==
  /\ Conserved(c, s)
  /\ Len(s.pool) <= Len(c.pool) + k
  /\ Len(s.pool) = Len(c.pool) + k \/ Admissible(s.queue) = {}
HealLoop == INSTANCE LoopTheory WITH Step <- HealBody, Inv <- HealInv

\* The heal loop of end_round loses no request and stops short of the holes only when nothing fits.
LEMMA HealKeeps ==
    ASSUME NEW c, c.pool \in Seq(Resident), c.queue \in Seq(Request), c.holes \in Seq(Fitting)
    PROVE  HealInv(c, Heal(c.pool, c.queue, c.holes), Len(c.holes))
  <1> DEFINE start == [pool |-> c.pool, queue |-> c.queue]
  <1>1. HealInv(c, start, 0)
    <2>1. Len(c.pool) \in Nat
      OBVIOUS
    <2> QED BY <2>1 DEF HealInv, Conserved, NodePair
  <1>2. Len(c.holes) \in Nat /\ Len(c.pool) \in Nat
    OBVIOUS
  <1>3. ASSUME NEW k \in 0..(Len(c.holes) - 1), NEW s, HealInv(c, s, k)
        PROVE  HealInv(c, HealBody(c, s, k + 1), k + 1)
    <2> DEFINE ideal == c.holes[k + 1]
               t == AdmitNear(s, ideal)
    <2>1. ideal \in Int
      <3>1. ideal \in Fitting
        BY <1>2, SeqElements
      <3>2. Fitting \subseteq Nat
        BY Numbers DEF Fitting
      <3> HIDE DEF ideal
      <3> QED BY <3>1, <3>2
    <2>2. HealBody(c, s, k + 1) = t
      BY DEF HealBody, HealStep
    <2> HIDE DEF ideal
    <2>3. Conserved(c, t) /\ ((t = s /\ Admissible(t.queue) = {}) \/ Len(t.pool) = Len(s.pool) + 1)
      BY <1>3, <2>1, AdmissionConserves DEF HealInv
    <2>4. Admissible(s.queue) = {} => t = s
      BY DEF AdmitNear
    <2>5. Len(s.pool) \in Nat
      BY <1>3 DEF HealInv, Conserved, NodePair
    <2>6. Conserved(c, s) /\ Len(s.pool) <= Len(c.pool) + k
          /\ (Len(s.pool) = Len(c.pool) + k \/ Admissible(s.queue) = {})
      BY <1>3 DEF HealInv
    <2> HIDE DEF t
    <2>7. HealInv(c, t, k + 1)
      <3> DEFINE tp == Len(t.pool)
                 sp == Len(s.pool)
                 cp == Len(c.pool)
      <3>1. /\ sp \in Nat /\ cp \in Nat /\ k \in Nat /\ sp <= cp + k
            /\ sp = cp + k \/ Admissible(s.queue) = {}
            /\ (t = s /\ Admissible(t.queue) = {}) \/ tp = sp + 1
            /\ t = s => tp = sp
        BY <1>2, <2>3, <2>5, <2>6
      <3> HIDE DEF tp, sp, cp
      <3>2. tp <= cp + (k + 1) /\ (tp = cp + (k + 1) \/ Admissible(t.queue) = {})
        <4>1. CASE t = s
          BY <2>3, <3>1, <4>1
        <4>2. CASE t # s
          BY <2>4, <3>1, <4>2
        <4> QED BY <4>1, <4>2
      <3> QED BY <2>3, <3>2 DEF HealInv, tp, cp
    <2> QED BY <2>2, <2>7
  <1> HIDE DEF start
  <1>4. HealInv(c, HealLoop!Loop(c, Len(c.holes), start), Len(c.holes))
    BY <1>1, <1>2, <1>3, HealLoop!LoopInvariant
  <1>5. Heal(c.pool, c.queue, c.holes) = HealLoop!Loop(c, Len(c.holes), start)
    BY DEF Heal, HealBody, HealLoop!Loop, HealLoop!Iterate, Iterate, start
  <1> QED BY <1>4, <1>5

-------------------------------------------------------------------------------
(* The invariant of the node.                                              *)

NodeInv ==
  /\ pool \in Seq(Resident) /\ queue \in Seq(Request)
  /\ started \in BOOLEAN /\ arrived \in 0..MaxArrivals /\ completed \in Nat
  /\ NoRequestLost
  /\ WaitInv(pool)

\* The room WaitInv allows at a wait is a number.
LEMMA RoomIsNatural == \A w \in Nat : Room(w) \in Nat
  <1> DEFINE N == decode_pool
             c == decode_count_target
  <1>1. N \in Nat /\ c \in Nat \ {0} /\ N >= 2 * c
    BY Numbers
  <1>2. Halving \in Nat /\ 2 * Halving <= N - 2 * c + 2
    BY <1>1 DEF Halving
  <1> QED BY <1>1, <1>2 DEF Room

\* An empty node satisfies the inductive invariant.
LEMMA InitInv == Init => NodeInv
  <1> SUFFICES ASSUME Init PROVE NodeInv
    OBVIOUS
  <1>1. pool = <<>> /\ queue = <<>> /\ started = FALSE /\ arrived = 0 /\ completed = 0
    BY DEF Init
  <1>2. Len(pool) = 0 /\ Len(queue) = 0
    BY <1>1
  <1>3. WaitInv(pool)
    <2>1. \A t \in Nat : Waiting(pool, t) = {}
      BY <1>1 DEF Waiting
    <2>2. Floor \in Nat
      BY Numbers DEF Floor
    <2> SUFFICES ASSUME NEW w \in Nat PROVE Cardinality(Waiting(pool, Floor + w)) <= Room(w + 1)
      BY DEF WaitInv
    <2>3. Cardinality(Waiting(pool, Floor + w)) = 0
      BY <2>1, <2>2, FS_EmptySet
    <2>4. Room(w + 1) \in Nat
      BY RoomIsNatural
    <2> QED BY <2>3, <2>4
  <1>4. NoRequestLost
    BY <1>1, <1>2, Numbers DEF NoRequestLost
  <1>5. pool \in Seq(Resident) /\ queue \in Seq(Request)
    BY <1>1
  <1>6. arrived \in 0..MaxArrivals /\ completed \in Nat /\ started \in BOOLEAN
    <2>1. 0 \in 0..MaxArrivals
      BY Numbers
    <2>2. started \in BOOLEAN
      BY <1>1
    <2> QED BY <1>1, <2>1, <2>2
  <1> QED BY <1>3, <1>4, <1>5, <1>6 DEF NodeInv

\* A token (dec + 1, wait 0) and a wait (wait + 1) leave a resident a resident, its prompt untouched.
LEMMA TokenTypes ==
    ASSUME NEW q \in Decoder
    PROVE  /\ [q EXCEPT !.dec = @ + 1, !.wait = 0] \in Decoder
           /\ [q EXCEPT !.dec = @ + 1, !.wait = 0].prompt = q.prompt
           /\ [q EXCEPT !.wait = @ + 1] \in Decoder
           /\ [q EXCEPT !.wait = @ + 1].prompt = q.prompt
  <1>1. q.dec \in Nat /\ q.wait \in Nat
    BY DecoderTypes
  <1> DEFINE d == [q EXCEPT !.dec = @ + 1]
  <1>2. d \in Decoder /\ d.prompt = q.prompt
    BY <1>1 DEF Decoder
  <1>3. [q EXCEPT !.dec = @ + 1, !.wait = 0] = [d EXCEPT !.wait = 0]
    BY DEF Decoder
  <1>4. [q EXCEPT !.wait = @ + 1] \in Decoder /\ [q EXCEPT !.wait = @ + 1].prompt = q.prompt
    BY <1>1 DEF Decoder
  <1> HIDE DEF d
  <1>5. [d EXCEPT !.wait = 0] \in Decoder /\ [d EXCEPT !.wait = 0].prompt = q.prompt
    BY <1>2 DEF Decoder
  <1> QED BY <1>3, <1>4, <1>5

\* Advancing a pool changes neither who is in it nor any prompt.
LEMMA AdvancedTypes ==
    ASSUME NEW p \in Seq(Resident)
    PROVE  /\ Advanced(p) \in Seq(Resident) /\ Len(Advanced(p)) = Len(p)
           /\ \A i \in DOMAIN p : Advanced(p)[i].prompt = p[i].prompt
  <1> DEFINE used == Range(FirstBatch(p)) \cup Range(SecondBatch(p))
             a == Advanced(p)
  <1>1. Len(p) \in Nat /\ DOMAIN p = 1..Len(p) /\ \A i \in DOMAIN p : p[i] \in Resident
    BY SeqElements
  <1>2. ASSUME NEW i \in DOMAIN p PROVE a[i] \in Resident /\ a[i].prompt = p[i].prompt
    <2>1. p[i] \in Decoder /\ p[i].prompt \in Fitting
      BY <1>1 DEF Resident
    <2>2. p[i].dec \in Nat /\ p[i].wait \in Nat
      BY <2>1, DecoderTypes
    <2>3. a[i] = IF i \in used THEN [p[i] EXCEPT !.dec = @ + 1, !.wait = 0]
                 ELSE [p[i] EXCEPT !.wait = @ + 1]
      BY DEF Advanced
    <2> HIDE DEF used, a
    <2>4. a[i] \in Decoder /\ a[i].prompt = p[i].prompt
      <3>1. CASE i \in used
        BY <2>1, <2>3, <3>1, TokenTypes
      <3>2. CASE i \notin used
        BY <2>1, <2>3, <3>2, TokenTypes
      <3> QED BY <3>1, <3>2
    <2> QED BY <2>1, <2>4 DEF Resident
  <1>3. DOMAIN a = 1..Len(p) /\ a = [i \in 1..Len(p) |-> a[i]]
    BY <1>1 DEF Advanced
  <1> HIDE DEF a
  <1>4. a \in [1..Len(p) -> Resident]
    BY <1>1, <1>2, <1>3
  <1>5. a \in Seq(Resident) /\ Len(a) = Len(p)
    BY <1>1, <1>4
  <1> QED BY <1>1, <1>2, <1>5 DEF a

\* What NodeInv says of the sizes.
LEMMA PoolTypes ==
    ASSUME NodeInv
    PROVE  /\ pool \in Seq(Decoder) /\ Len(pool) \in Nat /\ Len(queue) \in Nat
           /\ Len(pool) <= decode_pool /\ decode_pool \in Nat /\ completed \in Nat /\ arrived \in Nat
           /\ arrived = Len(queue) + Len(pool) + completed
  BY ResidentSeq, Numbers DEF NodeInv, NoRequestLost

\* enqueue keeps the inductive invariant.
LEMMA EnqueueInv ==
    ASSUME NodeInv, NEW r \in Request, Enqueue(r)
    PROVE  NodeInv'
  <1>1. queue' \in Seq(Request) /\ Len(queue') = Len(queue) + 1
    BY DEF NodeInv, Enqueue
  <1>2. arrived' \in 0..MaxArrivals /\ arrived' = arrived + 1
    BY Numbers DEF NodeInv, Enqueue
  <1>3. pool' = pool /\ started' = started /\ completed' = completed
    BY DEF Enqueue
  <1>4. NoRequestLost'
    <2> DEFINE lq == Len(queue)
               lp == Len(pool)
               lr == Len(queue')
    <2>1. /\ lq \in Nat /\ lp \in Nat /\ completed \in Nat /\ lr = lq + 1
          /\ arrived = lq + lp + completed
      BY <1>1, PoolTypes
    <2> HIDE DEF lq, lp, lr
    <2>2. arrived' = lr + lp + completed
      BY <1>2, <2>1
    <2>3. arrived' = Len(queue') + Len(pool') + completed'
      BY <1>3, <2>2 DEF lr, lp
    <2>4. Len(pool') <= decode_pool
      BY <1>3, PoolTypes
    <2> QED BY <2>3, <2>4 DEF NoRequestLost
  <1> QED BY <1>1, <1>2, <1>3, <1>4 DEF NodeInv, WaitInv

\* Conservation keeps the bounds on waits.
LEMMA ConservedWaits ==
    ASSUME NEW c, NEW s, Conserved(c, s), WaitInv(c.pool)
    PROVE  WaitInv(s.pool)
  <1> SUFFICES ASSUME NEW w \in Nat PROVE Cardinality(Waiting(s.pool, Floor + w)) <= Room(w + 1)
    BY DEF WaitInv
  <1>1. Floor + w \in Nat \ {0}
    BY Numbers DEF Floor
  <1>2. Waiting(s.pool, Floor + w) = Waiting(c.pool, Floor + w)
    BY <1>1 DEF Conserved
  <1> QED BY <1>2 DEF WaitInv

\* warm_fill keeps the inductive invariant and only adds to the pool.
LEMMA WarmFillInv ==
    ASSUME NodeInv, WarmFill
    PROVE  NodeInv' /\ Len(pool) <= Len(pool')
  <1> DEFINE c == [pool |-> pool, queue |-> queue]
             f == Filled(pool, queue)
  <1>1. NodePair(c) /\ Len(c.pool) <= decode_pool
    BY PoolTypes DEF NodePair, NodeInv
  <1>2. FillInv(c, f, decode_pool)
    <2> HIDE DEF c
    <2>1. FillInv(c, Filled(c.pool, c.queue), decode_pool)
      BY <1>1, FillKeeps
    <2> QED BY <2>1 DEF c
  <1>3. pool' = f.pool /\ queue' = f.queue /\ started' = started /\ arrived' = arrived /\ completed' = completed
    BY DEF WarmFill
  <1> HIDE DEF f
  <1>4. pool' \in Seq(Resident) /\ queue' \in Seq(Request) /\ Len(pool') <= decode_pool /\ Len(pool) <= Len(pool')
    BY <1>2, <1>3 DEF FillInv, Conserved, NodePair
  <1>5. Len(pool') + Len(queue') = Len(pool) + Len(queue)
    BY <1>2, <1>3 DEF FillInv, Conserved
  <1>6. WaitInv(pool')
    BY <1>2, <1>3, ConservedWaits DEF FillInv, NodeInv
  <1>7. arrived' = Len(queue') + Len(pool') + completed'
    <2> DEFINE lq == Len(queue)
               lp == Len(pool)
               mq == Len(queue')
               mp == Len(pool')
    <2>1. /\ lq \in Nat /\ lp \in Nat /\ completed \in Nat /\ mp \in Nat /\ mq \in Nat
          /\ mp + mq = lp + lq /\ arrived = lq + lp + completed
      BY <1>4, <1>5, PoolTypes
    <2> HIDE DEF lq, lp, mp, mq
    <2>2. arrived = mq + mp + completed
      BY <2>1
    <2> QED BY <1>3, <2>2 DEF mq, mp
  <1> QED BY <1>3, <1>4, <1>6, <1>7 DEF NodeInv, WaitInv, NoRequestLost

\* begin_round and end_round keep the inductive invariant; a pool that shrinks left nothing
\* admissible waiting.
LEMMA AdvanceRoundInv ==
    ASSUME NodeInv, AdvanceRound
    PROVE  NodeInv' /\ Len(pool') <= Len(pool) /\ (Len(pool') < Len(pool) => Admissible(queue') = {})
  <1> DEFINE a == Advanced(pool)
             r == Retired(a)
             c == [pool |-> r.keep, queue |-> queue, holes |-> r.holes]
             h == Heal(r.keep, queue, r.holes)
  <1>1. a \in Seq(Resident) /\ a \in Seq(Decoder) /\ Len(a) = Len(pool)
    BY AdvancedTypes, ResidentSeq DEF NodeInv
  <1>2. RetireInv(a, r, Len(a))
    BY <1>1, RetireParts
  <1>3. pool' = h.pool /\ queue' = h.queue /\ completed' = completed + Len(r.holes)
        /\ started' = TRUE /\ arrived' = arrived
    BY DEF AdvanceRound
  <1>4. WaitInv(a)
    BY PoolTypes, RoundBoundsWaits DEF NodeInv
  <1> HIDE DEF a, r
  <1>5. /\ r.keep \in Seq(Resident) /\ r.keep \in Seq(Decoder) /\ r.holes \in Seq(Fitting)
        /\ Len(r.keep) + Len(r.holes) = Len(pool) /\ Len(r.keep) \in Nat /\ Len(r.holes) \in Nat
    BY <1>1, <1>2, ResidentSeq DEF RetireInv
  <1>6. HealInv(c, h, Len(r.holes))
    <2>1. c.pool \in Seq(Resident) /\ c.queue \in Seq(Request) /\ c.holes \in Seq(Fitting)
      BY <1>5 DEF NodeInv
    <2> HIDE DEF c
    <2>2. HealInv(c, Heal(c.pool, c.queue, c.holes), Len(c.holes))
      BY <2>1, HealKeeps
    <2> QED BY <2>2 DEF c
  <1> HIDE DEF h
  <1>7. WaitInv(r.keep)
    <2> SUFFICES ASSUME NEW w \in Nat PROVE Cardinality(Waiting(r.keep, Floor + w)) <= Room(w + 1)
      BY DEF WaitInv
    <2> DEFINE t == Floor + w
    <2>1. t \in Nat
      BY Numbers DEF Floor
    <2>2. Cardinality(Waiting(a, t)) <= Room(w + 1)
      BY <1>4 DEF WaitInv
    <2> HIDE DEF t
    <2>3. Cardinality(Waiting(r.keep, t)) <= Cardinality(WaitingUpTo(a, t, Len(a)))
      BY <1>2, <2>1 DEF RetireInv
    <2>4. Waiting(a, t) = WaitingUpTo(a, t, Len(a)) /\ Cardinality(Waiting(a, t)) \in Nat
      BY <1>1, <2>1, WaitingIsFinite
    <2>5. Cardinality(Waiting(r.keep, t)) \in Nat
      BY <1>5, <2>1, WaitingIsFinite
    <2>6. Room(w + 1) \in Nat
      BY RoomIsNatural
    <2>7. Cardinality(Waiting(r.keep, t)) <= Room(w + 1)
      BY <2>2, <2>3, <2>4, <2>5, <2>6
    <2> QED BY <2>7 DEF t
  <1>8. pool' \in Seq(Resident) /\ queue' \in Seq(Request) /\ WaitInv(pool')
    <2>1. Conserved(c, h) /\ c.pool = r.keep
      BY <1>6 DEF HealInv
    <2>2. WaitInv(h.pool)
      BY <1>7, <2>1, ConservedWaits
    <2>3. h.pool \in Seq(Resident) /\ h.queue \in Seq(Request)
      BY <2>1 DEF Conserved, NodePair
    <2> QED BY <1>3, <2>2, <2>3
  <1>9. /\ arrived' = Len(queue') + Len(pool') + completed' /\ Len(pool') <= decode_pool
        /\ Len(pool') <= Len(pool) /\ (Len(pool') < Len(pool) => Admissible(queue') = {})
    <2> DEFINE lq == Len(queue)
               lp == Len(pool)
               mq == Len(queue')
               mp == Len(pool')
               k == Len(r.keep)
               n == Len(r.holes)
    <2>1. /\ lq \in Nat /\ lp \in Nat /\ completed \in Nat /\ mp \in Nat /\ mq \in Nat
          /\ k \in Nat /\ n \in Nat /\ decode_pool \in Nat /\ lp <= decode_pool
          /\ arrived = lq + lp + completed /\ k + n = lp
      <3>1. mp \in Nat /\ mq \in Nat
        BY <1>8
      <3>2. k \in Nat /\ n \in Nat /\ k + n = lp
        BY <1>5
      <3> QED BY <3>1, <3>2, PoolTypes
    <2>2. /\ mp + mq = k + lq /\ mp <= k + n
          /\ mp = k + n \/ Admissible(queue') = {}
      BY <1>3, <1>6 DEF HealInv, Conserved
    <2>3. completed' = completed + n
      BY <1>3
    <2> HIDE DEF lq, lp, mp, mq, k, n
    <2>4. arrived = mq + mp + completed' /\ mp <= decode_pool
      BY <2>1, <2>2, <2>3
    <2>5. mp <= lp /\ (mp < lp => Admissible(queue') = {})
      BY <2>1, <2>2
    <2> QED BY <1>3, <2>4, <2>5 DEF mq, mp, lp
  <1>10. completed' \in Nat
    BY <1>3, <1>5, PoolTypes
  <1> QED BY <1>3, <1>8, <1>9, <1>10 DEF NodeInv, WaitInv, NoRequestLost

\* Every step keeps the inductive invariant, and shrinks the pool only when nothing that waits fits.
LEMMA StepInv == NodeInv /\ [Next]_vars => NodeInv' /\ (Len(pool') < Len(pool) => Admissible(queue') = {})
  <1> SUFFICES ASSUME NodeInv, [Next]_vars
               PROVE  NodeInv' /\ (Len(pool') < Len(pool) => Admissible(queue') = {})
    OBVIOUS
  <1>1. CASE UNCHANGED vars
    <2>1. pool' = pool /\ queue' = queue /\ started' = started /\ arrived' = arrived /\ completed' = completed
      BY <1>1 DEF vars
    <2>2. ~(Len(pool') < Len(pool))
      BY <2>1, PoolTypes
    <2> QED BY <2>1, <2>2 DEF NodeInv, WaitInv, NoRequestLost
  <1>2. CASE \E r \in Request : Enqueue(r)
    <2>1. NodeInv'
      BY <1>2, EnqueueInv
    <2>2. ~(Len(pool') < Len(pool))
      BY <1>2, PoolTypes DEF Enqueue
    <2> QED BY <2>1, <2>2
  <1>3. CASE WarmFill
    <2>1. NodeInv' /\ Len(pool) <= Len(pool')
      BY <1>3, WarmFillInv
    <2>2. Len(pool) \in Nat /\ Len(pool') \in Nat
      BY <2>1, PoolTypes DEF NodeInv
    <2> QED BY <2>1, <2>2
  <1>4. CASE AdvanceRound
    BY <1>4, AdvanceRoundInv
  <1> QED BY <1>1, <1>2, <1>3, <1>4 DEF Next

\* The inductive invariant holds in every reachable state of the node scheduler (runtime.cpp).
THEOREM NodeInvariant == Spec => []NodeInv
  <1>1. Init => NodeInv
    BY InitInv
  <1>2. NodeInv /\ [Next]_vars => NodeInv'
    BY StepInv
  <1> QED BY <1>1, <1>2, PTL DEF Spec

\* enqueue, warm_fill and the round keep the queue, the pool and the counters in their types.
THEOREM TypeCorrect == Spec => []TypeOK
  <1>1. NodeInv => TypeOK
    BY ResidentSeq DEF NodeInv, TypeOK
  <1> QED BY <1>1, NodeInvariant, PTL

\* Every request that arrived waits, decodes or has completed, and no request is in two places.
THEOREM NothingIsLost == Spec => []NoRequestLost
  <1>1. NodeInv => NoRequestLost
    BY DEF NodeInv
  <1> QED BY <1>1, NodeInvariant, PTL

\* Every pool has two disjoint micro-batches, neither with a duplicate and each as full as the
\* reference GoodBatch demands.
THEOREM RoundsAreWellFormed == Spec => []RoundIsWellFormed
  <1>1. NodeInv => RoundIsWellFormed
    <2> SUFFICES ASSUME NodeInv PROVE RoundIsWellFormed
      OBVIOUS
    <2>1. pool \in Seq(Decoder)
      BY PoolTypes
    <2>2. GoodBatch(pool, {}, FirstBatch(pool))
      BY <2>1, BatchIsGood DEF FirstBatch
    <2>3. Len(pool) >= 2 * decode_count_target =>
             GoodBatch(pool, Range(FirstBatch(pool)), SecondBatch(pool))
      BY <2>1, BatchIsGood, ServedMembers DEF SecondBatch
    <2> QED BY <2>2, <2>3 DEF RoundIsWellFormed
  <1> QED BY <1>1, NodeInvariant, PTL

\* No resident waits more than WorstOvertaking rounds beyond age_cap: the bound of WaitBounded for
\* every pool and target.
THEOREM NobodyStarves == Spec => []WaitBounded
  <1>1. NodeInv => WaitBounded
    <2> SUFFICES ASSUME NodeInv, NEW i \in DOMAIN pool
                 PROVE  pool[i].wait <= age_cap + WorstOvertaking
      BY DEF WaitBounded
    <2> DEFINE N == decode_pool
               c == decode_count_target
               K == Halving
               w == N - K - 1
    <2>1. N \in Nat /\ c \in Nat \ {0} /\ N >= 2 * c /\ age_cap \in Nat
      BY Numbers
    <2>2. K \in Nat /\ 2 * K <= N - 2 * c + 2
      BY <2>1 DEF Halving
    <2>3. WorstOvertaking = N - K - (IF age_cap = 0 THEN 1 ELSE 2)
      BY DEF WorstOvertaking, Halving
    <2>4. Room(w + 1) = IF w + 1 <= K THEN N - 2 * (w + 1)
                        ELSE IF w + 1 <= N - K THEN N - K - (w + 1) ELSE 0
      BY DEF Room
    <2>5. pool \in Seq(Decoder) /\ pool[i].wait \in Nat
      BY PoolTypes, DecodersTypes
    <2> HIDE DEF N, c, K
    <2>6. w \in Nat /\ Room(w + 1) <= 0
      BY <2>1, <2>2, <2>4
    <2>7. Floor + w \in Nat
      BY <2>6, Numbers DEF Floor
    <2>8. Waiting(pool, Floor + w) = {}
      <3> DEFINE W == Waiting(pool, Floor + w)
      <3>1. IsFiniteSet(W) /\ Cardinality(W) \in Nat
        BY <2>5, <2>7, WaitingIsFinite
      <3>2. Cardinality(W) <= Room(w + 1)
        BY <2>6 DEF NodeInv, WaitInv
      <3>3. Room(w + 1) \in Nat
        BY <2>6, RoomIsNatural
      <3> HIDE DEF W, w
      <3>4. Cardinality(W) = 0
        BY <2>6, <3>1, <3>2, <3>3
      <3> QED BY <3>1, <3>4, FS_EmptySet DEF W
    <2>9. pool[i].wait < Floor + w
      BY <2>5, <2>7, <2>8 DEF Waiting
    <2> QED BY <2>1, <2>2, <2>3, <2>5, <2>9 DEF Floor
  <1> QED BY <1>1, NodeInvariant, PTL

\* end_round leaves the pool smaller only when no request that fits its node waits.
THEOREM ShrinksWhenDry == Spec => ShrinksOnlyWhenDry
  <1>1. NodeInv /\ [Next]_vars => [Len(pool') < Len(pool) => Admissible(queue') = {}]_vars
    BY StepInv
  <1> QED BY <1>1, NodeInvariant, PTL DEF Spec, ShrinksOnlyWhenDry

-------------------------------------------------------------------------------
(* Healing keeps the mix.  Members are counted by set of values: how many  *)
(* of the first k of p lie in V.                                           *)

CountUpTo(p, V, k) == Cardinality({i \in 1..k : p[i] \in V})
OfLength(len) == {q \in Request \cup Resident : q.prompt = len}

\* Counting the members of V among the first k of a vector, one by one.
LEMMA CountStep ==
    ASSUME NEW p, NEW V, NEW k \in Nat
    PROVE  /\ CountUpTo(p, V, 0) = 0
           /\ IsFiniteSet({i \in 1..k : p[i] \in V}) /\ CountUpTo(p, V, k) \in Nat
           /\ p[k + 1] \in V => CountUpTo(p, V, k + 1) = CountUpTo(p, V, k) + 1
           /\ p[k + 1] \notin V => CountUpTo(p, V, k + 1) = CountUpTo(p, V, k)
  <1> DEFINE A(n) == {i \in 1..n : p[i] \in V}
  <1>1. A(0) = {}
    OBVIOUS
  <1>2. IsFiniteSet(A(k)) /\ Cardinality(A(k)) \in Nat
    <2>1. IsFiniteSet(1..k) /\ A(k) \in SUBSET (1..k)
      BY FS_Interval
    <2> QED BY <2>1, FS_Subset, FS_CardinalityType
  <1>3. k + 1 \notin A(k)
    OBVIOUS
  <1>4. p[k + 1] \in V => A(k + 1) = A(k) \cup {k + 1}
    OBVIOUS
  <1>5. p[k + 1] \notin V => A(k + 1) = A(k)
    OBVIOUS
  <1>6. \A n \in Nat : CountUpTo(p, V, n) = Cardinality(A(n))
    BY DEF CountUpTo
  <1> HIDE DEF A
  <1>7. Cardinality(A(k) \cup {k + 1}) = Cardinality(A(k)) + 1
    BY <1>2, <1>3, FS_AddElement
  <1>8. CountUpTo(p, V, 0) = 0
    BY <1>1, <1>6, FS_EmptySet
  <1>9. CountUpTo(p, V, k) \in Nat
    BY <1>2, <1>6
  <1>10. ASSUME p[k + 1] \in V PROVE CountUpTo(p, V, k + 1) = CountUpTo(p, V, k) + 1
    <2>1. A(k + 1) = A(k) \cup {k + 1} /\ k + 1 \in Nat
      BY <1>4, <1>10
    <2> QED BY <1>6, <1>7, <2>1
  <1>11. ASSUME p[k + 1] \notin V PROVE CountUpTo(p, V, k + 1) = CountUpTo(p, V, k)
    BY <1>5, <1>6, <1>11
  <1> QED BY <1>2, <1>8, <1>9, <1>10, <1>11 DEF A

\* A longer prefix counts no fewer.
LEMMA CountGrows ==
    ASSUME NEW p, NEW V, NEW k \in Nat, NEW n \in Nat, k <= n
    PROVE  CountUpTo(p, V, k) <= CountUpTo(p, V, n)
  <1> DEFINE A(m) == {i \in 1..m : p[i] \in V}
  <1>1. IsFiniteSet(A(n))
    BY CountStep
  <1>2. A(k) \in SUBSET A(n)
    OBVIOUS
  <1> HIDE DEF A
  <1>3. Cardinality(A(k)) <= Cardinality(A(n))
    BY <1>1, <1>2, FS_Subset
  <1> QED BY <1>3 DEF A, CountUpTo

\* The count over a prefix depends on the prefix.
LEMMA CountOfPrefix ==
    ASSUME NEW p, NEW q, NEW V, NEW k \in Nat, \A i \in 1..k : p[i] = q[i]
    PROVE  CountUpTo(p, V, k) = CountUpTo(q, V, k)
  <1>1. {i \in 1..k : p[i] \in V} = {i \in 1..k : q[i] \in V}
    OBVIOUS
  <1> QED BY <1>1 DEF CountUpTo

\* push_back changes one count by one.
LEMMA CountAppended ==
    ASSUME NEW T, NEW s \in Seq(T), NEW x \in T, NEW V
    PROVE  /\ CountUpTo(s, V, Len(s)) \in Nat
           /\ x \in V => CountUpTo(Append(s, x), V, Len(s) + 1) = CountUpTo(s, V, Len(s)) + 1
           /\ x \notin V => CountUpTo(Append(s, x), V, Len(s) + 1) = CountUpTo(s, V, Len(s))
  <1> DEFINE a == Append(s, x)
             n == Len(s)
  <1>1. n \in Nat /\ a[n + 1] = x /\ \A i \in 1..n : a[i] = s[i]
    OBVIOUS
  <1> HIDE DEF a, n
  <1>2. CountUpTo(a, V, n) = CountUpTo(s, V, n)
    BY <1>1, CountOfPrefix
  <1>3. CountUpTo(a, V, n) \in Nat /\ (x \in V => CountUpTo(a, V, n + 1) = CountUpTo(a, V, n) + 1)
        /\ (x \notin V => CountUpTo(a, V, n + 1) = CountUpTo(a, V, n))
    BY <1>1, CountStep
  <1> QED BY <1>2, <1>3 DEF a, n

\* erase changes one count by one.
LEMMA CountRemoved ==
    ASSUME NEW T, NEW s \in Seq(T), NEW i \in DOMAIN s, NEW V
    PROVE  /\ s[i] \in V => CountUpTo(RemoveAt(s, i), V, Len(s) - 1) + 1 = CountUpTo(s, V, Len(s))
           /\ s[i] \notin V => CountUpTo(RemoveAt(s, i), V, Len(s) - 1) = CountUpTo(s, V, Len(s))
  <1> DEFINE r == RemoveAt(s, i)
             n == Len(s)
             d == IF s[i] \in V THEN 1 ELSE 0
             S == {k \in Nat : i + k <= n => CountUpTo(r, V, i + k - 1) + d = CountUpTo(s, V, i + k)}
  <1>1. n \in Nat /\ i \in 1..n /\ \A j \in 1..(n - 1) : r[j] = IF j < i THEN s[j] ELSE s[j + 1]
    BY Removal
  <1> HIDE DEF r, n
  <1>2. 0 \in S
    <2>1. \A j \in 1..(i - 1) : r[j] = s[j]
      BY <1>1
    <2>2. CountUpTo(r, V, i - 1) = CountUpTo(s, V, i - 1)
      BY <1>1, <2>1, CountOfPrefix
    <2>3. CountUpTo(s, V, i - 1) + d = CountUpTo(s, V, i)
      <3> DEFINE m == i - 1
      <3>1. m \in Nat /\ m + 1 = i
        BY <1>1
      <3> HIDE DEF m
      <3>2. /\ CountUpTo(s, V, m) \in Nat
            /\ s[m + 1] \in V => CountUpTo(s, V, m + 1) = CountUpTo(s, V, m) + 1
            /\ s[m + 1] \notin V => CountUpTo(s, V, m + 1) = CountUpTo(s, V, m)
        BY <3>1, CountStep
      <3>3. CountUpTo(s, V, m) + d = CountUpTo(s, V, m + 1)
        BY <3>1, <3>2
      <3> QED BY <3>1, <3>3 DEF m
    <2>4. i + 0 - 1 = i - 1 /\ i + 0 = i
      BY <1>1
    <2> QED BY <2>2, <2>3, <2>4
  <1>3. ASSUME NEW k \in Nat, k \in S PROVE k + 1 \in S
    <2> SUFFICES ASSUME i + (k + 1) <= n
                 PROVE  CountUpTo(r, V, i + (k + 1) - 1) + d = CountUpTo(s, V, i + (k + 1))
      OBVIOUS
    <2> DEFINE m == i + k - 1
    <2>1. m \in Nat /\ m + 1 \in 1..(n - 1) /\ ~(m + 1 < i) /\ i + k = m + 1
          /\ i + (k + 1) - 1 = m + 1 /\ i + (k + 1) = (m + 1) + 1 /\ m + 1 \in Nat
      BY <1>1
    <2>2. CountUpTo(r, V, m) + d = CountUpTo(s, V, m + 1)
      BY <1>1, <1>3, <2>1
    <2>3. r[m + 1] = s[(m + 1) + 1]
      BY <1>1, <2>1
    <2> HIDE DEF m, d
    <2>4. d \in Nat
      BY DEF d
    <2>5. /\ CountUpTo(r, V, m) \in Nat
          /\ r[m + 1] \in V => CountUpTo(r, V, m + 1) = CountUpTo(r, V, m) + 1
          /\ r[m + 1] \notin V => CountUpTo(r, V, m + 1) = CountUpTo(r, V, m)
      BY <2>1, CountStep
    <2>6. /\ s[(m + 1) + 1] \in V => CountUpTo(s, V, (m + 1) + 1) = CountUpTo(s, V, m + 1) + 1
          /\ s[(m + 1) + 1] \notin V => CountUpTo(s, V, (m + 1) + 1) = CountUpTo(s, V, m + 1)
      BY <2>1, CountStep
    <2>7. CountUpTo(r, V, m + 1) + d = CountUpTo(s, V, (m + 1) + 1)
      BY <2>2, <2>3, <2>4, <2>5, <2>6
    <2> QED BY <2>1, <2>7
  <1> HIDE DEF S
  <1>4. n - i \in S
    <2>1. n - i \in Nat
      BY <1>1
    <2>2. \A k \in Nat : k \in S
      BY <1>2, <1>3, BatchLoop!Induct
    <2> QED BY <2>1, <2>2
  <1>5. CountUpTo(r, V, n - 1) + d = CountUpTo(s, V, n)
    <2>1. n - i \in Nat /\ i + (n - i) = n /\ i + (n - i) - 1 = n - 1
      BY <1>1
    <2> QED BY <1>4, <2>1 DEF S
  <1>6. CountUpTo(r, V, n - 1) \in Nat
    <2>1. n - 1 \in Nat
      BY <1>1
    <2> QED BY <2>1, CountStep
  <1> QED BY <1>5, <1>6 DEF r, n

\* Of each length, what stays and what left make up the first k of the pool.
DoneOf(len) == {q \in Resident : Done(q) /\ q.prompt = len}
RetireMix(p, s, k) ==
  /\ s.keep \in Seq(Resident) /\ s.holes \in Seq(Fitting)
  /\ \A len \in Lengths :
       /\ CountUpTo(s.keep, OfLength(len), Len(s.keep)) + CountUpTo(s.holes, {len}, Len(s.holes))
            = CountUpTo(p, OfLength(len), k)
       /\ CountUpTo(s.holes, {len}, Len(s.holes)) = CountUpTo(p, DoneOf(len), k)
RetireMixLoop == INSTANCE LoopTheory WITH Step <- RetireStep, Inv <- RetireMix

\* One iteration of the retire loop: every prompt length is either kept or noted as a hole.
LEMMA RetireStepMix ==
    ASSUME NEW p \in Seq(Resident), NEW k \in 0..(Len(p) - 1), NEW s, RetireMix(p, s, k)
    PROVE  RetireMix(p, RetireStep(p, s, k + 1), k + 1)
  <1> DEFINE q == p[k + 1]
             d == RetireStep(p, s, k + 1)
  <1>1. k \in Nat /\ q \in Resident /\ q.prompt \in Fitting
    <2>1. k \in Nat /\ k + 1 \in DOMAIN p
      OBVIOUS
    <2>2. q \in Resident
      BY <2>1, SeqElements
    <2> QED BY <2>1, <2>2 DEF Resident
  <1>2. s.keep \in Seq(Resident) /\ s.holes \in Seq(Fitting)
    BY DEF RetireMix
  <1> SUFFICES /\ d.keep \in Seq(Resident) /\ d.holes \in Seq(Fitting)
               /\ \A len \in Lengths :
                    /\ CountUpTo(d.keep, OfLength(len), Len(d.keep)) + CountUpTo(d.holes, {len}, Len(d.holes))
                         = CountUpTo(p, OfLength(len), k + 1)
                    /\ CountUpTo(d.holes, {len}, Len(d.holes)) = CountUpTo(p, DoneOf(len), k + 1)
    BY DEF RetireMix
  <1>3. CASE Done(q)
    <2>1. d.keep = s.keep /\ d.holes = Append(s.holes, q.prompt)
      BY <1>3 DEF RetireStep
    <2> HIDE DEF d
    <2>2. d.holes \in Seq(Fitting) /\ Len(d.holes) = Len(s.holes) + 1
      BY <1>1, <1>2, <2>1
    <2> HIDE DEF q
    <2>3. ASSUME NEW len \in Lengths
          PROVE  /\ CountUpTo(d.keep, OfLength(len), Len(d.keep)) + CountUpTo(d.holes, {len}, Len(d.holes))
                      = CountUpTo(p, OfLength(len), k + 1)
                 /\ CountUpTo(d.holes, {len}, Len(d.holes)) = CountUpTo(p, DoneOf(len), k + 1)
      <3> DEFINE ck == CountUpTo(s.keep, OfLength(len), Len(s.keep))
                 ch == CountUpTo(s.holes, {len}, Len(s.holes))
                 dh == CountUpTo(d.holes, {len}, Len(s.holes) + 1)
                 cp == CountUpTo(p, OfLength(len), k)
                 dp == CountUpTo(p, OfLength(len), k + 1)
                 cd == CountUpTo(p, DoneOf(len), k)
                 dd == CountUpTo(p, DoneOf(len), k + 1)
      <3>1. ck + ch = cp /\ ch = cd
        BY DEF RetireMix
      <3>2. ck \in Nat
        <4>1. Len(s.keep) \in Nat
          BY <1>2
        <4> QED BY <4>1, CountStep
      <3>3. ch \in Nat /\ (q.prompt \in {len} => dh = ch + 1) /\ (q.prompt \notin {len} => dh = ch)
        <4>1. s.holes \in Seq(Fitting) /\ q.prompt \in Fitting /\ d.holes = Append(s.holes, q.prompt)
          BY <1>1, <1>2, <2>1
        <4> QED BY <4>1, CountAppended
      <3>4. cp \in Nat /\ (q \in OfLength(len) => dp = cp + 1) /\ (q \notin OfLength(len) => dp = cp)
        BY <1>1, CountStep DEF q
      <3>5. cd \in Nat /\ (q \in DoneOf(len) => dd = cd + 1) /\ (q \notin DoneOf(len) => dd = cd)
        BY <1>1, CountStep DEF q
      <3>6. (q \in OfLength(len) <=> q.prompt = len) /\ (q \in DoneOf(len) <=> q.prompt = len)
        BY <1>1, <1>3 DEF OfLength, DoneOf, q
      <3> HIDE DEF ck, ch, dh, cp, dp, cd, dd
      <3>7. ck + dh = dp /\ dh = dd
        BY <3>1, <3>2, <3>3, <3>4, <3>5, <3>6
      <3> QED BY <2>1, <2>2, <3>7 DEF ck, dh, dp, dd
    <2> QED BY <1>2, <2>1, <2>2, <2>3
  <1>4. CASE ~Done(q)
    <2>1. d.holes = s.holes /\ d.keep = Append(s.keep, q)
      BY <1>4 DEF RetireStep
    <2> HIDE DEF d
    <2>2. d.keep \in Seq(Resident) /\ Len(d.keep) = Len(s.keep) + 1
      BY <1>1, <1>2, <2>1
    <2> HIDE DEF q
    <2>3. ASSUME NEW len \in Lengths
          PROVE  /\ CountUpTo(d.keep, OfLength(len), Len(d.keep)) + CountUpTo(d.holes, {len}, Len(d.holes))
                      = CountUpTo(p, OfLength(len), k + 1)
                 /\ CountUpTo(d.holes, {len}, Len(d.holes)) = CountUpTo(p, DoneOf(len), k + 1)
      <3> DEFINE ck == CountUpTo(s.keep, OfLength(len), Len(s.keep))
                 dk == CountUpTo(d.keep, OfLength(len), Len(s.keep) + 1)
                 ch == CountUpTo(s.holes, {len}, Len(s.holes))
                 cp == CountUpTo(p, OfLength(len), k)
                 dp == CountUpTo(p, OfLength(len), k + 1)
                 cd == CountUpTo(p, DoneOf(len), k)
                 dd == CountUpTo(p, DoneOf(len), k + 1)
      <3>1. ck + ch = cp /\ ch = cd
        BY DEF RetireMix
      <3>2. ch \in Nat
        <4>1. Len(s.holes) \in Nat
          BY <1>2
        <4> QED BY <4>1, CountStep
      <3>3. ck \in Nat /\ (q \in OfLength(len) => dk = ck + 1) /\ (q \notin OfLength(len) => dk = ck)
        BY <1>1, <1>2, <2>1, CountAppended
      <3>4. cp \in Nat /\ (q \in OfLength(len) => dp = cp + 1) /\ (q \notin OfLength(len) => dp = cp)
        BY <1>1, CountStep DEF q
      <3>5. q \notin DoneOf(len) /\ dd = cd
        <4>1. q \notin DoneOf(len)
          BY <1>4 DEF DoneOf, q
        <4> QED BY <1>1, <4>1, CountStep DEF q
      <3> HIDE DEF ck, ch, dk, cp, dp, cd, dd
      <3>7. dk + ch = dp /\ ch = dd
        BY <3>1, <3>2, <3>3, <3>4, <3>5
      <3> QED BY <2>1, <2>2, <3>7 DEF ck, ch, dk, dp, dd
    <2> QED BY <1>2, <2>1, <2>2, <2>3
  <1> QED BY <1>3, <1>4

\* After the retire loop the residents kept and the holes together are the pool, length by length.
LEMMA RetireKeepsMix ==
    ASSUME NEW p \in Seq(Resident)
    PROVE  RetireMix(p, Retired(p), Len(p))
  <1> DEFINE start == [keep |-> <<>>, holes |-> <<>>]
  <1>1. RetireMix(p, start, 0)
    <2>1. start.keep = <<>> /\ start.holes = <<>> /\ Len(start.keep) = 0 /\ Len(start.holes) = 0
          /\ start.keep \in Seq(Resident) /\ start.holes \in Seq(Fitting)
      OBVIOUS
    <2> HIDE DEF start
    <2>2. \A q, V : CountUpTo(q, V, 0) = 0
      BY CountStep
    <2> QED BY <2>1, <2>2 DEF RetireMix
  <1> HIDE DEF start
  <1>2. \A k \in 0..(Len(p) - 1) : \A s : RetireMix(p, s, k) => RetireMix(p, RetireStep(p, s, k + 1), k + 1)
    BY RetireStepMix
  <1>3. RetireMix(p, RetireMixLoop!Loop(p, Len(p), start), Len(p))
    <2>1. Len(p) \in Nat
      OBVIOUS
    <2> QED BY <1>1, <1>2, <2>1, RetireMixLoop!LoopInvariant
  <1>4. Retired(p) = RetireMixLoop!Loop(p, Len(p), start)
    BY DEF Retired, RetireMixLoop!Loop, RetireMixLoop!Iterate, Iterate, start
  <1> QED BY <1>3, <1>4

\* While the queue has a request for every hole, each hole is filled in kind.
Stocked(c) ==
  \A len \in Lengths :
     CountUpTo(c.holes, {len}, Len(c.holes)) <= CountUpTo(c.queue, OfLength(len), Len(c.queue))
HealMix(c, s, k) ==
  /\ NodePair(s)
  /\ \A len \in Lengths :
       /\ CountUpTo(s.pool, OfLength(len), Len(s.pool))
            = CountUpTo(c.pool, OfLength(len), Len(c.pool)) + CountUpTo(c.holes, {len}, k)
       /\ CountUpTo(s.queue, OfLength(len), Len(s.queue)) + CountUpTo(c.holes, {len}, k)
            = CountUpTo(c.queue, OfLength(len), Len(c.queue))
HealMixLoop == INSTANCE LoopTheory WITH Step <- HealBody, Inv <- HealMix

\* A hole whose own length still waits is filled with that length: the nearest admissible prompt is
\* at distance 0.
LEMMA HoleFindsItsLength ==
    ASSUME NEW c, Stocked(c), c.pool \in Seq(Resident), c.queue \in Seq(Request), c.holes \in Seq(Fitting),
           NEW k \in 0..(Len(c.holes) - 1), NEW s, HealMix(c, s, k)
    PROVE  LET h == c.holes[k + 1]
               t == HealBody(c, s, k + 1)
           IN  /\ h \in Fitting
               /\ \E i \in DOMAIN s.queue :
                     /\ s.queue[i].prompt = h
                     /\ t.pool = Append(s.pool, Fresh(s.queue[i]))
                     /\ t.queue = RemoveAt(s.queue, i)
                     /\ NodePair(t)
  <1> DEFINE h == c.holes[k + 1]
             t == AdmitNear(s, h)
  <1>1. k \in Nat /\ k + 1 \in Nat /\ k + 1 <= Len(c.holes) /\ Len(c.holes) \in Nat /\ h \in Fitting
    <2>1. k + 1 \in DOMAIN c.holes /\ k \in Nat /\ k + 1 <= Len(c.holes) /\ Len(c.holes) \in Nat
      OBVIOUS
    <2> QED BY <2>1, SeqElements
  <1>2. h \in Lengths /\ h \in Nat /\ h <= node_cap_room
    BY <1>1, Numbers DEF Fitting
  <1>3. HealBody(c, s, k + 1) = t
    BY DEF HealBody, HealStep
  <1>4. NodePair(s) /\ s.queue \in Seq(Request) /\ Len(s.queue) \in Nat /\ Len(c.queue) \in Nat
    BY DEF HealMix, NodePair
  <1>5. CountUpTo(s.queue, OfLength(h), Len(s.queue)) # 0
    <2> DEFINE hk == CountUpTo(c.holes, {h}, k)
               hl == CountUpTo(c.holes, {h}, k + 1)
               hn == CountUpTo(c.holes, {h}, Len(c.holes))
               qs == CountUpTo(s.queue, OfLength(h), Len(s.queue))
               qc == CountUpTo(c.queue, OfLength(h), Len(c.queue))
    <2>1. hk \in Nat /\ (c.holes[k + 1] \in {h} => hl = hk + 1)
      BY <1>1, CountStep
    <2>2. hl <= hn
      BY <1>1, CountGrows
    <2>3. hn <= qc /\ qs + hk = qc
      BY <1>2 DEF Stocked, HealMix
    <2>4. qs \in Nat /\ qc \in Nat /\ hn \in Nat
      BY <1>1, <1>4, CountStep
    <2>5. c.holes[k + 1] \in {h}
      OBVIOUS
    <2> HIDE DEF hk, hl, hn, qs, qc
    <2>6. qs # 0
      BY <2>1, <2>2, <2>3, <2>4, <2>5
    <2> QED BY <2>6 DEF qs
  <1> HIDE DEF h
  <1>6. PICK j \in DOMAIN s.queue : s.queue[j].prompt = h
    <2>1. {i \in 1..Len(s.queue) : s.queue[i] \in OfLength(h)} # {}
      BY <1>5, FS_EmptySet DEF CountUpTo
    <2> QED BY <1>4, <2>1 DEF OfLength
  <1>7. j \in Admissible(s.queue)
    BY <1>2, <1>6 DEF Admissible
  <1>8. PICK i \in DOMAIN s.queue :
           /\ Abs(s.queue[i].prompt - h) <= Abs(s.queue[j].prompt - h)
           /\ t.pool = Append(s.pool, Fresh(s.queue[i]))
           /\ t.queue = RemoveAt(s.queue, i)
           /\ NodePair(t)
    <2>1. h \in Int /\ Admissible(s.queue) # {}
      BY <1>2, <1>7
    <2> HIDE DEF t
    <2>2. PICK i \in DOMAIN s.queue :
                /\ \A m \in Admissible(s.queue) :
                      Abs(s.queue[i].prompt - h) <= Abs(s.queue[m].prompt - h)
                /\ t.pool = Append(s.pool, Fresh(s.queue[i]))
                /\ t.queue = RemoveAt(s.queue, i)
                /\ NodePair(t)
      BY <1>4, <2>1, AdmitNearMoves DEF t
    <2> QED BY <1>7, <2>2
  <1>9. s.queue[i].prompt = h
    <2>1. s.queue[i].prompt \in Nat
      <3>1. s.queue[i] \in Request
        BY <1>4, SeqElements
      <3> QED BY <3>1, RequestTypes
    <2> QED BY <1>2, <1>6, <1>8, <2>1 DEF Abs
  <1> QED BY <1>1, <1>3, <1>8, <1>9 DEF h

\* One iteration of the heal loop keeps HealMix: one hole, one request, of one length.
LEMMA HealStepMix ==
    ASSUME NEW c, Stocked(c), c.pool \in Seq(Resident), c.queue \in Seq(Request), c.holes \in Seq(Fitting),
           NEW k \in 0..(Len(c.holes) - 1), NEW s, HealMix(c, s, k)
    PROVE  HealMix(c, HealBody(c, s, k + 1), k + 1)
  <1> DEFINE h == c.holes[k + 1]
             t == HealBody(c, s, k + 1)
  <1>1. k \in Nat
    OBVIOUS
  <1>2. /\ h \in Fitting
        /\ \E i \in DOMAIN s.queue :
               /\ s.queue[i].prompt = h
               /\ t.pool = Append(s.pool, Fresh(s.queue[i]))
               /\ t.queue = RemoveAt(s.queue, i)
               /\ NodePair(t)
    BY HoleFindsItsLength
  <1> HIDE DEF t
  <1>3. PICK i \in DOMAIN s.queue :
               /\ s.queue[i].prompt = h
               /\ t.pool = Append(s.pool, Fresh(s.queue[i]))
               /\ t.queue = RemoveAt(s.queue, i)
               /\ NodePair(t)
    BY <1>2
  <1> DEFINE r == s.queue[i]
             f == Fresh(r)
  <1>4. s.pool \in Seq(Resident) /\ s.queue \in Seq(Request) /\ Len(s.pool) \in Nat /\ Len(s.queue) \in Nat
    BY DEF HealMix, NodePair
  <1>5. r \in Request /\ f \in Resident /\ f.prompt = h /\ r.prompt = h
    <2>1. r \in Request
      BY <1>4, SeqElements
    <2> QED BY <1>2, <1>3, <2>1, FreshTypes
  <1> HIDE DEF f
  <1>6. Len(t.pool) = Len(s.pool) + 1 /\ Len(t.queue) = Len(s.queue) - 1
    <2>1. Len(Append(s.pool, f)) = Len(s.pool) + 1
      BY <1>4, <1>5
    <2>2. Len(RemoveAt(s.queue, i)) = Len(s.queue) - 1
      BY <1>4, Removal
    <2> QED BY <1>3, <2>1, <2>2 DEF f
  <1>7. ASSUME NEW len \in Lengths
        PROVE  /\ CountUpTo(t.pool, OfLength(len), Len(t.pool))
                    = CountUpTo(c.pool, OfLength(len), Len(c.pool)) + CountUpTo(c.holes, {len}, k + 1)
               /\ CountUpTo(t.queue, OfLength(len), Len(t.queue)) + CountUpTo(c.holes, {len}, k + 1)
                    = CountUpTo(c.queue, OfLength(len), Len(c.queue))
    <2> DEFINE V == OfLength(len)
               sp == CountUpTo(s.pool, V, Len(s.pool))
               tp == CountUpTo(t.pool, V, Len(s.pool) + 1)
               cp == CountUpTo(c.pool, V, Len(c.pool))
               sq == CountUpTo(s.queue, V, Len(s.queue))
               tq == CountUpTo(t.queue, V, Len(s.queue) - 1)
               cq == CountUpTo(c.queue, V, Len(c.queue))
               hk == CountUpTo(c.holes, {len}, k)
               hl == CountUpTo(c.holes, {len}, k + 1)
    <2>1. sp = cp + hk /\ sq + hk = cq
      BY DEF HealMix
    <2>2. hk \in Nat /\ (h = len => hl = hk + 1) /\ (h # len => hl = hk)
      BY <1>1, CountStep
    <2>3. (h = len => tp = sp + 1) /\ (h # len => tp = sp)
      <3>1. (f \in V => tp = sp + 1) /\ (f \notin V => tp = sp)
        <4>1. t.pool = Append(s.pool, f)
          BY <1>3 DEF f
        <4>2. s.pool \in Seq(Resident) /\ f \in Resident
          BY <1>4, <1>5
        <4> HIDE DEF f, V
        <4> QED BY <4>1, <4>2, CountAppended
      <3> QED BY <1>5, <3>1 DEF OfLength
    <2>4. (h = len => tq + 1 = sq) /\ (h # len => tq = sq)
      <3>1. (r \in V => tq + 1 = sq) /\ (r \notin V => tq = sq)
        BY <1>3, <1>4, CountRemoved
      <3> QED BY <1>5, <3>1 DEF OfLength
    <2>5. cp \in Nat /\ sq \in Nat /\ tq \in Nat
      <3>1. Len(c.pool) \in Nat
        OBVIOUS
      <3>2. Len(s.queue) - 1 \in Nat
        BY <1>4
      <3> QED BY <1>4, <3>1, <3>2, CountStep
    <2> HIDE DEF sp, tp, cp, sq, tq, cq, hk, hl, V, h
    <2>6. tp = cp + hl /\ tq + hl = cq
      <3>1. CASE h = len
        <4>1. hl = hk + 1 /\ tp = sp + 1 /\ tq + 1 = sq /\ hk \in Nat
          BY <2>2, <2>3, <2>4, <3>1
        <4> QED BY <2>1, <2>5, <4>1
      <3>2. CASE h # len
        <4>1. hl = hk /\ tp = sp /\ tq = sq /\ hk \in Nat
          BY <2>2, <2>3, <2>4, <3>2
        <4> QED BY <2>1, <2>5, <4>1
      <3> QED BY <3>1, <3>2
    <2> QED BY <1>6, <2>6 DEF tp, cp, tq, cq, hl, V
  <1>8. HealMix(c, t, k + 1)
    BY <1>3, <1>7 DEF HealMix
  <1> QED BY <1>8 DEF t

\* When every length that retires also waits, the heal loop puts back exactly what retired.
LEMMA HealKeepsMix ==
    ASSUME NEW c, Stocked(c), c.pool \in Seq(Resident), c.queue \in Seq(Request), c.holes \in Seq(Fitting)
    PROVE  HealMix(c, Heal(c.pool, c.queue, c.holes), Len(c.holes))
  <1> DEFINE start == [pool |-> c.pool, queue |-> c.queue]
  <1>1. HealMix(c, start, 0)
    <2>1. \A q, V : CountUpTo(q, V, 0) = 0
      BY CountStep
    <2>2. Len(c.pool) \in Nat /\ Len(c.queue) \in Nat
      OBVIOUS
    <2>3. \A V : CountUpTo(c.pool, V, Len(c.pool)) \in Nat /\ CountUpTo(c.queue, V, Len(c.queue)) \in Nat
      BY <2>2, CountStep
    <2> QED BY <2>1, <2>3 DEF HealMix, NodePair
  <1>2. Len(c.holes) \in Nat
    OBVIOUS
  <1>3. \A k \in 0..(Len(c.holes) - 1) : \A s : HealMix(c, s, k) => HealMix(c, HealBody(c, s, k + 1), k + 1)
    BY HealStepMix
  <1> HIDE DEF start
  <1>4. HealMix(c, HealMixLoop!Loop(c, Len(c.holes), start), Len(c.holes))
    BY <1>1, <1>2, <1>3, HealMixLoop!LoopInvariant
  <1>5. Heal(c.pool, c.queue, c.holes) = HealMixLoop!Loop(c, Len(c.holes), start)
    BY DEF Heal, HealBody, HealMixLoop!Loop, HealMixLoop!Iterate, Iterate, start
  <1> QED BY <1>4, <1>5

\* Retiring and healing together keep the number of residents of every length.
LEMMA RoundKeepsMix ==
    ASSUME NodeInv, AdvanceRound, \A len \in Lengths : HoleCount(len) <= CountOf(queue, len)
    PROVE  \A len \in Lengths : CountOf(pool', len) = CountOf(pool, len)
  <1> DEFINE a == Advanced(pool)
             r == Retired(a)
             c == [pool |-> r.keep, queue |-> queue, holes |-> r.holes]
             h == Heal(r.keep, queue, r.holes)
             n == Len(pool)
  <1>1. /\ pool \in Seq(Resident) /\ queue \in Seq(Request) /\ n \in Nat /\ DOMAIN pool = 1..n
        /\ a \in Seq(Resident) /\ Len(a) = n /\ \A i \in 1..n : a[i].prompt = pool[i].prompt
    BY AdvancedTypes, SeqElements DEF NodeInv
  <1>2. RetireMix(a, r, n)
    BY <1>1, RetireKeepsMix
  <1>3. pool' = h.pool
    BY DEF AdvanceRound
  <1>4. \A len \in Lengths : HoleCount(len) = CountUpTo(a, DoneOf(len), n)
    <2> TAKE len \in Lengths
    <2>1. {i \in DOMAIN pool : Done(a[i]) /\ pool[i].prompt = len} = {i \in 1..n : a[i] \in DoneOf(len)}
      <3>1. \A i \in 1..n : a[i] \in Resident
        BY <1>1, SeqElements
      <3> HIDE DEF a
      <3> QED BY <1>1, <3>1 DEF DoneOf
    <2> QED BY <2>1 DEF HoleCount, CountUpTo
  <1> HIDE DEF a, r, h, n
  <1>5. r.keep \in Seq(Resident) /\ r.holes \in Seq(Fitting)
    BY <1>2 DEF RetireMix
  <1>6. \A q, len : q \in Seq(Request) \/ q \in Seq(Resident) => CountOf(q, len) = CountUpTo(q, OfLength(len), Len(q))
    <2> SUFFICES ASSUME NEW q, NEW len, q \in Seq(Request) \/ q \in Seq(Resident)
                 PROVE  CountOf(q, len) = CountUpTo(q, OfLength(len), Len(q))
      OBVIOUS
    <2>1. DOMAIN q = 1..Len(q) /\ \A i \in 1..Len(q) : q[i] \in Request \cup Resident
      BY SeqElements
    <2>2. {i \in DOMAIN q : q[i].prompt = len} = {i \in 1..Len(q) : q[i] \in OfLength(len)}
      BY <2>1 DEF OfLength
    <2> QED BY <2>2 DEF CountOf, CountUpTo
  <1>7. Stocked(c)
    BY <1>1, <1>2, <1>4, <1>6 DEF Stocked, RetireMix
  <1>8. HealMix(c, h, Len(r.holes))
    <2>1. c.pool \in Seq(Resident) /\ c.queue \in Seq(Request) /\ c.holes \in Seq(Fitting)
      BY <1>1, <1>5
    <2> HIDE DEF c
    <2>2. HealMix(c, Heal(c.pool, c.queue, c.holes), Len(c.holes))
      BY <1>7, <2>1, HealKeepsMix
    <2> QED BY <2>2 DEF c, h
  <1>9. h.pool \in Seq(Resident)
    BY <1>8 DEF HealMix, NodePair
  <1> SUFFICES ASSUME NEW len \in Lengths PROVE CountOf(pool', len) = CountOf(pool, len)
    OBVIOUS
  <1>10. CountOf(pool', len) = CountUpTo(r.keep, OfLength(len), Len(r.keep)) + CountUpTo(r.holes, {len}, Len(r.holes))
    BY <1>3, <1>6, <1>8, <1>9 DEF HealMix
  <1>11. CountOf(pool', len) = CountUpTo(a, OfLength(len), n)
    BY <1>2, <1>10 DEF RetireMix
  <1>12. {i \in 1..n : a[i] \in OfLength(len)} = {i \in DOMAIN pool : pool[i].prompt = len}
    <2>1. \A i \in 1..n : a[i] \in Resident
      BY <1>1, SeqElements
    <2> QED BY <1>1, <2>1 DEF OfLength
  <1> QED BY <1>11, <1>12 DEF CountUpTo, CountOf

\* Whenever each retired length also waits, the round leaves the prompt lengths of the pool as they
\* were (heal_batched).
THEOREM MixIsKept == Spec => HealingKeepsTheMix
  <1> DEFINE Same == completed' # completed /\ (\A len \in Lengths : HoleCount(len) <= CountOf(queue, len))
                       => \A len \in Lengths : CountOf(pool', len) = CountOf(pool, len)
  <1>1. NodeInv /\ [Next]_vars => [Same]_vars
    <2> SUFFICES ASSUME NodeInv, Next, completed' # completed,
                        \A len \in Lengths : HoleCount(len) <= CountOf(queue, len)
                 PROVE  \A len \in Lengths : CountOf(pool', len) = CountOf(pool, len)
      OBVIOUS
    <2>1. AdvanceRound
      BY DEF Next, Enqueue, WarmFill
    <2> QED BY <2>1, RoundKeepsMix
  <1> QED BY <1>1, NodeInvariant, PTL DEF Spec, HealingKeepsTheMix

-------------------------------------------------------------------------------
(* Warm filling centres the pool.                                          *)

\* The live tokens of a pool, member by member.
LEMMA LiveStep ==
    \A p : /\ LiveSum(p) = LiveLoop!Loop(p, Len(p), 0) /\ LiveLoop!Loop(p, 0, 0) = 0
           /\ \A n \in Nat : LiveLoop!Loop(p, n + 1, 0) = LiveLoop!Loop(p, n, 0) + LiveKv(p[n + 1])
  <1>1. \A p : LiveSum(p) = LiveLoop!Loop(p, Len(p), 0)
    BY DEF LiveSum, LiveLoop!Loop, LiveLoop!Iterate, Iterate
  <1>2. \A p : /\ LiveLoop!Loop(p, 0, 0) = 0
               /\ \A n \in Nat : LiveLoop!Loop(p, n + 1, 0) = AddLive(p, LiveLoop!Loop(p, n, 0), n + 1)
    BY LiveLoop!Unfold
  <1> QED BY <1>1, <1>2 DEF AddLive

\* They are a number, to which one more member adds its own.
LEMMA LiveSumAppended ==
    ASSUME NEW p \in Seq(Decoder), NEW q \in Decoder
    PROVE  /\ LiveSum(p) \in Nat /\ LiveKv(q) \in Nat
           /\ LiveSum(Append(p, q)) = LiveSum(p) + LiveKv(q)
  <1> DEFINE a == Append(p, q)
             m == Len(p)
             S == {n \in Nat : n <= m => /\ LiveLoop!Loop(p, n, 0) \in Nat
                                         /\ LiveLoop!Loop(a, n, 0) = LiveLoop!Loop(p, n, 0)}
  <1>1. /\ m \in Nat /\ Len(a) = m + 1 /\ a[m + 1] = q
        /\ \A i \in 1..m : a[i] = p[i] /\ p[i] \in Decoder
    OBVIOUS
  <1> HIDE DEF a, m
  <1>2. 0 \in S
    BY LiveStep
  <1>3. ASSUME NEW n \in Nat, n \in S PROVE n + 1 \in S
    <2> SUFFICES ASSUME n + 1 <= m
                 PROVE  /\ LiveLoop!Loop(p, n + 1, 0) \in Nat
                        /\ LiveLoop!Loop(a, n + 1, 0) = LiveLoop!Loop(p, n + 1, 0)
      OBVIOUS
    <2>1. n + 1 \in 1..m /\ n <= m
      BY <1>1
    <2>2. LiveLoop!Loop(p, n, 0) \in Nat /\ LiveLoop!Loop(a, n, 0) = LiveLoop!Loop(p, n, 0)
      BY <1>3, <2>1
    <2>3. a[n + 1] = p[n + 1] /\ LiveKv(p[n + 1]) \in Nat
      BY <1>1, <2>1, DecoderTypes
    <2>4. /\ LiveLoop!Loop(p, n + 1, 0) = LiveLoop!Loop(p, n, 0) + LiveKv(p[n + 1])
          /\ LiveLoop!Loop(a, n + 1, 0) = LiveLoop!Loop(a, n, 0) + LiveKv(a[n + 1])
      BY LiveStep
    <2> DEFINE kv == LiveKv(p[n + 1])
               sum == LiveLoop!Loop(p, n, 0)
    <2>5. sum \in Nat /\ kv \in Nat /\ LiveLoop!Loop(p, n + 1, 0) = sum + kv
          /\ LiveLoop!Loop(a, n + 1, 0) = sum + kv
      BY <2>2, <2>3, <2>4
    <2> HIDE DEF kv, sum
    <2>6. sum + kv \in Nat
      BY <2>5
    <2> QED BY <2>5, <2>6
  <1> HIDE DEF S
  <1>4. m \in S
    BY <1>1, <1>2, <1>3, BatchLoop!Induct
  <1>5. LiveLoop!Loop(p, m, 0) \in Nat /\ LiveLoop!Loop(a, m, 0) = LiveLoop!Loop(p, m, 0)
    BY <1>1, <1>4 DEF S
  <1>6. LiveSum(a) = LiveLoop!Loop(a, m, 0) + LiveKv(q)
    BY <1>1, LiveStep
  <1>7. LiveSum(p) = LiveLoop!Loop(p, m, 0)
    BY LiveStep DEF m
  <1> QED BY <1>5, <1>6, <1>7, DecoderTypes DEF a

\* No gap between neighbouring lengths is larger.
LargestGap(gap) == gap \in Nat /\ \A g \in Gaps : g <= gap

\* Between the shortest and the longest length every number has a neighbour within
\* half a gap.
LEMMA NeighbourExists ==
    ASSUME NEW lo \in Lengths, NEW hi \in Lengths, NEW ideal \in Int, lo <= ideal, ideal <= hi,
           NEW gap, LargestGap(gap)
    PROVE  \E len \in Lengths : 2 * Abs(len - ideal) <= gap
  <1> DEFINE Below == {len \in Lengths : len <= ideal}
             Above == {len \in Lengths : ideal <= len}
             down == [len \in Below |-> -len]
             up == [len \in Above |-> len]
  <1>1. lo \in Nat /\ hi \in Nat /\ Lengths \subseteq Nat
    BY Numbers
  <1>2. PICK a \in Below : \A len \in Below : len <= a
    <2> DEFINE S == {n \in Nat : (\E len \in Below : len >= ideal - n) =>
                                   \E x \in Below : \A len \in Below : len <= x}
    <2>1. 0 \in S
      BY <1>1
    <2>2. ASSUME NEW n \in Nat, n \in S PROVE n + 1 \in S
      <3> SUFFICES ASSUME NEW x \in Below, x >= ideal - (n + 1)
                   PROVE  \E y \in Below : \A len \in Below : len <= y
        OBVIOUS
      <3>1. CASE \E len \in Below : len >= ideal - n
        BY <2>2, <3>1
      <3>2. CASE \A len \in Below : ~(len >= ideal - n)
        <4>1. \A len \in Below : len <= x
          BY <1>1, <3>2
        <4> QED BY <4>1
      <3> QED BY <3>1, <3>2
    <2> HIDE DEF S
    <2>3. ideal - lo \in S
      <3>1. ideal - lo \in Nat
        BY <1>1
      <3>2. \A n \in Nat : n \in S
        BY <2>1, <2>2, BatchLoop!Induct
      <3> QED BY <3>1, <3>2
    <2>4. lo \in Below /\ lo >= ideal - (ideal - lo)
      BY <1>1
    <2> QED BY <2>3, <2>4 DEF S
  <1>3. PICK b \in Above : \A len \in Above : b <= len
    <2> DEFINE S == {n \in Nat : (\E len \in Above : len <= ideal + n) =>
                                   \E x \in Above : \A len \in Above : x <= len}
    <2>1. 0 \in S
      BY <1>1
    <2>2. ASSUME NEW n \in Nat, n \in S PROVE n + 1 \in S
      <3> SUFFICES ASSUME NEW x \in Above, x <= ideal + (n + 1)
                   PROVE  \E y \in Above : \A len \in Above : y <= len
        OBVIOUS
      <3>1. CASE \E len \in Above : len <= ideal + n
        BY <2>2, <3>1
      <3>2. CASE \A len \in Above : ~(len <= ideal + n)
        <4>1. \A len \in Above : x <= len
          BY <1>1, <3>2
        <4> QED BY <4>1
      <3> QED BY <3>1, <3>2
    <2> HIDE DEF S
    <2>3. hi - ideal \in S
      <3>1. hi - ideal \in Nat
        BY <1>1
      <3>2. \A n \in Nat : n \in S
        BY <2>1, <2>2, BatchLoop!Induct
      <3> QED BY <3>1, <3>2
    <2>4. hi \in Above /\ hi <= ideal + (hi - ideal)
      BY <1>1
    <2> QED BY <2>3, <2>4 DEF S
  <1>4. /\ a \in Lengths /\ b \in Lengths /\ a \in Nat /\ b \in Nat /\ a <= ideal /\ ideal <= b
        /\ \A len \in Lengths : len <= a \/ len >= b
    BY <1>1, <1>2, <1>3
  <1>5. b - a \in Gaps
    <2> DEFINE pair == <<a, b>>
    <2>1. pair \in Lengths \X Lengths /\ pair[1] = a /\ pair[2] = b /\ a <= b
      BY <1>4
    <2>2. pair \in {x \in Lengths \X Lengths :
                      x[1] <= x[2] /\ \A len \in Lengths : len <= x[1] \/ len >= x[2]}
      BY <1>4, <2>1
    <2> QED BY <2>1, <2>2 DEF Gaps
  <1>6. b - a <= gap /\ gap \in Nat
    BY <1>5 DEF LargestGap
  <1>7. CASE ideal - a <= b - ideal
    <2>1. 2 * Abs(a - ideal) <= gap
      BY <1>4, <1>6, <1>7 DEF Abs
    <2> QED BY <1>4, <2>1
  <1>8. CASE ~(ideal - a <= b - ideal)
    <2>1. 2 * Abs(b - ideal) <= gap
      BY <1>4, <1>6, <1>8 DEF Abs
    <2> QED BY <1>4, <2>1
  <1> QED BY <1>7, <1>8

\* With e tokens too many so far, the length nearest to the ideal leaves the sum
\* within half a gap again: outside the lengths the ideal is met by the shortest or
\* the longest, which bring the sum back.
LEMMA NearestCentres ==
    ASSUME LengthsSpanBalance, NEW gap, LargestGap(gap), NEW e \in Int, 2 * Abs(e) <= gap,
           NEW ideal, ideal = IF ctx_balance - e < MinIdeal THEN MinIdeal ELSE ctx_balance - e,
           NEW x \in Lengths, \A len \in Lengths : Abs(x - ideal) <= Abs(len - ideal)
    PROVE  2 * Abs(e + x - ctx_balance) <= gap
  <1> DEFINE raw == ctx_balance - e
  <1>1. PICK lo \in Lengths, hi \in Lengths :
            /\ \A len \in Lengths : lo <= len /\ len <= hi
            /\ MinIdeal <= lo /\ lo <= ctx_balance /\ ctx_balance <= hi
    BY DEF LengthsSpanBalance
  <1>2. /\ ctx_balance \in Nat /\ MinIdeal \in Nat /\ lo \in Nat /\ hi \in Nat /\ x \in Nat
        /\ lo <= x /\ x <= hi /\ gap \in Nat /\ raw \in Int /\ Lengths \subseteq Nat
        /\ e + x - ctx_balance = x - raw
    BY <1>1, Numbers DEF LargestGap
  <1>3. ideal = IF raw < MinIdeal THEN MinIdeal ELSE raw
    OBVIOUS
  <1>4. CASE lo <= raw /\ raw <= hi
    <2>1. ideal = raw
      BY <1>1, <1>2, <1>3, <1>4
    <2> HIDE DEF raw
    <2>2. PICK len \in Lengths : 2 * Abs(len - raw) <= gap
      BY <1>2, <1>4, NeighbourExists
    <2>3. Abs(x - raw) <= Abs(len - raw) /\ len \in Nat
      BY <1>2, <2>1
    <2> QED BY <1>2, <2>2, <2>3 DEF Abs
  <1>5. CASE raw > hi
    <2>1. ideal = raw
      BY <1>1, <1>2, <1>3, <1>5
    <2>2. Abs(x - raw) <= Abs(hi - raw)
      BY <2>1
    <2> QED BY <1>1, <1>2, <1>5, <2>2 DEF Abs
  <1>6. CASE raw < lo
    <2>1. ideal \in Int /\ ideal <= lo /\ raw <= ideal
      BY <1>1, <1>2, <1>3, <1>6
    <2>2. Abs(x - ideal) <= Abs(lo - ideal)
      OBVIOUS
    <2>3. x = lo
      BY <1>2, <2>1, <2>2 DEF Abs
    <2> QED BY <1>1, <1>2, <1>6, <2>3 DEF Abs
  <1> QED BY <1>2, <1>4, <1>5, <1>6

\* The pool's sum is within half of gap of its balance.
Centred(p, gap) == 2 * Abs(LiveSum(p) - ctx_balance * Len(p)) <= gap

\* Every length waits.
OnOffer(q) == \A len \in Lengths : \E i \in DOMAIN q : q[i].prompt = len

\* As long as every length still waits, the pool filled so far is centred.
CentreInv(c, s, k) == NodePair(s) /\ (OnOffer(s.queue) => Centred(s.pool, c))
CentreLoop == INSTANCE LoopTheory WITH Step <- FillBody, Inv <- CentreInv

LEMMA CentreStepKeeps ==
    ASSUME LengthsSpanBalance, NEW gap, LargestGap(gap), NEW k, NEW s, CentreInv(gap, s, k)
    PROVE  CentreInv(gap, FillBody(gap, s, k + 1), k + 1)
  <1> DEFINE p == s.pool
             q == s.queue
             n == Len(p)
             ideal == CenteringIdeal(p)
             t == AdmitNear(s, ideal)
  <1>1. /\ NodePair(s) /\ p \in Seq(Decoder) /\ p \in Seq(Resident) /\ q \in Seq(Request)
        /\ ideal \in Int
    BY ResidentSeq, IdealIsNumber DEF CentreInv, NodePair
  <1>2. FillBody(gap, s, k + 1) = s \/ FillBody(gap, s, k + 1) = t
    BY DEF FillBody, FillStep
  <1>3. CentreInv(gap, s, k + 1)
    BY DEF CentreInv
  <1>4. CASE t = s
    BY <1>2, <1>3, <1>4
  <1>5. CASE \E i \in DOMAIN q :
                /\ q[i].prompt \in Fitting
                /\ \A j \in Admissible(q) : Abs(q[i].prompt - ideal) <= Abs(q[j].prompt - ideal)
                /\ t.pool = Append(p, Fresh(q[i]))
                /\ t.queue = RemoveAt(q, i)
                /\ NodePair(t)
    <2> HIDE DEF t, ideal
    <2>1. PICK i \in DOMAIN q :
                /\ q[i].prompt \in Fitting
                /\ \A j \in Admissible(q) : Abs(q[i].prompt - ideal) <= Abs(q[j].prompt - ideal)
                /\ t.pool = Append(p, Fresh(q[i]))
                /\ t.queue = RemoveAt(q, i)
                /\ NodePair(t)
      BY <1>5
    <2> SUFFICES ASSUME OnOffer(t.queue) PROVE Centred(t.pool, gap)
      BY <1>2, <1>3, <2>1 DEF CentreInv
    <2>2. OnOffer(q)
      <3> SUFFICES ASSUME NEW len \in Lengths PROVE \E j \in DOMAIN q : q[j].prompt = len
        BY DEF OnOffer
      <3> DEFINE r == RemoveAt(q, i)
                 m == Len(q)
      <3>1. /\ m \in Nat /\ DOMAIN q = 1..m /\ r \in Seq(Request) /\ Len(r) = m - 1
            /\ \A j \in 1..(m - 1) : r[j] = IF j < i THEN q[j] ELSE q[j + 1]
        BY <1>1, Removal
      <3>2. PICK j \in DOMAIN r : r[j].prompt = len
        BY <2>1 DEF OnOffer
      <3> HIDE DEF r, m
      <3>3. j \in 1..(m - 1)
        BY <3>1
      <3>4. j \in DOMAIN q /\ j + 1 \in DOMAIN q
        BY <3>1, <3>3
      <3> QED BY <3>1, <3>2, <3>3, <3>4
    <2> DEFINE x == q[i].prompt
               f == Fresh(q[i])
    <2>3. x \in Lengths /\ x \in Nat /\ f \in Decoder /\ LiveKv(f) = x
      <3>1. q[i] \in Request
        BY <1>1, SeqElements
      <3>2. f \in Resident /\ f \in Decoder
        BY <2>1, <3>1, FreshTypes DEF Resident
      <3>3. x \in Nat /\ x \in Lengths
        BY <3>1, RequestTypes
      <3>4. LiveKv(f) = x + 0
        BY DEF Fresh, LiveKv
      <3> QED BY <3>2, <3>3, <3>4
    <2>4. \A len \in Lengths : Abs(x - ideal) <= Abs(len - ideal)
      <3> SUFFICES ASSUME NEW len \in Lengths PROVE Abs(x - ideal) <= Abs(len - ideal)
        OBVIOUS
      <3>1. PICK j \in DOMAIN q : q[j].prompt = len
        BY <2>2 DEF OnOffer
      <3>2. len <= node_cap_room
        <4>1. PICK hi \in Lengths : len <= hi /\ hi <= node_cap_room
          BY DEF LengthsSpanBalance
        <4>2. len \in Nat /\ hi \in Nat /\ node_cap_room \in Nat
          <5>1. decode_pool * ctx_balance \in Nat
            BY Numbers
          <5> DEFINE room == decode_pool * ctx_balance
          <5> HIDE DEF room
          <5>2. room * 4 \in Nat
            BY <5>1 DEF room
          <5> QED BY <5>2, Numbers DEF node_cap_room, room
        <4> QED BY <4>1, <4>2
      <3>3. j \in Admissible(q)
        BY <3>1, <3>2 DEF Admissible
      <3> QED BY <2>1, <3>1, <3>3
    <2> DEFINE e == LiveSum(p) - ctx_balance * n
    <2>5. n \in Nat /\ LiveSum(p) \in Nat /\ ctx_balance \in Nat /\ MinIdeal \in Nat /\ ctx_balance * n \in Nat
      <3>1. n \in Nat /\ LiveSum(p) \in Nat
        BY <1>1, <2>3, LiveSumAppended
      <3> QED BY <3>1, Numbers
    <2>6. e \in Int /\ 2 * Abs(e) <= gap
      BY <2>2, <2>5 DEF CentreInv, Centred
    <2>7. LiveSum(t.pool) = LiveSum(p) + x /\ Len(t.pool) = n + 1
      <3>1. LiveSum(Append(p, f)) = LiveSum(p) + LiveKv(f)
        BY <1>1, <2>3, LiveSumAppended
      <3>2. Len(Append(p, f)) = n + 1
        BY <1>1
      <3> QED BY <2>1, <2>3, <3>1, <3>2
    <2>8. ctx_balance * (n + 1) = ctx_balance * n + ctx_balance
      BY <2>5
    <2> HIDE DEF x, f
    <2>9. ideal = IF ctx_balance - e < MinIdeal THEN MinIdeal ELSE ctx_balance - e
      <3>1. ctx_balance * (n + 1) - LiveSum(p) = ctx_balance - e
        <4> DEFINE cn == ctx_balance * n
        <4> HIDE DEF n
        <4> QED BY <2>5, <2>8
      <3> QED BY <3>1 DEF ideal, CenteringIdeal
    <2>10. LiveSum(t.pool) - ctx_balance * Len(t.pool) = e + x - ctx_balance
      <3> DEFINE cn == ctx_balance * n
                 live == LiveSum(p)
                 after == LiveSum(t.pool)
                 due == ctx_balance * Len(t.pool)
      <3>1. after = live + x /\ due = cn + ctx_balance
        BY <2>7, <2>8
      <3>2. cn \in Nat /\ live \in Nat /\ x \in Nat /\ ctx_balance \in Nat
        BY <2>3, <2>5
      <3> HIDE DEF cn, live, after, due
      <3>3. after - due = (live - cn) + x - ctx_balance
        BY <3>1, <3>2
      <3> QED BY <3>3 DEF cn, live, after, due
    <2> HIDE DEF e
    <2>11. 2 * Abs(e + x - ctx_balance) <= gap
      BY <2>3, <2>4, <2>6, <2>9, NearestCentres
    <2> QED BY <2>10, <2>11 DEF Centred
  <1> QED BY <1>1, <1>4, <1>5, AdmitNearMoves

LEMMA FillCentres ==
    ASSUME LengthsSpanBalance, NEW gap, LargestGap(gap), NEW q \in Seq(Request)
    PROVE  LET f == Filled(<<>>, q) IN OnOffer(f.queue) => Centred(f.pool, gap)
  <1> DEFINE start == [pool |-> <<>>, queue |-> q]
             f == Filled(<<>>, q)
  <1>1. f = CentreLoop!Loop(gap, decode_pool, start)
    BY DEF Filled, FillBody, CentreLoop!Loop, CentreLoop!Iterate, Iterate
  <1>2. CentreInv(gap, start, 0)
    <2>1. LiveSum(<<>>) = 0 /\ Len(<<>>) = 0 /\ ctx_balance \in Nat
      BY LiveStep, Numbers
    <2>2. Centred(<<>>, gap)
      BY <2>1 DEF Centred, Abs, LargestGap
    <2> QED BY <2>2 DEF CentreInv, NodePair
  <1>3. decode_pool \in Nat
    BY Numbers
  <1> HIDE DEF start
  <1>4. CentreInv(gap, CentreLoop!Loop(gap, decode_pool, start), decode_pool)
    BY <1>2, <1>3, CentreStepKeeps, CentreLoop!LoopInvariant
  <1> QED BY <1>1, <1>4 DEF CentreInv

\* Warm filling leaves the pool centred as well as the lengths allow, for every pool
\* size, balance and set of lengths around it (node_scheduler.cpp:26-40).
THEOREM WarmFillIsCentred == ASSUME LengthsSpanBalance PROVE Spec => WarmFillCentres
  <1> DEFINE Asked == /\ pool = <<>> /\ ~started /\ Len(pool') = decode_pool
                      /\ \A len \in Lengths : CountOf(queue', len) > 0
             Good == \A gap \in Gaps : (\A g \in Gaps : g <= gap) =>
                        2 * Abs(LiveSum(pool') - ctx_balance * Len(pool')) <= gap
  <1>1. NodeInv /\ [Next]_vars => [Asked => Good]_vars
    <2> SUFFICES ASSUME NodeInv, Next, Asked, NEW gap \in Gaps, \A g \in Gaps : g <= gap
                 PROVE  Centred(pool', gap)
      BY DEF Centred
    <2>1. decode_pool # 0 /\ Len(<<>>) = 0
      BY Numbers
    <2>2. CASE \E r \in Request : Enqueue(r)
      BY <2>1, <2>2 DEF Enqueue
    <2>3. CASE AdvanceRound
      <3>1. Len(pool') <= Len(pool) /\ pool' \in Seq(Resident)
        BY <2>3, AdvanceRoundInv DEF NodeInv
      <3>2. Len(pool') \in Nat
        BY <3>1
      <3> QED BY <2>1, <3>1, <3>2
    <2>4. CASE WarmFill
      <3> DEFINE f == Filled(<<>>, queue)
      <3>1. queue \in Seq(Request) /\ pool' = f.pool /\ queue' = f.queue
        BY <2>4 DEF NodeInv, WarmFill
      <3>2. LargestGap(gap)
        <4>1. gap \in Nat
          <5>1. PICK pair \in Lengths \X Lengths : pair[1] <= pair[2] /\ gap = pair[2] - pair[1]
            BY DEF Gaps
          <5>2. pair[1] \in Nat /\ pair[2] \in Nat
            BY Numbers
          <5> QED BY <5>1, <5>2
        <4> QED BY <4>1 DEF LargestGap
      <3>3. OnOffer(queue')
        <4> SUFFICES ASSUME NEW len \in Lengths PROVE \E i \in DOMAIN queue' : queue'[i].prompt = len
          BY DEF OnOffer
        <4>1. CountOf(queue', len) > 0
          OBVIOUS
        <4>2. {i \in DOMAIN queue' : queue'[i].prompt = len} # {}
          BY <4>1, FS_EmptySet DEF CountOf
        <4> QED BY <4>2
      <3> HIDE DEF f
      <3>4. OnOffer(f.queue) => Centred(f.pool, gap)
        BY <3>1, <3>2, FillCentres DEF f
      <3> QED BY <3>1, <3>3, <3>4
    <2> QED BY <2>2, <2>3, <2>4 DEF Next
  <1> QED BY <1>1, NodeInvariant, PTL DEF Spec, WarmFillCentres
===============================================================================
