---------------------------- MODULE SimulationProofs ----------------------------
(***************************************************************************)
(* What the simulations keep, for any operating point and any workload.    *)
(* Lifecycle: the prefill batches of a round are well formed, no prompt     *)
(* starves in prefill, and free places go to finished prompts first.        *)
(* ClusterSim: the gate sheds the fewest, nodes keep their caps, and what   *)
(* is left over fits nowhere.                                               *)
(***************************************************************************)
EXTENDS Lifecycle, ClusterSim, OperatorProofs

Row == [prompt : Nat, dtot : DecodeLengths, processed : Nat, wait : Nat]
Prompt == {r \in Row : r.processed < r.prompt}

\* Those that have waited k rounds since they aged.
AgedFor(p, k) == {i \in DOMAIN p : p[i].wait >= op.age_cap + k}

\* The pool is full of prompts that miss tokens, and with every round beyond the
\* age cap the number of those that waited so long falls by two batches.
FillingInv ==
    /\ pf \in Seq(Prompt) /\ Len(pf) = op.prefill_pool
    /\ \A k \in Nat : AgedFor(pf, k) # {} =>
           Cardinality(AgedFor(pf, k)) + (2 * op.prefill_tokens) * k <= op.prefill_pool

\* The numbers among the constants.
LEMMA Numbers ==
    /\ op.prefill_tokens \in Nat \ {0} /\ op.prefill_pool \in Nat \ {0}
    /\ op.age_cap \in Nat /\ PrefillPoint(op) /\ gated_sample \subseteq Nat \ {0}
  BY LifecycleAssumption, SimulationAssumption
  DEF LifecycleAssumption, SimulationAssumption, PrefillPoint, gated_sample

\* The members of the prefill pool.
LEMMA PoolTypes ==
    ASSUME FillingInv
    PROVE  /\ Len(pf) = op.prefill_pool /\ DOMAIN pf = 1..op.prefill_pool
           /\ \A i \in DOMAIN pf :
                  /\ pf[i] \in Row /\ pf[i].prompt \in Nat /\ pf[i].processed \in Nat
                  /\ pf[i].wait \in Nat /\ pf[i].processed < pf[i].prompt
  <1>1. pf \in Seq(Prompt) /\ Len(pf) = op.prefill_pool
    BY DEF FillingInv
  <1>2. \A r \in Prompt : /\ r \in Row /\ r.prompt \in Nat /\ r.processed \in Nat
                          /\ r.wait \in Nat /\ r.processed < r.prompt
    BY DEF Prompt, Row
  <1> QED BY <1>1, <1>2, SeqElements

\* One batch with the members of mask presented as finished is good, and every
\* token of it went to a member of its own if it passed over anybody aged.
LEMMA GoodBatch ==
    ASSUME FillingInv, NEW mask, mask \subseteq DOMAIN pf
    PROVE  LET chunk == steer_prefill_chunks(Masked(mask), op)
           IN  /\ chunk \in [DOMAIN pf -> Nat]
               /\ GoodChunks(mask, chunk)
               /\ \A i \in DOMAIN pf \ mask :
                      pf[i].wait >= op.age_cap /\ chunk[i] = 0 =>
                          Cardinality(Owners(chunk)) = op.prefill_tokens
  <1> DEFINE shown == Masked(mask)
             chunk == steer_prefill_chunks(shown, op)
             c == [pool |-> shown, op |-> op]
             n == op.prefill_pool
             T == op.prefill_tokens
  <1>1. /\ n \in Nat /\ Len(pf) = n /\ DOMAIN pf = 1..n
        /\ \A i \in 1..n : /\ pf[i].prompt \in Nat /\ pf[i].processed \in Nat
                           /\ pf[i].wait \in Nat /\ pf[i].processed < pf[i].prompt
                           /\ pf[i] \in Row
    BY PoolTypes, Numbers
  <1>2. /\ DOMAIN shown = 1..n /\ Len(shown) = n
        /\ \A i \in 1..n : /\ shown[i].prompt = pf[i].prompt
                           /\ i \in mask => shown[i].processed = pf[i].prompt /\ shown[i].wait = 0
                           /\ i \notin mask => shown[i] = pf[i]
    <2>1. shown = [i \in 1..n |-> IF i \in mask
                                  THEN [pf[i] EXCEPT !.processed = pf[i].prompt, !.wait = 0]
                                  ELSE pf[i]]
      BY <1>1 DEF Masked
    <2>2. DOMAIN shown = 1..n /\ Len(shown) = n
      <3> HIDE DEF n, shown
      <3>1. shown \in [1..n -> {shown[i] : i \in 1..n}]
        BY <2>1
      <3> QED BY <1>1, <3>1
    <2>3. ASSUME NEW i \in 1..n
          PROVE  /\ shown[i].prompt = pf[i].prompt
                 /\ i \in mask => shown[i].processed = pf[i].prompt /\ shown[i].wait = 0
                 /\ i \notin mask => shown[i] = pf[i]
      <3>1. shown[i] = IF i \in mask THEN [pf[i] EXCEPT !.processed = pf[i].prompt, !.wait = 0]
                                     ELSE pf[i]
        BY <2>1
      <3> DEFINE r == pf[i]
                 masked == [r EXCEPT !.processed = r.prompt, !.wait = 0]
      <3>2. r \in Row
        BY <1>1
      <3> HIDE DEF r, shown
      <3>3. masked.prompt = r.prompt /\ masked.processed = r.prompt /\ masked.wait = 0
        BY <3>2 DEF Row
      <3> QED BY <3>1, <3>3 DEF r
    <2> QED BY <2>2, <2>3
  <1> HIDE DEF n, shown
  <1>3. PrefillPool(shown)
    <2> SUFFICES ASSUME NEW i \in 1..n
                 PROVE  /\ shown[i].prompt \in Nat /\ shown[i].processed \in Nat
                        /\ shown[i].wait \in Nat /\ shown[i].processed <= shown[i].prompt
      BY <1>1, <1>2 DEF PrefillPool
    <2>1. /\ pf[i].prompt \in Nat /\ pf[i].processed \in Nat
          /\ pf[i].wait \in Nat /\ pf[i].processed < pf[i].prompt
      BY <1>1
    <2>2. CASE i \in mask
      BY <1>2, <2>1, <2>2
    <2>3. CASE i \notin mask
      BY <1>2, <2>1, <2>3
    <2> QED BY <2>2, <2>3
  <1>4. PICK W : PrefillInv(c, [chunk |-> chunk, W |-> W], T)
    BY <1>3, Numbers, PrefillBatch
  <1> DEFINE b == [chunk |-> chunk, W |-> W]
  <1>5. c.pool = shown /\ c.op = op /\ b.chunk = chunk
    OBVIOUS
  <1> HIDE DEF c, b, chunk, T
  <1>6. PrefillInv(c, b, T)
    BY <1>4 DEF b
  <1>7. chunk \in [1..n -> Nat] /\ DOMAIN chunk = 1..n
    BY <1>2, <1>5, <1>6 DEF PrefillInv
  <1>8. Owners(chunk) = Holders(chunk)
    BY DEF Owners, Holders
  <1>9. \A i \in 1..n : shown[i].processed + chunk[i] <= shown[i].prompt
    BY <1>2, <1>5, <1>6 DEF PrefillInv
  <1>10. \A i \in mask : i \in 1..n /\ chunk[i] = 0
    <2> SUFFICES ASSUME NEW i \in mask PROVE i \in 1..n /\ chunk[i] = 0
      OBVIOUS
    <2>1. i \in 1..n
      BY <1>1
    <2>2. pf[i].prompt + chunk[i] <= pf[i].prompt /\ pf[i].prompt \in Nat /\ chunk[i] \in Nat
      BY <1>1, <1>2, <1>7, <1>9, <2>1
    <2> QED BY <2>1, <2>2
  <1>11. Owners(chunk) \cap mask = {}
    BY <1>10 DEF Owners
  <1>12. \A i \in Owners(chunk) : i \in 1..n /\ i \notin mask /\ pf[i].processed + chunk[i] <= pf[i].prompt
    <2> SUFFICES ASSUME NEW i \in Owners(chunk)
                 PROVE  i \in 1..n /\ i \notin mask /\ pf[i].processed + chunk[i] <= pf[i].prompt
      OBVIOUS
    <2>1. i \in 1..n /\ i \notin mask
      BY <1>7, <1>11 DEF Owners
    <2> QED BY <1>2, <1>9, <2>1
  <1>13. Total(chunk) = SumTo(chunk, n)
    <2>1. Len(chunk) = n
      BY <1>1, <1>7
    <2> QED BY <2>1, SumIsSumTo DEF Total
  <1>14. Total(chunk) <= T /\ (Total(chunk) < T => Unfilled(shown, chunk) = {})
    BY <1>2, <1>5, <1>6, <1>13 DEF PrefillInv
  <1>15. ASSUME Total(chunk) < T, NEW i \in DOMAIN pf \ mask
         PROVE  pf[i].processed + chunk[i] = pf[i].prompt
    <2>1. i \in 1..n /\ shown[i] = pf[i] /\ i \notin Unfilled(shown, chunk)
      BY <1>1, <1>2, <1>14, <1>15
    <2>2. ~(pf[i].processed + chunk[i] < pf[i].prompt) /\ pf[i].processed + chunk[i] <= pf[i].prompt
      BY <1>2, <1>9, <2>1 DEF Unfilled
    <2>3. pf[i].processed + chunk[i] \in Nat /\ pf[i].prompt \in Nat
      BY <1>1, <1>7, <2>1
    <2> QED BY <2>2, <2>3
  <1>16. ASSUME NEW i \in DOMAIN pf \ mask, pf[i].wait >= op.age_cap, chunk[i] = 0
         PROVE  i \in Overlooked(c, chunk)
    <2>1. i \in 1..n /\ shown[i] = pf[i] /\ pf[i].processed + 0 < pf[i].prompt
      BY <1>1, <1>2
    <2> QED BY <1>2, <1>5, <1>16, <2>1 DEF Overlooked, Unfilled
  <1>17. ASSUME NEW i \in Unfinished \ (mask \cup Owners(chunk)), NEW j \in Owners(chunk),
                pf[i].wait >= op.age_cap
         PROVE  pf[j].wait >= pf[i].wait
    <2>1. i \in DOMAIN pf \ mask /\ i \in 1..n /\ i \notin Owners(chunk)
      BY <1>1 DEF Unfinished
    <2>2. chunk[i] = 0
      <3>1. chunk[i] \in Nat /\ ~(chunk[i] > 0)
        BY <1>7, <2>1 DEF Owners
      <3> QED BY <3>1
    <2>3. i \in Overlooked(c, chunk)
      BY <1>16, <1>17, <2>1, <2>2
    <2>4. shown[j].wait >= shown[i].wait
      BY <1>5, <1>6, <1>8, <2>3 DEF PrefillInv
    <2> QED BY <1>2, <1>12, <2>1, <2>4
  <1>18. GoodChunks(mask, chunk)
    BY <1>11, <1>12, <1>14, <1>15, <1>17 DEF GoodChunks, T
  <1>19. ASSUME NEW i \in DOMAIN pf \ mask, pf[i].wait >= op.age_cap, chunk[i] = 0
         PROVE  Cardinality(Owners(chunk)) = T
    BY <1>5, <1>6, <1>8, <1>16, <1>19 DEF PrefillInv
  <1> QED BY <1>1, <1>7, <1>18, <1>19 DEF chunk, T, shown

\* Both batches of a round are good.
LEMMA RoundIsGood ==
    ASSUME FillingInv
    PROVE  /\ PrefillRoundWellFormed
           /\ FirstChunks \in [DOMAIN pf -> Nat] /\ SecondChunks \in [DOMAIN pf -> Nat]
  <1>1. Masked({}) = pf
    BY DEF FillingInv, Masked
  <1>2. FirstChunks = steer_prefill_chunks(Masked({}), op)
    BY <1>1 DEF FirstChunks
  <1>3. FirstChunks \in [DOMAIN pf -> Nat] /\ GoodChunks({}, FirstChunks)
    <2>1. {} \subseteq DOMAIN pf
      OBVIOUS
    <2> QED BY <1>2, <2>1, GoodBatch
  <1>4. Owners(FirstChunks) \subseteq DOMAIN pf
    BY <1>3 DEF Owners
  <1>5. SecondChunks \in [DOMAIN pf -> Nat] /\ GoodChunks(Owners(FirstChunks), SecondChunks)
    BY <1>4, GoodBatch DEF SecondChunks
  <1> QED BY <1>3, <1>5 DEF PrefillRoundWellFormed

\* The members of either batch.
Served == Owners(FirstChunks) \cup Owners(SecondChunks)

\* A round that passes over somebody aged serves as many as two batches have
\* tokens, all of whom have waited as long.
LEMMA RoundServes ==
    ASSUME FillingInv, NEW i \in DOMAIN pf \ Served, pf[i].wait >= op.age_cap
    PROVE  /\ Served \subseteq DOMAIN pf
           /\ Cardinality(Served) = 2 * op.prefill_tokens
           /\ \A j \in Served : pf[j].wait >= pf[i].wait
  <1> DEFINE A == Owners(FirstChunks)
             B == Owners(SecondChunks)
             T == op.prefill_tokens
  <1>1. /\ FirstChunks \in [DOMAIN pf -> Nat] /\ SecondChunks \in [DOMAIN pf -> Nat]
        /\ GoodChunks({}, FirstChunks) /\ GoodChunks(A, SecondChunks)
    BY RoundIsGood DEF PrefillRoundWellFormed
  <1>2. A \subseteq DOMAIN pf /\ B \subseteq DOMAIN pf /\ Served = A \cup B
    BY <1>1 DEF Owners, Served
  <1>3. i \notin A /\ i \notin B /\ FirstChunks[i] = 0 /\ SecondChunks[i] = 0
    <2>1. i \notin A /\ i \notin B
      BY <1>2
    <2>2. ~(FirstChunks[i] > 0) /\ ~(SecondChunks[i] > 0)
      BY <1>1, <2>1 DEF Owners
    <2>3. FirstChunks[i] \in Nat /\ SecondChunks[i] \in Nat
      BY <1>1
    <2> QED BY <2>1, <2>2, <2>3
  <1>4. Cardinality(A) = T
    <2>1. Masked({}) = pf /\ {} \subseteq DOMAIN pf
      BY DEF FillingInv, Masked
    <2>2. FirstChunks = steer_prefill_chunks(Masked({}), op)
      BY <2>1 DEF FirstChunks
    <2>3. i \in DOMAIN pf \ {}
      OBVIOUS
    <2> QED BY <1>3, <2>1, <2>2, <2>3, GoodBatch
  <1>5. Cardinality(B) = T
    <2>1. SecondChunks = steer_prefill_chunks(Masked(A), op)
      BY DEF SecondChunks
    <2>2. i \in DOMAIN pf \ A
      BY <1>3
    <2> QED BY <1>2, <1>3, <2>1, <2>2, GoodBatch
  <1>6. A \cap B = {}
    BY <1>1 DEF GoodChunks
  <1>7. Cardinality(A \cup B) = T + T
    <2>1. T \in Nat /\ op.prefill_pool \in Nat /\ DOMAIN pf = 1..op.prefill_pool
      BY Numbers, PoolTypes
    <2>2. IsFiniteSet(A) /\ IsFiniteSet(B)
      <3>1. IsFiniteSet(1..op.prefill_pool)
        BY <2>1, FS_Interval
      <3> QED BY <1>2, <2>1, <3>1, FS_Subset
    <2>3. Cardinality(A \cup B) = Cardinality(A) + Cardinality(B) - Cardinality(A \cap B)
      BY <2>2, FS_Union
    <2>4. Cardinality(A \cap B) = 0
      BY <1>6, FS_EmptySet
    <2> HIDE DEF A, B, T
    <2> QED BY <1>4, <1>5, <2>1, <2>3, <2>4
  <1>8. i \in Unfinished
    BY PoolTypes DEF Unfinished
  <1>9. \A j \in A : pf[j].wait >= pf[i].wait
    BY <1>1, <1>3, <1>8 DEF GoodChunks
  <1>10. \A j \in B : pf[j].wait >= pf[i].wait
    BY <1>1, <1>3, <1>8 DEF GoodChunks
  <1>11. T + T = 2 * T
    BY Numbers
  <1> QED BY <1>2, <1>7, <1>9, <1>10, <1>11

\* What a round makes of the members of the pool.
LEMMA PrefilledTypes ==
    ASSUME FillingInv
    PROVE  /\ Prefilled \in Seq(Row) /\ Len(Prefilled) = op.prefill_pool
           /\ DOMAIN Prefilled = DOMAIN pf
           /\ \A i \in DOMAIN pf : Prefilled[i].wait = IF i \in Served THEN 0 ELSE pf[i].wait + 1
  <1> DEFINE n == op.prefill_pool
             p == Prefilled
  <1>1. /\ n \in Nat /\ Len(pf) = n /\ DOMAIN pf = 1..n
        /\ \A i \in 1..n : pf[i] \in Row /\ pf[i].processed \in Nat /\ pf[i].wait \in Nat
    BY PoolTypes, Numbers
  <1>2. FirstChunks \in [1..n -> Nat] /\ SecondChunks \in [1..n -> Nat]
    BY <1>1, RoundIsGood
  <1>3. ASSUME NEW i \in 1..n
        PROVE  p[i] \in Row /\ p[i].wait = IF i \in Served THEN 0 ELSE pf[i].wait + 1
    <2> DEFINE x == FirstChunks[i]
               y == SecondChunks[i]
               r == pf[i]
    <2>1. x \in Nat /\ y \in Nat /\ r \in Row /\ r.processed \in Nat /\ r.wait \in Nat
      BY <1>1, <1>2
    <2>2. i \in Served <=> x > 0 \/ y > 0
      BY <1>2 DEF Served, Owners
    <2>3. p[i] = IF x + y > 0 THEN [r EXCEPT !.processed = @ + x + y, !.wait = 0]
                              ELSE [r EXCEPT !.wait = @ + 1]
      BY <1>1 DEF Prefilled
    <2> HIDE DEF x, y, r, p, n
    <2>4. x + y > 0 <=> i \in Served
      BY <2>1, <2>2
    <2>5. CASE i \in Served
      <3> DEFINE q == [r EXCEPT !.processed = @ + x + y, !.wait = 0]
      <3>1. p[i] = q
        BY <2>3, <2>4, <2>5
      <3>2. r.processed + x + y \in Nat
        BY <2>1
      <3>3. q \in Row /\ q.wait = 0
        BY <2>1, <3>2 DEF Row
      <3> HIDE DEF q
      <3> QED BY <2>5, <3>1, <3>3 DEF r
    <2>6. CASE i \notin Served
      <3> DEFINE q == [r EXCEPT !.wait = @ + 1]
      <3>1. p[i] = q
        BY <2>3, <2>4, <2>6
      <3>2. q \in Row /\ q.wait = r.wait + 1
        BY <2>1 DEF Row
      <3> HIDE DEF q
      <3> QED BY <2>6, <3>1, <3>2 DEF r
    <2> QED BY <2>5, <2>6
  <1>4. DOMAIN p = 1..n
    BY <1>1 DEF Prefilled
  <1>5. p = [i \in 1..n |-> p[i]]
    BY <1>1 DEF Prefilled
  <1> HIDE DEF p
  <1>6. p \in [1..n -> Row]
    BY <1>3, <1>5
  <1>7. p \in Seq(Row) /\ Len(p) = n
    BY <1>1, <1>6
  <1> QED BY <1>1, <1>3, <1>4, <1>7 DEF p

\* The prompts that stay in the pool miss tokens.
LEMMA FillingTypes ==
    ASSUME FillingInv
    PROVE  LET filling == StillFilling(Prefilled)
           IN  filling \in Seq(Prompt) /\ Len(filling) \in 0..op.prefill_pool
  <1> DEFINE p == Prefilled
             V == {r \in Range(p) : ~Whole(r)}
             filling == Only(p, V)
  <1>1. p \in Seq(Row) /\ Len(p) = op.prefill_pool /\ op.prefill_pool \in Nat
    BY PrefilledTypes, Numbers
  <1> HIDE DEF p
  <1>2. /\ filling \in Seq(Row) /\ Range(filling) = Range(p) \cap V /\ Len(filling) \in Nat
        /\ \A W : W \cap Range(p) = Range(p) \ V => Len(filling) + Len(Only(p, W)) = Len(p)
    <2> HIDE DEF V
    <2> QED BY <1>1, OnlyKeeps
  <1>3. Len(filling) <= Len(p)
    <2> DEFINE W == Range(p) \ V
    <2>1. W \cap Range(p) = Range(p) \ V
      OBVIOUS
    <2> HIDE DEF V, W
    <2>2. Len(filling) + Len(Only(p, W)) = Len(p) /\ Len(Only(p, W)) \in Nat
      BY <1>1, <1>2, <2>1, OnlyKeeps
    <2> QED BY <1>1, <1>2, <2>2
  <1>4. \A r \in Range(filling) : r \in Prompt
    <2> SUFFICES ASSUME NEW r \in Range(filling) PROVE r \in Prompt
      OBVIOUS
    <2>1. r \in Range(p) /\ ~Whole(r)
      BY <1>2
    <2>2. r \in Row
      BY <1>1, <2>1, SeqElements
    <2>3. r.processed < r.prompt
      <3>1. ~(r.processed >= r.prompt) /\ r.processed \in Nat /\ r.prompt \in Nat
        BY <2>1, <2>2 DEF Whole, Row
      <3> QED BY <3>1
    <2> QED BY <2>2, <2>3 DEF Prompt
  <1>5. filling \in Seq(Prompt)
    <2> HIDE DEF filling
    <2>1. \A j \in 1..Len(filling) : filling[j] \in Prompt
      BY <1>2, <1>4 DEF Range
    <2> QED BY <1>2, <2>1
  <1>6. Len(filling) \in 0..op.prefill_pool
    BY <1>1, <1>2, <1>3
  <1> QED BY <1>5, <1>6 DEF StillFilling, p

\* Of those that have waited for k + 1 rounds since they aged, two batches fewer
\* are left than of those that had waited for k, or none.
LEMMA FewerWait ==
    ASSUME FillingInv, NEW k \in Nat, AgedFor(Prefilled, k + 1) # {}
    PROVE  Cardinality(AgedFor(Prefilled, k + 1)) + (2 * op.prefill_tokens) * (k + 1)
               <= op.prefill_pool
  <1> DEFINE left == AgedFor(Prefilled, k + 1)
             before == AgedFor(pf, k)
             two == 2 * op.prefill_tokens
             n == op.prefill_pool
             cap == op.age_cap
  <1>1. /\ two \in Nat /\ n \in Nat /\ cap \in Nat /\ DOMAIN pf = 1..n
        /\ \A i \in 1..n : pf[i].wait \in Nat
    BY Numbers, PoolTypes
  <1>2. /\ DOMAIN Prefilled = 1..n
        /\ \A i \in 1..n : Prefilled[i].wait = IF i \in Served THEN 0 ELSE pf[i].wait + 1
    BY <1>1, PrefilledTypes
  <1>3. left \subseteq before \ Served
    <2> SUFFICES ASSUME NEW i \in left PROVE i \in before /\ i \notin Served
      OBVIOUS
    <2>1. i \in 1..n /\ Prefilled[i].wait >= cap + (k + 1)
      BY <1>2 DEF AgedFor
    <2>2. i \notin Served
      BY <1>1, <1>2, <2>1
    <2>3. pf[i].wait + 1 >= cap + (k + 1) /\ pf[i].wait \in Nat
      BY <1>1, <1>2, <2>1, <2>2
    <2>4. pf[i].wait >= cap + k
      BY <1>1, <2>3
    <2> QED BY <1>1, <2>1, <2>2, <2>4 DEF AgedFor
  <1>4. PICK i : i \in left
    OBVIOUS
  <1>5. i \in DOMAIN pf \ Served /\ pf[i].wait \in Nat /\ pf[i].wait >= cap + k
    BY <1>1, <1>3, <1>4 DEF AgedFor
  <1>6. /\ Served \subseteq DOMAIN pf /\ Cardinality(Served) = two
        /\ \A j \in Served : pf[j].wait >= pf[i].wait
    <2>1. pf[i].wait >= op.age_cap
      BY <1>1, <1>5
    <2> QED BY <1>5, <2>1, RoundServes
  <1>7. Served \subseteq before
    <2> SUFFICES ASSUME NEW j \in Served PROVE j \in before
      OBVIOUS
    <2>1. j \in 1..n /\ pf[j].wait \in Nat /\ pf[j].wait >= pf[i].wait
      BY <1>1, <1>6
    <2>2. pf[j].wait >= cap + k
      BY <1>1, <1>5, <2>1
    <2> QED BY <1>1, <2>1, <2>2 DEF AgedFor
  <1>8. before # {} => Cardinality(before) + two * k <= n
    BY DEF FillingInv
  <1>9. IsFiniteSet(before) /\ IsFiniteSet(left)
    <2>1. before \subseteq 1..n
      BY <1>1 DEF AgedFor
    <2> HIDE DEF left, before, n
    <2>3. IsFiniteSet(1..n)
      BY <1>1, FS_Interval
    <2>2. IsFiniteSet(before)
      BY <2>1, <2>3, FS_Subset
    <2> QED BY <1>3, <2>2, FS_Subset
  <1> HIDE DEF left, before, two, n, cap
  <1>10. Cardinality(before \ Served) = Cardinality(before) - two
    <2>1. before \cap Served = Served
      BY <1>7
    <2>2. Cardinality(before \ Served) = Cardinality(before) - Cardinality(before \cap Served)
      BY <1>9, FS_Difference
    <2> QED BY <1>6, <2>1, <2>2
  <1>11. Cardinality(left) <= Cardinality(before \ Served) /\ Cardinality(left) \in Nat
         /\ Cardinality(before) \in Nat
    <2>1. IsFiniteSet(before \ Served)
      BY <1>9, FS_Difference
    <2> QED BY <1>3, <1>9, <2>1, FS_Subset, FS_CardinalityType
  <1>12. Cardinality(before) + two * k <= n
    BY <1>3, <1>4, <1>8
  <1> DEFINE x == two * k
  <1>13. x \in Nat /\ two * (k + 1) = x + two
    BY <1>1
  <1> HIDE DEF x
  <1>14. Cardinality(left) + (x + two) <= n
    BY <1>1, <1>10, <1>11, <1>12, <1>13 DEF x
  <1>15. Cardinality(left) + two * (k + 1) <= n
    BY <1>13, <1>14
  <1> QED BY <1>15 DEF left, two, n

\* The pool of the next round.
LEMMA RefillKeeps ==
    ASSUME FillingInv,
           NEW fresh \in [1..(op.prefill_pool - Len(StillFilling(Prefilled))) ->
                             [prompt : gated_sample, dtot : DecodeLengths,
                              processed : {0}, wait : {0}]],
           pf' = StillFilling(Prefilled) \o fresh
    PROVE  FillingInv'
  <1> DEFINE filling == StillFilling(Prefilled)
             m == Len(filling)
             n == op.prefill_pool
             two == 2 * op.prefill_tokens
             p == Prefilled
             V == {r \in Range(p) : ~Whole(r)}
             next == filling \o fresh
  <1>1. n \in Nat /\ filling \in Seq(Prompt) /\ m \in 0..n /\ two \in Nat /\ op.age_cap \in Nat
    BY Numbers, FillingTypes
  <1>2. fresh \in Seq(Prompt) /\ Len(fresh) = n - m /\ \A i \in 1..(n - m) : fresh[i].wait = 0
    <2> DEFINE New == [prompt : gated_sample, dtot : DecodeLengths, processed : {0}, wait : {0}]
    <2>1. ASSUME NEW r \in New PROVE r \in Prompt /\ r.wait = 0
      <3>1. /\ r = [prompt |-> r.prompt, dtot |-> r.dtot, processed |-> r.processed, wait |-> r.wait]
            /\ r.prompt \in gated_sample /\ r.dtot \in DecodeLengths /\ r.processed = 0 /\ r.wait = 0
        OBVIOUS
      <3>2. r.prompt \in Nat \ {0}
        BY <3>1, Numbers
      <3>3. r \in Row
        BY <3>1, <3>2 DEF Row
      <3> HIDE DEF New
      <3> QED BY <3>1, <3>2, <3>3 DEF Prompt
    <2> HIDE DEF New, filling, n, m
    <2>2. fresh \in [1..(n - m) -> New] /\ n - m \in Nat
      BY <1>1 DEF New, filling, n, m
    <2>3. fresh \in [1..(n - m) -> Prompt] /\ \A i \in 1..(n - m) : fresh[i].wait = 0
      BY <2>1, <2>2
    <2> QED BY <2>2, <2>3
  <1> HIDE DEF m, n, two
  <1>3. /\ next \in Seq(Prompt) /\ Len(next) = n
        /\ \A i \in 1..n : next[i] = IF i <= m THEN filling[i] ELSE fresh[i - m]
    <2> HIDE DEF filling, next
    <2>1. /\ filling \o fresh \in Seq(Prompt) /\ Len(filling \o fresh) = m + Len(fresh)
          /\ \A j \in 1..(m + Len(fresh)) :
                 (filling \o fresh)[j] = IF j <= m THEN filling[j] ELSE fresh[j - m]
      BY <1>1, <1>2, Joined DEF m
    <2>2. m + Len(fresh) = n
      BY <1>1, <1>2
    <2> QED BY <2>1, <2>2 DEF next
  <1>4. p \in Seq(Row) /\ Len(p) = n
    BY PrefilledTypes DEF n
  <1>5. filling = Only(p, V)
    BY DEF StillFilling
  <1> HIDE DEF filling, p, V, next
  <1>6. ASSUME NEW k \in Nat, AgedFor(next, k) # {}
        PROVE  Cardinality(AgedFor(next, k)) + two * k <= n
    <2>1. DOMAIN next = 1..n /\ IsFiniteSet(1..n) /\ Cardinality(1..n) = n
      BY <1>1, <1>3, FS_Interval
    <2>2. CASE k = 0
      <3>1. AgedFor(next, k) \subseteq 1..n
        BY <2>1 DEF AgedFor
      <3>2. Cardinality(AgedFor(next, k)) <= n /\ Cardinality(AgedFor(next, k)) \in Nat
        BY <2>1, <3>1, FS_Subset, FS_CardinalityType
      <3>3. two * k = 0
        BY <1>1, <2>2
      <3> QED BY <1>1, <3>2, <3>3
    <2>3. CASE k # 0
      <3> DEFINE W == {r \in Row : r.wait >= op.age_cap + k}
                 l == k - 1
      <3>1. l \in Nat /\ k = l + 1
        BY <2>3
      <3>2. AgedFor(next, k) = Places(filling, W)
        <4>1. DOMAIN filling = 1..m /\ 1..m \subseteq 1..n /\ \A i \in 1..m : filling[i] \in Row
          BY <1>1 DEF m, Prompt
        <4>2. ASSUME NEW i \in 1..n PROVE i \in AgedFor(next, k) <=> i \in Places(filling, W)
          <5>1. CASE i <= m
            <6>1. i \in 1..m /\ next[i] = filling[i]
              BY <1>1, <1>3, <5>1
            <6> QED BY <2>1, <4>1, <6>1 DEF AgedFor, Places
          <5>2. CASE ~(i <= m)
            <6>1. i - m \in 1..(n - m) /\ i \notin 1..m
              BY <1>1, <5>2
            <6>2. next[i].wait = 0
              BY <1>2, <1>3, <5>2, <6>1
            <6>3. ~(0 >= op.age_cap + k)
              BY <1>1, <2>3
            <6> QED BY <2>1, <4>1, <6>1, <6>2, <6>3 DEF AgedFor, Places
          <5> QED BY <5>1, <5>2
        <4>3. AgedFor(next, k) \subseteq 1..n /\ Places(filling, W) \subseteq 1..n
          BY <2>1, <4>1 DEF AgedFor, Places
        <4> QED BY <4>2, <4>3
      <3>3. Cardinality(Places(filling, W)) = Cardinality(Places(p, V \cap W))
        <4> HIDE DEF W
        <4> QED BY <1>4, <1>5, OnlyCounts
      <3>4. Places(p, V \cap W) \subseteq AgedFor(p, k) /\ AgedFor(p, k) \subseteq 1..n
        <4>1. DOMAIN p = 1..n
          BY <1>4
        <4> QED BY <4>1 DEF Places, AgedFor
      <3> HIDE DEF W, l
      <3>5. /\ IsFiniteSet(AgedFor(p, k)) /\ IsFiniteSet(Places(p, V \cap W))
            /\ Cardinality(Places(p, V \cap W)) <= Cardinality(AgedFor(p, k))
            /\ Cardinality(AgedFor(p, k)) \in Nat /\ Cardinality(Places(p, V \cap W)) \in Nat
        <4>1. IsFiniteSet(AgedFor(p, k))
          BY <2>1, <3>4, FS_Subset
        <4> QED BY <3>4, <4>1, FS_Subset, FS_CardinalityType
      <3>6. AgedFor(p, k) # {}
        <4>1. Cardinality(AgedFor(next, k)) # 0
          <5>1. AgedFor(next, k) \subseteq 1..n
            BY <2>1 DEF AgedFor
          <5>2. IsFiniteSet(AgedFor(next, k))
            BY <2>1, <5>1, FS_Subset
          <5> QED BY <1>6, <5>2, FS_EmptySet
        <4>2. Cardinality({}) = 0
          BY FS_EmptySet
        <4>3. AgedFor(p, k) = {} => Places(p, V \cap W) = {}
          BY <3>4
        <4> QED BY <3>2, <3>3, <4>1, <4>2, <4>3
      <3>7. Cardinality(AgedFor(p, k)) + two * k <= n
        BY <3>1, <3>6, FewerWait DEF p, two, n
      <3>8. two * k \in Nat
        BY <1>1
      <3> DEFINE x == two * k
      <3> HIDE DEF x
      <3>9. Cardinality(AgedFor(next, k)) + x <= n
        BY <1>1, <3>2, <3>3, <3>5, <3>7, <3>8 DEF x
      <3> QED BY <3>9 DEF x
    <2> QED BY <2>2, <2>3
  <1>7. pf' = next
    BY DEF next, filling
  <1> QED BY <1>3, <1>6, <1>7 DEF FillingInv, n, two, AgedFor

LEMMA FillingInit == Init => FillingInv
  <1> SUFFICES ASSUME Init PROVE FillingInv
    OBVIOUS
  <1> DEFINE n == op.prefill_pool
             First == {r \in [prompt : gated_sample, dtot : DecodeLengths,
                              processed : 0..edge_cutoff, wait : {0}] : r.processed < r.prompt}
  <1>1. n \in Nat /\ op.age_cap \in Nat /\ op.prefill_tokens \in Nat
    BY Numbers
  <1>2. pf \in [1..n -> First]
    BY DEF Init
  <1>3. ASSUME NEW r \in First PROVE r \in Prompt /\ r.wait = 0
    <2>1. /\ r = [prompt |-> r.prompt, dtot |-> r.dtot, processed |-> r.processed, wait |-> r.wait]
          /\ r.prompt \in gated_sample /\ r.dtot \in DecodeLengths
          /\ r.processed \in 0..edge_cutoff /\ r.wait = 0 /\ r.processed < r.prompt
      OBVIOUS
    <2>2. r.prompt \in Nat /\ r.processed \in Nat
      <3>1. r.prompt \in Nat
        BY <2>1, Numbers
      <3>2. \A e, x : x \in 0..e => x \in Nat
        OBVIOUS
      <3> QED BY <2>1, <3>1, <3>2
    <2>3. r \in Row
      BY <2>1, <2>2 DEF Row
    <2> HIDE DEF First
    <2> QED BY <2>1, <2>3 DEF Prompt
  <1> HIDE DEF First, n
  <1>4. pf \in Seq(Prompt) /\ Len(pf) = n /\ DOMAIN pf = 1..n /\ \A i \in 1..n : pf[i].wait = 0
    BY <1>1, <1>2, <1>3
  <1>5. ASSUME NEW k \in Nat, AgedFor(pf, k) # {}
        PROVE  Cardinality(AgedFor(pf, k)) + (2 * op.prefill_tokens) * k <= n
    <2>1. k = 0
      <3>1. PICK i \in 1..n : 0 >= op.age_cap + k
        BY <1>4, <1>5 DEF AgedFor
      <3> QED BY <1>1, <3>1
    <2>2. (2 * op.prefill_tokens) * k = 0
      BY <1>1, <2>1
    <2>3. AgedFor(pf, k) \subseteq 1..n /\ IsFiniteSet(1..n) /\ Cardinality(1..n) = n
      <3>1. AgedFor(pf, k) \subseteq 1..n
        BY <1>4 DEF AgedFor
      <3>2. IsFiniteSet(1..n) /\ Cardinality(1..n) = n
        <4>1. 1 \in Int /\ n \in Int /\ (n = 0 \/ ~(1 > n))
          BY <1>1
        <4> QED BY <4>1, FS_Interval
      <3> QED BY <3>1, <3>2
    <2>4. Cardinality(AgedFor(pf, k)) <= n /\ Cardinality(AgedFor(pf, k)) \in Nat
      BY <2>3, FS_Subset, FS_CardinalityType
    <2> QED BY <1>1, <2>2, <2>4
  <1> QED BY <1>4, <1>5 DEF FillingInv, n

LEMMA FillingStep == FillingInv /\ [Next]_vars => FillingInv'
  <1> SUFFICES ASSUME FillingInv, [Next]_vars PROVE FillingInv'
    OBVIOUS
  <1>1. CASE pf' = pf
    BY <1>1 DEF FillingInv, AgedFor
  <1>2. CASE Round
    <2>1. PICK fresh \in [1..(op.prefill_pool - Len(StillFilling(Prefilled))) ->
                             [prompt : gated_sample, dtot : DecodeLengths,
                              processed : {0}, wait : {0}]] :
              pf' = StillFilling(Prefilled) \o fresh
      BY <1>2, Zenon DEF Round
    <2> QED BY <2>1, RefillKeeps
  <1> QED BY <1>1, <1>2 DEF Next, TopUp, vars

\* FillingInv is an invariant of the driver.
THEOREM FillingInvariant == Spec => []FillingInv
  BY FillingInit, FillingStep, PTL DEF Spec

\* Every round, for any pool and any batch size: the two prefill batches share no
\* prompt, spend their budget unless everybody is done, give nobody more than it
\* misses, and pass over no aged prompt for one that has waited less
\* (steering.cpp:68-106, lifecycle.cpp:250-270).
THEOREM PrefillRoundsAreWellFormed == Spec => []PrefillRoundWellFormed
  <1>1. FillingInv => PrefillRoundWellFormed
    BY RoundIsGood
  <1> QED BY <1>1, FillingInvariant, PTL

\* No prompt starves in prefill, whatever the pool, the batches and the lengths.
THEOREM NobodyStarvesInPrefill == Spec => []PrefillWaitBounded
  <1>1. FillingInv => PrefillWaitBounded
    <2> SUFFICES ASSUME FillingInv, NEW i \in DOMAIN pf
                 PROVE  pf[i].wait <= op.age_cap + (op.prefill_pool - 1) \div (2 * op.prefill_tokens)
      BY DEF PrefillWaitBounded
    <2> DEFINE two == 2 * op.prefill_tokens
               n == op.prefill_pool
               w == pf[i].wait
               cap == op.age_cap
    <2>1. two \in Nat \ {0} /\ n \in Nat \ {0} /\ cap \in Nat /\ w \in Nat /\ DOMAIN pf = 1..n
      BY Numbers, PoolTypes
    <2>2. CASE w <= cap
      <3> HIDE DEF two, n, w, cap
      <3>1. (n - 1) \div two \in Nat
        BY <2>1
      <3>2. w <= cap + (n - 1) \div two
        <4> DEFINE x == (n - 1) \div two
        <4> HIDE DEF x
        <4>1. w <= cap + x
          BY <2>1, <2>2, <3>1 DEF x
        <4> QED BY <4>1 DEF x
      <3> QED BY <3>2 DEF two, n, w, cap
    <2>3. CASE w > cap
      <3> DEFINE k == w - cap
                 C == AgedFor(pf, k)
      <3>1. k \in Nat /\ w = cap + k
        BY <2>1, <2>3
      <3>2. i \in C
        BY <2>1, <3>1 DEF AgedFor
      <3>3. Cardinality(C) + two * k <= n
        BY <3>1, <3>2 DEF FillingInv
      <3>4. Cardinality(C) \in Nat \ {0}
        <4>1. C \subseteq 1..n
          BY <2>1 DEF AgedFor
        <4> HIDE DEF C, n
        <4>2. IsFiniteSet(C)
          <5>1. IsFiniteSet(1..n)
            BY <2>1, FS_Interval
          <5> QED BY <4>1, <5>1, FS_Subset
        <4> QED BY <3>2, <4>2, FS_EmptySet, FS_CardinalityType
      <3> HIDE DEF C, k, two, n, w, cap
      <3>5. two * k <= n - 1
        <4> DEFINE x == two * k
        <4>1. x \in Nat
          BY <2>1, <3>1
        <4> HIDE DEF x
        <4>2. x <= n - 1
          BY <2>1, <3>3, <3>4, <4>1 DEF x
        <4> QED BY <4>2 DEF x
      <3>6. k <= (n - 1) \div two
        BY <2>1, <3>1, <3>5
      <3>7. cap + k <= cap + (n - 1) \div two
        <4> DEFINE x == (n - 1) \div two
        <4>1. x \in Int
          BY <2>1
        <4> HIDE DEF x
        <4>2. cap + k <= cap + x
          BY <2>1, <3>1, <3>6, <4>1 DEF x
        <4> QED BY <4>2 DEF x
      <3> QED BY <3>1, <3>7 DEF two, n, w, cap
    <2> QED BY <2>1, <2>2, <2>3
  <1> QED BY <1>1, FillingInvariant, PTL

-----------------------------------------------------------------------------
(* The cluster simulation.                                                 *)

Node == [lengths : Seq(Nat), total : Nat]

\* A node whose total is that of its residents, within both of its caps.
SoundNode(node) ==
    /\ node \in Node /\ node.total = Sum(node.lengths)
    /\ Len(node.lengths) <= op.node_max /\ node.total <= op.node_footprint_cap

\* Every node is sound, and as long as requests wait to be placed, those that
\* were left over fit nowhere.
SimInv ==
    /\ draw \in Seq(Nat) /\ kept \in Seq(Nat) /\ leftover \subseteq Nat
    /\ nodes \in [1..Z -> Node] /\ turn \in 1..Z
    /\ \A z \in 1..Z : SoundNode(nodes[z])
    /\ kept # <<>> \/ draw # <<>> =>
           \A len \in leftover, z \in 1..Z : ~CanFit(nodes[z], len, op)

LEMMA SimNumbers ==
    /\ Z \in Nat \ {0} /\ op.node_max \in Nat /\ op.node_footprint_cap \in Nat
    /\ op.ctx_balance \in Nat /\ op.edge_band \in Nat
    /\ Lengths \subseteq Nat \ {0} /\ Samples \subseteq Seq(Lengths)
  BY SimAssumption, SimulationAssumption DEF SimAssumption, SimulationAssumption

\* One more element adds itself.
LEMMA SumOfAppended ==
    ASSUME NEW s \in Seq(Nat), NEW e \in Nat
    PROVE  /\ Sum(s) \in Nat /\ Sum(Append(s, e)) = Sum(s) + e
           /\ Append(s, e) \in Seq(Nat) /\ Len(Append(s, e)) = Len(s) + 1 /\ Len(s) \in Nat
  <1> DEFINE n == Len(s)
             t == Append(s, e)
  <1>1. /\ t \in Seq(Nat) /\ Len(t) = n + 1 /\ n \in Nat
        /\ (\A i \in 1..n : t[i] = s[i]) /\ t[n + 1] = e /\ \A i \in 1..n : s[i] \in Nat
    OBVIOUS
  <1> HIDE DEF n, t
  <1>2. SumTo(t, n) = SumTo(s, n)
    BY <1>1, SumAgree
  <1>3. SumTo(t, n + 1) = SumTo(t, n) + t[n + 1]
    BY <1>1, SumToStep
  <1>4. SumTo(s, n) \in Nat
    BY <1>1, SumOfNumbers
  <1>5. Sum(s) = SumTo(s, n) /\ Sum(t) = SumTo(t, n + 1)
    BY <1>1, SumIsSumTo DEF n
  <1> QED BY <1>1, <1>2, <1>3, <1>4, <1>5 DEF t, n

\* A request that fits keeps its node sound.
LEMMA AdmitKeeps ==
    ASSUME NEW node, SoundNode(node), NEW len \in Nat, CanFit(node, len, op)
    PROVE  /\ SoundNode(admit(node, len))
           /\ Len(admit(node, len).lengths) = Len(node.lengths) + 1
           /\ admit(node, len).total = node.total + len
  <1> DEFINE next == admit(node, len)
             l == node.lengths
  <1>1. l \in Seq(Nat) /\ node.total \in Nat /\ node.total = Sum(l) /\ Len(l) <= op.node_max
    BY DEF SoundNode, Node
  <1>2. next.lengths = Append(l, len) /\ next.total = node.total + len
        /\ next = [lengths |-> Append(l, len), total |-> node.total + len]
    BY DEF admit
  <1>3. Sum(Append(l, len)) = Sum(l) + len /\ Append(l, len) \in Seq(Nat)
        /\ Len(Append(l, len)) = Len(l) + 1 /\ Len(l) \in Nat
    BY <1>1, SumOfAppended
  <1>4. node.total + len <= op.node_footprint_cap /\ Len(l) < op.node_max
    BY DEF CanFit
  <1> HIDE DEF next, l
  <1>5. next \in Node
    BY <1>1, <1>2, <1>3 DEF Node
  <1>6. Len(l) + 1 <= op.node_max
    BY <1>3, <1>4, SimNumbers
  <1> QED BY <1>1, <1>2, <1>3, <1>4, <1>5, <1>6 DEF SoundNode, next, l

\* Of finitely many that are all comparable, some come before all others; the
\* first of those is the one a scan with a strict `<' keeps.
LEMMA BestExists ==
    ASSUME NEW n \in Nat, NEW F, F \subseteq 1..n, F # {}, NEW R \in SUBSET (F \X F),
           \A j, k \in F : <<j, k>> \in R \/ <<k, j>> \in R,
           \A i, j, k \in F : <<i, j>> \in R /\ <<j, k>> \in R => <<i, k>> \in R
    PROVE  \E j \in F : \A k \in F : <<j, k>> \in R /\ (<<k, j>> \in R => j <= k)
  <1> DEFINE Best(j, D) == \A k \in D : <<j, k>> \in R /\ (<<k, j>> \in R => j <= k)
             S == {m \in Nat : \A D \in SUBSET F : D \subseteq 1..m /\ D # {} => \E j \in D : Best(j, D)}
  <1>1. 0 \in S
    <2>1. 1..0 = {}
      OBVIOUS
    <2> QED BY <2>1
  <1>2. ASSUME NEW m \in Nat, m \in S PROVE m + 1 \in S
    <2> SUFFICES ASSUME NEW D \in SUBSET F, D \subseteq 1..(m + 1), D # {}
                 PROVE  \E j \in D : Best(j, D)
      OBVIOUS
    <2>1. CASE m + 1 \notin D
      <3>1. D \subseteq 1..m
        BY <2>1
      <3> QED BY <1>2, <3>1
    <2>2. CASE D = {m + 1}
      <3>1. <<m + 1, m + 1>> \in R
        BY <2>2
      <3> QED BY <2>2, <3>1
    <2>3. CASE m + 1 \in D /\ D # {m + 1}
      <3> DEFINE E == D \ {m + 1}
                 l == m + 1
      <3>1. E \in SUBSET F /\ E \subseteq 1..m /\ E # {} /\ D = E \cup {l} /\ l \in F
        BY <2>3
      <3>2. PICK i \in E : Best(i, E)
        BY <1>2, <3>1
      <3>3. \A k \in E : k \in F /\ k <= l /\ k # l
        BY <3>1
      <3> HIDE DEF E, l
      <3>4. CASE <<i, l>> \in R
        <4>1. Best(i, D)
          BY <3>1, <3>2, <3>3, <3>4
        <4> QED BY <3>1, <4>1
      <3>5. CASE <<i, l>> \notin R
        <4>1. <<l, i>> \in R /\ <<l, l>> \in R
          BY <3>1, <3>3, <3>5
        <4>2. ASSUME NEW k \in E PROVE <<l, k>> \in R /\ <<k, l>> \notin R
          <5>1. <<i, k>> \in R /\ i \in F /\ k \in F /\ l \in F
            BY <3>1, <3>2, <3>3
          <5>2. <<l, k>> \in R
            BY <4>1, <5>1
          <5>3. <<k, l>> \notin R
            BY <3>5, <5>1
          <5> QED BY <5>2, <5>3
        <4>3. l <= l
          BY DEF l
        <4>4. Best(l, D)
          BY <3>1, <4>1, <4>2, <4>3
        <4> QED BY <3>1, <4>4
      <3> QED BY <3>4, <3>5
    <2> QED BY <2>1, <2>2, <2>3
  <1> HIDE DEF S
  <1>3. n \in S
    BY <1>1, <1>2, SumLoop!Induct
  <1> QED BY <1>3 DEF S

\* Fractions compared by cross-multiplication are ordered.
LEMMA FractionsOrdered ==
    ASSUME NEW a \in Nat, NEW b \in Nat, NEW c \in Nat,
           NEW x \in Nat \ {0}, NEW y \in Nat \ {0}, NEW z \in Nat \ {0},
           a * y <= b * x, b * z <= c * y
    PROVE  a * z <= c * x
  <1>1. (a * y) * z <= (b * x) * z
    <2> DEFINE p == a * y
               q == b * x
    <2>1. p \in Nat /\ q \in Nat /\ p <= q
      OBVIOUS
    <2> HIDE DEF p, q
    <2>2. p * z <= q * z
      BY <2>1
    <2> QED BY <2>2 DEF p, q
  <1>2. (b * z) * x <= (c * y) * x
    <2> DEFINE p == b * z
               q == c * y
    <2>1. p \in Nat /\ q \in Nat /\ p <= q
      OBVIOUS
    <2> HIDE DEF p, q
    <2>2. p * x <= q * x
      BY <2>1
    <2> QED BY <2>2 DEF p, q
  <1>3. (b * x) * z = (b * z) * x /\ (a * y) * z = (a * z) * y /\ (c * y) * x = (c * x) * y
    OBVIOUS
  <1> DEFINE u == a * z
             v == c * x
  <1>4. u \in Nat /\ v \in Nat
    OBVIOUS
  <1>5. u * y <= v * y
    <2>1. (a * z) * y <= (c * x) * y
      <3> DEFINE p == (a * y) * z
                 q == (b * x) * z
                 r == (c * y) * x
      <3>1. p \in Nat /\ q \in Nat /\ r \in Nat /\ p <= q /\ q <= r
        BY <1>1, <1>2, <1>3
      <3> HIDE DEF p, q, r
      <3>2. p <= r
        BY <3>1
      <3> QED BY <1>3, <3>2 DEF p, r
    <2> QED BY <2>1
  <1> HIDE DEF u, v
  <1>6. u <= v
    <2> SUFFICES ASSUME v < u PROVE FALSE
      BY <1>4
    <2>1. PICK d \in Nat \ {0} : u = v + d
      <3>1. u - v \in Nat \ {0} /\ u = v + (u - v)
        BY <1>4
      <3> QED BY <3>1
    <2>2. u * y = v * y + d * y
      BY <1>4, <2>1
    <2>3. d * y \in Nat \ {0}
      BY <2>1
    <2> DEFINE g == v * y
               h == d * y
    <2>4. g \in Nat
      BY <1>4
    <2> HIDE DEF g, h
    <2>5. g + h <= g
      BY <1>5, <2>2 DEF g, h
    <2>6. h \in Nat \ {0}
      BY <2>3 DEF h
    <2> QED BY <2>4, <2>5, <2>6
  <1> QED BY <1>6 DEF u, v

\* A request is placed where it fits, and nowhere only if it fits nowhere.
LEMMA PlacementFits ==
    ASSUME NEW at \in [1..Z -> Node], NEW len \in Nat
    PROVE  LET j == Placement(at, len, op)
           IN  IF j = 0 THEN \A z \in 1..Z : ~CanFit(at[z], len, op)
                        ELSE j \in 1..Z /\ CanFit(at[j], len, op)
  <1> DEFINE j == Placement(at, len, op)
             F == {z \in DOMAIN at : CanFit(at[z], len, op)}
             off(z) == Abs(at[z].total + len - op.ctx_balance * (Len(at[z].lengths) + 1))
             size(z) == Len(at[z].lengths) + 1
             R == {p \in F \X F : off(p[1]) * size(p[2]) <= off(p[2]) * size(p[1])}
  <1>1. Z \in Nat /\ op.ctx_balance \in Nat /\ DOMAIN at = 1..Z /\ F \subseteq 1..Z
    BY SimNumbers
  <1>2. \A z \in 1..Z : off(z) \in Nat /\ size(z) \in Nat \ {0}
    <2> SUFFICES ASSUME NEW z \in 1..Z PROVE off(z) \in Nat /\ size(z) \in Nat \ {0}
      OBVIOUS
    <2>1. at[z].lengths \in Seq(Nat) /\ at[z].total \in Nat
      BY DEF Node
    <2>2. size(z) \in Nat \ {0}
      BY <2>1
    <2> DEFINE p == op.ctx_balance * size(z)
    <2>3. p \in Nat
      BY <1>1, <2>2
    <2> HIDE DEF p
    <2>4. Abs(at[z].total + len - p) \in Nat
      BY <2>1, <2>3 DEF Abs
    <2> QED BY <2>2, <2>4 DEF p
  <1>3. \A y, z \in F : <<y, z>> \in R <=> NoFurther(at[y], at[z], len, op)
    BY DEF NoFurther
  <1> HIDE DEF off, size
  <1>4. /\ R \in SUBSET (F \X F)
        /\ \A y, z \in F : <<y, z>> \in R <=> off(y) * size(z) <= off(z) * size(y)
    OBVIOUS
  <1> HIDE DEF R
  <1>5. \A y, z \in F : <<y, z>> \in R \/ <<z, y>> \in R
    <2> SUFFICES ASSUME NEW y \in F, NEW z \in F PROVE <<y, z>> \in R \/ <<z, y>> \in R
      OBVIOUS
    <2> DEFINE p == off(y) * size(z)
               q == off(z) * size(y)
    <2>1. p \in Nat /\ q \in Nat
      BY <1>1, <1>2
    <2>2. (<<y, z>> \in R <=> p <= q) /\ (<<z, y>> \in R <=> q <= p)
      BY <1>4
    <2> HIDE DEF p, q
    <2> QED BY <2>1, <2>2
  <1>6. \A x, y, z \in F : <<x, y>> \in R /\ <<y, z>> \in R => <<x, z>> \in R
    <2> SUFFICES ASSUME NEW x \in F, NEW y \in F, NEW z \in F, <<x, y>> \in R, <<y, z>> \in R
                 PROVE  <<x, z>> \in R
      OBVIOUS
    <2>1. /\ off(x) \in Nat /\ off(y) \in Nat /\ off(z) \in Nat
          /\ size(x) \in Nat \ {0} /\ size(y) \in Nat \ {0} /\ size(z) \in Nat \ {0}
      BY <1>1, <1>2
    <2>2. off(x) * size(y) <= off(y) * size(x) /\ off(y) * size(z) <= off(z) * size(y)
      BY <1>4
    <2>3. off(x) * size(z) <= off(z) * size(x)
      BY <2>1, <2>2, FractionsOrdered
    <2> QED BY <1>4, <2>3
  <1> HIDE DEF F
  <1>7. CASE F = {}
    <2>1. j = 0
      BY <1>7 DEF Placement, F
    <2> QED BY <1>1, <1>7, <2>1 DEF F
  <1>8. CASE F # {}
    <2>1. PICK b \in F : \A k \in F : <<b, k>> \in R /\ (<<k, b>> \in R => b <= k)
      <3>1. Z \in Nat /\ F \subseteq 1..Z
        BY <1>1
      <3>2. \A x, k \in F : <<x, k>> \in R \/ <<k, x>> \in R
        BY <1>5
      <3>3. \A i, x, k \in F : <<i, x>> \in R /\ <<x, k>> \in R => <<i, k>> \in R
        BY <1>6
      <3>4. R \in SUBSET (F \X F)
        BY <1>4
      <3> HIDE DEF j
      <3> QED BY <3>1, <3>2, <3>3, <3>4, <1>8, BestExists
    <2>2. \A k \in F : /\ NoFurther(at[b], at[k], len, op)
                       /\ NoFurther(at[k], at[b], len, op) => b <= k
      BY <1>3, <2>1
    <2>3. j = CHOOSE i \in F : \A k \in F :
                 /\ NoFurther(at[i], at[k], len, op)
                 /\ NoFurther(at[k], at[i], len, op) => i <= k
      BY <1>8 DEF Placement, F
    <2>4. j \in F
      <3> HIDE DEF j
      <3> QED BY <2>2, <2>3
    <2>5. j \in 1..Z /\ CanFit(at[j], len, op) /\ j # 0
      BY <1>1, <2>4 DEF F
    <2> QED BY <2>5
  <1> QED BY <1>7, <1>8

\* A sequence of some numbers is a sequence of numbers.
LEMMA SeqOfNumbers ==
    ASSUME NEW T, T \subseteq Nat, NEW s \in Seq(T)
    PROVE  s \in Seq(Nat)
  <1>1. s \in [1..Len(s) -> Nat] /\ Len(s) \in Nat
    <2>1. Len(s) \in Nat /\ s \in [1..Len(s) -> T]
      OBVIOUS
    <2> QED BY <2>1
  <1> DEFINE n == Len(s)
  <1>2. n \in Nat /\ s \in [1..n -> Nat]
    BY <1>1
  <1> HIDE DEF n
  <1> QED BY <1>2

\* Whatever the source samples for a hole fits into the room, or it offers nothing;
\* it does offer something when any of the sample fits.
LEMMA SampleFits ==
    ASSUME NEW sample \in Seq(Nat), NEW ideal \in Nat, NEW room \in Int
    PROVE  LET len == PullSampled(sample, ideal, room)
           IN  /\ len = -1 \/ (len \in Nat /\ len <= room)
               /\ (\E i \in DOMAIN sample : sample[i] <= room) => len \in Nat
  <1> DEFINE fits == {i \in DOMAIN sample : sample[i] <= room}
             gap == [i \in fits |-> Abs(sample[i] - ideal)]
             first == FirstLeast(fits, LAMBDA i : Abs(sample[i] - ideal))
             len == PullSampled(sample, ideal, room)
  <1>1. fits \subseteq Nat /\ \A i \in fits : sample[i] \in Nat /\ sample[i] <= room
    OBVIOUS
  <1>2. CASE fits = {}
    BY <1>2 DEF PullSampled
  <1>3. CASE fits # {}
    <2>1. gap \in [fits -> Nat]
      BY <1>1 DEF Abs
    <2>2. PICK b \in fits : \A k \in fits : gap[b] < gap[k] \/ (gap[b] = gap[k] /\ b <= k)
      <3> HIDE DEF gap, fits
      <3> QED BY <1>1, <1>3, <2>1, LeastIndexExists
    <2>3. first = FirstLeast(fits, LAMBDA i : gap[i])
      BY DEF FirstLeast
    <2>4. first \in fits
      <3> HIDE DEF fits, gap, first
      <3> QED BY <2>2, <2>3 DEF FirstLeast
    <2>5. len = sample[first]
      BY <1>3 DEF PullSampled
    <2> HIDE DEF fits, first, len
    <2>6. len \in Nat /\ len <= room
      BY <1>1, <2>4, <2>5
    <2> QED BY <2>6 DEF len
  <1> QED BY <1>2, <1>3

\* A body of heal_node, with the holes, the samples and the residents that stay in c.
HealBody(c, h, k) ==
    LET healed == HealOne(h.node, c.departed[k], c.samples[k], c.room)
    IN  IF h.stopped \/ h.node.total >= op.node_footprint_cap \/ healed = h.node
        THEN [h EXCEPT !.stopped = TRUE]
        ELSE [h EXCEPT !.node = healed]

HealInv(c, h, k) ==
    /\ h = [node |-> h.node, stopped |-> h.stopped]
    /\ SoundNode(h.node) /\ Len(h.node.lengths) <= c.stay + k

HealLoop == INSTANCE LoopTheory WITH Step <- HealBody, Inv <- HealInv

\* One replacement keeps the node sound if places are left.
LEMMA HealStepKeeps ==
    ASSUME NEW c, NEW k \in Nat, c.stay \in Nat, c.stay + k < op.node_max,
           c.departed[k + 1] \in Nat, c.samples[k + 1] \in Seq(Nat),
           NEW h, HealInv(c, h, k)
    PROVE  HealInv(c, HealBody(c, h, k + 1), k + 1)
  <1> DEFINE node == h.node
             hole == c.departed[k + 1]
             sample == c.samples[k + 1]
             len == PullSampled(sample, hole, op.node_footprint_cap - node.total)
             healed == HealOne(node, hole, sample, c.room)
             next == HealBody(c, h, k + 1)
  <1>1. /\ SoundNode(node) /\ Len(node.lengths) <= c.stay + k
        /\ h = [node |-> h.node, stopped |-> h.stopped]
    BY DEF HealInv
  <1>2. node.total \in Nat /\ node.lengths \in Seq(Nat) /\ Len(node.lengths) \in Nat
    BY <1>1 DEF SoundNode, Node
  <1>3. op.node_footprint_cap \in Nat /\ op.node_max \in Nat
    BY SimNumbers
  <1>4. len = -1 \/ (len \in Nat /\ len <= op.node_footprint_cap - node.total)
    <2>1. op.node_footprint_cap - node.total \in Int
      BY <1>2, <1>3
    <2> QED BY <2>1, SampleFits
  <1> HIDE DEF len
  <1>5. healed = IF len < 0 THEN node ELSE admit(node, len)
    BY DEF HealOne, len
  <1> HIDE DEF node, healed
  <1>6. SoundNode(healed) /\ Len(healed.lengths) <= c.stay + (k + 1)
    <2>1. CASE len = -1
      <3>1. healed = node
        BY <1>5, <2>1
      <3> QED BY <1>1, <1>2, <3>1
    <2>2. CASE len \in Nat /\ len <= op.node_footprint_cap - node.total
      <3>1. healed = admit(node, len)
        BY <1>5, <2>2
      <3>2. CanFit(node, len, op)
        <4>1. node.total + len <= op.node_footprint_cap
          BY <1>2, <1>3, <2>2
        <4>2. Len(node.lengths) < op.node_max
          BY <1>1, <1>2, <1>3
        <4> QED BY <4>1, <4>2 DEF CanFit
      <3>3. SoundNode(admit(node, len)) /\ Len(admit(node, len).lengths) = Len(node.lengths) + 1
        BY <1>1, <2>2, <3>2, AdmitKeeps
      <3> QED BY <1>1, <1>2, <3>1, <3>3
    <2> QED BY <1>4, <2>1, <2>2
  <1>7. Len(node.lengths) <= c.stay + (k + 1)
    BY <1>1, <1>2
  <1>8. CASE next = [h EXCEPT !.stopped = TRUE]
    <2>1. next.node = node /\ next = [node |-> next.node, stopped |-> next.stopped]
      BY <1>1, <1>8 DEF node
    <2> HIDE DEF next
    <2>2. HealInv(c, next, k + 1)
      BY <1>1, <1>7, <2>1 DEF HealInv
    <2> QED BY <2>2 DEF next
  <1>9. CASE next = [h EXCEPT !.node = healed]
    <2>1. next.node = healed /\ next = [node |-> next.node, stopped |-> next.stopped]
      BY <1>1, <1>9
    <2> HIDE DEF next
    <2>2. HealInv(c, next, k + 1)
      BY <1>6, <2>1 DEF HealInv
    <2> QED BY <2>2 DEF next
  <1>10. next = [h EXCEPT !.stopped = TRUE] \/ next = [h EXCEPT !.node = healed]
    BY DEF HealBody, healed, node
  <1> QED BY <1>8, <1>9, <1>10

\* heal_node admits at most one request for each that left, and never past the
\* footprint.
LEMMA HealKeeps ==
    ASSUME NEW node, SoundNode(node), NEW departed \in Seq(Nat),
           Len(node.lengths) + Len(departed) <= op.node_max,
           NEW samples \in [DOMAIN departed -> Samples]
    PROVE  SoundNode(heal_node(node, departed, samples))
  <1> DEFINE n == Len(departed)
             c == [departed |-> departed, samples |-> samples,
                   room |-> op.node_footprint_cap - node.total, stay |-> Len(node.lengths)]
             start == [node |-> node, stopped |-> FALSE]
             end == HealLoop!Loop(c, n, start)
  <1>1. /\ n \in Nat /\ DOMAIN departed = 1..n /\ (\A i \in 1..n : departed[i] \in Nat)
        /\ Len(node.lengths) \in Nat /\ op.node_max \in Nat
    BY SimNumbers DEF SoundNode, Node
  <1>2. \A i \in 1..n : samples[i] \in Seq(Nat)
    <2> SUFFICES ASSUME NEW i \in 1..n PROVE samples[i] \in Seq(Nat)
      OBVIOUS
    <2>1. samples[i] \in Seq(Lengths) /\ Lengths \subseteq Nat
      BY <1>1, SimNumbers
    <2> QED BY <2>1, SeqOfNumbers
  <1>3. heal_node(node, departed, samples) = end.node
    BY DEF heal_node, HealLoop!Loop, HealLoop!Iterate, Iterate, HealBody
  <1>4. /\ c.departed = departed /\ c.samples = samples /\ c.stay = Len(node.lengths)
    OBVIOUS
  <1>5. HealInv(c, start, 0)
    BY <1>1 DEF HealInv
  <1> HIDE DEF c, start
  <1>6. ASSUME NEW k \in 0..(n - 1), NEW h, HealInv(c, h, k)
        PROVE  HealInv(c, HealBody(c, h, k + 1), k + 1)
    <2>1. k \in Nat /\ k + 1 \in 1..n /\ c.stay + k < op.node_max
      BY <1>1, <1>4
    <2> QED BY <1>1, <1>2, <1>4, <1>6, <2>1, HealStepKeeps
  <1> HIDE DEF n
  <1>7. HealInv(c, HealLoop!Loop(c, n, start), n)
    BY <1>1, <1>5, <1>6, HealLoop!LoopInvariant
  <1> QED BY <1>3, <1>7 DEF HealInv

\* The residents at the positions in S.
Part(l, S) == LET at == Only([i \in DOMAIN l |-> i], S) IN [i \in DOMAIN at |-> l[at[i]]]

\* The residents that stay and those that leave make up all of them, and the
\* footprint of a part is no larger.
LEMMA PartKeeps ==
    ASSUME NEW l \in Seq(Nat), NEW S
    PROVE  /\ Part(l, S) \in Seq(Nat) /\ Sum(Part(l, S)) <= Sum(l)
           /\ Sum(Part(l, S)) \in Nat /\ Sum(l) \in Nat
           /\ Len(Part(l, DOMAIN l \ S)) + Len(Part(l, S)) = Len(l)
  <1> DEFINE n == Len(l)
             p == [i \in DOMAIN l |-> i]
             Of(at) == [i \in DOMAIN at |-> l[at[i]]]
             Fine(k) == /\ OnlyTo(p, S, k) \in Seq(1..n) /\ Of(OnlyTo(p, S, k)) \in Seq(Nat)
                        /\ Sum(Of(OnlyTo(p, S, k))) <= SumTo(l, k)
             I == {k \in Nat : k <= n => Fine(k)}
  <1>1. /\ n \in Nat /\ DOMAIN l = 1..n /\ (\A i \in 1..n : l[i] \in Nat)
        /\ p \in Seq(1..n) /\ Len(p) = n /\ DOMAIN p = 1..n /\ \A i \in 1..n : p[i] = i
    OBVIOUS
  <1>2. \A at \in Seq(1..n) : /\ Of(at) \in Seq(Nat) /\ Len(Of(at)) = Len(at)
                             /\ \A i \in 1..Len(at) : Of(at)[i] = l[at[i]]
    <2> SUFFICES ASSUME NEW at \in Seq(1..n)
                 PROVE  /\ Of(at) \in Seq(Nat) /\ Len(Of(at)) = Len(at)
                        /\ \A i \in 1..Len(at) : Of(at)[i] = l[at[i]]
      OBVIOUS
    <2>1. /\ Len(at) \in Nat /\ DOMAIN at = 1..Len(at)
          /\ \A i \in 1..Len(at) : at[i] \in 1..n /\ l[at[i]] \in Nat
      BY <1>1
    <2> QED BY <2>1
  <1> HIDE DEF n, p
  <1>3. 0 \in I
    <2>1. OnlyTo(p, S, 0) = <<>> /\ SumTo(l, 0) = 0
      BY OnlyToStep, SumToStep
    <2>2. Of(<<>>) = <<>>
      OBVIOUS
    <2>3. Sum(<<>>) = 0
      BY SumIsSumTo, SumToStep
    <2> QED BY <2>1, <2>2, <2>3
  <1>4. ASSUME NEW k \in Nat, k \in I PROVE k + 1 \in I
    <2> SUFFICES ASSUME k + 1 <= n PROVE Fine(k + 1)
      OBVIOUS
    <2> DEFINE at == OnlyTo(p, S, k)
               next == OnlyTo(p, S, k + 1)
    <2>1. Fine(k) /\ k + 1 \in 1..n /\ p[k + 1] = k + 1 /\ l[k + 1] \in Nat
      BY <1>1, <1>4
    <2>2. SumTo(l, k + 1) = SumTo(l, k) + l[k + 1]
      BY SumToStep
    <2>3. SumTo(l, k) \in Nat
      <3>1. \A i \in 1..k : l[i] \in Nat
        BY <1>1
      <3> QED BY <3>1, SumOfNumbers
    <2>4. at \in Seq(1..n) /\ Of(at) \in Seq(Nat) /\ Sum(Of(at)) <= SumTo(l, k)
          /\ Sum(Of(at)) \in Nat
      BY <2>1, SumOfAppended
    <2>5. next = IF k + 1 \in S THEN Append(at, k + 1) ELSE at
      BY <2>1, OnlyToStep
    <2>6. CASE k + 1 \in S
      <3>1. next = Append(at, k + 1) /\ next \in Seq(1..n) /\ Len(next) = Len(at) + 1
            /\ (\A i \in 1..Len(at) : next[i] = at[i]) /\ next[Len(at) + 1] = k + 1
        <4>1. next = Append(at, k + 1) /\ at \in Seq(1..n)
          BY <2>4, <2>5, <2>6
        <4> HIDE DEF next, at
        <4> QED BY <2>1, <4>1, Appended
      <3> HIDE DEF next, at
      <3>2. Of(next) = Append(Of(at), l[k + 1])
        <4> DEFINE a == Of(next)
                   b == Append(Of(at), l[k + 1])
                   m == Len(at)
        <4>1. m \in Nat
          BY <2>4
        <4>2. a \in Seq(Nat) /\ Len(a) = m + 1 /\ \A i \in 1..(m + 1) : a[i] = l[next[i]]
          BY <1>2, <3>1
        <4>3. Of(at) \in Seq(Nat) /\ Len(Of(at)) = m /\ \A i \in 1..m : Of(at)[i] = l[at[i]]
          BY <1>2, <2>4
        <4> HIDE DEF a, m
        <4> DEFINE c == Of(at)
        <4> HIDE DEF c
        <4>4. /\ b \in Seq(Nat) /\ Len(b) = m + 1 /\ (\A i \in 1..m : b[i] = l[at[i]])
              /\ b[m + 1] = l[k + 1]
          BY <2>1, <4>1, <4>3, Appended DEF c
        <4> HIDE DEF b
        <4>5. \A i \in 1..(m + 1) : a[i] = b[i]
          <5> SUFFICES ASSUME NEW i \in 1..(m + 1) PROVE a[i] = b[i]
            OBVIOUS
          <5>1. CASE i \in 1..m
            BY <3>1, <4>2, <4>4, <5>1 DEF m
          <5>2. CASE i = m + 1
            BY <3>1, <4>2, <4>4, <5>2 DEF m
          <5> QED BY <4>1, <5>1, <5>2
        <4>6. a = b
          BY <4>1, <4>2, <4>4, <4>5
        <4> QED BY <4>6 DEF a, b, c
      <3> HIDE DEF Of
      <3>3. Sum(Of(next)) = Sum(Of(at)) + l[k + 1] /\ Of(next) \in Seq(Nat)
        <4> DEFINE c == Of(at)
                   e == l[k + 1]
        <4>1. c \in Seq(Nat) /\ e \in Nat /\ Of(next) = Append(c, e)
          BY <2>1, <2>4, <3>2
        <4> HIDE DEF c, e
        <4>2. Sum(Append(c, e)) = Sum(c) + e /\ Append(c, e) \in Seq(Nat)
          BY <4>1, SumOfAppended
        <4> QED BY <4>1, <4>2 DEF c, e
      <3>4. Sum(Of(next)) <= SumTo(l, k + 1)
        BY <2>1, <2>2, <2>3, <2>4, <3>3
      <3> QED BY <3>1, <3>3, <3>4 DEF next
    <2>7. CASE k + 1 \notin S
      <3>1. next = at
        BY <2>5, <2>7
      <3>2. Sum(Of(at)) <= SumTo(l, k + 1)
        <4> HIDE DEF at, Of
        <4> QED BY <2>1, <2>2, <2>3, <2>4
      <3> QED BY <2>4, <3>1, <3>2
    <2> QED BY <2>6, <2>7
  <1>5. n \in I
    <2> HIDE DEF I
    <2> QED BY <1>1, <1>3, <1>4, SumLoop!Induct
  <1>6. Fine(n)
    BY <1>1, <1>5
  <1>7. \A U : Part(l, U) = Of(Only(p, U))
    BY DEF Part, p
  <1>8. Only(p, S) = OnlyTo(p, S, n) /\ Sum(l) = SumTo(l, n)
    BY <1>1, OnlyIsOnlyTo, SumIsSumTo DEF n
  <1>9. Part(l, S) \in Seq(Nat) /\ Sum(Part(l, S)) <= Sum(l)
    BY <1>6, <1>7, <1>8
  <1>10. Sum(Part(l, S)) \in Nat /\ Sum(l) \in Nat
    BY <1>9, SumOfAppended
  <1>11. Len(Part(l, DOMAIN l \ S)) + Len(Part(l, S)) = n
    <2> DEFINE T == DOMAIN l \ S
    <2>1. Only(p, S) \in Seq(1..n) /\ Only(p, T) \in Seq(1..n)
      BY <1>1, OnlyKeeps
    <2>2. Len(Part(l, S)) = Len(Only(p, S)) /\ Len(Part(l, T)) = Len(Only(p, T))
      <3> HIDE DEF Of, T
      <3> QED BY <1>2, <1>7, <2>1
    <2>3. Range(p) = 1..n
      BY <1>1 DEF Range
    <2>4. S \cap Range(p) = Range(p) \ T
      BY <1>1, <2>3
    <2>5. Len(Only(p, T)) + Len(Only(p, S)) = Len(p)
      <3> HIDE DEF T
      <3> QED BY <1>1, <2>4, OnlyKeeps
    <2> QED BY <1>1, <2>2, <2>5
  <1> QED BY <1>9, <1>10, <1>11 DEF n

LEMMA SimInitKeeps == SimInit => SimInv
  <1> SUFFICES ASSUME SimInit PROVE SimInv
    OBVIOUS
  <1> DEFINE n == Z * op.node_max
  <1>1. n \in Nat
    BY SimNumbers
  <1> HIDE DEF n
  <1>2. draw \in Seq(Nat)
    <2>1. draw \in [1..n -> Lengths] /\ Lengths \subseteq Nat
      BY SimNumbers DEF SimInit, SortedDraws, n
    <2>2. draw \in [1..n -> Nat]
      BY <2>1
    <2> QED BY <1>1, <2>2
  <1>3. kept \in Seq(Nat) /\ leftover = {} /\ turn \in 1..Z
    BY SimNumbers DEF SimInit
  <1>4. EmptyNode \in Node /\ SoundNode(EmptyNode)
    <2>1. Sum(<<>>) = 0 /\ Len(<<>>) = 0 /\ <<>> \in Seq(Nat)
      BY SumIsSumTo, SumToStep
    <2>2. EmptyNode.lengths = <<>> /\ EmptyNode.total = 0 /\ EmptyNode \in Node
      BY <2>1 DEF EmptyNode, Node
    <2> QED BY <2>1, <2>2, SimNumbers DEF SoundNode
  <1>5. nodes = [z \in 1..Z |-> EmptyNode]
    BY DEF SimInit
  <1>6. nodes \in [1..Z -> Node] /\ \A z \in 1..Z : SoundNode(nodes[z])
    BY <1>4, <1>5
  <1> QED BY <1>2, <1>3, <1>6 DEF SimInv

LEMMA SimGateKeeps == SimInv /\ Gate => SimInv'
  <1> SUFFICES ASSUME SimInv, Gate PROVE SimInv'
    OBVIOUS
  <1>1. draw \in Seq(Nat) /\ draw # <<>>
    BY DEF SimInv, Gate
  <1>2. kept' \in Seq(Nat)
    BY <1>1, SimNumbers, GateTypes DEF Gate
  <1>3. draw' = <<>> /\ draw' \in Seq(Nat)
    BY DEF Gate
  <1>4. nodes' = nodes /\ leftover' = leftover /\ turn' = turn
    BY DEF Gate
  <1> QED BY <1>1, <1>2, <1>3, <1>4 DEF SimInv, SoundNode

\* What does not fit now does not fit once its node has taken another request.
LEMMA StaysTooLong ==
    ASSUME NEW node \in Node, NEW len \in Nat, NEW other \in Nat, ~CanFit(node, other, op)
    PROVE  ~CanFit(admit(node, len), other, op)
  <1> DEFINE l == node.lengths
             next == admit(node, len)
  <1>1. l \in Seq(Nat) /\ node.total \in Nat
    BY DEF Node
  <1>2. next.lengths = Append(l, len) /\ next.total = node.total + len
    BY DEF admit
  <1>3. Len(Append(l, len)) = Len(l) + 1 /\ Len(l) \in Nat
    BY <1>1, SumOfAppended
  <1>4. ~(node.total + other <= op.node_footprint_cap) \/ ~(Len(l) < op.node_max)
    BY DEF CanFit
  <1> HIDE DEF l, next
  <1>5. ~CanFit(next, other, op)
    BY <1>1, <1>2, <1>3, <1>4, SimNumbers DEF CanFit
  <1> QED BY <1>5 DEF next

\* One placement keeps the nodes sound and whatever is left over out of them.
LEMMA ColdStartKeeps ==
    ASSUME SimInv, ColdStart
    PROVE  /\ SimInv'
           /\ \A len \in leftover', z \in 1..Z : ~CanFit(nodes'[z], len, op)
  <1>1. PICK i \in DOMAIN kept :
            LET j == Placement(nodes, kept[i], op)
            IN  /\ kept' = RemoveAt(kept, i)
                /\ IF j = 0
                   THEN leftover' = leftover \cup {kept[i]} /\ UNCHANGED nodes
                   ELSE nodes' = [nodes EXCEPT ![j] = admit(@, kept[i])] /\ UNCHANGED leftover
                /\ UNCHANGED <<draw, turn>>
    BY DEF ColdStart
  <1> DEFINE e == kept[i]
             j == Placement(nodes, e, op)
  <1>2. /\ kept \in Seq(Nat) /\ kept # <<>> /\ e \in Nat /\ leftover \subseteq Nat
        /\ nodes \in [1..Z -> Node] /\ \A z \in 1..Z : SoundNode(nodes[z])
        /\ \A len \in leftover, z \in 1..Z : ~CanFit(nodes[z], len, op)
    <2>1. kept \in Seq(Nat) /\ leftover \subseteq Nat /\ nodes \in [1..Z -> Node]
      BY DEF SimInv
    <2>2. kept # <<>> /\ e \in Nat
      BY <2>1
    <2> HIDE DEF e
    <2> QED BY <2>1, <2>2 DEF SimInv
  <1>3. kept' \in Seq(Nat)
    <2>1. kept' = SubSeq(kept, 1, i - 1) \o SubSeq(kept, i + 1, Len(kept))
      BY <1>1 DEF RemoveAt
    <2>2. SubSeq(kept, 1, i - 1) \in Seq(Nat) /\ SubSeq(kept, i + 1, Len(kept)) \in Seq(Nat)
      BY <1>2
    <2> QED BY <2>1, <2>2
  <1>4. draw' = draw /\ turn' = turn /\ draw \in Seq(Nat) /\ turn \in 1..Z
    BY <1>1 DEF SimInv
  <1>5. IF j = 0 THEN \A z \in 1..Z : ~CanFit(nodes[z], e, op)
                 ELSE j \in 1..Z /\ CanFit(nodes[j], e, op)
    <2> HIDE DEF e
    <2> QED BY <1>2, PlacementFits
  <1>6. IF j = 0 THEN leftover' = leftover \cup {e} /\ nodes' = nodes
                 ELSE nodes' = [nodes EXCEPT ![j] = admit(nodes[j], e)] /\ leftover' = leftover
    BY <1>1
  <1> HIDE DEF e, j
  <1>7. /\ leftover' \subseteq Nat /\ nodes' \in [1..Z -> Node]
        /\ (\A z \in 1..Z : SoundNode(nodes'[z]))
        /\ \A len \in leftover', z \in 1..Z : ~CanFit(nodes'[z], len, op)
    <2>1. CASE j = 0
      BY <1>2, <1>5, <1>6, <2>1
    <2>2. CASE j # 0
      <3> DEFINE next == admit(nodes[j], e)
      <3>1. j \in 1..Z /\ nodes[j] \in Node /\ CanFit(nodes[j], e, op) /\ SoundNode(nodes[j])
        BY <1>2, <1>5, <2>2
      <3>2. SoundNode(next) /\ next \in Node
        BY <1>2, <3>1, AdmitKeeps DEF SoundNode
      <3>3. \A len \in leftover : ~CanFit(next, len, op)
        BY <1>2, <3>1, StaysTooLong
      <3>4. nodes' = [nodes EXCEPT ![j] = next] /\ leftover' = leftover
        BY <1>6, <2>2
      <3> HIDE DEF next
      <3>5. \A z \in 1..Z : nodes'[z] = IF z = j THEN next ELSE nodes[z]
        BY <1>2, <3>4
      <3>6. nodes' \in [1..Z -> Node]
        BY <1>2, <3>2, <3>4
      <3> QED BY <1>2, <3>2, <3>3, <3>4, <3>5, <3>6
    <2> QED BY <2>1, <2>2
  <1> QED BY <1>3, <1>4, <1>7 DEF SimInv, SoundNode

\* A round of one node: at most as many come as left, into the room they left.
LEMMA ChurnKeeps == SimInv /\ Churn => SimInv'
  <1> SUFFICES ASSUME SimInv, Churn PROVE SimInv'
    OBVIOUS
  <1> DEFINE l == nodes[turn].lengths
  <1>1. PICK gone \in SUBSET DOMAIN l :
            \E samples \in [DOMAIN Part(l, gone) -> Samples] :
                nodes' = [nodes EXCEPT ![turn] =
                    heal_node([lengths |-> Part(l, DOMAIN l \ gone),
                               total |-> Sum(Part(l, DOMAIN l \ gone))],
                              Part(l, gone), samples)]
    BY DEF Churn, Part
  <1> DEFINE stay == Part(l, DOMAIN l \ gone)
             departed == Part(l, gone)
             node == [lengths |-> stay, total |-> Sum(stay)]
  <1>2. PICK samples \in [DOMAIN departed -> Samples] :
            nodes' = [nodes EXCEPT ![turn] = heal_node(node, departed, samples)]
    BY <1>1
  <1>3. /\ turn \in 1..Z /\ nodes \in [1..Z -> Node] /\ (\A z \in 1..Z : SoundNode(nodes[z]))
        /\ leftover \subseteq Nat
    BY DEF SimInv
  <1>4. /\ l \in Seq(Nat) /\ nodes[turn].total = Sum(l)
        /\ Len(l) <= op.node_max /\ nodes[turn].total <= op.node_footprint_cap
    BY <1>3 DEF SoundNode, Node
  <1> HIDE DEF l
  <1>5. /\ stay \in Seq(Nat) /\ Sum(stay) \in Nat /\ Sum(stay) <= Sum(l) /\ Sum(l) \in Nat
        /\ departed \in Seq(Nat) /\ Len(stay) + Len(departed) = Len(l)
    BY <1>4, PartKeeps
  <1> HIDE DEF stay, departed
  <1>6. Len(stay) \in Nat /\ Len(departed) \in Nat
    BY <1>5
  <1>7. SoundNode(node)
    <2>1. node \in Node /\ node.lengths = stay /\ node.total = Sum(stay)
      BY <1>5 DEF Node
    <2>2. Len(stay) <= op.node_max /\ Sum(stay) <= op.node_footprint_cap
      BY <1>4, <1>5, <1>6, SimNumbers
    <2> QED BY <2>1, <2>2 DEF SoundNode
  <1>8. Len(node.lengths) + Len(departed) <= op.node_max
    BY <1>4, <1>5
  <1> HIDE DEF node
  <1>9. SoundNode(heal_node(node, departed, samples))
    BY <1>5, <1>7, <1>8, HealKeeps
  <1> DEFINE next == heal_node(node, departed, samples)
  <1>10. next \in Node /\ SoundNode(next) /\ nodes' = [nodes EXCEPT ![turn] = next]
    BY <1>2, <1>9 DEF SoundNode
  <1> HIDE DEF next
  <1>11. nodes' \in [1..Z -> Node] /\ \A z \in 1..Z : SoundNode(nodes'[z])
    <2>1. \A z \in 1..Z : nodes'[z] = IF z = turn THEN next ELSE nodes[z]
      BY <1>3, <1>10
    <2>2. nodes' \in [1..Z -> Node]
      BY <1>3, <1>10
    <2> QED BY <1>3, <1>10, <2>1, <2>2
  <1>12. turn' \in 1..Z
    <2>1. turn' = (turn % Z) + 1
      BY DEF Churn
    <2>2. turn % Z \in 0..(Z - 1)
      BY <1>3, SimNumbers
    <2> QED BY <2>1, <2>2, SimNumbers
  <1>13. draw' = <<>> /\ kept' = <<>> /\ leftover' = leftover
    BY DEF Churn
  <1>14. draw' \in Seq(Nat) /\ kept' \in Seq(Nat)
    BY <1>13
  <1> QED BY <1>3, <1>11, <1>12, <1>13, <1>14 DEF SimInv, SoundNode

\* Every state of the simulation has sound nodes.
THEOREM NodesStaySound == SimSpec => []SimInv
  <1>1. SimInv /\ UNCHANGED simVars => SimInv'
    BY DEF SimInv, SoundNode, simVars
  <1>2. SimInv /\ [SimNext]_simVars => SimInv'
    BY <1>1, SimGateKeeps, ColdStartKeeps, ChurnKeeps DEF SimNext
  <1> QED BY <1>2, SimInitKeeps, PTL DEF SimSpec

\* Neither the placement nor any sequence of completions and replacements takes a
\* node past its count or its footprint (global_scheduler.cpp:37, 72-77).
THEOREM NodesStayWithinCaps == SimSpec => []NodesWithinCaps
  <1>1. SimInv => NodesWithinCaps
    BY DEF SimInv, SoundNode, NodesWithinCaps
  <1> QED BY <1>1, NodesStaySound, PTL

\* What cold_start counts as leftover fits nowhere, in whatever order the requests
\* are placed (global_scheduler.cpp:45-61).
THEOREM LeftoversAreCorrect == SimSpec => LeftoversFitNowhere
  <1>1. SimInv /\ [SimNext]_simVars =>
            [ColdStart => \A len \in leftover', z \in 1..Z : ~CanFit(nodes'[z], len, op)]_simVars
    BY ColdStartKeeps
  <1> QED BY <1>1, NodesStaySound, PTL DEF SimSpec, LeftoversFitNowhere

\* What the gate keeps has a mean within the band, and no larger part of the draw,
\* chosen in whatever way, does (global_scheduler.cpp:15-16).
THEOREM GateShedsTheFewest == SimSpec => GateShedsFewest
  <1>1. SimInv /\ [SimNext]_simVars =>
            [Gate => Balanced(Sum(kept'), Len(kept'), op) /\ NoLargerPart(Len(kept'))]_simVars
    <2> SUFFICES ASSUME SimInv, Gate
                 PROVE  Balanced(Sum(kept'), Len(kept'), op) /\ NoLargerPart(Len(kept'))
      OBVIOUS
    <2>1. draw \in Seq(Nat) /\ kept' = gate(draw, op).kept
      BY DEF SimInv, Gate
    <2> QED BY <2>1, GateKeepsMost, SimNumbers DEF NoLargerPart
  <1> QED BY <1>1, NodesStaySound, PTL DEF SimSpec, GateShedsFewest

\* When the check reports two batches on the operating point, the node really holds
\* two disjoint sets of residents of that size and KV (global_scheduler.cpp:85-87).
THEOREM OnPointBatchesExist == SimSpec => []OnPointIsReal
  <1>1. SimInv => OnPointIsReal
    <2> SUFFICES ASSUME SimInv, NEW z \in 1..Z, onpoint_batches(nodes[z], op, 2) = 2
                 PROVE  LET lengths == nodes[z].lengths
                            fine == {S \in SUBSET DOMAIN lengths :
                                        OnPoint(Cardinality(S), SumAt(lengths, S), op)}
                        IN  \E S \in fine, T \in fine : S \cap T = {}
      BY DEF OnPointIsReal
    <2>1. nodes[z].lengths \in Seq(Nat)
      BY DEF SimInv, Node
    <2>2. op.decode_count_target \in Nat
      BY SimAssumption DEF SimAssumption
    <2> QED BY <2>1, <2>2, TwoBatchesAreReal
  <1> QED BY <1>1, NodesStaySound, PTL

-----------------------------------------------------------------------------
(* The decode pool of Lifecycle.                                           *)

PoolMember == [prompt : Nat, dtot : Nat, dec : Nat, wait : Nat]

\* The decode pool is never too large, and full once the rounds have begun.
DecodeInv ==
    /\ dec \in Seq(PoolMember) /\ rdy \in Seq(Row) /\ it \in Nat
    /\ Len(dec) <= op.decode_pool
    /\ it > 0 => Len(dec) = op.decode_pool

\* The numbers among the constants.
LEMMA DecodeNumbers ==
    /\ op.decode_pool \in Nat \ {0} /\ op.ctx_balance \in Nat /\ op.edge_band \in Nat
    /\ DecodeLengths \subseteq Nat /\ DecodeFloor \in Nat /\ cap_room \in Nat
    /\ Lengths \subseteq Nat /\ Samples \subseteq Seq(Lengths)
  <1>1. /\ op.decode_pool \in Nat \ {0} /\ op.ctx_balance \in Nat /\ op.edge_band \in Nat
        /\ DecodeLengths \subseteq Nat /\ DecodeFloor \in Nat
        /\ Lengths \subseteq Nat /\ Samples \subseteq Seq(Lengths)
    <2>1. op.decode_pool \in Nat \ {0} /\ op.ctx_balance \in Nat /\ DecodeFloor \in Nat
      BY LifecycleAssumption DEF LifecycleAssumption
    <2>2. op.edge_band \in Nat /\ DecodeLengths \subseteq Nat
      BY LifecycleAssumption DEF LifecycleAssumption
    <2>3. Lengths \subseteq Nat /\ Samples \subseteq Seq(Lengths)
      BY SimulationAssumption DEF SimulationAssumption
    <2> QED BY <2>1, <2>2, <2>3
  <1>2. op.decode_pool * op.ctx_balance \in Nat
    BY <1>1
  <1> DEFINE room == op.decode_pool * op.ctx_balance
  <1> HIDE DEF room
  <1>3. room * 4 \in Nat
    BY <1>2 DEF room
  <1> QED BY <1>1, <1>3 DEF cap_room, room

\* A sorted draw of any size.
LEMMA DrawTypes ==
    ASSUME NEW n \in Nat, NEW d \in SortedDraws(Lengths, n)
    PROVE  d \in Seq(Nat)
  <1>1. d \in [1..n -> Lengths] /\ Lengths \subseteq Nat
    BY DecodeNumbers DEF SortedDraws
  <1>2. d \in [1..n -> Nat]
    BY <1>1
  <1> QED BY <1>2

\* A new decoder.
LEMMA NewPoolMember ==
    ASSUME NEW r, r.prompt \in Nat, r.dtot \in Nat
    PROVE  NewDecoder(r) \in PoolMember
  BY DEF NewDecoder, PoolMember

\* A source that is never dry has one decoder for every hole.
LEMMA SourceAdmits ==
    ASSUME SourceNeverDry, NEW hole \in Nat, NEW sample \in Samples
    PROVE  /\ Admitted(hole, sample) \in Seq(PoolMember) /\ Len(Admitted(hole, sample)) = 1
           /\ Admitted(hole, sample) # <<>>
  <1> DEFINE p == PullSampled(sample, hole, cap_room)
             r == [prompt |-> p, dtot |-> SourceDecodes(p, DecodeFloor)]
             q == NewDecoder(r)
  <1>1. sample \in Seq(Nat)
    BY DecodeNumbers, SeqOfNumbers
  <1>2. (\E i \in DOMAIN sample : sample[i] <= cap_room) /\ cap_room \in Int
    BY DecodeNumbers DEF SourceNeverDry
  <1>3. p \in Nat
    BY <1>1, <1>2, SampleFits
  <1> HIDE DEF p
  <1>4. Admitted(hole, sample) = <<q>>
    <2>1. ~(p < 0)
      BY <1>3
    <2> QED BY <2>1 DEF Admitted, p
  <1>5. r.prompt \in Nat /\ r.dtot \in Nat
    BY <1>3, DecodeNumbers DEF SourceDecodes
  <1> HIDE DEF r
  <1>6. q \in PoolMember
    BY <1>5, NewPoolMember
  <1> HIDE DEF q
  <1> QED BY <1>4, <1>6

LEMMA DecodeInit == Init => DecodeInv
  <1> SUFFICES ASSUME Init PROVE DecodeInv
    OBVIOUS
  <1> DEFINE n == 2 * op.decode_pool
  <1>1. n \in Nat
    BY DecodeNumbers
  <1> HIDE DEF n
  <1>2. PICK d \in SortedDraws(Lengths, n) : \E start \in ColdStarts(d, 1, op) :
            \E dtots \in [DOMAIN start[1] -> DecodeLengths] :
                dec = [i \in DOMAIN start[1] |->
                          NewDecoder([prompt |-> start[1][i], dtot |-> dtots[i]])]
    BY DEF Init, n
  <1>3. PICK start \in ColdStarts(d, 1, op) :
            \E dtots \in [DOMAIN start[1] -> DecodeLengths] :
                dec = [i \in DOMAIN start[1] |->
                          NewDecoder([prompt |-> start[1][i], dtot |-> dtots[i]])]
    BY <1>2
  <1> DEFINE l == start[1]
  <1>4. l \in Seq(Nat) /\ Len(l) <= op.decode_pool
    <2>1. d \in Seq(Nat) /\ 1 \in 1..1
      BY <1>1, DrawTypes
    <2> QED BY <2>1, DecodeNumbers, ColdStartTypes
  <1>5. PICK dtots \in [DOMAIN l -> DecodeLengths] :
            dec = [i \in DOMAIN l |-> NewDecoder([prompt |-> l[i], dtot |-> dtots[i]])]
    BY <1>3
  <1> HIDE DEF l
  <1>6. ASSUME NEW i \in DOMAIN l
        PROVE  NewDecoder([prompt |-> l[i], dtot |-> dtots[i]]) \in PoolMember
    <2>1. l[i] \in Nat
      BY <1>4, SeqElements
    <2>2. dtots[i] \in DecodeLengths
      BY <1>5
    <2>3. dtots[i] \in Nat
      BY <2>2, DecodeNumbers
    <2> QED BY <2>1, <2>3, NewPoolMember
  <1>7. dec \in Seq(PoolMember) /\ Len(dec) = Len(l)
    <2>1. DOMAIN l = 1..Len(l) /\ Len(l) \in Nat
      BY <1>4
    <2>2. dec \in [1..Len(l) -> PoolMember]
      BY <1>5, <1>6, <2>1
    <2> QED BY <2>1, <2>2
  <1>8. rdy \in Seq(Row) /\ it = 0
    BY DEF Init
  <1> QED BY <1>4, <1>7, <1>8 DEF DecodeInv

\* The cold start adds a decoder at a time.
LEMMA TopUpKeeps ==
    ASSUME SourceNeverDry, DecodeInv, TopUp
    PROVE  DecodeInv'
  <1>1. /\ dec \in Seq(PoolMember) /\ rdy \in Seq(Row) /\ it = 0 /\ Len(dec) < op.decode_pool
        /\ rdy' = rdy /\ it' = it /\ Len(dec) \in Nat
    BY DEF DecodeInv, TopUp
  <1>2. PICK hole \in {dec[i].prompt : i \in DOMAIN dec} \cup
                      (IF dec = <<>> THEN {op.ctx_balance} ELSE {}),
             sample \in Samples : dec' = dec \o Admitted(hole, sample)
    BY DEF TopUp
  <1>3. hole \in Nat
    <2>1. \A i \in DOMAIN dec : dec[i].prompt \in Nat
      <3>1. \A q \in PoolMember : q.prompt \in Nat
        BY DEF PoolMember
      <3> QED BY <1>1, <3>1, SeqElements
    <2> QED BY <1>2, <2>1, DecodeNumbers
  <1> DEFINE t == Admitted(hole, sample)
  <1>4. t \in Seq(PoolMember) /\ Len(t) = 1
    BY <1>2, <1>3, SourceAdmits
  <1> HIDE DEF t
  <1>5. dec' \in Seq(PoolMember) /\ Len(dec') = Len(dec) + 1
    <2>1. dec' = dec \o t
      BY <1>2 DEF t
    <2>2. dec \o t \in Seq(PoolMember) /\ Len(dec \o t) = Len(dec) + Len(t)
      BY <1>1, <1>4, Joined
    <2> QED BY <1>4, <2>1, <2>2
  <1>6. Len(dec') <= op.decode_pool /\ ~(it' > 0) /\ it' \in Nat
    BY <1>1, <1>5, DecodeNumbers
  <1> QED BY <1>1, <1>5, <1>6 DEF DecodeInv

\* A round moves every decoder on or lets it wait.
LEMMA AdvancedTypes == DecodeInv => Advanced \in Seq(PoolMember) /\ Len(Advanced) = Len(dec)
  <1> SUFFICES ASSUME DecodeInv PROVE Advanced \in Seq(PoolMember) /\ Len(Advanced) = Len(dec)
    OBVIOUS
  <1> DEFINE used == RoundMembers(Decoders, op)
             e(i) == IF i \in used THEN [dec[i] EXCEPT !.dec = @ + 1, !.wait = 0]
                                   ELSE [dec[i] EXCEPT !.wait = @ + 1]
             t == Advanced
  <1>1. Len(dec) \in Nat /\ DOMAIN dec = 1..Len(dec) /\ \A i \in 1..Len(dec) : dec[i] \in PoolMember
    BY DEF DecodeInv
  <1> HIDE DEF used
  <1>2. \A i \in 1..Len(dec) : e(i) \in PoolMember
    <2> SUFFICES ASSUME NEW i \in 1..Len(dec) PROVE e(i) \in PoolMember
      OBVIOUS
    <2> DEFINE q == dec[i]
    <2>1. q \in PoolMember
      BY <1>1
    <2> HIDE DEF q
    <2>2. q.dec + 1 \in Nat /\ q.wait + 1 \in Nat
      BY <2>1 DEF PoolMember
    <2>3. [q EXCEPT !.dec = @ + 1, !.wait = 0] \in PoolMember
      BY <2>1, <2>2 DEF PoolMember
    <2>4. [q EXCEPT !.wait = @ + 1] \in PoolMember
      BY <2>1, <2>2 DEF PoolMember
    <2> QED BY <2>3, <2>4 DEF q
  <1>3. t = [i \in 1..Len(dec) |-> e(i)]
    BY <1>1 DEF Advanced, AdvancedBy, used
  <1> HIDE DEF e, t
  <1>4. t \in Seq(PoolMember) /\ Len(t) = Len(dec)
    BY <1>1, <1>2, <1>3
  <1> QED BY <1>4 DEF t

\* Who leaves the pool and who stays make up the pool.
LEMMA PoolParts ==
    ASSUME NEW p \in Seq(PoolMember)
    PROVE  /\ Leavers(p) \in Seq(PoolMember) /\ Stayers(p) \in Seq(PoolMember)
           /\ Len(Leavers(p)) \in Nat /\ Len(Stayers(p)) \in Nat
           /\ Len(Stayers(p)) + Len(Leavers(p)) = Len(p)
  <1> DEFINE V == {q \in Range(p) : ~Done(q)}
             W == {q \in Range(p) : Done(q)}
  <1>1. W \cap Range(p) = Range(p) \ V
    OBVIOUS
  <1>2. Leavers(p) = Only(p, W) /\ Stayers(p) = Only(p, V)
    BY DEF Leavers, Stayers
  <1> HIDE DEF V, W
  <1> QED BY <1>1, <1>2, OnlyKeeps

\* A hole, with the decoders that leave, what is sampled for their places, how
\* many stay and how many prompts are ready in c.
HoleBody(c, h, k) == HealHole(h, c.gone[k].prompt, c.samples[k])

\* k holes are filled, from the stack while that lasts.
HoleInv(c, h, k) ==
    /\ h = [dec |-> h.dec, rdy |-> h.rdy, dry |-> FALSE]
    /\ h.dec \in Seq(PoolMember) /\ Len(h.dec) = c.stay + k
    /\ h.rdy \in Seq(Row) /\ Len(h.rdy) = IF c.ready > k THEN c.ready - k ELSE 0

HoleLoop == INSTANCE LoopTheory WITH Step <- HoleBody, Inv <- HoleInv

LEMMA HoleStepKeeps ==
    ASSUME SourceNeverDry, NEW c, c.stay \in Nat, c.ready \in Nat, NEW k \in Nat,
           c.gone[k + 1].prompt \in Nat, c.samples[k + 1] \in Samples, NEW h, HoleInv(c, h, k)
    PROVE  HoleInv(c, HoleBody(c, h, k + 1), k + 1)
  <1> DEFINE d == h.dec
             r == h.rdy
             m == k + 1
             hole == c.gone[m].prompt
             sample == c.samples[m]
             next == HealHole(h, hole, sample)
             Left(i) == IF c.ready > i THEN c.ready - i ELSE 0
  <1>1. /\ h = [dec |-> d, rdy |-> r, dry |-> FALSE] /\ h.dry = FALSE
        /\ d \in Seq(PoolMember) /\ Len(d) = c.stay + k
        /\ r \in Seq(Row) /\ Len(r) = Left(k) /\ m \in Nat /\ m = k + 1
    BY DEF HoleInv
  <1>2. hole \in Nat /\ sample \in Samples
    OBVIOUS
  <1>3. HoleBody(c, h, k + 1) = next
    BY DEF HoleBody
  <1> HIDE DEF hole, sample, m, d, r
  <1>4. CASE r # <<>>
    <2> DEFINE e == NewDecoder(Last(r))
               f == Front(r)
    <2>1. next = [h EXCEPT !.dec = Append(@, e), !.rdy = f]
      BY <1>1, <1>4 DEF HealHole, Transition, r
    <2>2. Len(r) \in Nat /\ Len(r) > 0 /\ f \in Seq(Row) /\ Len(f) = Len(r) - 1
      BY <1>1, <1>4 DEF Front
    <2>3. e \in PoolMember
      <3>1. Last(r) \in Row
        BY <1>1, <2>2 DEF Last
      <3>2. Last(r).prompt \in Nat /\ Last(r).dtot \in Nat
        BY <3>1, DecodeNumbers DEF Row
      <3> QED BY <3>2, NewPoolMember
    <2> HIDE DEF e, f
    <2>4. Append(d, e) \in Seq(PoolMember) /\ Len(Append(d, e)) = Len(d) + 1
      BY <1>1, <2>3, Appended
    <2>5. next = [dec |-> Append(d, e), rdy |-> f, dry |-> FALSE]
      BY <1>1, <2>1
    <2>6. Len(f) = Left(m) /\ Len(Append(d, e)) = c.stay + m
      <3>1. Len(f) = Left(m)
        BY <1>1, <2>2
      <3> HIDE DEF next, Left
      <3>2. Len(Append(d, e)) = c.stay + m
        BY <1>1, <2>4
      <3> QED BY <3>1, <3>2
    <2> HIDE DEF next, Left
    <2>7. HoleInv(c, next, m)
      BY <2>2, <2>4, <2>5, <2>6 DEF HoleInv, Left
    <2> QED BY <1>1, <1>3, <2>7 DEF m
  <1>5. CASE r = <<>>
    <2> DEFINE t == Admitted(hole, sample)
    <2>1. next = [h EXCEPT !.dec = @ \o t, !.dry = (t = <<>>)]
      BY <1>1, <1>5 DEF HealHole, r
    <2>2. t \in Seq(PoolMember) /\ Len(t) = 1 /\ t # <<>>
      BY <1>2, SourceAdmits
    <2> HIDE DEF t
    <2>3. d \o t \in Seq(PoolMember) /\ Len(d \o t) = Len(d) + Len(t)
      BY <1>1, <2>2, Joined
    <2>4. (t = <<>>) = FALSE
      BY <2>2
    <2>5. next = [dec |-> d \o t, rdy |-> r, dry |-> FALSE]
      BY <1>1, <2>1, <2>4
    <2>6. Len(d \o t) = c.stay + m
      BY <1>1, <2>2, <2>3
    <2>7. Len(r) = Left(m)
      BY <1>1, <1>5
    <2> HIDE DEF next, Left
    <2>8. HoleInv(c, next, m)
      BY <1>1, <2>3, <2>5, <2>6, <2>7 DEF HoleInv, Left
    <2> QED BY <1>1, <1>3, <2>8 DEF m
  <1> QED BY <1>4, <1>5

\* With the pool full, the stack is left alone.
AbsorbBody(c, g, k) ==
    IF Len(g.dec) < op.decode_pool /\ g.rdy # <<>> THEN Transition(g) ELSE g
AbsorbInv(c, g, k) == g = c
AbsorbLoop == INSTANCE LoopTheory WITH Step <- AbsorbBody, Inv <- AbsorbInv

LEMMA NothingToAbsorb ==
    ASSUME NEW h, Len(h.dec) = op.decode_pool
    PROVE  Absorb(h) = h
  <1> DEFINE n == op.decode_pool
  <1>1. n \in Nat /\ ~(n < n)
    BY DecodeNumbers
  <1>2. AbsorbInv(h, h, 0)
    BY DEF AbsorbInv
  <1>3. ASSUME NEW k \in 0..(n - 1), NEW g, AbsorbInv(h, g, k)
        PROVE  AbsorbInv(h, AbsorbBody(h, g, k + 1), k + 1)
    BY <1>1, <1>3 DEF AbsorbInv, AbsorbBody
  <1>4. Absorb(h) = AbsorbLoop!Loop(h, n, h)
    BY DEF Absorb, AbsorbLoop!Loop, AbsorbLoop!Iterate, Iterate, AbsorbBody
  <1> HIDE DEF n
  <1>5. AbsorbInv(h, AbsorbLoop!Loop(h, n, h), n)
    BY <1>1, <1>2, <1>3, AbsorbLoop!LoopInvariant
  <1> QED BY <1>4, <1>5 DEF AbsorbInv

\* A round fills every hole.
LEMMA RoundFills ==
    ASSUME SourceNeverDry, FillingInv, DecodeInv, Round
    PROVE  LET ready == Len(rdy) + Len(Finished(Prefilled))
               holes == Len(Leavers(Advanced))
           IN  /\ dec' \in Seq(PoolMember) /\ Len(dec') = op.decode_pool
               /\ rdy' \in Seq(Row) /\ Len(rdy') = IF ready > holes THEN ready - holes ELSE 0
               /\ it' = it + 1
  <1> DEFINE a == Advanced
             gone == Leavers(a)
             stay == Stayers(a)
             fin == Finished(Prefilled)
             n == Len(gone)
             ready == Len(rdy) + Len(fin)
             opened == [dec |-> stay, rdy |-> rdy \o fin, dry |-> FALSE]
  <1>1. PICK samples \in [DOMAIN gone -> Samples] :
            LET Step(h, k) == HealHole(h, gone[k].prompt, samples[k])
                healed == Absorb(Iterate(Len(gone), Step, opened))
            IN  dec' = healed.dec /\ rdy' = healed.rdy
    BY Zenon DEF Round
  <1> DEFINE c == [gone |-> gone, samples |-> samples, stay |-> Len(stay), ready |-> ready]
             end == HoleLoop!Loop(c, n, opened)
  <1>2. dec' = Absorb(end).dec /\ rdy' = Absorb(end).rdy
    BY <1>1 DEF HoleLoop!Loop, HoleLoop!Iterate, Iterate, HoleBody
  <1>3. dec \in Seq(PoolMember) /\ rdy \in Seq(Row) /\ Len(rdy) \in Nat /\ Len(dec) = op.decode_pool
    <2>1. CASE it > 0
      BY <2>1 DEF DecodeInv
    <2>2. CASE ~(it > 0)
      <3>1. ColdStartOver
        BY <2>2 DEF Round
      <3>2. \A sample \in Samples : Admitted(op.ctx_balance, sample) # <<>>
        BY DecodeNumbers, SourceAdmits
      <3> QED BY <3>1, <3>2 DEF ColdStartOver, DecodeInv
    <2> QED BY <2>1, <2>2
  <1>4. a \in Seq(PoolMember) /\ Len(a) = op.decode_pool
    BY <1>3, AdvancedTypes
  <1>5. fin \in Seq(Row) /\ Len(fin) \in Nat
    <2> DEFINE p == Prefilled
               V == {r \in Range(p) : Whole(r)}
    <2>1. p \in Seq(Row) /\ fin = Only(p, V)
      BY PrefilledTypes DEF Finished
    <2> HIDE DEF p, V, fin
    <2> QED BY <2>1, OnlyKeeps
  <1> HIDE DEF a, fin
  <1>6. /\ gone \in Seq(PoolMember) /\ stay \in Seq(PoolMember) /\ n \in Nat /\ Len(stay) \in Nat
        /\ Len(stay) + n = op.decode_pool
    BY <1>4, PoolParts
  <1>7. /\ DOMAIN gone = 1..n /\ (\A i \in 1..n : gone[i].prompt \in Nat)
        /\ \A i \in 1..n : samples[i] \in Samples
    <2>1. DOMAIN gone = 1..n /\ \A i \in 1..n : gone[i] \in PoolMember
      BY <1>6, SeqElements
    <2>2. \A q \in PoolMember : q.prompt \in Nat
      BY DEF PoolMember
    <2> QED BY <1>1, <2>1, <2>2
  <1>8. rdy \o fin \in Seq(Row) /\ Len(rdy \o fin) = ready /\ ready \in Nat
    <2>1. rdy \o fin \in Seq(Row) /\ Len(rdy \o fin) = Len(rdy) + Len(fin)
      BY <1>3, <1>5, Joined
    <2> QED BY <1>3, <1>5, <2>1
  <1>9. /\ c.gone = gone /\ c.samples = samples /\ c.stay = Len(stay) /\ c.ready = ready
    OBVIOUS
  <1> DEFINE s == rdy \o fin
  <1>10. opened = [dec |-> stay, rdy |-> s, dry |-> FALSE]
    OBVIOUS
  <1> HIDE DEF s
  <1>11. s \in Seq(Row) /\ Len(s) = ready
    BY <1>8 DEF s
  <1> HIDE DEF gone, stay, c, opened, ready
  <1>12. HoleInv(c, opened, 0)
    <2>1. Len(stay) = c.stay + 0 /\ Len(s) = IF c.ready > 0 THEN c.ready - 0 ELSE 0
      BY <1>6, <1>8, <1>9, <1>11
    <2> QED BY <1>6, <1>10, <1>11, <2>1 DEF HoleInv
  <1>13. ASSUME NEW k \in 0..(n - 1), NEW h, HoleInv(c, h, k)
         PROVE  HoleInv(c, HoleBody(c, h, k + 1), k + 1)
    <2>1. k \in Nat /\ k + 1 \in 1..n
      BY <1>6
    <2>2. c.gone[k + 1].prompt \in Nat /\ c.samples[k + 1] \in Samples
      BY <1>7, <1>9, <2>1
    <2> QED BY <1>6, <1>8, <1>9, <1>13, <2>1, <2>2, HoleStepKeeps
  <1> HIDE DEF n
  <1>14. HoleInv(c, end, n)
    BY <1>6, <1>12, <1>13, HoleLoop!LoopInvariant
  <1> HIDE DEF end
  <1>15. /\ end.dec \in Seq(PoolMember) /\ Len(end.dec) = op.decode_pool /\ end.rdy \in Seq(Row)
         /\ Len(end.rdy) = IF ready > n THEN ready - n ELSE 0
    BY <1>6, <1>9, <1>14 DEF HoleInv
  <1>16. dec' = end.dec /\ rdy' = end.rdy
    BY <1>2, <1>15, NothingToAbsorb
  <1>17. it' = it + 1
    BY DEF Round
  <1> QED BY <1>15, <1>16, <1>17 DEF ready, n, gone, a, fin

LEMMA DecodeStepKeeps ==
    ASSUME SourceNeverDry, FillingInv, DecodeInv, [Next]_vars
    PROVE  DecodeInv'
  <1>1. CASE TopUp
    BY <1>1, TopUpKeeps
  <1>2. CASE Round
    <2>1. /\ dec' \in Seq(PoolMember) /\ Len(dec') = op.decode_pool
          /\ rdy' \in Seq(Row) /\ it' = it + 1
      BY <1>2, RoundFills
    <2>2. it' \in Nat /\ Len(dec') <= op.decode_pool
      BY <2>1, DecodeNumbers DEF DecodeInv
    <2> QED BY <2>1, <2>2 DEF DecodeInv
  <1>3. CASE UNCHANGED vars
    BY <1>3 DEF vars, DecodeInv
  <1> QED BY <1>1, <1>2, <1>3 DEF Next

\* The decode pool is full from the first round on, for every pool, whatever the
\* source draws while it has something short enough.
THEOREM PoolStaysFull == ASSUME SourceNeverDry PROVE Spec => []DecodeInv
  <1>1. FillingInv /\ DecodeInv /\ [Next]_vars => DecodeInv'
    BY DecodeStepKeeps
  <1> QED BY <1>1, DecodeInit, FillingInvariant, PTL DEF Spec

\* Finished prompts take the places of the decoders that leave, the latest first,
\* the source fills only what they leave open, and the pool is full after every
\* round (lifecycle.cpp:366-401).
THEOREM PlacesAreTaken == ASSUME SourceNeverDry PROVE Spec => PlacesGoToTheReady
  <1>1. FillingInv /\ DecodeInv /\ [Next]_vars =>
            [Round =>
                LET ready == Len(rdy) + Len(Finished(Prefilled))
                    holes == Len(Leavers(Advanced))
                IN  /\ Len(rdy') = IF ready > holes THEN ready - holes ELSE 0
                    /\ Len(dec') = op.decode_pool]_vars
    <2> SUFFICES ASSUME FillingInv, DecodeInv, Round
                 PROVE  LET ready == Len(rdy) + Len(Finished(Prefilled))
                            holes == Len(Leavers(Advanced))
                        IN  /\ Len(rdy') = IF ready > holes THEN ready - holes ELSE 0
                            /\ Len(dec') = op.decode_pool
      OBVIOUS
    <2> QED BY RoundFills
  <1> QED BY <1>1, PoolStaysFull, FillingInvariant, PTL DEF Spec, PlacesGoToTheReady
=============================================================================
