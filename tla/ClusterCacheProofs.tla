-------------------------- MODULE ClusterCacheProofs --------------------------
(***************************************************************************)
(* For any conversations, nodes, lengths, budgets and idle limits: what the *)
(* cache calls a hit is warm, and the cache is a store that loses a         *)
(* conversation's KV only when nobody used it for long enough; for that the *)
(* byte counters play no part, since a budget cut only demotes.  Then the   *)
(* counters: they equal the entries and keep to the budgets, and a cut      *)
(* takes the least recent and no more than it must.                         *)
(***************************************************************************)
EXTENDS ClusterCache, OperatorProofs

\* Every entry is one; it is as old as its conversation is untouched; in HBM it
\* is eligible and warm.
EntryInv(id) ==
    /\ idx[id] \in Entry \cup {Gone}
    /\ idx[id] # Gone => idx[id].idle = untouched[id]
    /\ idx[id].tier = "HBM" =>
           idx[id].len > eligibility_threshold /\ idx[id].idle <= evict_age

CacheInv ==
    /\ idx = [id \in Ids |-> idx[id]]
    /\ untouched \in [Ids -> Nat]
    /\ \A id \in Ids : EntryInv(id)

\* The four constants that are numbers, one fact each.
LEMMA Numbers ==
    /\ node_capacity \in Nat /\ eligibility_threshold \in Nat
    /\ evict_age \in Nat /\ gone_age \in Nat
    /\ Lens \subseteq Nat
  BY CacheAssumption DEF CacheAssumption

\* No entry is Gone, whatever its tier.
LEMMA EntryIsNotGone ==
    ASSUME NEW e \in Entry
    PROVE  e # Gone /\ e.tier \in {"HBM", "SSD"} /\ e.idle \in Nat /\ e.len \in Nat
  <1>1. e.tier \in {"HBM", "SSD"} /\ e.idle \in Nat /\ e.len \in Nat
    BY Numbers DEF Entry
  <1>2. Gone.tier = "Gone"
    BY DEF Gone
  <1>3. e # Gone
    BY <1>1, <1>2
  <1> QED BY <1>1, <1>3

LEMMA InitInv == Init => CacheInv
  <1> SUFFICES ASSUME Init PROVE CacheInv
    OBVIOUS
  <1>1. Gone.tier = "Gone"
    BY DEF Gone
  <1>2. \A id \in Ids : idx[id] = Gone
    BY DEF Init
  <1>3. \A id \in Ids : EntryInv(id)
    BY <1>1, <1>2 DEF EntryInv
  <1>4. idx = [id \in Ids |-> idx[id]] /\ untouched \in [Ids -> Nat]
    BY DEF Init
  <1> QED BY <1>3, <1>4 DEF CacheInv

\* What a completion makes of the entries: one is new, the others are kept.
LEMMA OnComplete ==
    ASSUME CacheInv, NEW node \in Nodes, NEW id \in Ids, NEW len \in Lens,
           on_complete(node, id, len)
    PROVE  /\ idx' = [i \in Ids |-> idx'[i]]
           /\ \A i \in Ids \ {id} : idx'[i] = idx[i]
           /\ idx'[id] \in Entry /\ idx'[id].idle = 0
           /\ idx'[id].tier = "HBM" => idx'[id].len > eligibility_threshold
  <1> DEFINE used == Reclaimed(cache, node, id)
             admitted == Admits(cache, used, node, len, eligibility_threshold)
             entry == [tier |-> IF admitted THEN "HBM" ELSE "SSD",
                       node |-> node, len |-> len, idle |-> 0]
  <1>1. DOMAIN cache.idx = Ids /\ cache.idx = idx
    BY DEF CacheInv, cache
  <1>2. idx' = [i \in Ids |-> IF i = id THEN entry ELSE idx[i]]
    BY <1>1 DEF on_complete, Becomes, Recorded
  <1>3. admitted => len > eligibility_threshold
    BY DEF Admits
  <1>4. entry \in Entry /\ entry.idle = 0 /\ entry.len = len
    BY DEF Entry
  <1>5. entry.tier = "HBM" => admitted
    OBVIOUS
  <1> HIDE DEF used, admitted, entry
  <1> QED BY <1>2, <1>3, <1>4, <1>5

\* A lookup of an entry that exists makes it young and changes nothing else.
LEMMA Lookup ==
    ASSUME CacheInv, NEW id \in Ids, lookup(id)
    PROVE  /\ idx[id] \in Entry
           /\ idx' = [idx EXCEPT ![id].idle = 0]
  <1>1. cache.idx = idx /\ DOMAIN cache.idx = Ids
    BY DEF CacheInv, cache
  <1>2. idx[id] # Gone /\ idx[id] \in Entry
    BY DEF CacheInv, EntryInv, lookup
  <1>3. Touched(cache, id) = [cache EXCEPT !.idx[id].idle = 0]
    BY <1>1, <1>2 DEF Touched, Find
  <1>4. Touched(cache, id).idx = [idx EXCEPT ![id].idle = 0]
    BY <1>3 DEF cache
  <1> QED BY <1>2, <1>4 DEF lookup, Becomes

\* A budget cut demotes entries of the HBM, and touches no other.
LEMMA EnforceBudget ==
    ASSUME CacheInv, NEW node \in Nodes, NEW wanted \in Budgets,
           enforce_budget(node, wanted)
    PROVE  /\ idx' = [id \in Ids |-> idx'[id]]
           /\ \A id \in Ids : \/ idx'[id] = idx[id]
                              \/ idx[id].tier = "HBM" /\ idx'[id] = Demote(idx[id])
  <1>1. cache.idx = idx /\ DOMAIN cache.idx = Ids
    BY DEF CacheInv, cache
  <1>2. PICK rank : Becomes(Enforced(cache, node, wanted, rank))
    BY DEF enforce_budget
  <1> DEFINE cut == Cut(cache, node, Limit(wanted), rank)
  <1>3. \A id \in cut : idx[id].tier = "HBM"
    BY <1>1 DEF Cut, Resident
  <1>4. idx' = [id \in Ids |-> IF id \in cut THEN Demote(idx[id]) ELSE idx[id]]
    BY <1>1, <1>2 DEF Becomes, Enforced
  <1> HIDE DEF cut
  <1> QED BY <1>3, <1>4

\* A round ages every entry.
LEMMA EvictTick ==
    ASSUME CacheInv, evict_tick
    PROVE  idx' = [id \in Ids |-> Aged(idx[id])]
  <1>1. cache.idx = idx /\ DOMAIN cache.idx = Ids
    BY DEF CacheInv, cache
  <1> QED BY <1>1 DEF evict_tick, Becomes, Ticked

\* A demoted entry is the entry, on SSD.
LEMMA Demoted ==
    ASSUME NEW e \in Entry
    PROVE  Demote(e) \in Entry /\ Demote(e).tier = "SSD" /\ Demote(e).idle = e.idle
  BY DEF Demote, Entry

\* What a round makes of an entry: it leaves HBM when it has been idle for more
\* than evict_age rounds and is lost from SSD after gone_age; else it is older.
LEMMA AgedEntry ==
    ASSUME NEW e \in Entry
    PROVE  \/ /\ Aged(e) = Gone /\ e.tier = "SSD" /\ e.idle >= gone_age
           \/ /\ Aged(e) \in Entry
              /\ Aged(e).idle = e.idle + 1
              /\ Aged(e).tier = "HBM" =>
                     e.tier = "HBM" /\ Aged(e).len = e.len /\ e.idle + 1 <= evict_age
              /\ e.tier = "SSD" => e.idle + 1 <= gone_age
  <1> DEFINE older == [e EXCEPT !.idle = @ + 1]
  <1>1. older \in Entry /\ older.tier = e.tier /\ older.len = e.len /\ older.idle = e.idle + 1
    BY DEF Entry
  <1>2. e # Gone /\ e.tier \in {"HBM", "SSD"} /\ e.idle \in Nat
    BY EntryIsNotGone
  <1>3. CASE e.tier = "HBM"
    <2>1. Aged(e) = IF older.idle > evict_age THEN Demote(older) ELSE older
      BY <1>2, <1>3 DEF Aged
    <2> HIDE DEF older
    <2>2. CASE older.idle > evict_age
      BY <1>1, <1>3, <2>1, <2>2, Demoted
    <2>3. CASE ~(older.idle > evict_age)
      BY <1>1, <1>2, <1>3, <2>1, <2>3, Numbers
    <2> QED BY <2>2, <2>3
  <1>4. CASE e.tier = "SSD"
    <2>1. Aged(e) = IF older.idle > gone_age THEN Gone ELSE older
      BY <1>2, <1>4 DEF Aged
    <2> HIDE DEF older
    <2> QED BY <1>1, <1>2, <1>4, <2>1, Numbers
  <1> QED BY <1>2, <1>3, <1>4

-----------------------------------------------------------------------------
(* The invariant is inductive, and each action is one of the store's. *)

Kept == {id \in Ids : idx[id] # Gone}

StoreStep ==
    \/ \E id \in Ids : Store!Save(id) \/ Store!Use(id)
    \/ Store!Round
    \/ UNCHANGED <<Kept, untouched>>

\* A completion saves the conversation's KV.
LEMMA OnCompleteStep ==
    ASSUME CacheInv, NEW node \in Nodes, NEW id \in Ids, NEW len \in Lens,
           on_complete(node, id, len), Touch(id)
    PROVE  CacheInv' /\ Store!Save(id)
  <1>1. /\ idx' = [i \in Ids |-> idx'[i]]
        /\ \A i \in Ids \ {id} : idx'[i] = idx[i]
        /\ idx'[id] \in Entry /\ idx'[id].idle = 0
        /\ idx'[id].tier = "HBM" => idx'[id].len > eligibility_threshold
    BY OnComplete
  <1>2. /\ untouched' \in [Ids -> Nat] /\ untouched'[id] = 0
        /\ \A i \in Ids \ {id} : untouched'[i] = untouched[i]
    BY DEF CacheInv, Touch
  <1>3. idx'[id] # Gone
    BY <1>1, EntryIsNotGone
  <1>4. ASSUME NEW i \in Ids PROVE EntryInv(i)'
    <2>1. CASE i = id
      BY <1>1, <1>2, <2>1, Numbers DEF EntryInv
    <2>2. CASE i # id
      BY <1>1, <1>2, <2>2 DEF EntryInv, CacheInv
    <2> QED BY <2>1, <2>2
  <1>5. Kept' = Kept \cup {id}
    BY <1>1, <1>3 DEF Kept
  <1> QED BY <1>1, <1>2, <1>4, <1>5 DEF CacheInv, Touch, Store!Save, Kept

\* A lookup uses a conversation's KV, which exists.
LEMMA LookupStep ==
    ASSUME CacheInv, NEW id \in Ids, lookup(id), Touch(id)
    PROVE  CacheInv' /\ Store!Use(id)
  <1> DEFINE young == [idx[id] EXCEPT !.idle = 0]
  <1>1. idx[id] \in Entry /\ idx' = [idx EXCEPT ![id].idle = 0]
    BY Lookup
  <1>2. idx' = [i \in Ids |-> IF i = id THEN young ELSE idx[i]]
    BY <1>1 DEF CacheInv
  <1>3. /\ young \in Entry /\ young.idle = 0
        /\ young.tier = idx[id].tier /\ young.len = idx[id].len
    BY <1>1 DEF Entry
  <1>4. /\ untouched' \in [Ids -> Nat] /\ untouched'[id] = 0
        /\ \A i \in Ids \ {id} : untouched'[i] = untouched[i]
    BY DEF CacheInv, Touch
  <1> HIDE DEF young
  <1>5. idx[id] # Gone /\ idx'[id] # Gone
    BY <1>1, <1>2, <1>3, EntryIsNotGone
  <1>6. ASSUME NEW i \in Ids PROVE EntryInv(i)'
    <2>1. CASE i = id
      BY <1>2, <1>3, <1>4, <2>1, Numbers DEF EntryInv, CacheInv
    <2>2. CASE i # id
      BY <1>2, <1>4, <2>2 DEF EntryInv, CacheInv
    <2> QED BY <2>1, <2>2
  <1>7. Kept' = Kept /\ id \in Kept
    BY <1>2, <1>5 DEF Kept
  <1>8. idx' = [i \in Ids |-> idx'[i]]
    BY <1>2
  <1> QED BY <1>4, <1>6, <1>7, <1>8 DEF CacheInv, Touch, Store!Use, Kept

\* A budget cut loses nothing: the store does not see it.
LEMMA EnforceBudgetStep ==
    ASSUME CacheInv, NEW node \in Nodes, NEW wanted \in Budgets,
           enforce_budget(node, wanted), UNCHANGED untouched
    PROVE  CacheInv' /\ UNCHANGED <<Kept, untouched>>
  <1>1. /\ idx' = [id \in Ids |-> idx'[id]]
        /\ \A id \in Ids : \/ idx'[id] = idx[id]
                           \/ idx[id].tier = "HBM" /\ idx'[id] = Demote(idx[id])
    BY EnforceBudget
  <1>2. Gone.tier = "Gone"
    BY DEF Gone
  <1>3. ASSUME NEW id \in Ids PROVE EntryInv(id)' /\ (idx'[id] = Gone <=> idx[id] = Gone)
    <2>1. EntryInv(id)
      BY DEF CacheInv
    <2>2. CASE idx'[id] = idx[id]
      BY <2>1, <2>2 DEF EntryInv
    <2>3. CASE idx[id].tier = "HBM" /\ idx'[id] = Demote(idx[id])
      <3>1. idx[id] \in Entry
        BY <1>2, <2>1, <2>3 DEF EntryInv
      <3>2. idx'[id] \in Entry /\ idx'[id].tier = "SSD" /\ idx'[id].idle = idx[id].idle
        BY <2>3, <3>1, Demoted
      <3>3. idx[id] # Gone /\ idx'[id] # Gone
        BY <3>1, <3>2, EntryIsNotGone
      <3> QED BY <2>1, <3>2, <3>3 DEF EntryInv
    <2> QED BY <1>1, <2>2, <2>3
  <1> QED BY <1>1, <1>3 DEF CacheInv, Kept

\* A round of the cache is a round of the store: what it loses is old enough,
\* what it keeps is not too old.
LEMMA EvictTickStep ==
    ASSUME CacheInv, evict_tick, Wait
    PROVE  CacheInv' /\ Store!Round
  <1> DEFINE MaxLife == IF evict_age < gone_age THEN gone_age ELSE evict_age + 1
  <1>1. idx' = [id \in Ids |-> Aged(idx[id])]
    BY EvictTick
  <1>2. untouched' = [id \in Ids |-> IF idx'[id] = Gone THEN 0 ELSE untouched[id] + 1]
    BY DEF Wait
  <1>3. untouched' \in [Ids -> Nat]
    BY <1>2 DEF CacheInv
  <1>4. Gone.tier = "Gone"
    BY DEF Gone
  <1>5. ASSUME NEW id \in Ids
        PROVE  /\ EntryInv(id)'
               /\ idx'[id] # Gone => idx[id] # Gone /\ untouched'[id] <= MaxLife
               /\ idx[id] # Gone /\ idx'[id] = Gone => untouched[id] >= gone_age
    <2>1. EntryInv(id) /\ untouched[id] \in Nat /\ idx'[id] = Aged(idx[id])
      BY <1>1 DEF CacheInv
    <2>2. CASE idx[id] = Gone
      <3>1. Aged(Gone) = Gone
        BY <1>4 DEF Aged
      <3> QED BY <1>4, <2>1, <2>2, <3>1 DEF EntryInv
    <2>3. CASE idx[id] \in Entry
      <3>1. idx[id] # Gone /\ idx[id].tier \in {"HBM", "SSD"} /\ idx[id].idle = untouched[id]
        BY <2>1, <2>3, EntryIsNotGone DEF EntryInv
      <3>2. CASE Aged(idx[id]) = Gone /\ idx[id].idle >= gone_age
        BY <1>4, <2>1, <3>1, <3>2 DEF EntryInv
      <3>3. CASE /\ Aged(idx[id]) \in Entry
                 /\ Aged(idx[id]).idle = idx[id].idle + 1
                 /\ Aged(idx[id]).tier = "HBM" =>
                        /\ idx[id].tier = "HBM" /\ Aged(idx[id]).len = idx[id].len
                        /\ idx[id].idle + 1 <= evict_age
                 /\ idx[id].tier = "SSD" => idx[id].idle + 1 <= gone_age
        <4>1. idx'[id] # Gone
          BY <2>1, <3>3, EntryIsNotGone
        <4>2. untouched'[id] = untouched[id] + 1
          BY <1>2, <4>1
        <4>3. untouched'[id] <= MaxLife
          BY <2>1, <3>1, <3>3, <4>2, Numbers DEF EntryInv
        <4> QED BY <2>1, <3>1, <3>3, <4>1, <4>2, <4>3 DEF EntryInv
      <3> QED BY <2>3, <3>2, <3>3, AgedEntry
    <2> QED BY <2>1, <2>2, <2>3 DEF EntryInv
  <1>6. CacheInv'
    BY <1>1, <1>3, <1>5 DEF CacheInv
  <1>7. Store!Round
    <2> DEFINE lost == Kept \ Kept'
    <2>1. lost \in SUBSET {id \in Kept : untouched[id] >= gone_age}
      BY <1>5 DEF Kept
    <2>2. Kept' = Kept \ lost
      BY <1>5 DEF Kept
    <2>3. untouched' = [id \in Ids |-> IF id \in Kept' THEN untouched[id] + 1 ELSE 0]
      BY <1>2 DEF Kept
    <2>4. \A id \in Kept' : untouched'[id] <= MaxLife
      BY <1>5 DEF Kept
    <2> QED BY <2>1, <2>2, <2>3, <2>4 DEF Store!Round, Kept
  <1> QED BY <1>6, <1>7

\* One case per disjunct of Next.
LEMMA NextStep == CacheInv /\ [Next]_vars => CacheInv' /\ StoreStep
  <1> SUFFICES ASSUME CacheInv, [Next]_vars PROVE CacheInv' /\ StoreStep
    OBVIOUS
  <1>1. ASSUME NEW node \in Nodes, NEW id \in Ids, NEW len \in Lens,
               on_complete(node, id, len), Touch(id)
        PROVE  CacheInv' /\ StoreStep
    BY <1>1, OnCompleteStep DEF StoreStep
  <1>2. ASSUME NEW id \in Ids, lookup(id), Touch(id)
        PROVE  CacheInv' /\ StoreStep
    BY <1>2, LookupStep DEF StoreStep
  <1>3. ASSUME NEW node \in Nodes, NEW wanted \in Budgets,
               enforce_budget(node, wanted), UNCHANGED untouched
        PROVE  CacheInv' /\ StoreStep
    BY <1>3, EnforceBudgetStep DEF StoreStep
  <1>4. CASE evict_tick /\ Wait
    BY <1>4, EvictTickStep DEF StoreStep
  <1>5. CASE UNCHANGED vars
    BY <1>5 DEF CacheInv, EntryInv, StoreStep, Kept, vars, cacheVars
  <1> QED BY <1>1, <1>2, <1>3, <1>4, <1>5 DEF Next

\* Whatever the cache calls an HBM hit is long enough and was used in the last
\* evict_age rounds, after any order of completions, lookups, cuts and rounds.
THEOREM HitsAreWarmHolds == Spec => []HitsAreWarm
  <1>1. CacheInv => HitsAreWarm
    BY DEF CacheInv, EntryInv, HitsAreWarm
  <1> QED BY <1>1, InitInv, NextStep, PTL DEF Spec

\* The cache implements the store: its three tiers, its budgets and its cuts
\* never lose a conversation's KV that was used in the last gone_age rounds, and
\* never keep one for longer than the limits allow.
THEOREM CacheImplementsKvStore == Spec => ImplementsKvStore
  <1>1. Init => Store!Init
    BY DEF Init, Store!Init
  <1>2. StoreStep => [Store!Next]_<<Kept, untouched>>
    BY DEF StoreStep, Store!Next
  <1>3. CacheInv /\ [Next]_vars => [Store!Next]_<<Kept, untouched>>
    BY <1>2, NextStep
  <1> QED BY <1>1, <1>3, InitInv, NextStep, PTL DEF Spec, ImplementsKvStore, Store!Spec, Kept
-----------------------------------------------------------------------------
(* The byte counters: an invariant of its own, from the accounts of        *)
(* OperatorProofs.                                                         *)

ByteInv ==
    /\ DOMAIN idx = Ids
    /\ Accounted(cache, Nodes)
    /\ WithinBudget

\* A step of the cache replaces its state.
LEMMA CacheAfter ==
    ASSUME NEW c, c = [idx |-> c.idx, used |-> c.used, budget |-> c.budget], Becomes(c)
    PROVE  cache' = c
  BY DEF Becomes, cache

\* No entry, no byte.
LEMMA InitBytes == Init => ByteInv
  <1> SUFFICES ASSUME Init PROVE ByteInv
    OBVIOUS
  <1>1. /\ cache.idx = idx /\ cache.used = node_used /\ cache.budget = node_budget
        /\ cache = [idx |-> cache.idx, used |-> cache.used, budget |-> cache.budget]
    BY DEF cache
  <1>2. /\ idx = [id \in Ids |-> Gone] /\ node_used \in [Nodes -> Nat] /\ node_budget \in [Nodes -> Nat]
        /\ \A n \in Nodes : node_used[n] = 0 /\ node_used[n] <= node_budget[n]
    BY Numbers DEF Init
  <1>3. IsFiniteSet(Ids)
    BY CacheAssumption DEF CacheAssumption
  <1>4. \A n : Resident(idx, n) = {}
    BY <1>2 DEF Resident, Gone
  <1>5. \A n : Bytes(idx, Resident(idx, n)) = 0
    <2>1. Bytes(idx, {}) = 0
      BY FS_EmptySet, SumUnfold
    <2> QED BY <1>4, <2>1
  <1>6. DOMAIN idx = Ids /\ idx = [id \in Ids |-> idx[id]] /\ \A id \in Ids : idx[id] = Gone
    BY <1>2
  <1>7. Accounted(cache, Nodes)
    BY <1>1, <1>2, <1>3, <1>5, <1>6 DEF Accounted
  <1> QED BY <1>2, <1>6, <1>7 DEF ByteInv, WithinBudget

\* A completion keeps the counters right and within the budgets.
LEMMA OnCompleteBytes ==
    ASSUME ByteInv, NEW node \in Nodes, NEW id \in Ids, NEW len \in Lens, on_complete(node, id, len)
    PROVE  ByteInv' /\ node_budget' = node_budget
  <1> DEFINE d == Recorded(cache, node, id, len, eligibility_threshold)
  <1>1. len \in Nat
    BY Numbers
  <1>2. /\ Accounted(d, Nodes) /\ d.budget = cache.budget /\ DOMAIN d.idx = DOMAIN cache.idx \cup {id}
        /\ \A n \in Nodes : d.used[n] <= cache.used[n] \/ (n = node /\ d.used[n] <= cache.budget[n])
    BY <1>1, RecordedAccounts DEF ByteInv
  <1> HIDE DEF d
  <1>3. Becomes(d)
    BY DEF on_complete, d
  <1>4. cache' = d
    BY <1>2, <1>3, CacheAfter DEF Accounted
  <1>5. idx' = d.idx /\ node_used' = d.used /\ node_budget' = d.budget
    BY <1>3 DEF Becomes
  <1>6. cache.idx = idx /\ cache.used = node_used /\ cache.budget = node_budget
    BY DEF cache
  <1>7. DOMAIN idx' = Ids
    BY <1>2, <1>5, <1>6 DEF ByteInv
  <1>8. ASSUME NEW n \in Nodes PROVE d.used[n] <= d.budget[n]
    <2>1. cache.used[n] <= cache.budget[n]
      BY <1>6 DEF ByteInv, WithinBudget
    <2>2. d.used[n] \in Nat /\ cache.used[n] \in Nat /\ cache.budget[n] \in Nat
      BY <1>2 DEF ByteInv, Accounted
    <2>3. d.used[n] <= cache.used[n] \/ d.used[n] <= cache.budget[n]
      BY <1>2
    <2>4. d.budget[n] = cache.budget[n]
      BY <1>2
    <2> QED BY <2>1, <2>2, <2>3, <2>4
  <1> QED BY <1>2, <1>4, <1>5, <1>6, <1>7, <1>8 DEF ByteInv, WithinBudget

\* A lookup touches no byte.
LEMMA LookupBytes ==
    ASSUME ByteInv, NEW id \in Ids, lookup(id)
    PROVE  ByteInv' /\ node_budget' = node_budget
  <1> DEFINE d == Touched(cache, id)
  <1>1. /\ Accounted(d, Nodes) /\ d.used = cache.used /\ d.budget = cache.budget
        /\ DOMAIN d.idx = DOMAIN cache.idx
    BY TouchedAccounts DEF ByteInv
  <1> HIDE DEF d
  <1>2. Becomes(d)
    BY DEF lookup, d
  <1>3. cache' = d
    BY <1>1, <1>2, CacheAfter DEF Accounted
  <1>4. idx' = d.idx /\ node_used' = d.used /\ node_budget' = d.budget
    BY <1>2 DEF Becomes
  <1>5. cache.idx = idx /\ cache.used = node_used /\ cache.budget = node_budget
    BY DEF cache
  <1> QED BY <1>1, <1>3, <1>4, <1>5 DEF ByteInv, WithinBudget

\* A round only takes bytes away.
LEMMA EvictTickBytes ==
    ASSUME ByteInv, evict_tick
    PROVE  ByteInv' /\ node_budget' = node_budget
  <1> DEFINE d == Ticked(cache)
  <1>1. /\ Accounted(d, Nodes) /\ d.budget = cache.budget /\ DOMAIN d.idx = DOMAIN cache.idx
        /\ \A n \in Nodes : d.used[n] <= cache.used[n]
    BY TickedAccounts DEF ByteInv
  <1> HIDE DEF d
  <1>2. Becomes(d)
    BY DEF evict_tick, d
  <1>3. cache' = d
    BY <1>1, <1>2, CacheAfter DEF Accounted
  <1>4. idx' = d.idx /\ node_used' = d.used /\ node_budget' = d.budget
    BY <1>2 DEF Becomes
  <1>5. cache.idx = idx /\ cache.used = node_used /\ cache.budget = node_budget
    BY DEF cache
  <1>6. ASSUME NEW n \in Nodes PROVE d.used[n] <= d.budget[n]
    <2>1. cache.used[n] <= cache.budget[n]
      BY <1>5 DEF ByteInv, WithinBudget
    <2>2. d.used[n] \in Nat /\ cache.used[n] \in Nat /\ cache.budget[n] \in Nat
      BY <1>1 DEF ByteInv, Accounted
    <2>3. d.used[n] <= cache.used[n] /\ d.budget[n] = cache.budget[n]
      BY <1>1
    <2> QED BY <2>1, <2>2, <2>3
  <1> QED BY <1>1, <1>3, <1>4, <1>5, <1>6 DEF ByteInv, WithinBudget

\* What a budget cut takes from one node: the part of CutsAreLeastRecent about it.
CutIsLeastRecent(node) ==
    LET left == Resident(idx, node) \ Resident(idx', node)
        stays == Resident(idx', node)
    IN  /\ \A a \in left, b \in stays : idx[a].idle >= idx[b].idle
        /\ left # {} => \E a \in left :
               /\ \A b \in left : idx[b].idle >= idx[a].idle
               /\ node_used'[node] + idx[a].len > node_budget'[node]

\* A budget cut meets the budget it sets, at the least recent entries of that node alone.
LEMMA EnforceBudgetBytes ==
    ASSUME ByteInv, NEW node \in Nodes, NEW wanted \in Budgets, enforce_budget(node, wanted)
    PROVE  ByteInv' /\ \A n \in Nodes : CutIsLeastRecent(n)
  <1>1. PICK rank \in Bijection(Ids, 1..Cardinality(Ids)) : Becomes(Enforced(cache, node, wanted, rank))
    BY DEF enforce_budget
  <1>2. cache.idx = idx /\ cache.used = node_used /\ cache.budget = node_budget
    BY DEF cache
  <1>3. Ranked(rank, Resident(cache.idx, node))
    <2>1. rank \in [Ids -> 1..Cardinality(Ids)] /\ \A a, b \in Ids : rank[a] = rank[b] => a = b
      BY <1>1 DEF Bijection, Injection, IsInjective
    <2>2. Resident(cache.idx, node) \subseteq Ids
      BY <1>2 DEF ByteInv, Resident
    <2>3. Cardinality(Ids) \in Nat
      BY CacheAssumption, FS_CardinalityType DEF CacheAssumption
    <2>4. \A a \in Ids : rank[a] \in Int
      BY <2>1, <2>3
    <2> QED BY <2>1, <2>2, <2>4 DEF Ranked
  <1> DEFINE d == Enforced(cache, node, wanted, rank)
             limit == Limit(wanted)
             cut == Cut(cache, node, limit, rank)
  <1>4. wanted \in Int /\ limit \in Nat
    BY CacheAssumption DEF CacheAssumption, Limit
  <1>5. /\ Accounted(d, Nodes) /\ DOMAIN d.idx = DOMAIN cache.idx
        /\ d.budget = [cache.budget EXCEPT ![node] = limit]
        /\ d.used[node] = cache.used[node] - Bytes(cache.idx, cut)
        /\ d.used[node] <= limit
        /\ \A n \in Nodes : n # node => d.used[n] = cache.used[n]
        /\ \A n \in Nodes : Resident(d.idx, n) = Resident(cache.idx, n) \ cut
    BY <1>3, <1>4, EnforcedAccounts DEF ByteInv
  <1> HIDE DEF limit
  <1>6. /\ cut \in SUBSET Resident(cache.idx, node)
        /\ \A a \in cut, b \in Resident(cache.idx, node) : b \in cut \/ OldestFirst(cache.idx, a, b, rank)
        /\ cut # {} => \E a \in cut :
              /\ \A b \in cut : cache.idx[b].idle >= cache.idx[a].idle
              /\ cache.used[node] - Bytes(cache.idx, cut) + cache.idx[a].len > limit
    BY <1>3, <1>4, CutIsBeginning, CutMeetsLimit DEF ByteInv
  <1>7. \A a, b \in Resident(cache.idx, node) :
            OldestFirst(cache.idx, a, b, rank) => cache.idx[a].idle >= cache.idx[b].idle
    BY <1>3, CutOrder DEF ByteInv
  <1> HIDE DEF d, cut
  <1>8. Becomes(d)
    BY <1>1 DEF d
  <1>9. cache' = d
    BY <1>5, <1>8, CacheAfter DEF Accounted
  <1>10. idx' = d.idx /\ node_used' = d.used /\ node_budget' = d.budget
    BY <1>8 DEF Becomes
  <1>11. node_budget \in [Nodes -> Nat]
    BY <1>2 DEF ByteInv, Accounted
  <1>12. ASSUME NEW n \in Nodes PROVE d.used[n] <= d.budget[n]
    <2>1. CASE n = node
      BY <1>2, <1>5, <1>11, <2>1
    <2>2. CASE n # node
      BY <1>2, <1>5, <1>11, <2>2 DEF ByteInv, WithinBudget
    <2> QED BY <2>1, <2>2
  <1>13. ByteInv'
    BY <1>2, <1>5, <1>9, <1>10, <1>12 DEF ByteInv, WithinBudget
  <1>14. ASSUME NEW n \in Nodes PROVE CutIsLeastRecent(n)
    <2>1. Resident(idx', n) = Resident(idx, n) \ cut
      BY <1>2, <1>5, <1>10
    <2>2. CASE n = node
      <3>1. Resident(idx, n) \ Resident(idx', n) = cut
        BY <1>2, <1>6, <2>1, <2>2
      <3>2. \A a \in cut, b \in Resident(idx', n) : idx[a].idle >= idx[b].idle
        BY <1>2, <1>6, <1>7, <2>1, <2>2
      <3>3. node_budget'[n] = limit /\ node_used'[n] = node_used[n] - Bytes(idx, cut)
        BY <1>2, <1>5, <1>10, <1>11, <2>2
      <3>4. cut # {} => \E a \in cut : /\ \A b \in cut : idx[b].idle >= idx[a].idle
                                       /\ node_used'[n] + idx[a].len > node_budget'[n]
        BY <1>2, <1>6, <2>2, <3>3
      <3> QED BY <3>1, <3>2, <3>4 DEF CutIsLeastRecent
    <2>3. CASE n # node
      <3>1. Resident(idx, n) \cap cut = {}
        BY <1>2, <1>6, <2>3 DEF Resident
      <3>2. Resident(idx, n) \ Resident(idx', n) = {}
        BY <2>1, <3>1
      <3> QED BY <3>2 DEF CutIsLeastRecent
    <2> QED BY <2>2, <2>3
  <1> QED BY <1>13, <1>14

\* One case per disjunct of Next.
LEMMA NextBytes ==
    ByteInv /\ [Next]_vars =>
        ByteInv' /\ (node_budget' # node_budget => \A n \in Nodes : CutIsLeastRecent(n))
  <1> SUFFICES ASSUME ByteInv, [Next]_vars
               PROVE  ByteInv' /\ (node_budget' # node_budget => \A n \in Nodes : CutIsLeastRecent(n))
    OBVIOUS
  <1>1. ASSUME NEW node \in Nodes, NEW id \in Ids, NEW len \in Lens, on_complete(node, id, len)
        PROVE  ByteInv' /\ node_budget' = node_budget
    BY <1>1, OnCompleteBytes
  <1>2. ASSUME NEW id \in Ids, lookup(id)
        PROVE  ByteInv' /\ node_budget' = node_budget
    BY <1>2, LookupBytes
  <1>3. ASSUME NEW node \in Nodes, NEW wanted \in Budgets, enforce_budget(node, wanted)
        PROVE  ByteInv' /\ \A n \in Nodes : CutIsLeastRecent(n)
    BY <1>3, EnforceBudgetBytes
  <1>4. CASE evict_tick
    BY <1>4, EvictTickBytes
  <1>5. CASE UNCHANGED vars
    <2>1. UNCHANGED <<idx, node_used, node_budget, cache>>
      BY <1>5 DEF vars, cacheVars, cache
    <2> QED BY <2>1 DEF ByteInv, WithinBudget
  <1> QED BY <1>1, <1>2, <1>3, <1>4, <1>5 DEF Next

\* Entries, counters and budgets keep their types: no counter goes negative.
THEOREM TypeCorrect == Spec => []TypeOK
  <1>1. CacheInv /\ ByteInv => TypeOK
    <2> SUFFICES ASSUME CacheInv, ByteInv PROVE TypeOK
      OBVIOUS
    <2>1. idx \in [Ids -> Entry \cup {Gone}]
      BY DEF CacheInv, EntryInv
    <2>2. cache.used = node_used /\ cache.budget = node_budget
      BY DEF cache
    <2> QED BY <2>1, <2>2 DEF ByteInv, Accounted, TypeOK
  <1> QED BY <1>1, InitInv, NextStep, InitBytes, NextBytes, PTL DEF Spec

\* The counter of every node is, at any time, what a recount of its HBM entries would give.
THEOREM UsedMatchesEntriesHolds == Spec => []UsedMatchesEntries
  <1>1. ByteInv => UsedMatchesEntries
    BY DEF ByteInv, Accounted, UsedMatchesEntries, cache
  <1> QED BY <1>1, InitBytes, NextBytes, PTL DEF Spec

\* No node's cache holds more bytes than the budget last set for it.
THEOREM WithinBudgetHolds == Spec => []WithinBudget
  <1>1. ByteInv => WithinBudget
    BY DEF ByteInv
  <1> QED BY <1>1, InitBytes, NextBytes, PTL DEF Spec

\* A budget cut demotes the least recently used entries, and none that it could have left.
THEOREM CutsAreLeastRecentHolds == Spec => CutsAreLeastRecent
  <1>1. ByteInv /\ [Next]_vars =>
            [node_budget' # node_budget => \A node \in Nodes : CutIsLeastRecent(node)]_vars
    BY NextBytes
  <1> QED BY <1>1, InitBytes, NextBytes, PTL DEF Spec, CutsAreLeastRecent, CutIsLeastRecent
=============================================================================
