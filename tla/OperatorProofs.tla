----------------------------- MODULE OperatorProofs -----------------------------
(***************************************************************************)
(* What the operators that the models share compute, for arguments of any  *)
(* size: sums and selections over sequences, the scan for the best member,  *)
(* the gate's order, the on-point check, one prefill batch; and the byte   *)
(* accounting of the cache's operations, each of which keeps the counters  *)
(* equal to the entries they stand for although none recounts, with what a *)
(* budget cut takes.                                                       *)
(***************************************************************************)
EXTENDS CacheOps, GlobalScheduler, FiniteSetTheorems, WellFoundedInduction, TLAPS
-----------------------------------------------------------------------------
(* Sequences and sums.                                                     *)

\* The elements of a sequence, at its indices.
LEMMA SeqElements ==
    ASSUME NEW T, NEW s \in Seq(T)
    PROVE  Len(s) \in Nat /\ DOMAIN s = 1..Len(s) /\ (\A j \in DOMAIN s : s[j] \in T)
           /\ Range(s) \subseteq T
  BY DEF Range

AddBody(c, sum, k) == SumStep(c, sum, k)
True(c, s, k) == TRUE
SumLoop == INSTANCE LoopTheory WITH Step <- AddBody, Inv <- True

\* The sum of the first n.
SumTo(s, n) == SumLoop!Loop(s, n, 0)

LEMMA SumIsSumTo == \A s : Sum(s) = SumTo(s, Len(s))
  BY DEF Sum, SumTo, AddBody, SumLoop!Loop, SumLoop!Iterate, Iterate

LEMMA SumToStep ==
    \A s : SumTo(s, 0) = 0 /\ \A n \in Nat : SumTo(s, n + 1) = SumTo(s, n) + s[n + 1]
  <1>1. \A s : /\ SumLoop!Loop(s, 0, 0) = 0
               /\ \A n \in Nat : SumLoop!Loop(s, n + 1, 0) = AddBody(s, SumLoop!Loop(s, n, 0), n + 1)
    BY SumLoop!Unfold
  <1> QED BY <1>1 DEF SumTo, AddBody, SumStep

\* Sums depend on the elements only.
LEMMA SumAgree ==
    ASSUME NEW s, NEW t, NEW n \in Nat, \A i \in 1..n : s[i] = t[i]
    PROVE  SumTo(s, n) = SumTo(t, n)
  <1> DEFINE S == {k \in Nat : k <= n => SumTo(s, k) = SumTo(t, k)}
  <1>1. 0 \in S
    BY SumToStep
  <1>2. ASSUME NEW k \in Nat, k \in S PROVE k + 1 \in S
    <2> SUFFICES ASSUME k + 1 <= n PROVE SumTo(s, k + 1) = SumTo(t, k + 1)
      OBVIOUS
    <2>1. SumTo(s, k) = SumTo(t, k) /\ s[k + 1] = t[k + 1]
      BY <1>2
    <2>2. /\ SumTo(s, k + 1) = SumTo(s, k) + s[k + 1]
          /\ SumTo(t, k + 1) = SumTo(t, k) + t[k + 1]
      BY SumToStep
    <2> QED BY <2>1, <2>2
  <1> HIDE DEF S
  <1>3. n \in S
    BY <1>1, <1>2, SumLoop!Induct
  <1> QED BY <1>3 DEF S

\* The sum of numbers is a number.
LEMMA SumOfNumbers ==
    ASSUME NEW s, NEW n \in Nat, \A i \in 1..n : s[i] \in Nat
    PROVE  SumTo(s, n) \in Nat
  <1> DEFINE S == {k \in Nat : k <= n => SumTo(s, k) \in Nat}
  <1>1. 0 \in S
    BY SumToStep
  <1>2. ASSUME NEW k \in Nat, k \in S PROVE k + 1 \in S
    <2> SUFFICES ASSUME k + 1 <= n PROVE SumTo(s, k + 1) \in Nat
      OBVIOUS
    <2>1. SumTo(s, k) \in Nat /\ s[k + 1] \in Nat
      BY <1>2
    <2> QED BY <2>1, SumToStep
  <1> HIDE DEF S
  <1>3. n \in S
    BY <1>1, <1>2, SumLoop!Induct
  <1> QED BY <1>3 DEF S

\* Vectors that differ in one place have sums that differ by as much.
LEMMA SumChanges ==
    ASSUME NEW s, NEW t, NEW n \in Nat, NEW m \in 1..n,
           \A i \in 1..n : s[i] \in Nat /\ t[i] \in Nat,
           \A i \in 1..n : i # m => t[i] = s[i]
    PROVE  SumTo(t, n) + s[m] = SumTo(s, n) + t[m]
  <1> DEFINE S == {k \in Nat : k <= n => /\ k < m => SumTo(t, k) = SumTo(s, k)
                                         /\ k >= m => SumTo(t, k) + s[m] = SumTo(s, k) + t[m]}
  <1>1. 0 \in S
    BY SumToStep
  <1>2. ASSUME NEW k \in Nat, k \in S PROVE k + 1 \in S
    <2> SUFFICES ASSUME k + 1 <= n
                 PROVE  /\ k + 1 < m => SumTo(t, k + 1) = SumTo(s, k + 1)
                        /\ k + 1 >= m => SumTo(t, k + 1) + s[m] = SumTo(s, k + 1) + t[m]
      OBVIOUS
    <2>1. SumTo(t, k + 1) = SumTo(t, k) + t[k + 1] /\ SumTo(s, k + 1) = SumTo(s, k) + s[k + 1]
      BY SumToStep
    <2>2. SumTo(t, k) \in Nat /\ SumTo(s, k) \in Nat
      <3>1. \A i \in 1..k : s[i] \in Nat /\ t[i] \in Nat
        OBVIOUS
      <3> QED BY <3>1, SumOfNumbers
    <2>3. /\ s[k + 1] \in Nat /\ t[k + 1] \in Nat /\ s[m] \in Nat /\ t[m] \in Nat
          /\ k + 1 # m => t[k + 1] = s[k + 1]
      OBVIOUS
    <2>4. /\ k < m => SumTo(t, k) = SumTo(s, k)
          /\ k >= m => SumTo(t, k) + s[m] = SumTo(s, k) + t[m]
      BY <1>2
    <2> DEFINE a == SumTo(s, k)
               b == SumTo(t, k)
               x == s[m]
               y == t[m]
               u == s[k + 1]
               v == t[k + 1]
    <2>5. k + 1 = m => u = x /\ v = y
      OBVIOUS
    <2> HIDE DEF a, b, x, y, u, v
    <2>6. /\ k + 1 < m => b + v = a + u
          /\ k + 1 >= m => (b + v) + x = (a + u) + y
      BY <2>2, <2>3, <2>4, <2>5 DEF a, b, x, y, u, v
    <2> QED BY <2>1, <2>6 DEF a, b, x, y, u, v
  <1> HIDE DEF S
  <1>3. n \in S
    BY <1>1, <1>2, SumLoop!Induct
  <1> QED BY <1>3 DEF S

-----------------------------------------------------------------------------
(* Appending, and the members of a sequence that lie in a set.             *)

LEMMA Appended ==
    ASSUME NEW T, NEW s \in Seq(T), NEW e \in T
    PROVE  /\ Append(s, e) \in Seq(T) /\ Len(Append(s, e)) = Len(s) + 1
           /\ \A i \in 1..Len(s) : Append(s, e)[i] = s[i]
           /\ Append(s, e)[Len(s) + 1] = e
           /\ Range(Append(s, e)) = Range(s) \cup {e}
  <1> DEFINE u == Append(s, e)
             n == Len(s)
  <1>1. /\ u \in Seq(T) /\ Len(u) = n + 1 /\ n \in Nat /\ DOMAIN u = 1..(n + 1) /\ DOMAIN s = 1..n
        /\ (\A i \in 1..n : u[i] = s[i]) /\ u[n + 1] = e
    OBVIOUS
  <1> HIDE DEF u, n
  <1>2. Range(u) = Range(s) \cup {e}
    <2>1. ASSUME NEW x \in Range(u) PROVE x \in Range(s) \cup {e}
      <3>1. PICK i \in 1..(n + 1) : x = u[i]
        BY <1>1 DEF Range
      <3>2. CASE i \in 1..n
        BY <1>1, <3>1, <3>2 DEF Range
      <3>3. CASE i = n + 1
        BY <1>1, <3>1, <3>3
      <3> QED BY <1>1, <3>2, <3>3
    <2>2. ASSUME NEW x \in Range(s) PROVE x \in Range(u)
      BY <1>1, <2>2 DEF Range
    <2>3. e \in Range(u)
      BY <1>1 DEF Range
    <2> QED BY <2>1, <2>2, <2>3
  <1> QED BY <1>1, <1>2 DEF u, n

OnlyBody(c, t, k) == OnlyStep(c, t, k)
OnlyLoop == INSTANCE LoopTheory WITH Step <- OnlyBody, Inv <- True

\* What is kept of the first n.
OnlyTo(s, V, n) == OnlyLoop!Loop([s |-> s, V |-> V], n, <<>>)

LEMMA OnlyIsOnlyTo == \A s, V : Only(s, V) = OnlyTo(s, V, Len(s))
  BY DEF Only, OnlyTo, OnlyBody, OnlyLoop!Loop, OnlyLoop!Iterate, Iterate

LEMMA OnlyToStep ==
    \A s, V : /\ OnlyTo(s, V, 0) = <<>>
              /\ \A n \in Nat : OnlyTo(s, V, n + 1) = IF s[n + 1] \in V
                                                    THEN Append(OnlyTo(s, V, n), s[n + 1])
                                                    ELSE OnlyTo(s, V, n)
  <1>1. \A c : /\ OnlyLoop!Loop(c, 0, <<>>) = <<>>
               /\ \A n \in Nat : OnlyLoop!Loop(c, n + 1, <<>>)
                                     = OnlyBody(c, OnlyLoop!Loop(c, n, <<>>), n + 1)
    BY OnlyLoop!Unfold
  <1> QED BY <1>1 DEF OnlyTo, OnlyBody, OnlyStep

\* What Only keeps of the first n are the members that lie in the set; those that
\* lie outside make up the rest.
LEMMA OnlyToKeeps ==
    ASSUME NEW T, NEW s \in Seq(T), NEW V, NEW n \in 0..Len(s)
    PROVE  /\ OnlyTo(s, V, n) \in Seq(T)
           /\ Range(OnlyTo(s, V, n)) = {s[i] : i \in 1..n} \cap V
           /\ \A W : W \cap Range(s) = Range(s) \ V => Len(OnlyTo(s, V, n)) + Len(OnlyTo(s, W, n)) = n
  <1> DEFINE Kept(U, k) == /\ OnlyTo(s, U, k) \in Seq(T)
                           /\ Range(OnlyTo(s, U, k)) = {s[i] : i \in 1..k} \cap U
             Parted(U, k) == \A W : W \cap Range(s) = Range(s) \ U =>
                                 Len(OnlyTo(s, U, k)) + Len(OnlyTo(s, W, k)) = k
             S == {k \in Nat : k <= Len(s) => (\A U : Kept(U, k)) /\ (\A U : Parted(U, k))}
  <1>0. Len(s) \in Nat /\ (\A j \in 1..Len(s) : s[j] \in T /\ s[j] \in Range(s)) /\ DOMAIN s = 1..Len(s)
    BY DEF Range
  <1>1. 0 \in S
    <2>1. \A U : OnlyTo(s, U, 0) = <<>>
      BY OnlyToStep
    <2>2. Range(<<>>) = {} /\ Len(<<>>) = 0 /\ <<>> \in Seq(T) /\ {s[i] : i \in 1..0} = {}
      BY DEF Range
    <2>3. \A U : Kept(U, 0)
      BY <2>1, <2>2
    <2>4. \A U : Parted(U, 0)
      BY <2>1, <2>2
    <2> HIDE DEF Kept, Parted
    <2> QED BY <2>3, <2>4
  <1>2. ASSUME NEW k \in Nat, k \in S PROVE k + 1 \in S
    <2> SUFFICES ASSUME k + 1 <= Len(s) PROVE (\A U : Kept(U, k + 1)) /\ (\A U : Parted(U, k + 1))
      OBVIOUS
    <2> DEFINE e == s[k + 1]
    <2>1. e \in T /\ e \in Range(s) /\ (\A U : Kept(U, k)) /\ (\A U : Parted(U, k))
      BY <1>0, <1>2
    <2>2. {s[i] : i \in 1..(k + 1)} = {s[i] : i \in 1..k} \cup {e}
      OBVIOUS
    <2>3. \A U : /\ e \in U => OnlyTo(s, U, k + 1) = Append(OnlyTo(s, U, k), e)
                 /\ e \notin U => OnlyTo(s, U, k + 1) = OnlyTo(s, U, k)
      <3> TAKE U
      <3>1. OnlyTo(s, U, k + 1) = IF e \in U THEN Append(OnlyTo(s, U, k), e) ELSE OnlyTo(s, U, k)
        BY OnlyToStep
      <3> QED BY <3>1
    <2>4. ASSUME NEW U
          PROVE  /\ Kept(U, k + 1)
                 /\ e \in U => Len(OnlyTo(s, U, k + 1)) = Len(OnlyTo(s, U, k)) + 1
                 /\ Len(OnlyTo(s, U, k)) \in Nat
      <3>1. OnlyTo(s, U, k) \in Seq(T) /\ Range(OnlyTo(s, U, k)) = {s[i] : i \in 1..k} \cap U
        BY <2>1
      <3> DEFINE t == OnlyTo(s, U, k)
                 t1 == OnlyTo(s, U, k + 1)
      <3>2. /\ t \in Seq(T) /\ Range(t) = {s[i] : i \in 1..k} \cap U
            /\ (e \in U => t1 = Append(t, e)) /\ (e \notin U => t1 = t)
        BY <2>3, <3>1
      <3> HIDE DEF t, t1, e
      <3>3. e \in U => Append(t, e) \in Seq(T) /\ Len(Append(t, e)) = Len(t) + 1
                       /\ Range(Append(t, e)) = Range(t) \cup {e}
        BY <2>1, <3>2, Appended
      <3>4. t1 \in Seq(T) /\ Range(t1) = ({s[i] : i \in 1..k} \cup {e}) \cap U
        BY <3>2, <3>3
      <3>5. Len(t) \in Nat /\ (e \in U => Len(t1) = Len(t) + 1)
        BY <3>2, <3>3
      <3> QED BY <2>2, <3>4, <3>5 DEF t, t1
    <2>5. ASSUME NEW U, NEW W, W \cap Range(s) = Range(s) \ U
          PROVE  Len(OnlyTo(s, U, k + 1)) + Len(OnlyTo(s, W, k + 1)) = k + 1
      <3> DEFINE a == Len(OnlyTo(s, U, k))
                 b == Len(OnlyTo(s, W, k))
                 a1 == Len(OnlyTo(s, U, k + 1))
                 b1 == Len(OnlyTo(s, W, k + 1))
      <3>1. a + b = k /\ a \in Nat /\ b \in Nat
        BY <2>1, <2>4, <2>5
      <3>2. (e \in U <=> e \notin W)
        BY <2>1, <2>5
      <3>3. /\ e \in U => a1 = a + 1
            /\ e \notin U => a1 = a
            /\ e \in W => b1 = b + 1
            /\ e \notin W => b1 = b
        BY <2>3, <2>4
      <3> HIDE DEF a, b, a1, b1, e
      <3>4. a1 + b1 = k + 1
        BY <3>1, <3>2, <3>3
      <3> QED BY <3>4 DEF a1, b1
    <2> QED BY <2>4, <2>5
  <1> HIDE DEF S
  <1>3. n \in S
    BY <1>0, <1>1, <1>2, OnlyLoop!Induct
  <1>4. (\A U : Kept(U, n)) /\ (\A U : Parted(U, n))
    <2>1. n <= Len(s)
      BY <1>0
    <2> HIDE DEF Kept, Parted
    <2> QED BY <1>3, <2>1 DEF S
  <1> QED BY <1>4

LEMMA OnlyKeeps ==
    ASSUME NEW T, NEW s \in Seq(T), NEW V
    PROVE  /\ Only(s, V) \in Seq(T) /\ Range(Only(s, V)) = Range(s) \cap V
           /\ Len(Only(s, V)) \in Nat
           /\ \A W : W \cap Range(s) = Range(s) \ V => Len(Only(s, V)) + Len(Only(s, W)) = Len(s)
  <1>1. Len(s) \in 0..Len(s) /\ Range(s) = {s[i] : i \in 1..Len(s)}
    BY DEF Range
  <1>2. /\ OnlyTo(s, V, Len(s)) \in Seq(T)
        /\ Range(OnlyTo(s, V, Len(s))) = {s[i] : i \in 1..Len(s)} \cap V
        /\ \A W : W \cap Range(s) = Range(s) \ V =>
               Len(OnlyTo(s, V, Len(s))) + Len(OnlyTo(s, W, Len(s))) = Len(s)
    BY <1>1, OnlyToKeeps
  <1>3. Only(s, V) \in Seq(T)
    BY <1>2, OnlyIsOnlyTo
  <1> QED BY <1>1, <1>2, <1>3, OnlyIsOnlyTo

\* The places of s that hold a member of W.
Places(s, W) == {i \in DOMAIN s : s[i] \in W}

\* Members that are kept are neither lost nor doubled: as many places hold one of
\* W afterwards as held one that lies in V too before.
LEMMA OnlyCounts ==
    ASSUME NEW T, NEW s \in Seq(T), NEW V, NEW W
    PROVE  Cardinality(Places(Only(s, V), W)) = Cardinality(Places(s, V \cap W))
  <1> DEFINE first(k) == {i \in 1..k : s[i] \in V \cap W}
             S == {k \in Nat : k <= Len(s) =>
                      /\ OnlyTo(s, V, k) \in Seq(T)
                      /\ Cardinality(Places(OnlyTo(s, V, k), W)) = Cardinality(first(k))}
  <1>0. Len(s) \in Nat /\ DOMAIN s = 1..Len(s) /\ \A j \in 1..Len(s) : s[j] \in T
    OBVIOUS
  <1>1. 0 \in S
    <2>1. OnlyTo(s, V, 0) = <<>> /\ <<>> \in Seq(T) /\ DOMAIN (<<>>) = {} /\ 1..0 = {}
      BY OnlyToStep
    <2>2. Places(OnlyTo(s, V, 0), W) = {} /\ first(0) = {}
      BY <2>1 DEF Places
    <2> QED BY <2>1, <2>2
  <1>2. ASSUME NEW k \in Nat, k \in S PROVE k + 1 \in S
    <2> SUFFICES ASSUME k + 1 <= Len(s)
                 PROVE  /\ OnlyTo(s, V, k + 1) \in Seq(T)
                        /\ Cardinality(Places(OnlyTo(s, V, k + 1), W)) = Cardinality(first(k + 1))
      OBVIOUS
    <2> DEFINE t == OnlyTo(s, V, k)
               u == OnlyTo(s, V, k + 1)
               e == s[k + 1]
    <2>1. /\ t \in Seq(T) /\ Cardinality(Places(t, W)) = Cardinality(first(k)) /\ e \in T
          /\ u = IF e \in V THEN Append(t, e) ELSE t
      BY <1>0, <1>2, OnlyToStep
    <2>2. /\ IsFiniteSet(first(k)) /\ k + 1 \notin first(k)
          /\ first(k + 1) = IF e \in V \cap W THEN first(k) \cup {k + 1} ELSE first(k)
      <3>1. IsFiniteSet(1..k) /\ first(k) \subseteq 1..k
        BY FS_Interval
      <3> QED BY <3>1, FS_Subset
    <2>3. Len(t) \in Nat /\ DOMAIN t = 1..Len(t)
      BY <2>1
    <2>4. IsFiniteSet(Places(t, W)) /\ Len(t) + 1 \notin Places(t, W)
      <3>1. IsFiniteSet(1..Len(t)) /\ Places(t, W) \subseteq 1..Len(t)
        <4> DEFINE n == Len(t)
        <4>1. n \in Nat /\ DOMAIN t = 1..n
          BY <2>3
        <4> HIDE DEF n
        <4>2. IsFiniteSet(1..n) /\ Places(t, W) \subseteq 1..n
          BY <4>1, FS_Interval DEF Places
        <4> QED BY <4>2 DEF n
      <3> QED BY <2>3, <3>1, FS_Subset
    <2> HIDE DEF first, t, u, e
    <2>5. CASE e \in V
      <3>1. /\ u = Append(t, e) /\ u \in Seq(T) /\ Len(u) = Len(t) + 1
            /\ (\A j \in 1..Len(t) : u[j] = t[j]) /\ u[Len(t) + 1] = e
        BY <2>1, <2>5, Appended
      <3>2. DOMAIN u = 1..(Len(t) + 1)
        BY <3>1
      <3>3. Places(u, W) = IF e \in W THEN Places(t, W) \cup {Len(t) + 1} ELSE Places(t, W)
        <4> DEFINE n == Len(t)
        <4>1. /\ n \in Nat /\ DOMAIN t = 1..n /\ DOMAIN u = 1..(n + 1)
              /\ (\A j \in 1..n : u[j] = t[j]) /\ u[n + 1] = e
          BY <2>3, <3>1, <3>2
        <4> HIDE DEF n
        <4>2. \A j \in 1..(n + 1) : j \in 1..n \/ j = n + 1
          BY <4>1
        <4>3. 1..n \subseteq 1..(n + 1) /\ n + 1 \in 1..(n + 1) /\ n + 1 \notin 1..n
          BY <4>1
        <4>4. Places(u, W) = IF e \in W THEN Places(t, W) \cup {n + 1} ELSE Places(t, W)
          BY <4>1, <4>2, <4>3 DEF Places
        <4> QED BY <4>4 DEF n
      <3>4. Cardinality(Places(u, W)) = Cardinality(first(k + 1))
        <4>1. CASE e \in W
          <5>1. Cardinality(Places(u, W)) = Cardinality(Places(t, W)) + 1
            BY <2>4, <3>3, <4>1, FS_AddElement
          <5>2. Cardinality(first(k + 1)) = Cardinality(first(k)) + 1
            BY <2>2, <2>5, <4>1, FS_AddElement
          <5> QED BY <2>1, <5>1, <5>2
        <4>2. CASE e \notin W
          BY <2>1, <2>2, <3>3, <4>2
        <4> QED BY <4>1, <4>2
      <3> QED BY <3>1, <3>4 DEF u
    <2>6. CASE e \notin V
      <3>1. u = t /\ first(k + 1) = first(k)
        BY <2>1, <2>2, <2>6
      <3> QED BY <2>1, <3>1 DEF u
    <2> QED BY <2>5, <2>6
  <1> HIDE DEF S
  <1>3. Len(s) \in S
    BY <1>0, <1>1, <1>2, OnlyLoop!Induct
  <1>4. Cardinality(Places(OnlyTo(s, V, Len(s)), W)) = Cardinality(first(Len(s)))
    <2>1. Len(s) <= Len(s)
      BY <1>0
    <2> QED BY <1>3, <2>1 DEF S
  <1>5. first(Len(s)) = Places(s, V \cap W)
    BY <1>0 DEF Places
  <1> QED BY <1>4, <1>5, OnlyIsOnlyTo
-----------------------------------------------------------------------------
(* The scan for the best member, insertions, and the gate.                 *)

\* A set of natural numbers has a least one.
LEMMA LeastNatural ==
    ASSUME NEW T, T \subseteq Nat, T # {}
    PROVE  \E m \in T : \A k \in T : m <= k
  <1> DEFINE Less == OpToRel(<, Nat)
  <1>1. IsWellFoundedOn(Less, Nat)
    BY NatLessThanWellFounded
  <1>2. \A x, y \in Nat : y < x => <<y, x>> \in Less
    BY DEF OpToRel
  <1> HIDE DEF Less
  <1>3. PICK m \in T : \A y \in T : <<y, m>> \notin Less
    BY <1>1, WFMin
  <1>4. ASSUME NEW y \in T PROVE m <= y
    <2>1. m \in Nat /\ y \in Nat
      OBVIOUS
    <2>2. ~(y < m)
      BY <1>2, <1>3, <2>1
    <2> QED BY <2>1, <2>2
  <1> QED BY <1>4

\* The scan with a strict `<' ends at an index of least cost.  costs is the
\* function that the cost operator of FirstLeast computes.
LEMMA LeastIndexExists ==
    ASSUME NEW C, C \subseteq Nat, C # {}, NEW costs \in [C -> Nat]
    PROVE  \E i \in C : \A j \in C :
               costs[i] < costs[j] \/ (costs[i] = costs[j] /\ i <= j)
  <1> DEFINE Costs == {costs[i] : i \in C}
  <1>1. PICK least \in Costs : \A k \in Costs : least <= k
    <2>1. Costs \subseteq Nat /\ Costs # {}
      OBVIOUS
    <2> HIDE DEF Costs
    <2> QED BY <2>1, LeastNatural
  <1> DEFINE Cheapest == {i \in C : costs[i] = least}
  <1>2. Cheapest \subseteq Nat /\ Cheapest # {}
    BY <1>1
  <1>3. PICK first \in Cheapest : \A j \in Cheapest : first <= j
    BY <1>2, LeastNatural
  <1>4. ASSUME NEW j \in C
        PROVE  costs[first] < costs[j] \/ (costs[first] = costs[j] /\ first <= j)
    <2>1. costs[first] \in Nat /\ costs[j] \in Nat /\ costs[first] <= costs[j]
      BY <1>1, <1>3
    <2>2. costs[first] = costs[j] => first <= j
      BY <1>3
    <2> QED BY <2>1, <2>2
  <1> QED BY <1>3, <1>4

\* The elements of a concatenation.
LEMMA Joined ==
    ASSUME NEW T, NEW s \in Seq(T), NEW t \in Seq(T)
    PROVE  /\ s \o t \in Seq(T) /\ Len(s \o t) = Len(s) + Len(t)
           /\ \A j \in 1..(Len(s) + Len(t)) :
                  (s \o t)[j] = IF j <= Len(s) THEN s[j] ELSE t[j - Len(s)]
  OBVIOUS

\* An insertion shifts the rest.
LEMMA Inserted ==
    ASSUME NEW T, NEW s \in Seq(T), NEW i \in 1..(Len(s) + 1), NEW e \in T
    PROVE  /\ InsertAt(s, i, e) \in Seq(T) /\ Len(InsertAt(s, i, e)) = Len(s) + 1
           /\ \A j \in 1..(Len(s) + 1) :
                  InsertAt(s, i, e)[j] = IF j < i THEN s[j] ELSE IF j = i THEN e ELSE s[j - 1]
  <1> DEFINE n == Len(s)
             a == SubSeq(s, 1, i - 1)
             b == SubSeq(s, i, n)
             t == InsertAt(s, i, e)
  <1>1. n \in Nat /\ i \in 1..(n + 1) /\ (\A j \in 1..n : s[j] \in T)
    OBVIOUS
  <1>2. /\ a \in Seq(T) /\ Len(a) = i - 1 /\ (\A j \in 1..(i - 1) : a[j] = s[j])
        /\ b \in Seq(T) /\ Len(b) = n + 1 - i /\ (\A j \in 1..(n + 1 - i) : b[j] = s[j + i - 1])
    <2>1. a \in Seq(T) /\ Len(a) = i - 1 /\ (\A j \in 1..(i - 1) : a[j] = s[j])
      BY <1>1
    <2>2. b \in Seq(T) /\ Len(b) = n + 1 - i /\ (\A j \in 1..(n + 1 - i) : b[j] = s[j + i - 1])
      BY <1>1
    <2> QED BY <2>1, <2>2
  <1>3. t = a \o <<e>> \o b
    BY DEF InsertAt
  <1> HIDE DEF a, b, t, n
  <1> DEFINE c == a \o <<e>>
  <1>4. /\ c \in Seq(T) /\ Len(c) = i /\ (\A j \in 1..(i - 1) : c[j] = s[j]) /\ c[i] = e
    <2>1. <<e>> \in Seq(T) /\ Len(<<e>>) = 1 /\ <<e>>[1] = e
      OBVIOUS
    <2>2. /\ c \in Seq(T) /\ Len(c) = Len(a) + Len(<<e>>)
          /\ \A j \in 1..(Len(a) + Len(<<e>>)) : c[j] = IF j <= Len(a) THEN a[j] ELSE <<e>>[j - Len(a)]
      BY <1>2, <2>1, Joined
    <2>3. Len(c) = i /\ \A j \in 1..i : c[j] = IF j <= i - 1 THEN a[j] ELSE <<e>>[j - (i - 1)]
      BY <1>1, <1>2, <2>1, <2>2
    <2>4. i \in 1..i /\ i - (i - 1) = 1 /\ ~(i <= i - 1)
      BY <1>1
    <2> HIDE DEF c
    <2>5. c[i] = e
      BY <2>1, <2>3, <2>4
    <2>6. ASSUME NEW j \in 1..(i - 1) PROVE c[j] = s[j]
      <3>1. j \in 1..i /\ j <= i - 1
        BY <1>1
      <3>2. c[j] = a[j]
        BY <2>3, <3>1
      <3> QED BY <1>2, <3>2
    <2> QED BY <2>2, <2>3, <2>5, <2>6
  <1>5. t = c \o b
    BY <1>3
  <1> HIDE DEF c
  <1>6. /\ t \in Seq(T) /\ Len(t) = Len(c) + Len(b)
        /\ \A j \in 1..(Len(c) + Len(b)) : t[j] = IF j <= Len(c) THEN c[j] ELSE b[j - Len(c)]
    <2>1. /\ c \o b \in Seq(T) /\ Len(c \o b) = Len(c) + Len(b)
          /\ \A j \in 1..(Len(c) + Len(b)) : (c \o b)[j] = IF j <= Len(c) THEN c[j] ELSE b[j - Len(c)]
      <3>1. c \in Seq(T) /\ b \in Seq(T)
        BY <1>2, <1>4
      <3> QED BY <3>1, Joined
    <2> QED BY <1>5, <2>1
  <1>7. Len(t) = n + 1 /\ \A j \in 1..(n + 1) : t[j] = IF j <= i THEN c[j] ELSE b[j - i]
    BY <1>1, <1>2, <1>4, <1>6
  <1>8. ASSUME NEW j \in 1..(n + 1) PROVE t[j] = IF j < i THEN s[j] ELSE IF j = i THEN e ELSE s[j - 1]
    <2>1. CASE j <= i
      <3>1. t[j] = c[j] /\ (j = i \/ j \in 1..(i - 1))
        BY <1>1, <1>7, <2>1
      <3> QED BY <1>1, <1>4, <3>1
    <2>2. CASE j > i
      <3>1. j - i \in 1..(n + 1 - i) /\ (j - i) + i - 1 = j - 1
        BY <1>1, <2>2
      <3>2. b[j - i] = s[j - 1]
        BY <1>2, <3>1
      <3> QED BY <1>1, <1>7, <2>2, <3>2
    <2> QED BY <1>1, <2>1, <2>2
  <1> QED BY <1>6, <1>7, <1>8 DEF n, t

\* An insertion adds its element to the sums of all beginnings that reach it.
LEMMA InsertedSums ==
    ASSUME NEW s \in Seq(Nat), NEW i \in 1..(Len(s) + 1), NEW e \in Nat
    PROVE  \A q \in 0..(Len(s) + 1) :
               SumTo(InsertAt(s, i, e), q) = IF q < i THEN SumTo(s, q) ELSE SumTo(s, q - 1) + e
  <1> DEFINE t == InsertAt(s, i, e)
             n == Len(s)
             Right(q) == SumTo(t, q) = IF q < i THEN SumTo(s, q) ELSE SumTo(s, q - 1) + e
             S == {q \in Nat : q <= n + 1 => Right(q)}
  <1>1. /\ n \in Nat /\ i \in 1..(n + 1) /\ (\A j \in 1..n : s[j] \in Nat)
        /\ \A j \in 1..(n + 1) : t[j] = IF j < i THEN s[j] ELSE IF j = i THEN e ELSE s[j - 1]
    <2>1. n \in Nat /\ i \in 1..(n + 1) /\ \A j \in 1..n : s[j] \in Nat
      OBVIOUS
    <2>2. \A j \in 1..(Len(s) + 1) :
              InsertAt(s, i, e)[j] = IF j < i THEN s[j] ELSE IF j = i THEN e ELSE s[j - 1]
      <3> HIDE DEF t, n, S
      <3> QED BY Inserted, SMTT(60)
    <2> QED BY <2>1, <2>2
  <1> HIDE DEF t, n
  <1>2. 0 \in S
    BY <1>1, SumToStep
  <1>3. ASSUME NEW q \in Nat, q \in S PROVE q + 1 \in S
    <2> SUFFICES ASSUME q + 1 <= n + 1 PROVE Right(q + 1)
      OBVIOUS
    <2>1. Right(q) /\ q + 1 \in 1..(n + 1) /\ \A j \in 0..q : SumTo(s, j) \in Nat
      <3>1. \A j \in 0..q : SumTo(s, j) \in Nat
        <4> SUFFICES ASSUME NEW j \in 0..q PROVE SumTo(s, j) \in Nat
          OBVIOUS
        <4>1. \A x \in 1..j : s[x] \in Nat
          BY <1>1
        <4> QED BY <4>1, SumOfNumbers
      <3> QED BY <1>1, <1>3, <3>1
    <2>2. SumTo(t, q + 1) = SumTo(t, q) + t[q + 1]
      BY SumToStep
    <2>3. CASE q + 1 < i
      <3>1. t[q + 1] = s[q + 1] /\ SumTo(t, q) = SumTo(s, q)
        BY <1>1, <2>1, <2>3
      <3>2. SumTo(s, q + 1) = SumTo(s, q) + s[q + 1]
        BY SumToStep
      <3> QED BY <2>2, <2>3, <3>1, <3>2
    <2>4. CASE q + 1 = i
      <3>1. t[q + 1] = e /\ SumTo(t, q) = SumTo(s, q)
        BY <1>1, <2>1, <2>4
      <3> QED BY <1>1, <2>2, <2>4, <3>1
    <2>5. CASE q + 1 > i
      <3>1. t[q + 1] = s[q] /\ SumTo(t, q) = SumTo(s, q - 1) + e /\ q - 1 \in Nat /\ q \in 1..n
        BY <1>1, <2>1, <2>5
      <3>2. SumTo(s, q) = SumTo(s, q - 1) + s[q]
        <4>1. (q - 1) + 1 = q
          OBVIOUS
        <4> QED BY <3>1, <4>1, SumToStep
      <3>3. s[q] \in Nat /\ SumTo(s, q - 1) \in Nat
        BY <1>1, <2>1, <3>1
      <3> QED BY <2>2, <2>5, <3>1, <3>2, <3>3
    <2> QED BY <1>1, <2>3, <2>4, <2>5
  <1> HIDE DEF S
  <1>4. \A q \in Nat : q \in S
    BY <1>2, <1>3, SumLoop!Induct
  <1> QED BY <1>1, <1>4 DEF S, t, n

\* An end of a sequence has the sum of the whole less that of what comes before.
LEMMA SumOfEnd ==
    ASSUME NEW s \in Seq(Nat), NEW i \in 0..Len(s)
    PROVE  /\ SubSeq(s, i + 1, Len(s)) \in Seq(Nat) /\ Len(SubSeq(s, i + 1, Len(s))) = Len(s) - i
           /\ Sum(SubSeq(s, i + 1, Len(s))) = SumTo(s, Len(s)) - SumTo(s, i)
  <1> DEFINE n == Len(s)
             t == SubSeq(s, i + 1, n)
             S == {q \in Nat : q <= n - i => SumTo(t, q) = SumTo(s, i + q) - SumTo(s, i)}
  <1>1. /\ n \in Nat /\ i \in 0..n /\ (\A j \in 1..n : s[j] \in Nat)
        /\ t \in Seq(Nat) /\ Len(t) = n - i /\ \A j \in 1..(n - i) : t[j] = s[i + j]
    OBVIOUS
  <1> HIDE DEF t, n
  <1>2. \A j \in 0..n : SumTo(s, j) \in Nat
    <2> SUFFICES ASSUME NEW j \in 0..n PROVE SumTo(s, j) \in Nat
      OBVIOUS
    <2>1. \A x \in 1..j : s[x] \in Nat
      BY <1>1
    <2> QED BY <2>1, SumOfNumbers
  <1>3. 0 \in S
    <2>1. SumTo(t, 0) = 0 /\ i + 0 = i /\ SumTo(s, i) \in Nat
      BY <1>1, <1>2, SumToStep
    <2> QED BY <2>1
  <1>4. ASSUME NEW q \in Nat, q \in S PROVE q + 1 \in S
    <2> SUFFICES ASSUME q + 1 <= n - i PROVE SumTo(t, q + 1) = SumTo(s, i + (q + 1)) - SumTo(s, i)
      OBVIOUS
    <2>1. SumTo(t, q) = SumTo(s, i + q) - SumTo(s, i) /\ t[q + 1] = s[i + (q + 1)]
      BY <1>1, <1>4
    <2>2. SumTo(t, q + 1) = SumTo(t, q) + t[q + 1]
      BY SumToStep
    <2>3. SumTo(s, i + (q + 1)) = SumTo(s, i + q) + s[i + (q + 1)]
      <3>1. i + (q + 1) = (i + q) + 1 /\ i + q \in Nat
        BY <1>1
      <3> QED BY <3>1, SumToStep
    <2>4. SumTo(s, i) \in Nat /\ SumTo(s, i + q) \in Nat /\ s[i + (q + 1)] \in Nat
      <3>1. i + q \in 0..n /\ i + (q + 1) \in 1..n
        BY <1>1
      <3> QED BY <1>1, <1>2, <3>1
    <2> QED BY <2>1, <2>2, <2>3, <2>4
  <1> HIDE DEF S
  <1>5. n - i \in S /\ n - i \in Nat /\ i + (n - i) = n
    <2>1. \A q \in Nat : q \in S
      BY <1>3, <1>4, SumLoop!Induct
    <2> QED BY <1>1, <2>1
  <1>6. SumTo(t, n - i) = SumTo(s, n) - SumTo(s, i)
    BY <1>5 DEF S
  <1>7. Sum(t) = SumTo(t, n - i)
    BY <1>1, SumIsSumTo
  <1> QED BY <1>1, <1>6, <1>7 DEF t, n

\* The requests of a draw at the places in S, the others counting nothing.
Picked(draw, S) == [i \in DOMAIN draw |-> IF i \in S THEN draw[i] ELSE 0]

\* The gate sorts what it is given, the longest first; whichever of the first k
\* are picked, as many from the end of the order have no larger sum.
GateBody(c, h, k) == SortStep(c, h, k)
GateInv(c, h, k) ==
    /\ h \in Seq(Nat) /\ Len(h) = k
    /\ \A i, j \in 1..k : i <= j => h[i] >= h[j]
    /\ \A S \in SUBSET (1..k) :
           SumTo(h, k) <= SumTo(Picked(c, S), k) + SumTo(h, k - Cardinality(S))
GateLoop == INSTANCE LoopTheory WITH Step <- GateBody, Inv <- GateInv

\* In a falling order those that are as long are a beginning.
LEMMA AboveIsBeginning ==
    ASSUME NEW h \in Seq(Nat), NEW r \in Nat, \A i, j \in 1..Len(h) : i <= j => h[i] >= h[j]
    PROVE  LET a == Cardinality({i \in DOMAIN h : h[i] >= r})
           IN  /\ a \in 0..Len(h)
               /\ \A i \in 1..Len(h) : IF i <= a THEN h[i] >= r ELSE h[i] < r
  <1> DEFINE n == Len(h)
             above == {i \in DOMAIN h : h[i] >= r}
             T == {i \in 1..(n + 1) : i = n + 1 \/ h[i] < r}
  <1>1. n \in Nat /\ DOMAIN h = 1..n /\ (\A i \in 1..n : h[i] \in Nat)
        /\ \A i, j \in 1..n : i <= j => h[i] >= h[j]
    OBVIOUS
  <1> HIDE DEF n
  <1>2. T \subseteq Nat /\ T # {}
    <2>1. n + 1 \in T
      BY <1>1
    <2> QED BY <1>1, <2>1
  <1>3. PICK m \in T : \A k \in T : m <= k
    <2> HIDE DEF T
    <2> QED BY <1>2, LeastNatural
  <1> DEFINE a == m - 1
  <1>4. a \in 0..n /\ m \in 1..(n + 1)
    BY <1>1, <1>3
  <1>5. \A i \in 1..n : IF i <= a THEN h[i] >= r ELSE h[i] < r
    <2> SUFFICES ASSUME NEW i \in 1..n PROVE IF i <= a THEN h[i] >= r ELSE h[i] < r
      OBVIOUS
    <2>1. CASE i <= a
      <3>1. i \notin T /\ i \in 1..(n + 1)
        BY <1>1, <1>3, <1>4, <2>1
      <3> QED BY <1>1, <2>1, <3>1
    <2>2. CASE ~(i <= a)
      <3>1. m <= i /\ m \in 1..n /\ h[m] < r
        BY <1>1, <1>3, <1>4, <2>2
      <3>2. h[m] >= h[i]
        BY <1>1, <3>1
      <3> QED BY <1>1, <2>2, <3>1, <3>2
    <2> QED BY <2>1, <2>2
  <1>6. above = 1..a
    BY <1>1, <1>4, <1>5
  <1> HIDE DEF a, above
  <1>7. Cardinality(1..a) = a
    <2>1. a \in Nat
      BY <1>4
    <2> QED BY <2>1, FS_Interval
  <1> QED BY <1>4, <1>5, <1>6, <1>7 DEF above, n

\* One more request, put in its place.
LEMMA GateStepKeeps ==
    ASSUME NEW draw \in Seq(Nat), NEW k \in 0..(Len(draw) - 1), NEW h, GateInv(draw, h, k)
    PROVE  GateInv(draw, GateBody(draw, h, k + 1), k + 1)
  <1> DEFINE r == draw[k + 1]
             a == Cardinality({i \in DOMAIN h : h[i] >= r})
             t == GateBody(draw, h, k + 1)
             P(S, q) == SumTo(Picked(draw, S), q)
  <1>1. /\ k \in Nat /\ k + 1 \in DOMAIN draw /\ r \in Nat /\ h \in Seq(Nat) /\ Len(h) = k
        /\ (\A i, j \in 1..k : i <= j => h[i] >= h[j]) /\ (\A i \in 1..k : h[i] \in Nat)
        /\ \A i \in 1..k : i \in DOMAIN draw /\ draw[i] \in Nat
    BY DEF GateInv
  <1>2. \A S \in SUBSET (1..k) : SumTo(h, k) <= P(S, k) + SumTo(h, k - Cardinality(S))
    BY DEF GateInv
  <1>3. t = InsertAt(h, a + 1, r)
    BY DEF GateBody, SortStep
  <1> HIDE DEF r
  <1>4. a \in 0..k /\ \A i \in 1..k : IF i <= a THEN h[i] >= r ELSE h[i] < r
    BY <1>1, AboveIsBeginning
  <1> HIDE DEF t, a
  <1>5. /\ t \in Seq(Nat) /\ Len(t) = k + 1
        /\ \A j \in 1..(k + 1) : t[j] = IF j < a + 1 THEN h[j] ELSE IF j = a + 1 THEN r ELSE h[j - 1]
    <2>1. a + 1 \in 1..(Len(h) + 1)
      BY <1>1, <1>4
    <2> DEFINE p == a + 1
               u == InsertAt(h, p, r)
    <2>2. h \in Seq(Nat) /\ r \in Nat /\ p \in 1..(Len(h) + 1)
      BY <1>1, <2>1
    <2> HIDE DEF p
    <2>3. /\ u \in Seq(Nat) /\ Len(u) = Len(h) + 1
          /\ \A j \in 1..(Len(h) + 1) :
                 u[j] = IF j < p THEN h[j] ELSE IF j = p THEN r ELSE h[j - 1]
      BY <2>2, Inserted
    <2> HIDE DEF u
    <2> QED BY <1>1, <1>3, <2>3 DEF u, p
  <1>6. \A q \in 0..(k + 1) :
            SumTo(t, q) = IF q < a + 1 THEN SumTo(h, q) ELSE SumTo(h, q - 1) + r
    <2>1. a + 1 \in 1..(Len(h) + 1)
      BY <1>1, <1>4
    <2> QED BY <1>1, <1>3, <2>1, InsertedSums
  <1>7. \A q \in 0..k : SumTo(h, q) \in Nat
    <2> SUFFICES ASSUME NEW q \in 0..k PROVE SumTo(h, q) \in Nat
      OBVIOUS
    <2>1. \A i \in 1..q : h[i] \in Nat
      BY <1>1
    <2> QED BY <2>1, SumOfNumbers
  <1>8. ASSUME NEW i \in 1..(k + 1), NEW j \in 1..(k + 1), i <= j PROVE t[i] >= t[j]
    <2>1. CASE j < a + 1
      <3>1. i \in 1..k /\ j \in 1..k /\ t[i] = h[i] /\ t[j] = h[j]
        BY <1>1, <1>4, <1>5, <1>8, <2>1
      <3> QED BY <1>1, <1>8, <3>1
    <2>2. CASE j = a + 1
      <3>1. t[j] = r
        BY <1>5, <2>2
      <3>2. CASE i = j
        BY <1>1, <3>1, <3>2
      <3>3. CASE i # j
        <4>1. i \in 1..k /\ i <= a /\ t[i] = h[i]
          BY <1>1, <1>4, <1>5, <1>8, <2>2, <3>3
        <4> QED BY <1>4, <3>1, <4>1
      <3> QED BY <3>2, <3>3
    <2>3. CASE j > a + 1
      <3>1. t[j] = h[j - 1] /\ j - 1 \in 1..k /\ ~(j - 1 <= a)
        BY <1>1, <1>4, <1>5, <2>3
      <3>2. h[j - 1] < r
        BY <1>4, <3>1
      <3>3. CASE i < a + 1
        <4>1. i \in 1..k /\ t[i] = h[i] /\ i <= j - 1
          BY <1>1, <1>4, <1>5, <2>3, <3>3
        <4> QED BY <1>1, <3>1, <4>1
      <3>4. CASE i = a + 1
        <4>1. t[i] = r
          BY <1>5, <3>4
        <4> QED BY <1>1, <3>1, <3>2, <4>1
      <3>5. CASE i > a + 1
        <4>1. t[i] = h[i - 1] /\ i - 1 \in 1..k /\ i - 1 <= j - 1
          BY <1>1, <1>4, <1>5, <1>8, <3>5
        <4> QED BY <1>1, <3>1, <4>1
      <3> QED BY <1>1, <1>4, <3>3, <3>4, <3>5
    <2> QED BY <1>1, <1>4, <2>1, <2>2, <2>3
  <1> DEFINE n == k + 1
  <1>9. ASSUME NEW S \in SUBSET (1..n)
        PROVE  SumTo(t, n) <= P(S, n) + SumTo(t, n - Cardinality(S))
    <2> SUFFICES SumTo(t, k + 1) <= P(S, k + 1) + SumTo(t, (k + 1) - Cardinality(S))
      OBVIOUS
    <2> DEFINE R == S \ {k + 1}
               m == Cardinality(R)
    <2>1. R \in SUBSET (1..k)
      BY <1>1
    <2>2. IsFiniteSet(R) /\ m \in 0..k
      <3>1. IsFiniteSet(1..k) /\ Cardinality(1..k) = k
        BY <1>1, FS_Interval
      <3> HIDE DEF R
      <3>2. IsFiniteSet(R) /\ Cardinality(R) <= k
        BY <2>1, <3>1, FS_Subset
      <3>3. Cardinality(R) \in Nat
        BY <3>2, FS_CardinalityType
      <3> QED BY <1>1, <3>2, <3>3
    <2>3. P(R, k) = P(S, k)
      <3>1. \A i \in 1..k : Picked(draw, R)[i] = Picked(draw, S)[i]
        BY <1>1 DEF Picked
      <3> QED BY <1>1, <3>1, SumAgree
    <2>4. P(R, k) \in Nat
      <3>1. \A i \in 1..k : Picked(draw, R)[i] \in Nat
        BY <1>1 DEF Picked
      <3> QED BY <1>1, <3>1, SumOfNumbers
    <2>5. P(S, k + 1) = P(S, k) + (IF k + 1 \in S THEN r ELSE 0)
      <3>1. SumTo(Picked(draw, S), k + 1) = SumTo(Picked(draw, S), k) + Picked(draw, S)[k + 1]
        BY <1>1, SumToStep
      <3>2. Picked(draw, S)[k + 1] = IF k + 1 \in S THEN r ELSE 0
        BY <1>1 DEF Picked, r
      <3> QED BY <3>1, <3>2
    <2>6. SumTo(h, k) <= P(S, k) + SumTo(h, k - m)
      BY <1>2, <2>1, <2>3
    <2>7. SumTo(t, k + 1) = SumTo(h, k) + r
      <3>1. k + 1 \in 0..(k + 1) /\ ~(k + 1 < a + 1) /\ (k + 1) - 1 = k
        BY <1>1, <1>4
      <3> QED BY <1>6, <3>1
    <2> HIDE DEF P
    <2>8. CASE k + 1 \in S
      <3>1. Cardinality(S) = m + 1
        <4>1. S = R \cup {k + 1} /\ k + 1 \notin R
          BY <2>8
        <4> HIDE DEF R
        <4> QED BY <2>2, <4>1, FS_AddElement
      <3>2. SumTo(h, k - m) <= SumTo(t, k - m)
        <4> DEFINE q == k - m
        <4>1. q \in 0..k /\ q \in 0..(k + 1)
          BY <1>1, <2>2
        <4> SUFFICES SumTo(h, q) <= SumTo(t, q)
          OBVIOUS
        <4> HIDE DEF q, m
        <4>2. CASE q < a + 1
          BY <1>6, <1>7, <4>1, <4>2
        <4>3. CASE ~(q < a + 1)
          <5>1. q \in 1..k /\ ~(q <= a) /\ q - 1 \in Nat /\ (q - 1) + 1 = q /\ q - 1 \in 0..k
            BY <1>1, <1>4, <4>1, <4>3
          <5>2. SumTo(h, q) = SumTo(h, q - 1) + h[q]
            BY <5>1, SumToStep
          <5>3. SumTo(t, q) = SumTo(h, q - 1) + r
            BY <1>6, <4>1, <4>3
          <5>4. h[q] < r /\ h[q] \in Nat /\ SumTo(h, q - 1) \in Nat
            BY <1>1, <1>4, <1>7, <5>1
          <5> QED BY <1>1, <5>2, <5>3, <5>4
        <4> QED BY <4>2, <4>3
      <3>3. (k + 1) - Cardinality(S) = k - m
        BY <1>1, <2>2, <3>1
      <3>4. SumTo(h, k - m) \in Nat /\ SumTo(h, k) \in Nat /\ SumTo(t, k - m) \in Nat
        <4>1. k - m \in 0..k /\ k \in 0..k
          BY <1>1, <2>2
        <4>2. \A i \in 1..(k - m) : t[i] \in Nat
          <5> DEFINE q == k - m
          <5>1. q \in 0..k
            BY <4>1
          <5> HIDE DEF q
          <5>2. \A i \in 1..q : t[i] \in Nat
            BY <1>1, <1>5, <5>1
          <5> QED BY <5>2 DEF q
        <4>3. SumTo(t, k - m) \in Nat
          <5>1. k - m \in Nat
            BY <4>1
          <5> QED BY <4>2, <5>1, SumOfNumbers
        <4> QED BY <1>7, <4>1, <4>3
      <3> HIDE DEF R, m
      <3> QED BY <1>1, <2>3, <2>4, <2>5, <2>6, <2>7, <2>8, <3>2, <3>3, <3>4
    <2>9. CASE k + 1 \notin S
      <3>1. S = R
        BY <2>9
      <3>2. SumTo(h, k - m) + r <= SumTo(t, (k + 1) - m)
        <4> DEFINE q == k - m
        <4>1. q \in 0..k /\ q + 1 \in 0..(k + 1) /\ (k + 1) - m = q + 1 /\ (q + 1) - 1 = q
          BY <1>1, <2>2
        <4> HIDE DEF q, m
        <4>2. CASE q + 1 < a + 1
          <5>1. q + 1 \in 1..k /\ q + 1 <= a
            BY <1>1, <1>4, <4>1, <4>2
          <5>2. SumTo(h, q + 1) = SumTo(h, q) + h[q + 1] /\ h[q + 1] >= r
            <6>1. q \in Nat
              BY <4>1
            <6> QED BY <1>4, <5>1, <6>1, SumToStep
          <5>3. SumTo(t, q + 1) = SumTo(h, q + 1)
            BY <1>6, <4>1, <4>2
          <5>4. SumTo(h, q) \in Nat /\ h[q + 1] \in Nat
            BY <1>1, <1>7, <4>1, <5>1
          <5>5. SumTo(h, q) + r <= SumTo(t, q + 1)
            BY <1>1, <5>2, <5>3, <5>4
          <5> QED BY <4>1, <5>5 DEF q
        <4>3. CASE ~(q + 1 < a + 1)
          <5>1. SumTo(t, q + 1) = SumTo(h, q) + r
            BY <1>6, <4>1, <4>3
          <5>2. SumTo(h, q) + r <= SumTo(t, q + 1)
            BY <1>1, <1>7, <4>1, <5>1
          <5> QED BY <4>1, <5>2 DEF q
        <4> QED BY <4>2, <4>3
      <3>3. SumTo(h, k - m) \in Nat /\ SumTo(h, k) \in Nat /\ SumTo(t, (k + 1) - m) \in Nat
        <4>1. k - m \in 0..k /\ k \in 0..k /\ (k + 1) - m \in Nat /\ (k + 1) - m <= k + 1
          BY <1>1, <2>2
        <4>2. \A i \in 1..((k + 1) - m) : t[i] \in Nat
          BY <1>1, <1>5, <4>1
        <4>3. SumTo(t, (k + 1) - m) \in Nat
          BY <4>1, <4>2, SumOfNumbers
        <4> QED BY <1>7, <4>1, <4>3
      <3>4. Cardinality(S) = m
        BY <3>1
      <3> HIDE DEF R, m
      <3> QED BY <1>1, <2>3, <2>4, <2>5, <2>6, <2>7, <2>9, <3>2, <3>3, <3>4
    <2> QED BY <2>8, <2>9
  <1>10. \A i, j \in 1..n : i <= j => t[i] >= t[j]
    BY <1>8
  <1>11. t \in Seq(Nat) /\ Len(t) = n
    BY <1>5
  <1> HIDE DEF n
  <1>12. \A S \in SUBSET (1..n) :
             SumTo(t, n) <= SumTo(Picked(draw, S), n) + SumTo(t, n - Cardinality(S))
    BY <1>9
  <1>13. GateInv(draw, t, n)
    BY <1>10, <1>11, <1>12 DEF GateInv
  <1> QED BY <1>13 DEF t, n

LEMMA GateOrderKeeps ==
    ASSUME NEW draw \in Seq(Nat)
    PROVE  GateInv(draw, GateOrder(draw), Len(draw))
  <1> DEFINE n == Len(draw)
             start == <<>>
  <1>1. GateOrder(draw) = GateLoop!Loop(draw, n, start)
    BY DEF GateOrder, GateLoop!Loop, GateLoop!Iterate, Iterate, GateBody
  <1>2. n \in Nat /\ GateInv(draw, start, 0)
    <2>1. \A S \in SUBSET (1..0) : S = {}
      OBVIOUS
    <2>2. SumTo(start, 0) <= SumTo(Picked(draw, {}), 0) + SumTo(start, 0 - Cardinality({}))
      <3>1. Cardinality({}) = 0 /\ 0 - 0 = 0
        BY FS_EmptySet
      <3>2. \A s : SumTo(s, 0) = 0
        BY SumToStep
      <3> QED BY <3>1, <3>2
    <2>3. start \in Seq(Nat) /\ Len(start) = 0
      OBVIOUS
    <2>4. n \in Nat
      OBVIOUS
    <2> HIDE DEF start, n
    <2> QED BY <2>1, <2>2, <2>3, <2>4 DEF GateInv
  <1>3. ASSUME NEW k \in 0..(n - 1), NEW h, GateInv(draw, h, k)
        PROVE  GateInv(draw, GateBody(draw, h, k + 1), k + 1)
    BY <1>3, GateStepKeeps
  <1> HIDE DEF n, start
  <1>4. GateInv(draw, GateLoop!Loop(draw, n, start), n)
    BY <1>2, <1>3, GateLoop!LoopInvariant
  <1> QED BY <1>1, <1>4 DEF n

LEMMA GateOrderTypes ==
    ASSUME NEW draw \in Seq(Nat)
    PROVE  GateOrder(draw) \in Seq(Nat)
  BY GateOrderKeeps DEF GateInv

\* What the gate keeps is the longest end of that order that is balanced.
LEMMA GateSheds ==
    ASSUME NEW draw \in Seq(Nat), NEW o, o.ctx_balance \in Nat, o.edge_band \in Nat
    PROVE  LET sorted == GateOrder(draw)
               n == Len(sorted)
               rest(i) == SubSeq(sorted, i + 1, n)
               fine(i) == Balanced(Sum(rest(i)), Len(rest(i)), o)
           IN  \E i \in 0..n : gate(draw, o).kept = rest(i) /\ fine(i) /\ \A j \in 0..(i - 1) : ~fine(j)
  <1> DEFINE sorted == GateOrder(draw)
             n == Len(sorted)
             rest(i) == SubSeq(sorted, i + 1, n)
             fine(i) == Balanced(Sum(rest(i)), Len(rest(i)), o)
             least(i) == fine(i) /\ \A j \in 0..(i - 1) : ~fine(j)
             shed == CHOOSE i \in 0..n : least(i)
             good == {i \in 0..n : fine(i)}
  <1>1. sorted \in Seq(Nat)
    BY GateOrderTypes
  <1> HIDE DEF sorted
  <1>2. n \in Nat
    BY <1>1
  <1>3. fine(n)
    <2>1. rest(n) = <<>>
      BY <1>1, <1>2
    <2>2. Sum(<<>>) = 0 /\ Len(<<>>) = 0
      BY SumIsSumTo, SumToStep
    <2> DEFINE x == o.ctx_balance + o.edge_band
    <2>3. x \in Nat
      OBVIOUS
    <2> HIDE DEF x, rest
    <2>4. 0 <= x * 0
      BY <2>3
    <2> QED BY <2>1, <2>2, <2>4 DEF Balanced, x
  <1> HIDE DEF fine
  <1>4. good \subseteq Nat /\ n \in good
    BY <1>2, <1>3
  <1>5. PICK i \in good : \A j \in good : i <= j
    <2> HIDE DEF good
    <2> QED BY <1>4, LeastNatural
  <1>6. least(i) /\ i \in 0..n
    <2>1. ASSUME NEW j \in 0..(i - 1), fine(j) PROVE FALSE
      <3>1. j \in good /\ i \in Nat /\ j < i
        BY <1>2, <2>1
      <3> QED BY <1>4, <1>5, <3>1
    <2> QED BY <2>1
  <1> HIDE DEF least, n
  <1>7. shed \in 0..n /\ least(shed)
    BY <1>6
  <1>8. gate(draw, o).kept = rest(shed)
    BY DEF gate, sorted, rest, least, fine, n
  <1> QED BY <1>7, <1>8 DEF least, fine, rest, n, sorted

LEMMA GateTypes ==
    ASSUME NEW draw \in Seq(Nat), NEW o, o.ctx_balance \in Nat, o.edge_band \in Nat
    PROVE  gate(draw, o).kept \in Seq(Nat)
  <1> DEFINE sorted == GateOrder(draw)
  <1>1. sorted \in Seq(Nat)
    BY GateOrderTypes
  <1>2. PICK i \in 0..Len(sorted) : gate(draw, o).kept = SubSeq(sorted, i + 1, Len(sorted))
    BY GateSheds
  <1> HIDE DEF sorted
  <1> QED BY <1>1, <1>2, SumOfEnd

\* What the gate keeps is balanced, and no larger part of the draw, however it is
\* chosen, is: as many from the end of the order would have no larger sum.
THEOREM GateKeepsMost ==
    ASSUME NEW draw \in Seq(Nat), NEW o, o.ctx_balance \in Nat, o.edge_band \in Nat
    PROVE  LET kept == gate(draw, o).kept
           IN  /\ Balanced(Sum(kept), Len(kept), o)
               /\ \A S \in SUBSET DOMAIN draw :
                      Balanced(SumAt(draw, S), Cardinality(S), o) => Cardinality(S) <= Len(kept)
  <1> DEFINE sorted == GateOrder(draw)
             n == Len(draw)
             rest(i) == SubSeq(sorted, i + 1, n)
             fine(i) == Balanced(Sum(rest(i)), Len(rest(i)), o)
             kept == gate(draw, o).kept
  <1>1. /\ n \in Nat /\ sorted \in Seq(Nat) /\ Len(sorted) = n
        /\ \A S \in SUBSET (1..n) :
               SumTo(sorted, n) <= SumTo(Picked(draw, S), n) + SumTo(sorted, n - Cardinality(S))
    <2>1. n \in Nat
      OBVIOUS
    <2> QED BY <2>1, GateOrderKeeps DEF GateInv
  <1>2. PICK shed \in 0..n : kept = rest(shed) /\ fine(shed) /\ \A j \in 0..(shed - 1) : ~fine(j)
    BY <1>1, GateSheds
  <1> HIDE DEF sorted, kept
  <1>3. \A i \in 0..n : /\ Len(rest(i)) = n - i
                        /\ Sum(rest(i)) = SumTo(sorted, n) - SumTo(sorted, i)
    BY <1>1, SumOfEnd
  <1>4. \A i \in 0..n : SumTo(sorted, i) \in Nat
    <2> SUFFICES ASSUME NEW i \in 0..n PROVE SumTo(sorted, i) \in Nat
      OBVIOUS
    <2>1. \A j \in 1..i : sorted[j] \in Nat
      BY <1>1
    <2> QED BY <2>1, SumOfNumbers
  <1>5. ASSUME NEW S \in SUBSET DOMAIN draw, Balanced(SumAt(draw, S), Cardinality(S), o),
               Cardinality(S) > Len(kept)
        PROVE  FALSE
    <2> DEFINE m == Cardinality(S)
               i == n - m
               limit == (o.ctx_balance + o.edge_band) * m
    <2>1. S \in SUBSET (1..n)
      OBVIOUS
    <2>2. m \in 0..n
      <3> HIDE DEF n
      <3>1. IsFiniteSet(1..n) /\ Cardinality(1..n) = n
        BY <1>1, FS_Interval
      <3>2. IsFiniteSet(S) /\ Cardinality(S) <= n
        BY <2>1, <3>1, FS_Subset
      <3>3. Cardinality(S) \in Nat
        BY <3>2, FS_CardinalityType
      <3> QED BY <1>1, <3>2, <3>3
    <2>3. SumAt(draw, S) = SumTo(Picked(draw, S), n)
      <3>1. SumAt(draw, S) = Sum(Picked(draw, S))
        BY DEF SumAt, Picked
      <3>2. Len(Picked(draw, S)) = n
        BY DEF Picked
      <3> QED BY <3>1, <3>2, SumIsSumTo
    <2>4. SumTo(Picked(draw, S), n) \in Nat
      <3>1. \A j \in 1..n : Picked(draw, S)[j] \in Nat
        BY DEF Picked
      <3> QED BY <1>1, <3>1, SumOfNumbers
    <2>5. SumTo(Picked(draw, S), n) <= limit
      BY <1>5, <2>3 DEF Balanced
    <2>6. SumTo(sorted, n) <= SumTo(Picked(draw, S), n) + SumTo(sorted, n - m)
      BY <1>1, <2>1
    <2>7. limit \in Int
      <3> HIDE DEF m
      <3> QED BY <2>2
    <2> HIDE DEF m, limit, n, rest
    <2>8. i \in 0..n /\ i \in 0..(shed - 1) /\ n - i = m
      <3>1. Len(kept) = n - shed /\ m > Len(kept)
        BY <1>2, <1>3, <1>5 DEF m
      <3> QED BY <1>1, <1>2, <2>2, <3>1
    <2>9. Len(rest(i)) = m /\ Sum(rest(i)) = SumTo(sorted, n) - SumTo(sorted, i)
      BY <1>3, <2>8
    <2>10. SumTo(sorted, n) \in Nat /\ SumTo(sorted, i) \in Nat
      BY <1>1, <1>4, <2>8
    <2>11. Sum(rest(i)) <= limit
      BY <2>4, <2>5, <2>6, <2>7, <2>9, <2>10
    <2>12. fine(i)
      BY <2>9, <2>11 DEF Balanced, limit
    <2> QED BY <1>2, <2>8, <2>12
  <1>6. ASSUME NEW S \in SUBSET DOMAIN draw, Balanced(SumAt(draw, S), Cardinality(S), o)
        PROVE  Cardinality(S) <= Len(kept)
    <2>1. Len(kept) \in Nat
      <3>1. Len(kept) = n - shed
        BY <1>2, <1>3
      <3> QED BY <1>1, <1>2, <3>1
    <2>2. Cardinality(S) \in Nat
      <3> DEFINE k == n
      <3>1. k \in Nat /\ S \subseteq 1..k
        BY <1>1
      <3> HIDE DEF k
      <3>2. IsFiniteSet(S)
        BY <3>1, FS_Interval, FS_Subset
      <3> QED BY <3>2, FS_CardinalityType
    <2> QED BY <1>5, <1>6, <2>1, <2>2
  <1>7. Balanced(Sum(kept), Len(kept), o)
    BY <1>2
  <1> QED BY <1>6, <1>7 DEF kept

-----------------------------------------------------------------------------
(* The placement of a cold start.                                          *)

PlacedNode == [lengths : Seq(Nat), total : Nat]

\* A placement appends a length to a node.
PlaceBody(c, h, k) == PlaceStep([kept |-> c.kept, op |-> c.op], h, k)
PlaceInv(c, h, k) == h \in [c.at -> PlacedNode]
PlaceLoop == INSTANCE LoopTheory WITH Step <- PlaceBody, Inv <- PlaceInv

LEMMA PlaceTypes ==
    ASSUME NEW order \in Seq(Nat), NEW o, NEW m, NEW z \in 1..m
    PROVE  cold_start(order, m, o)[z].lengths \in Seq(Nat)
  <1> DEFINE c == [kept |-> order, op |-> o, at |-> 1..m]
             n == Len(order)
             start == [y \in 1..m |-> EmptyNode]
             last == cold_start(order, m, o)
  <1>1. last = PlaceLoop!Loop(c, n, start)
    BY DEF cold_start, PlaceLoop!Loop, PlaceLoop!Iterate, Iterate, PlaceBody
  <1>2. n \in Nat /\ c.kept = order /\ c.at = 1..m
    OBVIOUS
  <1>3. PlaceInv(c, start, 0)
    <2>1. EmptyNode \in PlacedNode
      BY DEF EmptyNode, PlacedNode
    <2> QED BY <2>1 DEF PlaceInv
  <1> HIDE DEF c, start
  <1>4. ASSUME NEW k \in 0..(n - 1), NEW h, PlaceInv(c, h, k)
        PROVE  PlaceInv(c, PlaceBody(c, h, k + 1), k + 1)
    <2> DEFINE len == c.kept[k + 1]
               j == Placement(h, len, c.op)
    <2>1. len \in Nat /\ h \in [1..m -> PlacedNode]
      BY <1>2, <1>4 DEF PlaceInv
    <2>2. PlaceBody(c, h, k + 1) = IF j = 0 THEN h ELSE [h EXCEPT ![j] = admit(@, len)]
      BY DEF PlaceBody, PlaceStep
    <2>3. \A node \in PlacedNode : admit(node, len) \in PlacedNode
      <3> TAKE node \in PlacedNode
      <3>1. node.lengths \in Seq(Nat) /\ node.total \in Nat
        BY DEF PlacedNode
      <3> HIDE DEF len
      <3>2. Append(node.lengths, len) \in Seq(Nat)
        BY <2>1, <3>1, Appended
      <3>3. node.total + len \in Nat
        BY <2>1, <3>1
      <3> QED BY <3>2, <3>3 DEF admit, PlacedNode
    <2> HIDE DEF j, len
    <2>4. [h EXCEPT ![j] = admit(@, len)] \in [1..m -> PlacedNode]
      BY <2>1, <2>3
    <2>5. PlaceBody(c, h, k + 1) \in [1..m -> PlacedNode]
      BY <2>1, <2>2, <2>4
    <2> QED BY <1>2, <2>5 DEF PlaceInv
  <1> HIDE DEF n, last
  <1>5. PlaceInv(c, last, n)
    BY <1>1, <1>2, <1>3, <1>4, PlaceLoop!LoopInvariant
  <1>6. last[z] \in PlacedNode
    BY <1>2, <1>5 DEF PlaceInv
  <1> QED BY <1>6 DEF PlacedNode, last

\* The lengths that the nodes start with, cut to the pool.
LEMMA ColdStartTypes ==
    ASSUME NEW draw \in Seq(Nat),
           NEW o, o.ctx_balance \in Nat, o.edge_band \in Nat, o.decode_pool \in Nat,
           NEW m, NEW nodes \in ColdStarts(draw, m, o), NEW z \in 1..m
    PROVE  nodes[z] \in Seq(Nat) /\ Len(nodes[z]) <= o.decode_pool
  <1> DEFINE kept == gate(draw, o).kept
             Trimmed(s) == SubSeq(s, 1, IF Len(s) < o.decode_pool THEN Len(s) ELSE o.decode_pool)
  <1>1. kept \in Seq(Nat)
    BY GateTypes
  <1>2. PICK order \in Shuffles(kept) : nodes = [y \in 1..m |-> Trimmed(cold_start(order, m, o)[y].lengths)]
    BY DEF ColdStarts
  <1> HIDE DEF kept
  <1>3. order \in Seq(Nat)
    <2>1. order \in [DOMAIN kept -> Range(kept)]
      BY DEF Shuffles
    <2>2. Range(kept) \subseteq Nat /\ DOMAIN kept = 1..Len(kept) /\ Len(kept) \in Nat
      BY <1>1, SeqElements
    <2> QED BY <2>1, <2>2
  <1> DEFINE s == cold_start(order, m, o)[z].lengths
             n == Len(s)
             p == o.decode_pool
  <1>4. s \in Seq(Nat) /\ p \in Nat
    BY <1>3, PlaceTypes
  <1>5. nodes[z] = SubSeq(s, 1, IF n < p THEN n ELSE p)
    BY <1>2
  <1> HIDE DEF s, p
  <1>6. n \in Nat
    BY <1>4
  <1>7. CASE n < p
    <2>1. nodes[z] = SubSeq(s, 1, n) /\ n <= p
      BY <1>4, <1>5, <1>6, <1>7
    <2>2. SubSeq(s, 1, n) \in Seq(Nat) /\ Len(SubSeq(s, 1, n)) = n
      BY <1>4, <1>6
    <2> QED BY <2>1, <2>2 DEF p
  <1>8. CASE ~(n < p)
    <2>1. nodes[z] = SubSeq(s, 1, p) /\ p <= n
      BY <1>4, <1>5, <1>6, <1>8
    <2>2. SubSeq(s, 1, p) \in Seq(Nat) /\ Len(SubSeq(s, 1, p)) = p
      BY <1>4, <1>6, <2>1
    <2> QED BY <1>4, <2>1, <2>2 DEF p
  <1> QED BY <1>7, <1>8

-----------------------------------------------------------------------------
(* The batches that the on-point check reports.                            *)

\* The ways to order the numbers up to n.
Orders(n) == {f \in [1..n -> 1..n] : \A i, j \in 1..n : f[i] = f[j] => i = j}

\* The gate's order is the draw in another order.
OrderInv(c, h, k) ==
    /\ h \in Seq(Nat) /\ Len(h) = k
    /\ \E f \in Orders(k) : \A i \in 1..k : h[i] = c[f[i]]
OrderLoop == INSTANCE LoopTheory WITH Step <- GateBody, Inv <- OrderInv

LEMMA OrderStepKeeps ==
    ASSUME NEW draw \in Seq(Nat), NEW k \in 0..(Len(draw) - 1), NEW h, OrderInv(draw, h, k)
    PROVE  OrderInv(draw, GateBody(draw, h, k + 1), k + 1)
  <1> DEFINE r == draw[k + 1]
             before == {i \in DOMAIN h : h[i] >= r}
             p == Cardinality(before) + 1
             t == InsertAt(h, p, r)
  <1>1. PICK f \in Orders(k) : \A i \in 1..k : h[i] = draw[f[i]]
    BY DEF OrderInv
  <1>2. /\ k \in Nat /\ r \in Nat /\ h \in Seq(Nat) /\ Len(h) = k /\ DOMAIN h = 1..k
        /\ f \in [1..k -> 1..k] /\ \A i, j \in 1..k : f[i] = f[j] => i = j
    <2>1. k \in Nat /\ k + 1 \in 1..Len(draw)
      OBVIOUS
    <2>2. r \in Nat
      BY <2>1
    <2>3. h \in Seq(Nat) /\ Len(h) = k
      BY DEF OrderInv
    <2>4. DOMAIN h = 1..k
      BY <2>3
    <2> HIDE DEF r
    <2> QED BY <2>1, <2>2, <2>3, <2>4 DEF Orders
  <1>3. p \in 1..(k + 1)
    <2>1. before \subseteq 1..k
      BY <1>2
    <2> HIDE DEF before
    <2>2. IsFiniteSet(1..k) /\ Cardinality(1..k) = k
      BY <1>2, FS_Interval
    <2>3. IsFiniteSet(before) /\ Cardinality(before) <= k
      BY <2>1, <2>2, FS_Subset
    <2>4. Cardinality(before) \in Nat
      BY <2>3, FS_CardinalityType
    <2> QED BY <1>2, <2>3, <2>4
  <1>4. GateBody(draw, h, k + 1) = t
    BY DEF GateBody, SortStep
  <1> HIDE DEF r, p
  <1>5. /\ t \in Seq(Nat) /\ Len(t) = k + 1
        /\ \A j \in 1..(k + 1) : t[j] = IF j < p THEN h[j] ELSE IF j = p THEN r ELSE h[j - 1]
    <2>1. h \in Seq(Nat) /\ p \in 1..(Len(h) + 1) /\ r \in Nat
      BY <1>2, <1>3
    <2>2. /\ t \in Seq(Nat) /\ Len(t) = Len(h) + 1
          /\ \A j \in 1..(Len(h) + 1) : t[j] = IF j < p THEN h[j] ELSE IF j = p THEN r ELSE h[j - 1]
      BY <2>1, Inserted
    <2> HIDE DEF t
    <2> QED BY <1>2, <2>2
  <1> HIDE DEF t
  <1> DEFINE g == [j \in 1..(k + 1) |-> IF j < p THEN f[j] ELSE IF j = p THEN k + 1 ELSE f[j - 1]]
  <1>6. \A j \in 1..(k + 1) : /\ j < p => j \in 1..k
                              /\ j > p => j - 1 \in 1..k
    BY <1>2, <1>3
  <1>7. \A j \in 1..k : f[j] \in 1..k /\ f[j] # k + 1
    BY <1>2
  <1>8. g \in [1..(k + 1) -> 1..(k + 1)]
    <2> SUFFICES ASSUME NEW j \in 1..(k + 1) PROVE g[j] \in 1..(k + 1)
      OBVIOUS
    <2> QED BY <1>2, <1>3, <1>6, <1>7
  <1>9. ASSUME NEW i \in 1..(k + 1), NEW j \in 1..(k + 1), g[i] = g[j] PROVE i = j
    <2>1. CASE i = p \/ j = p
      BY <1>3, <1>6, <1>7, <1>9, <2>1
    <2>2. CASE i # p /\ j # p
      <3> DEFINE u == IF i < p THEN i ELSE i - 1
                 v == IF j < p THEN j ELSE j - 1
      <3>1. u \in 1..k /\ g[i] = f[u]
        BY <1>2, <1>3, <1>6, <2>2
      <3>3. v \in 1..k /\ g[j] = f[v]
        BY <1>2, <1>3, <1>6, <2>2
      <3> HIDE DEF g
      <3>2. u = v
        BY <1>2, <1>9, <3>1, <3>3
      <3> QED BY <1>2, <1>3, <2>2, <3>2
    <2> QED BY <2>1, <2>2
  <1>10. ASSUME NEW j \in 1..(k + 1) PROVE t[j] = draw[g[j]]
    BY <1>1, <1>2, <1>3, <1>5, <1>6 DEF r
  <1>11. g \in Orders(k + 1)
    BY <1>8, <1>9 DEF Orders
  <1> HIDE DEF g
  <1> QED BY <1>4, <1>5, <1>10, <1>11 DEF OrderInv

\* Sorting permutes.
LEMMA AscendingPermutes ==
    ASSUME NEW s \in Seq(Nat)
    PROVE  LET n == Len(s)
               a == Ascending(s)
           IN  /\ n \in Nat /\ a \in Seq(Nat) /\ Len(a) = n
               /\ \E f \in Orders(n) : \A i \in 1..n : a[i] = s[f[i]]
  <1> DEFINE n == Len(s)
             h == GateOrder(s)
             a == Ascending(s)
             start == <<>>
  <1>1. h = OrderLoop!Loop(s, n, start)
    BY DEF GateOrder, OrderLoop!Loop, OrderLoop!Iterate, Iterate, GateBody
  <1>2. n \in Nat /\ start \in Seq(Nat) /\ Len(start) = 0
    OBVIOUS
  <1>3. OrderInv(s, start, 0)
    <2> DEFINE e == [i \in 1..0 |-> i]
    <2>1. e \in Orders(0) /\ \A i \in 1..0 : start[i] = s[e[i]]
      BY DEF Orders
    <2> HIDE DEF start, e
    <2> QED BY <1>2, <2>1 DEF OrderInv
  <1> HIDE DEF start
  <1>4. ASSUME NEW k \in 0..(n - 1), NEW x, OrderInv(s, x, k)
        PROVE  OrderInv(s, GateBody(s, x, k + 1), k + 1)
    BY <1>4, OrderStepKeeps
  <1> HIDE DEF n
  <1>5. OrderInv(s, OrderLoop!Loop(s, n, start), n)
    BY <1>2, <1>3, <1>4, OrderLoop!LoopInvariant
  <1>6. h \in Seq(Nat) /\ Len(h) = n
    BY <1>1, <1>5 DEF OrderInv
  <1>7. PICK f \in Orders(n) : \A i \in 1..n : h[i] = s[f[i]]
    BY <1>1, <1>5 DEF OrderInv
  <1>8. a = [i \in 1..n |-> h[(n - i) + 1]]
    BY <1>6 DEF Ascending, Reverse
  <1> HIDE DEF h
  <1>9. f \in [1..n -> 1..n] /\ \A i, j \in 1..n : f[i] = f[j] => i = j
    BY DEF Orders
  <1>10. \A i \in 1..n : (n - i) + 1 \in 1..n
    BY <1>2
  <1> DEFINE g == [i \in 1..n |-> f[(n - i) + 1]]
  <1>11. g \in Orders(n)
    <2>1. g \in [1..n -> 1..n]
      BY <1>9, <1>10
    <2>2. ASSUME NEW i \in 1..n, NEW j \in 1..n, g[i] = g[j] PROVE i = j
      <3>1. (n - i) + 1 = (n - j) + 1
        BY <1>9, <1>10, <2>2
      <3> QED BY <1>2, <3>1
    <2> QED BY <2>1, <2>2 DEF Orders
  <1>12. \A i \in 1..n : a[i] = s[g[i]]
    BY <1>7, <1>8, <1>10
  <1>13. a \in Seq(Nat) /\ Len(a) = n
    <2>1. \A i \in 1..n : a[i] \in Nat
      BY <1>6, <1>8, <1>10
    <2> HIDE DEF a
    <2> QED BY <1>2, <1>8, <2>1
  <1> HIDE DEF a, g
  <1> QED BY <1>2, <1>11, <1>12, <1>13 DEF n, a

\* The sum of a part grows by the member that joins it.
LEMMA PartGrows ==
    ASSUME NEW s \in Seq(Nat), NEW S \in SUBSET DOMAIN s, NEW i \in DOMAIN s, i \notin S
    PROVE  /\ SumAt(s, S) \in Nat /\ SumAt(s, {}) = 0
           /\ SumAt(s, S \cup {i}) = SumAt(s, S) + s[i]
  <1> DEFINE n == Len(s)
             t == Picked(s, S)
             u == Picked(s, S \cup {i})
             z == Picked(s, {})
  <1>1. n \in Nat /\ DOMAIN s = 1..n /\ \A j \in 1..n : s[j] \in Nat
    OBVIOUS
  <1>2. /\ SumAt(s, S) = Sum(t) /\ SumAt(s, S \cup {i}) = Sum(u) /\ SumAt(s, {}) = Sum(z)
        /\ t = [j \in 1..n |-> IF j \in S THEN s[j] ELSE 0]
        /\ u = [j \in 1..n |-> IF j \in S \cup {i} THEN s[j] ELSE 0]
        /\ z = [j \in 1..n |-> 0]
    BY <1>1 DEF SumAt, Picked
  <1> HIDE DEF n, t, u, z
  <1>3. /\ Len(t) = n /\ Len(u) = n /\ Len(z) = n
        /\ \A j \in 1..n : t[j] \in Nat /\ u[j] \in Nat
        /\ \A j \in 1..n : j # i => u[j] = t[j]
        /\ t[i] = 0 /\ u[i] = s[i] /\ \A j \in 1..n : z[j] = 0
    BY <1>1, <1>2
  <1>4. SumTo(u, n) + t[i] = SumTo(t, n) + u[i]
    <2>1. i \in 1..n
      BY <1>1
    <2>2. (\A j \in 1..n : t[j] \in Nat /\ u[j] \in Nat) /\ \A j \in 1..n : j # i => u[j] = t[j]
      BY <1>3
    <2>3. n \in Nat
      BY <1>1
    <2> QED BY <2>1, <2>2, <2>3, SumChanges
  <1>5. SumTo(t, n) \in Nat /\ SumTo(u, n) \in Nat
    BY <1>1, <1>3, SumOfNumbers
  <1>6. SumTo(z, n) = 0
    <2> DEFINE Q == {k \in Nat : k <= n => SumTo(z, k) = 0}
    <2>1. 0 \in Q
      BY SumToStep
    <2>2. ASSUME NEW k \in Nat, k \in Q PROVE k + 1 \in Q
      <3>1. SumTo(z, k + 1) = SumTo(z, k) + z[k + 1]
        BY SumToStep
      <3>2. k + 1 <= n => k + 1 \in 1..n /\ k <= n
        BY <1>1
      <3> QED BY <1>3, <2>2, <3>1, <3>2
    <2> HIDE DEF Q
    <2>3. n \in Q
      BY <1>1, <2>1, <2>2, SumLoop!Induct
    <2> QED BY <2>3 DEF Q
  <1>7. Sum(t) = SumTo(t, n) /\ Sum(u) = SumTo(u, n) /\ Sum(z) = SumTo(z, n)
    BY <1>3, SumIsSumTo
  <1> QED BY <1>1, <1>2, <1>3, <1>4, <1>5, <1>6, <1>7

\* Where f puts the members of a part.
Moved(f, U) == {f[i] : i \in U}

\* A part has as many members and the same sum where a permutation puts it.
LEMMA PartMoved ==
    ASSUME NEW s \in Seq(Nat), NEW a \in Seq(Nat), NEW n \in Nat, Len(s) = n, Len(a) = n,
           NEW f \in Orders(n), \A i \in 1..n : a[i] = s[f[i]],
           NEW U \in SUBSET (1..n)
    PROVE  /\ Moved(f, U) \in SUBSET (1..n)
           /\ Cardinality(Moved(f, U)) = Cardinality(U) /\ SumAt(s, Moved(f, U)) = SumAt(a, U)
  <1> DEFINE To(W) == {f[i] : i \in W}
             Q == {m \in Nat : m <= n => \A W \in SUBSET (1..m) :
                      Cardinality(To(W)) = Cardinality(W) /\ SumAt(s, To(W)) = SumAt(a, W)}
  <1>1. f \in [1..n -> 1..n] /\ (\A i, j \in 1..n : f[i] = f[j] => i = j)
        /\ DOMAIN s = 1..n /\ DOMAIN a = 1..n
    BY DEF Orders
  <1>2. 0 \in Q
    <2> SUFFICES ASSUME NEW W \in SUBSET (1..0)
                 PROVE  Cardinality(To(W)) = Cardinality(W) /\ SumAt(s, To(W)) = SumAt(a, W)
      OBVIOUS
    <2>1. W = {} /\ To(W) = {}
      OBVIOUS
    <2>2. SumAt(s, {}) = 0 /\ SumAt(a, {}) = 0
      <3>1. CASE n = 0
        <4>1. Picked(s, {}) = <<>> /\ Picked(a, {}) = <<>>
          BY <1>1, <3>1 DEF Picked
        <4> QED BY <4>1, <1>1, <3>1, SumToStep, SumIsSumTo DEF SumAt
      <3>2. CASE n # 0
        <4>1. 1 \in DOMAIN s /\ 1 \in DOMAIN a
          BY <1>1, <3>2
        <4>2. {} \in SUBSET DOMAIN s /\ {} \in SUBSET DOMAIN a /\ 1 \notin {}
          OBVIOUS
        <4>3. SumAt(s, {}) = 0
          BY <4>1, <4>2, PartGrows
        <4>4. SumAt(a, {}) = 0
          BY <4>1, <4>2, PartGrows
        <4> QED BY <4>3, <4>4
      <3> QED BY <3>1, <3>2
    <2> QED BY <2>1, <2>2
  <1>3. ASSUME NEW m \in Nat, m \in Q PROVE m + 1 \in Q
    <2> HIDE DEF To
    <2> SUFFICES ASSUME m + 1 <= n, NEW W \in SUBSET (1..(m + 1))
                 PROVE  Cardinality(To(W)) = Cardinality(W) /\ SumAt(s, To(W)) = SumAt(a, W)
      OBVIOUS
    <2> USE DEF To
    <2> DEFINE e == m + 1
               R == W \ {e}
    <2>1. /\ e \in 1..n /\ m <= n /\ R \in SUBSET (1..m) /\ R \in SUBSET (1..n) /\ e \notin R
          /\ f[e] \in 1..n
      BY <1>1
    <2>2. Cardinality(To(R)) = Cardinality(R) /\ SumAt(s, To(R)) = SumAt(a, R)
      BY <1>3, <2>1
    <2>3. CASE e \notin W
      <3>1. W = R
        BY <2>3
      <3> HIDE DEF R, To
      <3> QED BY <2>2, <3>1
    <2>4. CASE e \in W
      <3>0. W = R \cup {e}
        BY <2>4
      <3>1. W = R \cup {e} /\ To(W) = To(R) \cup {f[e]}
        <4> HIDE DEF R, e
        <4> QED BY <3>0
      <3>2. f[e] \notin To(R) /\ To(R) \in SUBSET (1..n)
        <4> HIDE DEF R, e
        <4>1. \A i \in R : i \in 1..n /\ i # e /\ f[i] \in 1..n
          BY <1>1, <2>1
        <4>2. \A i \in R : f[i] # f[e]
          BY <1>1, <2>1, <4>1
        <4> QED BY <4>1, <4>2
      <3>3. IsFiniteSet(R) /\ IsFiniteSet(To(R))
        <4> HIDE DEF R, To
        <4>1. IsFiniteSet(1..n)
          BY FS_Interval
        <4> QED BY <2>1, <3>2, <4>1, FS_Subset
      <3> HIDE DEF e, R, To
      <3>4. /\ Cardinality(R \cup {e}) = Cardinality(R) + 1
            /\ Cardinality(To(R) \cup {f[e]}) = Cardinality(To(R)) + 1
        BY <2>1, <3>2, <3>3, FS_AddElement
      <3>5. SumAt(s, To(R) \cup {f[e]}) = SumAt(s, To(R)) + s[f[e]]
        <4> DEFINE X == To(R)
                   y == f[e]
        <4>1. X \in SUBSET DOMAIN s /\ y \in DOMAIN s /\ y \notin X
          BY <1>1, <2>1, <3>2
        <4> HIDE DEF X, y
        <4>2. SumAt(s, X \cup {y}) = SumAt(s, X) + s[y]
          BY <4>1, PartGrows
        <4> QED BY <4>2 DEF X, y
      <3>6. SumAt(a, R \cup {e}) = SumAt(a, R) + a[e]
        BY <1>1, <2>1, PartGrows
      <3>7. a[e] = s[f[e]]
        BY <2>1
      <3> QED BY <2>2, <3>1, <3>4, <3>5, <3>6, <3>7
    <2> QED BY <2>3, <2>4
  <1> HIDE DEF Q
  <1>4. n \in Q
    BY <1>2, <1>3, SumLoop!Induct
  <1>5. Cardinality(To(U)) = Cardinality(U) /\ SumAt(s, To(U)) = SumAt(a, U)
    <2> HIDE DEF To
    <2> QED BY <1>4 DEF Q
  <1>6. To(U) \in SUBSET (1..n)
    BY <1>1
  <1>7. Moved(f, U) = To(U)
    BY DEF Moved
  <1> HIDE DEF To
  <1> QED BY <1>5, <1>6, <1>7

\* A batch so far: who was chosen, all free before, how many and with how much.
ComposeInv(c, b, k) ==
    /\ b.chosen \subseteq DOMAIN c.a \ c.used
    /\ b.n = Cardinality(b.chosen) /\ b.S = SumAt(c.a, b.chosen)
ComposeLoop == INSTANCE LoopTheory WITH Step <- ComposeStep, Inv <- ComposeInv

LEMMA ComposeStepKeeps ==
    ASSUME NEW c, c.a \in Seq(Nat), NEW b, NEW k, NEW j, ComposeInv(c, b, k)
    PROVE  ComposeInv(c, ComposeStep(c, b, j), j)
  <1> DEFINE n == Len(c.a)
             free == DOMAIN c.a \ (c.used \cup b.chosen)
  <1>1. n \in Nat /\ DOMAIN c.a = 1..n /\ free \subseteq 1..n
    BY SeqElements
  <1>2. \/ ComposeStep(c, b, j) = b
        \/ \E best \in free : ComposeStep(c, b, j) =
               [n |-> b.n + 1, S |-> b.S + c.a[best], chosen |-> b.chosen \cup {best}]
    <2> DEFINE slots == c.op.decode_count_target - b.n
               room == c.op.kv_operating_target - b.S
               ideal == (2 * room + slots) \div (2 * slots)
               left == {i \in free : c.a[i] < ideal}
               right == free \ left
               L == CHOOSE i \in left : \A h \in left : i >= h
               R == CHOOSE i \in right : \A h \in right : i <= h
               best == IF left = {} THEN R
                       ELSE IF right = {} \/ ideal - c.a[L] <= c.a[R] - ideal THEN L ELSE R
    <2>1. ComposeStep(c, b, j) =
              IF free = {} \/ room <= 0 THEN b
              ELSE [n |-> b.n + 1, S |-> b.S + c.a[best], chosen |-> b.chosen \cup {best}]
      BY DEF ComposeStep
    <2>2. left \cup right = free
      OBVIOUS
    <2> HIDE DEF slots, room, ideal
    <2> HIDE DEF left, right, free
    <2>6. left \subseteq 1..n /\ right \subseteq 1..n
      BY <1>1, <2>2
    <2>3. ASSUME left # {} PROVE L \in left
      <3>1. left \subseteq 1..n
        BY <2>6
      <3> DEFINE back == {n - i : i \in left}
      <3>2. back \subseteq Nat /\ back # {}
        <4> HIDE DEF n, L
        <4>1. \A i \in 1..n : n - i \in Nat
          BY <1>1
        <4> QED BY <2>3, <3>1, <4>1
      <3> HIDE DEF back
      <3>3. PICK m \in back : \A h \in back : m <= h
        BY <3>2, LeastNatural
      <3>4. PICK i \in left : m = n - i
        BY DEF back
      <3>5. ASSUME NEW h \in left PROVE i >= h
        <4>1. n - h \in back /\ h \in 1..n /\ i \in 1..n
          BY <3>1 DEF back
        <4>2. n - i <= n - h
          BY <3>3, <3>4, <4>1
        <4> QED BY <1>1, <4>1, <4>2
      <3>6. \E y \in left : \A h \in left : y >= h
        BY <3>5
      <3> QED BY <3>6
    <2>4. ASSUME right # {} PROVE R \in right
      <3>1. right \subseteq Nat
        BY <2>6
      <3>2. \E y \in right : \A h \in right : y <= h
        BY <2>4, <3>1, LeastNatural
      <3> QED BY <3>2
    <2> HIDE DEF L, R
    <2>5. free # {} => best \in free
      BY <2>2, <2>3, <2>4
    <2> HIDE DEF best
    <2> QED BY <2>1, <2>5
  <1> HIDE DEF free
  <1>3. CASE ComposeStep(c, b, j) = b
    BY <1>3 DEF ComposeInv
  <1>4. CASE \E best \in free : ComposeStep(c, b, j) =
               [n |-> b.n + 1, S |-> b.S + c.a[best], chosen |-> b.chosen \cup {best}]
    <2>1. PICK i \in free : ComposeStep(c, b, j) =
               [n |-> b.n + 1, S |-> b.S + c.a[i], chosen |-> b.chosen \cup {i}]
      BY <1>4
    <2> DEFINE C == b.chosen
               a == c.a
    <2>2. /\ a \in Seq(Nat) /\ C \in SUBSET DOMAIN a /\ i \in DOMAIN a /\ i \notin C /\ i \notin c.used
          /\ C \cap c.used = {} /\ b.n = Cardinality(C) /\ b.S = SumAt(a, C) /\ DOMAIN a = 1..n
      BY <1>1 DEF ComposeInv, free
    <2> DEFINE e == ComposeStep(c, b, j)
    <2>3. e.n = b.n + 1 /\ e.S = b.S + a[i] /\ e.chosen = C \cup {i}
      BY <2>1
    <2> HIDE DEF C, e, n
    <2>4. SumAt(a, C \cup {i}) = SumAt(a, C) + a[i]
      BY <2>2, PartGrows
    <2>5. IsFiniteSet(C)
      <3>1. IsFiniteSet(1..n)
        BY <1>1, FS_Interval
      <3> QED BY <2>2, <3>1, FS_Subset
    <2>6. Cardinality(C \cup {i}) = Cardinality(C) + 1
      BY <2>2, <2>5, FS_AddElement
    <2>7. e.chosen \subseteq DOMAIN a \ c.used
      BY <2>2, <2>3
    <2>8. e.n = Cardinality(e.chosen) /\ e.S = SumAt(a, e.chosen)
      BY <2>2, <2>3, <2>4, <2>6
    <2> QED BY <2>7, <2>8 DEF ComposeInv, e
  <1> QED BY <1>2, <1>3, <1>4

LEMMA BatchIsPart ==
    ASSUME NEW a \in Seq(Nat), NEW used, NEW o, o.decode_count_target \in Nat
    PROVE  LET b == ComposeBatch(a, used, o)
           IN  /\ b.chosen \subseteq DOMAIN a \ used
               /\ b.n = Cardinality(b.chosen) /\ b.S = SumAt(a, b.chosen)
  <1> DEFINE c == [a |-> a, used |-> used, op |-> o]
             start == [n |-> 0, S |-> 0, chosen |-> {}]
             m == o.decode_count_target
  <1>1. ComposeBatch(a, used, o) = ComposeLoop!Loop(c, m, start)
    BY DEF ComposeBatch, ComposeLoop!Loop, ComposeLoop!Iterate, Iterate
  <1>2. SumAt(a, {}) = 0
    <2>1. CASE Len(a) = 0
      <3>1. Picked(a, {}) = <<>>
        BY <2>1 DEF Picked
      <3> QED BY <3>1, SumToStep, SumIsSumTo DEF SumAt, Picked
    <2>2. CASE Len(a) # 0
      <3>1. 1 \in DOMAIN a /\ {} \in SUBSET DOMAIN a /\ 1 \notin {}
        BY <2>2
      <3> QED BY <3>1, PartGrows
    <2> QED BY <2>1, <2>2
  <1>3. c.a = a /\ c.used = used /\ start.n = 0 /\ start.S = 0 /\ start.chosen = {}
    OBVIOUS
  <1> HIDE DEF c, start
  <1>4. ComposeInv(c, start, 0)
    BY <1>2, <1>3, FS_EmptySet DEF ComposeInv
  <1>5. ASSUME NEW k \in 0..(m - 1), NEW b, ComposeInv(c, b, k)
        PROVE  ComposeInv(c, ComposeStep(c, b, k + 1), k + 1)
    BY <1>3, <1>5, ComposeStepKeeps
  <1> HIDE DEF m
  <1>6. m \in Nat
    BY DEF m
  <1>7. ComposeInv(c, ComposeLoop!Loop(c, m, start), m)
    BY <1>4, <1>5, <1>6, ComposeLoop!LoopInvariant
  <1> QED BY <1>1, <1>3, <1>7 DEF ComposeInv

\* The batches on the operating point so far are disjoint parts of what is sorted.
FinePart(a, S, o) == S \subseteq DOMAIN a /\ OnPoint(Cardinality(S), SumAt(a, S), o)
ComposedBody(c, got, k) == Composed(got, c.a, c.op)
FoundInv(c, got, k) ==
    /\ got = [batches |-> got.batches, used |-> got.used, failed |-> got.failed]
    /\ got.failed \in BOOLEAN /\ got.batches \in 0..k
    /\ got.batches = 0 => got.used = {}
    /\ got.batches = 1 => FinePart(c.a, got.used, c.op)
    /\ got.batches = 2 =>
           \E S, T : FinePart(c.a, S, c.op) /\ FinePart(c.a, T, c.op) /\ S \cap T = {}
FoundLoop == INSTANCE LoopTheory WITH Step <- ComposedBody, Inv <- FoundInv

LEMMA FoundStepKeeps ==
    ASSUME NEW c, c.a \in Seq(Nat), c.op.decode_count_target \in Nat,
           NEW k \in 0..1, NEW got, FoundInv(c, got, k)
    PROVE  FoundInv(c, ComposedBody(c, got, k + 1), k + 1)
  <1> DEFINE a == c.a
             o == c.op
             b == ComposeBatch(a, got.used, o)
             P == b.chosen
             after == ComposedBody(c, got, k + 1)
  <1>1. P \subseteq DOMAIN a \ got.used /\ b.n = Cardinality(P) /\ b.S = SumAt(a, P)
    BY BatchIsPart
  <1>2. after = IF got.failed \/ ~OnPoint(b.n, b.S, o)
                THEN [got EXCEPT !.failed = TRUE]
                ELSE [got EXCEPT !.batches = @ + 1, !.used = @ \cup b.chosen]
    BY DEF ComposedBody, Composed
  <1> HIDE DEF b, P, after
  <1>3. /\ got = [batches |-> got.batches, used |-> got.used, failed |-> got.failed]
        /\ got.failed \in BOOLEAN /\ got.batches \in 0..k
        /\ got.batches = 0 => got.used = {}
        /\ got.batches = 1 => FinePart(a, got.used, o)
        /\ got.batches = 2 =>
               \E S, T : FinePart(a, S, o) /\ FinePart(a, T, o) /\ S \cap T = {}
    BY DEF FoundInv
  <1>4. CASE got.failed \/ ~OnPoint(b.n, b.S, o)
    <2>1. after = [got EXCEPT !.failed = TRUE]
      BY <1>2, <1>4
    <2>2. /\ after = [batches |-> after.batches, used |-> after.used, failed |-> after.failed]
          /\ after.batches = got.batches /\ after.used = got.used /\ after.failed = TRUE
      BY <1>3, <2>1
    <2>3. got.batches \in 0..(k + 1)
      BY <1>3
    <2> HIDE DEF a, o
    <2> QED BY <1>3, <2>2, <2>3 DEF FoundInv, after, a, o
  <1>5. CASE ~(got.failed \/ ~OnPoint(b.n, b.S, o))
    <2>1. after = [got EXCEPT !.batches = @ + 1, !.used = @ \cup P]
      BY <1>2, <1>5 DEF P
    <2>2. /\ after = [batches |-> after.batches, used |-> after.used, failed |-> after.failed]
          /\ after.batches = got.batches + 1 /\ after.used = got.used \cup P
          /\ after.failed = got.failed
      BY <1>3, <2>1
    <2>3. FinePart(a, P, o)
      BY <1>1, <1>5 DEF FinePart
    <2>4. after.batches \in 0..(k + 1) /\ after.failed \in BOOLEAN
      BY <1>3, <2>2
    <2>5. ASSUME after.batches = 1 PROVE FinePart(a, after.used, o)
      <3>1. got.batches = 0
        BY <1>3, <2>2, <2>5
      <3>2. after.used = P
        BY <1>3, <2>2, <3>1
      <3> QED BY <2>3, <3>2
    <2>6. ASSUME after.batches = 2
          PROVE  \E S, T : FinePart(a, S, o) /\ FinePart(a, T, o) /\ S \cap T = {}
      <3>1. got.batches = 1
        BY <1>3, <2>2, <2>6
      <3>2. FinePart(a, got.used, o) /\ got.used \cap P = {}
        BY <1>1, <1>3, <3>1
      <3> QED BY <2>3, <3>2
    <2>7. after.batches # 0
      BY <1>3, <2>2
    <2> HIDE DEF a, o
    <2> QED BY <2>2, <2>4, <2>5, <2>6, <2>7 DEF FoundInv, after, a, o
  <1> QED BY <1>4, <1>5

\* When the check reports two batches, the node holds two disjoint sets of residents
\* on the operating point, however many it holds.
THEOREM TwoBatchesAreReal ==
    ASSUME NEW node, node.lengths \in Seq(Nat), NEW o, o.decode_count_target \in Nat,
           onpoint_batches(node, o, 2) = 2
    PROVE  LET lengths == node.lengths
               fine == {S \in SUBSET DOMAIN lengths :
                           OnPoint(Cardinality(S), SumAt(lengths, S), o)}
           IN  \E S \in fine, T \in fine : S \cap T = {}
  <1> DEFINE s == node.lengths
             n == Len(s)
             a == Ascending(s)
             c == [a |-> a, op |-> o]
             start == [batches |-> 0, used |-> {}, failed |-> FALSE]
             got == FoundLoop!Loop(c, 2, start)
             fine == {S \in SUBSET DOMAIN s : OnPoint(Cardinality(S), SumAt(s, S), o)}
  <1>1. n \in Nat /\ a \in Seq(Nat) /\ Len(a) = n
    BY AscendingPermutes
  <1>2. PICK f \in Orders(n) : \A i \in 1..n : a[i] = s[f[i]]
    BY AscendingPermutes
  <1>3. onpoint_batches(node, o, 2) = IF Len(a) < o.decode_count_target THEN 0 ELSE got.batches
    BY DEF onpoint_batches, FoundLoop!Loop, FoundLoop!Iterate, Iterate, ComposedBody
  <1>4. c.a = a /\ c.op = o /\ FoundInv(c, start, 0)
    BY DEF FoundInv
  <1> HIDE DEF a, c, start
  <1>5. ASSUME NEW k \in 0..(2 - 1), NEW x, FoundInv(c, x, k)
        PROVE  FoundInv(c, ComposedBody(c, x, k + 1), k + 1)
    BY <1>1, <1>4, <1>5, FoundStepKeeps
  <1>6. FoundInv(c, got, 2)
    BY <1>4, <1>5, FoundLoop!LoopInvariant
  <1> HIDE DEF got
  <1>7. got.batches = 2
    BY <1>3
  <1>8. PICK S, T : FinePart(a, S, o) /\ FinePart(a, T, o) /\ S \cap T = {}
    BY <1>4, <1>6, <1>7 DEF FoundInv
  <1>9. ASSUME NEW W, FinePart(a, W, o) PROVE Moved(f, W) \in fine
    <2>1. W \in SUBSET (1..n) /\ OnPoint(Cardinality(W), SumAt(a, W), o)
      BY <1>1, <1>9 DEF FinePart
    <2>2. /\ Moved(f, W) \in SUBSET (1..n)
          /\ Cardinality(Moved(f, W)) = Cardinality(W) /\ SumAt(s, Moved(f, W)) = SumAt(a, W)
      <3>1. s \in Seq(Nat)
        OBVIOUS
      <3> HIDE DEF s, n
      <3>2. Len(s) = n
        BY DEF n
      <3> QED BY <1>1, <1>2, <2>1, <3>1, <3>2, PartMoved
    <2>3. DOMAIN s = 1..n
      OBVIOUS
    <2> HIDE DEF s
    <2> QED BY <2>1, <2>2, <2>3
  <1>10. Moved(f, S) \cap Moved(f, T) = {}
    <2>1. S \subseteq 1..n /\ T \subseteq 1..n
      BY <1>1, <1>8 DEF FinePart
    <2>2. \A i, j \in 1..n : f[i] = f[j] => i = j
      BY DEF Orders
    <2> QED BY <1>8, <2>1, <2>2 DEF Moved
  <1>11. Moved(f, S) \in fine /\ Moved(f, T) \in fine
    BY <1>8, <1>9
  <1> QED BY <1>10, <1>11

-----------------------------------------------------------------------------
(* One prefill batch of the steering.                                      *)

\* Numbers at the first n places have an upper bound.
LEMMA Bounded ==
    ASSUME NEW f, NEW n \in Nat, \A i \in 1..n : f[i] \in Nat
    PROVE  \E most \in Nat : \A i \in 1..n : f[i] <= most
  <1> DEFINE S == {k \in Nat : k <= n => \E most \in Nat : \A i \in 1..k : f[i] <= most}
  <1>1. 0 \in S
    OBVIOUS
  <1>2. ASSUME NEW k \in Nat, k \in S PROVE k + 1 \in S
    <2> SUFFICES ASSUME k + 1 <= n PROVE \E most \in Nat : \A i \in 1..(k + 1) : f[i] <= most
      OBVIOUS
    <2>1. PICK most \in Nat : \A i \in 1..k : f[i] <= most
      BY <1>2
    <2>2. f[k + 1] \in Nat
      OBVIOUS
    <2>3. CASE f[k + 1] <= most
      <3>1. \A i \in 1..(k + 1) : f[i] <= most
        BY <2>1, <2>3
      <3> QED BY <3>1
    <2>4. CASE f[k + 1] > most
      <3>1. \A i \in 1..k : f[i] \in Nat
        OBVIOUS
      <3>2. \A i \in 1..(k + 1) : f[i] <= f[k + 1]
        BY <2>1, <2>2, <2>4, <3>1
      <3> QED BY <2>2, <3>2
    <2> QED BY <2>2, <2>3, <2>4
  <1> HIDE DEF S
  <1>3. n \in S
    BY <1>1, <1>2, SumLoop!Induct
  <1> QED BY <1>3 DEF S

\* The numbers of a member and of the operating point that a prefill batch reads.
PrefillPool(pool) ==
    /\ Len(pool) \in Nat /\ DOMAIN pool = 1..Len(pool)
    /\ \A i \in DOMAIN pool : /\ pool[i].prompt \in Nat /\ pool[i].processed \in Nat
                              /\ pool[i].wait \in Nat /\ pool[i].processed <= pool[i].prompt
PrefillPoint(o) ==
    o.age_cap \in Nat /\ o.prefill_tokens \in Nat /\ o.prefill_kv_work_target \in Nat

\* Who can take a token, and who of them has aged without one.
Unfilled(pool, chunk) == {i \in DOMAIN pool : pool[i].processed + chunk[i] < pool[i].prompt}
Overlooked(c, chunk) == {i \in Unfilled(c.pool, chunk) : c.pool[i].wait >= c.op.age_cap /\ chunk[i] = 0}
Holders(chunk) == {i \in DOMAIN chunk : chunk[i] > 0}

\* After k tokens: nobody has more than its prompt; less than k are out only if
\* all are done; whoever holds one has waited as long as anybody aged who does
\* not; and while there is such a one, every token went to a member of its own.
PrefillInv(c, b, k) ==
    /\ b = [chunk |-> b.chunk, W |-> b.W] /\ b.W \in Nat
    /\ b.chunk \in [DOMAIN c.pool -> Nat]
    /\ \A i \in DOMAIN c.pool : c.pool[i].processed + b.chunk[i] <= c.pool[i].prompt
    /\ SumTo(b.chunk, Len(c.pool)) <= k
    /\ SumTo(b.chunk, Len(c.pool)) < k => Unfilled(c.pool, b.chunk) = {}
    /\ \A i \in Overlooked(c, b.chunk), j \in Holders(b.chunk) : c.pool[j].wait >= c.pool[i].wait
    /\ Overlooked(c, b.chunk) # {} => Cardinality(Holders(b.chunk)) = k

PrefillLoop == INSTANCE LoopTheory WITH Step <- PrefillStep, Inv <- PrefillInv

\* Whoever gets the next token can take it, and is the longest waiting of the
\* overlooked if there are any.
LEMMA PrefillPickIsOldest ==
    ASSUME NEW c, PrefillPool(c.pool), PrefillPoint(c.op), NEW chunk \in [DOMAIN c.pool -> Nat],
           NEW W \in Nat, NEW T \in Nat
    PROVE  LET i == PrefillPick(c.pool, chunk, c.op, W, T)
               aged == Overlooked(c, chunk)
           IN  /\ Unfilled(c.pool, chunk) = {} => i = 0
               /\ Unfilled(c.pool, chunk) # {} => i \in Unfilled(c.pool, chunk)
               /\ aged # {} => i \in aged /\ \A j \in aged : c.pool[i].wait >= c.pool[j].wait
  <1> DEFINE i == PrefillPick(c.pool, chunk, c.op, W, T)
             open == Unfilled(c.pool, chunk)
             aged == Overlooked(c, chunk)
             n == Len(c.pool)
             gap == [j \in open |-> Abs((c.pool[j].processed + chunk[j] + 1) * (c.op.prefill_tokens - T)
                                         - (c.op.prefill_kv_work_target - W))]
  <1>1. /\ n \in Nat /\ DOMAIN c.pool = 1..n
        /\ \A j \in 1..n : /\ c.pool[j].prompt \in Nat /\ c.pool[j].processed \in Nat
                           /\ c.pool[j].wait \in Nat /\ chunk[j] \in Nat
        /\ aged \subseteq open /\ open \subseteq 1..n
    BY DEF PrefillPool, Overlooked, Unfilled
  <1>2. CASE aged # {}
    <2> DEFINE waits == [j \in 1..n |-> c.pool[j].wait]
    <2>1. PICK most \in Nat : \A j \in 1..n : waits[j] <= most
      <3>1. \A j \in 1..n : waits[j] \in Nat
        BY <1>1
      <3> HIDE DEF waits
      <3> QED BY <1>1, <3>1, Bounded
    <2> DEFINE short == [j \in aged |-> most - c.pool[j].wait]
    <2>2. \A j \in aged : j \in Nat /\ c.pool[j].wait \in Nat /\ c.pool[j].wait <= most
      <3> SUFFICES ASSUME NEW j \in aged
                   PROVE  j \in Nat /\ c.pool[j].wait \in Nat /\ c.pool[j].wait <= most
        OBVIOUS
      <3>1. j \in 1..n
        BY <1>1
      <3>2. c.pool[j].wait = waits[j] /\ c.pool[j].wait \in Nat /\ j \in Nat
        BY <1>1, <3>1
      <3> HIDE DEF waits
      <3>3. waits[j] <= most
        BY <2>1, <3>1
      <3> QED BY <3>2, <3>3
    <2>3. short \in [aged -> Nat] /\ aged \subseteq Nat
      BY <2>2
    <2>4. PICK a \in aged : \A j \in aged : short[a] < short[j] \/ (short[a] = short[j] /\ a <= j)
      <3> HIDE DEF short, aged
      <3> QED BY <1>2, <2>3, LeastIndexExists
    <2>5. \A j \in aged : \/ -c.pool[a].wait < -c.pool[j].wait
                          \/ -c.pool[a].wait = -c.pool[j].wait /\ a <= j
      <3> TAKE j \in aged
      <3>1. short[a] = most - c.pool[a].wait /\ short[j] = most - c.pool[j].wait
        OBVIOUS
      <3> HIDE DEF short
      <3> QED BY <2>2, <2>4, <3>1
    <2>6. i = LongestWaiting(c.pool, aged)
      BY <1>2 DEF PrefillPick, Overlooked, Unfilled
    <2>7. /\ i \in aged
          /\ \A j \in aged : \/ -c.pool[i].wait < -c.pool[j].wait
                             \/ -c.pool[i].wait = -c.pool[j].wait /\ i <= j
      <3> HIDE DEF aged, i
      <3> QED BY <2>5, <2>6 DEF LongestWaiting, FirstLeast
    <2>8. \A j \in aged : c.pool[i].wait >= c.pool[j].wait
      BY <2>2, <2>7
    <2> QED BY <1>1, <1>2, <2>7, <2>8
  <1>3. CASE aged = {} /\ open # {}
    <2>1. gap \in [open -> Nat]
      <3> SUFFICES ASSUME NEW j \in open
                   PROVE  Abs((c.pool[j].processed + chunk[j] + 1) * (c.op.prefill_tokens - T)
                                  - (c.op.prefill_kv_work_target - W)) \in Nat
        OBVIOUS
      <3> DEFINE x == c.pool[j].processed + chunk[j] + 1
                 y == c.op.prefill_tokens - T
                 z == c.op.prefill_kv_work_target - W
                 p == x * y
      <3>1. x \in Int /\ y \in Int /\ z \in Int
        BY <1>1 DEF PrefillPoint
      <3> HIDE DEF x, y, z
      <3>2. p \in Int
        BY <3>1
      <3> HIDE DEF p
      <3>3. Abs(p - z) \in Nat
        BY <3>1, <3>2 DEF Abs
      <3> QED BY <3>3 DEF p, x, y, z
    <2>2. PICK a \in open : \A j \in open : gap[a] < gap[j] \/ (gap[a] = gap[j] /\ a <= j)
      <3>1. open \subseteq Nat
        BY <1>1
      <3> HIDE DEF gap, open
      <3> QED BY <1>3, <2>1, <3>1, LeastIndexExists
    <2>3. i = FirstLeast(open, LAMBDA j : gap[j])
      BY <1>3 DEF PrefillPick, Overlooked, Unfilled, FirstLeast
    <2>4. i \in open
      <3> HIDE DEF open, gap, i
      <3> QED BY <2>2, <2>3 DEF FirstLeast
    <2> QED BY <1>3, <2>4
  <1>4. CASE open = {}
    <2>1. aged = {}
      BY <1>1, <1>4
    <2>2. i = 0
      BY <1>4, <2>1 DEF PrefillPick, Overlooked, Unfilled
    <2> QED BY <1>4, <2>1, <2>2
  <1> QED BY <1>1, <1>2, <1>3, <1>4

\* A token goes to one who can take it, and keeps the order of age.
LEMMA PrefillStepKeeps ==
    ASSUME NEW c, PrefillPool(c.pool), PrefillPoint(c.op), NEW k \in Nat, NEW b, PrefillInv(c, b, k)
    PROVE  PrefillInv(c, PrefillStep(c, b, k + 1), k + 1)
  <1> DEFINE n == Len(c.pool)
             chunk == b.chunk
             i == PrefillPick(c.pool, chunk, c.op, b.W, (k + 1) - 1)
             more == [chunk EXCEPT ![i] = @ + 1]
             next == PrefillStep(c, b, k + 1)
             aged == Overlooked(c, chunk)
             left == Overlooked(c, more)
             open == Unfilled(c.pool, chunk)
  <1>1. /\ n \in Nat /\ DOMAIN c.pool = 1..n
        /\ \A j \in 1..n : /\ c.pool[j].prompt \in Nat /\ c.pool[j].processed \in Nat
                           /\ c.pool[j].wait \in Nat /\ chunk[j] \in Nat
        /\ chunk \in [1..n -> Nat] /\ DOMAIN chunk = 1..n
    BY DEF PrefillPool, PrefillInv
  <1>2. b.W \in Nat /\ SumTo(chunk, n) <= k /\ (SumTo(chunk, n) < k => open = {})
        /\ \A j \in 1..n : c.pool[j].processed + chunk[j] <= c.pool[j].prompt
    BY <1>1 DEF PrefillInv
  <1>3. /\ open = {} => i = 0
        /\ open # {} => i \in open
        /\ aged # {} => i \in aged /\ \A j \in aged : c.pool[i].wait >= c.pool[j].wait
    <2>1. (k + 1) - 1 \in Nat /\ chunk \in [DOMAIN c.pool -> Nat]
      BY <1>1
    <2> QED BY <1>2, <2>1, PrefillPickIsOldest
  <1>4. /\ \A j \in aged, h \in Holders(chunk) : c.pool[h].wait >= c.pool[j].wait
        /\ aged # {} => Cardinality(Holders(chunk)) = k
    BY DEF PrefillInv
  <1>5. SumTo(chunk, n) \in Nat
    BY <1>1, SumOfNumbers
  <1>6. aged \subseteq open /\ open \subseteq 1..n
    BY <1>1 DEF Overlooked, Unfilled
  <1>7. CASE open = {}
    <2>1. next = b
      BY <1>3, <1>7 DEF PrefillStep
    <2>2. aged = {}
      BY <1>6, <1>7
    <2>3. SumTo(chunk, n) <= k + 1
      BY <1>2, <1>5
    <2>4. PrefillInv(c, b, k + 1)
      BY <1>7, <2>2, <2>3 DEF PrefillInv
    <2> QED BY <2>1, <2>4
  <1>8. CASE open # {}
    <2>1. i \in open /\ i \in 1..n /\ i # 0
      BY <1>3, <1>6, <1>8
    <2> HIDE DEF i
    <2>2. next = [chunk |-> more, W |-> b.W + c.pool[i].processed + chunk[i] + 1]
      BY <2>1 DEF PrefillStep, i
    <2>3. /\ more \in [1..n -> Nat] /\ more[i] = chunk[i] + 1 /\ DOMAIN more = 1..n
          /\ \A j \in 1..n : j # i => more[j] = chunk[j]
      BY <1>1, <2>1
    <2>4. c.pool[i].processed + more[i] <= c.pool[i].prompt
      <3>1. c.pool[i].processed + chunk[i] < c.pool[i].prompt
        BY <2>1 DEF Unfilled
      <3> HIDE DEF more
      <3> QED BY <1>1, <2>1, <2>3, <3>1
    <2> HIDE DEF more
    <2>5. \A j \in 1..n : c.pool[j].processed + more[j] <= c.pool[j].prompt
      BY <1>2, <2>3, <2>4
    <2>6. SumTo(more, n) = k + 1
      <3>1. SumTo(chunk, n) = k
        BY <1>2, <1>5, <1>8
      <3>2. SumTo(more, n) + chunk[i] = SumTo(chunk, n) + more[i]
        <4>1. \A j \in 1..n : chunk[j] \in Nat /\ more[j] \in Nat
          BY <1>1, <2>3
        <4>2. /\ n \in Nat /\ i \in 1..n
              /\ \A j \in 1..n : j # i => more[j] = chunk[j]
          BY <1>1, <2>1, <2>3
        <4> HIDE DEF n, chunk
        <4> QED BY <4>1, <4>2, SumChanges
      <3>3. SumTo(more, n) \in Nat
        <4>1. \A j \in 1..n : more[j] \in Nat
          BY <2>3
        <4> QED BY <1>1, <4>1, SumOfNumbers
      <3>4. chunk[i] \in Nat
        BY <1>1, <2>1
      <3> QED BY <2>3, <3>1, <3>2, <3>3, <3>4
    <2>7. left \subseteq aged \ {i}
      <3> SUFFICES ASSUME NEW j \in left PROVE j \in aged /\ j # i
        OBVIOUS
      <3>1. /\ j \in 1..n /\ c.pool[j].processed + more[j] < c.pool[j].prompt
            /\ c.pool[j].wait >= c.op.age_cap /\ more[j] = 0
        BY <1>1 DEF Overlooked, Unfilled
      <3>2. j # i
        BY <1>1, <2>1, <2>3, <3>1
      <3>3. more[j] = chunk[j]
        BY <2>3, <3>1, <3>2
      <3> QED BY <1>1, <3>1, <3>2, <3>3 DEF Overlooked, Unfilled
    <2>8. Holders(more) = Holders(chunk) \cup {i}
      <3>1. ASSUME NEW j \in 1..n PROVE j \in Holders(more) <=> j \in Holders(chunk) \/ j = i
        <4>1. CASE j = i
          <5>1. more[i] > 0
            BY <1>1, <2>1, <2>3
          <5> QED BY <2>1, <2>3, <4>1, <5>1 DEF Holders
        <4>2. CASE j # i
          BY <1>1, <2>3, <4>2 DEF Holders
        <4> QED BY <4>1, <4>2
      <3>2. Holders(more) \subseteq 1..n /\ Holders(chunk) \subseteq 1..n
        BY <1>1, <2>3 DEF Holders
      <3> QED BY <2>1, <3>1, <3>2
    <2>9. ASSUME NEW j \in left, NEW h \in Holders(more) PROVE c.pool[h].wait >= c.pool[j].wait
      BY <1>3, <1>4, <2>7, <2>8
    <2>10. left # {} => Cardinality(Holders(more)) = k + 1
      <3> SUFFICES ASSUME left # {} PROVE Cardinality(Holders(more)) = k + 1
        OBVIOUS
      <3>1. aged # {} /\ i \in aged
        BY <1>3, <2>7
      <3>2. i \notin Holders(chunk)
        BY <1>1, <2>1, <3>1 DEF Overlooked, Holders
      <3>3. IsFiniteSet(Holders(chunk))
        <4>1. IsFiniteSet(1..n) /\ Holders(chunk) \subseteq 1..n
          BY <1>1, FS_Interval DEF Holders
        <4> QED BY <4>1, FS_Subset
      <3>4. Cardinality(Holders(chunk) \cup {i}) = Cardinality(Holders(chunk)) + 1
        BY <3>2, <3>3, FS_AddElement
      <3> QED BY <1>4, <2>8, <3>1, <3>4
    <2>11. b.W + c.pool[i].processed + chunk[i] + 1 \in Nat
      <3>1. c.pool[i].processed \in Nat /\ chunk[i] \in Nat /\ b.W \in Nat
        BY <1>1, <1>2, <2>1
      <3> QED BY <3>1
    <2>12. next.chunk = more /\ next.W \in Nat /\ next = [chunk |-> next.chunk, W |-> next.W]
      BY <2>2, <2>11
    <2> HIDE DEF next
    <2>13. PrefillInv(c, next, k + 1)
      <3>1. SumTo(next.chunk, n) <= k + 1 /\ ~(SumTo(next.chunk, n) < k + 1)
        BY <2>6, <2>12
      <3> QED BY <1>1, <2>3, <2>5, <2>9, <2>10, <2>12, <3>1 DEF PrefillInv
    <2> QED BY <2>13 DEF next
  <1> QED BY <1>7, <1>8

\* What a batch hands out.
THEOREM PrefillBatch ==
    ASSUME NEW pool, PrefillPool(pool), NEW o, PrefillPoint(o)
    PROVE  \E W : PrefillInv([pool |-> pool, op |-> o],
                            [chunk |-> steer_prefill_chunks(pool, o), W |-> W], o.prefill_tokens)
  <1> DEFINE c == [pool |-> pool, op |-> o]
             none == [i \in DOMAIN pool |-> 0]
             start == [chunk |-> none, W |-> 0]
             T == o.prefill_tokens
             end == PrefillLoop!Loop(c, T, start)
  <1>1. c.pool = pool /\ c.op = o /\ T \in Nat
    BY DEF PrefillPoint
  <1>2. steer_prefill_chunks(pool, o) = end.chunk
    BY DEF steer_prefill_chunks, PrefillLoop!Loop, PrefillLoop!Iterate, Iterate
  <1>3. PrefillInv(c, start, 0)
    <2> DEFINE n == Len(pool)
    <2>1. n \in Nat /\ DOMAIN pool = 1..n
      BY DEF PrefillPool
    <2>2. none \in [DOMAIN pool -> Nat] /\ start.chunk = none /\ start.W = 0
          /\ start = [chunk |-> start.chunk, W |-> start.W] /\ DOMAIN none = 1..n
      BY <2>1
    <2>3. \A j \in 1..n : none[j] = 0
      BY <2>1
    <2> HIDE DEF none
    <2>4. SumTo(none, n) = 0
      <3> DEFINE S == {m \in Nat : m <= n => SumTo(none, m) = 0}
      <3>1. 0 \in S
        BY SumToStep
      <3>2. ASSUME NEW m \in Nat, m \in S PROVE m + 1 \in S
        <4> SUFFICES ASSUME m + 1 <= n PROVE SumTo(none, m + 1) = 0
          OBVIOUS
        <4>1. SumTo(none, m) = 0 /\ none[m + 1] = 0
          BY <2>1, <2>3, <3>2
        <4>2. SumTo(none, m + 1) = SumTo(none, m) + none[m + 1]
          BY SumToStep
        <4> QED BY <4>1, <4>2
      <3> HIDE DEF S
      <3>3. n \in S
        BY <2>1, <3>1, <3>2, SumLoop!Induct
      <3> QED BY <2>1, <3>3 DEF S
    <2>5. Holders(none) = {}
      BY <2>1, <2>2, <2>3 DEF Holders
    <2>6. \A j \in 1..n : pool[j].processed + none[j] <= pool[j].prompt
      BY <2>1, <2>3 DEF PrefillPool
    <2>7. Cardinality({}) = 0
      BY FS_EmptySet
    <2> HIDE DEF c, start
    <2> QED BY <1>1, <2>1, <2>2, <2>4, <2>5, <2>6, <2>7 DEF PrefillInv
  <1> HIDE DEF c, start, T
  <1>4. ASSUME NEW k \in 0..(T - 1), NEW b, PrefillInv(c, b, k)
        PROVE  PrefillInv(c, PrefillStep(c, b, k + 1), k + 1)
    BY <1>1, <1>4, PrefillStepKeeps
  <1>5. PrefillInv(c, end, T)
    <2> HIDE DEF end
    <2>1. PrefillInv(c, PrefillLoop!Loop(c, T, start), T)
      BY <1>1, <1>3, <1>4, PrefillLoop!LoopInvariant
    <2> QED BY <2>1 DEF end
  <1>6. end = [chunk |-> end.chunk, W |-> end.W]
    BY <1>5 DEF PrefillInv
  <1> HIDE DEF end
  <1> QED BY <1>2, <1>5, <1>6 DEF c, T
-----------------------------------------------------------------------------
(* The byte accounting of the cache.                                       *)

\* The entries of a cache over some nodes.
CacheEntry(nodes) == [tier : {"HBM", "SSD"}, node : nodes, len : Nat, idle : Nat]

\* The counters are numbers and agree with the entries.
Accounted(c, nodes) ==
    /\ c = [idx |-> c.idx, used |-> c.used, budget |-> c.budget]
    /\ c.idx = [id \in DOMAIN c.idx |-> c.idx[id]]
    /\ IsFiniteSet(DOMAIN c.idx)
    /\ \A id \in DOMAIN c.idx : c.idx[id] \in CacheEntry(nodes) \cup {Gone}
    /\ c.used \in [nodes -> Nat] /\ c.budget \in [nodes -> Nat]
    /\ \A n \in nodes : c.used[n] = Bytes(c.idx, Resident(c.idx, n))
-----------------------------------------------------------------------------
(* Sums over finite sets.  The table of the partial sums exists and is unique, by  *)
(* induction on finite sets, whatever the order CHOOSE gives the fold in Bytes;     *)
(* that the order does not matter is SumWithout.                                   *)

Weight(c, x) == c[x].len

Some(S) == CHOOSE x \in S : TRUE

IsTable(t, c, S) ==
  t = [s \in SUBSET S |-> IF s = {} THEN 0 ELSE Weight(c, Some(s)) + t[s \ {Some(s)}]]

Weighted(c, S) == IsFiniteSet(S) /\ \A x \in S : Weight(c, x) \in Nat

\* Induction on the subsets of a finite set, for a set G of sets: what holds of a set whenever it
\* holds of its proper subsets holds of all.
LEMMA SubsetInduct ==
    ASSUME NEW U, IsFiniteSet(U), NEW G,
           \A T \in SUBSET U : (\A S \in SUBSET T : S # T => S \in G) => T \in G
    PROVE  \A T \in SUBSET U : T \in G
  <1> DEFINE B == {T \in SUBSET U : T \notin G}
  <1> SUFFICES ASSUME B # {} PROVE FALSE
    OBVIOUS
  <1>1. IsWellFoundedOn(StrictSubsetOrdering(U), SUBSET U)
    <2>1. FiniteSubsetsOf(U) = SUBSET U
      BY FS_FiniteSubsetsOfFinite
    <2>2. IsWellFoundedOn(StrictSubsetOrdering(U), FiniteSubsetsOf(U))
      BY FS_StrictSubsetOrderingWellFounded
    <2> QED BY <2>1, <2>2
  <1>2. PICK m \in B : \A S \in B : ~(<<S, m>> \in StrictSubsetOrdering(U))
    <2>1. B \subseteq SUBSET U
      OBVIOUS
    <2> DEFINE Ordering == StrictSubsetOrdering(U)
               All == SUBSET U
    <2>2. IsWellFoundedOn(Ordering, All) /\ B \subseteq All /\ B # {}
      BY <1>1, <2>1
    <2> HIDE DEF B, Ordering, All
    <2>3. \E m \in B : \A S \in B : ~(<<S, m>> \in Ordering)
      BY <2>2, WFMin
    <2> QED BY <2>3 DEF Ordering
  <1>3. \A S \in SUBSET m : S # m => S \in G
    BY <1>2 DEF StrictSubsetOrdering
  <1> QED BY <1>2, <1>3

\* Two tables of partial sums agree wherever both are defined.
LEMMA TableUnique ==
    ASSUME NEW c, NEW S, NEW T, NEW t, NEW u, IsFiniteSet(S), IsTable(t, c, S), IsTable(u, c, T)
    PROVE  \A s \in SUBSET S : s \in SUBSET T => t[s] = u[s]
  <1> DEFINE G == {s \in SUBSET S : s \in SUBSET T => t[s] = u[s]}
  <1>1. ASSUME NEW s \in SUBSET S, \A r \in SUBSET s : r # s => r \in G PROVE s \in G
    <2> SUFFICES ASSUME s \in SUBSET T PROVE t[s] = u[s]
      OBVIOUS
    <2>1. CASE s = {}
      BY <2>1 DEF IsTable
    <2>2. CASE s # {}
      <3> DEFINE r == s \ {Some(s)}
      <3>1. Some(s) \in s
        BY <2>2 DEF Some
      <3>2. r \in SUBSET s /\ r # s
        BY <3>1
      <3>3. t[r] = u[r]
        BY <1>1, <3>2
      <3>4. t[s] = Weight(c, Some(s)) + t[r] /\ u[s] = Weight(c, Some(s)) + u[r]
        BY <2>2 DEF IsTable
      <3> QED BY <3>3, <3>4
    <2> QED BY <2>1, <2>2
  <1> HIDE DEF G
  <1>2. \A s \in SUBSET S : s \in G
    BY <1>1, SubsetInduct
  <1> QED BY <1>2 DEF G

\* Every finite set has a table of partial sums.
LEMMA TableExists ==
    ASSUME NEW c, NEW U, IsFiniteSet(U)
    PROVE  \A S \in SUBSET U : \E t : IsTable(t, c, S)
  <1> DEFINE G == {S \in SUBSET U : \E t : IsTable(t, c, S)}
  <1>1. ASSUME NEW S \in SUBSET U, \A R \in SUBSET S : R # S => R \in G PROVE S \in G
    <2> DEFINE table(R) == CHOOSE t : IsTable(t, c, R)
               t == [s \in SUBSET S |->
                       IF s = {} THEN 0
                       ELSE Weight(c, Some(s)) + table(s \ {Some(s)})[s \ {Some(s)}]]
    <2>1. \A R \in SUBSET S : R # S => IsTable(table(R), c, R)
      BY <1>1
    <2> HIDE DEF table
    <2>2. \A s \in SUBSET S : s # {} => Some(s) \in s
      BY DEF Some
    <2>3. ASSUME NEW s \in SUBSET S, s # S PROVE t[s] = table(s)[s]
      <3>1. IsTable(table(s), c, s)
        BY <2>1, <2>3
      <3>2. CASE s = {}
        BY <3>1, <3>2 DEF IsTable
      <3>3. CASE s # {}
        <4> DEFINE r == s \ {Some(s)}
        <4>1. r \in SUBSET s /\ r # s /\ r \in SUBSET S /\ r # S
          BY <2>2, <3>3
        <4>2. IsTable(table(r), c, r)
          BY <2>1, <4>1
        <4>3. IsFiniteSet(r)
          BY <4>1, FS_Subset
        <4>4. table(r)[r] = table(s)[r]
          <5> HIDE DEF r
          <5> QED BY <3>1, <4>1, <4>2, <4>3, TableUnique
        <4>5. table(s)[s] = Weight(c, Some(s)) + table(s)[r]
          BY <3>1, <3>3 DEF IsTable
        <4>6. t[s] = Weight(c, Some(s)) + table(r)[r]
          BY <3>3
        <4> QED BY <4>4, <4>5, <4>6
      <3> QED BY <3>2, <3>3
    <2>4. \A s \in SUBSET S : t[s] = IF s = {} THEN 0 ELSE Weight(c, Some(s)) + t[s \ {Some(s)}]
      <3> SUFFICES ASSUME NEW s \in SUBSET S, s # {}
                   PROVE  t[s] = Weight(c, Some(s)) + t[s \ {Some(s)}]
        OBVIOUS
      <3> DEFINE r == s \ {Some(s)}
      <3>1. r \in SUBSET S /\ r # S
        BY <2>2
      <3>2. t[r] = table(r)[r]
        <4> HIDE DEF r, t
        <4> QED BY <2>3, <3>1
      <3>3. t[s] = Weight(c, Some(s)) + table(r)[r]
        OBVIOUS
      <3> QED BY <3>2, <3>3
    <2>5. t = [s \in SUBSET S |-> t[s]]
      OBVIOUS
    <2> HIDE DEF t
    <2>6. IsTable(t, c, S)
      BY <2>4, <2>5 DEF IsTable
    <2> QED BY <2>6
  <1> HIDE DEF G
  <1>2. \A S \in SUBSET U : S \in G
    BY <1>1, SubsetInduct
  <1> QED BY <1>2 DEF G

\* A sum is the weight of the first member chosen and the sum of the others.
LEMMA SumUnfold ==
    ASSUME NEW c, NEW S, IsFiniteSet(S)
    PROVE  /\ S = {} => Bytes(c, S) = 0
           /\ S # {} => /\ Some(S) \in S
                        /\ Bytes(c, S) = Weight(c, Some(S)) + Bytes(c, S \ {Some(S)})
  <1> DEFINE table(T) == CHOOSE t : IsTable(t, c, T)
  <1>1. \A T \in SUBSET S : IsTable(table(T), c, T)
    BY TableExists
  <1>2. \A T \in SUBSET S : Bytes(c, T) = table(T)[T]
    BY DEF Bytes, Weight, MapThenSumSet, MapThenFoldSet, IsTable, Some
  <1> HIDE DEF table
  <1>3. S = {} => table(S)[S] = 0
    BY <1>1 DEF IsTable
  <1>4. ASSUME S # {} PROVE Some(S) \in S /\ Bytes(c, S) = Weight(c, Some(S)) + Bytes(c, S \ {Some(S)})
    <2> DEFINE r == S \ {Some(S)}
    <2>1. Some(S) \in S
      BY <1>4 DEF Some
    <2>2. r \in SUBSET S /\ IsTable(table(S), c, S)
      BY <1>1
    <2>3. table(S)[S] = Weight(c, Some(S)) + table(S)[r]
      BY <1>4, <2>2 DEF IsTable
    <2>4. table(S)[r] = table(r)[r]
      <3>1. IsTable(table(r), c, r)
        BY <1>1, <2>2
      <3> HIDE DEF r
      <3> QED BY <2>2, <3>1, TableUnique
    <2>5. Bytes(c, r) = table(r)[r] /\ Bytes(c, S) = table(S)[S]
      BY <1>2, <2>2
    <2> QED BY <2>1, <2>3, <2>4, <2>5
  <1> QED BY <1>2, <1>3, <1>4

\* A sum of naturals is one.
LEMMA SumType ==
    ASSUME NEW c, NEW U, Weighted(c, U)
    PROVE  \A S \in SUBSET U : Bytes(c, S) \in Nat
  <1> DEFINE G == {S \in SUBSET U : Bytes(c, S) \in Nat}
  <1>1. ASSUME NEW S \in SUBSET U, \A R \in SUBSET S : R # S => R \in G PROVE S \in G
    <2>1. IsFiniteSet(S)
      BY FS_Subset DEF Weighted
    <2>2. CASE S = {}
      BY <2>1, <2>2, SumUnfold
    <2>3. CASE S # {}
      <3>1. Some(S) \in S /\ Bytes(c, S) = Weight(c, Some(S)) + Bytes(c, S \ {Some(S)})
        BY <2>1, <2>3, SumUnfold
      <3>2. Weight(c, Some(S)) \in Nat /\ Bytes(c, S \ {Some(S)}) \in Nat
        BY <1>1, <3>1 DEF Weighted
      <3> QED BY <3>1, <3>2
    <2> QED BY <2>2, <2>3
  <1> HIDE DEF G
  <1>2. IsFiniteSet(U)
    BY DEF Weighted
  <1>3. \A S \in SUBSET U : S \in G
    BY <1>1, <1>2, SubsetInduct
  <1> QED BY <1>3 DEF G

\* Whichever member is taken first, the sum is its weight and the sum of the others.
LEMMA SumWithout ==
    ASSUME NEW c, NEW U, Weighted(c, U)
    PROVE  \A S \in SUBSET U : \A x \in S : Bytes(c, S) = Weight(c, x) + Bytes(c, S \ {x})
  <1> DEFINE G == {S \in SUBSET U : \A x \in S : Bytes(c, S) = Weight(c, x) + Bytes(c, S \ {x})}
  <1>1. ASSUME NEW S \in SUBSET U, \A R \in SUBSET S : R # S => R \in G PROVE S \in G
    <2> SUFFICES ASSUME NEW x \in S PROVE Bytes(c, S) = Weight(c, x) + Bytes(c, S \ {x})
      OBVIOUS
    <2> DEFINE y == Some(S)
               a == Bytes(c, S)
               ax == Bytes(c, S \ {x})
               ay == Bytes(c, S \ {y})
               axy == Bytes(c, (S \ {x}) \ {y})
               ayx == Bytes(c, (S \ {y}) \ {x})
    <2>1. IsFiniteSet(S)
      BY FS_Subset DEF Weighted
    <2>2. y \in S /\ a = Weight(c, y) + ay
      BY <2>1, SumUnfold
    <2>3. CASE x = y
      BY <2>2, <2>3
    <2>4. CASE x # y
      <3>1. S \ {x} \in G /\ S \ {y} \in G /\ y \in S \ {x} /\ x \in S \ {y}
        BY <1>1, <2>2, <2>4
      <3>2. ax = Weight(c, y) + axy /\ ay = Weight(c, x) + ayx
        BY <3>1
      <3>3. (S \ {x}) \ {y} = (S \ {y}) \ {x}
        OBVIOUS
      <3>4. axy = ayx
        BY <3>3
      <3>5. axy \in Nat /\ Weight(c, x) \in Nat /\ Weight(c, y) \in Nat
        BY <2>2, SumType DEF Weighted
      <3> HIDE DEF a, ax, ay, axy, ayx, y, G
      <3>6. a = Weight(c, x) + ax
        BY <2>2, <3>2, <3>4, <3>5
      <3> QED BY <3>6 DEF a, ax
    <2> QED BY <2>3, <2>4
  <1> HIDE DEF G
  <1>2. IsFiniteSet(U)
    BY DEF Weighted
  <1>3. \A S \in SUBSET U : S \in G
    BY <1>1, <1>2, SubsetInduct
  <1> QED BY <1>3 DEF G

\* One member more adds its weight.
THEOREM SumAdd ==
    ASSUME NEW c, NEW S, NEW x, x \notin S, Weighted(c, S \cup {x})
    PROVE  Bytes(c, S \cup {x}) = Bytes(c, S) + Weight(c, x)
  <1> DEFINE T == S \cup {x}
  <1>1. T \ {x} = S /\ x \in T /\ S \in SUBSET T
    OBVIOUS
  <1>2. Bytes(c, S) \in Nat /\ Weight(c, x) \in Nat
    BY <1>1, SumType DEF Weighted
  <1> HIDE DEF T
  <1>3. Bytes(c, T) = Weight(c, x) + Bytes(c, T \ {x})
    BY <1>1, SumWithout DEF T
  <1>4. Bytes(c, T) = Weight(c, x) + Bytes(c, S)
    BY <1>1, <1>3
  <1>5. Bytes(c, T) = Bytes(c, S) + Weight(c, x)
    BY <1>2, <1>4
  <1> QED BY <1>5 DEF T

\* A set and the rest of it share out the sum.
LEMMA SumSplit ==
    ASSUME NEW c, NEW U, Weighted(c, U)
    PROVE  \A S \in SUBSET U : Bytes(c, U) = Bytes(c, S) + Bytes(c, U \ S)
  <1> DEFINE G == {S \in SUBSET U : Bytes(c, U) = Bytes(c, S) + Bytes(c, U \ S)}
  <1>1. ASSUME NEW S \in SUBSET U, \A R \in SUBSET S : R # S => R \in G PROVE S \in G
    <2>1. CASE S = {}
      <3>1. Bytes(c, {}) = 0 /\ U \ {} = U /\ Bytes(c, U) \in Nat
        BY SumUnfold, SumType, FS_EmptySet
      <3> QED BY <2>1, <3>1
    <2>2. CASE S # {}
      <3> DEFINE x == Some(S)
                 R == S \ {x}
                 u == Bytes(c, U)
                 s == Bytes(c, S)
                 r == Bytes(c, R)
                 us == Bytes(c, U \ S)
                 ur == Bytes(c, U \ R)
      <3>1. x \in S
        BY <2>2 DEF Some
      <3>2. u = r + ur
        <4>1. R \in SUBSET S /\ R # S
          BY <3>1
        <4>2. R \in G
          BY <1>1, <4>1
        <4> QED BY <4>2
      <3>3. s = Weight(c, x) + r
        BY <3>1, SumWithout
      <3>4. ur = Weight(c, x) + us
        <4>1. x \in U \ R /\ (U \ R) \ {x} = U \ S /\ U \ R \in SUBSET U
          BY <3>1
        <4> HIDE DEF R, x
        <4>2. Bytes(c, U \ R) = Weight(c, x) + Bytes(c, (U \ R) \ {x})
          BY <4>1, SumWithout
        <4> QED BY <4>1, <4>2
      <3>5. r \in Nat /\ us \in Nat /\ Weight(c, x) \in Nat
        <4>1. R \in SUBSET U /\ U \ S \in SUBSET U /\ x \in U
          BY <3>1
        <4> HIDE DEF R, x
        <4> QED BY <4>1, SumType DEF Weighted
      <3> HIDE DEF u, s, r, us, ur, x, R, G
      <3>6. u = s + us
        BY <3>2, <3>3, <3>4, <3>5
      <3> QED BY <3>6 DEF u, s, us, G
    <2> QED BY <2>1, <2>2
  <1> HIDE DEF G
  <1>2. IsFiniteSet(U)
    BY DEF Weighted
  <1>3. \A S \in SUBSET U : S \in G
    BY <1>1, <1>2, SubsetInduct
  <1> QED BY <1>3 DEF G

\* A sum depends on the weights of its members and on nothing else.
THEOREM SumAgrees ==
    ASSUME NEW c, NEW d, NEW U, IsFiniteSet(U), \A x \in U : Weight(c, x) = Weight(d, x)
    PROVE  Bytes(c, U) = Bytes(d, U)
  <1> DEFINE G == {S \in SUBSET U : Bytes(c, S) = Bytes(d, S)}
  <1>1. ASSUME NEW S \in SUBSET U, \A R \in SUBSET S : R # S => R \in G PROVE S \in G
    <2>1. IsFiniteSet(S)
      BY FS_Subset
    <2>2. CASE S = {}
      BY <2>1, <2>2, SumUnfold
    <2>3. CASE S # {}
      <3> DEFINE x == Some(S)
                 R == S \ {x}
      <3>1. x \in S /\ Bytes(c, S) = Weight(c, x) + Bytes(c, R) /\ Bytes(d, S) = Weight(d, x) + Bytes(d, R)
        BY <2>1, <2>3, SumUnfold
      <3>2. Bytes(c, R) = Bytes(d, R)
        BY <1>1, <3>1
      <3>3. Weight(c, x) = Weight(d, x)
        BY <3>1
      <3> HIDE DEF R, x
      <3> QED BY <3>1, <3>2, <3>3
    <2> QED BY <2>2, <2>3
  <1> HIDE DEF G
  <1>2. \A S \in SUBSET U : S \in G
    BY <1>1, SubsetInduct
  <1> QED BY <1>2 DEF G
-----------------------------------------------------------------------------
(* The bytes of the cache. *)

\* The residents of a node are entries of the HBM.
LEMMA ResidentEntries ==
    ASSUME NEW c, NEW nodes, Accounted(c, nodes), NEW n
    PROVE  /\ IsFiniteSet(Resident(c.idx, n))
           /\ \A id \in Resident(c.idx, n) :
                  /\ id \in DOMAIN c.idx /\ c.idx[id] \in CacheEntry(nodes)
                  /\ c.idx[id].tier = "HBM" /\ c.idx[id].node = n
                  /\ c.idx[id].len \in Nat /\ c.idx[id].idle \in Nat
  <1> DEFINE R == Resident(c.idx, n)
  <1>1. R \in SUBSET (DOMAIN c.idx) /\ IsFiniteSet(DOMAIN c.idx)
    BY DEF Resident, Accounted
  <1>2. IsFiniteSet(R)
    <2> HIDE DEF R
    <2> QED BY <1>1, FS_Subset
  <1>3. \A id \in R : /\ id \in DOMAIN c.idx /\ c.idx[id].tier = "HBM" /\ c.idx[id].node = n
                      /\ c.idx[id] \in CacheEntry(nodes) \cup {Gone}
    BY DEF Resident, Accounted
  <1>4. Gone.tier # "HBM"
    BY DEF Gone
  <1>5. \A id \in R : c.idx[id] \in CacheEntry(nodes)
    BY <1>3, <1>4
  <1>6. \A e \in CacheEntry(nodes) : e.len \in Nat /\ e.idle \in Nat
    BY DEF CacheEntry
  <1> QED BY <1>2, <1>3, <1>5, <1>6

\* The bytes of a part of a node's residents are a number, no more than those of a larger part.
LEMMA BytesOfPart ==
    ASSUME NEW c, NEW nodes, Accounted(c, nodes), NEW n
    PROVE  \A S \in SUBSET Resident(c.idx, n) :
               /\ IsFiniteSet(S) /\ Bytes(c.idx, S) \in Nat
               /\ \A T \in SUBSET S : Bytes(c.idx, T) <= Bytes(c.idx, S)
  <1> DEFINE R == Resident(c.idx, n)
             i == c.idx
  <1>1. IsFiniteSet(R) /\ \A id \in R : i[id].len \in Nat
    BY ResidentEntries
  <1> HIDE DEF R, i
  <1>3. Weighted(i, R)
    BY <1>1 DEF Weighted, Weight
  <1>4. \A X \in SUBSET R : Bytes(i, X) \in Nat
    BY <1>3, SumType
  <1>5. ASSUME NEW S \in SUBSET R
        PROVE  /\ IsFiniteSet(S) /\ Bytes(i, S) \in Nat
               /\ \A T \in SUBSET S : Bytes(i, T) <= Bytes(i, S)
    <2>1. IsFiniteSet(S)
      BY <1>1, FS_Subset
    <2>2. Weighted(i, S)
      BY <2>1, <1>3 DEF Weighted
    <2>3. ASSUME NEW T \in SUBSET S PROVE Bytes(i, T) <= Bytes(i, S)
      <3> DEFINE t == Bytes(i, T)
                 s == Bytes(i, S)
                 d == Bytes(i, S \ T)
      <3>1. s = t + d
        BY <2>2, SumSplit
      <3>2. T \in SUBSET R /\ S \ T \in SUBSET R
        OBVIOUS
      <3>3. t \in Nat /\ d \in Nat
        BY <1>4, <3>2
      <3> HIDE DEF t, s, d
      <3>4. t <= s
        BY <3>1, <3>3
      <3> QED BY <3>4 DEF t, s
    <2>4. Bytes(i, S) \in Nat
      BY <1>4
    <2> QED BY <2>1, <2>3, <2>4
  <1> QED BY <1>5 DEF R, i

\* One resident less is its length less.
LEMMA BytesWithout ==
    ASSUME NEW c, NEW nodes, Accounted(c, nodes), NEW n
    PROVE  \A S \in SUBSET Resident(c.idx, n) : \A x \in S :
               Bytes(c.idx, S) = c.idx[x].len + Bytes(c.idx, S \ {x})
  <1> DEFINE R == Resident(c.idx, n)
             i == c.idx
  <1>1. IsFiniteSet(R) /\ \A id \in R : i[id].len \in Nat
    BY ResidentEntries
  <1> HIDE DEF R, i
  <1>3. Weighted(i, R)
    BY <1>1 DEF Weighted, Weight
  <1>4. \A S \in SUBSET R : \A x \in S : Bytes(i, S) = i[x].len + Bytes(i, S \ {x})
    BY <1>3, SumWithout DEF Weight
  <1> QED BY <1>4 DEF R, i

\* A part of a node's residents and the rest of them share out their bytes.
LEMMA BytesShared ==
    ASSUME NEW c, NEW nodes, Accounted(c, nodes), NEW n
    PROVE  \A S \in SUBSET Resident(c.idx, n) :
               Bytes(c.idx, Resident(c.idx, n)) = Bytes(c.idx, S) + Bytes(c.idx, Resident(c.idx, n) \ S)
  <1> DEFINE R == Resident(c.idx, n)
             i == c.idx
  <1>1. IsFiniteSet(R) /\ \A id \in R : i[id].len \in Nat
    BY ResidentEntries
  <1> HIDE DEF R, i
  <1>5. Weighted(i, R)
    BY <1>1 DEF Weighted, Weight
  <1>8. \A S \in SUBSET R : Bytes(i, R) = Bytes(i, S) + Bytes(i, R \ S)
    BY <1>5, SumSplit
  <1> QED BY <1>8 DEF R, i

\* Bytes depend on the lengths of the entries and on nothing else.
LEMMA BytesAgree ==
    ASSUME NEW a, NEW b, NEW S, IsFiniteSet(S), \A id \in S : a[id].len = b[id].len
    PROVE  Bytes(a, S) = Bytes(b, S)
  BY SumAgrees DEF Weight

-----------------------------------------------------------------------------
(* Entries leave HBM: enforce_budget and evict_tick.                       *)

\* From c to the index x the entries of X leave HBM, and the others keep tier, node and length.
Leave(c, nodes, x, X) ==
    /\ DOMAIN x = DOMAIN c.idx
    /\ \A id \in DOMAIN c.idx : x[id] \in CacheEntry(nodes) \cup {Gone}
    /\ \A id \in DOMAIN c.idx : id \in X => x[id].tier # "HBM"
    /\ \A id \in DOMAIN c.idx : id \notin X =>
           /\ x[id].tier = "HBM" <=> c.idx[id].tier = "HBM"
           /\ c.idx[id].tier = "HBM" => x[id].node = c.idx[id].node /\ x[id].len = c.idx[id].len

\* A counter of n that gives back the bytes of its residents in X is right again.
Settled(c, x, X, n) ==
    /\ Resident(x, n) = Resident(c.idx, n) \ X
    /\ Bytes(x, Resident(x, n)) = c.used[n] - Bytes(c.idx, Resident(c.idx, n) \cap X)
    /\ Bytes(x, Resident(x, n)) \in Nat
    /\ Bytes(x, Resident(x, n)) <= c.used[n]

\* Giving back the bytes of what leaves settles every counter.
LEMMA LeavingAccounts ==
    ASSUME NEW c, NEW nodes, Accounted(c, nodes), NEW x, NEW X, Leave(c, nodes, x, X)
    PROVE  \A n \in nodes : Settled(c, x, X, n)
  <1> SUFFICES ASSUME NEW n \in nodes PROVE Settled(c, x, X, n)
    OBVIOUS
  <1> DEFINE R == Resident(c.idx, n)
             S == R \cap X
             Q == R \ S
             all == Bytes(c.idx, R)
             out == Bytes(c.idx, S)
             left == Bytes(c.idx, Q)
  <1>1. Resident(x, n) = R \ X /\ R \ X = Q
    BY DEF Resident, Leave
  <1>2. IsFiniteSet(Q) /\ \A id \in Q : x[id].len = c.idx[id].len
    <2>1. IsFiniteSet(R) /\ Q \in SUBSET R
      BY ResidentEntries
    <2>2. IsFiniteSet(Q)
      <3> HIDE DEF R, Q
      <3> QED BY <2>1, FS_Subset
    <2>3. \A id \in Q : id \notin X /\ id \in DOMAIN c.idx /\ c.idx[id].tier = "HBM"
      BY DEF Resident
    <2> QED BY <2>2, <2>3 DEF Leave
  <1>3. Bytes(x, Q) = left
    <2> HIDE DEF R, Q
    <2> QED BY <1>2, BytesAgree
  <1>4. out \in Nat /\ left \in Nat /\ all = out + left
    <2>1. S \in SUBSET R
      OBVIOUS
    <2> HIDE DEF S
    <2>2. out \in Nat
      BY <2>1, BytesOfPart
    <2>3. left \in Nat
      BY <2>1, BytesOfPart
    <2>4. all = out + left
      <3> HIDE DEF left, out, all, R, Q
      <3>1. Bytes(c.idx, R) = Bytes(c.idx, S) + Bytes(c.idx, R \ S)
        BY <2>1, BytesShared DEF R
      <3> QED BY <3>1 DEF left, out, all, Q
    <2> QED BY <2>2, <2>3, <2>4
  <1>5. c.used[n] = all
    BY DEF Accounted
  <1> HIDE DEF R, S, Q, all, out, left
  <1>6. left = c.used[n] - out /\ left <= c.used[n]
    BY <1>4, <1>5
  <1> QED BY <1>1, <1>3, <1>4, <1>6 DEF R, S, out, Settled

\* A lookup changes no byte.
LEMMA TouchedAccounts ==
    ASSUME NEW c, NEW nodes, Accounted(c, nodes), NEW id
    PROVE  /\ Accounted(Touched(c, id), nodes)
           /\ Touched(c, id).used = c.used /\ Touched(c, id).budget = c.budget
           /\ DOMAIN Touched(c, id).idx = DOMAIN c.idx
  <1>1. CASE Find(c, id) = Gone
    BY <1>1 DEF Touched
  <1>2. CASE Find(c, id) # Gone
    <2> DEFINE young == [c.idx[id] EXCEPT !.idle = 0]
               x == [c.idx EXCEPT ![id] = young]
               t == [idx |-> x, used |-> c.used, budget |-> c.budget]
    <2>1. id \in DOMAIN c.idx /\ c.idx[id] \in CacheEntry(nodes)
      BY <1>2 DEF Find, Accounted
    <2>2. /\ young \in CacheEntry(nodes) /\ young.tier = c.idx[id].tier
          /\ young.node = c.idx[id].node /\ young.len = c.idx[id].len
      BY <2>1 DEF CacheEntry
    <2>3. Touched(c, id) = t
      <3>1. c = [idx |-> c.idx, used |-> c.used, budget |-> c.budget]
        BY DEF Accounted
      <3>2. Touched(c, id) = [c EXCEPT !.idx = [c.idx EXCEPT ![id] = [c.idx[id] EXCEPT !.idle = 0]]]
        BY <1>2 DEF Touched
      <3>3. [c EXCEPT !.idx = x] = t
        <4> HIDE DEF x
        <4> QED BY <3>1
      <3> QED BY <3>2, <3>3
    <2> HIDE DEF young
    <2>4. /\ DOMAIN x = DOMAIN c.idx /\ x[id] = young
          /\ \A i \in DOMAIN c.idx : i # id => x[i] = c.idx[i]
          /\ x = [i \in DOMAIN x |-> x[i]]
      BY <2>1 DEF Accounted
    <2> HIDE DEF x
    <2>5. \A i \in DOMAIN c.idx :
              /\ x[i] \in CacheEntry(nodes) \cup {Gone} /\ x[i].tier = c.idx[i].tier
              /\ x[i].tier = "HBM" => x[i].node = c.idx[i].node /\ x[i].len = c.idx[i].len
      BY <2>1, <2>2, <2>4 DEF Accounted
    <2>6. ASSUME NEW n \in nodes PROVE c.used[n] = Bytes(x, Resident(x, n))
      <3>1. Resident(x, n) = Resident(c.idx, n)
        BY <2>4, <2>5 DEF Resident
      <3>2. \A i \in Resident(c.idx, n) : x[i].len = c.idx[i].len
        BY <2>4, <2>5 DEF Resident
      <3>3. IsFiniteSet(Resident(c.idx, n))
        BY ResidentEntries
      <3>4. Bytes(x, Resident(c.idx, n)) = Bytes(c.idx, Resident(c.idx, n))
        BY <3>2, <3>3, BytesAgree
      <3> QED BY <3>1, <3>4 DEF Accounted
    <2>7. t.idx = x /\ t.used = c.used /\ t.budget = c.budget
      OBVIOUS
    <2>8. t = [idx |-> t.idx, used |-> t.used, budget |-> t.budget]
      OBVIOUS
    <2> HIDE DEF t
    <2>9. Accounted(t, nodes)
      BY <2>4, <2>5, <2>6, <2>7, <2>8 DEF Accounted
    <2> QED BY <2>3, <2>4, <2>7, <2>9
  <1> QED BY <1>1, <1>2

-----------------------------------------------------------------------------
(* A turn is recorded: on_complete.                                        *)

\* Once the HBM entry of the earlier turn is given back, every counter is the bytes of the others.
LEMMA ReclaimedBytes ==
    ASSUME NEW c, NEW nodes, Accounted(c, nodes), NEW node \in nodes, NEW id
    PROVE  /\ Reclaimed(c, node, id) \in [nodes -> Nat]
           /\ \A n \in nodes :
                  /\ Reclaimed(c, node, id)[n] = Bytes(c.idx, Resident(c.idx, n) \ {id})
                  /\ Reclaimed(c, node, id)[n] <= c.used[n]
  <1> DEFINE u == Reclaimed(c, node, id)
             old == c.idx[id].node
             len == c.idx[id].len
  <1>1. c.used \in [nodes -> Nat] /\ \A n \in nodes : c.used[n] = Bytes(c.idx, Resident(c.idx, n))
    BY DEF Accounted
  <1>2. CASE Find(c, id).tier = "HBM"
    <2>1. id \in DOMAIN c.idx /\ c.idx[id].tier = "HBM"
      BY <1>2 DEF Find, Gone
    <2>2. id \in Resident(c.idx, old) /\ old \in nodes /\ len \in Nat
      <3>1. id \in Resident(c.idx, old)
        BY <2>1 DEF Resident
      <3>2. c.idx[id] \in CacheEntry(nodes)
        BY <3>1, ResidentEntries
      <3> QED BY <3>1, <3>2 DEF CacheEntry
    <2>3. u = [c.used EXCEPT ![old] = @ - len]
      BY <1>2 DEF Reclaimed
    <2> HIDE DEF u, old, len
    <2>4. ASSUME NEW n \in nodes
          PROVE  u[n] \in Nat /\ u[n] = Bytes(c.idx, Resident(c.idx, n) \ {id}) /\ u[n] <= c.used[n]
      <3> DEFINE all == Bytes(c.idx, Resident(c.idx, n))
                 rest == Bytes(c.idx, Resident(c.idx, n) \ {id})
      <3>1. CASE n = old
        <4>1. rest \in Nat
          <5>1. Resident(c.idx, n) \ {id} \in SUBSET Resident(c.idx, n)
            OBVIOUS
          <5> QED BY <5>1, BytesOfPart
        <4>2. all = len + rest
          <5> DEFINE R == Resident(c.idx, n)
          <5>1. id \in R /\ R \in SUBSET R
            BY <2>2, <3>1
          <5>2. \A S \in SUBSET R : \A x \in S : Bytes(c.idx, S) = c.idx[x].len + Bytes(c.idx, S \ {x})
            BY BytesWithout
          <5> HIDE DEF R
          <5>3. Bytes(c.idx, R) = c.idx[id].len + Bytes(c.idx, R \ {id})
            BY <5>1, <5>2
          <5> QED BY <5>3 DEF R, len
        <4>3. u[n] = c.used[n] - len /\ c.used[n] = all
          BY <1>1, <2>3, <3>1
        <4> HIDE DEF all, rest
        <4>4. u[n] = rest /\ rest <= c.used[n]
          BY <2>2, <4>1, <4>2, <4>3
        <4> QED BY <4>1, <4>4 DEF rest
      <3>2. CASE n # old
        <4>1. id \notin Resident(c.idx, n)
          BY <3>2 DEF Resident, old
        <4>2. Resident(c.idx, n) \ {id} = Resident(c.idx, n)
          BY <4>1
        <4>3. u[n] = c.used[n]
          BY <1>1, <2>3, <3>2
        <4> QED BY <1>1, <4>2, <4>3
      <3> QED BY <3>1, <3>2
    <2>5. u = [n \in nodes |-> u[n]]
      BY <1>1, <2>3
    <2> QED BY <2>4, <2>5 DEF u
  <1>3. CASE Find(c, id).tier # "HBM"
    <2>1. u = c.used
      BY <1>3 DEF Reclaimed
    <2>2. \A n : id \notin Resident(c.idx, n)
      BY <1>3 DEF Find, Resident
    <2>3. \A n : Resident(c.idx, n) \ {id} = Resident(c.idx, n)
      BY <2>2
    <2> QED BY <1>1, <2>1, <2>3
  <1> QED BY <1>2, <1>3

\* A completion keeps the accounts, admits nothing beyond the budget of its node and takes no
\* byte on another.
LEMMA RecordedAccounts ==
    ASSUME NEW c, NEW nodes, Accounted(c, nodes), NEW node \in nodes, NEW id, NEW len \in Nat,
           NEW threshold
    PROVE  LET d == Recorded(c, node, id, len, threshold)
           IN  /\ Accounted(d, nodes) /\ d.budget = c.budget /\ DOMAIN d.idx = DOMAIN c.idx \cup {id}
               /\ \A n \in nodes : d.used[n] <= c.used[n] \/ (n = node /\ d.used[n] <= c.budget[n])
  <1> DEFINE u == Reclaimed(c, node, id)
             admitted == Admits(c, u, node, len, threshold)
             entry == [tier |-> IF admitted THEN "HBM" ELSE "SSD",
                       node |-> node, len |-> len, idle |-> 0]
             x == [i \in DOMAIN c.idx \cup {id} |-> IF i = id THEN entry ELSE c.idx[i]]
             v == IF admitted THEN [u EXCEPT ![node] = @ + len] ELSE u
             d == [idx |-> x, used |-> v, budget |-> c.budget]
  <1>1. Recorded(c, node, id, len, threshold) = d
    BY DEF Recorded
  <1>2. /\ u \in [nodes -> Nat]
        /\ \A n \in nodes : u[n] = Bytes(c.idx, Resident(c.idx, n) \ {id}) /\ u[n] <= c.used[n]
    BY ReclaimedBytes
  <1>3. entry \in CacheEntry(nodes) /\ (entry.tier = "HBM" <=> admitted) /\ entry.node = node /\ entry.len = len
    BY DEF CacheEntry
  <1>4. admitted => u[node] + len <= c.budget[node]
    BY DEF Admits
  <1>5. d.idx = x /\ d.used = v /\ d.budget = c.budget
        /\ d = [idx |-> d.idx, used |-> d.used, budget |-> d.budget]
    OBVIOUS
  <1>6. /\ v \in [nodes -> Nat]
        /\ \A n \in nodes : v[n] = IF admitted /\ n = node THEN u[n] + len ELSE u[n]
    <2> HIDE DEF u, admitted
    <2> QED BY <1>2
  <1>7. /\ DOMAIN x = DOMAIN c.idx \cup {id} /\ x[id] = entry
        /\ \A i \in DOMAIN c.idx : i # id => x[i] = c.idx[i]
        /\ x = [i \in DOMAIN x |-> x[i]]
    OBVIOUS
  <1> HIDE DEF u, admitted, entry, x, v, d
  <1>8. IsFiniteSet(DOMAIN x)
    <2>1. IsFiniteSet(DOMAIN c.idx)
      BY DEF Accounted
    <2> QED BY <1>7, <2>1, FS_AddElement
  <1>9. \A i \in DOMAIN x : x[i] \in CacheEntry(nodes) \cup {Gone}
    BY <1>3, <1>7 DEF Accounted
  <1>10. ASSUME NEW n \in nodes PROVE v[n] = Bytes(x, Resident(x, n))
    <2> DEFINE S == Resident(c.idx, n) \ {id}
    <2>1. S \in SUBSET Resident(c.idx, n)
      OBVIOUS
    <2>2. IsFiniteSet(S) /\ \A i \in S : x[i].len = c.idx[i].len
      <3>1. IsFiniteSet(S)
        <4> HIDE DEF S
        <4> QED BY <2>1, BytesOfPart
      <3> QED BY <3>1, <1>7 DEF Resident
    <2>3. Bytes(x, S) = u[n]
      <3>1. Bytes(c.idx, S) = u[n]
        BY <1>2
      <3> HIDE DEF S
      <3> QED BY <2>2, <3>1, BytesAgree
    <2>4. CASE admitted /\ n = node
      <3>1. Resident(x, n) = S \cup {id}
        BY <1>3, <1>7, <2>4 DEF Resident
      <3>2. id \notin S
        OBVIOUS
      <3>3. x[id].len = len /\ u[n] \in Nat /\ v[n] = u[n] + len
        BY <1>2, <1>3, <1>6, <1>7, <2>4
      <3>4. Weighted(x, S \cup {id})
        <4>1. \A i \in S : c.idx[i].len \in Nat
          BY ResidentEntries
        <4>2. IsFiniteSet(S \cup {id})
          <5> HIDE DEF S
          <5> QED BY <2>2, FS_AddElement
        <4>3. \A i \in S \cup {id} : x[i].len \in Nat
          BY <2>2, <3>3, <4>1
        <4> HIDE DEF S
        <4> QED BY <4>2, <4>3 DEF Weighted, Weight
      <3> HIDE DEF S
      <3>5. Bytes(x, S \cup {id}) = Bytes(x, S) + x[id].len
        BY <3>2, <3>4, SumAdd DEF Weight
      <3>7. Bytes(x, S \cup {id}) = u[n] + len
        BY <2>3, <3>3, <3>5
      <3> QED BY <3>1, <3>3, <3>7
    <2>5. CASE ~(admitted /\ n = node)
      <3>1. Resident(x, n) = S
        BY <1>3, <1>7, <2>5 DEF Resident
      <3> QED BY <1>6, <2>3, <2>5, <3>1
    <2> QED BY <2>4, <2>5
  <1>11. Accounted(d, nodes)
    <2>1. c.budget \in [nodes -> Nat]
      BY DEF Accounted
    <2> QED BY <1>5, <1>6, <1>7, <1>8, <1>9, <1>10, <2>1 DEF Accounted
  <1>12. ASSUME NEW n \in nodes PROVE v[n] <= c.used[n] \/ (n = node /\ v[n] <= c.budget[n])
    <2>1. CASE admitted /\ n = node
      BY <1>4, <1>6, <2>1
    <2>2. CASE ~(admitted /\ n = node)
      <3>1. v[n] = u[n]
        BY <1>6, <2>2
      <3>2. u[n] <= c.used[n]
        BY <1>2
      <3>3. v[n] <= c.used[n]
        BY <3>1, <3>2
      <3> QED BY <3>3
    <2> QED BY <2>1, <2>2
  <1> QED BY <1>1, <1>5, <1>7, <1>11, <1>12

-----------------------------------------------------------------------------
(* A budget cut: which entries leave, and that the budget is met.          *)

\* A relation that is total and transitive on a finite set has a first element there.
LEMMA FirstExists ==
    ASSUME NEW U, IsFiniteSet(U), NEW Before,
           \A a, b \in U : a # b => <<a, b>> \in Before \/ <<b, a>> \in Before,
           \A a, b, d \in U : <<a, b>> \in Before /\ <<b, d>> \in Before => <<a, d>> \in Before
    PROVE  \A S \in SUBSET U : S # {} =>
               \E a \in S : \A b \in S : a = b \/ <<a, b>> \in Before
  <1> DEFINE First(S) == \E a \in S : \A b \in S : a = b \/ <<a, b>> \in Before
             G == {S \in SUBSET U : S # {} => First(S)}
  <1>1. ASSUME NEW S \in SUBSET U, \A R \in SUBSET S : R # S => R \in G PROVE S \in G
    <2> SUFFICES ASSUME S # {} PROVE First(S)
      OBVIOUS
    <2>1. PICK x : x \in S
      OBVIOUS
    <2>2. CASE S = {x}
      BY <2>2
    <2>3. CASE S # {x}
      <3> DEFINE R == S \ {x}
      <3>1. R \in SUBSET S /\ R # S /\ R # {}
        BY <2>1, <2>3
      <3>2. First(R)
        <4> HIDE DEF First, R
        <4> QED BY <1>1, <3>1
      <3>3. PICK a \in R : \A b \in R : a = b \/ <<a, b>> \in Before
        BY <3>2
      <3>4. a \in U /\ x \in U /\ a # x
        BY <2>1
      <3>5. CASE <<a, x>> \in Before
        <4>1. \A b \in S : a = b \/ <<a, b>> \in Before
          BY <3>3, <3>5
        <4> QED BY <4>1
      <3>6. CASE <<x, a>> \in Before
        <4>1. \A b \in S : x = b \/ <<x, b>> \in Before
          BY <3>3, <3>4, <3>6
        <4> QED BY <2>1, <4>1
      <3> QED BY <3>4, <3>5, <3>6
    <2> QED BY <2>2, <2>3
  <1> HIDE DEF G
  <1>2. \A S \in SUBSET U : S \in G
    BY <1>1, SubsetInduct
  <1> QED BY <1>2 DEF G

\* An iteration order of the hash map gives no two entries the same place.
Ranked(rank, S) ==
    /\ \A a \in S : rank[a] \in Int
    /\ \A a, b \in S : rank[a] = rank[b] => a = b

\* Of the residents of a node, the order in which a cut demotes them is total and strict.
LEMMA CutOrder ==
    ASSUME NEW c, NEW nodes, Accounted(c, nodes), NEW n, NEW rank, Ranked(rank, Resident(c.idx, n))
    PROVE  \A a, b, d \in Resident(c.idx, n) :
               /\ a # b => OldestFirst(c.idx, a, b, rank) \/ OldestFirst(c.idx, b, a, rank)
               /\ OldestFirst(c.idx, a, b, rank) /\ OldestFirst(c.idx, b, a, rank) => a = b
               /\ OldestFirst(c.idx, a, b, rank) /\ OldestFirst(c.idx, b, d, rank) =>
                      OldestFirst(c.idx, a, d, rank)
               /\ OldestFirst(c.idx, a, b, rank) => c.idx[a].idle >= c.idx[b].idle
  <1> SUFFICES ASSUME NEW a \in Resident(c.idx, n), NEW b \in Resident(c.idx, n), NEW d \in Resident(c.idx, n)
               PROVE  /\ a # b => OldestFirst(c.idx, a, b, rank) \/ OldestFirst(c.idx, b, a, rank)
                      /\ OldestFirst(c.idx, a, b, rank) /\ OldestFirst(c.idx, b, a, rank) => a = b
                      /\ OldestFirst(c.idx, a, b, rank) /\ OldestFirst(c.idx, b, d, rank) =>
                             OldestFirst(c.idx, a, d, rank)
                      /\ OldestFirst(c.idx, a, b, rank) => c.idx[a].idle >= c.idx[b].idle
    OBVIOUS
  <1>1. c.idx[a].idle \in Nat /\ c.idx[b].idle \in Nat /\ c.idx[d].idle \in Nat
    BY ResidentEntries
  <1>2. rank[a] \in Int /\ rank[b] \in Int /\ rank[d] \in Int /\ (rank[a] = rank[b] => a = b)
    BY DEF Ranked
  <1> QED BY <1>1, <1>2 DEF OldestFirst

\* A cut takes a beginning of that order.
LEMMA CutIsBeginning ==
    ASSUME NEW c, NEW nodes, Accounted(c, nodes), NEW n \in nodes, NEW limit \in Nat,
           NEW rank, Ranked(rank, Resident(c.idx, n))
    PROVE  LET cut == Cut(c, n, limit, rank)
           IN  /\ cut \in SUBSET Resident(c.idx, n)
               /\ \A a \in cut, b \in Resident(c.idx, n) :
                      b \in cut \/ OldestFirst(c.idx, a, b, rank)
  <1> DEFINE R == Resident(c.idx, n)
             cut == Cut(c, n, limit, rank)
             earlier(a) == {b \in R \ {a} : OldestFirst(c.idx, b, a, rank)}
  <1>1. cut = {a \in R : c.used[n] - Bytes(c.idx, earlier(a)) > limit}
    BY DEF Cut
  <1>2. ASSUME NEW a \in cut, NEW b \in R, ~OldestFirst(c.idx, a, b, rank) PROVE b \in cut
    <2>1. a \in R
      BY <1>1
    <2>2. CASE a = b
      BY <2>2
    <2>3. CASE a # b
      <3>1. OldestFirst(c.idx, b, a, rank) /\ a \in R
        BY <1>1, <1>2, <2>3, CutOrder
      <3>2. earlier(b) \in SUBSET earlier(a)
        BY <3>1, CutOrder
      <3>3. earlier(a) \in SUBSET R
        OBVIOUS
      <3> DEFINE ea == earlier(a)
                 eb == earlier(b)
                 na == Bytes(c.idx, ea)
                 nb == Bytes(c.idx, eb)
      <3>4. eb \in SUBSET ea /\ ea \in SUBSET R /\ eb \in SUBSET R /\ c.used[n] - na > limit
        BY <1>1, <3>2, <3>3
      <3> HIDE DEF earlier, ea, eb, R
      <3>5. na \in Nat /\ nb \in Nat /\ nb <= na
        BY <3>4, BytesOfPart DEF R
      <3>6. c.used[n] \in Nat
        BY DEF Accounted
      <3> HIDE DEF na, nb
      <3>7. c.used[n] - nb > limit
        BY <3>4, <3>5, <3>6
      <3> QED BY <1>1, <3>7 DEF nb, eb
    <2> QED BY <2>2, <2>3
  <1>3. cut \in SUBSET R
    BY <1>1
  <1> HIDE DEF cut, R
  <1> QED BY <1>2, <1>3 DEF cut, R

\* A cut that leaves something meets the limit, and one that takes something would not meet it
\* without the last one it takes.
LEMMA CutMeetsLimit ==
    ASSUME NEW c, NEW nodes, Accounted(c, nodes), NEW n \in nodes, NEW limit \in Nat,
           NEW rank, Ranked(rank, Resident(c.idx, n))
    PROVE  LET cut == Cut(c, n, limit, rank)
           IN  /\ c.used[n] - Bytes(c.idx, cut) <= limit
               /\ cut # {} => \E a \in cut :
                      /\ \A b \in cut : c.idx[b].idle >= c.idx[a].idle
                      /\ c.used[n] - Bytes(c.idx, cut) + c.idx[a].len > limit
  <1> DEFINE R == Resident(c.idx, n)
             cut == Cut(c, n, limit, rank)
             earlier(a) == {b \in R \ {a} : OldestFirst(c.idx, b, a, rank)}
             Before == {p \in R \X R : OldestFirst(c.idx, p[1], p[2], rank)}
             After == {p \in R \X R : OldestFirst(c.idx, p[2], p[1], rank)}
             used == c.used[n]
             all == Bytes(c.idx, R)
             out == Bytes(c.idx, cut)
  <1>1. cut = {a \in R : used - Bytes(c.idx, earlier(a)) > limit} /\ \A a : earlier(a) \in SUBSET R
    BY DEF Cut
  <1>2. cut \in SUBSET R /\ \A a \in cut, b \in R : b \in cut \/ OldestFirst(c.idx, a, b, rank)
    <2> HIDE DEF cut
    <2> QED BY CutIsBeginning DEF cut
  <1>3. \A a, b \in R : OldestFirst(c.idx, a, b, rank) /\ OldestFirst(c.idx, b, a, rank) => a = b
    BY CutOrder
  <1>4. /\ \A S \in SUBSET R : S # {} => \E a \in S : \A b \in S : a = b \/ <<a, b>> \in Before
        /\ \A S \in SUBSET R : S # {} => \E a \in S : \A b \in S : a = b \/ <<a, b>> \in After
    <2>1. IsFiniteSet(R)
      BY ResidentEntries
    <2>2. /\ \A a, b \in R : a # b => <<a, b>> \in Before \/ <<b, a>> \in Before
          /\ \A a, b, d \in R : <<a, b>> \in Before /\ <<b, d>> \in Before => <<a, d>> \in Before
      BY CutOrder
    <2>3. /\ \A a, b \in R : a # b => <<a, b>> \in After \/ <<b, a>> \in After
          /\ \A a, b, d \in R : <<a, b>> \in After /\ <<b, d>> \in After => <<a, d>> \in After
      BY CutOrder
    <2> HIDE DEF R, Before, After
    <2>4. \A S \in SUBSET R : S # {} => \E a \in S : \A b \in S : a = b \/ <<a, b>> \in Before
      BY <2>1, <2>2, FirstExists, SMTT(20)
    <2>5. \A S \in SUBSET R : S # {} => \E a \in S : \A b \in S : a = b \/ <<a, b>> \in After
      BY <2>1, <2>3, FirstExists
    <2> QED BY <2>4, <2>5
  <1>5. used \in Nat /\ used = all
    BY DEF Accounted
  <1>6. \A S \in SUBSET R : Bytes(c.idx, S) \in Nat /\ \A T \in SUBSET S : Bytes(c.idx, T) <= Bytes(c.idx, S)
    BY BytesOfPart
  <1>7. \A S \in SUBSET R : \A x \in S : Bytes(c.idx, S) = c.idx[x].len + Bytes(c.idx, S \ {x})
    BY BytesWithout
  <1>8. \A a \in R : c.idx[a].len \in Nat
    BY ResidentEntries
  <1>9. \A a, b \in R : /\ <<a, b>> \in Before <=> OldestFirst(c.idx, a, b, rank)
                        /\ <<a, b>> \in After <=> OldestFirst(c.idx, b, a, rank)
    OBVIOUS
  <1>10. \A a, b \in R : OldestFirst(c.idx, a, b, rank) => c.idx[a].idle >= c.idx[b].idle
    BY CutOrder
  <1>11. \A a \in R : c.idx[a].idle \in Nat
    BY ResidentEntries
  <1> HIDE DEF R, cut, Before, After, used, all
  <1>12. used - out <= limit
    <2>1. CASE cut = R
      BY <1>5, <2>1 DEF all
    <2>2. CASE cut # R
      <3>1. R \ cut # {} /\ R \ cut \in SUBSET R
        BY <1>2, <2>2
      <3>2. PICK a \in R \ cut : \A b \in R \ cut : a = b \/ <<a, b>> \in Before
        BY <1>4, <3>1
      <3>3. earlier(a) \in SUBSET cut
        BY <1>3, <1>9, <3>2
      <3> DEFINE before == Bytes(c.idx, earlier(a))
      <3>4. before \in Nat /\ out \in Nat /\ before <= out
        <4> HIDE DEF earlier
        <4> QED BY <1>1, <1>2, <1>6, <3>3
      <3>5. ~(used - before > limit)
        <4> HIDE DEF earlier
        <4> QED BY <1>1, <3>2
      <3> HIDE DEF before, out
      <3> QED BY <1>5, <3>4, <3>5
    <2> QED BY <2>1, <2>2
  <1>13. ASSUME cut # {}
         PROVE  \E a \in cut : /\ \A b \in cut : c.idx[b].idle >= c.idx[a].idle
                               /\ used - out + c.idx[a].len > limit
    <2>1. PICK a \in cut : \A b \in cut : a = b \/ <<a, b>> \in After
      BY <1>2, <1>4, <1>13
    <2>2. \A b \in cut : c.idx[b].idle >= c.idx[a].idle
      <3> SUFFICES ASSUME NEW b \in cut PROVE c.idx[b].idle >= c.idx[a].idle
        OBVIOUS
      <3>1. a \in R /\ b \in R
        BY <1>2
      <3>2. CASE a = b
        BY <1>11, <3>1, <3>2
      <3>3. CASE a # b
        <4>1. OldestFirst(c.idx, b, a, rank)
          BY <1>9, <2>1, <3>1, <3>3
        <4> QED BY <1>10, <3>1, <4>1
      <3> QED BY <3>2, <3>3
    <2>3. earlier(a) = cut \ {a}
      BY <1>2, <1>3, <1>9, <2>1
    <2> DEFINE before == Bytes(c.idx, earlier(a))
               len == c.idx[a].len
    <2>4. out = len + before
      <3> HIDE DEF earlier
      <3> QED BY <1>2, <1>7, <2>3
    <2>5. before \in Nat /\ len \in Nat /\ used - before > limit
      <3> HIDE DEF earlier
      <3> QED BY <1>1, <1>2, <1>6, <1>8
    <2> HIDE DEF before, out, len
    <2>6. used - out + len > limit
      BY <1>5, <2>4, <2>5
    <2> QED BY <2>1, <2>2, <2>6 DEF len
  <1> QED BY <1>12, <1>13 DEF cut, used, out

\* A budget cut keeps the accounts: what leaves are exactly the residents it takes, the other nodes
\* keep theirs, and the bytes of the node meet its new budget.
LEMMA EnforcedAccounts ==
    ASSUME NEW c, NEW nodes, Accounted(c, nodes), NEW node \in nodes, NEW wanted \in Int,
           NEW rank, Ranked(rank, Resident(c.idx, node))
    PROVE  LET d == Enforced(c, node, wanted, rank)
               cut == Cut(c, node, Limit(wanted), rank)
           IN  /\ Accounted(d, nodes) /\ DOMAIN d.idx = DOMAIN c.idx
               /\ d.budget = [c.budget EXCEPT ![node] = Limit(wanted)]
               /\ d.used[node] = c.used[node] - Bytes(c.idx, cut)
               /\ d.used[node] <= Limit(wanted)
               /\ \A n \in nodes : n # node => d.used[n] = c.used[n]
               /\ \A n \in nodes : Resident(d.idx, n) = Resident(c.idx, n) \ cut
  <1> DEFINE limit == Limit(wanted)
             cut == Cut(c, node, limit, rank)
             out == Bytes(c.idx, cut)
             x == [id \in DOMAIN c.idx |-> IF id \in cut THEN Demote(c.idx[id]) ELSE c.idx[id]]
             v == [c.used EXCEPT ![node] = @ - out]
             b == [c.budget EXCEPT ![node] = limit]
             d == [idx |-> x, used |-> v, budget |-> b]
  <1>1. Enforced(c, node, wanted, rank) = d
    BY DEF Enforced
  <1>2. limit \in Nat
    BY DEF Limit
  <1>3. cut \in SUBSET Resident(c.idx, node) /\ c.used[node] - out <= limit
    <2> HIDE DEF limit
    <2> QED BY <1>2, CutIsBeginning, CutMeetsLimit
  <1>4. /\ d.idx = x /\ d.used = v /\ d.budget = b
        /\ d = [idx |-> d.idx, used |-> d.used, budget |-> d.budget]
        /\ DOMAIN x = DOMAIN c.idx /\ x = [id \in DOMAIN x |-> x[id]]
        /\ \A id \in DOMAIN c.idx : x[id] = IF id \in cut THEN Demote(c.idx[id]) ELSE c.idx[id]
    OBVIOUS
  <1> HIDE DEF cut, limit, x, d
  <1>5. \A id \in DOMAIN c.idx :
            /\ x[id] \in CacheEntry(nodes) \cup {Gone}
            /\ id \in cut => x[id].tier # "HBM"
            /\ id \notin cut => x[id] = c.idx[id]
    <2> SUFFICES ASSUME NEW id \in DOMAIN c.idx
                 PROVE  /\ x[id] \in CacheEntry(nodes) \cup {Gone}
                        /\ id \in cut => x[id].tier # "HBM"
                        /\ id \notin cut => x[id] = c.idx[id]
      OBVIOUS
    <2>1. CASE id \in cut
      <3>1. c.idx[id] \in CacheEntry(nodes)
        BY <1>3, <2>1, ResidentEntries
      <3>2. Demote(c.idx[id]) \in CacheEntry(nodes) /\ Demote(c.idx[id]).tier = "SSD"
        BY <3>1 DEF Demote, CacheEntry
      <3> QED BY <1>4, <2>1, <3>2
    <2>2. CASE id \notin cut
      BY <1>4, <2>2 DEF Accounted
    <2> QED BY <2>1, <2>2
  <1>6. c.used \in [nodes -> Nat] /\ c.budget \in [nodes -> Nat] /\ IsFiniteSet(DOMAIN c.idx)
    BY DEF Accounted
  <1>7. ASSUME NEW n \in nodes
        PROVE  /\ Resident(x, n) = Resident(c.idx, n) \ cut
               /\ Bytes(x, Resident(x, n)) = c.used[n] - Bytes(c.idx, Resident(c.idx, n) \cap cut)
               /\ Bytes(x, Resident(x, n)) \in Nat
    <2>1. Leave(c, nodes, x, cut)
      BY <1>4, <1>5 DEF Leave
    <2> HIDE DEF v, b, out
    <2>2. Settled(c, x, cut, n)
      BY <2>1, LeavingAccounts
    <2> QED BY <2>2 DEF Settled
  <1>8. ASSUME NEW n \in nodes PROVE v[n] = Bytes(x, Resident(x, n)) /\ v[n] \in Nat
    <2>1. CASE n = node
      <3>1. Resident(c.idx, n) \cap cut = cut
        BY <1>3, <2>1
      <3>2. v[n] = c.used[n] - out
        BY <1>6, <2>1
      <3> QED BY <1>7, <3>1, <3>2
    <2>2. CASE n # node
      <3>1. Resident(c.idx, n) \ cut = Resident(c.idx, n)
        BY <1>3, <2>2 DEF Resident
      <3>2. v[n] = c.used[n]
        BY <1>6, <2>2
      <3>3. Bytes(x, Resident(x, n)) = Bytes(c.idx, Resident(c.idx, n))
        <4> DEFINE R == Resident(c.idx, n)
        <4>1. IsFiniteSet(R) /\ \A id \in R : id \in DOMAIN c.idx /\ id \notin cut
          BY <3>1, ResidentEntries
        <4>2. \A id \in R : x[id].len = c.idx[id].len
          BY <1>5, <4>1
        <4>3. Resident(x, n) = R
          BY <1>7, <3>1
        <4> HIDE DEF R
        <4>4. Bytes(x, R) = Bytes(c.idx, R)
          BY <4>1, <4>2, BytesAgree
        <4> QED BY <4>3, <4>4 DEF R
      <3> QED BY <1>6, <3>2, <3>3 DEF Accounted
    <2> QED BY <2>1, <2>2
  <1>9. v = [n \in nodes |-> v[n]] /\ b \in [nodes -> Nat]
    BY <1>2, <1>6
  <1>10. v[node] = c.used[node] - out /\ \A n \in nodes : n # node => v[n] = c.used[n]
    BY <1>6
  <1> HIDE DEF v, b, out
  <1>11. v \in [nodes -> Nat]
    BY <1>8, <1>9
  <1>12. Accounted(d, nodes)
    BY <1>4, <1>5, <1>6, <1>8, <1>9, <1>11 DEF Accounted
  <1>13. Enforced(c, node, wanted, rank).used[node] <= limit
    BY <1>1, <1>3, <1>4, <1>10
  <1> QED BY <1>1, <1>4, <1>7, <1>10, <1>12, <1>13 DEF cut, limit, b, out

-----------------------------------------------------------------------------
(* A round begins: evict_tick.                                             *)

\* What a round makes of an entry is an entry of the same node and length, or nothing; it is in HBM
\* only if it was.
LEMMA AgedStays ==
    ASSUME NEW nodes, NEW e \in CacheEntry(nodes) \cup {Gone}
    PROVE  /\ Aged(e) \in CacheEntry(nodes) \cup {Gone}
           /\ Aged(e).tier = "HBM" => e.tier = "HBM" /\ Aged(e).node = e.node /\ Aged(e).len = e.len
  <1>1. Gone.tier = "Gone" /\ (\A d \in CacheEntry(nodes) : d.tier \in {"HBM", "SSD"})
    BY DEF Gone, CacheEntry
  <1>2. CASE e = Gone
    <2>1. Aged(e) = Gone
      BY <1>1, <1>2 DEF Aged
    <2> QED BY <1>1, <2>1
  <1>3. CASE e \in CacheEntry(nodes)
    <2> DEFINE older == [e EXCEPT !.idle = @ + 1]
    <2>1. e # Gone
      BY <1>1, <1>3
    <2>2. older \in CacheEntry(nodes) /\ older.tier = e.tier /\ older.node = e.node /\ older.len = e.len
      BY <1>3 DEF CacheEntry
    <2>3. Demote(older) \in CacheEntry(nodes) /\ Demote(older).tier = "SSD"
      <3> HIDE DEF older
      <3> QED BY <2>2 DEF Demote, CacheEntry
    <2>4. CASE e.tier = "HBM"
      <3>1. Aged(e) = IF older.idle > evict_age THEN Demote(older) ELSE older
        BY <2>1, <2>4 DEF Aged
      <3> HIDE DEF older
      <3>2. Aged(e) = Demote(older) \/ Aged(e) = older
        BY <3>1
      <3> QED BY <2>2, <2>3, <2>4, <3>2
    <2>5. CASE e.tier = "SSD"
      <3>1. Aged(e) = IF older.idle > gone_age THEN Gone ELSE older
        BY <2>1, <2>5 DEF Aged
      <3> HIDE DEF older
      <3>2. Aged(e) = Gone \/ Aged(e) = older
        BY <3>1
      <3> QED BY <1>1, <2>2, <2>5, <3>2
    <2> QED BY <1>1, <1>3, <2>4, <2>5
  <1> QED BY <1>2, <1>3

\* A round keeps the accounts and takes bytes away only.
LEMMA TickedAccounts ==
    ASSUME NEW c, NEW nodes, Accounted(c, nodes)
    PROVE  /\ Accounted(Ticked(c), nodes) /\ DOMAIN Ticked(c).idx = DOMAIN c.idx
           /\ Ticked(c).budget = c.budget
           /\ \A n \in nodes : Ticked(c).used[n] <= c.used[n]
  <1> DEFINE Leaving(n) == {id \in Resident(c.idx, n) : Aged(c.idx[id]).tier # "HBM"}
             X == {id \in DOMAIN c.idx : Aged(c.idx[id]).tier # "HBM"}
             x == [id \in DOMAIN c.idx |-> Aged(c.idx[id])]
             v == [n \in nodes |-> c.used[n] - Bytes(c.idx, Leaving(n))]
             d == [idx |-> x, used |-> v, budget |-> c.budget]
  <1>1. Ticked(c) = d
    <2>1. DOMAIN c.used = nodes
      BY DEF Accounted
    <2> QED BY <2>1 DEF Ticked
  <1>2. \A n \in nodes : Leaving(n) = Resident(c.idx, n) \cap X
    BY DEF Resident
  <1>3. \A id \in DOMAIN c.idx : /\ x[id] \in CacheEntry(nodes) \cup {Gone}
                                 /\ x[id].tier = "HBM" => /\ c.idx[id].tier = "HBM"
                                                          /\ x[id].node = c.idx[id].node
                                                          /\ x[id].len = c.idx[id].len
    BY AgedStays DEF Accounted
  <1>4. \A id \in DOMAIN c.idx : id \in X <=> x[id].tier # "HBM"
    OBVIOUS
  <1>5. DOMAIN x = DOMAIN c.idx /\ x = [id \in DOMAIN x |-> x[id]]
    OBVIOUS
  <1>6. d.idx = x /\ d.used = v /\ d.budget = c.budget
        /\ d = [idx |-> d.idx, used |-> d.used, budget |-> d.budget]
    OBVIOUS
  <1>7. v = [n \in nodes |-> v[n]] /\ \A n \in nodes : v[n] = c.used[n] - Bytes(c.idx, Leaving(n))
    OBVIOUS
  <1> HIDE DEF X, x, v, d, Leaving
  <1>8. \A id \in DOMAIN c.idx : id \notin X => (x[id].tier = "HBM" /\ c.idx[id].tier = "HBM")
    BY <1>3, <1>4
  <1>9. Leave(c, nodes, x, X)
    BY <1>3, <1>4, <1>5, <1>8 DEF Leave
  <1>10. \A n \in nodes : Settled(c, x, X, n)
    BY <1>9, LeavingAccounts
  <1>11. ASSUME NEW n \in nodes PROVE v[n] = Bytes(x, Resident(x, n)) /\ v[n] \in Nat /\ v[n] <= c.used[n]
    <2>1. v[n] = c.used[n] - Bytes(c.idx, Resident(c.idx, n) \cap X)
      BY <1>2, <1>7
    <2>2. Settled(c, x, X, n)
      BY <1>10
    <2>3. v[n] = Bytes(x, Resident(x, n))
      BY <2>1, <2>2 DEF Settled
    <2> QED BY <2>2, <2>3 DEF Settled
  <1>12. v \in [nodes -> Nat]
    BY <1>7, <1>11
  <1>13. IsFiniteSet(DOMAIN x) /\ c.budget \in [nodes -> Nat]
    BY <1>5 DEF Accounted
  <1>14. Accounted(d, nodes)
    BY <1>3, <1>5, <1>6, <1>11, <1>12, <1>13 DEF Accounted
  <1> QED BY <1>1, <1>5, <1>6, <1>11, <1>14
================================================================================
