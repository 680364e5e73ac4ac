------------------------------ MODULE LoopTheory ------------------------------
(***************************************************************************)
(* Induction, and what a counted loop computes, for every number of        *)
(* iterations.  An instance names the body of its loop, Step(c, s, k): the *)
(* k-th iteration in the state s, where c is what the loop only reads; and *)
(* its loop invariant, Inv(c, s, k): after k iterations.                   *)
(*                                                                         *)
(* The function that Iterate defines is a CHOOSE, so that a function with  *)
(* this recursion exists has to be proved: its restrictions to 0..n exist  *)
(* by induction on n (RunExists), agree where both are defined (RunUnique) *)
(* and together make up the whole (Unfold).                                *)
(***************************************************************************)
EXTENDS Integers, Loops, WellFoundedInduction, TLAPS

CONSTANTS Step(_, _, _), Inv(_, _, _)

Loop(c, n, start) == Iterate(n, LAMBDA s, k : Step(c, s, k), start)

IsRun(run, c, n, start) ==
  run = [k \in 0..n |-> IF k = 0 THEN start ELSE Step(c, run[k - 1], k)]
-------------------------------------------------------------------------------
\* A set of naturals that is not empty has a least element.
LEMMA LeastNatural ==
    ASSUME NEW T, T \subseteq Nat, T # {}
    PROVE  \E m \in T : \A k \in T : m <= k
  <1> DEFINE Less == OpToRel(<, Nat)
  <1>1. IsWellFoundedOn(Less, Nat)
    BY NatLessThanWellFounded
  <1>2. \A x, y \in Nat : y < x => <<y, x>> \in Less
    BY DEF OpToRel
  <1> HIDE DEF Less
  <1>3. PICK m \in T : \A y \in T : <<y, m>> \notin Less
    BY <1>1, WFMin
  <1>4. ASSUME NEW y \in T PROVE m <= y
    <2>1. m \in Nat /\ y \in Nat
      OBVIOUS
    <2>2. ~(y < m)
      BY <1>2, <1>3, <2>1
    <2> QED BY <2>1, <2>2
  <1> QED BY <1>4

\* Induction on the naturals, for a set: a set with 0 and closed under successor has them all.
THEOREM Induct ==
    ASSUME NEW S, 0 \in S, \A n \in Nat : n \in S => n+1 \in S
    PROVE  \A n \in Nat : n \in S
  <1> SUFFICES ASSUME NEW n \in Nat, n \notin S  PROVE FALSE
    OBVIOUS
  <1> DEFINE T == {k \in Nat : k \notin S}
  <1>1. PICK m \in T : \A k \in T : m <= k
    BY LeastNatural
  <1>2. m # 0 /\ m-1 \in Nat
    BY <1>1
  <1>3. m-1 \in S
    BY <1>1, <1>2
  <1>4. m-1+1 \in S
    BY <1>2, <1>3
  <1> QED BY <1>1, <1>4, <1>2

\* For every n there is a table of the first n iterations of the loop.
LEMMA RunExists == \A c, start : \A n \in Nat : \E h : IsRun(h, c, n, start)
  <1> SUFFICES ASSUME NEW c, NEW start PROVE \A n \in Nat : \E h : IsRun(h, c, n, start)
    OBVIOUS
  <1> DEFINE S == {n \in Nat : \E h : IsRun(h, c, n, start)}
  <1>1. 0 \in S
    <2>1. IsRun([k \in 0..0 |-> start], c, 0, start)
      BY DEF IsRun
    <2> QED BY <2>1
  <1>2. ASSUME NEW n \in Nat, n \in S PROVE n+1 \in S
    <2>1. PICK h : IsRun(h, c, n, start)
      BY <1>2
    <2> DEFINE g == [k \in 0..(n+1) |-> IF k <= n THEN h[k] ELSE Step(c, h[n], n+1)]
    <2>2. \A k \in 0..(n+1) : g[k] = IF k = 0 THEN start ELSE Step(c, g[k-1], k)
      <3> TAKE k \in 0..(n+1)
      <3>1. CASE k = 0
        BY <2>1, <3>1 DEF IsRun
      <3>2. CASE k # 0 /\ k <= n
        BY <2>1, <3>2 DEF IsRun
      <3>3. CASE k = n+1
        BY <2>1, <3>3 DEF IsRun
      <3> QED BY <3>1, <3>2, <3>3
    <2>3. IsRun(g, c, n+1, start)
      BY <2>2 DEF IsRun
    <2> QED BY <2>3
  <1> HIDE DEF S
  <1>3. \A n \in Nat : n \in S
    BY <1>1, <1>2, Induct
  <1> QED BY <1>3 DEF S

\* Two tables of the same loop agree wherever both are defined.
LEMMA RunUnique ==
    ASSUME NEW c, NEW start, NEW n \in Nat, NEW m \in Nat, NEW h, NEW g, IsRun(h, c, n, start), IsRun(g, c, m, start)
    PROVE  \A k \in Nat : k <= n /\ k <= m => h[k] = g[k]
  <1> DEFINE S == {k \in Nat : k <= n /\ k <= m => h[k] = g[k]}
  <1>1. 0 \in S
    BY DEF IsRun
  <1>2. ASSUME NEW k \in Nat, k \in S PROVE k+1 \in S
    BY <1>2 DEF IsRun
  <1> HIDE DEF S
  <1>3. \A k \in Nat : k \in S
    BY <1>1, <1>2, Induct
  <1> QED BY <1>3 DEF S

\* The loop unfolds: no iteration leaves start, and iteration n + 1 applies Step to what n iterations
\* left.
THEOREM Unfold ==
    ASSUME NEW c, NEW start
    PROVE  /\ Loop(c, 0, start) = start
           /\ \A n \in Nat : Loop(c, n+1, start) = Step(c, Loop(c, n, start), n+1)
  <1> DEFINE run(n) == CHOOSE h : IsRun(h, c, n, start)
             f == [k \in Nat |-> run(k)[k]]
             F(h) == h = [k \in Nat |-> IF k = 0 THEN start ELSE Step(c, h[k-1], k)]
             H == CHOOSE h : F(h)
  <1>1. \A n \in Nat : IsRun(run(n), c, n, start)
    BY RunExists
  <1> HIDE DEF run
  <1>2. \A k \in Nat : f[k] = IF k = 0 THEN start ELSE Step(c, f[k-1], k)
    <2> TAKE k \in Nat
    <2>1. CASE k = 0
      BY <1>1, <2>1 DEF IsRun
    <2>2. CASE k # 0
      <3>1. k-1 \in Nat /\ run(k)[k-1] = run(k-1)[k-1]
        BY <1>1, <2>2, RunUnique
      <3>2. run(k)[k] = Step(c, run(k)[k-1], k)
        BY <1>1, <2>2 DEF IsRun
      <3> QED BY <2>2, <3>1, <3>2
    <2> QED BY <2>1, <2>2
  <1>3. F(f)
    BY <1>2
  <1> HIDE DEF f
  <1>4. F(H)
    BY <1>3
  <1>5. \A n \in Nat : Loop(c, n, start) = H[n]
    BY DEF Loop, Iterate
  <1> HIDE DEF H
  <1>6. H[0] = start
    BY <1>4
  <1>7. \A n \in Nat : H[n+1] = Step(c, H[n], n+1)
    BY <1>4
  <1> QED BY <1>5, <1>6, <1>7

\* The rule every for loop of the models is proved by: what holds at the start and is kept by each
\* iteration holds at the end.
LEMMA LoopInvariant ==
    ASSUME NEW c, NEW start, NEW n \in Nat,
           Inv(c, start, 0),
           \A k \in 0..(n - 1) : \A s : Inv(c, s, k) => Inv(c, Step(c, s, k + 1), k + 1)
    PROVE  Inv(c, Loop(c, n, start), n)
  <1> DEFINE S == {k \in Nat : k <= n => Inv(c, Loop(c, k, start), k)}
  <1>1. 0 \in S
    BY Unfold
  <1>2. ASSUME NEW k \in Nat, k \in S PROVE k + 1 \in S
    <2>1. CASE k + 1 <= n
      <3>1. Inv(c, Loop(c, k, start), k) /\ k \in 0..(n - 1)
        BY <1>2, <2>1
      <3>2. Loop(c, k + 1, start) = Step(c, Loop(c, k, start), k + 1)
        BY Unfold
      <3>3. Inv(c, Loop(c, k + 1, start), k + 1)
        BY <3>1, <3>2
      <3> QED BY <3>3
    <2> QED BY <2>1
  <1> HIDE DEF S
  <1>3. n \in S
    BY <1>1, <1>2, Induct
  <1> QED BY <1>3 DEF S

\* A loop depends only on what its body reads.
THEOREM SameBody ==
    ASSUME NEW c, NEW d, NEW start, NEW n \in Nat, \A s, k : Step(c, s, k) = Step(d, s, k)
    PROVE  Loop(c, n, start) = Loop(d, n, start)
  <1> DEFINE S == {k \in Nat : Loop(c, k, start) = Loop(d, k, start)}
  <1>1. 0 \in S
    BY Unfold
  <1>2. ASSUME NEW k \in Nat, k \in S PROVE k + 1 \in S
    <2>1. Loop(c, k + 1, start) = Step(c, Loop(c, k, start), k + 1)
      BY Unfold
    <2>2. Loop(d, k + 1, start) = Step(d, Loop(d, k, start), k + 1)
      BY Unfold
    <2> QED BY <1>2, <2>1, <2>2
  <1> HIDE DEF S
  <1>3. n \in S
    BY <1>1, <1>2, Induct
  <1> QED BY <1>3 DEF S
===============================================================================
