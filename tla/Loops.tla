--------------------------------- MODULE Loops ---------------------------------
(***************************************************************************)
(* Counted loops.  A `for' or `while' of the engine whose iterations are   *)
(* bounded becomes the n-fold application of its body to the variables it  *)
(* carries.                                                                *)
(***************************************************************************)
EXTENDS Naturals, Sequences

\* The state after the iterations 1..n of Step, from start.  A body that finds
\* the loop condition false leaves the state alone.
Iterate(n, Step(_, _), start) ==
  LET after[k \in Nat] == IF k = 0 THEN start ELSE Step(after[k - 1], k)
  IN  after[n]

\* The members of s that lie in V, in order.
OnlyStep(c, t, k) == IF c.s[k] \in c.V THEN Append(t, c.s[k]) ELSE t
Only(s, V) ==
  LET c == [s |-> s, V |-> V] IN Iterate(Len(s), LAMBDA t, k : OnlyStep(c, t, k), <<>>)

\* The sum of a vector.
SumStep(s, sum, k) == sum + s[k]
Sum(s) == Iterate(Len(s), LAMBDA sum, k : SumStep(s, sum, k), 0)
===============================================================================
