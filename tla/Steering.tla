------------------------------- MODULE Steering -------------------------------
(***************************************************************************)
(* The steering algorithms of puls-engine/core/steering.cpp: which members *)
(* of a pool make up the next micro-batch.  Pools are sequences in the     *)
(* order of the C++ vector, because every scan keeps the first of several  *)
(* equally good members.  op is the operating point, a record with the     *)
(* fields of core/operating_point.h that the algorithms read.              *)
(*                                                                         *)
(* The code compares |x - a/b| in floating point.  Every such comparison   *)
(* is scaled by the positive integer b here: |x*b - a| orders members      *)
(* exactly as the code does, and two members are equally near in the code  *)
(* only when they are here (a tie needs 2*a/b integral, which a double     *)
(* represents).                                                            *)
(***************************************************************************)
EXTENDS Integers, Sequences, SequencesExt, Loops

Abs(x) == IF x < 0 THEN -x ELSE x

\* The scans with a strict `<': the first index of C with the least cost.
FirstLeast(C, cost(_)) ==
  CHOOSE i \in C : \A j \in C : cost(i) < cost(j) \/ (cost(i) = cost(j) /\ i <= j)

\* The forced choice: the member that has waited longest.
LongestWaiting(pool, C) == FirstLeast(C, LAMBDA i : -pool[i].wait)

-------------------------------------------------------------------------------
(* Decode: members are [kv_length, wait].                                  *)

\* Mutation: steering alone, without the age cap.
DecodePickWithoutAgeCap(pool, free, op, S, n) ==
  FirstLeast(free, LAMBDA i : Abs(pool[i].kv_length * (op.decode_count_target - n)
                                    - (op.kv_operating_target - S)))

\* Mutation: the first aged member instead of the one that has waited longest.
DecodePickFirstAged(pool, free, op, S, n) ==
  LET aged == {i \in free : pool[i].wait >= op.age_cap}
  IN  IF aged # {} THEN FirstLeast(aged, LAMBDA i : 0)
      ELSE DecodePickWithoutAgeCap(pool, free, op, S, n)

\* One choice, with S tokens in n members already selected.
DecodePick(pool, free, op, S, n) ==
  LET aged == {i \in free : pool[i].wait >= op.age_cap}
      slots == op.decode_count_target - n
      room == op.kv_operating_target - S
  IN  IF aged # {}
      THEN LongestWaiting(pool, aged)
      ELSE FirstLeast(free, LAMBDA i : Abs(pool[i].kv_length * slots - room))

\* One iteration for the pool, the mask and the point of c, with b selected so far.
DecodeStep(c, b, k) ==
  LET free == DOMAIN c.pool \ (c.used \cup Range(b.sel))
      i == DecodePick(c.pool, free, c.op, b.S, Len(b.sel))
  IN  IF free = {} \/ b.S >= c.op.kv_operating_target
      THEN b
      ELSE [sel |-> Append(b.sel, i), S |-> b.S + c.pool[i].kv_length]

\* The indices selected, in order.  The caller adds them to used.
steer_decode_set(pool, used, op) ==
  LET c == [pool |-> pool, used |-> used, op |-> op]
  IN  Iterate(op.decode_count_target, LAMBDA b, k : DecodeStep(c, b, k),
              [sel |-> <<>>, S |-> 0]).sel

\* Who decodes in a round: two batches that share used, one if the pool is too
\* small for two.
RoundMembers(pool, op) ==
  LET first == Range(steer_decode_set(pool, {}, op))
  IN  IF Len(pool) >= 2 * op.decode_count_target
      THEN first \cup Range(steer_decode_set(pool, first, op))
      ELSE first

\* A round of the pool: a member of used decodes one token, the others wait.
AdvancedBy(pool, used) ==
  [i \in DOMAIN pool |-> IF i \in used
                         THEN [pool[i] EXCEPT !.dec = @ + 1, !.wait = 0]
                         ELSE [pool[i] EXCEPT !.wait = @ + 1]]

-------------------------------------------------------------------------------
(* Prefill: members are [prompt, processed, wait].                         *)

\* Mutation: no age cap.
PrefillPickWithoutAgeCap(pool, chunk, op, W, T) ==
  LET unfinished == {i \in DOMAIN pool : pool[i].processed + chunk[i] < pool[i].prompt}
  IN  IF unfinished = {} THEN 0
      ELSE FirstLeast(unfinished, LAMBDA i :
             Abs((pool[i].processed + chunk[i] + 1) * (op.prefill_tokens - T)
                   - (op.prefill_kv_work_target - W)))

\* Who gets the next token, after T tokens of depth W in all; 0 if all are done.
\* The aged get one token each, the longest waiting first; then the member whose
\* next token is nearest to the depth still missing per token.
PrefillPick(pool, chunk, op, W, T) ==
  LET unfinished == {i \in DOMAIN pool : pool[i].processed + chunk[i] < pool[i].prompt}
      aged == {i \in unfinished : pool[i].wait >= op.age_cap /\ chunk[i] = 0}
      depth(i) == pool[i].processed + chunk[i] + 1
      tokens == op.prefill_tokens - T
      room == op.prefill_kv_work_target - W
  IN  CASE aged # {} -> LongestWaiting(pool, aged)
        [] aged = {} /\ unfinished # {} ->
             FirstLeast(unfinished, LAMBDA i : Abs(depth(i) * tokens - room))
        [] OTHER -> 0

\* The k-th token, with b given out so far.
PrefillStep(c, b, k) ==
  LET i == PrefillPick(c.pool, b.chunk, c.op, b.W, k - 1)
  IN  IF i = 0
      THEN b
      ELSE [chunk |-> [b.chunk EXCEPT ![i] = @ + 1],
            W |-> b.W + c.pool[i].processed + b.chunk[i] + 1]

\* How many tokens of this batch each member gets.
steer_prefill_chunks(pool, op) ==
  LET c == [pool |-> pool, op |-> op]
  IN  Iterate(op.prefill_tokens, LAMBDA b, k : PrefillStep(c, b, k),
              [chunk |-> [i \in DOMAIN pool |-> 0], W |-> 0]).chunk

===============================================================================
