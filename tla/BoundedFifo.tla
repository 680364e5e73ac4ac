------------------------------ MODULE BoundedFifo ------------------------------
(***************************************************************************)
(* What the core asks of its score FIFO: a queue of at most DEPTH scores,   *)
(* written and read in the same cycle if need be, that gives the scores     *)
(* back in the order they were accepted.  A write to a full queue and a     *)
(* read of an empty one leave it as it is.                                  *)
(***************************************************************************)
EXTENDS Naturals, Sequences

CONSTANTS DEPTH, Scores

VARIABLE queue

Push(s)    == Len(queue) < DEPTH /\ queue' = Append(queue, s)
Pop        == queue # <<>> /\ queue' = Tail(queue)
PopPush(s) == /\ queue # <<>> /\ Len(queue) < DEPTH
              /\ queue' = Append(Tail(queue), s)
Flush      == queue' = <<>>

Init == queue = <<>>

Next == \/ \E s \in Scores : Push(s) \/ PopPush(s)
        \/ Pop
        \/ Flush

Spec == Init /\ [][Next]_queue
=============================================================================
