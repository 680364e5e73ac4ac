------------------------------- MODULE ScoreFifo -------------------------------
(***************************************************************************)
(* The circular buffer between the QK multiplier and the exponentials       *)
(* (src/rtl/datapath/score_fifo.sv).  Pointers wrap by comparison, because  *)
(* its depth (34) is no power of two, and an occupancy count tells the full *)
(* buffer from the empty one.  Full and empty are those of the cycle's      *)
(* start: a full buffer refuses the write even if it is read.               *)
(***************************************************************************)
EXTENDS Naturals, Sequences

CONSTANTS
    DEPTH,      \* entries of the buffer
    Scores,     \* the scores that may be written
    NoScore     \* what an entry holds before its first write

ASSUME DepthAssumption == DEPTH \in Nat \ {0}

VARIABLES mem, wr_ptr, rd_ptr, cnt

fifoVars == <<mem, wr_ptr, rd_ptr, cnt>>

full    == cnt = DEPTH
empty   == cnt = 0
rd_data == mem[rd_ptr]

\* Mutant of NextPtr: the pointer wraps one entry late.
NextPtrLate(ptr) == IF ptr = DEPTH THEN 0 ELSE ptr + 1

NextPtr(ptr) == IF ptr = DEPTH - 1 THEN 0 ELSE ptr + 1

FifoInit ==
    /\ mem = [slot \in 0..DEPTH - 1 |-> NoScore]
    /\ wr_ptr = 0
    /\ rd_ptr = 0
    /\ cnt = 0

\* Mutant of FifoClear: a flush that rewinds the writer only.
FifoClearForgetsReader ==
    /\ wr_ptr' = 0
    /\ cnt' = 0
    /\ UNCHANGED <<mem, rd_ptr>>

\* rst_n and fifo_flush: the entries keep their contents.
FifoClear ==
    /\ wr_ptr' = 0
    /\ rd_ptr' = 0
    /\ cnt' = 0
    /\ UNCHANGED mem

Write(score) ==
    /\ mem' = [mem EXCEPT ![wr_ptr] = score]
    /\ wr_ptr' = NextPtr(wr_ptr)

\* Mutant of FifoClock: a read in the cycle of a write is not counted.
FifoClockCountsWritesFirst(wr_en, score, rd_en) ==
    LET wr_valid == wr_en /\ ~full
        rd_valid == rd_en /\ ~empty
    IN
    /\ IF wr_valid THEN Write(score) ELSE UNCHANGED <<mem, wr_ptr>>
    /\ rd_ptr' = IF rd_valid THEN NextPtr(rd_ptr) ELSE rd_ptr
    /\ cnt' = IF wr_valid THEN cnt + 1 ELSE IF rd_valid THEN cnt - 1 ELSE cnt

\* One clock edge without flush.
FifoClock(wr_en, score, rd_en) ==
    LET wr_valid == wr_en /\ ~full
        rd_valid == rd_en /\ ~empty
    IN
    /\ IF wr_valid THEN Write(score) ELSE UNCHANGED <<mem, wr_ptr>>
    /\ rd_ptr' = IF rd_valid THEN NextPtr(rd_ptr) ELSE rd_ptr
    /\ cnt' = IF wr_valid /\ ~rd_valid THEN cnt + 1
              ELSE IF rd_valid /\ ~wr_valid THEN cnt - 1
              ELSE cnt

FifoNext ==
    \/ \E wr_en, rd_en \in BOOLEAN, score \in Scores : FifoClock(wr_en, score, rd_en)
    \/ FifoClear

FifoSpec == FifoInit /\ [][FifoNext]_fifoVars

-----------------------------------------------------------------------------
(* Properties. *)

\* The pointers index the buffer and the count is an occupancy.
FifoTypeOK ==
    /\ mem \in [0..DEPTH - 1 -> Scores \cup {NoScore}]
    /\ wr_ptr \in 0..DEPTH - 1
    /\ rd_ptr \in 0..DEPTH - 1
    /\ cnt \in 0..DEPTH

\* The slot of the i-th oldest entry.
Slot(i) == IF rd_ptr + i - 1 < DEPTH THEN rd_ptr + i - 1 ELSE rd_ptr + i - 1 - DEPTH

\* The three registers never disagree: the writer is cnt slots ahead of the
\* reader, and every slot between them holds a score that was written.
PointersAgree ==
    /\ wr_ptr = Slot(cnt + 1)
    /\ \A i \in 1..cnt : mem[Slot(i)] \in Scores

\* The buffer is a queue: scores come out in the order they went in, none lost,
\* duplicated or overwritten, at every wrap of either pointer.
contents == [i \in 1..cnt |-> mem[Slot(i)]]

Queue == INSTANCE BoundedFifo WITH queue <- contents

ImplementsQueue == Queue!Spec
=============================================================================
