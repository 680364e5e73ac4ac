--------------------------- MODULE ScoreFifoProofs ---------------------------
(***************************************************************************)
(* For every depth and every set of scores, the circular buffer of          *)
(* ScoreFifo is the bounded queue of BoundedFifo.                           *)
(***************************************************************************)
EXTENDS ScoreFifo, SequenceTheorems, TLAPS

USE DepthAssumption DEF DepthAssumption

FifoInv == FifoTypeOK /\ PointersAgree

LEMMA InitInv == FifoInit => FifoInv
  BY DEF FifoInit, FifoInv, FifoTypeOK, PointersAgree, Slot

\* A clock edge, in terms of the entries accepted and released.
LEMMA ClockEdge ==
    ASSUME FifoInv, NEW wr_en \in BOOLEAN, NEW rd_en \in BOOLEAN,
           NEW score \in Scores, FifoClock(wr_en, score, rd_en)
    PROVE  LET wr == wr_en /\ cnt # DEPTH
               rd == rd_en /\ cnt # 0
           IN
           /\ wr_ptr' = IF wr THEN NextPtr(wr_ptr) ELSE wr_ptr
           /\ mem' = IF wr THEN [mem EXCEPT ![wr_ptr] = score] ELSE mem
           /\ rd_ptr' = IF rd THEN NextPtr(rd_ptr) ELSE rd_ptr
           /\ cnt' = IF wr /\ ~rd THEN cnt + 1
                     ELSE IF rd /\ ~wr THEN cnt - 1 ELSE cnt
           /\ wr => cnt < DEPTH
           /\ rd => cnt > 0
  BY DEF FifoClock, Write, full, empty, FifoInv, FifoTypeOK

\* The i-th entry after a clock edge is the next one before it if an entry was
\* released, and the accepted score if there was no such entry.
LEMMA EntryAfter ==
    ASSUME FifoInv, NEW wr_en \in BOOLEAN, NEW rd_en \in BOOLEAN,
           NEW score \in Scores, FifoClock(wr_en, score, rd_en),
           NEW i \in (1..cnt)'
    PROVE  LET j == IF rd_en /\ cnt # 0 THEN i + 1 ELSE i IN
           IF j <= cnt THEN mem'[Slot(i)'] = mem[Slot(j)]
                       ELSE j = cnt + 1 /\ mem'[Slot(i)'] = score
<1> DEFINE wr == wr_en /\ cnt # DEPTH
           rd == rd_en /\ cnt # 0
           j  == IF rd THEN i + 1 ELSE i
<1>1. /\ mem' = IF wr THEN [mem EXCEPT ![wr_ptr] = score] ELSE mem
      /\ rd_ptr' = IF rd THEN NextPtr(rd_ptr) ELSE rd_ptr
      /\ cnt' = IF wr /\ ~rd THEN cnt + 1
                ELSE IF rd /\ ~wr THEN cnt - 1 ELSE cnt
      /\ wr => cnt < DEPTH
      /\ rd => cnt > 0
  BY ClockEdge
<1> USE DEF FifoInv, FifoTypeOK, PointersAgree
<1>2. /\ j \in 1..cnt \/ (wr /\ j = cnt + 1)
      /\ j \in 1..DEPTH
  BY <1>1
<1>3. Slot(i)' = Slot(j) /\ Slot(j) \in 0..DEPTH - 1
  BY <1>1, <1>2 DEF NextPtr, Slot
<1>4. CASE j \in 1..cnt
  <2>1. wr => Slot(j) # wr_ptr
    BY <1>1, <1>4 DEF Slot
  <2>2. mem'[Slot(j)] = mem[Slot(j)]
    BY <1>1, <1>3, <2>1
  <2>3. QED
    BY <1>3, <1>4, <2>2
<1>5. CASE wr /\ j = cnt + 1
  <2>1. mem'[Slot(j)] = score
    BY <1>1, <1>3, <1>5
  <2>2. QED
    BY <1>3, <1>5, <2>1
<1>6. QED
  BY <1>2, <1>4, <1>5

LEMMA ClockInv ==
    ASSUME FifoInv, NEW wr_en \in BOOLEAN, NEW rd_en \in BOOLEAN,
           NEW score \in Scores, FifoClock(wr_en, score, rd_en)
    PROVE  FifoInv'
<1> DEFINE wr == wr_en /\ cnt # DEPTH
           rd == rd_en /\ cnt # 0
<1>1. /\ wr_ptr' = IF wr THEN NextPtr(wr_ptr) ELSE wr_ptr
      /\ mem' = IF wr THEN [mem EXCEPT ![wr_ptr] = score] ELSE mem
      /\ rd_ptr' = IF rd THEN NextPtr(rd_ptr) ELSE rd_ptr
      /\ cnt' = IF wr /\ ~rd THEN cnt + 1
                ELSE IF rd /\ ~wr THEN cnt - 1 ELSE cnt
      /\ wr => cnt < DEPTH
      /\ rd => cnt > 0
  BY ClockEdge
<1> USE DEF FifoInv, FifoTypeOK
<1>2. FifoTypeOK'
  BY <1>1 DEF NextPtr
<1>3. wr_ptr' = Slot(cnt + 1)'
  BY <1>1 DEF NextPtr, PointersAgree, Slot
<1>4. ASSUME NEW i \in (1..cnt)' PROVE mem'[Slot(i)'] \in Scores
  <2> DEFINE j == IF rd THEN i + 1 ELSE i
  <2>1. IF j <= cnt THEN mem'[Slot(i)'] = mem[Slot(j)] ELSE mem'[Slot(i)'] = score
    BY EntryAfter
  <2>2. j <= cnt => j \in 1..cnt
    BY <1>1
  <2>3. QED
    BY <2>1, <2>2 DEF PointersAgree
<1>5. QED
  BY <1>2, <1>3, <1>4 DEF PointersAgree

LEMMA StepInv == FifoInv /\ [FifoNext]_fifoVars => FifoInv'
<1> SUFFICES ASSUME FifoInv, [FifoNext]_fifoVars PROVE FifoInv'
  OBVIOUS
<1>1. CASE FifoClear
  BY <1>1 DEF FifoClear, FifoInv, FifoTypeOK, PointersAgree, Slot
<1>2. CASE UNCHANGED fifoVars
  BY <1>2 DEF fifoVars, FifoInv, FifoTypeOK, PointersAgree, Slot
<1>3. QED
  BY <1>1, <1>2, ClockInv DEF FifoNext

LEMMA InvAlways == FifoSpec => []FifoInv
  BY InitInv, StepInv, PTL DEF FifoSpec

\* Pointers and count keep their widths, for every depth, power of two or not.
THEOREM FifoTypeCorrect == FifoSpec => []FifoTypeOK
  BY InvAlways, PTL DEF FifoInv

\* The writer is always cnt slots ahead of the reader, over written scores.
THEOREM PointersCorrect == FifoSpec => []PointersAgree
  BY InvAlways, PTL DEF FifoInv

-----------------------------------------------------------------------------
(* Refinement: the live entries, oldest first, are the queue. *)

LEMMA ContentsSeq ==
    ASSUME FifoInv
    PROVE  /\ contents \in Seq(Scores)
           /\ Len(contents) = cnt
           /\ \A i \in 1..cnt : contents[i] = mem[Slot(i)]
<1>1. cnt \in Nat /\ contents \in [1..cnt -> Scores]
  BY DEF FifoInv, FifoTypeOK, PointersAgree, contents
<1>2. QED
  BY <1>1, SeqDef DEF contents

LEMMA ContentsSeqNext ==
    ASSUME FifoInv'
    PROVE  /\ contents' \in Seq(Scores)
           /\ Len(contents') = cnt'
           /\ \A i \in 1..cnt' : contents'[i] = mem'[Slot(i)']
<1>1. cnt' \in Nat /\ contents' \in [1..cnt' -> Scores]
  BY DEF FifoInv, FifoTypeOK, PointersAgree, contents
<1>2. QED
  BY <1>1, SeqDef DEF contents

\* A clock edge appends the accepted score and drops the released one.
LEMMA ClockRefines ==
    ASSUME FifoInv, NEW wr_en \in BOOLEAN, NEW rd_en \in BOOLEAN,
           NEW score \in Scores, FifoClock(wr_en, score, rd_en)
    PROVE  Queue!Next \/ UNCHANGED contents
<1> DEFINE wr == wr_en /\ cnt # DEPTH
           rd == rd_en /\ cnt # 0
<1>1. FifoInv'
  BY ClockInv
<1>2. /\ cnt' = IF wr /\ ~rd THEN cnt + 1
                ELSE IF rd /\ ~wr THEN cnt - 1 ELSE cnt
      /\ wr => cnt < DEPTH
      /\ rd => cnt > 0
  BY ClockEdge
<1>3. \A i \in 1..cnt' : 
         LET j == IF rd THEN i + 1 ELSE i IN
         contents'[i] = IF j <= cnt THEN contents[j] ELSE score
  <2> SUFFICES ASSUME NEW i \in 1..cnt'
               PROVE  LET j == IF rd THEN i + 1 ELSE i IN
                      contents'[i] = IF j <= cnt THEN contents[j] ELSE score
    OBVIOUS
  <2> DEFINE j == IF rd THEN i + 1 ELSE i
  <2>1. IF j <= cnt THEN mem'[Slot(i)'] = mem[Slot(j)] ELSE mem'[Slot(i)'] = score
    BY EntryAfter
  <2>2. j \in Nat \ {0} /\ cnt \in Nat
    BY <1>1 DEF FifoInv, FifoTypeOK
  <2>3. QED
    BY <1>1, <2>1, <2>2, ContentsSeq, ContentsSeqNext
<1> HIDE DEF wr, rd
<1>4. /\ contents \in Seq(Scores) /\ Len(contents) = cnt /\ cnt \in 0..DEPTH
      /\ contents' \in Seq(Scores) /\ Len(contents') = cnt'
  BY <1>1, ContentsSeq, ContentsSeqNext DEF FifoInv, FifoTypeOK
<1>5. CASE wr /\ ~rd
  <2>1. Append(contents, score) \in Seq(Scores)
        /\ Len(Append(contents, score)) = cnt + 1
        /\ \A i \in 1..cnt : Append(contents, score)[i] = contents[i]
        /\ Append(contents, score)[cnt + 1] = score
    BY <1>4, AppendProperties
  <2>2. contents' = Append(contents, score)
    <3>1. \A i \in 1..cnt + 1 : contents'[i] = Append(contents, score)[i]
      BY <1>2, <1>3, <1>4, <1>5, <2>1
    <3>2. QED
      BY <1>2, <1>4, <1>5, <2>1, <3>1, SeqEqual
  <2>3. QED
    BY <1>2, <1>4, <1>5, <2>2 DEF Queue!Next, Queue!Push
<1>6. CASE rd
  <2>1. contents # <<>>
    BY <1>2, <1>4, <1>6, EmptySeq
  <2>2. /\ Tail(contents) \in Seq(Scores)
        /\ Len(Tail(contents)) = cnt - 1
        /\ \A i \in 1..cnt - 1 : Tail(contents)[i] = contents[i + 1]
    BY <1>4, <2>1, HeadTailProperties
  <2>3. CASE ~wr
    <3>1. contents' = Tail(contents)
      <4>1. \A i \in 1..cnt - 1 : contents'[i] = Tail(contents)[i]
        BY <1>2, <1>3, <1>4, <1>6, <2>2, <2>3
      <4>2. QED
        BY <1>2, <1>4, <1>6, <2>2, <2>3, <4>1, SeqEqual
    <3>2. QED
      BY <2>1, <3>1 DEF Queue!Next, Queue!Pop
  <2>4. CASE wr
    <3> DEFINE next == Append(Tail(contents), score)
    <3>1. /\ next \in Seq(Scores)
          /\ Len(next) = cnt
          /\ \A i \in 1..cnt - 1 : next[i] = Tail(contents)[i]
          /\ next[cnt] = score
      <4>1. /\ next \in Seq(Scores)
            /\ Len(next) = Len(Tail(contents)) + 1
            /\ \A i \in 1..Len(Tail(contents)) : next[i] = Tail(contents)[i]
            /\ next[Len(Tail(contents)) + 1] = score
        BY <2>2, AppendProperties
      <4>2. QED
        BY <1>4, <2>2, <4>1
    <3> HIDE DEF next
    <3>2. contents' = next
      <4>1. \A i \in 1..cnt : contents'[i] = next[i]
        BY <1>2, <1>3, <1>4, <1>6, <2>2, <2>4, <3>1
      <4>2. QED
        BY <1>2, <1>4, <1>6, <2>4, <3>1, <4>1, SeqEqual
    <3>3. QED
      BY <1>2, <1>4, <2>1, <2>4, <3>2 DEF Queue!Next, Queue!PopPush, next
  <2>5. QED
    BY <2>3, <2>4
<1>7. CASE ~wr /\ ~rd
  <2>1. \A i \in 1..cnt : contents'[i] = contents[i]
    BY <1>2, <1>3, <1>4, <1>7
  <2>2. contents' = contents
    BY <1>2, <1>4, <1>7, <2>1, SeqEqual
  <2>3. QED
    BY <2>2
<1>8. QED
  BY <1>5, <1>6, <1>7

\* The buffer is the bounded queue: every write that finds room is delivered
\* once and in order, across every wrap of the pointers and every flush.
THEOREM FifoImplementsQueue == FifoSpec => ImplementsQueue
<1>1. FifoInit => Queue!Init
  BY DEF FifoInit, Queue!Init, contents
<1>2. FifoInv /\ [FifoNext]_fifoVars => [Queue!Next]_contents
  <2> SUFFICES ASSUME FifoInv, [FifoNext]_fifoVars
               PROVE  Queue!Next \/ UNCHANGED contents
    OBVIOUS
  <2>1. CASE FifoClear
    <3>1. contents' = <<>>
      BY <2>1 DEF FifoClear, contents
    <3>2. QED
      BY <3>1 DEF Queue!Next, Queue!Flush
  <2>2. CASE UNCHANGED fifoVars
    BY <2>2 DEF fifoVars, contents, Slot
  <2>3. QED
    BY <2>1, <2>2, ClockRefines DEF FifoNext
<1>3. QED
  BY <1>1, <1>2, InvAlways, PTL DEF FifoSpec, ImplementsQueue, Queue!Spec
=============================================================================
