----------------------------- MODULE FlashSfuCore -----------------------------
(***************************************************************************)
(* The whole Flash-SFU core (src/rtl/top/flash_sfu_core_top.sv): the        *)
(* control path of SfuControl driving the QK multiplier, the score FIFO,    *)
(* the reduction unit, the SV multiplier and the state register file.       *)
(*                                                                          *)
(* A value is abstracted to its provenance: a score to the tile, row and    *)
(* key it was computed from, a running maximum to the row state it started  *)
(* from and the scores it has seen, an accumulator to its initial terms and *)
(* the products added to it.  Nothing but timing relates the blocks: a      *)
(* datum is paired with whatever the other block holds in that cycle.       *)
(***************************************************************************)
EXTENDS SfuControl, Sequences, FiniteSets

CONSTANTS
    Bubble,     \* no valid datum in a pipeline stage
    MaxFolds    \* bound: tiles folded into the row state since reset

ASSUME MaxFoldsAssumption == MaxFolds \in Nat

VARIABLES
    mem, wr_ptr, rd_ptr, cnt,               \* score_fifo
    q_out_reg,                              \* q_broadcast_unit: the row latched
    k_rdata, v_rdata,                       \* pingpong_sram
    qk_pipe, s_out, s_valid,                \* mac_array_qk
    we_m_d1, running_max, m_y_reg,          \* reduction_m_expx
    expx_pipe, x_out, x_out_valid,
    l_prev_ld_reg,                          \* the L snapshot of the top level
    expy_pipe, y_out, y_out_valid,          \* reduction_expy_l
    val_A_reg, acc_init_delay, l_acc_reg,
    mult_reg, o_acc, shadow_reg,            \* mac_array_sv
    o_prev_assembly_reg,                    \* the O_prev assembly register
    M_reg, L_reg, O_reg                     \* state_rf

fifoRegs == <<mem, wr_ptr, rd_ptr, cnt>>
dataRegs == <<q_out_reg, k_rdata, v_rdata, qk_pipe, s_out, s_valid, we_m_d1,
              running_max, m_y_reg, expx_pipe, x_out, x_out_valid,
              l_prev_ld_reg, expy_pipe, y_out, y_out_valid, val_A_reg,
              acc_init_delay, l_acc_reg, mult_reg, o_acc, shadow_reg,
              o_prev_assembly_reg, M_reg, L_reg, O_reg>>
coreVars == <<vars, fifoRegs, dataRegs>>

\* The FIFO is built with its default depth and never flushed.
Fifo == INSTANCE ScoreFifo WITH DEPTH <- 34, Scores <- {}, NoScore <- Bubble

\* The state of a row: whose it is and how many tiles are folded into it.
Fresh(row)   == [row |-> row, folds |-> 0]
Folded(prev) == [row |-> prev.row, folds |-> prev.folds + 1]

Advance(pipe, datum) == <<datum>> \o SubSeq(pipe, 1, Len(pipe) - 1)
Emerging(pipe)       == pipe[Len(pipe)]
Stages(n)            == [stage \in 1..n |-> Bubble]

m_prev == M_reg[m_rd_addr]

\* The data of the pipelines.  None is mistaken for a bubble.
RowState == [row : Rows, folds : Nat]
Score    == [tile : 0..255, row : Rows, key : Keys]
XTerm    == [row : Rows, m : Rows]
YTerm    == [score : Score, m : Rows]
Product  ==
    [init : {TRUE}, x : XTerm, o : [Chunks -> RowState]]
    \cup [init : {FALSE}, y : YTerm, v : [tile : 0..255, key : Keys]]

ASSUME BubbleAssumption == Bubble \notin Score \cup XTerm \cup YTerm \cup Product

-----------------------------------------------------------------------------
(* One operator per block: what its registers take on a clock edge. *)

BroadcastQ == q_out_reg' = IF q_update THEN row_cnt ELSE q_out_reg

\* The host keeps the selected bank loaded with the current tile.
ReadSram ==
    /\ k_rdata' = IF sfu_k_re THEN [tile |-> tile_cnt, key |-> sfu_k_addr] ELSE k_rdata
    /\ v_rdata' = IF sfu_v_re THEN [tile |-> tile_cnt, key |-> sfu_v_addr] ELSE v_rdata

\* Eight registered stages and the output register, which holds its score.
MultiplyQK ==
    LET product == [tile |-> k_rdata.tile, row |-> q_out_reg, key |-> k_rdata.key]
    IN
    /\ qk_pipe' = Advance(qk_pipe, IF qk_valid_in THEN product ELSE Bubble)
    /\ s_valid' = (Emerging(qk_pipe) # Bubble)
    /\ s_out' = IF Emerging(qk_pipe) # Bubble THEN Emerging(qk_pipe) ELSE s_out

BufferScores ==
    Fifo!FifoClock(s_valid, s_out, fifo_rd_en(Fifo!empty))

\* The maximum of what it saw and of the score on the input, if that is valid.
running_max_fwd ==
    IF s_valid_in
    THEN [running_max EXCEPT !.seen = @ \cup {s_out}]
    ELSE running_max

\* Mutant of FindMax: the restart is not delayed, m_prev is that of the row itself.
FindMaxEarlyRestart ==
    /\ we_m_d1' = we_m
    /\ running_max' = IF we_m THEN [prev |-> m_prev, seen |-> {}] ELSE running_max_fwd
    /\ m_y_reg' = IF exp_x_en THEN running_max_fwd ELSE m_y_reg

FindMax ==
    /\ we_m_d1' = we_m
    /\ running_max' =
           IF we_m_d1 THEN [prev |-> m_prev, seen |-> {}] ELSE running_max_fwd
    /\ m_y_reg' = IF exp_x_en THEN running_max_fwd ELSE m_y_reg

\* X = exp(m_prev - m_new), 22 cycles; x_out holds until the next row's X.
ExpX ==
    LET term == [row |-> m_prev.row, m |-> running_max_fwd.prev.row] IN
    /\ expx_pipe' = Advance(expx_pipe, IF exp_x_en THEN term ELSE Bubble)
    /\ x_out_valid' = (Emerging(expx_pipe) # Bubble)
    /\ x_out' = IF Emerging(expx_pipe) # Bubble THEN Emerging(expx_pipe) ELSE x_out

\* Y_j = exp(S_j - m_y), the score from the FIFO, 22 cycles.
ExpY ==
    LET term == [score |-> Fifo!rd_data, m |-> m_y_reg.prev.row] IN
    /\ expy_pipe' =
           Advance(expy_pipe, IF exp_y_en(Fifo!empty) THEN term ELSE Bubble)
    /\ y_out_valid' = (Emerging(expy_pipe) # Bubble)
    /\ y_out' = IF Emerging(expy_pipe) # Bubble THEN Emerging(expy_pipe) ELSE y_out

SnapshotL == l_prev_ld_reg' = IF start_row THEN L_reg[m_rd_addr] ELSE l_prev_ld_reg

\* Mutant of AccumulateL: the init strobe is used undelayed, a cycle before Y_0.
AccumulateLUndelayed ==
    LET start == IF acc_init THEN [from |-> val_A_reg, ys |-> <<>>] ELSE l_acc_reg IN
    /\ val_A_reg' =
           IF x_out_valid THEN [x |-> x_out, prev |-> l_prev_ld_reg] ELSE val_A_reg
    /\ acc_init_delay' = acc_init
    /\ l_acc_reg' =
           IF y_out_valid THEN [start EXCEPT !.ys = Append(@, y_out)] ELSE l_acc_reg

AccumulateL ==
    LET start == IF acc_init_delay THEN [from |-> val_A_reg, ys |-> <<>>] ELSE l_acc_reg
    IN
    /\ val_A_reg' =
           IF x_out_valid THEN [x |-> x_out, prev |-> l_prev_ld_reg] ELSE val_A_reg
    /\ acc_init_delay' = acc_init
    /\ l_acc_reg' =
           IF y_out_valid THEN [start EXCEPT !.ys = Append(@, y_out)] ELSE l_acc_reg

AssembleOPrev ==
    o_prev_assembly_reg' =
        IF o_prev_ld_en
        THEN [o_prev_assembly_reg EXCEPT ![o_prev_chunk_sel] = O_reg[rd_addr][o_prev_chunk_sel]]
        ELSE o_prev_assembly_reg

\* Mutant of MultiplySV: the products are added with one operand a stage late.
MultiplySVSkewed ==
    /\ mult_reg' =
           IF acc_init THEN [init |-> TRUE, x |-> x_out, o |-> o_prev_assembly_reg]
           ELSE IF sv_v_valid THEN [init |-> FALSE, y |-> y_out, v |-> v_rdata]
           ELSE Bubble
    /\ o_acc' =
           IF mult_reg = Bubble THEN o_acc
           ELSE IF mult_reg.init
           THEN [x |-> mult_reg.x, o |-> mult_reg.o, terms |-> <<>>]
           ELSE [o_acc EXCEPT !.terms = Append(@, <<y_out, mult_reg.v>>)]
    /\ shadow_reg' = IF shadow_latch THEN o_acc ELSE shadow_reg

\* Stage 1 registers a product, stage 2 adds it; an X * O_prev product starts over.
MultiplySV ==
    /\ mult_reg' =
           IF acc_init THEN [init |-> TRUE, x |-> x_out, o |-> o_prev_assembly_reg]
           ELSE IF sv_v_valid THEN [init |-> FALSE, y |-> y_out, v |-> v_rdata]
           ELSE Bubble
    /\ o_acc' =
           IF mult_reg = Bubble THEN o_acc
           ELSE IF mult_reg.init
           THEN [x |-> mult_reg.x, o |-> mult_reg.o, terms |-> <<>>]
           ELSE [o_acc EXCEPT !.terms = Append(@, <<mult_reg.y, mult_reg.v>>)]
    /\ shadow_reg' = IF shadow_latch THEN o_acc ELSE shadow_reg

\* Mutant of WriteState: O is written under the address of L, which moves.
WriteStateLiveAddress ==
    /\ M_reg' = IF we_m
                THEN [M_reg EXCEPT ![m_wr_addr] = Folded(running_max_fwd.prev)]
                ELSE M_reg
    /\ L_reg' = IF we_l
                THEN [L_reg EXCEPT ![lo_wr_addr] = Folded(l_acc_reg.from.prev)]
                ELSE L_reg
    /\ O_reg' = IF we_o
                THEN [O_reg EXCEPT ![lo_wr_addr][chunk_sel] =
                          Folded(shadow_reg.o[chunk_sel])]
                ELSE O_reg

WriteState ==
    /\ M_reg' = IF we_m
                THEN [M_reg EXCEPT ![m_wr_addr] = Folded(running_max_fwd.prev)]
                ELSE M_reg
    /\ L_reg' = IF we_l
                THEN [L_reg EXCEPT ![lo_wr_addr] = Folded(l_acc_reg.from.prev)]
                ELSE L_reg
    /\ O_reg' = IF we_o
                THEN [O_reg EXCEPT ![o_wr_row_reg][chunk_sel] =
                          Folded(shadow_reg.o[chunk_sel])]
                ELSE O_reg

-----------------------------------------------------------------------------
\* The values of rst_n, which returns the core here from any cycle.  M and the
\* running maximum are both reset to -infinity.
DataInit ==
    /\ q_out_reg = Bubble
    /\ k_rdata = Bubble /\ v_rdata = Bubble
    /\ qk_pipe = Stages(8) /\ s_out = Bubble /\ s_valid = FALSE
    /\ we_m_d1 = FALSE
    /\ running_max = [prev |-> Fresh(0), seen |-> {}]
    /\ m_y_reg = [prev |-> Fresh(0), seen |-> {}]
    /\ expx_pipe = Stages(21) /\ x_out = Bubble /\ x_out_valid = FALSE
    /\ l_prev_ld_reg = Fresh(0)
    /\ expy_pipe = Stages(21) /\ y_out = Bubble /\ y_out_valid = FALSE
    /\ val_A_reg = [x |-> Bubble, prev |-> Fresh(0)] /\ acc_init_delay = FALSE
    /\ l_acc_reg = [from |-> val_A_reg, ys |-> <<>>]
    /\ mult_reg = Bubble
    /\ o_acc = [x |-> Bubble, o |-> <<>>, terms |-> <<>>]
    /\ shadow_reg = o_acc
    /\ o_prev_assembly_reg = [c \in Chunks |-> Bubble]
    /\ M_reg = [r \in Rows |-> Fresh(r)]
    /\ L_reg = [r \in Rows |-> Fresh(r)]
    /\ O_reg = [r \in Rows |-> [c \in Chunks |-> Fresh(r)]]

CoreInit == Init /\ Fifo!FifoInit /\ DataInit

\* Launches stop at the bound: M, L and O keep folding until the next reset.
MayLaunch == M_reg[0].folds + LastTile < MaxFolds

CoreTick(start) ==
    /\ start => MayLaunch
    /\ Tick(start)
    /\ BroadcastQ
    /\ ReadSram
    /\ MultiplyQK
    /\ BufferScores
    /\ FindMax
    /\ ExpX
    /\ ExpY
    /\ SnapshotL
    /\ AccumulateL
    /\ AssembleOPrev
    /\ MultiplySV
    /\ WriteState

CoreHostConfigures == HostConfigures /\ UNCHANGED <<fifoRegs, dataRegs>>

CoreNext ==
    \/ \E start \in BOOLEAN : CoreTick(start)
    \/ CoreHostConfigures

CoreSpec == CoreInit /\ [][CoreNext]_coreVars

-----------------------------------------------------------------------------
(* Properties. *)

\* The score of a row against key j of the current tile.
ScoreOf(r, j) == [tile |-> tile_cnt, row |-> r, key |-> j]
ScoresOf(r)   == {ScoreOf(r, j) : j \in Keys}

\* The exponentials of a row in the order its scores were computed.
YsOf(r) == [i \in 1..32 |-> [score |-> ScoreOf(r, i - 1), m |-> r]]

\* "Minimum 34 for Row overlap safety" (score_fifo.sv:14): the FIFO, never
\* flushed, is neither overrun nor read dry inside a row, holds at most the 32
\* scores of one row though two rows use it at once, and ends a tile empty.
FifoMargin ==
    /\ cnt <= 32
    /\ Running /\ fifo_rd_en(FALSE) /\ global_cycle <= 314 => ~Fifo!empty
    /\ ~Running => Fifo!empty

\* main_fsm.sv:206-218: the score of row r and key j enters the exponential 45 + j
\* cycles after the row's start, as the FIFO's head, and at no other time would the
\* window let one in.  The empty flag, all that the control path sees of the data,
\* makes no difference to when the FIFO is read.
ScoreReadsOnSchedule ==
    /\ \A r \in Rows, j \in Keys : At(34 * r + 45 + j) =>
           exp_y_en(Fifo!empty) /\ Fifo!rd_data = ScoreOf(r, j)
    /\ exp_y_en(FALSE) => \E r \in Rows, j \in Keys : At(34 * r + 45 + j)

\* When row r writes M, the maximum it writes and the X computed with it start
\* from M of row r as it was after the last tile.
MaxOfOwnRow ==
    \A r \in Rows : we_m /\ m_wr_addr = r =>
        /\ M_reg[r].row = r
        /\ m_prev = M_reg[r]
        /\ running_max_fwd.prev = M_reg[r]

\* When row r writes L, the sum holds the 32 exponentials of row r's scores of
\* this tile, once each and in order, all taken with the maximum of row r, and
\* was scaled with the X of row r.
SumOfOwnRow ==
    \A r \in Rows : we_l /\ lo_wr_addr = r =>
        /\ l_acc_reg.ys = YsOf(r)
        /\ l_acc_reg.from.x = [row |-> r, m |-> r]

\* When row r's O is latched, it is X of row r times O of row r as stored after
\* the last tile, plus Y_j V_j for every key j of this tile, each Y with its V.
OutputOfOwnRow ==
    \A r \in Rows : shadow_latch /\ lo_wr_addr = r =>
        /\ o_acc.x = [row |-> r, m |-> r]
        /\ o_acc.o = O_reg[r]
        /\ o_acc.terms =
               [i \in 1..32 |-> <<YsOf(r)[i], [tile |-> tile_cnt, key |-> i - 1]>>]

\* Between launches every row has folded the same tiles into M and into each
\* chunk of O, under its own address: no row skipped, folded twice or swapped.
RowsFoldTogether ==
    ~Running =>
        \A r \in Rows :
            /\ M_reg[r] = [row |-> r, folds |-> M_reg[0].folds]
            /\ \A c \in Chunks : O_reg[r][c] = M_reg[r]

\* "L_prev snapshot latch (start_row timing)" (flash_sfu_core_top.sv:441) of the
\* "previous tile's L" (reduction_expy_l.sv:27): X of a row scales L of that row.
LPrevOfOwnRow == x_out_valid => l_prev_ld_reg.row = x_out.row

\* "Active 32/34 cycles ... Row 0: gc=10..41" (main_fsm.sv:194-195): the maximum
\* of a row is taken over the 32 scores of that row.
MaxOverOwnScores ==
    \A r \in Rows : we_m /\ m_wr_addr = r => running_max_fwd.seen = ScoresOf(r)
=============================================================================
