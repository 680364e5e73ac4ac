------------------------------- MODULE MainFsm -------------------------------
(***************************************************************************)
(* The control FSM of the Flash-SFU core (src/rtl/ctrl/main_fsm.sv).  One   *)
(* action per state of the FSM is one rising clock edge in that state; the  *)
(* control strobes are the combinational outputs of the registers.          *)
(*                                                                          *)
(* A tile is 347 cycles: eight rows of 34 cycles started back to back, and  *)
(* the drain of the last row.  A strobe is raised by phase_cnt (where in a  *)
(* 34-cycle period) under a window of global_cycle (which rows).            *)
(***************************************************************************)
EXTENDS Integers

CONSTANT TileCounts     \* the values the host may put on num_tiles

ASSUME TileCountsAssumption == TileCounts \subseteq 0..255

VARIABLES
    state,          \* state_t
    global_cycle,   \* 0..346, the cycle of the tile
    phase_cnt,      \* 0..33, the cycle of the row period
    row_cnt,        \* 3 bits: the row period, modulo 8
    tile_cnt,       \* 8 bits
    bank_sel,       \* which SRAM bank the core reads
    o_wr_row_reg,   \* the row the O chunks are written to
    num_tiles       \* 8-bit input, held by the host while the core runs

LastCycle == 346
LastPhase == 33

FsmTypeOK ==
    /\ state \in {"IDLE", "RUN", "TILE_DONE", "ALL_DONE"}
    /\ global_cycle \in 0..LastCycle
    /\ phase_cnt \in 0..LastPhase
    /\ row_cnt \in 0..7
    /\ tile_cnt \in 0..255
    /\ bank_sel \in 0..1
    /\ o_wr_row_reg \in 0..7
    /\ num_tiles \in 0..255

\* Mutant of RowAfter: the counter is a bit wider and does not wrap.
RowAfterWider(row) == row + 1

\* 3-bit row arithmetic: the successor and the predecessor wrap.
RowAfter(row)  == IF row = 7 THEN 0 ELSE row + 1
RowBefore(row) == IF row = 0 THEN 7 ELSE row - 1

\* num_tiles - 8'd1 in 8 bits: a count of 0 asks for 256 tiles.
LastTile == IF num_tiles = 0 THEN 255 ELSE num_tiles - 1

-----------------------------------------------------------------------------
(* Control strobes. *)

Running == state = "RUN"
Within(first, last) == Running /\ global_cycle >= first /\ global_cycle <= last

q_update  == Within(0, 238) /\ phase_cnt = 0
start_row == Within(0, 242) /\ phase_cnt = 4

s_valid_in == Within(10, 280) /\ (phase_cnt >= 10 \/ phase_cnt <= 7)

we_m     == Within(42, 280) /\ phase_cnt = 8
exp_x_en == we_m

\* Mutant of fifo_rd_en: the window closes a cycle before the last score.
FifoReadStopsEarly(fifo_empty) ==
    /\ Within(45, 313)
    /\ phase_cnt >= 11 \/ phase_cnt <= 8
    /\ ~fifo_empty

fifo_rd_en(fifo_empty) ==
    /\ Within(45, 314)
    /\ phase_cnt >= 11 \/ phase_cnt <= 8
    /\ ~fifo_empty
exp_y_en(fifo_empty) == fifo_rd_en(fifo_empty)

acc_init     == Within(66, 304) /\ phase_cnt = 32
we_l         == Within(99, 337) /\ phase_cnt = 31
shadow_latch == Within(100, 338) /\ phase_cnt = 32

we_o      == Within(101, 346) /\ (phase_cnt = 33 \/ phase_cnt <= 6)
chunk_sel == IF we_o /\ phase_cnt # 33 THEN phase_cnt + 1 ELSE 0

o_prev_ld_en     == Within(58, 304) /\ phase_cnt >= 24 /\ phase_cnt <= 31
o_prev_chunk_sel == phase_cnt - 24

tile_ready ==
    \/ state = "ALL_DONE"
    \/ state = "TILE_DONE" /\ tile_cnt = LastTile

-----------------------------------------------------------------------------
(* Clock edges. *)

FsmInit ==
    /\ state = "IDLE"
    /\ global_cycle = 0
    /\ phase_cnt = 0
    /\ row_cnt = 0
    /\ tile_cnt = 0
    /\ bank_sel = 0
    /\ o_wr_row_reg = 0
    /\ num_tiles \in TileCounts

ClearCounters ==
    /\ global_cycle' = 0
    /\ phase_cnt' = 0
    /\ row_cnt' = 0

Idle(start) ==
    /\ state = "IDLE"
    /\ ClearCounters
    /\ state' = IF start THEN "RUN" ELSE "IDLE"
    /\ tile_cnt' = IF start THEN 0 ELSE tile_cnt
    /\ UNCHANGED <<bank_sel, o_wr_row_reg, num_tiles>>

\* Mutant of Run: the snapshot is not taken, the row is always row_cnt - 2.
RunWithoutSnapshot ==
    /\ state = "RUN"
    /\ state' = IF global_cycle = LastCycle THEN "TILE_DONE" ELSE "RUN"
    /\ global_cycle' =
           IF global_cycle < LastCycle THEN global_cycle + 1 ELSE global_cycle
    /\ phase_cnt' = IF phase_cnt = LastPhase THEN 0 ELSE phase_cnt + 1
    /\ row_cnt' = IF phase_cnt = LastPhase THEN RowAfter(row_cnt) ELSE row_cnt
    /\ o_wr_row_reg' = RowBefore(RowBefore(row_cnt'))
    /\ UNCHANGED <<tile_cnt, bank_sel, num_tiles>>

\* The snapshot of the O write row is taken by shadow_latch, before row_cnt moves.
Run ==
    /\ state = "RUN"
    /\ state' = IF global_cycle = LastCycle THEN "TILE_DONE" ELSE "RUN"
    /\ global_cycle' =
           IF global_cycle < LastCycle THEN global_cycle + 1 ELSE global_cycle
    /\ phase_cnt' = IF phase_cnt = LastPhase THEN 0 ELSE phase_cnt + 1
    /\ row_cnt' = IF phase_cnt = LastPhase THEN RowAfter(row_cnt) ELSE row_cnt
    /\ o_wr_row_reg' =
           IF shadow_latch THEN RowBefore(RowBefore(row_cnt)) ELSE o_wr_row_reg
    /\ UNCHANGED <<tile_cnt, bank_sel, num_tiles>>

\* Mutant of TileDone: the tile count stops one short of the last tile.
TileDoneOneShort ==
    /\ state = "TILE_DONE"
    /\ ClearCounters
    /\ state' = IF tile_cnt = LastTile THEN "ALL_DONE" ELSE "RUN"
    /\ tile_cnt' = IF tile_cnt + 1 < LastTile THEN tile_cnt + 1 ELSE tile_cnt
    /\ bank_sel' = 1 - bank_sel
    /\ UNCHANGED <<o_wr_row_reg, num_tiles>>

TileDone ==
    /\ state = "TILE_DONE"
    /\ ClearCounters
    /\ state' = IF tile_cnt = LastTile THEN "ALL_DONE" ELSE "RUN"
    /\ tile_cnt' = IF tile_cnt < LastTile THEN tile_cnt + 1 ELSE tile_cnt
    /\ bank_sel' = 1 - bank_sel
    /\ UNCHANGED <<o_wr_row_reg, num_tiles>>

AllDone(start) ==
    /\ state = "ALL_DONE"
    /\ IF start
          THEN state' = "RUN" /\ ClearCounters /\ tile_cnt' = 0
          ELSE UNCHANGED <<state, global_cycle, phase_cnt, row_cnt, tile_cnt>>
    /\ UNCHANGED <<bank_sel, o_wr_row_reg, num_tiles>>

FsmClock(start) == Idle(start) \/ Run \/ TileDone \/ AllDone(start)

\* rst_n: every register returns to its reset value, whatever the cycle.
FsmReset ==
    /\ state' = "IDLE"
    /\ ClearCounters
    /\ tile_cnt' = 0
    /\ bank_sel' = 0
    /\ o_wr_row_reg' = 0
    /\ UNCHANGED num_tiles

\* The host sets num_tiles for the next launch while the core is at rest.
HostSetsTiles ==
    /\ state \in {"IDLE", "ALL_DONE"}
    /\ num_tiles' \in TileCounts
    /\ UNCHANGED <<state, global_cycle, phase_cnt, row_cnt, tile_cnt, bank_sel,
                   o_wr_row_reg>>
=============================================================================
