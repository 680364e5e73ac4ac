------------------------------ MODULE SfuControl ------------------------------
(***************************************************************************)
(* The control path of the Flash-SFU core: the control FSM and the top      *)
(* level's tracker on one clock, and the addresses of the state register    *)
(* file (src/rtl/mem/state_rf.sv).  Two counters that never exchange a      *)
(* value have to agree on every cycle, and four strobes raised by a phase   *)
(* that wraps have to address the row that was started up to three periods  *)
(* before.                                                                  *)
(***************************************************************************)
EXTENDS MainFsm, TopTracker

vars == <<state, global_cycle, phase_cnt, row_cnt, tile_cnt, bank_sel,
          o_wr_row_reg, num_tiles, top_running, top_global_cycle,
          top_tile_done, k_active, k_counter, v_active, v_counter,
          qk_valid_in, sv_v_valid>>

(* Addresses of the state register file, from the FSM's row_cnt. *)

rd_addr    == RowBefore(row_cnt)
m_wr_addr  == RowBefore(row_cnt)
lo_wr_addr == RowBefore(RowBefore(row_cnt))
m_rd_addr  == IF we_m THEN RowBefore(row_cnt) ELSE row_cnt

-----------------------------------------------------------------------------
Init == FsmInit /\ TopInit

\* A clock edge: every register of both counters samples the same old values.
Tick(start) == FsmClock(start) /\ TopClock(start, tile_ready)

Reset == FsmReset /\ TopReset

HostConfigures == HostSetsTiles /\ UNCHANGED topVars

Next == (\E start \in BOOLEAN : Tick(start)) \/ Reset \/ HostConfigures

\* The clock keeps running; nothing obliges the host to raise start.
Spec == Init /\ [][Next]_vars /\ WF_vars(Tick(FALSE))

-----------------------------------------------------------------------------
(* Properties. *)

Rows   == 0..7
Keys   == 0..31
Chunks == 0..7

\* The core is in cycle g of a tile.
At(g) == Running /\ global_cycle = g

\* Every register keeps the width the RTL gives it and the range it documents,
\* and the flags are flags.
TypeOK == FsmTypeOK /\ TopCountersOK /\ TopFlagsOK

\* "Synced with main_fsm" (flash_sfu_core_top.sv:137): the tracker is in the
\* FSM's state and cycle on every edge, through launches, tile boundaries,
\* relaunches and resets, though only tile_ready connects the two.
Lockstep ==
    /\ (state \in {"IDLE", "ALL_DONE"}) <=> ~top_running
    /\ (state = "TILE_DONE") <=> (top_running /\ top_tile_done)
    /\ Running => top_global_cycle = global_cycle

\* The state register file is read and written for row r, and for no other, at
\* the cycles the occupancy model gives row r: M at 42, the O chunks loaded at
\* 58..65, L at 99, the O chunks written at 101..108 after the row's start.
\* Each write finds the row it belongs to though row_cnt moved one to three
\* periods on, and wrapped, since the row started.
StateAccessOnSchedule ==
    \A r \in Rows :
        LET start == 34 * r IN
        /\ (we_m /\ m_wr_addr = r) <=> At(start + 42)
        /\ (we_l /\ lo_wr_addr = r) <=> At(start + 99)
        /\ (shadow_latch /\ lo_wr_addr = r) <=> At(start + 100)
        /\ (acc_init /\ rd_addr = r) <=> At(start + 66)
        /\ \A c \in Chunks :
               /\ (o_prev_ld_en /\ rd_addr = r /\ o_prev_chunk_sel = c)
                      <=> At(start + 58 + c)
               /\ (we_o /\ o_wr_row_reg = r /\ chunk_sel = c)
                      <=> At(start + 101 + c)

\* Key j of every row is read, once, at the cycle its Q was latched plus 1 + j,
\* and V j at 66 + j; the V data never reach the multiplier in the cycle in
\* which the row's accumulator is initialised (the input mux would drop them).
SramReadsOnSchedule ==
    /\ \A r \in Rows : (q_update /\ row_cnt = r) <=> At(34 * r)
    /\ \A j \in Keys :
           /\ (sfu_k_re /\ sfu_k_addr = j) <=> \E r \in Rows : At(34 * r + 1 + j)
           /\ \A r \in Rows : At(34 * r + 66 + j) => sfu_v_re /\ sfu_v_addr = j
    /\ ~(sv_v_valid /\ acc_init)

\* "FSM ensures bank_sel is static during active Tile read phases"
\* (pingpong_sram.sv:143): a bank is given back to the DMA only when no read
\* is under way and none of the data it returned is still to be consumed.
BankSwitchedIdle ==
    [][bank_sel' # bank_sel =>
           \/ state' = "IDLE"
           \/ ~sfu_k_re /\ ~sfu_v_re /\ ~qk_valid_in /\ ~sv_v_valid]_vars

\* A launched run ends: all tiles done, or the core reset.
LaunchCompletes == Running ~> state \in {"ALL_DONE", "IDLE"}

-----------------------------------------------------------------------------
(* The strengthening under which Lockstep and the two schedules are inductive: *)
(* while a tile runs, every register is a function of the row period k and of   *)
(* phase_cnt.                                                                   *)

\* The period of row k started 34 k cycles into the tile; row_cnt is k in 3 bits.
InPeriod(k) ==
    /\ global_cycle = 34 * k + phase_cnt
    /\ row_cnt = IF k < 8 THEN k ELSE k - 8

\* The phase counted from phase `first` of the period.
RowPhase(phase, first) == IF phase >= first THEN phase - first ELSE phase - first + 34

PhaseTracksCycle == Running => \E k \in 0..10 : InPeriod(k)

\* From the first shadow_latch on, the snapshot is the row whose O is drained.
SnapshotTracksRow ==
    Running /\ global_cycle > 100 =>
        o_wr_row_reg = IF phase_cnt = 33
                       THEN RowBefore(RowBefore(row_cnt))
                       ELSE RowBefore(RowBefore(RowBefore(row_cnt)))

KReadTracksPhase ==
    /\ IF Running /\ global_cycle \in 1..272
          THEN k_active /\ k_counter = RowPhase(phase_cnt, 1)
          ELSE ~k_active
    /\ state = "TILE_DONE" => ~qk_valid_in

VReadTracksPhase ==
    /\ IF Running /\ global_cycle \in 66..342
          THEN v_active /\ v_counter = RowPhase(phase_cnt, 32)
          ELSE ~v_active
    /\ Running /\ phase_cnt = 32 => ~sv_v_valid
    /\ state = "TILE_DONE" => ~sv_v_valid

ScheduleInv ==
    /\ TypeOK
    /\ Lockstep
    /\ PhaseTracksCycle
    /\ SnapshotTracksRow
    /\ KReadTracksPhase
    /\ VReadTracksPhase
=============================================================================
