--------------------------- MODULE FlashSfuCoreProofs ---------------------------
(***************************************************************************)
(* The safety properties of the Flash-SFU for every set of tile counts.     *)
(* First the control path on its own (SfuControl): types, the lockstep of   *)
(* the two counters, the schedule of the state registers and of the SRAM    *)
(* reads.  Then the core: CoreInv says of every register of the data path   *)
(* what it holds in each of the 347 cycles of a tile, as a function of the  *)
(* cycle, the tile and the tiles folded so far; that each row's M, L and O  *)
(* are made of the row's own data follows from it.                          *)
(***************************************************************************)
EXTENDS FlashSfuCore, SequenceTheorems, TLAPS

LEMMA InitType == Init => TypeOK
<1> SUFFICES ASSUME Init PROVE TypeOK
  OBVIOUS
<1>1. FsmTypeOK
  BY TileCountsAssumption
     DEF TileCountsAssumption, Init, FsmInit, FsmTypeOK, LastCycle, LastPhase
<1>2. TopCountersOK
  BY DEF Init, TopInit, TopCountersOK
<1>3. TopFlagsOK
  BY Zenon DEF Init, TopInit, TopFlagsOK
<1>4. QED
  BY <1>1, <1>2, <1>3 DEF TypeOK

LEMMA StepFsmType == FsmTypeOK /\ [Next]_vars => FsmTypeOK'
<1> SUFFICES ASSUME FsmTypeOK, [Next]_vars PROVE FsmTypeOK'
  OBVIOUS
<1> USE DEF FsmTypeOK, LastCycle, LastPhase
<1>1. ASSUME NEW start \in BOOLEAN, Tick(start) PROVE FsmTypeOK'
  <2>1. CASE Idle(start)
    BY <2>1 DEF Idle, ClearCounters
  <2>2. CASE Run
    BY <2>2 DEF Run, RowAfter, RowBefore
  <2>3. CASE TileDone
    BY <2>3 DEF TileDone, ClearCounters, LastTile
  <2>4. CASE AllDone(start)
    BY <2>4 DEF AllDone, ClearCounters
  <2>5. QED
    BY <1>1, <2>1, <2>2, <2>3, <2>4 DEF Tick, FsmClock
<1>2. ASSUME Reset PROVE FsmTypeOK'
  BY <1>2 DEF Reset, FsmReset, ClearCounters
<1>3. ASSUME HostConfigures PROVE FsmTypeOK'
  BY <1>3, TileCountsAssumption DEF TileCountsAssumption, HostConfigures, HostSetsTiles
<1>4. ASSUME UNCHANGED vars PROVE FsmTypeOK'
  BY <1>4 DEF vars
<1>5. QED
  BY <1>1, <1>2, <1>3, <1>4 DEF Next

LEMMA StepTopCounters == TopCountersOK /\ [Next]_vars => TopCountersOK'
<1> SUFFICES ASSUME TopCountersOK, [Next]_vars PROVE TopCountersOK'
  OBVIOUS
<1>1. ASSUME NEW start \in BOOLEAN, Tick(start) PROVE TopCountersOK'
  <2>1. top_global_cycle' \in 0..346
    BY <1>1 DEF TopCountersOK, Tick, TopClock, TrackCycle, Launch,
                TileHandshake, CountCycle
  <2>2. k_counter' \in 0..33
    BY <1>1 DEF TopCountersOK, Tick, TopClock, ReadK, NextInRow
  <2>3. v_counter' \in 0..33
    BY <1>1 DEF TopCountersOK, Tick, TopClock, ReadV, NextInRow
  <2>4. QED
    BY <2>1, <2>2, <2>3 DEF TopCountersOK
<1>2. CASE Reset
  BY <1>2 DEF Reset, TopReset, TopCountersOK
<1>3. CASE UNCHANGED topVars
  BY <1>3 DEF topVars, TopCountersOK
<1>4. QED
  BY <1>1, <1>2, <1>3 DEF Next, HostConfigures, vars, topVars

LEMMA StepTopFlags == TopFlagsOK /\ [Next]_vars => TopFlagsOK'
<1> SUFFICES ASSUME TopFlagsOK, [Next]_vars PROVE TopFlagsOK'
  OBVIOUS
<1>1. ASSUME NEW start \in BOOLEAN, Tick(start) PROVE TopFlagsOK'
  <2>1. top_running' \in BOOLEAN /\ top_tile_done' \in BOOLEAN
    BY <1>1, Zenon DEF TopFlagsOK, Tick, TopClock, TrackCycle, Launch,
                       TileHandshake, CountCycle
  <2>2. k_active' \in BOOLEAN
    BY <1>1, Zenon DEF TopFlagsOK, Tick, TopClock, ReadK
  <2>3. v_active' \in BOOLEAN
    BY <1>1, Zenon DEF TopFlagsOK, Tick, TopClock, ReadV
  <2>4. qk_valid_in' \in BOOLEAN /\ sv_v_valid' \in BOOLEAN
    BY <1>1, Zenon DEF Tick, TopClock, sfu_k_re, sfu_v_re
  <2>5. QED
    BY <2>1, <2>2, <2>3, <2>4 DEF TopFlagsOK
<1>2. CASE Reset
  BY <1>2, Zenon DEF Reset, TopReset, TopFlagsOK
<1>3. CASE UNCHANGED topVars
  BY <1>3, Zenon DEF topVars, TopFlagsOK
<1>4. QED
  BY <1>1, <1>2, <1>3 DEF Next, HostConfigures, vars, topVars

\* Every register keeps its width and its documented range (main_fsm.sv:71-76),
\* whatever tile count the host asks for and whenever it resets the core.
THEOREM TypeCorrect == Spec => []TypeOK
<1>1. TypeOK /\ [Next]_vars => TypeOK'
  BY StepFsmType, StepTopCounters, StepTopFlags DEF TypeOK
<1>2. QED
  BY InitType, <1>1, PTL DEF Spec

-----------------------------------------------------------------------------
(* Lockstep. *)

LEMMA InitLockstep == Init => Lockstep
  BY DEF Init, FsmInit, TopInit, Lockstep, Running

LEMMA StepLockstep == TypeOK /\ Lockstep /\ [Next]_vars => Lockstep'
<1> SUFFICES ASSUME TypeOK, Lockstep, [Next]_vars PROVE Lockstep'
  OBVIOUS
<1> USE DEF Lockstep, Running
<1>1. ASSUME NEW start \in BOOLEAN, Tick(start) PROVE Lockstep'
  <2>1. TrackCycle(start, tile_ready)
    BY <1>1 DEF Tick, TopClock
  <2>2. CASE Idle(start)
    BY <2>1, <2>2 DEF Idle, TrackCycle, Launch, ClearCounters
  <2>3. CASE Run
    BY <2>1, <2>3 DEF Run, TrackCycle, CountCycle, LastCycle, TypeOK,
                      FsmTypeOK
  <2>4. CASE TileDone
    BY <2>1, <2>4 DEF TileDone, TrackCycle, TileHandshake, tile_ready,
                      ClearCounters
  <2>5. CASE AllDone(start)
    BY <2>1, <2>5 DEF AllDone, TrackCycle, Launch, ClearCounters
  <2>6. QED
    BY <1>1, <2>2, <2>3, <2>4, <2>5 DEF Tick, FsmClock
<1>2. CASE Reset
  BY <1>2 DEF Reset, FsmReset, TopReset
<1>3. CASE HostConfigures
  BY <1>3 DEF HostConfigures, HostSetsTiles, topVars
<1>4. CASE UNCHANGED vars
  BY <1>4 DEF vars
<1>5. QED
  BY <1>1, <1>2, <1>3, <1>4 DEF Next

\* The tracker of the top level is in the state and the cycle of the FSM on
\* every edge (flash_sfu_core_top.sv:137), for every set of tile counts.
THEOREM LockstepHolds == Spec => []Lockstep
<1>1. Init => TypeOK /\ Lockstep
  BY InitType, InitLockstep
<1>2. TypeOK /\ Lockstep /\ [Next]_vars => (TypeOK /\ Lockstep)'
  BY StepFsmType, StepTopCounters, StepTopFlags, StepLockstep DEF TypeOK
<1>3. QED
  BY <1>1, <1>2, PTL DEF Spec

-----------------------------------------------------------------------------
(* The strengthening: registers as functions of the row period and the phase. *)

\* A step is a clock edge of a running tile, or leaves both generators at rest
\* at the start of a tile or outside one, or touches neither.
datapath == <<state, global_cycle, phase_cnt, row_cnt, o_wr_row_reg, topVars>>

LEMMA StepKinds ==
    ASSUME TypeOK, Lockstep, [Next]_vars
    PROVE  \/ /\ Run /\ Running /\ ReadK /\ ReadV
              /\ qk_valid_in' = sfu_k_re /\ sv_v_valid' = sfu_v_re
           \/ /\ ~k_active' /\ ~v_active' /\ state' # "TILE_DONE"
              /\ Running' => global_cycle' = 0 /\ phase_cnt' = 0 /\ row_cnt' = 0
           \/ UNCHANGED datapath
<1>1. ASSUME NEW start \in BOOLEAN, Tick(start), state # "RUN"
      PROVE  /\ ~k_active' /\ ~v_active' /\ state' # "TILE_DONE"
             /\ Running' => global_cycle' = 0 /\ phase_cnt' = 0 /\ row_cnt' = 0
  <2>1. ~top_running \/ top_tile_done
    BY <1>1 DEF TypeOK, FsmTypeOK, Lockstep, Running
  <2>2. ~k_active' /\ ~v_active'
    BY <1>1, <2>1 DEF Tick, TopClock, ReadK, ReadV
  <2>3. /\ state' # "TILE_DONE"
        /\ Running' => global_cycle' = 0 /\ phase_cnt' = 0 /\ row_cnt' = 0
    BY <1>1 DEF Tick, FsmClock, Idle, Run, TileDone, AllDone, ClearCounters,
                Running
  <2>4. QED
    BY <2>2, <2>3
<1>2. ASSUME NEW start \in BOOLEAN, Tick(start), state = "RUN"
      PROVE  /\ Run /\ Running /\ ReadK /\ ReadV
             /\ qk_valid_in' = sfu_k_re /\ sv_v_valid' = sfu_v_re
  BY <1>2 DEF Tick, FsmClock, Idle, TileDone, AllDone, TopClock, Running
<1>3. CASE Reset
  BY <1>3 DEF Reset, FsmReset, TopReset, Running
<1>4. CASE HostConfigures \/ UNCHANGED vars
  BY <1>4 DEF HostConfigures, HostSetsTiles, datapath, vars, topVars
<1>5. QED
  BY <1>1, <1>2, <1>3, <1>4 DEF Next

LEMMA StepPhase ==
    TypeOK /\ Lockstep /\ PhaseTracksCycle /\ [Next]_vars => PhaseTracksCycle'
<1> SUFFICES ASSUME TypeOK, Lockstep, PhaseTracksCycle, [Next]_vars, Running'
             PROVE  (\E k \in 0..10 : InPeriod(k))'
  BY DEF PhaseTracksCycle
<1>1. CASE Run /\ Running
  <2>1. PICK k \in 0..10 : InPeriod(k)
    BY <1>1 DEF PhaseTracksCycle
  <2>2. global_cycle < 346 /\ global_cycle' = global_cycle + 1
    BY <1>1 DEF Run, Running, LastCycle, TypeOK, FsmTypeOK
  <2>3. CASE phase_cnt = 33
    <3>1. k + 1 \in 0..10 /\ InPeriod(k + 1)'
      BY <1>1, <2>1, <2>2, <2>3
         DEF Run, LastPhase, RowAfter, InPeriod, TypeOK, FsmTypeOK
    <3>2. QED
      BY <3>1
  <2>4. CASE phase_cnt # 33
    <3>1. InPeriod(k)'
      BY <1>1, <2>1, <2>2, <2>4
         DEF Run, LastPhase, InPeriod, TypeOK, FsmTypeOK
    <3>2. QED
      BY <3>1
  <2>5. QED
    BY <2>3, <2>4
<1>2. CASE Running' => global_cycle' = 0 /\ phase_cnt' = 0 /\ row_cnt' = 0
  <2>1. InPeriod(0)'
    BY <1>2 DEF InPeriod
  <2>2. QED
    BY <2>1
<1>3. CASE UNCHANGED datapath
  BY <1>3 DEF PhaseTracksCycle, InPeriod, datapath, Running
<1>4. QED
  BY <1>1, <1>2, <1>3, StepKinds

LEMMA StepSnapshot ==
    /\ TypeOK /\ Lockstep /\ PhaseTracksCycle /\ SnapshotTracksRow
    /\ [Next]_vars
    => SnapshotTracksRow'
<1> SUFFICES ASSUME TypeOK, Lockstep, PhaseTracksCycle, SnapshotTracksRow,
                    [Next]_vars, Running', global_cycle' > 100
             PROVE  SnapshotTracksRow'
  BY DEF SnapshotTracksRow
<1>1. CASE Run /\ Running
  <2>1. PICK k \in 0..10 : InPeriod(k)
    BY <1>1 DEF PhaseTracksCycle
  <2>2. global_cycle < 346 /\ global_cycle' = global_cycle + 1
    BY <1>1 DEF Run, Running, LastCycle, TypeOK, FsmTypeOK
  <2>3. CASE phase_cnt = 32
    BY <1>1, <2>1, <2>2, <2>3
       DEF Run, Running, LastPhase, InPeriod, SnapshotTracksRow, shadow_latch,
           Within, TypeOK, FsmTypeOK
  <2>4. CASE phase_cnt # 32
    <3>1. global_cycle > 100
      BY <2>1, <2>2, <2>4 DEF InPeriod, LastPhase, TypeOK, FsmTypeOK
    <3>2. o_wr_row_reg' = o_wr_row_reg
      BY <1>1, <2>4 DEF Run, shadow_latch
    <3>3. QED
      BY <1>1, <2>1, <2>2, <2>4, <3>1, <3>2
         DEF Run, Running, LastPhase, InPeriod, SnapshotTracksRow, RowAfter,
             RowBefore, TypeOK, FsmTypeOK
  <2>5. QED
    BY <2>3, <2>4
<1>2. CASE Running' => global_cycle' = 0
  BY <1>2
<1>3. CASE UNCHANGED datapath
  BY <1>3 DEF SnapshotTracksRow, Running, datapath
<1>4. QED
  BY <1>1, <1>2, <1>3, StepKinds

LEMMA StepKRead ==
    /\ TypeOK /\ Lockstep /\ PhaseTracksCycle /\ KReadTracksPhase
    /\ [Next]_vars
    => KReadTracksPhase'
<1> SUFFICES ASSUME TypeOK, Lockstep, PhaseTracksCycle, KReadTracksPhase,
                    [Next]_vars
             PROVE  KReadTracksPhase'
  OBVIOUS
<1>1. CASE Run /\ Running /\ ReadK /\ qk_valid_in' = sfu_k_re
  <2>1. PICK k \in 0..10 : InPeriod(k)
    BY <1>1 DEF PhaseTracksCycle
  <2>2. top_running /\ ~top_tile_done /\ top_global_cycle = global_cycle
    BY <1>1 DEF Lockstep, Running, TypeOK, FsmTypeOK
  <2>3. CASE global_cycle = 346
    <3>1. ~k_active /\ ~k_active'
      BY <1>1, <2>2, <2>3 DEF ReadK, KReadTracksPhase
    <3>2. ~sfu_k_re
      BY <3>1 DEF sfu_k_re
    <3>3. ~qk_valid_in'
      BY <1>1, <3>2, Zenon
    <3>4. ~Running'
      BY <1>1, <2>3 DEF Run, Running, LastCycle
    <3>5. QED
      BY <3>1, <3>3, <3>4 DEF KReadTracksPhase
  <2>4. CASE global_cycle < 346
    <3>1. /\ Running' /\ state' # "TILE_DONE"
          /\ global_cycle' = global_cycle + 1
          /\ phase_cnt' = IF phase_cnt = 33 THEN 0 ELSE phase_cnt + 1
      BY <1>1, <2>4 DEF Run, Running, LastCycle, LastPhase, TypeOK, FsmTypeOK
    <3> USE <1>1, <2>1, <2>2, <3>1 DEF ReadK, NextInRow, KReadTracksPhase,
            RowPhase, InPeriod, TypeOK, FsmTypeOK, LastPhase, LastCycle
    <3>2. CASE global_cycle = 0
      BY <3>2
    <3>3. CASE global_cycle \in 1..271
      BY <3>3
    <3>4. CASE global_cycle > 271
      BY <3>4
    <3>5. QED
      BY <3>2, <3>3, <3>4
  <2>5. QED
    BY <2>3, <2>4 DEF TypeOK, FsmTypeOK, LastCycle
<1>2. CASE /\ ~k_active' /\ state' # "TILE_DONE"
           /\ Running' => global_cycle' = 0
  BY <1>2 DEF KReadTracksPhase
<1>3. CASE UNCHANGED datapath
  BY <1>3 DEF KReadTracksPhase, RowPhase, Running, datapath, topVars
<1>4. QED
  BY <1>1, <1>2, <1>3, StepKinds

LEMMA StepVRead ==
    /\ TypeOK /\ Lockstep /\ PhaseTracksCycle /\ VReadTracksPhase
    /\ [Next]_vars
    => VReadTracksPhase'
<1> SUFFICES ASSUME TypeOK, Lockstep, PhaseTracksCycle, VReadTracksPhase,
                    [Next]_vars
             PROVE  VReadTracksPhase'
  OBVIOUS
<1>1. CASE Run /\ Running /\ ReadV /\ sv_v_valid' = sfu_v_re
  <2>1. PICK k \in 0..10 : InPeriod(k)
    BY <1>1 DEF PhaseTracksCycle
  <2>2. top_running /\ ~top_tile_done /\ top_global_cycle = global_cycle
    BY <1>1 DEF Lockstep, Running, TypeOK, FsmTypeOK
  <2>3. phase_cnt = 31 \/ global_cycle = 346 => ~sv_v_valid'
    <3>1. HAVE phase_cnt = 31 \/ global_cycle = 346
    <3>2. ~v_active \/ v_counter = 33
      BY <1>1, <3>1 DEF VReadTracksPhase, RowPhase
    <3>3. ~sfu_v_re
      BY <3>2 DEF sfu_v_re
    <3>4. QED
      BY <1>1, <3>3, Zenon
  <2>4. CASE global_cycle = 346
    <3>1. ~v_active'
      BY <1>1, <2>2, <2>4 DEF ReadV, VReadTracksPhase
    <3>2. ~Running'
      BY <1>1, <2>4 DEF Run, Running, LastCycle
    <3>3. QED
      BY <2>3, <2>4, <3>1, <3>2 DEF VReadTracksPhase
  <2>5. CASE global_cycle < 346
    <3>1. /\ Running' /\ state' # "TILE_DONE"
          /\ global_cycle' = global_cycle + 1
          /\ phase_cnt' = IF phase_cnt = 33 THEN 0 ELSE phase_cnt + 1
      BY <1>1, <2>5 DEF Run, Running, LastCycle, LastPhase, TypeOK, FsmTypeOK
    <3>2. phase_cnt' = 32 => ~sv_v_valid'
      BY <2>3, <3>1 DEF TypeOK, FsmTypeOK, LastPhase
    <3> USE <1>1, <2>1, <2>2, <3>1, <3>2 DEF ReadV, NextInRow,
            VReadTracksPhase, RowPhase, InPeriod, TypeOK, FsmTypeOK, LastPhase,
            LastCycle
    <3>3. CASE global_cycle < 66
      BY <3>3
    <3>4. CASE global_cycle \in 66..341
      BY <3>4
    <3>5. CASE global_cycle > 341
      BY <3>5
    <3>6. QED
      BY <3>3, <3>4, <3>5
  <2>6. QED
    BY <2>4, <2>5 DEF TypeOK, FsmTypeOK, LastCycle
<1>2. CASE /\ ~v_active' /\ state' # "TILE_DONE"
           /\ Running' => global_cycle' = 0 /\ phase_cnt' = 0
  BY <1>2 DEF VReadTracksPhase
<1>3. CASE UNCHANGED datapath
  BY <1>3 DEF VReadTracksPhase, RowPhase, Running, datapath, topVars
<1>4. QED
  BY <1>1, <1>2, <1>3, StepKinds

LEMMA InitSchedule == Init => ScheduleInv
  BY InitType, InitLockstep
     DEF Init, FsmInit, TopInit, Running, ScheduleInv, PhaseTracksCycle,
         SnapshotTracksRow, KReadTracksPhase, VReadTracksPhase

LEMMA StepSchedule == ScheduleInv /\ [Next]_vars => ScheduleInv'
<1>1. TypeOK /\ [Next]_vars => TypeOK'
  BY StepFsmType, StepTopCounters, StepTopFlags DEF TypeOK
<1>2. QED
  BY <1>1, StepLockstep, StepPhase, StepSnapshot, StepKRead, StepVRead
     DEF ScheduleInv

-----------------------------------------------------------------------------
(* The schedules follow from the strengthening. *)

LEMMA InvStateAccess == ScheduleInv => StateAccessOnSchedule
<1> SUFFICES ASSUME ScheduleInv, NEW r \in Rows
    PROVE  /\ (we_m /\ m_wr_addr = r) <=> At(34 * r + 42)
           /\ (we_l /\ lo_wr_addr = r) <=> At(34 * r + 99)
           /\ (shadow_latch /\ lo_wr_addr = r) <=> At(34 * r + 100)
           /\ (acc_init /\ rd_addr = r) <=> At(34 * r + 66)
           /\ \A c \in Chunks :
                  /\ (o_prev_ld_en /\ rd_addr = r /\ o_prev_chunk_sel = c)
                         <=> At(34 * r + 58 + c)
                  /\ (we_o /\ o_wr_row_reg = r /\ chunk_sel = c)
                         <=> At(34 * r + 101 + c)
  BY DEF StateAccessOnSchedule
<1>1. CASE ~Running
  BY <1>1 DEF we_m, we_l, shadow_latch, acc_init, o_prev_ld_en, we_o, Within, At
<1>2. CASE Running
  <2>1. PICK k \in 0..10 : InPeriod(k)
    BY <1>2 DEF ScheduleInv, PhaseTracksCycle
  <2> USE <1>2, <2>1 DEF ScheduleInv, TypeOK, FsmTypeOK, LastCycle, LastPhase,
                         InPeriod, Rows, Chunks, At, Within, RowBefore
  <2>2. (we_m /\ m_wr_addr = r) <=> At(34 * r + 42)
    BY DEF we_m, m_wr_addr
  <2>3. (we_l /\ lo_wr_addr = r) <=> At(34 * r + 99)
    BY DEF we_l, lo_wr_addr
  <2>4. (shadow_latch /\ lo_wr_addr = r) <=> At(34 * r + 100)
    BY DEF shadow_latch, lo_wr_addr
  <2>5. (acc_init /\ rd_addr = r) <=> At(34 * r + 66)
    BY DEF acc_init, rd_addr
  <2>6. ASSUME NEW c \in Chunks
        PROVE  (o_prev_ld_en /\ rd_addr = r /\ o_prev_chunk_sel = c)
                   <=> At(34 * r + 58 + c)
    BY DEF o_prev_ld_en, rd_addr, o_prev_chunk_sel
  <2>7. ASSUME NEW c \in Chunks
        PROVE  (we_o /\ o_wr_row_reg = r /\ chunk_sel = c)
                   <=> At(34 * r + 101 + c)
    BY DEF we_o, chunk_sel, SnapshotTracksRow
  <2>8. QED
    BY <2>2, <2>3, <2>4, <2>5, <2>6, <2>7
<1>3. QED
  BY <1>1, <1>2

LEMMA InvSramReads == ScheduleInv => SramReadsOnSchedule
<1> SUFFICES ASSUME ScheduleInv PROVE SramReadsOnSchedule
  OBVIOUS
<1> USE DEF ScheduleInv, TypeOK, FsmTypeOK, LastCycle, LastPhase, InPeriod, Rows,
            Keys, At
<1>1. ASSUME NEW r \in Rows PROVE (q_update /\ row_cnt = r) <=> At(34 * r)
  <2>1. CASE Running
    BY <2>1 DEF q_update, Within, PhaseTracksCycle
  <2>2. QED
    BY <2>1 DEF q_update, Within
<1>2. ASSUME NEW j \in Keys
      PROVE  (sfu_k_re /\ sfu_k_addr = j) <=> \E r \in Rows : At(34 * r + 1 + j)
  <2>1. CASE Running /\ global_cycle \in 1..272
    <3>1. PICK k \in 0..10 : InPeriod(k)
      BY <2>1 DEF PhaseTracksCycle
    <3>2. k_active /\ k_counter = RowPhase(phase_cnt, 1)
      BY <2>1 DEF KReadTracksPhase
    <3>3. ASSUME sfu_k_re, sfu_k_addr = j
          PROVE  \E r \in Rows : At(34 * r + 1 + j)
      <4>1. k \in Rows /\ At(34 * k + 1 + j)
        BY <2>1, <3>1, <3>2, <3>3 DEF sfu_k_re, sfu_k_addr, RowPhase
      <4>2. QED
        BY <4>1
    <3>4. ASSUME NEW r \in Rows, At(34 * r + 1 + j)
          PROVE  sfu_k_re /\ sfu_k_addr = j
      BY <2>1, <3>1, <3>2, <3>4 DEF sfu_k_re, sfu_k_addr, RowPhase
    <3>5. QED
      BY <3>3, <3>4
  <2>2. CASE ~(Running /\ global_cycle \in 1..272)
    BY <2>2 DEF KReadTracksPhase, sfu_k_re
  <2>3. QED
    BY <2>1, <2>2
<1>3. ASSUME NEW j \in Keys, NEW r \in Rows, At(34 * r + 66 + j)
      PROVE  sfu_v_re /\ sfu_v_addr = j
  <2>1. PICK k \in 0..10 : InPeriod(k)
    BY <1>3 DEF PhaseTracksCycle
  <2>2. v_active /\ v_counter = RowPhase(phase_cnt, 32)
    BY <1>3 DEF VReadTracksPhase
  <2>3. QED
    BY <1>3, <2>1, <2>2 DEF sfu_v_re, sfu_v_addr, RowPhase
<1>4. ~(sv_v_valid /\ acc_init)
  BY DEF acc_init, Within, VReadTracksPhase
<1>5. QED
  BY <1>1, <1>2, <1>3, <1>4 DEF SramReadsOnSchedule

LEMMA InvBankSwitch ==
    ScheduleInv /\ [Next]_vars =>
        (bank_sel' # bank_sel =>
             \/ state' = "IDLE"
             \/ ~sfu_k_re /\ ~sfu_v_re /\ ~qk_valid_in /\ ~sv_v_valid)
<1> SUFFICES ASSUME ScheduleInv, [Next]_vars, bank_sel' # bank_sel
             PROVE  \/ state' = "IDLE"
                    \/ ~sfu_k_re /\ ~sfu_v_re /\ ~qk_valid_in /\ ~sv_v_valid
  OBVIOUS
<1>1. ASSUME NEW start \in BOOLEAN, Tick(start)
      PROVE  ~sfu_k_re /\ ~sfu_v_re /\ ~qk_valid_in /\ ~sv_v_valid
  <2>1. state = "TILE_DONE"
    BY <1>1 DEF Tick, FsmClock, Idle, Run, TileDone, AllDone
  <2>2. QED
    BY <2>1 DEF ScheduleInv, KReadTracksPhase, VReadTracksPhase, sfu_k_re,
                sfu_v_re, Running
<1>2. CASE Reset
  BY <1>2 DEF Reset, FsmReset
<1>3. CASE HostConfigures \/ UNCHANGED vars
  BY <1>3 DEF HostConfigures, HostSetsTiles, vars
<1>4. QED
  BY <1>1, <1>2, <1>3 DEF Next

-----------------------------------------------------------------------------
(* The theorems of the specification. *)

LEMMA ScheduleInvariant == Spec => []ScheduleInv
  BY InitSchedule, StepSchedule, PTL DEF Spec

\* M, L and the eight chunks of O of every row are loaded and written back in
\* the row's own cycles and under its own address, in every tile of every
\* launch: the O drain that crosses the wrap of phase_cnt (main_fsm.sv:259-264)
\* included.
THEOREM StateAccessCorrect == Spec => []StateAccessOnSchedule
  BY ScheduleInvariant, InvStateAccess, PTL

\* Every row reads its 32 keys and its 32 values at their cycles, and no V datum
\* meets the initialisation of the next row's accumulator
\* (flash_sfu_core_top.sv:187-254, 497-519).
THEOREM SramReadsCorrect == Spec => []SramReadsOnSchedule
  BY ScheduleInvariant, InvSramReads, PTL

\* bank_sel is static while the core reads or consumes a tile
\* (pingpong_sram.sv:143).
THEOREM BankSwitchCorrect == Spec => BankSwitchedIdle
<1>1. ScheduleInv /\ [Next]_vars =>
          [bank_sel' # bank_sel =>
              \/ state' = "IDLE"
              \/ ~sfu_k_re /\ ~sfu_v_re /\ ~qk_valid_in /\ ~sv_v_valid]_vars
  BY InvBankSwitch
<1>2. QED
  BY ScheduleInvariant, <1>1, PTL DEF Spec, BankSwitchedIdle

-----------------------------------------------------------------------------
(* The cycle of the schedule, and the strobes as windows of it. *)

\* The cycle of the tile, 0 between tiles and at rest.
now == IF Running THEN global_cycle ELSE 0

\* The eight rows start 34 cycles apart.  Cycle t, counted from the first start a stage
\* sees, belongs to row RowAt(t) and to its key KeyAt(t); after the last key a row
\* leaves a gap of two.
Busy(t)  == t \in 0..271 /\ t % 34 < 32
Start(t) == t \in 0..238 /\ t % 34 = 0
RowAt(t) == t \div 34
KeyAt(t) == t % 34

\* The data of cycle t of a stage.
ScoreAt(t) == [tile |-> tile_cnt, row |-> RowAt(t), key |-> KeyAt(t)]
ValueAt(t) == [tile |-> tile_cnt, key |-> KeyAt(t)]
YAt(t)     == [score |-> ScoreAt(t), m |-> RowAt(t)]
XOf(r)     == [row |-> r, m |-> r]
Term(t)    == <<YAt(t), ValueAt(t)>>

YsUpTo(r, n)    == [i \in 1..n |-> YAt(34 * r + (i - 1))]
TermsUpTo(r, n) == [i \in 1..n |-> Term(34 * r + (i - 1))]

\* The tiles folded into every row before this one; the last chunk written shows them.
Stored     == O_reg[7][7].folds
OPrevOf(r) == [c \in Chunks |-> [row |-> r, folds |-> Stored]]

\* Whether what is written in cycle g of the tile has been.
Done(g) == IF now > g THEN 1 ELSE 0

AtMost(n, bound) == IF n < bound THEN n ELSE bound

\* The number of scores due before cycle t of a stage, and the n-th of them.
Before(t) ==
    IF t <= 0 THEN 0
    ELSE IF t >= 272 THEN 256
    ELSE 32 * (t \div 34) + AtMost(t % 34, 32)
ScoreNo(n) == [tile |-> tile_cnt, row |-> n \div 32, key |-> n % 32]

Max == [prev : RowState, seen : SUBSET (Score \cup {Bubble})]

-----------------------------------------------------------------------------
(* The inductive invariant of the core, block by block.  The delay of a block  *)
(* from the start of a row is the constant taken from now.                     *)

\* Q broadcast and K reads: the row latched and the key read are one cycle old.
QInv ==
    /\ now - 1 \in 0..271 => q_out_reg = RowAt(now - 1)
    /\ qk_valid_in <=> Busy(now - 2)
    /\ Busy(now - 2) => k_rdata = ValueAt(now - 2)

\* QK multiplier: stage i holds the score of the pair that entered i cycles ago.
QkInv ==
    /\ qk_pipe \in [1..8 -> Score \cup {Bubble}]
    /\ \A i \in 1..8 : qk_pipe[i] = IF Busy(now - 2 - i) THEN ScoreAt(now - 2 - i) ELSE Bubble
    /\ s_valid \in BOOLEAN
    /\ s_valid <=> Busy(now - 11)
    /\ s_out \in Score \cup {Bubble}
    /\ Busy(now - 11) => s_out = ScoreAt(now - 11)

\* FIFO: it holds the scores due on its input and not yet due on its output, in order.
FifoPos ==
    /\ cnt = Before(now - 11) - Before(now - 45)
    /\ \A i \in 1..cnt : mem[Fifo!Slot(i)] = ScoreNo(Before(now - 45) + i - 1)
    /\ rd_ptr \in 0..33
    /\ wr_ptr = Fifo!Slot(cnt+1)
    /\ mem \in [0..33 -> Score \cup {Bubble}]

\* State registers: those whose cycle has passed hold one fold more than the others.
StateInv ==
    /\ M_reg \in [Rows -> RowState]
    /\ O_reg \in [Rows -> [Chunks -> RowState]]
    /\ \A r \in Rows : M_reg[r] = [row |-> r, folds |-> Stored + Done(34 * r + 42)]
    /\ \A r \in Rows, c \in Chunks :
           O_reg[r][c] = [row |-> r, folds |-> Stored + Done(34 * r + 101 + c)]

\* Running maximum: it starts from M of the next row to write, but for the cycle of
\* the delayed restart.
MaxInv ==
    /\ we_m_d1 <=> Start(now - 43)
    /\ running_max \in Max
    /\ ~Start(now - 43) =>
           running_max.prev = M_reg[IF now \in 43..281 THEN RowAt(now - 43) + 1 ELSE 0]
    /\ m_y_reg \in Max
    /\ now - 43 \in 0..271 => m_y_reg.prev.row = RowAt(now - 43)

\* X: one datum a row, held after it has emerged.
XInv ==
    /\ expx_pipe \in [1..21 -> XTerm \cup {Bubble}]
    /\ \A i \in 1..21 : expx_pipe[i] = IF Start(now - 42 - i) THEN XOf(RowAt(now - 42 - i)) ELSE Bubble
    /\ x_out_valid <=> Start(now - 64)
    /\ now - 64 \in 0..271 => x_out = XOf(RowAt(now - 64))
    /\ val_A_reg = [x |-> val_A_reg.x, prev |-> val_A_reg.prev]
    /\ now - 65 \in 0..271 => val_A_reg.x = XOf(RowAt(now - 65))

\* Y: the exponential of the score that left the FIFO i cycles ago.
YInv ==
    /\ expy_pipe \in [1..21 -> YTerm \cup {Bubble}]
    /\ \A i \in 1..21 : expy_pipe[i] = IF Busy(now - 45 - i) THEN YAt(now - 45 - i) ELSE Bubble
    /\ y_out_valid <=> Busy(now - 67)
    /\ Busy(now - 67) => y_out = YAt(now - 67)

\* L: the exponentials of the row that have emerged.
LInv ==
    /\ acc_init_delay <=> Start(now - 67)
    /\ now - 68 \in 0..271 =>
           LET t == now - 68 IN
           l_acc_reg = [from |-> [x |-> XOf(RowAt(t)), prev |-> l_acc_reg.from.prev],
                        ys   |-> YsUpTo(RowAt(t), AtMost(KeyAt(t) + 1, 32))]

\* SV multiplier, stage 1.  V is read on after the last row: v_active ends at 342.
VInv ==
    /\ now <= 338 => (sv_v_valid <=> Busy(now - 67))
    /\ Busy(now - 67) => v_rdata = ValueAt(now - 67)
    /\ now - 67 \in 0..271 =>
           LET t == now - 67 IN
           mult_reg = IF KeyAt(t) = 0 THEN [init |-> TRUE, x |-> XOf(RowAt(t)), o |-> OPrevOf(RowAt(t))]
                      ELSE IF KeyAt(t) = 33 THEN Bubble
                      ELSE [init |-> FALSE, y |-> YAt(t - 1), v |-> ValueAt(t - 1)]

\* O: the chunks assembled, the products added, and the row that is drained.
OInv ==
    /\ o_prev_assembly_reg \in [Chunks -> RowState \cup {Bubble}]
    /\ now - 58 \in 0..271 =>
           \A c \in Chunks : c < KeyAt(now - 58) =>
              o_prev_assembly_reg[c] = [row |-> RowAt(now - 58), folds |-> Stored]
    /\ now - 68 \in 0..271 =>
           LET t == now - 68 IN
           o_acc = [x |-> XOf(RowAt(t)), o |-> OPrevOf(RowAt(t)),
                    terms |-> TermsUpTo(RowAt(t), AtMost(KeyAt(t), 32))]
    /\ now - 101 \in 0..271 => shadow_reg.o = OPrevOf(RowAt(now - 101))

CoreInv ==
    /\ ScheduleInv
    /\ QInv /\ QkInv /\ FifoPos
    /\ MaxInv /\ XInv
    /\ YInv /\ LInv
    /\ VInv /\ OInv
    /\ StateInv

-----------------------------------------------------------------------------

\* The cycle of the schedule and its position in the row periods.
LEMMA NowInPeriod ==
    ASSUME ScheduleInv
    PROVE  /\ now \in 0..346
           /\ ~Running => now = 0
           /\ Running => \E k \in 0..10 : InPeriod(k) /\ now = 34 * k + phase_cnt
           /\ phase_cnt \in 0..33
  BY DEF ScheduleInv, TypeOK, FsmTypeOK, PhaseTracksCycle, InPeriod, now, LastCycle, LastPhase

\* The strobes of the control FSM, as cycles of the schedule.
LEMMA StrobesQK ==
    ASSUME ScheduleInv
    PROVE  /\ q_update <=> Running /\ Start(now)
           /\ q_update => row_cnt = RowAt(now)
           /\ sfu_k_re <=> Busy(now - 1)
           /\ Busy(now - 1) => sfu_k_addr = KeyAt(now - 1)
<1>1. CASE ~Running
  <2>1. now = 0 /\ ~k_active
    BY <1>1, NowInPeriod DEF ScheduleInv, KReadTracksPhase
  <2>2. ~sfu_k_re /\ ~q_update
    BY <1>1, <2>1 DEF sfu_k_re, q_update, Within
  <2>3. ~Busy(now - 1)
    BY <2>1 DEF Busy
  <2>4. QED
    BY <1>1, <2>2, <2>3
<1>2. CASE Running
  <2>1. PICK k \in 0..10 : InPeriod(k) /\ now = 34 * k + phase_cnt
    BY <1>2, NowInPeriod
  <2>2. q_update <=> Start(now)
    <3>1. now % 34 = phase_cnt /\ global_cycle = now
      BY <2>1, NowInPeriod DEF InPeriod
    <3>2. now \in 0..346
      BY NowInPeriod
    <3>3. QED
      BY <1>2, <3>1, <3>2 DEF q_update, Within, Start
  <2> USE <1>2, <2>1, NowInPeriod
  <2>3. q_update => row_cnt = RowAt(now)
    BY DEF q_update, Within, InPeriod, RowAt
  <2>4. CASE now \in 1..272
    <3>1. k_active /\ k_counter = RowPhase(phase_cnt, 1)
      BY <2>4 DEF ScheduleInv, KReadTracksPhase, InPeriod
    <3>2. sfu_k_re <=> Busy(now - 1)
      BY <2>4, <3>1 DEF sfu_k_re, RowPhase, Busy
    <3>3. Busy(now - 1) => sfu_k_addr = KeyAt(now - 1)
      BY <2>4, <3>1 DEF sfu_k_addr, RowPhase, Busy, KeyAt
    <3>4. QED
      BY <2>2, <2>3, <3>2, <3>3
  <2>5. CASE now \notin 1..272
    <3>1. ~sfu_k_re
      BY <2>5 DEF ScheduleInv, KReadTracksPhase, sfu_k_re, InPeriod
    <3>2. ~Busy(now - 1)
      BY <2>5 DEF Busy
    <3>3. QED
      BY <2>2, <2>3, <3>1, <3>2
  <2>6. QED
    BY <2>4, <2>5
<1>3. QED
  BY <1>1, <1>2

\* M: the write of a row, and the M register that seeds the maximum of the next.
LEMMA StrobesM ==
    ASSUME ScheduleInv
    PROVE  /\ we_m <=> Start(now - 42)
           /\ Start(now - 42) => m_wr_addr = RowAt(now - 42) /\ m_rd_addr = RowAt(now - 42)
           /\ Start(now - 43) => m_rd_addr = RowAfter(RowAt(now - 43))
<1>1. CASE ~Running
  BY <1>1, NowInPeriod DEF we_m, Within, Start
<1>2. CASE Running
  <2>1. PICK k \in 0..10 : InPeriod(k) /\ now = 34 * k + phase_cnt
    BY <1>2, NowInPeriod
  <2> USE <1>2, <2>1, NowInPeriod DEF Within, InPeriod
  <2>2. we_m <=> Start(now - 42)
    BY DEF we_m, Start
  <2>3. Start(now - 42) => m_wr_addr = RowAt(now - 42)
    BY DEF Start, m_wr_addr, RowBefore, RowAt
  <2>4. Start(now - 42) => m_rd_addr = RowAt(now - 42)
    BY <2>2, <2>3 DEF m_wr_addr, m_rd_addr
  <2>5. Start(now - 43) => ~we_m /\ row_cnt = RowAfter(RowAt(now - 43))
    BY DEF we_m, Start, RowAt, RowAfter
  <2>6. QED
    BY <2>2, <2>3, <2>4, <2>5 DEF m_rd_addr
<1>3. QED
  BY <1>1, <1>2

\* FIFO reads, the start of an accumulation, and the write of L.
LEMMA StrobesExp ==
    ASSUME ScheduleInv
    PROVE  /\ \A e \in BOOLEAN : fifo_rd_en(e) <=> Busy(now - 45) /\ ~e
           /\ acc_init <=> Start(now - 66)
           /\ we_l <=> Start(now - 99)
           /\ Start(now - 99) => lo_wr_addr = RowAt(now - 99)
<1>1. CASE ~Running
  BY <1>1, NowInPeriod DEF fifo_rd_en, acc_init, we_l, Within, Start, Busy
<1>2. CASE Running
  <2>1. PICK k \in 0..10 : InPeriod(k) /\ now = 34 * k + phase_cnt
    BY <1>2, NowInPeriod
  <2> USE <1>2, <2>1, NowInPeriod DEF Within, InPeriod
  <2>2. ASSUME NEW e \in BOOLEAN PROVE fifo_rd_en(e) <=> Busy(now - 45) /\ ~e
    BY DEF fifo_rd_en, Busy
  <2>3. acc_init <=> Start(now - 66)
    BY DEF acc_init, Start
  <2>4. we_l <=> Start(now - 99)
    BY DEF we_l, Start
  <2>5. Start(now - 99) => lo_wr_addr = RowAt(now - 99)
    BY DEF Start, lo_wr_addr, RowBefore, RowAt
  <2>6. QED
    BY <2>2, <2>3, <2>4, <2>5
<1>3. QED
  BY <1>1, <1>2

\* O: the chunks of a row loaded, the row latched and its chunks written.
LEMMA StrobesO ==
    ASSUME ScheduleInv
    PROVE  /\ o_prev_ld_en <=> now - 58 \in 0..246 /\ KeyAt(now - 58) \in Chunks
           /\ o_prev_ld_en => /\ rd_addr = RowAt(now - 58)
                              /\ o_prev_chunk_sel = KeyAt(now - 58)
           /\ shadow_latch <=> Start(now - 100)
           /\ Start(now - 100) => lo_wr_addr = RowAt(now - 100)
           /\ we_o <=> now - 101 \in 0..245 /\ KeyAt(now - 101) \in Chunks
           /\ we_o => /\ o_wr_row_reg = RowAt(now - 101)
                      /\ chunk_sel = KeyAt(now - 101)
<1>1. CASE ~Running
  BY <1>1, NowInPeriod DEF o_prev_ld_en, shadow_latch, we_o, Within, Start
<1>2. CASE Running
  <2>1. PICK k \in 0..10 : InPeriod(k) /\ now = 34 * k + phase_cnt
    BY <1>2, NowInPeriod
  <2> USE <1>2, <2>1, NowInPeriod DEF Within, InPeriod, Chunks, KeyAt, RowAt, RowBefore
  <2>2. o_prev_ld_en <=> now - 58 \in 0..246 /\ KeyAt(now - 58) \in Chunks
    BY DEF o_prev_ld_en
  <2>3. o_prev_ld_en => rd_addr = RowAt(now - 58) /\ o_prev_chunk_sel = KeyAt(now - 58)
    BY DEF o_prev_ld_en, rd_addr, o_prev_chunk_sel
  <2>4. shadow_latch <=> Start(now - 100)
    <3>1. CASE phase_cnt = 32
      BY <3>1 DEF shadow_latch, Start
    <3>2. CASE phase_cnt # 32
      BY <3>2 DEF shadow_latch, Start
    <3>3. QED
      BY <3>1, <3>2
  <2>5. Start(now - 100) => lo_wr_addr = RowAt(now - 100)
    <3>1. HAVE Start(now - 100)
    <3>2. phase_cnt = 32 /\ k \in 2..9
      BY <3>1 DEF Start
    <3>3. QED
      BY <3>2 DEF lo_wr_addr
  <2>6. we_o <=> now - 101 \in 0..245 /\ KeyAt(now - 101) \in Chunks
    BY DEF we_o
  <2>7. we_o => o_wr_row_reg = RowAt(now - 101) /\ chunk_sel = KeyAt(now - 101)
    BY DEF we_o, chunk_sel, ScheduleInv, SnapshotTracksRow
  <2>8. QED
    BY <2>2, <2>3, <2>4, <2>5, <2>6, <2>7
<1>3. QED
  BY <1>1, <1>2

\* V reads, as far as the last row needs them.
LEMMA StrobesV ==
    ASSUME ScheduleInv, now <= 337
    PROVE  /\ sfu_v_re <=> Busy(now - 66)
           /\ Busy(now - 66) => sfu_v_addr = KeyAt(now - 66)
<1>1. CASE Running /\ now >= 66
  <2>1. PICK k \in 0..10 : InPeriod(k) /\ now = 34 * k + phase_cnt
    BY <1>1, NowInPeriod
  <2>2. v_active /\ v_counter = RowPhase(phase_cnt, 32)
    BY <1>1, <2>1, NowInPeriod DEF ScheduleInv, VReadTracksPhase, InPeriod
  <2>3. sfu_v_re <=> Busy(now - 66)
    BY <1>1, <2>1, <2>2, NowInPeriod DEF sfu_v_re, RowPhase, Busy
  <2>4. Busy(now - 66) => sfu_v_addr = KeyAt(now - 66)
    BY <1>1, <2>1, <2>2, NowInPeriod DEF sfu_v_addr, RowPhase, Busy, KeyAt
  <2>5. QED
    BY <2>3, <2>4
<1>2. CASE ~(Running /\ now >= 66)
  <2>1. ~sfu_v_re
    BY <1>2, NowInPeriod DEF ScheduleInv, VReadTracksPhase, sfu_v_re, InPeriod
  <2>2. ~Busy(now - 66)
    BY <1>2, NowInPeriod DEF Busy
  <2>3. QED
    BY <2>1, <2>2
<1>3. QED
  BY <1>1, <1>2

-----------------------------------------------------------------------------
\* A step is a cycle of a running tile, a clock edge between tiles or at rest,
\* or leaves the core alone.
DataStep ==
    /\ BroadcastQ /\ ReadSram /\ MultiplyQK /\ BufferScores /\ FindMax /\ ExpX
    /\ ExpY /\ SnapshotL /\ AccumulateL /\ AssembleOPrev /\ MultiplySV /\ WriteState
    /\ qk_valid_in' = sfu_k_re
    /\ sv_v_valid' = sfu_v_re

Cycle == DataStep /\ Running /\ now < 346 /\ now' = now + 1 /\ tile_cnt' = tile_cnt
Rest  == DataStep /\ now' = 0 /\ ((now = 0 /\ ~Running) \/ now = 346)
Idles == UNCHANGED <<now, tile_cnt, qk_valid_in, sv_v_valid, fifoRegs, dataRegs>>

LEMMA CoreStepKinds ==
    ASSUME ScheduleInv, [CoreNext]_coreVars
    PROVE  Cycle \/ Rest \/ Idles
<1>1. ASSUME NEW start \in BOOLEAN, CoreTick(start)
      PROVE  Cycle \/ Rest
  <2>1. DataStep
    BY <1>1 DEF CoreTick, DataStep, Tick, TopClock
  <2>2. CASE Run
    <3>1. Running /\ now = global_cycle /\ now \in 0..346 /\ tile_cnt' = tile_cnt
      BY <2>2, NowInPeriod DEF Run, Running, now
    <3>2. now < 346 => now' = now + 1
      BY <2>2, <3>1 DEF Run, Running, now, LastCycle
    <3>3. now = 346 => now' = 0
      BY <2>2, <3>1 DEF Run, Running, now, LastCycle
    <3>4. QED
      BY <2>1, <3>1, <3>2, <3>3 DEF Cycle, Rest
  <2>3. CASE Idle(start) \/ TileDone \/ AllDone(start)
    <3>1. now = 0 /\ ~Running
      BY <2>3 DEF Idle, TileDone, AllDone, Running, now
    <3>2. now' = 0
      BY <2>3 DEF Idle, TileDone, AllDone, Running, now, ClearCounters
    <3>3. QED
      BY <2>1, <3>1, <3>2 DEF Rest
  <2>4. QED
    BY <1>1, <2>2, <2>3 DEF CoreTick, Tick, FsmClock
<1>2. CASE CoreHostConfigures
  BY <1>2 DEF CoreHostConfigures, HostConfigures, HostSetsTiles, topVars, Idles, now,
              Running
<1>3. CASE UNCHANGED coreVars
  BY <1>3 DEF coreVars, vars, Idles, now, Running
<1>4. QED
  BY <1>1, <1>2, <1>3 DEF CoreNext

\* One lemma per block: a step keeps what the block holds.
LEMMA StepQ ==
    ASSUME ScheduleInv, QInv, [CoreNext]_coreVars
    PROVE  QInv'
<1>1. CASE Cycle
  <2>1. now \in 0..345 /\ now' = now + 1 /\ tile_cnt' = tile_cnt /\ Running
    BY <1>1, NowInPeriod DEF Cycle
  <2>2. now' - 1 \in 0..271 => q_out_reg' = RowAt(now' - 1)
    <3>1. CASE Start(now)
      BY <1>1, <2>1, <3>1, StrobesQK DEF Cycle, DataStep, BroadcastQ
    <3>2. CASE ~Start(now)
      <4>1. HAVE now' - 1 \in 0..271
      <4>2. q_out_reg' = q_out_reg
        BY <1>1, <3>2, StrobesQK DEF Cycle, DataStep, BroadcastQ
      <4>3. now - 1 \in 0..271 /\ RowAt(now) = RowAt(now - 1)
        BY <2>1, <3>2, <4>1 DEF Start, RowAt
      <4>4. QED
        BY <2>1, <4>2, <4>3 DEF QInv
    <3>3. QED
      BY <3>1, <3>2
  <2>3. qk_valid_in' <=> Busy(now - 1)
    BY <1>1, StrobesQK DEF Cycle, DataStep
  <2>4. Busy(now - 1) => k_rdata' = [tile |-> tile_cnt', key |-> KeyAt(now - 1)]
    BY <1>1, StrobesQK DEF Cycle, DataStep, ReadSram
  <2>5. now' - 2 = now - 1
    BY <2>1
  <2>6. QED
    BY <2>2, <2>3, <2>4, <2>5 DEF QInv, ValueAt
<1>2. CASE Rest
  <2>1. now' = 0 /\ now \in {0, 346}
    BY <1>2 DEF Rest
  <2>2. ~Busy(now - 1) /\ ~Busy(now' - 2) /\ now' - 1 \notin 0..271
    BY <2>1 DEF Busy
  <2>3. ~qk_valid_in'
    BY <1>2, <2>2, StrobesQK DEF Rest, DataStep
  <2>4. QED
    BY <2>2, <2>3 DEF QInv
<1>3. CASE Idles
  BY <1>3 DEF QInv, Idles, dataRegs, ValueAt
<1>4. QED
  BY <1>1, <1>2, <1>3, CoreStepKinds

\* A pipeline takes the datum in front and drops its last stage.
LEMMA AdvancePipe ==
    ASSUME NEW n \in Nat \ {0}, NEW S, NEW pipe \in [1..n -> S], NEW datum \in S
    PROVE  /\ Advance(pipe, datum) \in [1..n -> S]
           /\ \A i \in 1..n : Advance(pipe, datum)[i] = IF i = 1 THEN datum ELSE pipe[i - 1]
           /\ Emerging(pipe) = pipe[n]
<1>1. pipe \in Seq(S) /\ Len(pipe) = n
  BY SeqDef
<1>2. /\ SubSeq(pipe, 1, n - 1) \in Seq(S)
      /\ Len(SubSeq(pipe, 1, n - 1)) = n - 1
      /\ \A i \in 1..n - 1 : SubSeq(pipe, 1, n - 1)[i] = pipe[i]
  BY <1>1, SubSeqProperties
<1>3. <<datum>> \in Seq(S) /\ Len(<<datum>>) = 1 /\ <<datum>>[1] = datum
  OBVIOUS
<1> DEFINE next == <<datum>> \o SubSeq(pipe, 1, n - 1)
<1>4. /\ next \in Seq(S)
      /\ Len(next) = n
      /\ \A i \in 1..n : next[i] = IF i = 1 THEN datum ELSE pipe[i - 1]
  BY <1>2, <1>3, ConcatProperties
<1>5. next \in [1..n -> S]
  BY <1>4, LenProperties
<1>6. QED
  BY <1>1, <1>4, <1>5 DEF Advance, Emerging

\* A datum is of its type, so it is not a bubble.
LEMMA ScoreType ==
    ASSUME ScheduleInv, NEW t \in Int, Busy(t)
    PROVE  /\ ScoreAt(t) \in Score /\ ScoreAt(t) # Bubble
           /\ YAt(t) \in YTerm /\ YAt(t) # Bubble
<1>1. tile_cnt \in 0..255 /\ RowAt(t) \in Rows /\ KeyAt(t) \in Keys
  BY DEF ScheduleInv, TypeOK, FsmTypeOK, Busy, RowAt, KeyAt, Rows, Keys
<1>2. ScoreAt(t) \in Score
  BY <1>1 DEF ScoreAt, Score
<1>3. YAt(t) \in YTerm
  BY <1>1, <1>2 DEF YAt, YTerm
<1>4. QED
  BY <1>2, <1>3, BubbleAssumption

\* A pipeline of n stages that is fed with F[t] in cycle t holds F[t - i] in stage i.
Carries(pipe, n, S, F, t) ==
    pipe \in [1..n -> S] /\ \A i \in 1..n : pipe[i] = F[t - i]

\* A pipeline that carries a stream goes on carrying it, and what leaves it is n cycles old.
LEMMA PipeStep ==
    ASSUME NEW n \in Nat \ {0}, NEW S, NEW F \in [Int -> S], NEW t \in Int,
           NEW pipe, Carries(pipe, n, S, F, t)
    PROVE  Carries(Advance(pipe, F[t]), n, S, F, t + 1) /\ Emerging(pipe) = F[t - n]
<1>1. F[t] \in S /\ pipe \in [1..n -> S] /\ \A i \in 1..n : pipe[i] = F[t - i]
  BY DEF Carries
<1>2. /\ Advance(pipe, F[t]) \in [1..n -> S]
      /\ \A i \in 1..n : Advance(pipe, F[t])[i] = IF i = 1 THEN F[t] ELSE pipe[i - 1]
      /\ Emerging(pipe) = pipe[n]
  BY <1>1, AdvancePipe, Zenon
<1>3. ASSUME NEW i \in 1..n PROVE Advance(pipe, F[t])[i] = F[t + 1 - i]
  <2>1. CASE i = 1
    BY <1>2, <2>1
  <2>2. CASE i # 1
    <3>1. i - 1 \in 1..n /\ t - (i - 1) = t + 1 - i
      BY <2>2
    <3>2. QED
      BY <1>1, <1>2, <2>2, <3>1
  <2>3. QED
    BY <2>1, <2>2
<1>4. QED
  BY <1>1, <1>2, <1>3 DEF Carries

LEMMA StepQk ==
    ASSUME ScheduleInv, QInv, QkInv, [CoreNext]_coreVars
    PROVE  QkInv'
<1> DEFINE S == Score \cup {Bubble}
           datum == IF qk_valid_in
                    THEN [tile |-> k_rdata.tile, row |-> q_out_reg, key |-> k_rdata.key]
                    ELSE Bubble
           F == [t \in Int |-> IF Busy(t) THEN ScoreAt(t) ELSE Bubble]
<1>1. now \in 0..346
  BY NowInPeriod
<1>2. F \in [Int -> S] /\ \A t \in Int : F[t] = IF Busy(t) THEN ScoreAt(t) ELSE Bubble
  BY ScoreType
<1>3. datum = F[now - 2]
  <2>1. CASE Busy(now - 2)
    <3>1. now - 1 \in 0..271 /\ RowAt(now - 1) = RowAt(now - 2)
      BY <1>1, <2>1 DEF Busy, RowAt
    <3>2. QED
      BY <1>1, <2>1, <3>1 DEF QInv, ValueAt, ScoreAt
  <2>2. CASE ~Busy(now - 2)
    BY <1>1, <2>2 DEF QInv
  <2>3. QED
    BY <2>1, <2>2
<1>4. qk_pipe \in [1..8 -> S] /\ \A i \in 1..8 : qk_pipe[i] = F[now - 2 - i]
  BY <1>1 DEF QkInv
<1>5. ASSUME DataStep
      PROVE  /\ qk_pipe' = Advance(qk_pipe, datum)
             /\ s_valid' = (Emerging(qk_pipe) # Bubble)
             /\ s_out' = IF Emerging(qk_pipe) # Bubble THEN Emerging(qk_pipe) ELSE s_out
  BY <1>5, Zenon DEF DataStep, MultiplyQK
<1>6. \A t \in Int : F[t] # Bubble <=> Busy(t)
  BY <1>2, ScoreType
<1> HIDE DEF datum, S, F
<1>7. /\ Advance(qk_pipe, datum) \in [1..8 -> S]
      /\ \A i \in 1..8 : Advance(qk_pipe, datum)[i] = F[now - 1 - i]
      /\ Emerging(qk_pipe) = F[now - 2 - 8]
  <2>1. 8 \in Nat \ {0} /\ now - 2 \in Int /\ now - 2 + 1 = now - 1
    BY <1>1
  <2>2. Carries(qk_pipe, 8, S, F, now - 2)
    BY <1>4 DEF Carries
  <2>3. /\ Carries(Advance(qk_pipe, F[now - 2]), 8, S, F, now - 1)
        /\ Emerging(qk_pipe) = F[now - 2 - 8]
    BY <1>2, <2>1, <2>2, PipeStep
  <2>4. Carries(Advance(qk_pipe, datum), 8, S, F, now - 1)
    BY <1>3, <2>3
  <2>5. QED
    BY <2>3, <2>4 DEF Carries
<1>8. ASSUME DataStep
      PROVE  /\ qk_pipe' \in [1..8 -> S]
             /\ s_valid' <=> Busy(now - 10)
             /\ s_valid' \in BOOLEAN
             /\ s_out' \in S
             /\ Busy(now - 10) => s_out' = ScoreAt(now - 10)
  <2>1. Emerging(qk_pipe) = F[now - 10] /\ now - 10 \in Int
    BY <1>1, <1>7
  <2>2. (s_valid' <=> Busy(now - 10)) /\ s_out' = IF Busy(now - 10) THEN F[now - 10] ELSE s_out
    BY <1>5, <1>6, <1>8, <2>1
  <2>3. s_out \in S
    BY DEF QkInv, S
  <2>4. QED
    BY <1>2, <1>5, <1>7, <1>8, <2>1, <2>2, <2>3
<1>9. CASE Cycle
  <2>1. now' = now + 1 /\ tile_cnt' = tile_cnt /\ DataStep
    BY <1>9 DEF Cycle
  <2>2. now' - 11 = now - 10
    BY <1>1, <2>1
  <2>3. ASSUME NEW i \in 1..8
        PROVE  (qk_pipe[i] = IF Busy(now - 2 - i) THEN ScoreAt(now - 2 - i) ELSE Bubble)'
    <3>1. now' - 2 - i = now - 1 - i /\ now' - 2 - i \in Int
      BY <1>1, <2>1
    <3>2. QED
      BY <1>2, <1>5, <1>7, <2>1, <3>1 DEF ScoreAt
  <2>4. QED
    BY <1>8, <2>1, <2>2, <2>3 DEF QkInv, ScoreAt, S
<1>10. CASE Rest
  <2>1. now' = 0 /\ now \in {0, 346} /\ DataStep
    BY <1>10 DEF Rest
  <2>2. ~Busy(now' - 11) /\ ~Busy(now - 10)
    BY <2>1 DEF Busy
  <2>3. ASSUME NEW i \in 1..8
        PROVE  qk_pipe'[i] = Bubble /\ ~Busy(now' - 2 - i)
    <3>1. now - 1 - i \in Int /\ ~Busy(now - 1 - i) /\ ~Busy(now' - 2 - i)
      BY <2>1 DEF Busy
    <3>2. QED
      BY <1>2, <1>5, <1>7, <2>1, <3>1
  <2>4. QED
    BY <1>8, <2>1, <2>2, <2>3 DEF QkInv, S
<1>11. CASE Idles
  BY <1>11 DEF QkInv, Idles, dataRegs, ScoreAt
<1>12. QED
  BY <1>9, <1>10, <1>11, CoreStepKinds

-----------------------------------------------------------------------------
Ring == INSTANCE ScoreFifoProofs
            WITH DEPTH <- 34, Scores <- Score \cup {Bubble}, NoScore <- Bubble

\* A score is due in a busy cycle; 34 cycles see at most 32.
LEMMA BeforeNext ==
    ASSUME NEW t \in Int
    PROVE  /\ Before(t) \in 0..256
           /\ Before(t + 1) = IF Busy(t) THEN Before(t) + 1 ELSE Before(t)
           /\ Before(t + 34) - Before(t) \in 0..32
           /\ Busy(t) => Before(t) < Before(t + 34)
           /\ Busy(t) => ScoreNo(Before(t)) = ScoreAt(t)
<1>1. Before(t) \in 0..256
  BY DEF Before, AtMost
<1>2. Before(t + 1) = IF Busy(t) THEN Before(t) + 1 ELSE Before(t)
  BY DEF Before, AtMost, Busy
<1>3. Before(t + 34) - Before(t) \in 0..32
  BY DEF Before, AtMost
<1>4. Busy(t) => ScoreNo(Before(t)) = ScoreAt(t)
  BY DEF Before, AtMost, Busy, ScoreNo, ScoreAt, RowAt, KeyAt
<1>5. Busy(t) => Before(t) < Before(t + 34)
  BY DEF Before, AtMost, Busy
<1>6. QED
  BY <1>1, <1>2, <1>3, <1>4, <1>5

\* The ring buffer is in order, so that what is proved of it alone applies.
LEMMA RingOK ==
    ASSUME ScheduleInv, FifoPos
    PROVE  Ring!FifoInv
<1>1. now \in 0..346
  BY NowInPeriod
<1>2. cnt \in 0..32
  <2>1. now - 45 \in Int /\ now - 45 + 34 = now - 11
    BY <1>1
  <2>2. QED
    BY <2>1, BeforeNext DEF FifoPos
<1>3. Ring!FifoTypeOK
  BY <1>2 DEF FifoPos, Ring!FifoTypeOK, Fifo!Slot
<1>4. Ring!PointersAgree
  BY <1>2 DEF FifoPos, Ring!PointersAgree, Fifo!Slot, Ring!Slot
<1>5. QED
  BY <1>3, <1>4 DEF Ring!FifoInv

\* A clock edge of the ring buffer, as seen from its oldest entry.
LEMMA RingEdge ==
    ASSUME Ring!FifoInv, NEW wr_en \in BOOLEAN, NEW rd_en \in BOOLEAN,
           NEW score \in Score \cup {Bubble}, Fifo!FifoClock(wr_en, score, rd_en)
    PROVE  LET wr == wr_en /\ cnt # 34
               rd == rd_en /\ cnt # 0
           IN
           /\ Ring!FifoInv'
           /\ cnt' = IF wr /\ ~rd THEN cnt + 1 ELSE IF rd /\ ~wr THEN cnt - 1 ELSE cnt
           /\ \A i \in 1..cnt' :
                  LET j == IF rd THEN i + 1 ELSE i IN
                  IF j <= cnt THEN mem'[Fifo!Slot(i)'] = mem[Fifo!Slot(j)]
                              ELSE j = cnt + 1 /\ mem'[Fifo!Slot(i)'] = score
<1>1. Ring!FifoClock(wr_en, score, rd_en)
  BY Zenon DEF Fifo!FifoClock, Ring!FifoClock, Fifo!full, Fifo!empty, Ring!full,
               Ring!empty, Fifo!Write, Ring!Write, Fifo!NextPtr, Ring!NextPtr
<1>2. Ring!FifoInv'
  BY <1>1, Ring!ClockInv
<1>3. cnt' = IF wr_en /\ cnt # 34 /\ ~(rd_en /\ cnt # 0) THEN cnt + 1
             ELSE IF rd_en /\ cnt # 0 /\ ~(wr_en /\ cnt # 34) THEN cnt - 1 ELSE cnt
  BY <1>1, Ring!ClockEdge
<1>4. ASSUME NEW i \in 1..cnt'
      PROVE  LET j == IF rd_en /\ cnt # 0 THEN i + 1 ELSE i IN
             IF j <= cnt THEN mem'[Ring!Slot(i)'] = mem[Ring!Slot(j)]
                         ELSE j = cnt + 1 /\ mem'[Ring!Slot(i)'] = score
  BY <1>1, <1>4, Ring!EntryAfter
<1>5. QED
  BY <1>2, <1>3, <1>4 DEF Ring!Slot, Fifo!Slot

LEMMA StepFifo ==
    ASSUME ScheduleInv, QkInv, FifoPos, [CoreNext]_coreVars
    PROVE  FifoPos'
<1> DEFINE written == Before(now - 11)
           read    == Before(now - 45)
<1>1. now \in 0..346
  BY NowInPeriod
<1>2. /\ written \in 0..256 /\ read \in 0..256
      /\ written - read \in 0..32 /\ cnt = written - read
      /\ Busy(now - 45) => read < written
  <2>1. now - 45 \in Int /\ now - 11 \in Int /\ now - 45 + 34 = now - 11
    BY <1>1
  <2>2. QED
    BY <2>1, BeforeNext DEF FifoPos
<1> HIDE DEF written, read
<1>3. Ring!FifoInv
  BY RingOK
<1>4. fifo_rd_en(Fifo!empty) \in BOOLEAN /\ (fifo_rd_en(Fifo!empty) <=> Busy(now - 45))
  <2>1. Fifo!empty \in BOOLEAN /\ (Fifo!empty <=> cnt = 0)
    BY DEF Fifo!empty
  <2>2. fifo_rd_en(Fifo!empty) <=> Busy(now - 45) /\ ~Fifo!empty
    BY <2>1, StrobesExp
  <2>3. Busy(now - 45) => ~Fifo!empty
    BY <1>2, <2>1
  <2>4. fifo_rd_en(Fifo!empty) \in BOOLEAN
    BY DEF fifo_rd_en
  <2>5. QED
    BY <2>2, <2>3, <2>4
<1>5. ASSUME DataStep
      PROVE  /\ Ring!FifoInv'
             /\ cnt' = IF Busy(now - 11) /\ ~Busy(now - 45) THEN cnt + 1
                       ELSE IF Busy(now - 45) /\ ~Busy(now - 11) THEN cnt - 1 ELSE cnt
             /\ \A i \in 1..cnt' :
                    LET j == IF Busy(now - 45) THEN i + 1 ELSE i IN
                    IF j <= cnt THEN mem'[Fifo!Slot(i)'] = mem[Fifo!Slot(j)]
                                ELSE j = cnt + 1 /\ mem'[Fifo!Slot(i)'] = s_out
  <2>1. Fifo!FifoClock(s_valid, s_out, fifo_rd_en(Fifo!empty))
    BY <1>5 DEF DataStep, BufferScores
  <2>2. s_valid \in BOOLEAN /\ s_out \in Score \cup {Bubble} /\ (s_valid <=> Busy(now - 11))
    BY DEF QkInv
  <2>3. cnt # 34 /\ (Busy(now - 45) => cnt # 0)
    BY <1>2
  <2> DEFINE rd == fifo_rd_en(Fifo!empty)
  <2>4. rd \in BOOLEAN /\ (rd /\ cnt # 0 <=> Busy(now - 45)) /\ (s_valid /\ cnt # 34 <=> Busy(now - 11))
    BY <1>4, <2>2, <2>3
  <2>5. Fifo!FifoClock(s_valid, s_out, rd)
    BY <2>1
  <2> HIDE DEF rd
  <2>6. /\ Ring!FifoInv'
        /\ cnt' = IF (s_valid /\ cnt # 34) /\ ~(rd /\ cnt # 0) THEN cnt + 1
                  ELSE IF (rd /\ cnt # 0) /\ ~(s_valid /\ cnt # 34) THEN cnt - 1 ELSE cnt
        /\ \A i \in 1..cnt' :
               LET j == IF rd /\ cnt # 0 THEN i + 1 ELSE i IN
               IF j <= cnt THEN mem'[Fifo!Slot(i)'] = mem[Fifo!Slot(j)]
                           ELSE j = cnt + 1 /\ mem'[Fifo!Slot(i)'] = s_out
    BY <1>3, <2>2, <2>4, <2>5, RingEdge
  <2>7. QED
    BY <2>4, <2>6
<1>6. CASE Cycle
  <2>1. now' = now + 1 /\ tile_cnt' = tile_cnt /\ DataStep
    BY <1>6 DEF Cycle
  <2>2. /\ Before(now' - 11) = IF Busy(now - 11) THEN written + 1 ELSE written
        /\ Before(now' - 45) = IF Busy(now - 45) THEN read + 1 ELSE read
    <3>1. now - 11 \in Int /\ now - 45 \in Int /\ now' - 11 = now - 11 + 1 /\ now' - 45 = now - 45 + 1
      BY <1>1, <2>1
    <3>2. QED
      BY <3>1, BeforeNext DEF written, read
  <2>3. cnt' = Before(now' - 11) - Before(now' - 45)
    BY <1>2, <1>5, <2>1, <2>2
  <2>4. ASSUME NEW i \in 1..cnt'
        PROVE  (mem[Fifo!Slot(i)] = ScoreNo(Before(now - 45) + i - 1))'
    <3> DEFINE j == IF Busy(now - 45) THEN i + 1 ELSE i
    <3>1. j \in Nat \ {0} /\ read + j - 1 = Before(now' - 45) + i - 1
      BY <1>2, <2>2
    <3>2. CASE j <= cnt
      <4>1. mem'[Fifo!Slot(i)'] = mem[Fifo!Slot(j)] /\ j \in 1..cnt
        BY <1>2, <1>5, <2>1, <3>1, <3>2
      <4>2. mem[Fifo!Slot(j)] = ScoreNo(read + j - 1)
        BY <4>1 DEF FifoPos, read
      <4>3. QED
        BY <2>1, <3>1, <4>1, <4>2 DEF ScoreNo
    <3>3. CASE ~(j <= cnt)
      <4>1. mem'[Fifo!Slot(i)'] = s_out /\ j = cnt + 1
        BY <1>5, <2>1, <3>3
      <4>2. Busy(now - 11)
        BY <1>2, <1>5, <2>1, <3>3
      <4>3. s_out = ScoreAt(now - 11) /\ now - 11 \in Int
        BY <1>1, <4>2 DEF QkInv
      <4>4. s_out = ScoreNo(written)
        BY <4>2, <4>3, BeforeNext DEF written
      <4>5. written = read + j - 1
        BY <1>2, <4>1
      <4>6. QED
        BY <2>1, <3>1, <4>1, <4>4, <4>5 DEF ScoreNo
    <3>4. QED
      BY <3>2, <3>3
  <2>5. QED
    BY <1>5, <2>1, <2>3, <2>4 DEF FifoPos, Ring!FifoInv, Ring!FifoTypeOK, Ring!PointersAgree, Ring!Slot, Fifo!Slot
<1>7. CASE Rest
  <2>1. now' = 0 /\ now \in {0, 346} /\ DataStep
    BY <1>7 DEF Rest
  <2>2. /\ ~Busy(now - 11) /\ ~Busy(now - 45) /\ written = read
        /\ Before(now' - 11) = 0 /\ Before(now' - 45) = 0
    BY <2>1 DEF Busy, Before, written, read
  <2>3. cnt' = 0
    BY <1>2, <1>5, <2>1, <2>2
  <2>4. QED
    BY <1>5, <2>1, <2>2, <2>3 DEF FifoPos, Ring!FifoInv, Ring!FifoTypeOK, Ring!PointersAgree, Ring!Slot, Fifo!Slot
<1>8. CASE Idles
  BY <1>8 DEF FifoPos, Idles, fifoRegs, ScoreNo, Fifo!Slot
<1>9. QED
  BY <1>6, <1>7, <1>8, CoreStepKinds

\* What the FIFO delivers in a cycle is the score that was due 45 cycles before.
LEMMA FifoDelivers ==
    ASSUME ScheduleInv, FifoPos
    PROVE  /\ cnt \in 0..32
           /\ Busy(now - 45) => cnt > 0 /\ Fifo!rd_data = ScoreAt(now - 45)
           /\ fifo_rd_en(Fifo!empty) <=> Busy(now - 45)
           /\ now = 0 => cnt = 0
<1>1. now \in 0..346
  BY NowInPeriod
<1>2. /\ now - 45 \in Int /\ now - 45 + 34 = now - 11
  BY <1>1
<1>3. cnt \in 0..32 /\ (Busy(now - 45) => cnt > 0)
  <2> DEFINE read    == Before(now - 45)
             written == Before(now - 11)
  <2>1. /\ read \in 0..256 /\ written \in 0..256 /\ written - read \in 0..32
        /\ Busy(now - 45) => read < written
    BY <1>2, BeforeNext
  <2>2. cnt = written - read
    BY DEF FifoPos
  <2> HIDE DEF read, written
  <2>3. QED
    BY <2>1, <2>2
<1>4. Busy(now - 45) => Fifo!rd_data = ScoreAt(now - 45)
  <2>1. HAVE Busy(now - 45)
  <2>2. 1 \in 1..cnt /\ Before(now - 45) + 1 - 1 = Before(now - 45)
    <3>1. Before(now - 45) \in Int
      BY <1>2, BeforeNext
    <3>2. QED
      BY <1>3, <2>1, <3>1
  <2>3. mem[Fifo!Slot(1)] = ScoreNo(Before(now - 45))
    BY <2>2 DEF FifoPos
  <2>4. Fifo!Slot(1) = rd_ptr
    BY DEF Fifo!Slot, FifoPos
  <2>5. QED
    BY <1>2, <2>1, <2>3, <2>4, BeforeNext DEF Fifo!rd_data
<1>5. fifo_rd_en(Fifo!empty) <=> Busy(now - 45)
  <2>1. Fifo!empty \in BOOLEAN /\ (Fifo!empty <=> cnt = 0)
    BY DEF Fifo!empty
  <2>2. fifo_rd_en(Fifo!empty) <=> Busy(now - 45) /\ ~Fifo!empty
    BY <2>1, StrobesExp
  <2>3. QED
    BY <1>3, <2>1, <2>2
<1>6. now = 0 => cnt = 0
  BY DEF FifoPos, Before
<1>7. QED
  BY <1>3, <1>4, <1>5, <1>6

-----------------------------------------------------------------------------
\* The maximum written for a row started from M of that row.
LEMMA MaxStartsFromM ==
    ASSUME ScheduleInv, QkInv, MaxInv
    PROVE  /\ running_max_fwd \in Max
           /\ running_max_fwd.prev = running_max.prev
           /\ Start(now - 42) => running_max.prev = M_reg[RowAt(now - 42)]
<1>1. running_max_fwd \in Max /\ running_max_fwd.prev = running_max.prev
  BY DEF running_max_fwd, MaxInv, Max, QkInv
<1>2. Start(now - 42) => running_max.prev = M_reg[RowAt(now - 42)]
  <2>1. HAVE Start(now - 42)
  <2>2. now \in 0..346
    BY NowInPeriod
  <2>3. ~Start(now - 43)
    BY <2>1, <2>2 DEF Start
  <2>4. RowAt(now - 42) = IF now \in 43..281 THEN RowAt(now - 43) + 1 ELSE 0
    BY <2>1, <2>2 DEF Start, RowAt
  <2>5. QED
    BY <2>3, <2>4 DEF MaxInv
<1>3. QED
  BY <1>1, <1>2

\* M of a row is folded in its cycle, from M of that row, and at no other time.
LEMMA StepM ==
    ASSUME ScheduleInv, QkInv, MaxInv, StateInv, DataStep
    PROVE  /\ M_reg' \in [Rows -> RowState]
           /\ \A r \in Rows : M_reg'[r] =
                  [row |-> r, folds |-> Stored + (IF now >= 34 * r + 42 THEN 1 ELSE 0)]
<1>1. now \in 0..346 /\ Stored \in Nat
  BY NowInPeriod DEF StateInv, Stored, Rows, Chunks, RowState
<1>2. CASE Start(now - 42)
  <2> DEFINE a == RowAt(now - 42)
  <2>1. a \in Rows /\ now = 34 * a + 42
    BY <1>1, <1>2 DEF Start, RowAt, Rows
  <2>2. M_reg[a] = [row |-> a, folds |-> Stored]
    BY <1>1, <2>1 DEF StateInv, Done
  <2>3. M_reg' = [M_reg EXCEPT ![a] = Folded(M_reg[a])]
    BY <1>2, StrobesM, MaxStartsFromM DEF DataStep, WriteState
  <2>4. Folded(M_reg[a]) = [row |-> a, folds |-> Stored + 1]
    BY <2>2 DEF Folded
  <2> HIDE DEF a
  <2>5. M_reg' \in [Rows -> RowState]
    BY <1>1, <2>1, <2>3, <2>4 DEF StateInv, RowState
  <2>6. ASSUME NEW r \in Rows
        PROVE  M_reg'[r] = [row |-> r, folds |-> Stored + (IF now >= 34 * r + 42 THEN 1 ELSE 0)]
    <3>1. CASE r = a
      BY <2>1, <2>3, <2>4, <3>1 DEF StateInv
    <3>2. CASE r # a
      <4>1. M_reg'[r] = M_reg[r]
        BY <2>3, <3>2 DEF StateInv
      <4>2. (now >= 34 * r + 42) <=> (now > 34 * r + 42)
        BY <2>1, <3>2 DEF Rows
      <4>3. QED
        BY <4>1, <4>2 DEF StateInv, Done
    <3>3. QED
      BY <3>1, <3>2
  <2>7. QED
    BY <2>5, <2>6
<1>3. CASE ~Start(now - 42)
  <2>1. M_reg' = M_reg
    BY <1>3, StrobesM DEF DataStep, WriteState
  <2>2. ASSUME NEW r \in Rows PROVE (now >= 34 * r + 42) <=> (now > 34 * r + 42)
    BY <1>1, <1>3 DEF Start, Rows
  <2>3. QED
    BY <2>1, <2>2 DEF StateInv, Done
<1>4. QED
  BY <1>2, <1>3

\* So is each chunk of O.
LEMMA StepO ==
    ASSUME ScheduleInv, OInv, StateInv, DataStep
    PROVE  /\ O_reg' \in [Rows -> [Chunks -> RowState]]
           /\ \A r \in Rows, c \in Chunks : O_reg'[r][c] =
                  [row |-> r, folds |-> Stored + (IF now >= 34 * r + 101 + c THEN 1 ELSE 0)]
<1>1. now \in 0..346 /\ Stored \in Nat
  BY NowInPeriod DEF StateInv, Stored, Rows, Chunks, RowState
<1>2. CASE we_o
  <2> DEFINE a == RowAt(now - 101)
             b == KeyAt(now - 101)
  <2>1. a \in Rows /\ b \in Chunks /\ now = 34 * a + 101 + b /\ now - 101 \in 0..271
    BY <1>1, <1>2, StrobesO DEF RowAt, KeyAt, Rows, Chunks
  <2>2. shadow_reg.o[b] = [row |-> a, folds |-> Stored]
    BY <2>1 DEF OInv, OPrevOf
  <2>3. O_reg' = [O_reg EXCEPT ![a][b] = Folded(shadow_reg.o[b])]
    BY <1>2, StrobesO DEF DataStep, WriteState
  <2>4. Folded(shadow_reg.o[b]) = [row |-> a, folds |-> Stored + 1]
    BY <2>2 DEF Folded
  <2> HIDE DEF a, b
  <2>5. O_reg' \in [Rows -> [Chunks -> RowState]]
    <3>1. [row |-> a, folds |-> Stored + 1] \in RowState
      BY <1>1, <2>1 DEF RowState
    <3>2. QED
      BY <2>1, <2>3, <2>4, <3>1 DEF StateInv
  <2>6. ASSUME NEW r \in Rows, NEW c \in Chunks
        PROVE  O_reg'[r][c] = [row |-> r, folds |-> Stored + (IF now >= 34 * r + 101 + c THEN 1 ELSE 0)]
    <3>1. CASE r = a /\ c = b
      BY <2>1, <2>3, <2>4, <3>1 DEF StateInv
    <3>2. CASE r # a \/ c # b
      <4>1. O_reg'[r][c] = O_reg[r][c]
        BY <2>1, <2>3, <3>2 DEF StateInv
      <4>2. (now >= 34 * r + 101 + c) <=> (now > 34 * r + 101 + c)
        BY <2>1, <3>2 DEF Rows, Chunks
      <4>3. QED
        BY <4>1, <4>2 DEF StateInv, Done
    <3>3. QED
      BY <3>1, <3>2
  <2>7. QED
    BY <2>5, <2>6
<1>3. CASE ~we_o
  <2>1. O_reg' = O_reg
    BY <1>3 DEF DataStep, WriteState
  <2>2. ASSUME NEW r \in Rows, NEW c \in Chunks
        PROVE  (now >= 34 * r + 101 + c) <=> (now > 34 * r + 101 + c)
    <3>1. ASSUME now = 34 * r + 101 + c PROVE FALSE
      <4>1. now - 101 \in 0..245 /\ KeyAt(now - 101) \in Chunks
        BY <3>1 DEF KeyAt, Rows, Chunks
      <4>2. QED
        BY <1>3, <4>1, StrobesO
    <3>2. QED
      BY <1>1, <3>1 DEF Rows, Chunks
  <2>3. QED
    BY <2>1, <2>2 DEF StateInv, Done
<1>4. QED
  BY <1>2, <1>3

\* The last chunk of the last row is written in the last cycle of the tile.
LEMMA StoredKept ==
    ASSUME ScheduleInv, OInv, StateInv, Cycle
    PROVE  Stored' = Stored /\ Stored \in Nat
<1>1. now < 346 /\ now \in 0..346 /\ DataStep
  BY NowInPeriod DEF Cycle
<1>2. Stored \in Nat
  BY DEF StateInv, Stored, Rows, Chunks, RowState
<1>3. O_reg'[7][7] = [row |-> 7, folds |-> Stored + (IF now >= 34 * 7 + 101 + 7 THEN 1 ELSE 0)]
  BY <1>1, StepO DEF Rows, Chunks
<1>4. QED
  BY <1>1, <1>2, <1>3 DEF Stored

LEMMA StepState ==
    ASSUME ScheduleInv, QkInv, MaxInv, OInv, StateInv, [CoreNext]_coreVars
    PROVE  StateInv'
<1>1. now \in 0..346 /\ Stored \in Nat
  BY NowInPeriod DEF StateInv, Stored, Rows, Chunks, RowState
<1>2. CASE Cycle
  <2>1. now' = now + 1 /\ now < 346 /\ DataStep
    BY <1>2 DEF Cycle
  <2>2. Stored' = Stored
    BY <1>2, StoredKept
  <2>3. ASSUME NEW g \in Int PROVE Done(g)' = IF now >= g THEN 1 ELSE 0
    BY <1>1, <2>1 DEF Done
  <2>4. ASSUME NEW r \in Rows
        PROVE  (M_reg[r] = [row |-> r, folds |-> Stored + Done(34 * r + 42)])'
    BY <2>1, <2>2, <2>3, StepM DEF Rows
  <2>5. ASSUME NEW r \in Rows, NEW c \in Chunks
        PROVE  (O_reg[r][c] = [row |-> r, folds |-> Stored + Done(34 * r + 101 + c)])'
    BY <2>1, <2>2, <2>3, StepO DEF Rows, Chunks
  <2>6. QED
    BY <2>1, <2>4, <2>5, StepM, StepO DEF StateInv
<1>3. CASE Rest
  <2>1. now' = 0 /\ ((now = 0 /\ ~Running) \/ now = 346) /\ DataStep
    BY <1>3 DEF Rest
  <2>2. Stored' = IF now = 346 THEN Stored + 1 ELSE Stored
    BY <1>1, <2>1, StepO DEF Stored, Rows, Chunks
  <2>3. ASSUME NEW g \in Nat PROVE Done(g)' = 0
    BY <2>1 DEF Done
  <2>4. ASSUME NEW r \in Rows
        PROVE  (M_reg[r] = [row |-> r, folds |-> Stored + Done(34 * r + 42)])'
    <3>1. Done(34 * r + 42)' = 0
      BY <2>3 DEF Rows
    <3>2. now >= 34 * r + 42 <=> now = 346
      BY <1>1, <2>1 DEF Rows
    <3>3. QED
      BY <1>1, <2>1, <2>2, <3>1, <3>2, StepM
  <2>5. ASSUME NEW r \in Rows, NEW c \in Chunks
        PROVE  (O_reg[r][c] = [row |-> r, folds |-> Stored + Done(34 * r + 101 + c)])'
    <3>1. Done(34 * r + 101 + c)' = 0
      BY <2>3 DEF Rows, Chunks
    <3>2. now >= 34 * r + 101 + c <=> now = 346
      BY <1>1, <2>1 DEF Rows, Chunks
    <3>3. QED
      BY <1>1, <2>1, <2>2, <3>1, <3>2, StepO
  <2>6. QED
    BY <2>1, <2>4, <2>5, StepM, StepO DEF StateInv
<1>4. CASE Idles
  BY <1>4 DEF Idles, dataRegs, StateInv, Stored, Done
<1>5. QED
  BY <1>2, <1>3, <1>4, CoreStepKinds

LEMMA StepMax ==
    ASSUME ScheduleInv, QkInv, MaxInv, StateInv, [CoreNext]_coreVars
    PROVE  MaxInv'
<1> DEFINE Next_(g) == IF g \in 43..281 THEN RowAt(g - 43) + 1 ELSE 0
<1>1. now \in 0..346
  BY NowInPeriod
<1>2. running_max_fwd \in Max /\ running_max_fwd.prev = running_max.prev
  BY MaxStartsFromM
<1>3. ASSUME DataStep
      PROVE  /\ we_m_d1' <=> Start(now - 42)
             /\ running_max' = IF Start(now - 43) THEN [prev |-> m_prev, seen |-> {}] ELSE running_max_fwd
             /\ m_y_reg' = IF Start(now - 42) THEN running_max_fwd ELSE m_y_reg
             /\ ~Start(now - 42) => M_reg' = M_reg
  BY <1>3, StrobesM DEF DataStep, FindMax, MaxInv, WriteState, exp_x_en
<1>4. Start(now - 43) => m_prev = M_reg[RowAfter(RowAt(now - 43))] /\ RowAfter(RowAt(now - 43)) \in Rows
  BY <1>1, StrobesM DEF m_prev, RowAfter, RowAt, Rows, Start
<1>5. ASSUME DataStep PROVE running_max' \in Max /\ m_y_reg' \in Max
  <2>1. Start(now - 43) => m_prev \in RowState
    BY <1>4 DEF StateInv
  <2>2. Start(now - 43) => [prev |-> m_prev, seen |-> {}] \in Max
    BY <2>1 DEF Max
  <2>3. QED
    BY <1>2, <1>3, <1>5, <2>2 DEF MaxInv
<1>6. ASSUME DataStep, ~Start(now - 42)
      PROVE  running_max'.prev = M_reg'[Next_(now + 1)]
  <2>1. CASE Start(now - 43)
    <3>1. Next_(now + 1) = RowAfter(RowAt(now - 43))
      BY <1>1, <2>1 DEF Start, RowAt, RowAfter
    <3>2. QED
      BY <1>3, <1>4, <1>6, <2>1, <3>1
  <2>2. CASE ~Start(now - 43)
    <3>1. Next_(now + 1) = Next_(now)
      BY <1>1, <1>6, <2>2 DEF Start, RowAt
    <3>2. running_max.prev = M_reg[Next_(now)]
      BY <2>2 DEF MaxInv
    <3>3. QED
      BY <1>2, <1>3, <1>6, <2>2, <3>1, <3>2
  <2>3. QED
    BY <2>1, <2>2
<1>7. CASE Cycle
  <2>1. now' = now + 1 /\ now' - 43 = now - 42 /\ DataStep
    BY <1>1, <1>7 DEF Cycle
  <2>2. ~Start(now' - 43) => running_max'.prev = M_reg'[Next_(now')]
    BY <1>6, <2>1
  <2>3. now' - 43 \in 0..271 => m_y_reg'.prev.row = RowAt(now' - 43)
    <3>1. CASE Start(now - 42)
      <4>1. RowAt(now - 42) \in Rows
        BY <1>1, <3>1 DEF Start, RowAt, Rows
      <4>2. running_max_fwd.prev.row = RowAt(now - 42)
        BY <3>1, <4>1, MaxStartsFromM DEF StateInv
      <4>3. QED
        BY <1>3, <2>1, <3>1, <4>2
    <3>2. CASE ~Start(now - 42)
      <4>1. HAVE now' - 43 \in 0..271
      <4>2. now - 43 \in 0..271 /\ RowAt(now - 43) = RowAt(now - 42)
        BY <1>1, <2>1, <3>2, <4>1 DEF Start, RowAt
      <4>3. QED
        BY <1>3, <2>1, <3>2, <4>2 DEF MaxInv
    <3>3. QED
      BY <3>1, <3>2
  <2>4. QED
    BY <1>3, <1>5, <2>1, <2>2, <2>3 DEF MaxInv, Max
<1>8. CASE Rest
  <2>1. now' = 0 /\ now \in {0, 346} /\ DataStep
    BY <1>8 DEF Rest
  <2>2. ~Start(now - 42) /\ ~Start(now' - 43) /\ Next_(now + 1) = 0 /\ now' \notin 43..281
        /\ now' - 43 \notin 0..271
    BY <2>1 DEF Start
  <2>3. running_max'.prev = M_reg'[0]
    BY <1>6, <2>1, <2>2
  <2>4. QED
    BY <1>3, <1>5, <2>1, <2>2, <2>3 DEF MaxInv, Max
<1>9. CASE Idles
  BY <1>9 DEF Idles, dataRegs, MaxInv, Max
<1>10. QED
  BY <1>7, <1>8, <1>9, CoreStepKinds

LEMMA StepX ==
    ASSUME ScheduleInv, QkInv, MaxInv, StateInv, XInv, [CoreNext]_coreVars
    PROVE  XInv'
<1> DEFINE S == XTerm \cup {Bubble}
           datum == IF exp_x_en THEN [row |-> m_prev.row, m |-> running_max_fwd.prev.row] ELSE Bubble
           F == [t \in Int |-> IF Start(t) THEN XOf(RowAt(t)) ELSE Bubble]
<1>1. now \in 0..346
  BY NowInPeriod
<1>2. ASSUME NEW t \in Int, Start(t) PROVE RowAt(t) \in Rows /\ XOf(RowAt(t)) \in XTerm
  BY <1>2 DEF Start, RowAt, XOf, XTerm, Rows
<1>3. F \in [Int -> S] /\ \A t \in Int : F[t] = IF Start(t) THEN XOf(RowAt(t)) ELSE Bubble
  BY <1>2
<1>4. \A t \in Int : F[t] # Bubble <=> Start(t)
  BY <1>2, <1>3, BubbleAssumption
<1>5. datum = F[now - 42]
  <2>1. CASE Start(now - 42)
    <3>1. exp_x_en /\ m_prev = M_reg[RowAt(now - 42)]
      BY <2>1, StrobesM DEF exp_x_en, m_prev
    <3>2. m_prev.row = RowAt(now - 42) /\ running_max_fwd.prev.row = RowAt(now - 42)
      BY <1>1, <1>2, <2>1, <3>1, MaxStartsFromM DEF StateInv
    <3>3. QED
      BY <1>1, <2>1, <3>1, <3>2 DEF XOf
  <2>2. CASE ~Start(now - 42)
    BY <1>1, <2>2, StrobesM DEF exp_x_en
  <2>3. QED
    BY <2>1, <2>2
<1>6. ASSUME DataStep
      PROVE  /\ expx_pipe' = Advance(expx_pipe, datum)
             /\ x_out_valid' = (Emerging(expx_pipe) # Bubble)
             /\ x_out' = IF Emerging(expx_pipe) # Bubble THEN Emerging(expx_pipe) ELSE x_out
             /\ val_A_reg' = IF x_out_valid THEN [x |-> x_out, prev |-> l_prev_ld_reg] ELSE val_A_reg
  BY <1>6, Zenon DEF DataStep, ExpX, AccumulateL
<1>7. Carries(expx_pipe, 21, S, F, now - 42)
  <2>1. /\ expx_pipe \in [1..21 -> S]
        /\ \A i \in 1..21 : expx_pipe[i] = IF Start(now - 42 - i) THEN XOf(RowAt(now - 42 - i)) ELSE Bubble
    BY Zenon DEF XInv
  <2>2. QED
    BY <1>1, <2>1 DEF Carries
<1> HIDE DEF datum, S, F
<1>8. Carries(Advance(expx_pipe, datum), 21, S, F, now - 41) /\ Emerging(expx_pipe) = F[now - 63]
  <2>1. 21 \in Nat \ {0} /\ now - 42 \in Int /\ now - 42 + 1 = now - 41 /\ now - 42 - 21 = now - 63
    BY <1>1
  <2>2. /\ Carries(Advance(expx_pipe, F[now - 42]), 21, S, F, now - 42 + 1)
        /\ Emerging(expx_pipe) = F[now - 42 - 21]
    BY <1>3, <1>7, <2>1, PipeStep
  <2>3. QED
    BY <1>5, <2>1, <2>2
<1>9. ASSUME DataStep
      PROVE  /\ expx_pipe' \in [1..21 -> S]
             /\ \A i \in 1..21 : expx_pipe'[i] = F[now - 41 - i]
             /\ x_out_valid' <=> Start(now - 63)
             /\ x_out' = IF Start(now - 63) THEN F[now - 63] ELSE x_out
             /\ val_A_reg' = [x |-> val_A_reg'.x, prev |-> val_A_reg'.prev]
             /\ val_A_reg'.x = IF Start(now - 64) THEN x_out ELSE val_A_reg.x
  <2>1. now - 63 \in Int
    BY <1>1
  <2>2. expx_pipe' \in [1..21 -> S] /\ \A i \in 1..21 : expx_pipe'[i] = F[now - 41 - i]
    BY <1>6, <1>8, <1>9 DEF Carries
  <2>3. val_A_reg' = [x |-> val_A_reg'.x, prev |-> val_A_reg'.prev]
    BY <1>6, <1>9 DEF XInv
  <2>4. val_A_reg'.x = IF Start(now - 64) THEN x_out ELSE val_A_reg.x
    BY <1>6, <1>9 DEF XInv
  <2>5. QED
    BY <1>4, <1>6, <1>8, <1>9, <2>1, <2>2, <2>3, <2>4
<1>10. CASE Cycle
  <2>1. now' = now + 1 /\ now' - 64 = now - 63 /\ now' - 65 = now - 64 /\ DataStep
    BY <1>1, <1>10 DEF Cycle
  <2>2. ASSUME NEW i \in 1..21
        PROVE  expx_pipe'[i] = IF Start(now' - 42 - i) THEN XOf(RowAt(now' - 42 - i)) ELSE Bubble
    <3>1. now' - 42 - i = now - 41 - i /\ now' - 42 - i \in Int
      BY <1>1, <2>1
    <3>2. QED
      BY <1>3, <1>9, <2>1, <3>1
  <2>3. now' - 64 \in 0..271 => x_out' = XOf(RowAt(now' - 64))
    <3>1. HAVE now' - 64 \in 0..271
    <3>2. ~Start(now - 63) => now - 64 \in 0..271 /\ RowAt(now - 64) = RowAt(now - 63)
      BY <1>1, <2>1, <3>1 DEF Start, RowAt
    <3>3. QED
      BY <1>1, <1>3, <1>9, <2>1, <3>2 DEF XInv
  <2>4. now' - 65 \in 0..271 => val_A_reg'.x = XOf(RowAt(now' - 65))
    <3>1. HAVE now' - 65 \in 0..271
    <3>2. ~Start(now - 64) => now - 65 \in 0..271 /\ RowAt(now - 65) = RowAt(now - 64)
      BY <1>1, <2>1, <3>1 DEF Start, RowAt
    <3>3. QED
      BY <1>1, <1>9, <2>1, <3>1, <3>2 DEF XInv
  <2>5. QED
    BY <1>9, <2>1, <2>2, <2>3, <2>4 DEF XInv, S
<1>11. CASE Rest
  <2>1. now' = 0 /\ now \in {0, 346} /\ DataStep
    BY <1>11 DEF Rest
  <2>2. ~Start(now - 63) /\ ~Start(now' - 64) /\ now' - 64 \notin 0..271 /\ now' - 65 \notin 0..271
    BY <2>1 DEF Start
  <2>3. ASSUME NEW i \in 1..21 PROVE expx_pipe'[i] = Bubble /\ ~Start(now' - 42 - i)
    <3>1. now - 41 - i \in Int /\ ~Start(now - 41 - i) /\ ~Start(now' - 42 - i)
      BY <2>1 DEF Start
    <3>2. QED
      BY <1>3, <1>9, <2>1, <3>1
  <2>4. QED
    BY <1>9, <2>1, <2>2, <2>3 DEF XInv, S
<1>12. CASE Idles
  BY <1>12 DEF Idles, dataRegs, XInv
<1>13. QED
  BY <1>10, <1>11, <1>12, CoreStepKinds

LEMMA StepY ==
    ASSUME ScheduleInv, QkInv, FifoPos, MaxInv, YInv, [CoreNext]_coreVars
    PROVE  YInv'
<1> DEFINE S == YTerm \cup {Bubble}
           datum == IF exp_y_en(Fifo!empty)
                    THEN [score |-> Fifo!rd_data, m |-> m_y_reg.prev.row] ELSE Bubble
           F == [t \in Int |-> IF Busy(t) THEN YAt(t) ELSE Bubble]
<1>1. now \in 0..346
  BY NowInPeriod
<1>2. F \in [Int -> S] /\ \A t \in Int : F[t] = IF Busy(t) THEN YAt(t) ELSE Bubble
  BY ScoreType
<1>3. \A t \in Int : F[t] # Bubble <=> Busy(t)
  BY <1>2, ScoreType
<1>4. datum = F[now - 45]
  <2>1. exp_y_en(Fifo!empty) <=> Busy(now - 45)
    BY FifoDelivers DEF exp_y_en
  <2>2. CASE Busy(now - 45)
    <3>1. now - 43 \in 0..271 /\ RowAt(now - 43) = RowAt(now - 45)
      BY <1>1, <2>2 DEF Busy, RowAt
    <3>2. m_y_reg.prev.row = RowAt(now - 45) /\ Fifo!rd_data = ScoreAt(now - 45)
      BY <2>2, <3>1, FifoDelivers DEF MaxInv
    <3>3. QED
      BY <1>1, <2>1, <2>2, <3>2 DEF YAt
  <2>3. CASE ~Busy(now - 45)
    BY <1>1, <2>1, <2>3
  <2>4. QED
    BY <2>2, <2>3
<1>5. ASSUME DataStep
      PROVE  /\ expy_pipe' = Advance(expy_pipe, datum)
             /\ y_out_valid' = (Emerging(expy_pipe) # Bubble)
             /\ y_out' = IF Emerging(expy_pipe) # Bubble THEN Emerging(expy_pipe) ELSE y_out
  BY <1>5, Zenon DEF DataStep, ExpY
<1>6. Carries(expy_pipe, 21, S, F, now - 45)
  BY <1>1 DEF YInv, Carries
<1> HIDE DEF datum, S, F
<1>7. Carries(Advance(expy_pipe, datum), 21, S, F, now - 44) /\ Emerging(expy_pipe) = F[now - 66]
  <2>1. 21 \in Nat \ {0} /\ now - 45 \in Int /\ now - 45 + 1 = now - 44 /\ now - 45 - 21 = now - 66
    BY <1>1
  <2>2. /\ Carries(Advance(expy_pipe, F[now - 45]), 21, S, F, now - 45 + 1)
        /\ Emerging(expy_pipe) = F[now - 45 - 21]
    BY <1>2, <1>6, <2>1, PipeStep
  <2>3. QED
    BY <1>4, <2>1, <2>2
<1>8. ASSUME DataStep
      PROVE  /\ expy_pipe' \in [1..21 -> S]
             /\ \A i \in 1..21 : expy_pipe'[i] = F[now - 44 - i]
             /\ y_out_valid' <=> Busy(now - 66)
             /\ Busy(now - 66) => y_out' = YAt(now - 66)
  <2>1. now - 66 \in Int
    BY <1>1
  <2>2. expy_pipe' \in [1..21 -> S] /\ \A i \in 1..21 : expy_pipe'[i] = F[now - 44 - i]
    BY <1>5, <1>7, <1>8 DEF Carries
  <2>3. QED
    BY <1>2, <1>3, <1>5, <1>7, <1>8, <2>1, <2>2
<1>9. CASE Cycle
  <2>1. now' = now + 1 /\ now' - 67 = now - 66 /\ tile_cnt' = tile_cnt /\ DataStep
    BY <1>1, <1>9 DEF Cycle
  <2>2. ASSUME NEW i \in 1..21
        PROVE  (expy_pipe[i] = IF Busy(now - 45 - i) THEN YAt(now - 45 - i) ELSE Bubble)'
    <3>1. now' - 45 - i = now - 44 - i /\ now' - 45 - i \in Int
      BY <1>1, <2>1
    <3>2. QED
      BY <1>2, <1>8, <2>1, <3>1 DEF YAt, ScoreAt
  <2>3. QED
    BY <1>8, <2>1, <2>2 DEF YInv, S, YAt, ScoreAt
<1>10. CASE Rest
  <2>1. now' = 0 /\ now \in {0, 346} /\ DataStep
    BY <1>10 DEF Rest
  <2>2. ~Busy(now - 66) /\ ~Busy(now' - 67)
    BY <2>1 DEF Busy
  <2>3. ASSUME NEW i \in 1..21 PROVE expy_pipe'[i] = Bubble /\ ~Busy(now' - 45 - i)
    <3>1. now - 44 - i \in Int /\ ~Busy(now - 44 - i) /\ ~Busy(now' - 45 - i)
      BY <2>1 DEF Busy
    <3>2. QED
      BY <1>2, <1>8, <2>1, <3>1
  <2>4. QED
    BY <1>8, <2>1, <2>2, <2>3 DEF YInv, S
<1>11. CASE Idles
  BY <1>11 DEF Idles, dataRegs, YInv, YAt, ScoreAt
<1>12. QED
  BY <1>9, <1>10, <1>11, CoreStepKinds

-----------------------------------------------------------------------------
\* The lists of a row grow by the datum of its next cycle.
LEMMA SeqOfYs ==
    ASSUME NEW r \in Nat, NEW n \in Nat
    PROVE  /\ YsUpTo(r, 0) = <<>>
           /\ Append(YsUpTo(r, n), YAt(34 * r + n)) = YsUpTo(r, n + 1)
           /\ TermsUpTo(r, 0) = <<>>
           /\ Append(TermsUpTo(r, n), Term(34 * r + n)) = TermsUpTo(r, n + 1)
  BY DEF YsUpTo, TermsUpTo

LEMMA StepL ==
    ASSUME ScheduleInv, XInv, YInv, LInv, [CoreNext]_coreVars
    PROVE  LInv'
<1>1. now \in 0..346
  BY NowInPeriod
<1>2. CASE Cycle
  <2> DEFINE t == now - 67
             n == AtMost(KeyAt(t) + 1, 32)
  <2>1. now' = now + 1 /\ now' - 68 = t /\ now' - 67 = now - 66 /\ tile_cnt' = tile_cnt /\ DataStep /\ t \in Int
    BY <1>1, <1>2 DEF Cycle
  <2>2. acc_init_delay' <=> Start(now' - 67)
    BY <2>1, StrobesExp DEF DataStep, AccumulateL
  <2>3. /\ Start(t) /\ y_out_valid => l_acc_reg' = [from |-> val_A_reg, ys |-> Append(<<>>, y_out)]
        /\ ~Start(t) /\ y_out_valid => l_acc_reg' = [l_acc_reg EXCEPT !.ys = Append(@, y_out)]
        /\ ~y_out_valid => l_acc_reg' = l_acc_reg
    BY <2>1 DEF DataStep, AccumulateL, LInv
  <2>4. ASSUME t \in 0..271
        PROVE  l_acc_reg' = [from |-> [x |-> XOf(RowAt(t)), prev |-> l_acc_reg'.from.prev],
                             ys   |-> YsUpTo(RowAt(t), n)]
    <3>1. RowAt(t) \in Nat /\ KeyAt(t) \in 0..33 /\ t = 34 * RowAt(t) + KeyAt(t)
      BY <2>4 DEF RowAt, KeyAt
    <3>2. Busy(t) <=> KeyAt(t) < 32
      BY <2>4 DEF Busy, KeyAt
    <3>3. Start(t) <=> KeyAt(t) = 0
      BY <2>4 DEF Start, KeyAt
    <3>4. y_out_valid <=> KeyAt(t) < 32
      BY <3>2 DEF YInv
    <3>5. Busy(t) => y_out = YAt(34 * RowAt(t) + KeyAt(t))
      BY <3>1 DEF YInv
    <3>6. CASE KeyAt(t) = 0
      <4>1. now - 65 \in 0..271 /\ RowAt(now - 65) = RowAt(t)
        BY <1>1, <2>4, <3>6 DEF RowAt, KeyAt
      <4>2. val_A_reg.x = XOf(RowAt(t))
        BY <4>1 DEF XInv
      <4>3. l_acc_reg' = [from |-> val_A_reg, ys |-> Append(<<>>, y_out)]
        BY <2>3, <3>3, <3>4, <3>6
      <4>4. Append(<<>>, y_out) = YsUpTo(RowAt(t), n)
        <5>1. n = 0 + 1 /\ y_out = YAt(34 * RowAt(t) + 0)
          BY <3>2, <3>5, <3>6 DEF AtMost
        <5>2. QED
          BY <3>1, <5>1, SeqOfYs
      <4>5. val_A_reg = [x |-> val_A_reg.x, prev |-> val_A_reg.prev]
        BY DEF XInv
      <4>6. QED
        BY <4>2, <4>3, <4>4, <4>5
    <3>7. CASE KeyAt(t) # 0
      <4>1. now - 68 \in 0..271 /\ RowAt(now - 68) = RowAt(t) /\ KeyAt(now - 68) = KeyAt(t) - 1
        BY <1>1, <2>4, <3>7 DEF RowAt, KeyAt
      <4>2. l_acc_reg = [from |-> [x |-> XOf(RowAt(t)), prev |-> l_acc_reg.from.prev],
                         ys   |-> YsUpTo(RowAt(t), AtMost(KeyAt(t) - 1 + 1, 32))]
        BY <4>1 DEF LInv
      <4>3. CASE KeyAt(t) < 32
        <5>1. l_acc_reg' = [l_acc_reg EXCEPT !.ys = Append(@, y_out)]
          BY <2>3, <3>3, <3>4, <3>7, <4>3
        <5>2. AtMost(KeyAt(t) - 1 + 1, 32) = KeyAt(t) /\ n = KeyAt(t) + 1 /\ KeyAt(t) \in Nat
          BY <3>1, <4>3 DEF AtMost
        <5>3. Append(YsUpTo(RowAt(t), KeyAt(t)), y_out) = YsUpTo(RowAt(t), n)
          BY <3>1, <3>2, <3>5, <4>3, <5>2, SeqOfYs
        <5> HIDE DEF n, t
        <5>4. QED
          BY <4>2, <5>1, <5>2, <5>3
      <4>4. CASE ~(KeyAt(t) < 32)
        <5>1. l_acc_reg' = l_acc_reg
          BY <2>3, <3>4, <4>4
        <5>2. AtMost(KeyAt(t) - 1 + 1, 32) = n
          BY <3>1, <4>4 DEF AtMost
        <5> HIDE DEF n, t
        <5>3. QED
          BY <4>2, <5>1, <5>2
      <4>5. QED
        BY <4>3, <4>4
    <3>8. QED
      BY <3>6, <3>7
  <2>5. ASSUME t \in 0..271
        PROVE  (l_acc_reg = [from |-> [x |-> XOf(RowAt(now - 68)), prev |-> l_acc_reg.from.prev],
                             ys   |-> YsUpTo(RowAt(now - 68), AtMost(KeyAt(now - 68) + 1, 32))])'
    BY <2>1, <2>4, <2>5 DEF YsUpTo, YAt, ScoreAt, XOf
  <2>6. QED
    BY <2>1, <2>2, <2>5 DEF LInv
<1>3. CASE Rest
  <2>1. now' = 0 /\ now \in {0, 346} /\ DataStep
    BY <1>3 DEF Rest
  <2>2. ~Start(now - 66) /\ ~Start(now' - 67) /\ now' - 68 \notin 0..271
    BY <2>1 DEF Start
  <2>3. ~acc_init_delay'
    BY <2>1, <2>2, StrobesExp DEF DataStep, AccumulateL
  <2>4. QED
    BY <2>2, <2>3 DEF LInv
<1>4. CASE Idles
  BY <1>4 DEF Idles, dataRegs, LInv, YsUpTo, YAt, ScoreAt, XOf
<1>5. QED
  BY <1>2, <1>3, <1>4, CoreStepKinds

\* A product is not a bubble.
LEMMA ProductType ==
    ASSUME ScheduleInv, StateInv, NEW t \in 0..271
    PROVE  /\ OPrevOf(RowAt(t)) \in [Chunks -> RowState]
           /\ [init |-> TRUE, x |-> XOf(RowAt(t)), o |-> OPrevOf(RowAt(t))] # Bubble
           /\ KeyAt(t) \in 1..32 => [init |-> FALSE, y |-> YAt(t - 1), v |-> ValueAt(t - 1)] # Bubble
<1>1. RowAt(t) \in Rows /\ Stored \in Nat
  <2>1. RowAt(t) \in Rows
    BY DEF Rows, RowAt
  <2>2. Stored \in Nat
    BY DEF StateInv, Stored, Rows, Chunks, RowState
  <2>3. QED
    BY <2>1, <2>2
<1>2. OPrevOf(RowAt(t)) \in [Chunks -> RowState] /\ XOf(RowAt(t)) \in XTerm
  BY <1>1 DEF OPrevOf, RowState, XOf, XTerm
<1>3. [init |-> TRUE, x |-> XOf(RowAt(t)), o |-> OPrevOf(RowAt(t))] \in Product
  BY <1>2 DEF Product
<1>4. ASSUME KeyAt(t) \in 1..32
      PROVE  [init |-> FALSE, y |-> YAt(t - 1), v |-> ValueAt(t - 1)] \in Product
  <2>1. Busy(t - 1) /\ t - 1 \in Int /\ KeyAt(t - 1) \in Keys
    BY <1>4 DEF Busy, KeyAt, Keys
  <2>2. YAt(t - 1) \in YTerm
    BY <2>1, ScoreType
  <2>3. ValueAt(t - 1) \in [tile : 0..255, key : Keys]
    BY <2>1 DEF ValueAt, ScheduleInv, TypeOK, FsmTypeOK
  <2>4. QED
    BY <2>2, <2>3 DEF Product
<1>5. QED
  BY <1>2, <1>3, <1>4, BubbleAssumption

LEMMA StepV ==
    ASSUME ScheduleInv, StateInv, XInv, YInv, VInv, OInv, [CoreNext]_coreVars
    PROVE  VInv'
<1>1. now \in 0..346
  BY NowInPeriod
<1>2. CASE Cycle
  <2> DEFINE t == now - 66
  <2>1. now' = now + 1 /\ now' - 67 = t /\ tile_cnt' = tile_cnt /\ DataStep /\ t \in Int
    BY <1>1, <1>2 DEF Cycle
  <2>2. now' <= 338 => (sv_v_valid' <=> Busy(t))
    BY <1>1, <2>1, StrobesV DEF DataStep
  <2>3. Busy(t) => v_rdata' = ValueAt(t)
    <3>1. HAVE Busy(t)
    <3>2. now <= 337
      BY <1>1, <3>1 DEF Busy
    <3>3. QED
      BY <2>1, <3>1, <3>2, StrobesV DEF DataStep, ReadSram, ValueAt
  <2>4. ASSUME t \in 0..271
        PROVE  mult_reg' = IF KeyAt(t) = 0
                           THEN [init |-> TRUE, x |-> XOf(RowAt(t)), o |-> OPrevOf(RowAt(t))]
                           ELSE IF KeyAt(t) = 33 THEN Bubble
                           ELSE [init |-> FALSE, y |-> YAt(t - 1), v |-> ValueAt(t - 1)]
    <3>1. acc_init <=> KeyAt(t) = 0
      BY <2>4, StrobesExp DEF Start, KeyAt
    <3>2. KeyAt(t) \in 0..33 /\ (sv_v_valid <=> Busy(t - 1)) /\ t - 1 = now - 67
      BY <1>1, <2>4 DEF VInv, KeyAt
    <3>3. mult_reg' = IF acc_init THEN [init |-> TRUE, x |-> x_out, o |-> o_prev_assembly_reg]
                      ELSE IF sv_v_valid THEN [init |-> FALSE, y |-> y_out, v |-> v_rdata]
                      ELSE Bubble
      BY <2>1 DEF DataStep, MultiplySV
    <3>4. CASE KeyAt(t) = 0
      <4>1. now - 64 \in 0..271 /\ RowAt(now - 64) = RowAt(t)
        BY <1>1, <2>4, <3>4 DEF RowAt, KeyAt
      <4>2. now - 58 \in 0..271 /\ RowAt(now - 58) = RowAt(t) /\ KeyAt(now - 58) = 8
        BY <1>1, <2>4, <3>4 DEF RowAt, KeyAt
      <4>3. x_out = XOf(RowAt(t))
        BY <4>1 DEF XInv
      <4>4. \A c \in Chunks : o_prev_assembly_reg[c] = [row |-> RowAt(t), folds |-> Stored]
        BY <4>2 DEF OInv, Chunks
      <4>5. o_prev_assembly_reg = OPrevOf(RowAt(t))
        BY <4>4 DEF OInv, OPrevOf
      <4>6. QED
        BY <3>1, <3>3, <3>4, <4>3, <4>5
    <3>5. CASE KeyAt(t) \in 1..32
      <4>1. Busy(t - 1)
        BY <2>4, <3>5 DEF Busy, KeyAt
      <4>2. y_out = YAt(t - 1) /\ v_rdata = ValueAt(t - 1)
        BY <3>2, <4>1 DEF YInv, VInv
      <4>3. QED
        BY <3>1, <3>2, <3>3, <3>5, <4>1, <4>2
    <3>6. CASE KeyAt(t) = 33
      <4>1. ~Busy(t - 1)
        BY <2>4, <3>6 DEF Busy, KeyAt
      <4>2. QED
        BY <3>1, <3>2, <3>3, <3>6, <4>1
    <3>7. QED
      BY <3>2, <3>4, <3>5, <3>6
  <2>5. Stored' = Stored
    BY <1>2, StoredKept
  <2>6. ASSUME t \in 0..271
        PROVE  (mult_reg = IF KeyAt(now - 67) = 0
                           THEN [init |-> TRUE, x |-> XOf(RowAt(now - 67)), o |-> OPrevOf(RowAt(now - 67))]
                           ELSE IF KeyAt(now - 67) = 33 THEN Bubble
                           ELSE [init |-> FALSE, y |-> YAt(now - 67 - 1), v |-> ValueAt(now - 67 - 1)])'
    BY <2>1, <2>4, <2>5, <2>6 DEF YAt, ScoreAt, XOf, OPrevOf, ValueAt
  <2> HIDE DEF t
  <2>7. QED
    BY <2>1, <2>2, <2>3, <2>6 DEF VInv, ValueAt
<1>3. CASE Rest
  <2>1. now' = 0 /\ ((now = 0 /\ ~Running) \/ now = 346) /\ DataStep
    BY <1>3 DEF Rest
  <2>2. ~Busy(now' - 67) /\ now' - 67 \notin 0..271 /\ ~Busy(0 - 66)
    BY <2>1 DEF Busy
  <2>3. ~sfu_v_re
    <3>1. CASE now = 0
      BY <2>2, <3>1, StrobesV
    <3>2. CASE now = 346
      <4>1. ~v_active
        BY <3>2 DEF ScheduleInv, VReadTracksPhase, now
      <4>2. QED
        BY <4>1 DEF sfu_v_re
    <3>3. QED
      BY <2>1, <3>1, <3>2
  <2>4. ~sv_v_valid'
    BY <2>1, <2>3 DEF DataStep
  <2>5. QED
    BY <2>2, <2>4 DEF VInv
<1>4. CASE Idles
  BY <1>4 DEF Idles, dataRegs, VInv, ValueAt, YAt, ScoreAt, XOf, OPrevOf, Stored
<1>5. QED
  BY <1>2, <1>3, <1>4, CoreStepKinds

\* The chunks of O of a row are gathered before the row's own are written.
LEMMA StepAssembly ==
    ASSUME ScheduleInv, StateInv, OInv, DataStep
    PROVE  /\ o_prev_assembly_reg' \in [Chunks -> RowState \cup {Bubble}]
           /\ now - 57 \in 0..271 =>
                \A c \in Chunks : c < KeyAt(now - 57) =>
                   o_prev_assembly_reg'[c] = [row |-> RowAt(now - 57), folds |-> Stored]
<1>1. now \in 0..346 /\ Stored \in Nat
  BY NowInPeriod DEF StateInv, Stored, Rows, Chunks, RowState
<1> DEFINE u == now - 58
<1>2. CASE o_prev_ld_en
  <2>1. u \in 0..246 /\ RowAt(u) \in Rows /\ KeyAt(u) \in Chunks /\ now = 34 * RowAt(u) + 58 + KeyAt(u)
    BY <1>1, <1>2, StrobesO DEF Rows, Chunks, RowAt, KeyAt
  <2>2. o_prev_assembly_reg' = [o_prev_assembly_reg EXCEPT ![KeyAt(u)] = O_reg[RowAt(u)][KeyAt(u)]]
    BY <1>2, StrobesO DEF DataStep, AssembleOPrev
  <2>3. O_reg[RowAt(u)][KeyAt(u)] = [row |-> RowAt(u), folds |-> Stored]
    BY <1>1, <2>1 DEF StateInv, Done, Rows, Chunks
  <2>4. O_reg[RowAt(u)][KeyAt(u)] \in RowState
    BY <2>1 DEF StateInv
  <2>5. RowAt(now - 57) = RowAt(u) /\ KeyAt(now - 57) = KeyAt(u) + 1
    BY <1>1, <2>1 DEF RowAt, KeyAt, Chunks
  <2>6. \A c \in Chunks : c < KeyAt(u) => o_prev_assembly_reg[c] = [row |-> RowAt(u), folds |-> Stored]
    BY <2>1 DEF OInv
  <2> HIDE DEF u
  <2>7. ASSUME NEW c \in Chunks, c < KeyAt(u) + 1
        PROVE  o_prev_assembly_reg'[c] = [row |-> RowAt(u), folds |-> Stored]
    <3>1. c = KeyAt(u) \/ c < KeyAt(u)
      BY <2>1, <2>7 DEF Chunks
    <3>2. QED
      BY <2>1, <2>2, <2>3, <2>6, <3>1 DEF OInv, Chunks
  <2>8. QED
    BY <2>1, <2>2, <2>4, <2>5, <2>7 DEF OInv
<1>3. CASE ~o_prev_ld_en
  <2>1. o_prev_assembly_reg' = o_prev_assembly_reg
    BY <1>3 DEF DataStep, AssembleOPrev
  <2>2. ASSUME now - 57 \in 0..271, NEW c \in Chunks, c < KeyAt(now - 57)
        PROVE  o_prev_assembly_reg'[c] = [row |-> RowAt(now - 57), folds |-> Stored]
    <3>1. u \in 0..271 /\ RowAt(now - 57) = RowAt(u) /\ KeyAt(now - 57) = KeyAt(u) + 1
      BY <1>1, <2>2 DEF RowAt, KeyAt, Chunks
    <3>2. c < KeyAt(u)
      <4>1. KeyAt(u) \notin Chunks
        <5>1. KeyAt(u) \in Chunks => u \in 0..246
          BY <3>1 DEF KeyAt, Chunks
        <5>2. QED
          BY <1>3, <5>1, StrobesO
      <4>2. KeyAt(u) \in 0..33
        BY <3>1 DEF KeyAt
      <4>3. QED
        BY <4>1, <4>2 DEF Chunks
    <3>3. QED
      BY <2>1, <3>1, <3>2 DEF OInv
  <2>3. QED
    BY <2>1, <2>2 DEF OInv
<1>4. QED
  BY <1>2, <1>3

LEMMA StepOut ==
    ASSUME ScheduleInv, StateInv, VInv, OInv, [CoreNext]_coreVars
    PROVE  OInv'
<1>1. now \in 0..346
  BY NowInPeriod
<1>2. CASE Cycle
  <2> DEFINE t == now - 67
  <2>1. now' = now + 1 /\ now' - 68 = t /\ now' - 58 = now - 57 /\ now' - 101 = now - 100
        /\ tile_cnt' = tile_cnt /\ DataStep /\ t \in Int
    BY <1>1, <1>2 DEF Cycle
  <2>2. Stored' = Stored
    BY <1>2, StoredKept
  <2>3. ASSUME t \in 0..271
        PROVE  o_acc' = [x |-> XOf(RowAt(t)), o |-> OPrevOf(RowAt(t)),
                         terms |-> TermsUpTo(RowAt(t), AtMost(KeyAt(t), 32))]
    <3>1. RowAt(t) \in Nat /\ KeyAt(t) \in 0..33 /\ t = 34 * RowAt(t) + KeyAt(t)
      BY <2>3 DEF RowAt, KeyAt
    <3>2. mult_reg = IF KeyAt(t) = 0 THEN [init |-> TRUE, x |-> XOf(RowAt(t)), o |-> OPrevOf(RowAt(t))]
                     ELSE IF KeyAt(t) = 33 THEN Bubble
                     ELSE [init |-> FALSE, y |-> YAt(t - 1), v |-> ValueAt(t - 1)]
      BY <2>3 DEF VInv
    <3>3. o_acc' = IF mult_reg = Bubble THEN o_acc
                   ELSE IF mult_reg.init
                   THEN [x |-> mult_reg.x, o |-> mult_reg.o, terms |-> <<>>]
                   ELSE [o_acc EXCEPT !.terms = Append(@, <<mult_reg.y, mult_reg.v>>)]
      BY <2>1 DEF DataStep, MultiplySV
    <3>4. CASE KeyAt(t) = 0
      <4>1. mult_reg # Bubble /\ mult_reg.init /\ mult_reg.x = XOf(RowAt(t)) /\ mult_reg.o = OPrevOf(RowAt(t))
        BY <2>3, <3>2, <3>4, ProductType
      <4>2. TermsUpTo(RowAt(t), AtMost(KeyAt(t), 32)) = <<>>
        BY <3>1, <3>4, SeqOfYs DEF AtMost
      <4>3. QED
        BY <3>3, <4>1, <4>2
    <3>5. CASE KeyAt(t) # 0
      <4>1. now - 68 = t - 1 /\ t - 1 \in 0..271 /\ RowAt(t - 1) = RowAt(t) /\ KeyAt(t - 1) = KeyAt(t) - 1
        BY <1>1, <2>3, <3>5 DEF RowAt, KeyAt
      <4>2. o_acc = [x |-> XOf(RowAt(t)), o |-> OPrevOf(RowAt(t)),
                     terms |-> TermsUpTo(RowAt(t), AtMost(KeyAt(t) - 1, 32))]
        BY <4>1 DEF OInv
      <4>3. CASE KeyAt(t) = 33
        <5>1. o_acc' = o_acc
          BY <3>2, <3>3, <4>3
        <5>2. AtMost(KeyAt(t) - 1, 32) = AtMost(KeyAt(t), 32)
          BY <4>3 DEF AtMost
        <5>3. QED
          BY <4>2, <5>1, <5>2
      <4>4. CASE KeyAt(t) \in 1..32
        <5>1. mult_reg # Bubble /\ ~mult_reg.init /\ mult_reg.y = YAt(t - 1) /\ mult_reg.v = ValueAt(t - 1)
          <6>1. mult_reg = [init |-> FALSE, y |-> YAt(t - 1), v |-> ValueAt(t - 1)]
            BY <3>2, <4>4
          <6>2. mult_reg # Bubble
            BY <2>3, <4>4, <6>1, ProductType
          <6>3. QED
            BY <6>1, <6>2
        <5>2. o_acc' = [o_acc EXCEPT !.terms = Append(@, Term(t - 1))]
          BY <3>3, <5>1 DEF Term
        <5>3. AtMost(KeyAt(t) - 1, 32) = KeyAt(t) - 1 /\ AtMost(KeyAt(t), 32) = KeyAt(t)
          BY <4>4 DEF AtMost
        <5>4. Append(TermsUpTo(RowAt(t), KeyAt(t) - 1), Term(t - 1)) = TermsUpTo(RowAt(t), KeyAt(t))
          <6>1. t - 1 = 34 * RowAt(t) + (KeyAt(t) - 1) /\ KeyAt(t) - 1 \in Nat /\ KeyAt(t) - 1 + 1 = KeyAt(t)
            BY <3>1, <4>4
          <6>2. QED
            BY <3>1, <6>1, SeqOfYs
        <5> HIDE DEF t
        <5>5. QED
          BY <4>2, <5>2, <5>3, <5>4
      <4>5. QED
        BY <3>1, <3>5, <4>3, <4>4
    <3>6. QED
      BY <3>4, <3>5
  <2>4. now - 100 \in 0..271 => shadow_reg'.o = OPrevOf(RowAt(now - 100))
    <3>1. HAVE now - 100 \in 0..271
    <3>2. shadow_reg' = IF Start(now - 100) THEN o_acc ELSE shadow_reg
      BY <2>1, StrobesO DEF DataStep, MultiplySV
    <3>3. CASE Start(now - 100)
      <4>1. now - 68 \in 0..271 /\ RowAt(now - 68) = RowAt(now - 100)
        BY <1>1, <3>3 DEF Start, RowAt
      <4>2. QED
        BY <3>2, <3>3, <4>1 DEF OInv
    <3>4. CASE ~Start(now - 100)
      <4>1. now - 101 \in 0..271 /\ RowAt(now - 101) = RowAt(now - 100)
        BY <1>1, <3>1, <3>4 DEF Start, RowAt
      <4>2. QED
        BY <3>2, <3>4, <4>1 DEF OInv
    <3>5. QED
      BY <3>3, <3>4
  <2>5. ASSUME t \in 0..271
        PROVE  (o_acc = [x |-> XOf(RowAt(now - 68)), o |-> OPrevOf(RowAt(now - 68)),
                         terms |-> TermsUpTo(RowAt(now - 68), AtMost(KeyAt(now - 68), 32))])'
    BY <2>1, <2>2, <2>3, <2>5 DEF TermsUpTo, Term, YAt, ScoreAt, ValueAt, XOf, OPrevOf
  <2>6. now - 57 \in 0..271 =>
            \A c \in Chunks : c < KeyAt(now - 57) =>
               o_prev_assembly_reg'[c] = [row |-> RowAt(now - 57), folds |-> Stored']
    BY <2>1, <2>2, StepAssembly
  <2>7. (now - 101 \in 0..271 => shadow_reg.o = OPrevOf(RowAt(now - 101)))'
    BY <2>1, <2>2, <2>4 DEF OPrevOf
  <2>8. (now - 58 \in 0..271 =>
            \A c \in Chunks : c < KeyAt(now - 58) =>
               o_prev_assembly_reg[c] = [row |-> RowAt(now - 58), folds |-> Stored])'
    BY <2>1, <2>6
  <2>9. (o_prev_assembly_reg \in [Chunks -> RowState \cup {Bubble}])'
    BY <2>1, StepAssembly DEF RowState
  <2> HIDE DEF t
  <2>10. QED
    BY <2>1, <2>5, <2>7, <2>8, <2>9 DEF OInv
<1>3. CASE Rest
  <2>1. now' = 0 /\ DataStep
    BY <1>3 DEF Rest
  <2>2. now' - 58 \notin 0..271 /\ now' - 68 \notin 0..271 /\ now' - 101 \notin 0..271
    BY <2>1
  <2>3. QED
    BY <2>1, <2>2, StepAssembly DEF OInv, RowState
<1>4. CASE Idles
  BY <1>4 DEF Idles, dataRegs, OInv, TermsUpTo, Term, YAt, ScoreAt, ValueAt, XOf, OPrevOf, Stored, RowState
<1>5. QED
  BY <1>2, <1>3, <1>4, CoreStepKinds

-----------------------------------------------------------------------------
(* The invariant, what follows from it, and the theorems of the core. *)

\* The data path does not act back on the control path.
LEMMA CoreStepsControl == [CoreNext]_coreVars => [Next]_vars
  BY DEF CoreNext, CoreTick, CoreHostConfigures, coreVars, Next

LEMMA InitData ==
    ASSUME CoreInit
    PROVE  /\ QInv /\ QkInv /\ FifoPos
           /\ MaxInv /\ StateInv
<1>1. now = 0 /\ ~Running /\ DataInit /\ Fifo!FifoInit /\ ~qk_valid_in /\ ~sv_v_valid
  BY DEF CoreInit, Init, FsmInit, TopInit, Running, now
<1>2. \A t \in Int : t < 0 => ~Busy(t) /\ ~Start(t)
  BY DEF Busy, Start
<1>3. QInv
  BY <1>1, <1>2 DEF QInv
<1>4. QkInv
  <2>1. qk_pipe = [stage \in 1..8 |-> Bubble] /\ s_out = Bubble /\ s_valid = FALSE
    BY <1>1 DEF DataInit, Stages
  <2>2. \A i \in 1..8 : ~Busy(now - 2 - i)
    BY <1>1, <1>2
  <2>3. ~Busy(now - 11)
    BY <1>1, <1>2
  <2>4. QED
    BY <2>1, <2>2, <2>3 DEF QkInv
<1>5. FifoPos
  <2>1. Before(now - 11) = 0 /\ Before(now - 45) = 0
    BY <1>1 DEF Before
  <2>2. QED
    BY <1>1, <2>1 DEF FifoPos, Fifo!FifoInit, Fifo!Slot
<1>6. StateInv
  <2>1. /\ M_reg = [r \in Rows |-> Fresh(r)]
        /\ O_reg = [r \in Rows |-> [c \in Chunks |-> Fresh(r)]]
    BY <1>1 DEF DataInit
  <2>2. \A r \in Rows : Fresh(r) \in RowState /\ Fresh(r) = [row |-> r, folds |-> 0]
    BY DEF Fresh, RowState
  <2>3. Stored = 0
    BY <2>1, <2>2 DEF Stored, Rows, Chunks
  <2>4. \A g \in Nat : Done(g) = 0
    BY <1>1 DEF Done
  <2>5. /\ \A r \in Rows : M_reg[r] = [row |-> r, folds |-> Stored + Done(34 * r + 42)]
        /\ \A r \in Rows, c \in Chunks :
               O_reg[r][c] = [row |-> r, folds |-> Stored + Done(34 * r + 101 + c)]
    BY <2>1, <2>2, <2>3, <2>4 DEF Rows, Chunks
  <2>6. QED
    BY <2>1, <2>2, <2>5 DEF StateInv
<1>7. MaxInv
  <2>1. running_max = [prev |-> Fresh(0), seen |-> {}] /\ m_y_reg = running_max /\ ~we_m_d1
        /\ M_reg[0] = Fresh(0)
    BY <1>1 DEF DataInit, Rows
  <2>2. running_max \in Max
    BY <2>1 DEF Max, Fresh, RowState, Rows
  <2>3. QED
    BY <1>1, <1>2, <2>1, <2>2 DEF MaxInv
<1>8. QED
  BY <1>3, <1>4, <1>5, <1>6, <1>7

LEMMA InitPipes ==
    ASSUME CoreInit
    PROVE  XInv /\ YInv /\ LInv /\ VInv /\ OInv
<1>1. now = 0 /\ DataInit /\ ~sv_v_valid
  BY DEF CoreInit, Init, FsmInit, TopInit, Running, now
<1>2. \A t \in Int : t < 0 => ~Busy(t) /\ ~Start(t)
  BY DEF Busy, Start
<1>3. XInv
  BY <1>1, <1>2 DEF XInv, DataInit, Stages
<1>4. YInv
  BY <1>1, <1>2 DEF YInv, DataInit, Stages
<1>5. LInv
  BY <1>1, <1>2 DEF LInv, DataInit
<1>6. VInv
  BY <1>1, <1>2 DEF VInv
<1>7. OInv
  BY <1>1 DEF OInv, DataInit
<1>8. QED
  BY <1>3, <1>4, <1>5, <1>6, <1>7

LEMMA CoreInvariant == CoreSpec => []CoreInv
<1>1. CoreInit => CoreInv
  BY InitSchedule, InitData, InitPipes DEF CoreInit, CoreInv
<1>2. ASSUME CoreInv, [CoreNext]_coreVars PROVE CoreInv'
  <2>1. ScheduleInv'
    BY <1>2, CoreStepsControl, StepSchedule DEF CoreInv
  <2>2. QInv' /\ QkInv' /\ FifoPos'
    BY <1>2, StepQ, StepQk, StepFifo DEF CoreInv
  <2>3. MaxInv' /\ XInv' /\ StateInv'
    BY <1>2, StepMax, StepX, StepState DEF CoreInv
  <2>4. YInv' /\ LInv' /\ VInv' /\ OInv'
    BY <1>2, StepY, StepL, StepV, StepOut DEF CoreInv
  <2>5. QED
    BY <2>1, <2>2, <2>3, <2>4 DEF CoreInv
<1>3. QED
  BY <1>1, <1>2, PTL DEF CoreSpec

LEMMA InvFifoMargin == CoreInv => FifoMargin
<1> SUFFICES ASSUME CoreInv PROVE FifoMargin
  OBVIOUS
<1>1. cnt \in 0..32 /\ (Busy(now - 45) => cnt > 0) /\ (now = 0 => cnt = 0)
  BY FifoDelivers DEF CoreInv
<1>2. fifo_rd_en(FALSE) => ~Fifo!empty
  <2>1. fifo_rd_en(FALSE) => Busy(now - 45)
    BY StrobesExp DEF CoreInv
  <2>2. cnt > 0 => ~Fifo!empty
    BY DEF Fifo!empty
  <2>3. QED
    BY <1>1, <2>1, <2>2
<1>3. ~Running => Fifo!empty
  BY <1>1, NowInPeriod DEF CoreInv, Fifo!empty
<1>4. cnt <= 32
  BY <1>1
<1>5. QED
  BY <1>2, <1>3, <1>4, Zenon DEF FifoMargin

LEMMA InvReads == CoreInv => ScoreReadsOnSchedule
<1> SUFFICES ASSUME CoreInv PROVE ScoreReadsOnSchedule
  OBVIOUS
<1>1. /\ Busy(now - 45) => Fifo!rd_data = ScoreAt(now - 45)
      /\ exp_y_en(Fifo!empty) <=> Busy(now - 45)
      /\ exp_y_en(FALSE) => Busy(now - 45)
  BY FifoDelivers, StrobesExp DEF CoreInv, exp_y_en
<1>2. ASSUME NEW r \in Rows, NEW j \in Keys, At(34 * r + 45 + j)
      PROVE  exp_y_en(Fifo!empty) /\ Fifo!rd_data = ScoreOf(r, j)
  <2>1. now - 45 = 34 * r + j
    BY <1>2 DEF At, now, Rows, Keys
  <2>2. Busy(34 * r + j) /\ RowAt(34 * r + j) = r /\ KeyAt(34 * r + j) = j
    BY DEF Busy, RowAt, KeyAt, Rows, Keys
  <2>3. QED
    BY <1>1, <2>1, <2>2 DEF ScoreAt, ScoreOf
<1>3. ASSUME Busy(now - 45)
      PROVE  \E r \in Rows, j \in Keys : At(34 * r + 45 + j)
  <2> DEFINE t == now - 45
             r == RowAt(t)
             j == KeyAt(t)
  <2>1. now \in 0..346 /\ (~Running => now = 0)
    BY NowInPeriod DEF CoreInv
  <2>2. t \in 0..271 /\ t % 34 < 32 /\ now = t + 45
    BY <1>3, <2>1 DEF Busy
  <2>3. r \in Rows /\ j \in Keys /\ t = 34 * r + j
    <3> HIDE DEF t
    <3>1. QED
      BY <2>2 DEF RowAt, KeyAt, Rows, Keys
  <2>4. Running /\ global_cycle = 34 * r + 45 + j
    <3> HIDE DEF t, r, j
    <3>1. Running /\ global_cycle = now
      BY <2>1, <2>2 DEF now
    <3>2. QED
      BY <2>2, <2>3, <3>1 DEF Rows, Keys
  <2>5. QED
    BY <2>3, <2>4 DEF At
<1>4. QED
  BY <1>1, <1>2, <1>3 DEF ScoreReadsOnSchedule

LEMMA InvMax == CoreInv => MaxOfOwnRow
<1> SUFFICES ASSUME CoreInv, NEW r \in Rows, we_m, m_wr_addr = r
             PROVE  M_reg[r].row = r /\ m_prev = M_reg[r] /\ running_max_fwd.prev = M_reg[r]
  BY DEF MaxOfOwnRow
<1> USE DEF CoreInv
<1>1. Start(now - 42) /\ RowAt(now - 42) = r /\ m_rd_addr = r
  BY StrobesM
<1>2. running_max_fwd.prev = M_reg[r]
  BY <1>1, MaxStartsFromM
<1>3. QED
  BY <1>1, <1>2 DEF StateInv, m_prev

\* The 32 exponentials of a row, and its 32 products.
LEMMA RowComplete ==
    ASSUME NEW r \in Rows
    PROVE  /\ YsUpTo(r, 32) = YsOf(r)
           /\ TermsUpTo(r, 32) =
                  [i \in 1..32 |-> <<YsOf(r)[i], [tile |-> tile_cnt, key |-> i - 1]>>]
<1>1. ASSUME NEW i \in 1..32
      PROVE  /\ YAt(34 * r + (i - 1)) = [score |-> ScoreOf(r, i - 1), m |-> r]
             /\ ValueAt(34 * r + (i - 1)) = [tile |-> tile_cnt, key |-> i - 1]
  <2>1. RowAt(34 * r + (i - 1)) = r /\ KeyAt(34 * r + (i - 1)) = i - 1
    BY DEF Rows, RowAt, KeyAt
  <2>2. QED
    BY <2>1 DEF YAt, ScoreAt, ScoreOf, ValueAt
<1>2. QED
  BY <1>1 DEF YsUpTo, YsOf, TermsUpTo, Term

LEMMA InvSum == CoreInv => SumOfOwnRow
<1> SUFFICES ASSUME CoreInv, NEW r \in Rows, we_l, lo_wr_addr = r
             PROVE  l_acc_reg.ys = YsOf(r) /\ l_acc_reg.from.x = [row |-> r, m |-> r]
  BY DEF SumOfOwnRow
<1>1. now \in 0..346 /\ Start(now - 99) /\ RowAt(now - 99) = r
  BY NowInPeriod, StrobesExp DEF CoreInv
<1>2. now - 68 \in 0..271 /\ RowAt(now - 68) = r /\ AtMost(KeyAt(now - 68) + 1, 32) = 32
  BY <1>1 DEF Start, RowAt, KeyAt, AtMost
<1>3. l_acc_reg.ys = YsUpTo(r, 32) /\ l_acc_reg.from.x = XOf(r)
  BY <1>2 DEF CoreInv, LInv
<1>4. QED
  BY <1>3, RowComplete DEF XOf

LEMMA InvOutput == CoreInv => OutputOfOwnRow
<1> SUFFICES ASSUME CoreInv, NEW r \in Rows, shadow_latch, lo_wr_addr = r
             PROVE  /\ o_acc.x = [row |-> r, m |-> r]
                    /\ o_acc.o = O_reg[r]
                    /\ o_acc.terms =
                           [i \in 1..32 |-> <<YsOf(r)[i], [tile |-> tile_cnt, key |-> i - 1]>>]
  BY DEF OutputOfOwnRow
<1>1. now \in 0..346 /\ Start(now - 100) /\ RowAt(now - 100) = r
  BY NowInPeriod, StrobesO DEF CoreInv
<1>2. now - 68 \in 0..271 /\ RowAt(now - 68) = r /\ AtMost(KeyAt(now - 68), 32) = 32
  BY <1>1 DEF Start, RowAt, KeyAt, AtMost
<1>3. o_acc.x = XOf(r) /\ o_acc.o = OPrevOf(r) /\ o_acc.terms = TermsUpTo(r, 32)
  BY <1>2 DEF CoreInv, OInv
<1>4. O_reg[r] = OPrevOf(r)
  <2>1. now = 34 * r + 100
    BY <1>1 DEF Start, RowAt
  <2>2. Stored \in Nat
    BY DEF CoreInv, StateInv, Stored, Rows, Chunks, RowState
  <2>3. \A c \in Chunks : O_reg[r][c] = [row |-> r, folds |-> Stored]
    BY <2>1, <2>2 DEF CoreInv, StateInv, Done, Rows, Chunks
  <2>4. O_reg[r] \in [Chunks -> RowState]
    BY DEF CoreInv, StateInv
  <2>5. QED
    BY <2>3, <2>4 DEF OPrevOf
<1>5. QED
  BY <1>3, <1>4, RowComplete DEF XOf

LEMMA InvFolds == CoreInv => RowsFoldTogether
<1> SUFFICES ASSUME CoreInv, ~Running, NEW r \in Rows
             PROVE  /\ M_reg[r] = [row |-> r, folds |-> M_reg[0].folds]
                    /\ \A c \in Chunks : O_reg[r][c] = M_reg[r]
  BY DEF RowsFoldTogether
<1>1. now = 0 /\ Stored \in Nat
  BY NowInPeriod DEF CoreInv, StateInv, Stored, Rows, Chunks, RowState
<1>2. \A q \in Rows : M_reg[q] = [row |-> q, folds |-> Stored]
  BY <1>1 DEF CoreInv, StateInv, Done, Rows
<1>3. \A c \in Chunks : O_reg[r][c] = [row |-> r, folds |-> Stored]
  BY <1>1 DEF CoreInv, StateInv, Done, Rows, Chunks
<1>4. M_reg[0].folds = Stored
  BY <1>2 DEF Rows
<1>5. QED
  BY <1>2, <1>3, <1>4

\* The FIFO is never overrun, never read dry within a row, holds one row's 32 scores at
\* most and ends a tile empty, though it is never flushed (score_fifo.sv:14,
\* flash_sfu_core_top.sv:430): the empty flag never gates a read of main_fsm.sv:209.
THEOREM FifoMarginHolds == CoreSpec => []FifoMargin
  BY CoreInvariant, InvFifoMargin, PTL

\* main_fsm.sv:209-218: every score enters its exponential in the cycle its row's start
\* fixes, and the window is open in no other: the empty flag, which gates the reads, makes
\* no difference to when they happen.
THEOREM ReadsAreOnSchedule == CoreSpec => []ScoreReadsOnSchedule
  BY CoreInvariant, InvReads, PTL

\* The maximum of each row continues the maximum stored for that row
\* (reduction_m_expx.sv:65: the restart is a cycle late, and takes M of the row to come).
THEOREM MaxCorrect == CoreSpec => []MaxOfOwnRow
  BY CoreInvariant, InvMax, PTL

\* What is written to L of a row is the sum over all 32 exponentials of that row, once
\* each and in order, with the row's own maximum and X, whatever rows run beside it.
THEOREM SumCorrect == CoreSpec => []SumOfOwnRow
  BY CoreInvariant, InvSum, PTL

\* What is written to O of a row is X of the row times its O plus Y_j V_j for each of the 32
\* keys, each exponential with its own value, in every tile of every launch.
THEOREM OutputCorrect == CoreSpec => []OutputOfOwnRow
  BY CoreInvariant, InvOutput, PTL

\* A tile is folded into M and O of every row exactly once and under the row's own address.
THEOREM FoldsCorrect == CoreSpec => []RowsFoldTogether
  BY CoreInvariant, InvFolds, PTL
=============================================================================
