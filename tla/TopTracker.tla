------------------------------ MODULE TopTracker ------------------------------
(***************************************************************************)
(* The top level's own cycle counter and the SRAM address generators        *)
(* driven by it (src/rtl/top/flash_sfu_core_top.sv).  The counter is meant  *)
(* to repeat that of the control FSM, from which it sees only tile_ready.   *)
(***************************************************************************)
EXTENDS Integers

VARIABLES
    top_running, top_global_cycle, top_tile_done,   \* the cycle tracker
    k_active, k_counter,                            \* K read addresses
    v_active, v_counter,                            \* V read addresses
    qk_valid_in, sv_v_valid                         \* SRAM data valid, a cycle later

topVars == <<top_running, top_global_cycle, top_tile_done, k_active, k_counter,
             v_active, v_counter, qk_valid_in, sv_v_valid>>

TopCountersOK ==
    /\ top_global_cycle \in 0..346
    /\ k_counter \in 0..33
    /\ v_counter \in 0..33

TopFlagsOK ==
    /\ top_running \in BOOLEAN
    /\ top_tile_done \in BOOLEAN
    /\ k_active \in BOOLEAN
    /\ v_active \in BOOLEAN
    /\ qk_valid_in \in BOOLEAN
    /\ sv_v_valid \in BOOLEAN

sfu_k_re == k_active /\ k_counter < 32
sfu_v_re == v_active /\ v_counter < 32

\* k_counter[4:0] and v_counter[4:0]: read only under the enables, below 32.
sfu_k_addr == k_counter
sfu_v_addr == v_counter

TopInit ==
    /\ top_running = FALSE
    /\ top_global_cycle = 0
    /\ top_tile_done = FALSE
    /\ k_active = FALSE
    /\ k_counter = 0
    /\ v_active = FALSE
    /\ v_counter = 0
    /\ qk_valid_in = FALSE
    /\ sv_v_valid = FALSE

Launch ==
    /\ top_running' = TRUE
    /\ top_global_cycle' = 0
    /\ top_tile_done' = FALSE

CountCycle ==
    /\ IF top_global_cycle < 346
          THEN /\ top_global_cycle' = top_global_cycle + 1
               /\ UNCHANGED top_tile_done
          ELSE /\ top_tile_done' = TRUE
               /\ UNCHANGED top_global_cycle
    /\ UNCHANGED top_running

\* Mutant of TileHandshake: the next tile keeps the count of the last one.
TileHandshakeKeepsCount(ready) ==
    /\ top_tile_done' = FALSE
    /\ top_running' = ~ready
    /\ UNCHANGED top_global_cycle

TileHandshake(ready) ==
    /\ top_tile_done' = FALSE
    /\ top_running' = ~ready
    /\ top_global_cycle' = IF ready THEN top_global_cycle ELSE 0

TrackCycle(start, ready) ==
    IF ~top_running
    THEN IF start
         THEN Launch
         ELSE UNCHANGED <<top_running, top_global_cycle, top_tile_done>>
    ELSE IF top_tile_done THEN TileHandshake(ready) ELSE CountCycle

\* Both counters run through the 34 cycles of a row and read in the first 32.
NextInRow(counter) == IF counter = 33 THEN 0 ELSE counter + 1

\* Mutant of ReadK: the generator stops at the last row's start, not its end.
ReadKStopsEarly ==
    IF ~top_running \/ top_tile_done
    THEN k_active' = FALSE /\ k_counter' = 0
    ELSE IF ~k_active
    THEN IF top_global_cycle = 0
         THEN k_active' = TRUE /\ k_counter' = 0
         ELSE UNCHANGED <<k_active, k_counter>>
    ELSE IF top_global_cycle > 238
         THEN k_active' = FALSE /\ UNCHANGED k_counter
         ELSE k_counter' = NextInRow(k_counter) /\ UNCHANGED k_active

ReadK ==
    IF ~top_running \/ top_tile_done
    THEN k_active' = FALSE /\ k_counter' = 0
    ELSE IF ~k_active
    THEN IF top_global_cycle = 0
         THEN k_active' = TRUE /\ k_counter' = 0
         ELSE UNCHANGED <<k_active, k_counter>>
    ELSE IF top_global_cycle > 271
         THEN k_active' = FALSE /\ UNCHANGED k_counter
         ELSE k_counter' = NextInRow(k_counter) /\ UNCHANGED k_active

\* Mutant of ReadV: the stream is never closed, only the end of the tile stops it.
ReadVRunsOn ==
    IF ~top_running \/ top_tile_done
    THEN v_active' = FALSE /\ v_counter' = 0
    ELSE IF ~v_active
    THEN IF top_global_cycle = 65
         THEN v_active' = TRUE /\ v_counter' = 0
         ELSE UNCHANGED <<v_active, v_counter>>
    ELSE v_counter' = NextInRow(v_counter) /\ UNCHANGED v_active

ReadV ==
    IF ~top_running \/ top_tile_done
    THEN v_active' = FALSE /\ v_counter' = 0
    ELSE IF ~v_active
    THEN IF top_global_cycle = 65
         THEN v_active' = TRUE /\ v_counter' = 0
         ELSE UNCHANGED <<v_active, v_counter>>
    ELSE IF top_global_cycle > 341
         THEN v_active' = FALSE /\ v_counter' = 0
         ELSE v_counter' = NextInRow(v_counter) /\ UNCHANGED v_active

TopClock(start, ready) ==
    /\ TrackCycle(start, ready)
    /\ ReadK
    /\ ReadV
    /\ qk_valid_in' = sfu_k_re
    /\ sv_v_valid' = sfu_v_re

TopReset ==
    /\ top_running' = FALSE
    /\ top_global_cycle' = 0
    /\ top_tile_done' = FALSE
    /\ k_active' = FALSE
    /\ k_counter' = 0
    /\ v_active' = FALSE
    /\ v_counter' = 0
    /\ qk_valid_in' = FALSE
    /\ sv_v_valid' = FALSE
=============================================================================
