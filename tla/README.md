# A verification project for PULS

PULS serves a large language model on nodes whose attention runs near memory. The repository has two
halves: `puls-engine/` (C++), which decides which requests sit on a node and which of them form the next
micro-batch, and `rtl/` (SystemVerilog), the Flash-SFU, a pipelined core that folds tiles of keys and
values into the running maximum M, sum L and output O of eight query rows. This directory holds TLA+
models of both, the TLC configurations that check them and proofs for TLAPS. Source paths below are
relative to the repository.

    tlc -config NodeScheduler.cfg MCNodeScheduler.tla      # and so on, see "Runs"
    tlapm FlashSfuCoreProofs.tla                           # and so on, see "Proofs"

## 1. Inventory

| Component | State | Operations | Talks to |
|---|---|---|---|
| Decode/prefill steering, `core/steering.cpp` | none; a shared `used` mask | `steer_decode_set`, `steer_prefill_chunks`, `age_update` | node scheduler, drivers |
| Node scheduler, `core/node_scheduler.cpp` | resident pool (length, progress, wait) | `admit_centered`, `advance_round` | pulls from a `RequestSource` |
| Serving runtime, `runtime/runtime.cpp` | waiting queue | `enqueue`, `pull_near`, `warm_fill` | is the source of the node |
| Cluster KV cache, `scheduler/cache.cpp` | entry index, bytes used and budget per node | `on_complete`, `lookup`, `peek`, `enforce_budget`, `evict_tick` | called by the cluster drivers |
| Global queue, `scheduler/queue.cpp` | waiting requests with arrivals | `push`, `pull_near`, `pull_slot` | cluster drivers |
| Pre-positioning, `scheduler/preposition.cpp` | sum and free slots of a batch being composed | `next_ideal`, `place` | `prepo` driver |
| Cluster drivers, `sim/csched.cpp`, `baseline.cpp`, `prepo.cpp`, with `workload_mt.cpp`, `harness.h` | pools of all nodes, affinity queues, pending returns, id counters | one round: evict, returns, spill, batches, retire, refill, cut budget | queue, cache, steering |
| Cluster simulation, `sim/sim.cpp`, `core/workload.cpp` | a draw of requests, the nodes | gate, place, churn and heal | global scheduler |
| Lifecycle driver, `sim/lifecycle.cpp` | prefill pool, ready stack, decode pool | one round: two prefill batches, transition, two decode batches, refill | steering |
| Global scheduler, `core/global_scheduler.cpp` | node contents during placement | `gate`, `cold_start`, `heal_node`, `onpoint_batches` | cluster simulation, drivers |
| Operating point, `core/derive.cpp`, `core/optime.cpp` | none | closed-form arithmetic | everybody reads the result |
| Control FSM, `rtl/ctrl/main_fsm.sv` | state, cycle, phase, row and tile counters, bank, O row latch | one clock edge per state; fourteen strobes | every block, by strobes only |
| Top level, `rtl/top/flash_sfu_core_top.sv` | a second cycle counter, K and V address generators, L snapshot, O_prev assembly | clock edges | sees only `tile_ready` of the FSM |
| Score FIFO, `rtl/datapath/score_fifo.sv` | ring, two pointers, count | read, write, both, flush | QK multiplier, EXP_Y |
| State registers, `rtl/mem/state_rf.sv` | M, L, O of 8 rows | strobed reads and writes | row counter of the FSM |
| SRAM, `rtl/mem/pingpong_sram.sv` | two banks | core reads one, DMA writes the other | `bank_sel` |
| Datapath, `rtl/datapath/*.sv` | pipeline registers | QK product (9 cycles), two exponentials (22 cycles), accumulators | each other, by timing only |

**What is hard.** The engine is sequential, but its state is shaped by long sequences of rounds: waits,
holes, idle ages and byte counters are maintained incrementally by operations that never look at the
whole, and the environment (arrivals, returns, budgets) may do anything in between. In the RTL nothing
handshakes: up to four rows are in flight, two counters run side by side, and a datum is paired with
whatever the other block holds in that cycle. The hazards are listed, with their lines, in `PROJECT.json`.

**What makes each part correct.** Node: nothing is lost or served twice, nobody starves, the two
micro-batches of a round are disjoint and obey the targets, a completion is refilled like for like.
Cache: the counters equal the entries, the budget holds, cuts are least-recent and minimal, a
conversation's KV survives as long as it is used. FIFO: it is a queue. Control: both counters agree and
each row is addressed at its own cycles. Core: each row's M, L and O are made of that row's data, each
datum exactly once. Cluster: the number of live requests is conserved by every step, a return waits for
its node no longer than the spill cap and in the global queue nobody overtakes an older overdue request,
the cache and the residents' surplus fit the HBM together, a return finds its own KV. Lifecycle: the
prefill batches of a round are disjoint, no prompt starves, places go to finished prompts first. Global
scheduler: the gate sheds the fewest, nodes keep both limits, what is left over fits nowhere.

## 2. Modules

| Module | Models | Notes |
|---|---|---|
| `Loops` | counted loops | `Iterate(n, Step, start)` applies a loop's body n times; `Only` (the members a scan keeps) and `Sum` are two such loops. Every loop of the engine whose state matters is written this way, so that one theory serves all of them. |
| `Steering` | decode and prefill steering | Pools are sequences; scans with strict `<` keep the first of equals. Comparisons of `abs(x - a/b)` are scaled by `b`, which orders alike in exact arithmetic. |
| `NodeScheduler` | node scheduler and runtime | The pool and the queue change together, so admission is an operator on the pair. Actions: `Enqueue`, `WarmFill` (only before the first round, as the runtime does), `AdvanceRound`. |
| `CacheOps` | the cache's operations | Each is an operator on the record of index, bytes and budget, used by `ClusterCache` and by the drivers. The loop of `enforce_budget` is the set it demotes (`Cut`): those that find the node over the limit when the ones before have left. |
| `KvStore` | what the cache promises | A store that loses what was left unused, nothing else. |
| `ClusterCache` | the cache on its own | One action per operation, in any order. `last` is kept as rounds since; all drivers call `evict_tick` first and once in a round. The iteration order of the hash map is a nondeterministic rank. |
| `GlobalQueue` | global queue, pre-positioning | Operators on the queue as a sequence in vector order, because ties go to the first and a removal moves the last. |
| `Workload` | request sources | What the code samples is an argument; the returns of `harness.h` are a sequence ordered by round. |
| `GlobalScheduler` | gate, placement, healing, on-point search | Means are compared by cross-multiplication. |
| `Simulation` | what the next two draw from | Constants and their assumption only. |
| `ClusterSim` | `sim.cpp` over `GlobalScheduler` | Actions: `Gate`, `ColdStart` (one placement, of any request: the code shuffles), `Churn` (one node, any residents leave). |
| `Lifecycle` | one node of `lifecycle.cpp` | Actions: `TopUp`, `Round`. The nodes of the program share nothing but random numbers. |
| `ClusterState` | what the three drivers share | State, conversations that return or are replaced, cold start, the order of the steps. |
| `Csched`, `Baseline`, `Prepo` | one driver each | The beginning of a round, and the service of one batch: advance, retire, heal, and in `csched` cut the budget. |
| `Cluster` | the three side by side | `driver` is chosen at the start. |
| `MainFsm` | control FSM | One action per state; strobes are operators on the registers. |
| `TopTracker` | tracker, address generators | Runs on the same clock; reads only `tile_ready`. |
| `SfuControl` | composition of the two, state register addresses | `Tick` is one clock edge of both; `Reset` may come at any cycle. |
| `BoundedFifo`, `ScoreFifo` | abstract queue; ring buffer | `ScoreFifo` is parameterised by its depth. |
| `FlashSfuCore` | the whole core | `SfuControl` drives one operator per block. A value is its provenance: a score is (tile, row, key), a maximum is the row state it started from and the scores it saw, a sum is its first term and the list of exponentials added. |
| `LoopTheory` | what the proofs need of loops | section 5 |
| `FlashSfuCoreProofs`, `ScoreFifoProofs`, `NodeSchedulerProofs`, `OperatorProofs`, `ClusterCacheProofs`, `ClusterProofs`, `SimulationProofs` | proofs | section 5; `OperatorProofs` is about the operators of the engine (sequences and sums, cache, gate and placement, prefill batch) and serves the three after it |
| `MC*` | TLC instances | |

How they compose: `ClusterCache` and `ClusterState` extend `CacheOps`; `ClusterState` also extends
`GlobalScheduler` and `GlobalQueue`, which rest on `Steering`; `Cluster` extends the three drivers. `Lifecycle` and `ClusterSim` extend
`Simulation`, which extends `GlobalScheduler` and `Workload`; the specification of the latter is `SimSpec`.
`SfuControl` composes `MainFsm` and `TopTracker`, and `FlashSfuCore` extends it.

State maps to source names: a variable has the name of the register or member it stands for
(`pool` is `pool_`, `idx` is `idx_`). Variables without a counterpart are histories, marked so:
`arrived`, `completed`, `started` in `NodeScheduler`, `untouched` in `ClusterCache`.

Choices of the cluster models. Random draws (lengths, think gaps, whether a conversation returns) come
from small constant sets. A batch is one step, because batches are served one after the other in the
code; what they share (queue, cache, pending returns, id counter) is passed on from batch to batch. A
`break` on a dry source is not written where the pulls after it would fail as well. In the drivers the
hash map of `enforce_budget` is iterated in two opposite orders (`Ranks`); all orders are in run `cache`.
`csched` runs with its affinity and dynamic cache switches on, which is their default.

## 3. Runs

| Run | Instance | Shows |
|---|---|---|
| `node` | `NodeScheduler.cfg`: 2 slots a batch, pool of 5, lengths 1 and 4 around a balance of 2, decodes of 1 and 2 tokens, 7 arrivals | `NoRequestLost`, `WaitBounded`, `RoundIsWellFormed`, `ShrinksOnlyWhenDry`, `HealingKeepsTheMix`, `WarmFillCentres` |
| `node_starvation` | `NodeStarvation.cfg`: pool of 7 | violation, see section 4 |
| `sfu_control` | `SfuControl.cfg`: 0 to 3 tiles a launch, the full 347-cycle tile | `Lockstep`, `StateAccessOnSchedule`, `SramReadsOnSchedule`, `BankSwitchedIdle`, `LaunchCompletes` |
| `score_fifo` | `ScoreFifo.cfg`: depth 5, 3 scores | `PointersAgree`, `ImplementsQueue` |
| `core` | `FlashSfuCore.cfg`: launches of 1 to 3 tiles, 5 tiles folded | `FifoMargin`, `MaxOfOwnRow`, `SumOfOwnRow`, `OutputOfOwnRow`, `RowsFoldTogether` |
| `core_l_prev`, `core_max_window` | the same instance | violations, see section 4 |
| `cache` | `ClusterCache.cfg`: 3 conversations, 2 nodes, lengths 1 to 3, capacity 4, budgets cut to 0, 2 or 4, idle limits 2 and 3 | `UsedMatchesEntries`, `WithinBudget`, `HitsAreWarm`, `CutsAreLeastRecent`, `ImplementsKvStore` |
| `global` | `ClusterSim.cfg`: 2 nodes of up to 4 requests and 10 tokens, lengths 1, 3 and 6, every draw of 8 | `GateShedsFewest`, `NodesWithinCaps`, `LeftoversFitNowhere`, `OnPointIsReal` |
| `lifecycle` | `Lifecycle.cfg`: pools of 3, one token of prefill a batch, 5 rounds | `PrefillRoundWellFormed`, `PrefillWaitBounded`, `PlacesGoToTheReady` |
| `cluster` | `Cluster.cfg`: 2 nodes, pools of 2, 4 rounds, each of the three drivers | `PopulationConserved`, `ShrinksOnlyWhenDry`, `OldestForced`, `AffinityWaitBounded`, `HbmClosedLoop`, `PrepoKvIsOwn` |
| `cluster_ids` | `ClusterIds.cfg`: the same instance | violation, see section 4 |

Each property is stated in words above its definition. For each there is a mutant, a definition named
`Mutant of ...` or under `Mutation:` next to the one it changes, which the run refutes.

**Bounds, and why they are enough.** *node*: the pool holds more than two batches, so there are members
left over in every round, and it falls below two batches when the queue runs dry; lengths lie on both
sides of the balance, so the KV target closes a batch both before and after its slots; seven arrivals
overfill a pool of five, so healing has a choice. `MinIdeal` stands for the code's floor of 1000 tokens.
*sfu_control*: no cycle is abstracted. Zero tiles is included because the code's subtraction wraps, so a
launch of 0 runs 256 tiles. *core*: rows, keys and chunks are the real ones; `MaxFolds` bounds the tiles
folded since reset, and five let a launch follow a launch and both parities of the ring's pointers occur
at a tile boundary. The host changes `num_tiles` only at rest. *cache*: three entries on two nodes give
migration, ties in age, a cut that takes one of two and one that takes both; a length at the threshold is
ineligible; the idle limits are ordered as in the drivers (`harness.h:116-117`). Conversations and nodes
are symmetric; only safety is checked there. *global*: every draw of eight from three lengths; long
requests meet the footprint limit of a node and short ones its count, the band makes the gate shed some
draws and not others, and after churn a node holds residents that no cold start puts together.
*lifecycle*: two batches of one token serve at most two of three prompts, so one is passed over while the
others last; five rounds take a prompt through prefill, stack, decode and replacement. *cluster*: in four
rounds a cold-start resident completes, returns after one or two rounds, is routed, completes again and
is cut or ages out (idle limits 2 and 3). The caps are 0, so that who is not taken in the round of arrival
is overdue in the next and a waiter of one round is spilled: with larger caps four rounds would reach
neither. A capacity of 5 makes admissions compete with each other and with the residents' surplus. Seeds
have lengths on both sides of the balance; of the two draws one fills the nodes and one leaves places to
top up from the queue. About 299,000 states are reached.

**Fairness.** `SfuControl` assumes weak fairness of the clock edge with `start` low: a clock runs, a host
need not start anything. Under it `LaunchCompletes` says a running core reaches `ALL_DONE`, or was reset.
No other run depends on fairness: rounds of the engine are driven from outside.

**Deadlock** is checked in every run but `lifecycle`, `cluster` and `cluster_ids`, whose programs end after
their last round.

## 4. Where code and documents disagree

1. `core_l_prev`. Row r's X is ready 64 cycles after the row's start, but the L snapshot it multiplies is
   retaken at the start of every row, 34 cycles apart: rows 0 to 6 use the L of row r+1
   (`flash_sfu_core_top.sv:447`). The run stops at the first tile; numerically it shows from the second
   tile on, when L is no longer zero.
2. `core_max_window`. The window of `s_valid_in` (`main_fsm.sv:196`) lies one cycle before the scores: a
   row's maximum misses its last score and opens with a stale one. The exponentials stay paired with
   their own row's maximum register (`SumOfOwnRow` holds), so the recurrence is consistent, but the
   maximum is not the maximum.
3. `node_starvation`. `CONTRACT.md:93` bounds a decoder's wait by age_cap+1. A batch ends at the KV target
   (`steering.cpp:23`) also when aged members are left, so a pool rich in long requests serves one or two
   a batch. What does hold is `WaitBounded`: each micro-batch takes the longest-waiting aged member, so the
   aged are served oldest first, two a round while they fill two batches and one a round after that. The comment in `test_steering.cpp:161` names the
   condition under which the stronger bound was observed.
4. `cluster_ids`. `scheduler/request.h:8` calls the id unique, but `csched.cpp:144` numbers the cold-start
   decoders from 0 and the workload (`workload_mt.h:36`) its conversations from 0 as well. The cache is
   keyed by the id: the run reaches a waiting return whose id finds the KV of the other conversation, of
   another length. With the cold-start ids shifted out of the way the instance has no such state. `prepo`
   lets the workload number everybody, and `PrepoKvIsOwn` holds.

Differences without a run, because the document's sentence is not a property of the modelled state:

* `baseline.cpp:200` records a completed turn with the length of its prompt, `csched.cpp` and `prepo.cpp`
  with prompt and decode; `baseline.cpp:8-9` says that offloading is shared with driver B for a fair
  comparison. The models keep each as it is (`Length` in `BaselineServe`).
* `lifecycle.cpp:118-120` says decode lengths are independent of the prompt; a decoder that heals a hole
  gets the source's (`lifecycle.cpp:68`), which is the prompt's with a floor of 1000 (`SourceDecodes`).
* `CONTRACT.md:96` keeps the pool at its size; a hole whose pull found nothing is not tried again, in the
  node scheduler and in the drivers. `ShrinksOnlyWhenDry` states what holds.
* In `lifecycle.cpp` the cold start is gated, the source that heals is not: lengths meant for edge nodes
  may enter later. The model's source draws such lengths.

`LPrevOfOwnRow` and `MaxOverOwnScores` are therefore not part of run `core`; its other properties do not
depend on which L or which scores those two select.

## 5. Proofs

TLC checks an instance or a few; the proofs cover all values of the constants. Every invariant,
action property and refinement of the passing runs is a theorem.

**Loops and sums.** A loop is `Iterate`, a recursive function. `LoopTheory` shows once, for any body
`Step(c, s, k)` over a parameter c, that the function exists (`RunExists`, `RunUnique`), unfolds (`Unfold`),
and keeps an invariant that the start satisfies and each pass keeps (`LoopInvariant`). Each loop of the
engine then is an `INSTANCE` of it with its own body and invariant. The induction is over a set of natural
numbers without a least exception (`LeastNatural`), because an induction theorem about predicates cannot be
instantiated with this prover. `OperatorProofs` does the same for the fold over a finite set under `Bytes`: the
sum is the same in whatever order the elements are taken, and splits (`SumAdd`, `SumSplit`, `SumAgrees`).

* **`NodeSchedulerProofs`**, from `OperatingPoint`. A batch is a loop with `BatchInv`: its members are
  unused, distinct, short of the target before the last one, and no aged member left out has waited longer
  than one taken (`RoundsAreWellFormed` is this at the end of both loops). The invariant of the node,
  `NodeInv`, is the types, `NoRequestLost` and `WaitInv`. The last is what makes `WaitBounded` inductive,
  which it is not: the number of residents that have waited `Floor + w` rounds is at most `Room(w + 1)`,
  where `Room` starts at the size of the pool and loses what a round serves for certain, two while the aged
  fill two batches and one after. `RoundServes` shows that a round serves as many, `RoomShrinks` that `Room`
  allows no more, and the bound is the w at which `Room` is 0. Warm filling, retiring and healing are loops
  with `FillInv`, `RetireInv` and `HealInv`, which say where each request went; `HealMix` counts the lengths.
  Warm filling has a second invariant, `CentreInv`: the pool filled so far is centred, provided that every
  length still waits. A pass keeps it because the ideal is the balance less the deviation so far: between the
  shortest and the longest length some length is within half a gap of it (`NeighbourExists`), and an ideal
  outside them is met by the shortest or the longest, which bring the sum back (`NearestCentres`).
  `WarmFillIsCentred` needs `LengthsSpanBalance`: the balance lies between the shortest and the longest
  length, the shortest is not below the floor of the ideal, the longest is within the footprint limit. The
  code draws lengths from 1,000 to 1,000,000 around a balance of about 100,000 with a floor of 1000
  (`workload.cpp:14-31`), and its limit is four pools of balanced requests; TLC evaluates the hypothesis in
  both node runs. Theorems: `TypeCorrect`, `NothingIsLost`, `RoundsAreWellFormed`, `NobodyStarves`,
  `ShrinksWhenDry`, `MixIsKept`, `WarmFillIsCentred`.
* **`FlashSfuCoreProofs`, control**, from `TileCountsAssumption` (counts fit 8 bits): `TypeCorrect`,
  `LockstepHolds`, `StateAccessCorrect`, `SramReadsCorrect`, `BankSwitchCorrect`. None of these is
  inductive. While a tile runs every register is a function of the row period k and the phase:
  `global_cycle = 34k + phase` (`PhaseTracksCycle`), the O row latch is `row_cnt - 2` or `- 3` depending on
  the phase (`SnapshotTracksRow`), and the two address counters are the phase counted from 1 and from 32
  (`KReadTracksPhase`, `VReadTracksPhase`). Their conjunction with the type invariant and `Lockstep` is
  `ScheduleInv`. One lemma per action shows it preserved; the schedules then follow by arithmetic from
  `ScheduleInv`, and the bank switch from its `TILE_DONE` conjuncts.
* **`FlashSfuCoreProofs`, data path**, from `BubbleAssumption` too (an empty pipeline stage is no datum).
  A step of the core is one of its control path by definition, so `ScheduleInv` holds of it; the `Strobes`
  lemmas turn every strobe into a window of the cycle `now`. `CoreInv` then says block by block what each
  register holds in cycle `now`: the datum whose row was started, and whose key was read, so many cycles
  ago. A pipeline of n stages is a stream seen through n cycles (`PipeStep`, used for the QK multiplier and
  both exponentials). The FIFO is `ScoreFifoProofs` at depth 34 (`Ring`); between its ends lie the scores
  due on its input and not yet on its output (`FifoPos`), which are at most 32 because any 34 cycles hold
  32 busy ones (`BeforeNext`). The state registers depend on each other around a tile: O of a row is read
  for its next fold at cycle 58, before the first of its chunks is written at 101, and `Stored`, the tiles
  folded so far, is read off the last chunk of the last row, written in the last cycle (`StateInv`,
  `StoredKept`). Theorems: `FifoMarginHolds`, `MaxCorrect`, `SumCorrect`, `OutputCorrect`, `FoldsCorrect`,
  which is every property of run `core`, for every sequence of launches and unbounded folds: the bound
  `MaxFolds` occurs in no proof. `ReadsAreOnSchedule` goes beyond the run: the empty flag, the one datum that
  reaches the control path, makes no difference to when the FIFO is read (`ScoreReadsOnSchedule`).
* **`ScoreFifoProofs`**, from `DepthAssumption` (at least one entry): `FifoTypeCorrect`, `PointersCorrect`
  and the refinement `FifoImplementsQueue`. `PointersAgree` is inductive with the types; the refinement
  mapping reads the ring from `rd_ptr`, and a step lemma per case (write, read, both, neither) computes
  the queue after the step.
* **`OperatorProofs`** has no state. Of sequences and sums: what `Only` keeps and counts, what inserting and
  appending do to a sum. Of the cache: each operation keeps `Accounted`, the entries have their
  types, and each node's counter is the sum over its HBM entries and so no negative number. An operation
  moves one entry (`BytesWithout`, `BytesShared`) or a set of them (`BytesOfPart`). Of a budget cut it shows
  more. `Cut` takes an entry when the limit is not met by those before it in the order of age and rank; the
  set it takes is a beginning of that order (`CutIsBeginning`), and what is left meets the limit
  (`CutMeetsLimit`). Of the gate (`GateKeepsMost`): it sorts by insertion, and `GateInv` says of the
  order so far that it falls and that, whichever of its requests are picked, as many from its end have no
  larger sum; since the gate sheds from the other end until the mean is within the band, no balanced
  selection is larger than what it keeps. Of the
  on-point check (`TwoBatchesAreReal`): sorting permutes (`OrderInv`, `AscendingPermutes`), a batch picks free
  members of the sorted lengths and counts them right (`ComposeInv`), the batches found are disjoint
  (`FoundInv`), and a permutation keeps the size and the sum of a part (`PartMoved`). Of the
  placement: `PlaceTypes`, `ColdStartTypes`, a node never holds more than its count. Of a prefill batch
  (`PrefillBatch`): the loop that hands out one token at a time overruns nobody, spends the budget unless
  everybody is done, and serves the aged oldest first, each token to another one of them (`PrefillInv`).
* **`ClusterCacheProofs`**, from `CacheAssumption` (natural lengths and limits, finitely many conversations:
  the index is finite). The refinement `CacheImplementsKvStore` needs that an entry is exactly as old as its
  conversation is untouched, and `HitsAreWarmHolds` that HBM entries are warm: `CacheInv` says both of every
  entry, and one lemma per action shows it preserved and which step of the store it is; the byte counters
  do not matter there. They are the subject of `ByteInv`, `Accounted` with `WithinBudget`, from which
  `TypeCorrect`, `UsedMatchesEntriesHolds`, `WithinBudgetHolds` and `CutsAreLeastRecentHolds` follow.
* **`ClusterProofs`**, from `ClusterAssumption`: what `derive.cpp` guarantees of an operating point (a pool
  that holds two batches and the admission floor, no zero targets) and workloads long enough for the cold
  start. All three programs are proved at once. The step of a batch works on one record (`StepType`), and
  each of its loops has an invariant relating it to the record it started from: completions (`RetireInv`)
  put one request in the queue or the pending returns for each leaver and lower no other node's bytes;
  healing (`CschedHealInv`, `BaselineHealInv`) and composing (`RefillInv`) only feed the batch from queue and
  waiters (`Fed`), force the oldest (`Forced`), and fall short only when nothing fits; routing (`RouteInv`)
  and spilling (`SpillInv`, over `SpillNextInv`) keep the number of waiters plus queue. The spill loop ends
  only when every place was looked at: each pass moves on or removes one. The cold start is a chain of
  gate, shuffle and placement (`GateTypes`, `PlaceTypes`, both of `OperatorProofs`, and `PlacedStart`). `ClusterInv` adds to the types
  that nobody waits for a node outside `csched`, that a batch of `prepo` fits its slots, that nothing is
  cached before the first round, and `HbmClosedLoop` and `AffinityWaitBounded` themselves, which become
  inductive with these: the budget was cut after the last change of the node's own bytes, and others only
  lower them. `PrepoKvIsOwn` needs an invariant of its own, `EveryoneAlone`: seen from any batch of `prepo`,
  its members, the queue, the pending returns and all other batches share no id and hold none twice, every id
  is below `next_id`, the requests in queue and returns find their own KV, and no member of a batch is done
  between rounds (`Lone`, `Going`). The last is why the tokens recorded for a leaver are the context of its
  next turn: it leaves in the very round in which it has decoded all there is. Every loop step of a batch keeps
  `Lone`, whatever ids the rest hold (`KeepsAlone`); a cache operation on one id leaves what is found under
  the others as it was or removes it (`KvKept`). `CommitsAlone` carries the step of one batch to the view
  from every other. Theorems: `TypeCorrect`, `PopulationIsKept`, `HbmLoopIsClosed`, `NobodyWaitsBeyondTheCap`,
  `OldestLeaveFirst`, `BatchesShrinkOnlyWhenDry`, `PrepoFindsOwnKv`. Of the global queue alone, `PullSlotForcesOldest` and
  `RemovalKeepsTheRest`: the forced choice is a `CHOOSE` of a least element, which exists because `<` is
  well-founded on the natural numbers, and who is not overdue is younger than who is.
* **`SimulationProofs`**, from `SimulationAssumption` with `LifecycleAssumption` or `SimAssumption` (no zero
  targets, no empty lengths). *Prefill of `Lifecycle`.* `GoodBatch` applies `PrefillBatch` to the pool as a
  batch sees it, members of the other batch masked as finished; the masked cannot be picked, so the two
  batches share nobody (`PrefillRoundsAreWellFormed`). `PrefillWaitBounded` is not inductive. `FillingInv` is:
  while anybody has waited k rounds beyond the age cap, those who have are at most the pool less k times
  what two batches serve (`RoundServes`, `FewerWait`); where that is below 1 lies the bound
  (`NobodyStarvesInPrefill`). *Decode pool of `Lifecycle`.* `DecodeInv`: the pool is never too large, and full
  once the rounds have begun. The holes of a round are a loop (`HoleInv`: k of them filled, from the stack
  while it lasts), who leaves and who stays make up the pool (`PoolParts`), and with the pool full nothing is
  absorbed (`NothingToAbsorb`). `PlacesAreTaken` needs `SourceNeverDry`, that every sample holds a length of at
  most four pools of balanced requests: a source that is dry may leave holes. TLC evaluates it for run
  `lifecycle`; the code's lengths are at most a million, so it holds whenever the pool takes 250,000
  balanced tokens. *`ClusterSim`.* `SimInv` says that every node is sound, which is its total equal
  to the sum of its lengths and both within the caps, and that what was left over fits on no node while
  requests are still being placed. The first is kept by the healing loop (`HealStepKeeps`: what the source
  offers fits the room left *after* the replacements so far, and the departed leave as many places as are
  healed), the second because nodes only fill while placing (`StaysTooLong`). Theorems: `NodesStayWithinCaps`,
  `LeftoversAreCorrect`, `GateShedsTheFewest`, `OnPointBatchesExist` (`TwoBatchesAreReal` applied to sound nodes).

**What the proofs changed.** `WorstOvertaking` was a bound that held on the instance and not in general; the
inductive form showed which one does, for every pool size. `ClusterAssumption` gained what the placement and
the seeds rely on (no empty pools, seeds as long as the cold start takes), `CacheAssumption` that `Ids` is
finite, `LifecycleAssumption` the types of the edge band and of the prefill work target. The on-point check
sorts with the gate's own sort, reversed: the library's `SortSeq` has no definition the prover can expand. What `Lifecycle` and
`ClusterSim` both declared is now in `Simulation`, so that one module proves about both.

**Model-checked only.** Liveness (`LaunchCompletes`) is outside the prover's reach.

## 6. Not modelled

* Floating-point arithmetic: the exponential, adders, multipliers and casts of the RTL, whose latencies
  are in the model, and the closed-form derivation of the operating point, which the models take as
  constants. Their correctness is accuracy.
* The shapes of the sampled distributions, and the KPI, metric and analysis code (`analysis/`, the reporting
  half of every driver): nothing reads it back. Reload and recompute costs are of that kind.
* The switches of `csched` that turn affinity or the dynamic cache budget off, and command lines.
* DMA into the idle SRAM bank and Q loading: outside the source. The model assumes the selected bank
  holds the current tile and Q is loaded at rest, which the write handshake enforces.
* Diagnostic ports, trace printing, FP8/FP16 selection, the CDC variant and the exception override, which
  the top level ties off.
* `age_update` as a call: only a test makes it. What it does to the waits is part of `AdvancedBy`, as the
  drivers do it.

## 7. Plan

Done: steering, node scheduler and runtime; the control path with proofs; the FIFO and the cache with
refinement proofs; the assembled core; global queue, the three cluster drivers, the lifecycle driver and
the global scheduler. Left, in order of weight:

1. Larger cluster instances: three nodes, so that a spilled return may enter a third one, and caps above
   0 with as many more rounds.
2. The order in which finished prompts leave the ready stack: the oldest is served last, which no document
   rules out and nothing bounds.
