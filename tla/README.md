# TLA+ models of the FTuner / DietCode sketch search policy

These modules model the search policy in
`src/tvm/src/auto_scheduler/search_policy/sketch_policy.cc` (below: `sketch_policy.cc`)
and the filters it uses in `src/unnamed/part_001`. The policy tunes tensor programs for
static and dynamic shapes. Every module is translated from the C++.
`PROJECT.json` maps each definition to the lines it models and lists the runs, the
mutants, the findings and the hazards.

## The system

`SketchPolicyNode` is one object driven by one thread. Its components:

| Component | Code | State | Operations |
|---|---|---|---|
| Measurement search loop | `Search` (980-1230) | `ct`, `empty_retry_count`, `measured_states_set_`, `measured_states_vector_`, `measured_states_throughputs_`, the measurer's `best_ct` / `has_valid` | one round: `SearchOneRound`, `PickStatesWithEpsGreedy`, measure, early-stopping test, record throughputs |
| eps-greedy pick | `PickStatesWithEpsGreedy` (1993-2045) | two offsets, the measured set | prefer best, then random, dedup against the measured set, cap at `min(num_measure_per_iter, remaining)` |
| Search round | `SearchOneRound` (1396-1456) | none of its own | sample an init population, add the best measured states (Argsort of the throughputs), sample random states, run the evolutionary search |
| Population sampler | `SampleInitPopulation` (1535-1699) | `sample_init_min_pop_` (a member), `out_states`, `explored_state_strs`, `unchange_cnt` | waves of random candidates, dedup, halve the target after 5 fruitless waves |
| Evolutionary search | `EvolutionarySearch` (1701-1991) | `pnow`, the min-heap `heap`, `in_heap`, `k` | score and prune a generation, offer it to the heap, mutate into the next generation, sort the heap |
| Final dynamic dispatch | `Search` (1128-1230) | `adapted_candidate_flops`, `inst_id_disp_map`, `selected_candidate_states`, `next_wkl_inst_ids` | dispatch, build-check, zero the failed scores, repeat while changed |
| Hardware-aligned search | `EfficientSearch` (752-974), filters in `part_001` | config and state lists per instance, relaxation thresholds | thread-number, occupancy, launch-bounds, padding and compute-intensity filters; greedy dispatch |
| Config enumeration | `GetAlignedTile`, `ConfigFilter`, `GetNextConfig`, `HasNextConfig`, `EmitConfig` (247-749) | odometer pointers per dimension, `pnow`/`pnext` per memory level | enumerate aligned tiles level by level, pruning by memory footprint |
| Sketch generation | `GenerateSketches` (1458-1527) | stage cursor per state, `pnow`/`pnext` | apply the sketch rules in waves, then the rfactor post-pass |

How they interact: `Search` calls `SearchOneRound` every round. `SearchOneRound`
fills `sketch_cache_` with `GenerateSketches` when it is empty, calls
`SampleInitPopulation` on the cache, and then `EvolutionarySearch` on the sampled states
plus the best measured states. `PickStatesWithEpsGreedy` chooses from that output
what to measure. For dynamic tasks, the measured pool then feeds the final dispatch.
`EfficientSearch` is another path: it enumerates hardware-aligned configs and
dispatches them directly.

The parallel parts (`support::parallel_for` over the candidates of a wave) write
only their own slot of a vector. Each runs with its own random generator. So no
interleaving inside a wave can be observed, and the models treat a wave as one step.

### Hard behaviours, and the properties that target them

- **Index-parallel vectors.** The early-stopping `break` (1087) runs after the states
  of a round are appended to `measured_states_vector_`, but before their throughputs
  are appended. The final dispatch indexes one vector by the other's size.
  - Checked by `MeasuredLedgerConsistent` and `DispatchTablesAligned`.
- **Dedup across rounds.** The measured-state string set must exclude states already
  measured, and also repeats inside the random picks of one round.
  - Checked by `MeasuredLedgerConsistent`.
- **Budget and termination.** The last round is capped at the remaining trials. Empty
  rounds consume a retry counter that only a non-empty round resets.
  - Checked by `TrialBudgetRespected` and `SearchTerminates`.
- **Bounded heap with a guard set.** Evicting the front must also drop its string
  from `in_heap`, and the front must be a minimum.
  - Checked by `HeapIsBestOfSeen`, `InHeapMirrorsHeap` and `RefinesTopKSelection`.
- **The empty sampler.** With `min_population = 0` the sampler's `while` test fails
  at once, and the spec's Scenario D expects one wave.
  - Checked by `ZeroTargetRunsOneWave` (violation run).
- **Configs as map keys.** `filter_cand_states` is a `std::map` keyed by an order that
  compares tiles only.
  - Checked by `ConfigKeysDistinct`.
- **The mutation loop may not end.** `while (pnext->size() < population)` only pushes
  a kept parent or a valid mutant. A failed mutation draws again.
  - Checked by `EvolutionarySearchTerminates`.
- **Sketch derivation.** `GenerateSketches` keys stage cursors by state structure, and
  the rule walk stops at the first `kApplyAndSkipRest`. A rule that returns its input
  (`skip_stage`) must overwrite the old cursor. The sampler then divides by
  `sketches.size()`.
  - Checked by `SketchesAreDerivations` (against the recursive reference
    `Derivations`), `SketchGenerationTerminates` and `SketchesNonEmpty`.
- **Sampler termination and the persistent target.**
  - Checked by `SampleTerminates`, `PopulationNeverEmpty` and `OutIsDistinctAndValid`.
- **Build-failure retry of the dispatch.**
  - Checked by `ReturnedDispatchBuilds` and `FailedPairZeroed`.
- **Relaxation loops of `EfficientSearch`.** `OccupancyFilter` and the padding loop
  lower a threshold until something passes. They must stop at the first threshold that
  passes, and they must stop at all.
  - Checked by `RelaxedOnlyAsFarAsNeeded` and `EfficientSearchTerminates`.
- **Undefined states.** A failed efficient init rule leaves a `State` undefined, and
  the config stays in the list.
  - Checked by `EfficientSearchTerminates`: a crash is a run that never returns.
- **Greedy dispatch of `EfficientSearch`.** The scan starts at state 0 with score 0.
  - Checked by `DispatchPicksBest`.
- **The config odometer.** `GetNextConfig` skips the rest of the innermost space list
  after a rejection, and carries from the space iterators into the reduce iterators.
  The odometer must still visit the whole cartesian product the spec describes, and
  every level must be left.
  - Checked by `OdometerEmitsAcceptedProduct` (against the recursive reference
    `Odometer`) and `EmitConfigTerminates`.
- **The all-ones fallback of `EmitConfig`.** When the register level accepts
  nothing, the shared-memory level restarts from the all-ones tile with an empty
  base: it can hang at the `continue` (699) or read the empty base (556).
  - Checked by `FallbackNeedsZeroRegisterCap`: computed from the code's
    `MemFootPrint`, the fallback is reached only when `reg_cap[1]` is 0.

## Modules

Each spec module has an `MC_` module when its constants need model values. The
MC module extends the spec and defines the sets of model values. The cfg binds the
constants and names the invariants and properties.

### `SearchLoop` (with `MC_SearchLoop`)

This module models `Search` with `n_trials > 1` and `PickStatesWithEpsGreedy`.

- **Variables.** `ct`, `emptyRetry`, `measuredSet`, `measuredVec`, `throughputs` (each
  throughput entry is recorded as the state it belongs to, so the vectors can be
  compared entry by entry), `bestCt`, `hasValid`, `rounds`, and `pc` (loop head, between continuation rounds, or returned).
- **`SearchRound`** is one iteration of the while loop. It splits into two actions:
  - `EmptyRound`: nothing new was picked. It decrements the retry counter, or
    gives up.
  - `MeasureRound`: it appends to the ledger, then runs the early-stopping test,
    and only then records the throughputs.
- **The eps-greedy pick** is the recursive operator `PickLoop`. It is a translation
  of the `while` loop with its two offsets.
- **Inputs of a round.**
  - `best_states` is any duplicate-free sequence of unmeasured states up to
    `2 * num_measure_per_iter`, which is what `EvolutionarySearch` returns.
  - `random_states` is either empty or `3 * num_random` states drawn with
    replacement.
- **The measurer is outside `src/`.** It is modelled from the spec by
  `MeasurerBestCt`, which gives the trial count of the last best-improving result.
  The first valid result is always a new best.
- **`BudgetExhausted`** is the loop condition failing.
- **`ContinueSearchOneRound`** (1299-1395) is the per-round entry a task scheduler
  calls instead of `Search`; `Init` picks the mode (`pc` is `"loop"` or
  `"continue"`). One call picks at most `num_measure` states, measures them even when
  there are none (no retry counter, no early stop), appends one throughput per result,
  and counts in `rounds`, up to `NumContinueRounds` (2 in every cfg).
  `MeasuredLedgerConsistent` is checked between these calls too.

### `EvolutionarySearch` (with `MC_EvolutionarySearch`)

This module models one call of `EvolutionarySearch`.

- **Variables.**
  - The cost model (`score`), the measured set, the set of states
    `PruneInvalidState` removes, and `mutable` (the states that some mutation rule can
    change): all four are chosen in `Init` and then fixed.
  - `pnext`, and `choice`, the index of the drawn parent `tmp_s`.
  - `pnow`, the heap (as a sequence whose front is a minimum), `in_heap`, `k` and `i`.
  - `seen`, a history variable of the unmeasured states offered to the heap.
- **Actions.**
  - `ScoreGeneration`: InferBound, prune and predict. `PruneInvalidState`
    (upstream `utils.h`, not under `src/`) `LOG(FATAL)`s when no state is valid; this
    is the `fatal` state. The initial population is never empty: the sampler returns
    a state for `min_population >= 1`, and `RandomSampleStates` would fail with
    `% 0` (1431) on an empty one first.
  - `OfferToHeap`: one iteration of the heap loop.
  - `EndGeneration`: the last generation sorts the heap into the result; otherwise
    the search goes on to mutation.
  - The mutation loop, one attempt at a time:
    - `DrawParent(j)` draws any index of `pnow`.
    - `KeepParent` (`dis >= mutation_prob`) pushes the parent.
    - `MutationValid` pushes any state. It is possible only for a parent in
      `mutable`.
    - `MutationInvalid` pushes nothing.
    - `SwapGenerations` swaps the buffers once `pnext` is full.
- **Refinement.** `TopKSelection` states what the heap promises without a heap.
  - Items arrive one at a time, and measured items are ignored.
  - After each arrival the kept set is a best-scoring selection of `min(K, #arrived)`
    items. It changes only by taking in the new item.
  - On return, the result lists the kept set by descending score.
  - `Abs == INSTANCE TopKSelection WITH ...` maps `offered` to `seen`, `best` to
    the heap's states, `result` to `out` and `done` to `pc = "done"`.
  - A duplicate offer, a measured offer, mutation and scoring are all stuttering
    steps of the abstract specification.

### `SketchGeneration`

- **Variables.** `device`, `dynTask`, `numLevel`, `stageKind` (the compute DAG, a
  chain of stages), `sketchRules`, `pnow`, `pnext`, `curStageIdMap`, `outStates`,
  `j` (the position in `pnow`), `pc`.
- **`Init`** picks the target and task kind the constructor accepts (no dynamic CPU
  task, 116-118) and builds `sketchRules` with `SketchRules`, the constructor's lists
  (141-189).
- **`ProcessState`** is one iteration of the `for (state : *pnow)` loop: a terminal
  state goes to `outStates`; otherwise `Derive` walks the rules and the pairs update
  `curStageIdMap` (`UpdateStageMap`) and `pnext`. **`EndWave`** is the swap and the
  loop test. **`PostPass`** is the rfactor hack with its `ICHECK`s (crash path).
- **The rules** (`Cond`, `ApplyRule`) live in `sketch_policy_rules.cc`, outside
  `src/`, and are modelled from the spec: inline an element-wise non-output stage,
  rfactor or cross-thread reduction for a small reduction, cache-write for a reduction
  without a fusable consumer, tiling with or without fusion, skip. A state is its
  sequence of `<<step, stage>>` records.

### `GenerateAndSample` (with `MC_GenerateAndSample`)

- Composes `Gen == INSTANCE SketchGeneration WITH outStates <- sketches, pc <- genPc`
  and `Sample == INSTANCE SampleInitPopulation`, as steps 1 and 2 of
  `SearchOneRound` (1404-1411): generation runs until the cache is filled, then
  every round samples from it. The cache is never regenerated once non-empty.
- `SketchesNonEmpty` is the precondition of `rand() % sketches.size()` (1559, 1582).

### `SampleInitPopulation`

- **Variables.** `valid`, `pruned`, `target` (`sample_init_min_pop_`), `out`,
  `explored`, `unchangeCnt`, `waved` and `calls`.
- **Validity is fixed.** A candidate that passes every init rule, `PruneInvalidState`
  and the `-1e10` score floor is in `valid`, which is chosen in `Init`. This holds
  because the cost model does not change during sampling.
- **`Wave(temp)`** is one whole iteration of the while loop.
  - `temp` gives each slot a schedule or `NoState` (an init rule returned `kInvalid`).
  - The valid candidates are offered in order through `Accept`, the dedup of
    `explored_state_strs`.
  - It ends with the five-failure rule (`NextUnchangeCnt`, `Halved`).
  - If some slot is defined and every defined one is in `pruned`,
    `PruneInvalidState` (1645) `LOG(FATAL)`s: the wave ends in `fatal`.
- **`Return`** is the loop condition failing.
- **`NextCall`** is the next `SearchOneRound` calling the sampler again. The locals
  are fresh and the member target keeps its value.

### `DispatchRetry`

This module models the dispatch / build-check `do { } while` at the end of `Search`
for dynamic tasks.

- **Variables.**
  - `flops[inst][state]` stands for `adapted_candidate_flops[inst * V + state]`.
  - `builds[i]`, the states that build for instance `i`, is chosen in `Init`.
  - `dispMap`, `selected`, `nextIds`, and the history `failedPairs`.
- **Spec-modelled parts.** `TopKDispatcher`, `MapWklInstsToStates` and
  `AdaptStateToWorkload` are not in `src/`. They are modelled from the spec's
  dispatcher contract:
  - `Dispatches`: every instance gets its best state among at most `TopK` chosen
    states.
  - `MapWklInstsToStates`: the picked states, each once, in some order.
- **`DispatchPass`** is one pass of the loop. The pass is translated from the code:
  - `DispIndex` numbers the picks as positions in `selected`.
  - An instance whose built state fails is queued in `nextIds`.
  - `ZeroFailedScore` zeroes `flops[inst][position]`, as the code does.
  - The loop repeats only while `ChangedAdaptedCandidateFlops` holds, and that is
    `FALSE` as in the code.

### `EfficientSearch` (with `MC_EfficientSearch`)

This module models `EfficientSearch` (`sketch_policy.cc` 752-973) from the configs
`EmitConfig` returns, with the filters of `part_001`.

- **Data.** Configs are `1..NumConfigs` in `HwAlignedConfig::operator<` order.
  - Candidate lists are sets: every filter keeps its input order, and the top-K sorts
    break ties in no fixed order.
  - `threadsOk`, `ruleOk` and the compute-intensity ratios `ci` belong to a config.
    They are chosen in `Init`.
  - Grid size in SM multiples (`gridSm`), occupancy penalty (`occ`) and padding
    penalty (`pad`) depend on the instance. `StartInstance` chooses them.
  - Penalties and thresholds are in steps of 0.05. A penalty `n` passes threshold `t`
    iff `n > t`.
  - Below `ThresholdFloor` (-1) every positive penalty passes. The threshold then
    stays there, because further steps change nothing a filter sees.
- **Actions.** One per code step:
  - `ThreadsNumberFilter`.
  - `ApplyEfficientInitRules`: states are defined only for configs whose rules all
    succeed.
  - `StartInstance`: the grid-size scan of `OccupancyFilter`. It crashes on an
    undefined state.
  - `OccupancyRound`: one iteration of the `while (filtered_configs.size() == 0)`
    loop, over the window `[smem_sm_partition[1], max_sm_times]`.
  - `LaunchBoundsFilters`: register then shared memory. Each keeps any subset,
    non-empty unless `"LaunchBoundsEmpty"` is in `Degenerate`.
  - `PaddingRound`: one iteration of the padding `while (true)`.
  - `ComputeIntensiveFilters`: top `SmemTopK`, then top `RegTopK`, with the
    survivors added to the config map.
  - `MeasureCandidates`: the map's states are appended in key order.
  - `GreedyDispatch`: scores are any value in `0..MaxScore`. `GreedySelect` is the
    strict-improvement scan.
- **Degenerate inputs.** `Degenerate` names the inputs a run admits: no config after
  `ThreadsNumberFilter`, a failing init rule, and empty launch-bounds results.
  `GridSmValues` decides whether a config can fall below the occupancy window.

### `EmitConfig` (with `MC_EmitConfig`)

This module models `EmitConfig`, `GetAlignedTile`, `GetNextConfig` and `HasNextConfig`
(`sketch_policy.cc` 247-412, 499-749).

- **Data.** A tile assignment is a tuple of tiles, reduce dimensions first, because
  `reduce_ptr[0]` is the odometer's most significant digit. A config is
  `[reg |-> tuple, smem |-> tuple, regUse |-> n]`, `regUse` being
  `single_thread_reg_usage`.
  - A search task (`Tasks`) gives the largest extent of every space dimension, its
    `GetPrimNumber` list (not under `src/`, so it is task data) and the reduce extents of
    every instance, and the accesses its expression extractors report (producer
    tensor and the tuple positions of its index variables).
  - The hardware (`Hardware`, chosen in Init as `hw`) gives `reg_cap[0]`,
    `reg_cap[1]` and `smem_cap[0]`.
  - `GetAlignedTile` is computed from the task. It is split into `RegTiles`,
    `SmemSpaceTiles` (aligned to `TransactionNum` for the `NeedAlign` dimensions) and
    `SmemReduceTiles`. So an empty tile list arises from the code's own arithmetic.
  - `ConfigFilter` is computed as the code writes it. `MemFootPrint` sums, per
    producer not seen before, the product of the tiles its indices take; at the
    register level the sum is overwritten by the product of the space tiles, at the
    shared-memory level it is scaled by the element size. The register level tests
    it against `reg_cap[1]`; the shared-memory level against `smem_cap[0]`, then
    `GetParallelism` times the base's register use against `reg_cap[0]`, and the
    thread count against 1024.
  - `GetParallelism` is not under `src/`. It is modelled from the spec's "parallel
    thread count" as the number of register tiles in a shared-memory tile over the
    space dimensions. The compute-intensity threshold and ratio are not computed:
    no property reads them.
- **Actions.** One per code step:
  - the `pnow` empty branch: `AlignAllOnes`, then `ZeroTilesAtAllOnes` (the
    `continue` at 699, which skips `mem_level--`) or `StartFromAllOnes`;
  - the other branch: `StartFromBases`, then per base `AlignBase`, then `SkipBase` or
    `StartFromBase`, and `EndBases` (swap, clear, `mem_level--`);
  - `GetNextConfig`: read, advance, filter, the pruning skip (`SkipAfterReject`), then
    `Carry`;
  - `EndEnumeration` when `HasNextConfig` fails, and `Return`.
- **The empty base.** If the register level accepts nothing, the shared-memory level
  runs from `no_base_config`. `ConfigFilter` then reads `base_config.space_tiles[1]` of
  an empty vector once a candidate passes the shared-memory check. This is modelled as
  a `crash` state.
- **The key order.** `HwAlignedConfig::operator<` (`hw_aligned_config.h`) is
  `ConfigLess`. It compares lexicographically in the order the code walks the tiles:
  shared-memory space tiles, register space tiles, then the reduce tiles of both
  levels (`ConfigKey`). A level a config never set is an empty vector.

## Runs

| Run | Expect | What it shows |
|---|---|---|
| `search_loop` | pass | `TrialBudgetRespected`, `MeasuredLedgerConsistent`: no round overruns `n_trials`. At every loop head the set, vector and throughputs agree and hold each state once. This holds across duplicate random picks, empty rounds and early stopping, and between `ContinueSearchOneRound` calls. |
| `search_loop_exhausted` | pass | `SearchTerminates` under weak fairness when the budget (7) outlasts the 4 schedules, so the loop must end through the empty-retry counter. |
| `search_loop_early_stop` | violation | `DispatchTablesAligned`: after an early stop the vector has the round's states and the throughputs do not. |
| `evolutionary_search` | pass | `HeapIsBestOfSeen`: the heap holds `min(out_size, #seen)` states and no seen state outside it scores higher. `InHeapMirrorsHeap`: `in_heap` is exactly the heap plus the measured set. Both hold over 3 generations with eviction and re-offer. `EvolutionarySearchTerminates`: every call returns under the fairness of its random choices. `RefinesTopKSelection`: every step implements `TopKSelection`. This also requires that an eviction never keeps an arrival in place of a better one, and that `best_states` is sorted best first. |
| `sample_zero_min_population` | violation | `ZeroTargetRunsOneWave`: with `min_population = 0` the sampler returns an empty population with no wave, where Scenario D says it runs one. |
| `generate_and_sample` | pass | `SketchesAreDerivations`: for CPU, Mali and CUDA (static and dynamic, `num_level` 0 or 2) and every chain of three stages, `GenerateSketches` returns each leaf of the rule derivation tree exactly once, with rfactor splits freed. `SketchGenerationTerminates`, `SketchesNonEmpty`: it returns, and never an empty cache. Then `OutIsDistinctAndValid`, `PopulationNeverEmpty`, `SampleTerminates` (min_population 3, 1 to 3 valid schedules, two calls): termination relies on the halving when fewer valid schedules exist than the target. |
| `dispatch_retry` | pass | `TypeOK` only: a failed build zeroes a score in range. It fires the actions whose properties the two violation runs check. |
| `dispatch_retry_build_failure` | violation | `ReturnedDispatchBuilds`: the loop never re-dispatches an instance whose build failed. |
| `efficient_search` | pass | `RelaxedOnlyAsFarAsNeeded`: when either relaxation loop stops, nothing passed one step higher, so the survivors are those with the best occupancy (padding). `DispatchPicksBest`: every instance gets a measured state of maximal score. `EfficientSearchTerminates`: `EfficientSearch` returns when every instance has a config in its window, states are defined and the launch-bounds filters keep something. |
| `efficient_search_degenerate` | violation | `EfficientSearchTerminates`, with all three degenerate inputs and grids below the window admitted. The reported trace is the shortest: `OccupancyFilter` dereferences the undefined state of a config whose rule failed. Without `"RuleFails"`, the traces are the two hangs: `OccupancyFilter` with no config in its window, and the padding loop after the launch-bounds filters empty the list. |
| `emit_config` | pass | `OdometerEmitsAcceptedProduct`: whenever `HasNextConfig` turns false, the assignments pushed by that enumeration are exactly the tuples of the cartesian product of the tile lists that `ConfigFilter` accepts, in odometer order. So the pruning skip loses nothing. `ConfigKeysDistinct`: the returned configs are pairwise ordered by `operator<`, so none of them overwrites another in `filter_cand_states`. `FallbackNeedsZeroRegisterCap`: the fallback to the all-ones tile with an empty base (the hang at 699, the read at 556) happens only on hardware with `reg_cap[1] = 0`, because the all-ones register tile needs one register. `EmitConfigTerminates`: otherwise `EmitConfig` returns. All hold for a task with shared-memory tiles (one base skipped), a task with none, and twelve hardware descriptors. |
| `dispatch_retry_zeroed_pair` | violation | `FailedPairZeroed`: the zeroed score is that of the measured state whose index equals the selected position. In the trace, instance 0 built measured state 0 (position 1 of `selected = <<1, 0>>`), and the code zeroed state 1. |

Every property of a passing run has a mutant in `PROJECT.json`: an operator defined just
before the code definition it replaces, which TLC finds violating the property.

### Findings

1. **Early stop misaligns the vectors** (`sketch_policy.cc:1087`, code bug). The
   vectors get out of step. The final dispatch then writes `adapted_candidate_flops`
   out of bounds (1135, 1143).
2. **`min_population = 0` runs no wave** (`sketch_policy.cc:1552`, divergence from
   the spec). The `while` test fails at once and the sampler returns an empty
   population. Scenario D says exactly one wave runs. `SearchOneRound` then takes
   `RandomSampleStates` of the empty population (`% 0` at 1431).
3. **Build-failure retry never repeats** (`sketch_policy.cc:1220`, code bug).
4. **Failed build zeroes the wrong score** (`sketch_policy.cc:1193`, code bug). It
   zeroes the score at a selected-list position, not at the failing measured state.

5. **`OccupancyFilter` never widens its window** (`part_001:154`, divergence from
   the spec). The window `[smem_sm_partition[1], max_sm_times]` is the same in every
   round. If no config's grid reaches `smem_sm_partition[1]` SM multiples, the loop
   never ends. This happens for a small instance, or when no config is left. The spec
   says the window widens until a config passes.
6. **Padding loop hangs on an empty list** (`sketch_policy.cc:821`, code bug). The
   launch-bounds filters can reject every config. The `while (true)` loop then
   restores the empty list and relaxes forever.
7. **Undefined state dereferenced** (`sketch_policy.cc:799`, code bug). A config whose
   efficient init rule fails keeps a default `State`. `OccupancyFilter` reads its
   `transform_steps`.

Not checked by a run, and listed as hazards:
- The sampler never returns when no schedule is valid (`sketch_policy.cc:1682`): the
  target stops at 1. The spec says the halving guarantees termination.
  `SampleTerminates` covers the case where some schedule is valid.
- `EmitConfig` falls back to the all-ones tile with an empty base when the register
  level accepts nothing: the `continue` at 699 loops forever when a list is empty,
  and otherwise `ConfigFilter` reads the empty base (556).
  `FallbackNeedsZeroRegisterCap` shows that only hardware with `reg_cap[1] = 0`
  reaches it, so it is not listed as a hazard.

## Bounds

- **SearchLoop.**
  - 4 schedules, 2 measurements per round, 1 random pick (3 random draws), a retry
    count of 2, early stopping after 2 trials.
  - `n_trials` is 3 for the safety run. The second round is then capped by the
    remaining budget, which is below `num_measure_per_iter`.
  - `n_trials` is 7 for the termination run, so the schedule space runs out first.
  - The draws include duplicates, already measured states and empty rounds.
- **EvolutionarySearch.**
  - 3 schedules, out_size 2, 3 generations (num_iters 2), population 2, scores 1..2
    (so ties happen), init populations of up to 2 sampled states and 1 measured state.
  - `mutation_prob` is 0.85, the default. Every subset of states is changeable.
  - This heap fills, evicts and can re-admit an evicted state.
- **SketchGeneration.** Three stages (an input and two computed stages of any of
  three kinds: 9 chains), every target and task kind, `num_level` in {0, 2}. Chains
  with an element-wise consumer, a small reduction (rfactor, two sketches) and two
  reductions in a row occur; longer chains only repeat these stage pairs.
- **SampleInitPopulation.**
  - 3 schedules, population 2, min_population 3, two calls.
  - The halving to 1 is reached, and it carries into the second call.
  - `sample_zero_min_population` runs the sampler alone: 2 schedules, population 2,
    min_population 0, one call. The trace is one step: `Return` from the initial state.
- **DispatchRetry.**
  - 2 instances, 3 measured states, top-2, scores 1..2, every build outcome.

- **EfficientSearch.**
  - 2 configs, 2 instances, penalties 0.5 and 1.0, top-1 filters, scores 0..1.
  - A penalty of 0.5 passes only after ten relaxation steps, so the loops really
    iterate.
  - Top-1 cuts a two-config list.
  - The second instance meets the map the first one filled.
  - Three configs take over 10 minutes.

- **EmitConfig.**
  - One reduce and two space dimensions, `TransactionNum` 2, the first space dimension
    aligned.
  - Two tasks. In the wide one the register level has 4 tiles, the shared-memory lists
    are `{2,3} x {2} x {1,2,3,4}` from a base of last tile 1, and a base of last tile 5
    is skipped. In the narrow one no shared-memory tile exists.
  - The carry crosses every digit, and the skip cuts lists of length 2 and 4.
  - Both tasks compute a matmul `C[i,j] += A[k,i] * B[j,k]` (the last index of `A` is `i`, hence `NeedAlign = {1}`); the narrow one reads `A`
    twice, which `MemFootPrint` counts once.
  - Hardware: `reg_cap[0]` in {4, 64}, `reg_cap[1]` in {0, 1, 10}, `smem_cap[0]` in
    {40, 72}. Every level then rejects inside some tile list, the thread-times-register
    bound rejects, and `reg_cap[1] = 0` reaches the fallback.

No run uses symmetry: `SearchTerminates`, `SampleTerminates` and
`EvolutionarySearchTerminates` are liveness properties, and symmetry reduction is unsound for them.

## Fairness

- **Weak fairness on every loop step (`Search`, `GenerateSketches`,
  `SampleInitPopulation`, the dispatch).**
  The loops are sequential, and each step returns: the measurer and the builder are
  synchronous calls.
- **Strong fairness on a wave that accepts a new state (`SampleInitPopulation`).**
  Every slot draws its sketch and its annotations from its own random generator. So
  whenever an unexplored valid schedule exists, each wave has a positive chance of
  drawing it.
- **Weak fairness on `EfficientSearch` and `EmitConfig`.** They run on one thread,
  and every filter returns.
- **`EvolutionarySearch`: weak fairness on every step, plus strong fairness on a
  push (`KeepParent \/ MutationValid`).** At each attempt a possible push has
  positive probability: `1 - mutation_prob` for the kept parent, and a valid rule
  outcome for a changeable parent. No fairness is assumed on which parent is drawn.
- **No fairness on the random draws of `Search`.** `SearchTerminates` holds whatever
  the draws are.

## Not modelled, and the plan

- **Not modelled now.** These have no control state worth checking or are out of
  TLC's reach:
  - `CalculateInstOptProb`, `PreloadCustomSketchRule`: weight arithmetic and a
    registration callback.
  - The hardware descriptors, `SearchTask`, `HwExprExtractor` (`part_000`,
    `part_002`, `part_003`): data.
  - The CUDA bandwidth benchmarks: GPU timing.
  - The experiment and download scripts: I/O.
- **Not modelled in `EmitConfig`.** `ComputeIntensiveThreshold` and
  `GetComputeIntensiveRatio` (414-452) are floating-point ratios of tiles, bandwidth
  and peak flops. The configs carry them only for the compute-intensity filters of
  `EfficientSearch`, which the `EfficientSearch` module takes as any value in 0.05
  steps; no property of `EmitConfig` reads them.
- **Not modelled in `SearchLoop`.** The `n_trials <= 1` shortcut of `Search`
  (984-991): one `SearchOneRound(0)` and `ICHECK_GT(best_states.size(), 0)`, with no
  loop state.
- **Modelled from the spec.** The sketch rules' conditions and results, the measurer, the cost model, `TopKDispatcher`,
  `MapWklInstsToStates` and `AdaptStateToWorkload` are outside `src/`.
- **Planned modules, in order.**
  1. Done: `EfficientSearch`. Still open there:
     - the `CHECK(extent_ratio >= 1)` aborts for instances smaller than a tile;
     - `measured_states_set_`, which `EfficientSearch` never updates.
  2. Done: `EmitConfig`, with `ConfigFilter` and `MemFootPrint`. Still open there:
     a task without a reduction (`reduce_dims = 0`), and the compute-intensity
     values a config carries.
  3. Done: `SketchGeneration`, composed with `SampleInitPopulation` in
     `GenerateAndSample`. Custom rules from `PreloadCustomSketchRule` run first and
     could answer `kApplyAndSkipRest` with no successor, dropping a state; they are
     not modelled.
  4. Done: `TopKSelection`, the abstract specification of the heap.
     `EvolutionarySearch` refines it.
  5. Done: mutation-rule outcomes in `EvolutionarySearch`. Termination is checked at
     `mutation_prob = 0.85`. The hang at `mutation_prob = 1` with no changeable parent
     (1890) is reachable with `MutationProbPct = 100`. No run slot checks it.
