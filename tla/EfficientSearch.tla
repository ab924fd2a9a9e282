--------------------------- MODULE EfficientSearch --------------------------
(***************************************************************************)
(* SketchPolicyNode::EfficientSearch in                                    *)
(* src/tvm/src/auto_scheduler/search_policy/sketch_policy.cc and the       *)
(* filters it calls in src/unnamed/part_001.                               *)
(*                                                                         *)
(* The configs EmitConfig produced go through ThreadsNumberFilter, then    *)
(* the efficient init rules build one State per config in parallel (a      *)
(* State stays undefined when a rule returns kInvalid). Then, for every    *)
(* workload instance: OccupancyFilter (relaxing its ratio until a config   *)
(* passes), the register and shared-memory launch-bounds filters, the      *)
(* padding relaxation loop, the shared-memory and register compute-        *)
(* intensity top-K filters, and the survivors enter the config -> State   *)
(* map. The map's states are measured, and every instance is dispatched    *)
(* greedily to the measured state of highest adapted score.                *)
(*                                                                         *)
(* Configs are 1..NumConfigs in HwAlignedConfig::operator< order. Every    *)
(* filter keeps the relative order of its input and the top-K sorts break  *)
(* ties in no fixed way, so candidate lists are sets. What a config's      *)
(* tiles give for an instance is abstracted to the quantities the filters  *)
(* compare: its grid size in SM multiples, floor_div(grid, glbmem          *)
(* partition), and its occupancy and padding penalties in steps of 0.05    *)
(* (a penalty of n * 0.05 passes a threshold of t * 0.05 iff n > t).       *)
(***************************************************************************)
EXTENDS Integers, FiniteSets, Sequences, SequencesExt

CONSTANTS
  NumConfigs,           \* configs returned by EmitConfig
  NumInsts,             \* search_task->wkl_insts.size()
  SmLow,                \* hardware_api->smem_sm_partition[1]
  GridSmValues,         \* possible floor_div(grid_size, glbmem_sm_partition[0])
  OccValues,            \* possible occupancy penalties, in steps of 0.05
  PadValues,            \* possible padding penalties, in steps of 0.05
  SmemTopK,             \* SharedMemoryComputeIntensiveFilter keeps top 20
  RegTopK,              \* RegComputeIntensiveFilter keeps top 10
  MaxScore,             \* adapted scores are 0..MaxScore
  Degenerate            \* the degenerate inputs explored, a subset of DegenerateCases

ASSUME NumConfigs \in Nat \ {0} /\ NumInsts \in Nat \ {0}
ASSUME GridSmValues \subseteq Nat /\ OccValues \subseteq 1..20 /\ PadValues \subseteq 1..20
ASSUME SmemTopK \in Nat \ {0} /\ RegTopK \in Nat \ {0} /\ MaxScore \in Nat

(* "NoConfig": ThreadsNumberFilter rejects every config; "RuleFails": an  *)
(* efficient init rule returns kInvalid for some config;                   *)
(* "LaunchBoundsEmpty": a launch-bounds filter rejects every config.       *)
DegenerateCases == {"NoConfig", "RuleFails", "LaunchBoundsEmpty"}
ASSUME Degenerate \subseteq DegenerateCases

Configs == 1..NumConfigs
Insts   == 0..NumInsts - 1

(* Mutant: the loops start at 1.0. *)
ThresholdStartAtOne == 20

(* Both relaxation loops start at 0.95 and step by -0.05. *)
ThresholdStart == 19

(* Below 0 every positive penalty passes and further steps change nothing  *)
(* a filter can see: the model keeps the threshold there.                  *)
ThresholdFloor == -1

VARIABLES
  threadsOk,  \* configs whose threads_num is a multiple of warp_size * compute partition
  ruleOk,     \* configs for which every efficient init rule returns kValid
  ci,         \* ci[c] = <<compute_intensive_ratio[0], compute_intensive_ratio[1]>>
  configs,    \* configs (after ThreadsNumberFilter)
  defined,    \* configs whose cand_states entry is a defined State
  inst,       \* inst_id
  gridSm,     \* per config, for inst: its grid size in SM multiples
  occ,        \* per config, for inst: its occupancy penalty
  pad,        \* per config, for inst: its padding penalty
  cand,       \* inst_cand_configs
  temp,       \* temp_inst_cand_configs, the list entering the padding loop
  thr,        \* occupancy_ratio or padding_penalty_threshold, in steps of 0.05
  filterCand, \* the keys of filter_cand_states
  measured,   \* measured_states_vector_, as configs
  score,      \* AlignHWAdaptStateToWorkload's state_score per instance and state
  disp,       \* select_state_id of each inst_id, 1-based (inst_id_disp_map[i] = i)
  pc

vars == <<threadsOk, ruleOk, ci, configs, defined, inst, gridSm, occ, pad, cand, temp,
          thr, filterCand, measured, score, disp, pc>>

Init ==
  /\ threadsOk \in {T \in SUBSET Configs : T # {} \/ "NoConfig" \in Degenerate}
  /\ ruleOk \in IF "RuleFails" \in Degenerate THEN SUBSET Configs ELSE {Configs}
  /\ ci \in [Configs -> (1..2) \X (1..2)]
  /\ configs = Configs
  /\ defined = {}
  /\ inst = 0
  /\ gridSm = [c \in Configs |-> 0] /\ occ = [c \in Configs |-> 1] /\ pad = [c \in Configs |-> 1]
  /\ cand = {} /\ temp = {}
  /\ thr = ThresholdStart
  /\ filterCand = {}
  /\ measured = <<>>
  /\ score = [i \in Insts |-> <<>>]
  /\ disp = [i \in Insts |-> 0]
  /\ pc = "threads"

(* ThreadsNumberFilter. *)
ThreadsNumberFilter ==
  /\ pc = "threads"
  /\ configs' = configs \cap threadsOk
  /\ pc' = "rules"
  /\ UNCHANGED <<threadsOk, ruleOk, ci, defined, inst, gridSm, occ, pad, cand, temp, thr,
                 filterCand, measured, score, disp>>

(* parallel_for over configs: cand_states[index] is set only if every rule *)
(* returned kValid.                                                        *)
ApplyEfficientInitRules ==
  /\ pc = "rules"
  /\ defined' = configs \cap ruleOk
  /\ pc' = "instance"
  /\ UNCHANGED <<threadsOk, ruleOk, ci, configs, inst, gridSm, occ, pad, cand, temp, thr,
                 filterCand, measured, score, disp>>

(* The start of an instance's pipeline: OccupancyFilter reads the split    *)
(* steps of every cand_states entry; an undefined State is dereferenced.   *)
StartInstance ==
  /\ pc = "instance"
  /\ gridSm' \in [Configs -> GridSmValues]
  /\ occ' \in [Configs -> OccValues]
  /\ pad' \in [Configs -> PadValues]
  /\ thr' = ThresholdStart
  /\ pc' = IF configs \subseteq defined THEN "occupancy" ELSE "crash"
  /\ UNCHANGED <<threadsOk, ruleOk, ci, configs, defined, inst, cand, temp, filterCand,
                 measured, score, disp>>

(* The configs one scan of the sm_times window accepts at ratio t: grid    *)
(* multiple in [smem_sm_partition[1], max_sm_times] and penalty above t.   *)
OccupancyPass(S, t) ==
  LET maxSm == IF S = {} THEN 0 ELSE CHOOSE m \in {gridSm[c] : c \in S} : \A c \in S : gridSm[c] <= m
  IN  {c \in S : gridSm[c] >= SmLow /\ gridSm[c] <= maxSm /\ occ[c] > t}

Relaxed(t) == IF t - 1 < ThresholdFloor THEN ThresholdFloor ELSE t - 1

(* Mutant: the ratio is lowered before the first scan. *)
OccupancyRoundRelaxFirst ==
  /\ pc = "occupancy"
  /\ IF OccupancyPass(configs, Relaxed(thr)) # {}
     THEN /\ cand' = OccupancyPass(configs, Relaxed(thr))
          /\ thr' = Relaxed(thr)
          /\ pc' = "launch"
     ELSE /\ thr' = Relaxed(thr)
          /\ UNCHANGED <<cand, pc>>
  /\ UNCHANGED <<threadsOk, ruleOk, ci, configs, defined, inst, gridSm, occ, pad, temp,
                 filterCand, measured, score, disp>>

(* One iteration of while (filtered_configs.size() == 0) in OccupancyFilter. *)
OccupancyRound ==
  /\ pc = "occupancy"
  /\ IF OccupancyPass(configs, thr) # {}
     THEN /\ cand' = OccupancyPass(configs, thr)
          /\ pc' = "launch"
          /\ UNCHANGED thr
     ELSE /\ thr' = Relaxed(thr)
          /\ UNCHANGED <<cand, pc>>
  /\ UNCHANGED <<threadsOk, ruleOk, ci, configs, defined, inst, gridSm, occ, pad, temp,
                 filterCand, measured, score, disp>>

(* The sets a launch-bounds filter can keep of S: each config is kept or   *)
(* rejected by its own register or shared-memory arithmetic.              *)
LaunchBoundsKeep(S) ==
  {K \in SUBSET S : K # {} \/ S = {} \/ "LaunchBoundsEmpty" \in Degenerate}

(* RegisterLaunchBoundsFilter, SharedMemoryLaunchBoundsFilter, and         *)
(* padding_penalty_threshold = 0.95.                                       *)
LaunchBoundsFilters ==
  /\ pc = "launch"
  /\ \E reg \in LaunchBoundsKeep(cand) : \E smem \in LaunchBoundsKeep(reg) : cand' = smem
  /\ thr' = ThresholdStart
  /\ pc' = "padding"
  /\ UNCHANGED <<threadsOk, ruleOk, ci, configs, defined, inst, gridSm, occ, pad, temp,
                 filterCand, measured, score, disp>>

(* PaddingFilter(S, t). *)
PaddingPass(S, t) == {c \in S : pad[c] > t}

(* Mutant: the threshold is never lowered. *)
PaddingRoundNoRelax ==
  /\ pc = "padding"
  /\ temp' = cand
  /\ IF PaddingPass(cand, thr) # {}
     THEN cand' = PaddingPass(cand, thr) /\ pc' = "intensive" /\ UNCHANGED thr
     ELSE UNCHANGED <<cand, pc, thr>>
  /\ UNCHANGED <<threadsOk, ruleOk, ci, configs, defined, inst, gridSm, occ, pad,
                 filterCand, measured, score, disp>>

(* One iteration of the while (true) padding loop: filter a copy; keep the *)
(* result if non-empty, otherwise restore the copy and relax.              *)
PaddingRound ==
  /\ pc = "padding"
  /\ temp' = cand
  /\ IF PaddingPass(cand, thr) # {}
     THEN cand' = PaddingPass(cand, thr) /\ pc' = "intensive" /\ UNCHANGED thr
     ELSE /\ thr' = Relaxed(thr)
          /\ UNCHANGED <<cand, pc>>
  /\ UNCHANGED <<threadsOk, ruleOk, ci, configs, defined, inst, gridSm, occ, pad,
                 filterCand, measured, score, disp>>

(* The subsets a descending std::sort by key followed by taking the first  *)
(* min(k, size) entries can keep.                                          *)
TopK(S, key, k) ==
  {T \in SUBSET S : /\ Cardinality(T) = IF k < Cardinality(S) THEN k ELSE Cardinality(S)
                    /\ \A t \in T, s \in S \ T : key[t] >= key[s]}

(* SharedMemoryComputeIntensiveFilter, RegComputeIntensiveFilter, then     *)
(* filter_cand_states[config] = state for every survivor.                  *)
ComputeIntensiveFilters ==
  /\ pc = "intensive"
  /\ \E smemTop \in TopK(cand, [c \in Configs |-> ci[c][1]], SmemTopK) :
       \E regTop \in TopK(smemTop, [c \in Configs |-> ci[c][2]], RegTopK) :
          /\ cand' = regTop
          /\ filterCand' = filterCand \cup regTop
  /\ inst' = inst + 1
  /\ pc' = IF inst + 1 < NumInsts THEN "instance" ELSE "measure"
  /\ UNCHANGED <<threadsOk, ruleOk, ci, configs, defined, gridSm, occ, pad, temp, thr,
                 measured, score, disp>>

(* The map's states, in key order, are appended to                         *)
(* measured_states_vector_ and measured, and one throughput each is        *)
(* recorded.                                                               *)
MeasureCandidates ==
  /\ pc = "measure"
  /\ measured' = measured \o SortSeq(SetToSeq(filterCand), LAMBDA a, b : a < b)
  /\ pc' = "dispatch"
  /\ UNCHANGED <<threadsOk, ruleOk, ci, configs, defined, inst, gridSm, occ, pad, cand, temp,
                 thr, filterCand, score, disp>>

(* Mutant: the scan stops one state early. *)
GreedySelectShort(s) ==
  LET n    == Len(s) - 1
      best == IF n = 0 THEN 0 ELSE CHOOSE v \in {s[k] : k \in 1..n} : \A k \in 1..n : s[k] <= v
  IN  IF best = 0 THEN 1 ELSE CHOOSE k \in 1..n : s[k] = best /\ \A j \in 1..k - 1 : s[j] < best

(* select_state_id = 0, max_score = 0, and the first state whose score     *)
(* exceeds the running maximum is kept: the first state of maximal score   *)
(* if it is positive, the first state otherwise (1-based here).            *)
GreedySelect(s) ==
  LET best == CHOOSE v \in {s[k] : k \in DOMAIN s} : \A k \in DOMAIN s : s[k] <= v
  IN  IF best = 0 THEN 1 ELSE CHOOSE k \in DOMAIN s : s[k] = best /\ \A j \in 1..k - 1 : s[j] < best

(* The greedy dispatch over measured_states_throughputs_: every instance   *)
(* gets a state index by GreedySelect.                                     *)
GreedyDispatch ==
  /\ pc = "dispatch"
  /\ score' \in [Insts -> [1..Len(measured) -> 0..MaxScore]]
  /\ disp' = [i \in Insts |-> GreedySelect(score'[i])]
  /\ pc' = "done"
  /\ UNCHANGED <<threadsOk, ruleOk, ci, configs, defined, inst, gridSm, occ, pad, cand, temp,
                 thr, filterCand, measured>>

Finished == pc \in {"done", "crash"} /\ UNCHANGED vars

Next ==
  \/ ThreadsNumberFilter \/ ApplyEfficientInitRules \/ StartInstance \/ OccupancyRound
  \/ LaunchBoundsFilters \/ PaddingRound \/ ComputeIntensiveFilters \/ MeasureCandidates
  \/ GreedyDispatch \/ Finished

(* EfficientSearch runs on one thread and every filter call returns. *)
Spec == Init /\ [][Next]_vars /\ WF_vars(Next)

-----------------------------------------------------------------------------

TypeOK ==
  /\ threadsOk \subseteq Configs /\ ruleOk \subseteq Configs
  /\ configs \subseteq Configs /\ defined \subseteq Configs
  /\ cand \subseteq Configs /\ temp \subseteq Configs /\ filterCand \subseteq Configs
  /\ inst \in 0..NumInsts
  /\ thr \in -1..19                \* 0.95 down to the floor
  /\ measured \in Seq(Configs)
  /\ disp \in [Insts -> Nat]
  /\ pc \in {"threads", "rules", "instance", "occupancy", "launch", "padding", "intensive",
             "measure", "dispatch", "done", "crash"}

(* Each relaxation loop lowers its threshold only as far as it must: when  *)
(* OccupancyFilter returns, no config passed at the threshold one step     *)
(* higher, and the same for the padding loop and the list that entered    *)
(* it; so the survivors are the best-occupancy (best-padding) configs.     *)
RelaxedOnlyAsFarAsNeeded ==
  /\ pc = "launch" =>
       /\ cand = OccupancyPass(configs, thr)
       /\ thr < ThresholdStart => OccupancyPass(configs, thr + 1) = {}
  /\ pc = "intensive" =>
       /\ cand = PaddingPass(temp, thr)
       /\ thr < ThresholdStart => PaddingPass(temp, thr + 1) = {}

(* Every instance is dispatched to a measured state of highest adapted     *)
(* score for it.                                                           *)
DispatchPicksBest ==
  pc = "done" =>
    \A i \in Insts :
       /\ disp[i] \in DOMAIN measured
       /\ \A k \in DOMAIN measured : score[i][k] <= score[i][disp[i]]

(* EfficientSearch returns: each relaxation loop ends once its threshold   *)
(* is low enough, and no filter reads an undefined State (spec: the        *)
(* filters relax rather than fail and return a non-empty result given a    *)
(* structurally valid config; a failed candidate is excluded locally).     *)
EfficientSearchTerminates == <>(pc = "done")

=============================================================================
