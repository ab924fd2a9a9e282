-------------------------- MODULE SketchGeneration --------------------------
(***************************************************************************)
(* SketchPolicyNode::GenerateSketches in                                   *)
(* src/tvm/src/auto_scheduler/search_policy/sketch_policy.cc, with the     *)
(* sketch-rule list the SketchPolicy constructor builds for the target.   *)
(*                                                                         *)
(* Starting from the initial state with its cursor at the last stage,      *)
(* waves of states are expanded: a state whose cursor is below 0 is a      *)
(* sketch; otherwise the rules are asked in order, every rule that does    *)
(* not skip is applied (its results go to pnext, and their cursors to      *)
(* cur_stage_id_map, keyed by the state's structure), and a rule that     *)
(* answers kApplyAndSkipRest ends the walk. After the waves, the split     *)
(* step in front of every rfactor step gets an unspecified factor.         *)
(*                                                                         *)
(* A state is its sequence of transform steps <<name, stage>>. The rules  *)
(* themselves (sketch_policy_rules.cc) are not under src/: their           *)
(* conditions and results are modelled from the spec's contract over a     *)
(* chain of stages, each stage consuming the one before it, whose kinds    *)
(* are chosen in Init.                                                     *)
(***************************************************************************)
EXTENDS Integers, Sequences, SequencesExt, FiniteSets

CONSTANTS
  NumStages,  \* init_state->stages.size()
  HwLevels    \* the values hardware_api->num_level can take

ASSUME NumStages \in Nat \ {0}
ASSUME HwLevels \subseteq Nat

Stages == 0..NumStages - 1

(* Stage 0 reads the input; the others are element-wise, reductions, or    *)
(* reductions with a small space extent (the rfactor candidates).         *)
Kinds == {"elementwise", "reduction", "smallReduction"}

VARIABLES
  device,         \* "cpu", "cuda" or "mali"
  dynTask,        \* IsDynTask(search_task)
  numLevel,       \* hardware_api->num_level
  stageKind,      \* the kind of every stage of the compute DAG
  sketchRules,    \* sketch_rules
  pnow, pnext,    \* the ping-pong buffers
  curStageIdMap,  \* cur_stage_id_map
  outStates,      \* out_states
  j,              \* next index of pnow in the current wave
  pc              \* "generate" | "postpass" | "done" | "crash"

vars == <<device, dynTask, numLevel, stageKind, sketchRules, pnow, pnext,
          curStageIdMap, outStates, j, pc>>

(* Mutant: the CPU list lacks rule_skip_stage. *)
SketchRulesWithoutSkipStage(dev, dyn, lv) ==
  IF dev \in {"cpu", "mali"}
  THEN IF dev = "cpu"
       THEN <<"always_inline", "simplify_const", "add_rfactor", "add_cache_write",
              "mlt_fusion", "mlt">>
       ELSE <<"always_inline", "simplify_const", "add_rfactor", "add_cache_write",
              "mlt_fusion", "mlt", "skip_stage">>
  ELSE <<"cache_read", "special_compute_location", "always_inline", "simplify_const">>
         \o (IF dyn THEN <<>> ELSE <<"cross_thread_reduction">>)
         \o <<"add_cache_write", IF lv # 0 THEN "align_hw_tile_fusion" ELSE "mlt_fusion",
              "mlt", "skip_stage">>

(* The SketchPolicy constructor's sketch_rules: the CPU and Mali lists,    *)
(* and the CUDA list whose cross-thread reduction is for static tasks and  *)
(* whose tiling-with-fusion is the hardware-aligned one when num_level    *)
(* is not 0.                                                               *)
SketchRules(dev, dyn, lv) ==
  IF dev \in {"cpu", "mali"}
  THEN <<"always_inline", "simplify_const", "add_rfactor", "add_cache_write",
         "mlt_fusion", "mlt", "skip_stage">>
  ELSE <<"cache_read", "special_compute_location", "always_inline", "simplify_const">>
         \o (IF dyn THEN <<>> ELSE <<"cross_thread_reduction">>)
         \o <<"add_cache_write", IF lv # 0 THEN "align_hw_tile_fusion" ELSE "mlt_fusion",
              "mlt", "skip_stage">>

-----------------------------------------------------------------------------
(* The rules, from the spec's contract (not under src/).                   *)

HasStep(s, name, st) == <<name, st>> \in Range(s)

NeedsTiling(st) == stageKind[st] \in {"reduction", "smallReduction"}

(* The stage's single consumer is element-wise, or it has its own cache    *)
(* stage: its tiles can be fused into the consumer.                        *)
FusableConsumer(s, st) ==
  \/ st < NumStages - 1 /\ stageKind[st + 1] = "elementwise"
  \/ HasStep(s, "cache_write", st)

(* MeetCondition: "skip", "apply" or "applyAndSkipRest". cache_read,       *)
(* special_compute_location and simplify_const need shared-memory          *)
(* consumers, special placements or constant tensors, which the stage     *)
(* kinds do not have.                                                      *)
Cond(r, s, st) ==
  CASE r = "skip_stage" -> "apply"
    [] r = "always_inline" ->
         IF stageKind[st] = "elementwise" /\ st < NumStages - 1 THEN "applyAndSkipRest" ELSE "skip"
    [] r \in {"add_rfactor", "cross_thread_reduction"} ->
         IF /\ stageKind[st] = "smallReduction"
            /\ ~HasStep(s, "rfactor", st) /\ ~HasStep(s, "cross_thread", st)
            /\ ~HasStep(s, "cache_write", st)
         THEN "apply" ELSE "skip"
    [] r = "add_cache_write" ->
         IF NeedsTiling(st) /\ ~FusableConsumer(s, st)
         THEN IF device = "cpu" THEN "apply" ELSE "applyAndSkipRest"
         ELSE "skip"
    [] r \in {"mlt_fusion", "align_hw_tile_fusion"} ->
         IF NeedsTiling(st) /\ FusableConsumer(s, st) THEN "applyAndSkipRest" ELSE "skip"
    [] r = "mlt" -> IF NeedsTiling(st) THEN "applyAndSkipRest" ELSE "skip"
    [] OTHER -> "skip"

(* Apply: the <<state, cursor>> pairs a rule returns. *)
ApplyRule(r, s, st) ==
  CASE r = "skip_stage"             -> << <<s, st - 1>> >>
    [] r = "always_inline"          -> << <<Append(s, <<"inline", st>>), st - 1>> >>
    [] r = "add_rfactor"            -> << <<s \o << <<"split", st>>, <<"rfactor", st>> >>, st>> >>
    [] r = "cross_thread_reduction" -> << <<s \o << <<"split", st>>, <<"cross_thread", st>> >>, st>> >>
    [] r = "add_cache_write"        -> << <<Append(s, <<"cache_write", st>>), st>> >>
    [] r \in {"mlt_fusion", "align_hw_tile_fusion"} -> << <<Append(s, <<"tile_fuse", st>>), st - 1>> >>
    [] r = "mlt"                    -> << <<Append(s, <<"tile", st>>), st - 1>> >>
    [] OTHER                        -> <<>>

-----------------------------------------------------------------------------

Init ==
  /\ device \in {"cpu", "cuda", "mali"}
  /\ dynTask \in BOOLEAN
  /\ ~(dynTask /\ device = "cpu")      \* LOG(FATAL): non-GPU dynamic tasks
  /\ numLevel \in IF device = "cuda" THEN HwLevels ELSE {0}
  /\ stageKind \in {k \in [Stages -> Kinds \cup {"placeholder"}] :
                      \A st \in Stages : (k[st] = "placeholder") <=> (st = 0)}
  /\ sketchRules = SketchRules(device, dynTask, numLevel)
  /\ pnow = << <<>> >>                  \* states_buf1{init_state}
  /\ pnext = <<>>
  /\ curStageIdMap = [x \in {<<>>} |-> NumStages - 1]
  /\ outStates = <<>>
  /\ j = 1
  /\ pc = "generate"

(* Mutant: the rule walk goes on after kApplyAndSkipRest. *)
RECURSIVE DeriveWithoutBreak(_, _, _)
DeriveWithoutBreak(s, st, r) ==
  IF r > Len(sketchRules) THEN <<>>
  ELSE IF Cond(sketchRules[r], s, st) = "skip" THEN DeriveWithoutBreak(s, st, r + 1)
  ELSE ApplyRule(sketchRules[r], s, st) \o DeriveWithoutBreak(s, st, r + 1)

(* The pairs the rules from the r-th on push for state s at stage st, in   *)
(* order: for (rule : sketch_rules) { cond = MeetCondition; if not kSkip,  *)
(* push every Apply pair; break on kApplyAndSkipRest }.                    *)
RECURSIVE Derive(_, _, _)
Derive(s, st, r) ==
  IF r > Len(sketchRules) THEN <<>>
  ELSE LET c == Cond(sketchRules[r], s, st) IN
       IF c = "skip" THEN Derive(s, st, r + 1)
       ELSE ApplyRule(sketchRules[r], s, st)
              \o (IF c = "applyAndSkipRest" THEN <<>> ELSE Derive(s, st, r + 1))

(* Mutant: cur_stage_id_map.insert(pair), which keeps an existing entry. *)
UpdateStageMapInsert(m, p) ==
  IF p[1] \in DOMAIN m THEN m ELSE [x \in DOMAIN m \cup {p[1]} |-> IF x = p[1] THEN p[2] ELSE m[x]]

(* cur_stage_id_map[pair.first] = pair.second *)
UpdateStageMap(m, p) == [x \in DOMAIN m \cup {p[1]} |-> IF x = p[1] THEN p[2] ELSE m[x]]

(* One state of the wave: a sketch if its cursor is below 0, otherwise     *)
(* expanded by the rules.                                                  *)
ProcessState ==
  /\ pc = "generate"
  /\ j <= Len(pnow)
  /\ LET s  == pnow[j]
         st == curStageIdMap[s]
         ps == Derive(s, st, 1)
     IN  IF st < 0
         THEN /\ outStates' = Append(outStates, s)
              /\ UNCHANGED <<pnext, curStageIdMap>>
         ELSE /\ pnext' = pnext \o [k \in DOMAIN ps |-> ps[k][1]]
              /\ curStageIdMap' = FoldLeft(UpdateStageMap, curStageIdMap, ps)
              /\ UNCHANGED outStates
  /\ j' = j + 1
  /\ UNCHANGED <<device, dynTask, numLevel, stageKind, sketchRules, pnow, pc>>

(* std::swap(pnow, pnext) and pnext->clear(); while (!pnow->empty()). *)
EndWave ==
  /\ pc = "generate"
  /\ j > Len(pnow)
  /\ pnow' = pnext
  /\ pnext' = <<>>
  /\ j' = 1
  /\ pc' = IF pnext = <<>> THEN "postpass" ELSE "generate"
  /\ UNCHANGED <<device, dynTask, numLevel, stageKind, sketchRules, curStageIdMap, outStates>>

(* ICHECK_GE(step_id, 1) and ICHECK(step != nullptr) for every rfactor step. *)
RfactorChecked(s) ==
  \A k \in DOMAIN s : s[k][1] = "rfactor" => k >= 2 /\ s[k - 1][1] = "split"

(* The split in front of an rfactor step gets lengths {NullOpt}. *)
FreeRfactorSplit(s) ==
  [k \in DOMAIN s |->
     IF k < Len(s) /\ s[k][1] = "split" /\ s[k + 1][1] = "rfactor"
     THEN <<"split_free", s[k][2]>> ELSE s[k]]

(* The rfactor post-pass over out_states, then return. *)
PostPass ==
  /\ pc = "postpass"
  /\ IF \A i \in DOMAIN outStates : RfactorChecked(outStates[i])
     THEN /\ outStates' = [i \in DOMAIN outStates |-> FreeRfactorSplit(outStates[i])]
          /\ pc' = "done"
     ELSE /\ pc' = "crash"
          /\ UNCHANGED outStates
  /\ UNCHANGED <<device, dynTask, numLevel, stageKind, sketchRules, pnow, pnext, curStageIdMap, j>>

Next == ProcessState \/ EndWave \/ PostPass

-----------------------------------------------------------------------------

TypeOK ==
  /\ device \in {"cpu", "cuda", "mali"} /\ dynTask \in BOOLEAN /\ numLevel \in Nat
  /\ \A i \in DOMAIN pnow : pnow[i] \in DOMAIN curStageIdMap
  /\ \A x \in DOMAIN curStageIdMap : curStageIdMap[x] \in -1..NumStages - 1
  /\ j \in 1..Len(pnow) + 1
  /\ pc \in {"generate", "postpass", "done", "crash"}

(* The rules the walk applies to state s at stage st, as the spec states   *)
(* them: every rule that does not skip, up to the first that answers      *)
(* apply-and-skip-rest.                                                    *)
Applied(s, st) ==
  {r \in DOMAIN sketchRules :
     /\ Cond(sketchRules[r], s, st) # "skip"
     /\ \A q \in 1..r - 1 : Cond(sketchRules[q], s, st) # "applyAndSkipRest"}

(* Every terminal state derivable from s with cursor st, path by path. *)
RECURSIVE Derivations(_, _)
Derivations(s, st) ==
  IF st < 0 THEN {s}
  ELSE UNION {Derivations(p[1], p[2]) :
                p \in UNION {Range(ApplyRule(sketchRules[r], s, st)) : r \in Applied(s, st)}}

(* GenerateSketches returns every sketch derivable from the initial state, *)
(* each once and none other: the waves over shared buffers, with cursors   *)
(* kept in a map keyed by state structure, compute the derivation tree's   *)
(* leaves, and the post-pass frees every rfactor split.                    *)
SketchesAreDerivations ==
  pc = "done" =>
    /\ IsInjective(outStates)
    /\ Range(outStates) = {FreeRfactorSplit(x) : x \in Derivations(<<>>, NumStages - 1)}

(* GenerateSketches returns: every rule either lowers the cursor or makes  *)
(* its own condition false, and the map records each new cursor.          *)
SketchGenerationTerminates == <>(pc = "done")

=============================================================================
