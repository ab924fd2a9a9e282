--------------------------- MODULE DispatchRetry ---------------------------
(***************************************************************************)
(* The final dynamic-shape dispatch of SketchPolicyNode::Search in         *)
(* src/tvm/src/auto_scheduler/search_policy/sketch_policy.cc: after the    *)
(* measurement loop, every measured state is scored for every workload     *)
(* instance (adapted_candidate_flops), then a dispatch / build-check loop  *)
(* runs: TopKDispatcher picks a state per instance, MapWklInstsToStates    *)
(* renumbers the picks as indices into selected_candidate_states, one      *)
(* input per instance is built, and a failed build zeroes a score and      *)
(* queues the instance for re-dispatch. The loop repeats while             *)
(* changed_adapted_candidate_flops holds.                                  *)
(*                                                                         *)
(* Measured states are their indices 0..NumStates-1 in                     *)
(* measured_states_vector_; the throughput vector is taken to be as long   *)
(* as the state vector (SearchLoop shows when it is not). AdaptState-      *)
(* ToWorkload, TopKDispatcher and MapWklInstsToStates are not in src/:     *)
(* they are modelled from the spec's contract for the dispatcher.          *)
(***************************************************************************)
EXTENDS Integers, Sequences, SequencesExt, FiniteSets

CONSTANTS
  NumInsts,   \* search_task->wkl_insts.size()
  NumStates,  \* measured_states_vector_.size()
  TopK,       \* most distinct states the dispatcher selects
  MaxFlops    \* adapted scores are 0..MaxFlops

ASSUME NumInsts \in Nat \ {0} /\ NumStates \in Nat \ {0}
ASSUME TopK \in 1..NumStates /\ MaxFlops \in Nat \ {0}

Insts == 0..NumInsts - 1
Sts   == 0..NumStates - 1

VARIABLES
  flops,        \* adapted_candidate_flops[inst_id * V + state_id], as flops[inst_id][state_id]
  builds,       \* builds[i]: the states whose build for instance i succeeds
  dispMap,      \* inst_id_disp_map: instance -> index into selected
  selected,     \* selected_candidate_states, as measured-state indices
  nextIds,      \* next_wkl_inst_ids
  failedPairs,  \* history: <<instance, state>> pairs whose build failed
  pc            \* "pass" at the top of the do-while, "done" after it

vars == <<flops, builds, dispMap, selected, nextIds, failedPairs, pc>>

(* wkl_inst_ids: every instance, and never reassigned in the loop. *)
WklInstIds == Insts

(* bool changed_adapted_candidate_flops = false; nothing in the loop sets it. *)
ChangedAdaptedCandidateFlops == FALSE

(* AdaptStateToWorkload for every (state, instance): any score. *)
Init ==
  /\ flops \in [Insts -> [Sts -> 1..MaxFlops]]
  /\ builds \in [Insts -> SUBSET Sts]
  /\ dispMap = [i \in Insts |-> 0]
  /\ selected = <<>>
  /\ nextIds = {}
  /\ failedPairs = {}
  /\ pc = "pass"

(* TopKDispatcher::dispatch: at most TopK states are chosen overall, and   *)
(* every instance gets the chosen state with its highest adapted score.   *)
Dispatches ==
  {raw \in [Insts -> Sts] :
     \E S \in SUBSET Sts :
        /\ S # {} /\ Cardinality(S) <= TopK
        /\ \A i \in Insts : raw[i] \in S /\ \A t \in S : flops[i][raw[i]] >= flops[i][t]}

(* Orderings of subsets of S without repetition. *)
DistinctSeqsOf(S) == {f \in UNION {[1..n -> S] : n \in 0..Cardinality(S)} : IsInjective(f)}

(* MapWklInstsToStates: the picked states, each once, in some order. *)
MapWklInstsToStates(raw) ==
  {sel \in DistinctSeqsOf(Range(raw)) : Len(sel) = Cardinality(Range(raw))}

(* inst_id_disp_map[i]: the index of i's state in selected_candidate_states. *)
DispIndex(sel, raw) == [i \in Insts |-> (CHOOSE p \in DOMAIN sel : sel[p] = raw[i]) - 1]

(* Mutant: a failed pair is marked with a -1 sentinel. *)
MarkFailedScore(row, idx) == [row EXCEPT ![idx] = -1]

(* adapted_candidate_flops[inst_id * V + state_id] = 0 with state_id =    *)
(* inst_id_disp_map[inst_id], a position in selected_candidate_states.   *)
ZeroFailedScore(row, idx) == [row EXCEPT ![idx] = 0]

(***************************************************************************)
(* One pass of the do { } while (changed_adapted_candidate_flops) loop:    *)
(* dispatch, build one input per instance in wkl_inst_ids, and for every  *)
(* failed build zero a score and queue the instance.                       *)
(***************************************************************************)
DispatchPass ==
  /\ pc = "pass"
  /\ \E raw \in Dispatches : \E sel \in MapWklInstsToStates(raw) :
          LET idx    == DispIndex(sel, raw)
              failed == {i \in WklInstIds : sel[idx[i] + 1] \notin builds[i]}
          IN  /\ dispMap' = idx
              /\ selected' = sel
              /\ nextIds' = failed
              /\ flops' = [i \in Insts |-> IF i \in failed
                                             THEN ZeroFailedScore(flops[i], idx[i])
                                             ELSE flops[i]]
              /\ failedPairs' = failedPairs \cup {<<i, sel[idx[i] + 1]>> : i \in failed}
  /\ pc' = IF ChangedAdaptedCandidateFlops THEN "pass" ELSE "done"
  /\ UNCHANGED builds

(* Search has returned <selected_candidate_states, inst_id_disp_map>. *)
Finished == pc = "done" /\ UNCHANGED vars

Next == DispatchPass \/ Finished

Spec == Init /\ [][Next]_vars /\ WF_vars(DispatchPass)

-----------------------------------------------------------------------------

TypeOK ==
  /\ flops \in [Insts -> [Sts -> 0..MaxFlops]]
  /\ builds \in [Insts -> SUBSET Sts]
  /\ dispMap \in [Insts -> Nat]
  /\ selected \in Seq(Sts)
  /\ nextIds \subseteq Insts
  /\ failedPairs \subseteq Insts \X Sts
  /\ pc \in {"pass", "done"}

(* Once a build of a state for an instance has failed, that pair's        *)
(* adapted score is 0 in every later selection (spec, Scenario E).        *)
FailedPairZeroed == \A p \in failedPairs : flops[p[1]][p[2]] = 0

(* Search never returns an instance dispatched to a state whose build      *)
(* failed while some other measured state builds for it: a failure is     *)
(* excluded and the instance re-dispatched (spec 4.5, Scenario E).         *)
ReturnedDispatchBuilds ==
  pc = "done" =>
    \A i \in Insts : selected[dispMap[i] + 1] \in builds[i] \/ builds[i] = {}

=============================================================================
