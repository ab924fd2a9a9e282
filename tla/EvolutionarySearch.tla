------------------------- MODULE EvolutionarySearch -------------------------
(***************************************************************************)
(* SketchPolicyNode::EvolutionarySearch(init_population, out_size) in      *)
(* src/tvm/src/auto_scheduler/search_policy/sketch_policy.cc.             *)
(*                                                                         *)
(* num_iters + 1 generations. Each generation is bound-inferred, pruned    *)
(* (PruneInvalidState drops the states that fail, and aborts the search   *)
(* when none is left) and scored by the cost                              *)
(* model; every state is then offered, in order, to a bounded min-heap of  *)
(* size out_size keyed by score, guarded by the string set in_heap, which  *)
(* starts as a copy of measured_states_set_. Except after the last         *)
(* generation, the next generation is built by drawing parents in          *)
(* proportion to their scores and mutating them. The heap, sorted by       *)
(* descending score, is the result.                                        *)
(*                                                                         *)
(* The cost model is a fixed function from states to scores during one     *)
(* call (for dynamic tasks the max over instances raised to a fixed        *)
(* power, which preserves the order); it, the measured set and the set of  *)
(* states PruneInvalidState rejects are chosen in Init and never change.   *)
(***************************************************************************)
EXTENDS Integers, Sequences, SequencesExt, Functions, TLC

CONSTANTS
  States,      \* candidate schedules
  OutSize,     \* out_size = num_measure_per_iter_ * 2
  NumIters,    \* params["evolutionary_search_num_iters"]
  Population,  \* params["evolutionary_search_population"]
  InitPopBound,\* longest initial population explored
  MaxScore,    \* scores are 1..MaxScore
  MutationProbPct \* params["evolutionary_search_mutation_prob"] * 100

ASSUME OutSize \in Nat \ {0}
ASSUME NumIters \in Nat
ASSUME Population \in Nat \ {0}
ASSUME InitPopBound \in Nat
ASSUME MaxScore \in Nat \ {0}
ASSUME MutationProbPct \in 0..100

VARIABLES
  score,     \* program_cost_model's prediction for each state
  measured,  \* measured_states_set_ at the call
  invalid,   \* the states PruneInvalidState removes
  mutable,   \* the states some mutation rule can change (rule->Apply may return kValid)
  pnow,      \* pnow, the current generation
  pnext,     \* pnext, the generation being built by mutation
  choice,    \* index of tmp_s in pnow while a mutation is applied; 0 otherwise
  heap,      \* the heap vector; its order is abstracted, its front is a minimum
  inHeap,    \* in_heap
  seen,      \* history: the unmeasured states offered to the heap so far
  k,         \* generation index of for (int k = 0; k < num_iters + 1; ++k)
  i,         \* next index of pnow to offer to the heap
  out,       \* best_states, the returned ranking
  pc         \* "score" | "offer" | "mutate" | "apply" | "done" | "fatal"

vars == <<score, measured, invalid, mutable, pnow, pnext, choice, heap, inHeap, seen, k, i, out, pc>>

(* Sequences of distinct elements of S no longer than n. *)
DistinctSeqs(S, n) == {s \in UNION {[1..j -> S] : j \in 0..n} : IsInjective(s)}

(* SearchOneRound's init_population: the sampled states (distinct and      *)
(* valid) followed by some of the already measured states. It is never    *)
(* empty: SampleInitPopulation returns at least one state for              *)
(* min_population >= 1, and on an empty one RandomSampleStates takes a     *)
(* % 0 before EvolutionarySearch is called.                                *)
InitPopulations(meas, inv) ==
  {a \o b : a \in DistinctSeqs(States \ inv, InitPopBound),
            b \in DistinctSeqs(meas \ inv, 1)} \ {<<>>}

Init ==
  /\ score \in [States -> 1..MaxScore]
  /\ measured \in SUBSET States
  /\ invalid \in SUBSET States
  /\ mutable \in SUBSET States
  /\ pnow \in InitPopulations(measured, invalid)
  /\ pnext = <<>>
  /\ choice = 0
  /\ heap = <<>>
  /\ inHeap = measured        \* std::unordered_set<std::string> in_heap(measured_states_set_)
  /\ seen = {}
  /\ k = 0
  /\ i = 1
  /\ out = <<>>
  /\ pc = "score"

(* InferBound, PruneInvalidState and Predict on the current generation.   *)
(* PruneInvalidState keeps the valid states, and LOG(FATAL)s when none is  *)
(* left: the search aborts.                                                *)
ScoreGeneration ==
  /\ pc = "score"
  /\ LET kept == SelectSeq(pnow, LAMBDA s : s \notin invalid) IN
     IF kept = <<>>
     THEN /\ pc' = "fatal"
          /\ UNCHANGED <<pnow, i>>
     ELSE /\ pnow' = kept
          /\ i' = 1
          /\ pc' = "offer"
  /\ UNCHANGED <<score, measured, invalid, mutable, pnext, choice, heap, inHeap, seen, k, out>>

(* Mutant: the entry compared and evicted is any entry, not the front. *)
AllPositions == DOMAIN heap

(* heap.front() of a min-heap under cmp (left.second > right.second): an    *)
(* entry of least score; which one among ties depends on the heap layout.  *)
MinPositions == {m \in DOMAIN heap : \A n \in DOMAIN heap : score[heap[m]] <= score[heap[n]]}

(* Mutant: the evicted state's string stays in in_heap. *)
ReplaceMinKeepingOld(s, m) ==
  /\ heap' = [heap EXCEPT ![m] = s]
  /\ inHeap' = inHeap \cup {s}

(* in_heap.erase(old); in_heap.insert(s); pop_heap; heap.back() = s; push_heap. *)
ReplaceMin(s, m) ==
  /\ heap' = [heap EXCEPT ![m] = s]
  /\ inHeap' = (inHeap \ {heap[m]}) \cup {s}

(* One iteration of for (i < pnow->size()): offer pnow[i] to the heap. *)
OfferToHeap ==
  /\ pc = "offer"
  /\ i <= Len(pnow)
  /\ LET s == pnow[i] IN
     /\ IF s \in inHeap
        THEN UNCHANGED <<heap, inHeap>>
        ELSE IF Len(heap) < OutSize
             THEN /\ heap' = Append(heap, s)
                  /\ inHeap' = inHeap \cup {s}
             ELSE \E m \in MinPositions :
                    IF score[s] > score[heap[m]]
                    THEN ReplaceMin(s, m)
                    ELSE UNCHANGED <<heap, inHeap>>
     /\ seen' = IF s \in measured THEN seen ELSE seen \cup {s}
  /\ i' = i + 1
  /\ UNCHANGED <<score, measured, invalid, mutable, pnow, pnext, choice, k, out, pc>>

(* Mutant: the break test is one generation late. *)
IsPastLastGeneration(kk) == kk = NumIters + 1

(* if (k == num_iters) break; *)
IsLastGeneration(kk) == kk = NumIters

(* Mutant: best_states sorted by ascending score. *)
EndGenerationAscending ==
  /\ pc = "offer"
  /\ i > Len(pnow)
  /\ IF IsLastGeneration(k)
     THEN /\ pc' = "done"
          /\ out' = SortSeq(heap, LAMBDA a, b : score[a] < score[b])
     ELSE /\ pc' = "mutate"
          /\ UNCHANGED out
  /\ UNCHANGED <<score, measured, invalid, mutable, pnow, pnext, choice, heap, inHeap, seen, k, i>>

(* After the heap pass: stop after the last generation (sorting the heap   *)
(* by descending score into best_states), otherwise go on to mutation.     *)
EndGeneration ==
  /\ pc = "offer"
  /\ i > Len(pnow)
  /\ IF IsLastGeneration(k)
     THEN /\ pc' = "done"
          /\ out' = SortSeq(heap, LAMBDA a, b : score[a] > score[b])
     ELSE /\ pc' = "mutate"
          /\ UNCHANGED out
  /\ UNCHANGED <<score, measured, invalid, mutable, pnow, pnext, choice, heap, inHeap, seen, k, i>>

(* while (pnext->size() < population): tmp_s = pnow[RandomChoose(...)].   *)
(* Every parent has a positive score, so any index of pnow can be drawn.   *)
DrawParent(j) ==
  /\ pc = "mutate"
  /\ Len(pnext) < Population
  /\ j \in DOMAIN pnow
  /\ choice' = j
  /\ pc' = "apply"
  /\ UNCHANGED <<score, measured, invalid, mutable, pnow, pnext, heap, inHeap, seen, k, i, out>>

(* Mutant: the parent kept by dis >= mutation_prob is not pushed. *)
KeepParentDropped ==
  /\ pc = "apply"
  /\ MutationProbPct < 100
  /\ choice' = 0
  /\ pc' = "mutate"
  /\ UNCHANGED <<score, measured, invalid, mutable, pnow, pnext, heap, inHeap, seen, k, i, out>>

(* dis(rand_gen) >= mutation_prob: pnext->push_back(tmp_s). *)
KeepParent ==
  /\ pc = "apply"
  /\ MutationProbPct < 100
  /\ pnext' = Append(pnext, pnow[choice])
  /\ choice' = 0
  /\ pc' = "mutate"
  /\ UNCHANGED <<score, measured, invalid, mutable, pnow, heap, inHeap, seen, k, i, out>>

(* dis < mutation_prob and rule->Apply returns kValid: the mutant, which   *)
(* may be any schedule, is pushed (mutation_success_ct++). Only a parent   *)
(* some rule can change has a valid outcome.                               *)
MutationValid ==
  /\ pc = "apply"
  /\ MutationProbPct > 0
  /\ pnow[choice] \in mutable
  /\ \E s \in States : pnext' = Append(pnext, s)
  /\ choice' = 0
  /\ pc' = "mutate"
  /\ UNCHANGED <<score, measured, invalid, mutable, pnow, heap, inHeap, seen, k, i, out>>

(* dis < mutation_prob and the rule returns kInvalid: mutation_fail_ct++,  *)
(* nothing is pushed and the loop draws again.                             *)
MutationInvalid ==
  /\ pc = "apply"
  /\ MutationProbPct > 0
  /\ choice' = 0
  /\ pc' = "mutate"
  /\ UNCHANGED <<score, measured, invalid, mutable, pnow, pnext, heap, inHeap, seen, k, i, out>>

(* std::swap(pnext, pnow); pnext->clear(); on to the next generation. *)
SwapGenerations ==
  /\ pc = "mutate"
  /\ Len(pnext) = Population
  /\ pnow' = pnext
  /\ pnext' = <<>>
  /\ k' = k + 1
  /\ pc' = "score"
  /\ UNCHANGED <<score, measured, invalid, mutable, choice, heap, inHeap, seen, i, out>>

(* EvolutionarySearch has returned, or PruneInvalidState aborted it. *)
Finished == pc \in {"done", "fatal"} /\ UNCHANGED vars

Next ==
  \/ ScoreGeneration \/ OfferToHeap \/ EndGeneration
  \/ \E j \in DOMAIN pnow : DrawParent(j)
  \/ KeepParent \/ MutationValid \/ MutationInvalid \/ SwapGenerations
  \/ Finished

(* Every step but the random choices is sequential code, hence WF. At    *)
(* each attempt a push (the parent kept by dis >= mutation_prob, or a      *)
(* valid mutation) has positive probability whenever it is possible, so   *)
(* a push happens if one is possible infinitely often (SF).                *)
Spec ==
  /\ Init /\ [][Next]_vars /\ WF_vars(Next)
  /\ SF_vars(KeepParent \/ MutationValid)

-----------------------------------------------------------------------------

TypeOK ==
  /\ score \in [States -> 1..MaxScore]
  /\ measured \subseteq States /\ invalid \subseteq States /\ mutable \subseteq States
  /\ pnow \in Seq(States) /\ pnext \in Seq(States) /\ Len(pnext) <= Population
  /\ choice \in 0..Len(pnow) /\ (pc = "apply") = (choice # 0) /\ heap \in Seq(States) /\ out \in Seq(States)
  /\ inHeap \subseteq States /\ seen \subseteq States
  /\ k \in 0..NumIters /\ i \in Nat
  /\ pc \in {"score", "offer", "mutate", "apply", "done", "fatal"}

(* The heap always holds a best-of selection of everything offered so far: *)
(* it is full (min(out_size, #distinct unmeasured states seen) entries)   *)
(* and no offered unmeasured state outside it scores higher than any       *)
(* state in it, across all generations and evictions.                      *)
HeapIsBestOfSeen ==
  /\ Range(heap) \subseteq seen
  /\ Len(heap) = IF OutSize < Cardinality(seen) THEN OutSize ELSE Cardinality(seen)
  /\ \A h \in Range(heap), s \in seen \ Range(heap) : score[h] >= score[s]

(* in_heap mirrors the heap: it is exactly the heap's states plus the      *)
(* measured set, so the heap never holds a measured state or the same      *)
(* state twice, and an evicted state may enter again.                      *)
InHeapMirrorsHeap ==
  /\ IsInjective(heap)
  /\ inHeap = Range(heap) \cup measured
  /\ Range(heap) \cap measured = {}

(* Every call of EvolutionarySearch returns (or aborts in                  *)
(* PruneInvalidState): the mutation loop while (pnext->size() <            *)
(* population) fills pnext even when no parent can be mutated, because a   *)
(* parent is kept whenever dis(rand_gen) >= mutation_prob.                 *)
EvolutionarySearchTerminates == <>(pc \in {"done", "fatal"})

-----------------------------------------------------------------------------

(* The heap as the selection it stands for: the offered items are the      *)
(* history seen, the kept set is the heap's states, the result is          *)
(* best_states once the call has returned.                                 *)
Abs == INSTANCE TopKSelection
         WITH Items <- States, K <- OutSize, excluded <- measured,
              offered <- seen, best <- Range(heap), result <- out,
              done <- (pc = "done")

(* EvolutionarySearch implements TopKSelection: every heap step, across    *)
(* generations, evictions, duplicate and measured offers, is an arrival    *)
(* of TopKSelection or changes nothing it sees, and best_states is the     *)
(* kept selection by descending score.                                     *)
RefinesTopKSelection == Abs!Spec

=============================================================================
