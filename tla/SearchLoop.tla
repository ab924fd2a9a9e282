----------------------------- MODULE SearchLoop -----------------------------
(***************************************************************************)
(* The measurement loop of SketchPolicyNode::Search (n_trials > 1) in      *)
(* src/tvm/src/auto_scheduler/search_policy/sketch_policy.cc, together    *)
(* with PickStatesWithEpsGreedy, which it calls once per round.            *)
(*                                                                         *)
(* One round: SearchOneRound proposes best_states (the evolutionary        *)
(* search's ranked output: distinct states never measured before) and     *)
(* random_states (sampled with replacement from the initial population,   *)
(* so they may repeat and may already be measured); the eps-greedy pick    *)
(* keeps the unmeasured ones, appends them to measured_states_set_ and     *)
(* measured_states_vector_, the measurer runs them, ct grows, the early-   *)
(* stopping test runs, and only then is one throughput per input appended  *)
(* to measured_states_throughputs_.                                        *)
(*                                                                         *)
(* Schedules are model values; a throughput entry is recorded as the       *)
(* state it was measured for, so the index-parallel vectors can be         *)
(* compared entry by entry.                                                *)
(***************************************************************************)
EXTENDS Integers, Sequences, SequencesExt, Functions

CONSTANTS
  States,            \* candidate schedules (ScheduleState values)
  NTrials,           \* n_trials, the measurement budget (> 1 on this path)
  NumMeasurePerIter, \* num_measure_per_iter
  NumRandom,         \* int(eps_greedy * num_measure_per_iter)
  EmptyRetryCount,   \* params["empty_retry_count"]
  EarlyStoppingParam, \* early_stopping argument (< 0 disables it)
  NumContinueRounds   \* ContinueSearchOneRound calls a task scheduler makes

ASSUME NTrials \in Nat /\ NTrials > 1
ASSUME NumMeasurePerIter \in Nat \ {0}
ASSUME NumRandom \in 0..NumMeasurePerIter
ASSUME EmptyRetryCount \in Nat
ASSUME EarlyStoppingParam \in Int
ASSUME NumContinueRounds \in Nat \ {0}

VARIABLES
  ct,            \* trials measured so far
  emptyRetry,    \* empty_retry_count, the retries left for empty rounds
  measuredSet,   \* measured_states_set_
  measuredVec,   \* measured_states_vector_
  throughputs,   \* measured_states_throughputs_ (entry i belongs to the state measured i-th)
  bestCt,        \* measurer->best_ct[workload_key]
  hasValid,      \* measurer->has_valid.count(workload_key) = 1
  rounds,        \* ContinueSearchOneRound calls made
  pc             \* "loop" at the head of while (ct < n_trials), "continue" between
                 \* ContinueSearchOneRound calls, "done" after either

vars == <<ct, emptyRetry, measuredSet, measuredVec, throughputs, bestCt, hasValid, rounds, pc>>

(* early_stopping < 0 ? std::numeric_limits<int>::max() >> 1 : early_stopping *)
EarlyStopping == IF EarlyStoppingParam < 0 THEN 2^30 - 1 ELSE EarlyStoppingParam

(* The number of states the eps-greedy pick prefers from best_states. *)
NumGood == NumMeasurePerIter - NumRandom

(* Sequences of distinct elements of S no longer than n. *)
DistinctSeqs(S, n) == {s \in UNION {[1..k -> S] : k \in 0..n} : IsInjective(s)}

(* The ranked output of EvolutionarySearch(init_population,                 *)
(* num_measure_per_iter_ * 2): distinct, never-measured states.           *)
BestStates == DistinctSeqs(States \ measuredSet, 2 * NumMeasurePerIter)

(* RandomSampleStates(init_population, num_random * 3), or the empty array  *)
(* when there is nothing to sample.                                        *)
RandomStates ==
  IF NumRandom = 0 THEN {<<>>}
  ELSE {<<>>} \cup [1..3 * NumRandom -> States]

(***************************************************************************)
(* PickStatesWithEpsGreedy: walk best and random with two offsets, prefer  *)
(* best while fewer than num_good inputs are picked and random after that, *)
(* stop at min(num_measure_per_iter_, remaining) inputs or when both are   *)
(* exhausted, and keep only states whose string is not in the measured     *)
(* set. Returns <<inputs, new measured set>>; every input is also appended *)
(* to measured_states_vector_ in the same order.                           *)
(***************************************************************************)
RECURSIVE PickLoop(_, _, _, _, _, _, _)
PickLoop(best, random, limit, ob, orr, inputs, set) ==
  LET hasBest   == ob < Len(best)
      hasRandom == orr < Len(random)
      takeBest  == IF Len(inputs) < NumGood THEN hasBest ELSE ~hasRandom
      s         == IF takeBest THEN best[ob + 1] ELSE random[orr + 1]
      ob2       == IF takeBest THEN ob + 1 ELSE ob
      orr2      == IF takeBest THEN orr ELSE orr + 1
  IN  IF Len(inputs) >= limit \/ (~hasBest /\ ~hasRandom)
      THEN <<inputs, set>>
      ELSE IF s \in set
           THEN PickLoop(best, random, limit, ob2, orr2, inputs, set)
           ELSE PickLoop(best, random, limit, ob2, orr2, Append(inputs, s), set \cup {s})

(* Mutant: the round is capped at num_measure_per_iter_ only. *)
PickIgnoringRemaining(best, random, remaining) ==
  PickLoop(best, random, NumMeasurePerIter, 0, 0, <<>>, measuredSet)

(* Mutant: the dedup set starts empty in every round. *)
PickWithRoundLocalSet(best, random, remaining) ==
  PickLoop(best, random, IF NumMeasurePerIter < remaining THEN NumMeasurePerIter ELSE remaining,
           0, 0, <<>>, {})

PickStatesWithEpsGreedy(best, random, remaining) ==
  PickLoop(best, random, IF NumMeasurePerIter < remaining THEN NumMeasurePerIter ELSE remaining,
           0, 0, <<>>, measuredSet)

(***************************************************************************)
(* The measurer's bookkeeping (ProgramMeasurer, outside src/): after a     *)
(* batch whose last best-improving result is the improveAt-th input (0:    *)
(* none improved), best_ct is the trial count at that input; has_valid is  *)
(* set once any result is valid, and the first valid result is always a    *)
(* new best.                                                               *)
(***************************************************************************)
MeasurerBestCt(improveAt) == IF improveAt > 0 THEN ct + improveAt ELSE bestCt

Init ==
  /\ ct = 0
  /\ emptyRetry = EmptyRetryCount
  /\ measuredSet = {}
  /\ measuredVec = <<>>
  /\ throughputs = <<>>
  /\ bestCt = 0        \* measurer->Reset()
  /\ hasValid = FALSE
  /\ rounds = 0
  /\ pc \in {"loop", "continue"}  \* Search, or rounds driven by a task scheduler

(* Mutant: an empty round always continues, even with no retry left. *)
EmptyRoundNeverGivingUp(picked) ==
  /\ picked[1] = <<>>
  /\ emptyRetry' = emptyRetry - 1
  /\ pc' = "loop"
  /\ UNCHANGED <<ct, measuredSet, measuredVec, throughputs, bestCt, hasValid, rounds>>

(* Mutant: a retry is consumed only when none is left. *)
EmptyRoundKeepingRetries(picked) ==
  /\ picked[1] = <<>>
  /\ emptyRetry' = IF emptyRetry > 0 THEN emptyRetry ELSE emptyRetry - 1
  /\ pc' = IF emptyRetry > 0 THEN "loop" ELSE "done"
  /\ UNCHANGED <<ct, measuredSet, measuredVec, throughputs, bestCt, hasValid, rounds>>

(* A round that picks nothing new: consume one retry, or give up. *)
EmptyRound(picked) ==
  /\ picked[1] = <<>>
  /\ emptyRetry' = emptyRetry - 1
  /\ pc' = IF emptyRetry > 0 THEN "loop" ELSE "done"
  /\ UNCHANGED <<ct, measuredSet, measuredVec, throughputs, bestCt, hasValid, rounds>>

(* A round that measures its inputs, then either stops early or records    *)
(* one throughput per input.                                               *)
MeasureRound(picked) ==
  LET inputs == picked[1] IN
  /\ inputs # <<>>
  /\ emptyRetry' = EmptyRetryCount
  /\ measuredSet' = picked[2]
  /\ measuredVec' = measuredVec \o inputs
  /\ ct' = ct + Len(inputs)
  /\ UNCHANGED rounds
  /\ \E improveAt \in 0..Len(inputs), valid \in BOOLEAN :
       /\ improveAt > 0 => valid
       /\ (valid /\ ~hasValid) => improveAt > 0
       /\ bestCt' = MeasurerBestCt(improveAt)
       /\ hasValid' = (hasValid \/ valid)
  /\ IF ct' - bestCt' > EarlyStopping /\ hasValid'
     THEN /\ pc' = "done"
          /\ UNCHANGED throughputs
     ELSE /\ pc' = "loop"
          /\ throughputs' = throughputs \o inputs

(* One iteration of while (ct < n_trials). *)
SearchRound ==
  /\ pc = "loop"
  /\ ct < NTrials
  /\ \E best \in BestStates, random \in RandomStates :
       LET picked == PickStatesWithEpsGreedy(best, random, NTrials - ct) IN
       EmptyRound(picked) \/ MeasureRound(picked)

(* The loop condition fails: the budget is spent. *)
BudgetExhausted ==
  /\ pc = "loop"
  /\ ct >= NTrials
  /\ pc' = "done"
  /\ UNCHANGED <<ct, emptyRetry, measuredSet, measuredVec, throughputs, bestCt, hasValid, rounds>>

(***************************************************************************)
(* ContinueSearchOneRound(num_measure): one SearchOneRound, the eps-greedy *)
(* pick capped at num_measure, the measurement of whatever was picked      *)
(* (possibly nothing: there is no empty-retry counter and no early stop),  *)
(* one throughput per result, and the cost-model update. The measurer     *)
(* counts every input since its last reset, which is the length of the    *)
(* measured vector.                                                        *)
(***************************************************************************)
ContinueSearchOneRound ==
  /\ pc = "continue"
  /\ \E best \in BestStates, random \in RandomStates :
       LET inputs == PickStatesWithEpsGreedy(best, random, NumMeasurePerIter)[1] IN
       /\ measuredSet' = PickStatesWithEpsGreedy(best, random, NumMeasurePerIter)[2]
       /\ measuredVec' = measuredVec \o inputs
       /\ throughputs' = throughputs \o inputs
       /\ \E improveAt \in 0..Len(inputs), valid \in BOOLEAN :
            /\ improveAt > 0 => valid
            /\ (valid /\ ~hasValid) => improveAt > 0
            /\ bestCt' = IF improveAt > 0 THEN Len(measuredVec) + improveAt ELSE bestCt
            /\ hasValid' = (hasValid \/ valid)
  /\ rounds' = rounds + 1
  /\ pc' = IF rounds + 1 < NumContinueRounds THEN "continue" ELSE "done"
  /\ UNCHANGED <<ct, emptyRetry>>

(* Search has returned. *)
Finished == pc = "done" /\ UNCHANGED vars

Next == SearchRound \/ BudgetExhausted \/ ContinueSearchOneRound \/ Finished

(* Search runs on one thread and every round returns: weak fairness. *)
Spec == Init /\ [][Next]_vars /\ WF_vars(SearchRound \/ BudgetExhausted \/ ContinueSearchOneRound)

-----------------------------------------------------------------------------

TypeOK ==
  /\ ct \in 0..NTrials + NumMeasurePerIter
  /\ emptyRetry \in -1..EmptyRetryCount
  /\ measuredSet \subseteq States
  /\ measuredVec \in Seq(States)
  /\ throughputs \in Seq(States)
  /\ bestCt \in Nat
  /\ hasValid \in BOOLEAN
  /\ rounds \in 0..NumContinueRounds
  /\ pc \in {"loop", "continue", "done"}

(* The trial budget is never overrun: PickStatesWithEpsGreedy caps every   *)
(* round at the remaining n_trials - ct, so ct never passes n_trials.      *)
TrialBudgetRespected == ct <= NTrials

(* At the head of every round, of Search or between ContinueSearchOneRound *)
(* calls, the measured-state ledger is consistent: each state was measured *)
(* once (the string set deduplicates across rounds and within the random   *)
(* picks), the set and the vector hold the same states, Search's ct counts *)
(* them, and measured_states_throughputs_[i] is     *)
(* the throughput of measured_states_vector_[i], which SearchOneRound's    *)
(* Argsort relies on.                                                      *)
MeasuredLedgerConsistent ==
  pc \in {"loop", "continue"} =>
    /\ IsInjective(measuredVec)
    /\ Range(measuredVec) = measuredSet
    /\ pc = "loop" => ct = Len(measuredVec)
    /\ throughputs = measuredVec

(* When Search leaves its loop, the two vectors are still index-parallel:  *)
(* the final dynamic-shape dispatch sizes adapted_candidate_flops by the   *)
(* throughput count and indexes it with the state-vector size, so a        *)
(* mismatch writes out of bounds.                                          *)
DispatchTablesAligned == pc = "done" => throughputs = measuredVec

(* The loop always terminates: by the budget, by early stopping, or after  *)
(* empty_retry_count rounds that find nothing new to measure.              *)
SearchTerminates == <>(pc = "done")

=============================================================================
