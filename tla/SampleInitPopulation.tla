------------------------ MODULE SampleInitPopulation ------------------------
(***************************************************************************)
(* SketchPolicyNode::SampleInitPopulation(sketches) in                     *)
(* src/tvm/src/auto_scheduler/search_policy/sketch_policy.cc.             *)
(*                                                                         *)
(* Waves of `population` random candidates run until out_states holds      *)
(* sample_init_min_pop_ states. A candidate survives if every init rule    *)
(* applied to it, it survives PruneInvalidState and its predicted score    *)
(* is above -1e10; it is accepted if its string was not explored before in *)
(* this call. After five waves in a row that accept nothing, the target    *)
(* is halved while it is above 1. The target is a member of the policy,   *)
(* so a halving persists into every later call (SearchOneRound calls this  *)
(* once per search round).                                                 *)
(*                                                                         *)
(* A candidate slot is a state or NoState (an init rule returned           *)
(* kInvalid, leaving temp_states[index] undefined). Whether a state        *)
(* survives pruning and the score floor is a fixed property of the state   *)
(* (the cost model does not change during the call): the set `valid`,      *)
(* chosen in Init, with `pruned` the states PruneInvalidState removes.     *)
(* PruneInvalidState LOG(FATAL)s when it removes every candidate of a      *)
(* wave. fail_ct, iter and the timing are logging only.                    *)
(***************************************************************************)
EXTENDS Integers, Sequences, SequencesExt, FiniteSets

CONSTANTS
  States,        \* schedules the init rules can produce
  NoState,       \* an undefined State: some init rule returned kInvalid
  Population,    \* params["evolutionary_search_population"]
  MinPopulation, \* params["evolutionary_search_min_population"]
  MinValid,      \* least number of valid schedules the workload has
  NumCalls       \* calls of SampleInitPopulation explored

ASSUME NoState \notin States
ASSUME Population \in Nat \ {0}
ASSUME MinPopulation \in Nat
ASSUME MinValid \in Nat /\ NumCalls \in Nat \ {0}

VARIABLES
  valid,        \* states that pass PruneInvalidState and pop_scores[i] > -1e10
  pruned,       \* states PruneInvalidState removes
  target,       \* sample_init_min_pop_ (a member: survives between calls)
  out,          \* out_states
  explored,     \* explored_state_strs
  unchangeCnt,  \* unchange_cnt
  waved,        \* iter > 1: at least one wave ran in this call
  calls,        \* calls that have returned before the current one
  pc            \* "sample" inside the while loop, "done" after return,
                \* "fatal" after PruneInvalidState aborted

vars == <<valid, pruned, target, out, explored, unchangeCnt, waved, calls, pc>>

(* Mutant: the limit is one wave late. *)
UnchangeLimitLate == 6

(* if (unchange_cnt == 5) *)
UnchangeLimit == 5

Init ==
  /\ valid \in {V \in SUBSET States : Cardinality(V) >= MinValid}
  /\ pruned \in SUBSET (States \ valid)
  /\ target = MinPopulation     \* node->sample_init_min_pop_ = min_population
  /\ out = <<>>
  /\ explored = {}
  /\ unchangeCnt = 0
  /\ waved = FALSE
  /\ calls = 0
  /\ pc = "sample"

(* Mutant: a candidate is accepted without consulting explored_state_strs. *)
AcceptIgnoringExplored(acc, s) == <<Append(acc[1], s), acc[2] \cup {s}>>

(* One candidate of the scoring loop: accepted (appended, its string       *)
(* inserted) when it was not explored; acc is <<out_states, explored>>.   *)
Accept(acc, s) ==
  IF s \in acc[2] THEN acc ELSE <<Append(acc[1], s), acc[2] \cup {s}>>

(* Mutant: unchange_cnt is reset after every wave, accepting or not. *)
CountIgnoringWave(accepted) == 0

(* unchange_cnt++, reset to 0 once a state was accepted. *)
NextUnchangeCnt(accepted) == IF accepted THEN 0 ELSE unchangeCnt + 1

(* Mutant: the target is halved while it is positive. *)
HalvedToZero(t) == IF t > 0 THEN t \div 2 ELSE t

(* if (sample_init_min_pop_ > 1) sample_init_min_pop_ /= 2; *)
Halved(t) == IF t > 1 THEN t \div 2 ELSE t

(***************************************************************************)
(* One iteration of while (out_states.size() < sample_init_min_pop_): the  *)
(* peeled slot 0 and the parallel slots 1..population-1 fill temp_states;  *)
(* the undefined, pruned and low-scoring candidates are dropped (if some   *)
(* candidate is defined and all are pruned, PruneInvalidState aborts); the *)
(* rest are offered in order to the dedup set; then the five-failure rule. *)
(***************************************************************************)
Wave(temp) ==
  LET defined == SelectSeq(temp, LAMBDA s : s # NoState)
      cands   == SelectSeq(defined, LAMBDA s : s \in valid)
      r       == FoldLeft(Accept, <<out, explored>>, cands)
      cnt     == NextUnchangeCnt(Len(r[1]) > Len(out))
  IN  /\ pc = "sample"
      /\ Len(out) < target
      /\ waved' = TRUE
      /\ IF defined # <<>> /\ Range(defined) \subseteq pruned
         THEN /\ pc' = "fatal"
              /\ UNCHANGED <<target, out, explored, unchangeCnt>>
         ELSE /\ out' = r[1]
              /\ explored' = r[2]
              /\ IF cnt = UnchangeLimit
                 THEN /\ target' = Halved(target)
                      /\ unchangeCnt' = 0
                 ELSE /\ unchangeCnt' = cnt
                      /\ UNCHANGED target
              /\ UNCHANGED pc
      /\ UNCHANGED <<valid, pruned, calls>>

Slots == [1..Population -> States \cup {NoState}]

SampleWave == \E temp \in Slots : Wave(temp)

(* A wave that accepts at least one new state. *)
AcceptingWave == \E temp \in Slots : Wave(temp) /\ Len(out') > Len(out)

(* The loop condition fails: return out_states. *)
Return ==
  /\ pc = "sample"
  /\ Len(out) >= target
  /\ pc' = "done"
  /\ UNCHANGED <<valid, pruned, target, out, explored, unchangeCnt, waved, calls>>

(* SearchOneRound calls SampleInitPopulation again; every local starts     *)
(* afresh, sample_init_min_pop_ keeps its value.                           *)
NextCall ==
  /\ pc = "done"
  /\ calls < NumCalls - 1
  /\ calls' = calls + 1
  /\ out' = <<>>
  /\ explored' = {}
  /\ unchangeCnt' = 0
  /\ waved' = FALSE
  /\ pc' = "sample"
  /\ UNCHANGED <<valid, pruned, target>>

(* The last call has returned, or the search aborted. *)
Finished == (pc = "fatal" \/ (pc = "done" /\ calls = NumCalls - 1)) /\ UNCHANGED vars

Next == SampleWave \/ Return \/ NextCall \/ Finished

(***************************************************************************)
(* The loop runs on one thread; every wave returns. The candidates of a    *)
(* wave are drawn from independent random generators, so every sketch and *)
(* annotation has a positive chance in every wave: a wave that accepts a   *)
(* new state, whenever one exists, is taken eventually (strong fairness).  *)
(***************************************************************************)
Spec == Init /\ [][Next]_vars /\ WF_vars(SampleWave \/ Return) /\ SF_vars(AcceptingWave)

-----------------------------------------------------------------------------

TypeOK ==
  /\ valid \subseteq States /\ pruned \subseteq States \ valid
  /\ target \in 0..MinPopulation
  /\ out \in Seq(States)
  /\ explored \subseteq States
  /\ unchangeCnt \in 0..4           \* below the five of unchange_cnt == 5
  /\ waved \in BOOLEAN
  /\ calls \in 0..NumCalls - 1
  /\ pc \in {"sample", "done", "fatal"}

(* Every returned population is distinct and valid: out_states holds each  *)
(* explored string once, across slots of one wave and across waves, and   *)
(* only states that survived pruning and the score floor.                 *)
OutIsDistinctAndValid ==
  /\ IsInjective(out)
  /\ Range(out) \subseteq valid
  /\ explored = Range(out)

(* A call never returns an empty population when min_population >= 1,     *)
(* however often the target was halved, in this call or earlier ones:     *)
(* EvolutionarySearch draws its first parents from it.                    *)
PopulationNeverEmpty == (pc = "done" /\ MinPopulation >= 1) => Len(out) >= 1

(* A call with min_population = 0 runs exactly one wave and returns       *)
(* without shrinking the target (spec, Scenario D): the while loop of       *)
(* SampleInitPopulation must run its body once before testing the target.  *)
ZeroTargetRunsOneWave == (pc = "done" /\ MinPopulation = 0) => waved

(* Every call returns (or aborts in PruneInvalidState): the halving of the *)
(* target guarantees termination.                                          *)
SampleTerminates == (pc = "sample") ~> (pc \in {"done", "fatal"})

=============================================================================
