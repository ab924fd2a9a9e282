------------------------- MODULE GenerateAndSample -------------------------
(***************************************************************************)
(* Steps 1 and 2 of SketchPolicyNode::SearchOneRound in                    *)
(* src/tvm/src/auto_scheduler/search_policy/sketch_policy.cc: the sketches *)
(* are generated once, into sketch_cache_, and every round then samples    *)
(* its initial population from the cache.                                  *)
(*                                                                         *)
(* SampleInitPopulation draws every candidate as                           *)
(* sketches[rand() % sketches.size()], which divides by zero when          *)
(* GenerateSketches returned no sketch; the sampler's candidates are      *)
(* abstracted to the schedules States, so this module states that the     *)
(* sampling starts only from a non-empty cache.                            *)
(***************************************************************************)
EXTENDS Integers, Sequences

CONSTANTS NumStages, HwLevels,
          States, NoState, Population, MinPopulation, MinValid, NumCalls

VARIABLES device, dynTask, numLevel, stageKind, sketchRules, pnow, pnext,
          curStageIdMap, j,
          sketches,   \* sketch_cache_
          genPc,      \* GenerateSketches' progress
          valid, pruned, target, out, explored, unchangeCnt, waved, calls, pc

gvars == <<device, dynTask, numLevel, stageKind, sketchRules, pnow, pnext,
           curStageIdMap, j, sketches, genPc>>
svars == <<valid, pruned, target, out, explored, unchangeCnt, waved, calls, pc>>
vars  == <<gvars, svars>>

Gen    == INSTANCE SketchGeneration WITH outStates <- sketches, pc <- genPc
Sample == INSTANCE SampleInitPopulation

Init == Gen!Init /\ Sample!Init

(* if (sketch_cache_.empty()) sketch_cache_ = GenerateSketches(); *)
GenerateStep == genPc \in {"generate", "postpass"} /\ Gen!Next /\ UNCHANGED svars

(* SampleInitPopulation(sketch_cache_), once the cache is filled. *)
SampleStep ==
  /\ genPc = "done"
  /\ Sample!SampleWave \/ Sample!Return
  /\ UNCHANGED gvars

AcceptingStep == genPc = "done" /\ Sample!AcceptingWave /\ UNCHANGED gvars

(* The next SearchOneRound finds the cache filled and samples again. *)
NextRound == genPc = "done" /\ (Sample!NextCall \/ Sample!Finished) /\ UNCHANGED gvars

Next == GenerateStep \/ SampleStep \/ NextRound

(* GenerateSketches and SampleInitPopulation run on the search thread,     *)
(* each step of which returns: weak fairness; a wave that accepts a new    *)
(* state is strongly fair, as in SampleInitPopulation.                     *)
Spec == Init /\ [][Next]_vars /\ WF_vars(GenerateStep) /\ WF_vars(SampleStep)
          /\ SF_vars(AcceptingStep)

-----------------------------------------------------------------------------

TypeOK == Gen!TypeOK /\ Sample!TypeOK

SketchesAreDerivations     == Gen!SketchesAreDerivations
SketchGenerationTerminates == Gen!SketchGenerationTerminates
OutIsDistinctAndValid      == Sample!OutIsDistinctAndValid
PopulationNeverEmpty       == Sample!PopulationNeverEmpty
SampleTerminates           == Sample!SampleTerminates

(* The sampler never draws from an empty sketch cache: for every target,  *)
(* task kind and chain of stages, the rule list lets every state of the   *)
(* waves reach a cursor below 0 (rule_skip_stage applies to any stage), so *)
(* GenerateSketches returns at least one sketch and                        *)
(* rand() % sketches.size() is defined.                                    *)
SketchesNonEmpty == genPc = "done" => sketches # <<>>

=============================================================================
