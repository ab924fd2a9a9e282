----------------------------- MODULE EmitConfig -----------------------------
(***************************************************************************)
(* SketchPolicyNode::EmitConfig, GetAlignedTile, GetNextConfig and        *)
(* HasNextConfig in                                                        *)
(* src/tvm/src/auto_scheduler/search_policy/sketch_policy.cc.             *)
(*                                                                         *)
(* From mem_level = num_level down to 1, EmitConfig enumerates tile        *)
(* assignments with an odometer over per-dimension tile lists              *)
(* (GetAlignedTile). At the register level it starts from the all-ones    *)
(* tile; at the shared-memory level from each config the register level   *)
(* accepted, or, if it accepted none, from the all-ones tile again with an *)
(* empty base config. Each candidate goes through ConfigFilter; a rejected *)
(* candidate also skips the rest of the innermost space dimension.         *)
(*                                                                         *)
(* An assignment is a tuple of tiles, reduce dimensions first (the         *)
(* odometer's most significant digits), then space dimensions. A task     *)
(* carries the accesses its expression extractors report (the producer    *)
(* tensor and the tuple positions of its index variables); the hardware    *)
(* carries reg_cap[0], reg_cap[1] and smem_cap[0]. ConfigFilter computes   *)
(* the footprint of each candidate from them (MemFootPrint).               *)
(***************************************************************************)
EXTENDS Integers, Sequences, SequencesExt, FiniteSetsExt

CONSTANTS
  SpaceDims,       \* space_dims of the reduction stage
  ReduceDims,      \* reduce_dims of the reduction stage
  TransactionNum,  \* transaction_size[0] / tensor_type_size
  NeedAlign,       \* need_align_space_idx: space dims indexed last by an access
  Tasks,           \* search tasks: per space dim the largest extent over the
                   \* workload instances and 1 followed by GetPrimNumber of the
                   \* extents; per reduce dim the extents of the instances; the
                   \* accesses of the expression extractors
  Hardware,        \* hardware_api: regCap[1] = reg_cap[0], regCap[2] = reg_cap[1],
                   \* smemCap = smem_cap[0]
  TensorTypeSize   \* op->InputTensors()[0]->dtype.bytes()

ASSUME SpaceDims \in Nat \ {0} /\ ReduceDims \in Nat \ {0} /\ TransactionNum \in Nat \ {0}
ASSUME NeedAlign \subseteq 1..SpaceDims
ASSUME \A tk \in Tasks :
         /\ tk.maxExtent \in [1..SpaceDims -> Nat \ {0}]
         /\ tk.regAlign \in [1..SpaceDims -> Seq(Nat \ {0})]
         /\ tk.reduceExtents \in [1..ReduceDims -> Seq(Nat \ {0})]
         /\ \A a \in Range(tk.accesses) : a.dims \subseteq 1..ReduceDims + SpaceDims
ASSUME \A h \in Hardware : h.regCap \in [1..2 -> Nat] /\ h.smemCap \in Nat

Dims == ReduceDims + SpaceDims

(* hardware_api->num_level: registers (2) and shared memory (1). *)
NumLevel == 2

(* The empty HwAlignedConfig no_base_config. A config keeps the register  *)
(* and shared-memory tiles and single_thread_reg_usage.                   *)
NoBase == [reg |-> <<>>, smem |-> <<>>, regUse |-> 0]

AllOnes == [k \in 1..Dims |-> 1]

Lcm(a, b) == Min({m \in 1..a * b : m % a = 0 /\ m % b = 0})

(* GetAlignedTile, register level: base times 1 and the primes, up to the  *)
(* first one past the largest extent; every reduce list is {1}.           *)
RegTiles(tk, sb, k) ==
  LET al == tk.regAlign[k]
      n  == Max({m \in 0..Len(al) : \A j \in 1..m : sb * al[j] <= tk.maxExtent[k]})
  IN  [j \in 1..n |-> sb * al[j]]

(* GetAlignedTile, shared-memory level, space dim k: up to 32 multiples of *)
(* the base (aligned to the transaction for NeedAlign dims) below the      *)
(* largest extent.                                                         *)
SmemSpaceTiles(tk, sb, k) ==
  LET d == IF k \in NeedAlign THEN Lcm(sb, TransactionNum) ELSE sb
      n == Min({32, (tk.maxExtent[k] - 1) \div d})
  IN  [j \in 1..n |-> d * j]

(* GetAlignedTile, shared-memory level, reduce dim k: per instance, lower  *)
(* rlen_cap to its extent, push transaction multiples up to it, then       *)
(* rlen_cap itself if missing.                                             *)
SmemReduceTiles(tk, rb, k) ==
  LET Step(acc, e) ==
        LET cap  == Min({acc.cap, e})
            n    == IF acc.dim <= cap THEN (cap - acc.dim) \div TransactionNum + 1 ELSE 0
            l1   == acc.list \o [j \in 1..n |-> acc.dim + (j - 1) * TransactionNum]
        IN  [list |-> IF cap \in Range(l1) THEN l1 ELSE Append(l1, cap),
             cap  |-> cap,
             dim  |-> acc.dim + n * TransactionNum]
  IN  FoldLeft(Step, [list |-> <<>>, cap |-> 32, dim |-> Lcm(rb, TransactionNum)],
               tk.reduceExtents[k]).list

(* GetAlignedTile(sbase, rbase, mem_level) for a base tuple b (reduce tiles *)
(* then space tiles): the tile lists, reduce dimensions first.             *)
GetAlignedTile(tk, b, lv) ==
  [k \in 1..Dims |->
     IF k <= ReduceDims
     THEN IF lv = NumLevel THEN <<1>> ELSE SmemReduceTiles(tk, b[k], k)
     ELSE IF lv = NumLevel THEN RegTiles(tk, b[k], k - ReduceDims)
          ELSE SmemSpaceTiles(tk, b[k], k - ReduceDims)]

(* Every tuple of the cartesian product of the lists ls, in odometer order. *)
RECURSIVE Odometer(_)
Odometer(ls) ==
  IF ls = <<>> THEN << <<>> >>
  ELSE LET rest == Odometer(Tail(ls))
       IN  FlattenSeq([k \in DOMAIN Head(ls) |-> [j \in DOMAIN rest |-> <<Head(ls)[k]>> \o rest[j]]])

(* The candidate tile tuples of the lists ls. *)
Candidates(ls) ==
  {t \in [1..Dims -> UNION {Range(ls[k]) : k \in 1..Dims}] : \A k \in 1..Dims : t[k] \in Range(ls[k])}

VARIABLES
  level,    \* mem_level
  task,     \* this->search_task
  hw,       \* this->search_task->hardware_api
  pnow,     \* pnow: configs of the previous level
  pnext,    \* pnext: configs accepted at this level
  i,        \* index into pnow of the current base config
  base,     \* the base_config of the current enumeration
  tiles,    \* align_tiles of the current enumeration, reduce lists first
  ptr,      \* reduce_ptr \o space_ptr, as indices (Len + 1 is end())
  emitted,  \* history: the assignments this enumeration accepted
  pc

vars == <<level, task, hw, pnow, pnext, i, base, tiles, ptr, emitted, pc>>

Init ==
  /\ level = NumLevel
  /\ task \in Tasks
  /\ hw \in Hardware
  /\ pnow = <<>> /\ pnext = <<>>
  /\ i = 1
  /\ base = NoBase
  /\ tiles = [k \in 1..Dims |-> <<1>>]
  /\ ptr = [k \in 1..Dims |-> 1]
  /\ emitted = <<>>
  /\ pc = "level"

(* Start an odometer run over the tile lists ls from base config b. *)
StartEnumeration(b, ls) ==
  /\ base' = b
  /\ tiles' = ls
  /\ ptr' = [k \in 1..Dims |-> 1]
  /\ emitted' = <<>>
  /\ pc' = "enum"

HasZeroTiles(ls) == \E k \in 1..Dims : ls[k] = <<>>

(* while (mem_level > 0) with pnow empty: GetAlignedTile from the        *)
(* all-ones base tile.                                                     *)
AlignAllOnes ==
  /\ pc = "level" /\ level > 0 /\ pnow = <<>>
  /\ tiles' = GetAlignedTile(task, AllOnes, level)
  /\ pc' = "tiles"
  /\ UNCHANGED <<level, task, hw, pnow, pnext, i, base, ptr, emitted>>

(* if (has_zero_tiles) continue; -- back to the loop test without          *)
(* mem_level--, where the same tiles are computed again.                   *)
ZeroTilesAtAllOnes ==
  /\ pc = "tiles" /\ HasZeroTiles(tiles)
  /\ pc' = "level"
  /\ UNCHANGED <<level, task, hw, pnow, pnext, i, base, tiles, ptr, emitted>>

(* Otherwise the odometer runs from no_base_config. *)
StartFromAllOnes ==
  /\ pc = "tiles" /\ ~HasZeroTiles(tiles)
  /\ StartEnumeration(NoBase, tiles)
  /\ UNCHANGED <<level, task, hw, pnow, pnext, i>>

(* The same loop with pnow non-empty: one enumeration per base config. *)
StartFromBases ==
  /\ pc = "level" /\ level > 0 /\ pnow # <<>>
  /\ i' = 1
  /\ pc' = "base"
  /\ UNCHANGED <<level, task, hw, pnow, pnext, base, tiles, ptr, emitted>>

(* for (i < pnow->size()): GetAlignedTile from the i-th base's register  *)
(* tiles.                                                                  *)
AlignBase ==
  /\ pc = "base" /\ i <= Len(pnow)
  /\ tiles' = GetAlignedTile(task, pnow[i].reg, level)
  /\ pc' = "baseTiles"
  /\ UNCHANGED <<level, task, hw, pnow, pnext, i, base, ptr, emitted>>

(* Mutant: the continue skips the ++i of the for loop. *)
SkipBaseWithoutAdvance ==
  /\ pc = "baseTiles" /\ HasZeroTiles(tiles)
  /\ pc' = "base"
  /\ UNCHANGED <<level, task, hw, pnow, pnext, i, base, tiles, ptr, emitted>>

(* if (has_zero_tiles) continue; -- the base is skipped. *)
SkipBase ==
  /\ pc = "baseTiles" /\ HasZeroTiles(tiles)
  /\ i' = i + 1
  /\ pc' = "base"
  /\ UNCHANGED <<level, task, hw, pnow, pnext, base, tiles, ptr, emitted>>

(* Otherwise the odometer runs from the base config. *)
StartFromBase ==
  /\ pc = "baseTiles" /\ ~HasZeroTiles(tiles)
  /\ StartEnumeration(pnow[i], tiles)
  /\ UNCHANGED <<level, task, hw, pnow, pnext, i>>

(* HasNextConfig: reduce_ptr[0] != reduce_tiles[0].end(). *)
HasNextConfig == ptr[1] # Len(tiles[1]) + 1

(* The carry of GetNextConfig: a digit at end() goes back to begin() and   *)
(* advances the next more significant one; reduce_ptr[0] stays at end().  *)
RECURSIVE Carry(_, _)
Carry(p, k) ==
  IF k > 1 /\ p[k] = Len(tiles[k]) + 1
  THEN Carry([p EXCEPT ![k] = 1, ![k - 1] = @ + 1], k - 1)
  ELSE p

(* The product of the tiles of t at the tuple positions D. *)
TileProduct(t, D) == FoldFunctionOnSet(LAMBDA x, y : x * y, 1, t, D)

SpacePositions == ReduceDims + 1..Dims

(* Mutant: the register level keeps the per-producer sum instead of        *)
(* overwriting it with the space-tile product.                             *)
MemFootPrintSummed(t, lv) ==
  LET Step(acc, a) ==
        IF a.producer \in acc.visited THEN acc
        ELSE [use |-> acc.use + TileProduct(t, a.dims), visited |-> acc.visited \cup {a.producer}]
      use == FoldLeft(Step, [use |-> 0, visited |-> {}], task.accesses).use
  IN  IF lv = 1 THEN use * TensorTypeSize ELSE use

(* MemFootPrint: for every access of a producer not visited before, the    *)
(* product of the tiles its index variables take; at the register level    *)
(* the sum is overwritten by the product of the space tiles, at the        *)
(* shared-memory level it is scaled by the element size.                  *)
MemFootPrint(t, lv) ==
  LET Step(acc, a) ==
        IF a.producer \in acc.visited THEN acc
        ELSE [use |-> acc.use + TileProduct(t, a.dims), visited |-> acc.visited \cup {a.producer}]
      use == FoldLeft(Step, [use |-> 0, visited |-> {}], task.accesses).use
  IN  CASE lv = 2 /\ task.accesses # <<>> -> TileProduct(t, SpacePositions)
        [] lv = 1                         -> use * TensorTypeSize
        [] OTHER                          -> use

(* GetParallelism (not under src/): the threads of a block, the number of  *)
(* register tiles in a shared-memory tile over the space dimensions.      *)
GetParallelism(t, b) == TileProduct([k \in SpacePositions |-> t[k] \div b.reg[k]], SpacePositions)

(* ConfigFilter's shared-memory test, before it reads the base config. *)
SmemFits(t) == MemFootPrint(t, level) <= hw.smemCap

(* ConfigFilter: the register level accepts a footprint within reg_cap[1]; *)
(* the shared-memory level one within smem_cap[0] whose threads, times the *)
(* base's register use, fit reg_cap[0], and fewer than 1024 threads.      *)
ConfigFilter(t) ==
  IF level = NumLevel THEN MemFootPrint(t, level) <= hw.regCap[2]
  ELSE /\ SmemFits(t)
       /\ GetParallelism(t, base) * base.regUse <= hw.regCap[1]
       /\ GetParallelism(t, base) < 1024

(* Mutant: new_config.space_tiles/reduce_tiles[mem_level] are not copied *)
(* from the base config and stay empty vectors.                            *)
NewConfigWithoutBase(t) ==
  IF level = NumLevel THEN [reg |-> t, smem |-> <<>>, regUse |-> MemFootPrint(t, level)]
  ELSE [reg |-> <<>>, smem |-> t, regUse |-> base.regUse]

(* The config ConfigFilter pushes: the register level keeps its tiles and *)
(* its footprint as single_thread_reg_usage; the shared-memory level       *)
(* carries the base's register tiles and usage forward.                    *)
NewConfig(t) ==
  IF level = NumLevel THEN [reg |-> t, smem |-> <<>>, regUse |-> MemFootPrint(t, level)]
  ELSE [reg |-> base.reg, smem |-> t, regUse |-> base.regUse]

(* Mutant: the innermost dimension is skipped after an accepted candidate. *)
SkipAfterAccept(p, ok) == IF ok THEN [p EXCEPT ![Dims] = Len(tiles[Dims]) + 1] ELSE p

(* pnext->size() unchanged: space_ptr.back() = space_tiles.back().end() *)
SkipAfterReject(p, ok) == IF ok THEN p ELSE [p EXCEPT ![Dims] = Len(tiles[Dims]) + 1]

(* GetNextConfig: read the assignment, advance the innermost digit, run    *)
(* ConfigFilter, skip on rejection, carry. At the shared-memory level with *)
(* no base config, ConfigFilter reads base_config.space_tiles[1] of an     *)
(* empty vector once the shared-memory check passes.                       *)
GetNextConfig ==
  /\ pc = "enum" /\ HasNextConfig
  /\ LET t  == [k \in 1..Dims |-> tiles[k][ptr[k]]]
     IN  IF level < NumLevel /\ base = NoBase /\ SmemFits(t)
         THEN /\ pc' = "crash"
              /\ UNCHANGED <<ptr, pnext, emitted>>
         ELSE LET ok == ConfigFilter(t) IN
              /\ ptr' = Carry(SkipAfterReject([ptr EXCEPT ![Dims] = @ + 1], ok), Dims)
              /\ pnext' = IF ok THEN Append(pnext, NewConfig(t)) ELSE pnext
              /\ emitted' = IF ok THEN Append(emitted, t) ELSE emitted
              /\ UNCHANGED pc
  /\ UNCHANGED <<level, task, hw, pnow, i, base, tiles>>

(* Mutant: mem_level-- inside the loop over the bases. *)
EndEnumerationPerBase ==
  /\ pc = "enum" /\ ~HasNextConfig
  /\ level' = level - 1
  /\ IF base = NoBase
     THEN /\ pnow' = pnext
          /\ pnext' = <<>>
          /\ pc' = "level"
          /\ UNCHANGED i
     ELSE /\ i' = i + 1
          /\ pc' = "base"
          /\ UNCHANGED <<pnow, pnext>>
  /\ UNCHANGED <<task, hw, base, tiles, ptr, emitted>>

(* The odometer ran out: after the all-ones enumeration swap the buffers,  *)
(* clear *pnext and leave the level; after a base's, take the next base.  *)
EndEnumeration ==
  /\ pc = "enum" /\ ~HasNextConfig
  /\ IF base = NoBase
     THEN /\ pnow' = pnext
          /\ pnext' = <<>>
          /\ level' = level - 1
          /\ pc' = "level"
          /\ UNCHANGED i
     ELSE /\ i' = i + 1
          /\ pc' = "base"
          /\ UNCHANGED <<pnow, pnext, level>>
  /\ UNCHANGED <<task, hw, base, tiles, ptr, emitted>>

(* All bases done: swap(pnext, pnow), pnext->clear(), mem_level--. *)
EndBases ==
  /\ pc = "base" /\ i > Len(pnow)
  /\ pnow' = pnext
  /\ pnext' = <<>>
  /\ level' = level - 1
  /\ pc' = "level"
  /\ UNCHANGED <<task, hw, i, base, tiles, ptr, emitted>>

(* mem_level reached 0: return *pnow. *)
Return ==
  /\ pc = "level" /\ level = 0
  /\ pc' = "done"
  /\ UNCHANGED <<level, task, hw, pnow, pnext, i, base, tiles, ptr, emitted>>

(* Tiles lo..hi of a level's tuple; a level the config never set is an   *)
(* empty vector.                                                           *)
Part(t, lo, hi) == [j \in 1..(IF t = <<>> THEN 0 ELSE hi - lo + 1) |-> t[lo + j - 1]]

(* The order HwAlignedConfig::operator< walks: space_tiles[0] (shared      *)
(* memory), space_tiles[1] (registers), then reduce_tiles[0], [1].        *)
ConfigKey(c) ==
  Part(c.smem, ReduceDims + 1, Dims) \o Part(c.reg, ReduceDims + 1, Dims)
    \o Part(c.smem, 1, ReduceDims) \o Part(c.reg, 1, ReduceDims)

(* The first differing tile decides; equal keys are not less. *)
RECURSIVE LexLess(_, _)
LexLess(a, b) ==
  /\ a # <<>> /\ b # <<>>
  /\ \/ Head(a) < Head(b)
     \/ Head(a) = Head(b) /\ LexLess(Tail(a), Tail(b))

(* HwAlignedConfig::operator<. *)
ConfigLess(a, b) == LexLess(ConfigKey(a), ConfigKey(b))

Finished == pc \in {"done", "crash"} /\ UNCHANGED vars

Next ==
  \/ AlignAllOnes \/ ZeroTilesAtAllOnes \/ StartFromAllOnes \/ StartFromBases \/ AlignBase \/ SkipBase \/ StartFromBase
  \/ GetNextConfig \/ EndEnumeration \/ EndBases \/ Return \/ Finished

(* EmitConfig runs on one thread and every call in it returns. *)
Spec == Init /\ [][Next]_vars /\ WF_vars(Next)

-----------------------------------------------------------------------------

TypeOK ==
  /\ level \in 0..NumLevel
  /\ \A k \in 1..Dims : ptr[k] \in 1..Len(tiles[k]) + 1
  /\ i \in Nat
  /\ pc \in {"level", "tiles", "base", "baseTiles", "enum", "done", "crash"}

(* The odometer with its pruning skip visits the whole cartesian product   *)
(* of the tile lists: when HasNextConfig turns false, the assignments this *)
(* enumeration pushed are exactly the accepted ones, each once, in         *)
(* odometer order (spec: EmitConfig forms the cartesian product and        *)
(* applies ConfigFilter at each candidate).                                *)
OdometerEmitsAcceptedProduct ==
  (pc = "enum" /\ ~HasNextConfig) =>
    emitted = SelectSeq(Odometer(tiles), LAMBDA t : ConfigFilter(t))

(* The register level accepted nothing and the shared-memory level fell    *)
(* back to the all-ones tile with an empty base config.                    *)
FellBack == level \in 1..NumLevel - 1 /\ pnow = <<>> /\ pc \in {"level", "tiles", "enum", "crash"}

(* The fallback, with its hang at the continue and its read of the empty   *)
(* base, is reached only on hardware with no register capacity: at the     *)
(* register level MemFootPrint is the product of the space tiles, so the   *)
(* all-ones tile needs one register and ConfigFilter accepts it whenever   *)
(* reg_cap[1] >= 1.                                                        *)
FallbackNeedsZeroRegisterCap == FellBack => hw.regCap[2] < 1

(* EmitConfig returns, unless it fell back (where the all-ones tile lists  *)
(* can be empty, or ConfigFilter reads the empty base): every odometer     *)
(* run ends and every level is left.                                       *)
EmitConfigTerminates == <>(pc = "done" \/ FellBack)

(* The configs EmitConfig returns are pairwise distinct under             *)
(* HwAlignedConfig::operator<, which looks at the tiles only: every config  *)
(* gets its own entry of filter_cand_states (a std::map keyed by it) in     *)
(* EfficientSearch. It needs distinct bases and a distinct shared-memory    *)
(* assignment per base, across the two levels of the enumeration.          *)
ConfigKeysDistinct ==
  pc = "done" =>
    \A a, b \in DOMAIN pnow : a # b => ConfigLess(pnow[a], pnow[b]) \/ ConfigLess(pnow[b], pnow[a])

=============================================================================
