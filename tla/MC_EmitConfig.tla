--------------------------- MODULE MC_EmitConfig ---------------------------
(* A reduction stage with one reduce and two space dimensions, fp32 and an *)
(* 8-byte transaction (TransactionNum = 2), the first space dimension      *)
(* indexed last by an access (NeedAlign).                                  *)
(*   Wide:   extents 4 x 5, reduce extents 3 and 4 in two instances;       *)
(*           register tiles {1,2} x {1,5}; shared-memory tiles {2,3} x {2} *)
(*           x {1,2,3,4} from a base of last space tile 1, none from a     *)
(*           base of 5, which is skipped.                                  *)
(*   Narrow: the aligned extent is 2, one transaction: no shared-memory    *)
(*           tile exists for any base, nor for the all-ones tile.          *)
(* Both tasks compute C[i, j] += A[k, i] * B[j, k] (tuple positions: 1 = k, *)
(* 2 = i, 3 = j): the last index of A is the space variable i, which makes *)
(* NeedAlign {1}, that of B the reduce variable k. The narrow task reads A *)
(* twice, which MemFootPrint counts once. The hardware has 4 or 64 registers per block, none, one or ten   *)
(* per thread, and 40 or 72 bytes of shared memory: every level rejects   *)
(* inside a tile list for some choice.                                     *)
EXTENDS EmitConfig

MatMul == << [producer |-> "A", dims |-> {1, 2}], [producer |-> "B", dims |-> {1, 3}] >>

MCTasks ==
  { [maxExtent |-> <<4, 5>>, regAlign |-> <<<<1, 2>>, <<1, 5>>>>, reduceExtents |-> << <<3, 4>> >>,
     accesses |-> MatMul],
    [maxExtent |-> <<2, 3>>, regAlign |-> <<<<1, 2>>, <<1, 3>>>>, reduceExtents |-> << <<4>> >>,
     accesses |-> MatMul \o << [producer |-> "A", dims |-> {2}] >>] }

MCHardware ==
  {[regCap |-> <<r0, r1>>, smemCap |-> sm] : r0 \in {4, 64}, r1 \in {0, 1, 10}, sm \in {40, 72}}

=============================================================================
