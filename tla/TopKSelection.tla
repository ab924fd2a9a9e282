--------------------------- MODULE TopKSelection ---------------------------
(***************************************************************************)
(* What the heap of SketchPolicyNode::EvolutionarySearch promises, stated  *)
(* without a heap: items arrive one at a time; items of the excluded set   *)
(* (measured_states_set_) are ignored; after every arrival the kept set    *)
(* is a best-scoring selection of min(K, #arrived) arrived items, and it   *)
(* changes only by taking in the new item (and dropping others). On        *)
(* return the result lists exactly the kept items by descending score.     *)
(***************************************************************************)
EXTENDS Integers, Sequences, FiniteSets

CONSTANTS
  Items,  \* candidate schedules
  K       \* out_size

VARIABLES
  score,     \* the score of every item, fixed
  excluded,  \* items never selected, fixed
  offered,   \* the items that have arrived
  best,      \* the kept selection
  result,    \* the returned ranking
  done

avars == <<score, excluded, offered, best, result, done>>

(* The best-scoring subsets of S of size min(K, |S|). *)
TopSets(S) ==
  {T \in SUBSET S :
     /\ Cardinality(T) = IF K < Cardinality(S) THEN K ELSE Cardinality(S)
     /\ \A t \in T, u \in S \ T : score[t] >= score[u]}

Init ==
  /\ score \in [Items -> Nat]
  /\ excluded \subseteq Items
  /\ offered = {}
  /\ best = {}
  /\ result = <<>>
  /\ done = FALSE

(* Item s arrives. *)
Offer(s) ==
  /\ ~done
  /\ s \in Items \ excluded
  /\ offered' = offered \cup {s}
  /\ best' \in TopSets(offered')
  /\ best' \subseteq best \cup {s}
  /\ UNCHANGED <<score, excluded, result, done>>

(* The kept items, each once, best first. *)
Return ==
  /\ ~done
  /\ done' = TRUE
  /\ Len(result') = Cardinality(best)
  /\ {result'[j] : j \in DOMAIN result'} = best
  /\ \A j \in 1..Len(result') - 1 : score[result'[j]] >= score[result'[j + 1]]
  /\ UNCHANGED <<score, excluded, offered, best>>

Next == (\E s \in Items : Offer(s)) \/ Return

Spec == Init /\ [][Next]_avars

=============================================================================
