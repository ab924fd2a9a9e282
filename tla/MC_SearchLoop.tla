--------------------------- MODULE MC_SearchLoop ---------------------------
(* Model-checking instance of SearchLoop: four schedules, so that a budget *)
(* of six trials in rounds of two outlasts the search space and the empty- *)
(* retry path is taken.                                                    *)
EXTENDS SearchLoop

CONSTANTS s1, s2, s3, s4

MCStates == {s1, s2, s3, s4}
=============================================================================
