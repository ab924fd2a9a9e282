----------------------- MODULE MC_EvolutionarySearch -----------------------
(* Model-checking instance of EvolutionarySearch: three schedules with two *)
(* score levels (so ties occur), a heap of two, generations of two and two *)
(* mutation rounds.                                                        *)
EXTENDS EvolutionarySearch

CONSTANTS s1, s2, s3

MCStates == {s1, s2, s3}
=============================================================================
