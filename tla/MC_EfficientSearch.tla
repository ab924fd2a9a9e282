------------------------- MODULE MC_EfficientSearch -------------------------
(* Small instances of EfficientSearch for TLC. *)
EXTENDS EfficientSearch

(* Two instances: the second sees survivors the first put in the map. *)
MCNumInsts == 2

(* Occupancy and padding penalties of 0.5 and 1.0: a 0.5 penalty passes   *)
(* only after ten relaxation steps.                                        *)
MCPenalties == {10, 20}
====
