--------------------------- MODULE MCPostHistory ---------------------------
(* Model values and symmetry for PostHistory. *)
EXTENDS PostHistory, TLC

CONSTANTS f1, f2

MCFacilities == {f1, f2}
Symmetry     == Permutations(MCFacilities)
=============================================================================
