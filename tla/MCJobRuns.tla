------------------------------ MODULE MCJobRuns ------------------------------
(* Instances of JobRuns whose workers all serve the same lane. *)
EXTENDS JobRuns, TLC

MCOneLane == [w \in Workers |-> Kinds]

MCSymmetry == Permutations(Workers)
=============================================================================
