----------------------------- MODULE MCJobQueue -----------------------------
(* Instances of JobQueue whose workers all serve the same lane. *)
EXTENDS JobQueue, TLC

MCOneLane == [w \in Workers |-> Kinds]

\* Kinds and workers are interchangeable in every property of the runs.
MCSymmetry == Permutations(Workers) \cup Permutations(Kinds)
=============================================================================
