------------------------------- MODULE MCSlots --------------------------------
(* Two kinds of the schedule, one of which is due twice. *)
EXTENDS Slots, TLC

CONSTANTS kma, care, p1, p2

MCOccurs   == (kma :> {1, 3}) @@ (care :> {2})
MCSymmetry == Permutations({p1, p2})
=============================================================================
