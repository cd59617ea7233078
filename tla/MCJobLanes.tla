----------------------------- MODULE MCJobLanes -----------------------------
(* An instance of JobQueue with the two lanes of one worker process. *)
EXTENDS JobQueue

CONSTANTS short, long,    \* the lane threads
          kma, walk       \* a kind of each lane

MCLanes == [w \in Workers |-> IF w = short THEN {kma} ELSE {walk}]
=============================================================================
