------------------------------ MODULE KindQueue ------------------------------
(***************************************************************************)
(* What the job queue promises its users, told without jobs, workers or    *)
(* transactions: for every kind of work there is at most one request       *)
(* waiting and at most one execution going on, a request that arrives      *)
(* during an execution waits for its end, and an execution that was given  *)
(* up may go back to waiting only where nothing of its kind waits already. *)
(*                                                                         *)
(* JobQueue implements this specification; the modules about chains of     *)
(* jobs and about schedules are built on it.                               *)
(***************************************************************************)
EXTENDS FiniteSets

CONSTANT Kinds        \* the kinds of work (registry.JOBS)

VARIABLES waiting,    \* kinds with a request in the queue
          active      \* kinds being executed

qvars == <<waiting, active>>

QTypeOK ==
    /\ waiting \in SUBSET Kinds
    /\ active \in SUBSET Kinds

QInit ==
    /\ waiting = {}
    /\ active = {}

\* A request for k; a second one while k waits changes nothing (a conflict).
Request(k) ==
    /\ k \notin waiting
    /\ waiting' = waiting \cup {k}
    /\ UNCHANGED active

\* An executor takes the waiting request of k.
Start(k) ==
    /\ k \in waiting \ active
    /\ waiting' = waiting \ {k}
    /\ active' = active \cup {k}

\* The execution of k ends, with success or failure.
Complete(k) ==
    /\ k \in active
    /\ active' = active \ {k}
    /\ UNCHANGED waiting

\* The waiting request of k is withdrawn.
Withdraw(k) ==
    /\ k \in waiting
    /\ waiting' = waiting \ {k}
    /\ UNCHANGED active

\* Abandoned executions are given up together: those of retry wait again,
\* those of drop do not.
Recover(retry, drop) ==
    /\ retry \cup drop \subseteq active
    /\ retry \cap (waiting \cup drop) = {}
    /\ waiting' = waiting \cup retry
    /\ active' = active \ (retry \cup drop)

QNext ==
    \/ \E k \in Kinds : Request(k) \/ Start(k) \/ Complete(k) \/ Withdraw(k)
    \/ \E retry, drop \in SUBSET Kinds : Recover(retry, drop)

QSpec == QInit /\ [][QNext]_qvars
=============================================================================
