------------------------------ MODULE Collect ------------------------------
(***************************************************************************)
(* What the collectors share: the record of a run and a loop over units    *)
(* (years, provinces, districts, tiles, months), each asked for and        *)
(* stored by itself.  A unit that fails is noted and the loop goes on; an  *)
(* answer that tells to stop ends the loop; an exception, or the loss of   *)
(* the process, ends the run as FAILED wherever it is.                     *)
(***************************************************************************)
EXTENDS Sublists

CONSTANT MaxRuns   \* bound on the runs of one behaviour

VARIABLES
  run,       \* how many runs have begun; the newest is the one in hand
  status,    \* its ops.collect_run.status
  stopped,   \* stats.stoppedBy is set
  todo,      \* the units the loop has still to do, in order
  done,      \* stats.doneCodes, months, done ...
  failed     \* stats.failedCodes, failedYears, failedMonths ...

runVars == <<run, status, stopped, todo, done, failed>>

ASSUME CollectAssumption == MaxRuns \in Nat

CollectInit ==
  /\ run = 0 /\ status = "none" /\ stopped = FALSE
  /\ todo = <<>> /\ done = {} /\ failed = {}

\* start_run and the counters of the run.
Begin(units) ==
  /\ status # "RUNNING" /\ run < MaxRuns
  /\ run' = run + 1 /\ status' = "RUNNING" /\ stopped' = FALSE
  /\ todo' = units /\ done' = {} /\ failed' = {}

Busy == status = "RUNNING" /\ todo # <<>>
Unit == Head(todo)

\* The loop goes on: the unit counts as done, as failed, or as neither.
Passed  == Busy /\ todo' = Tail(todo) /\ UNCHANGED <<run, status, stopped, done, failed>>
Success == Busy /\ todo' = Tail(todo) /\ done' = done \cup {Unit} /\ UNCHANGED <<run, status, stopped, failed>>
Failure == Busy /\ todo' = Tail(todo) /\ failed' = failed \cup {Unit} /\ UNCHANGED <<run, status, stopped, done>>
Held    == Busy /\ UNCHANGED runVars

\* DataGoStop or KakaoStop: no more calls.
Break == Busy /\ stopped' = TRUE /\ todo' = <<>> /\ UNCHANGED <<run, status, done, failed>>

\* finish_run, after the loop.
Finish(st) ==
  /\ status = "RUNNING" /\ todo = <<>>
  /\ status' = st /\ UNCHANGED <<run, stopped, todo, done, failed>>

\* An exception: finish_run(FAILED).  A process that dies leaves the run to
\* close_runs, which writes the same.
Interrupted ==
  /\ status = "RUNNING"
  /\ status' = "FAILED" /\ todo' = <<>> /\ UNCHANGED <<run, stopped, done, failed>>

\* The status of most collectors: all units, some of them, or none.
Outcome(some) == IF failed = {} /\ ~stopped THEN "DONE" ELSE IF some THEN "PARTIAL" ELSE "FAILED"
=============================================================================
