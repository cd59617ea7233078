------------------------------- MODULE JobRuns --------------------------------
(***************************************************************************)
(* The run records that executions open and close: ops.collect_run,        *)
(* mart.calc_run and mart.walk_run, their column job_id, and who writes    *)
(* them.  JobQueue supplies the queue; every action here is an action of   *)
(* JobQueue together with what the same code does to run records, or a     *)
(* step between two of them.                                               *)
(*                                                                         *)
(* An execution opens one run: start_run (running_run, then INSERT) or,    *)
(* for a resumed collection, reopen_run.  Runs are opened by commands of   *)
(* the CLI as well, which pass by the queue (job_id NULL).                 *)
(***************************************************************************)
EXTENDS JobQueue

CONSTANTS Clis,       \* processes of atlas collect, atlas calc and the like
          MaxRuns,    \* bound: run records ever opened
          CliKind,    \* the kind these commands collect
          Resumers    \* kinds with parameter resume (post)

ASSUME RunAssumption ==
    /\ Clis \cap Workers = {}
    /\ MaxRuns \in Nat
    /\ CliKind \in Kinds
    /\ Resumers \subseteq Kinds

RunId == 1 .. MaxRuns         \* in the order of started_at
NoRun == 0

VARIABLES
    lastRun,    \* the last run opened
    runStatus,  \* DONE stands for PARTIAL too: what matters is FAILED or not
    runJob,     \* column job_id
    runKind,
    late,       \* runs (re)opened by an execution that had lost its job
    step,       \* how far an execution has come with its run
    mine,       \* the run it has opened
    tidy        \* a failed job whose runs the lane is about to close

runVars  == <<lastRun, runStatus, runJob, runKind, late, step, mine, tidy>>
allVars  == <<vars, runVars>>

Executors == Workers \cup Clis

RunTypeOK ==
    /\ lastRun \in 0 .. MaxRuns
    /\ runStatus \in [RunId -> {"NONE", "RUNNING", "DONE", "FAILED"}]
    /\ runJob \in [RunId -> JobId \cup {NoJob}]
    /\ runKind \in [RunId -> Kinds \cup {NoKind}]
    /\ \A n \in RunId : (runStatus[n] = "NONE" <=> lastRun < n)
                     /\ (runKind[n] = NoKind <=> lastRun < n)
    /\ late \in SUBSET RunId
    /\ step \in [Executors -> {"start", "checked", "open", "ended", "refused"}]
    /\ mine \in [Executors -> RunId \cup {NoRun}]
    /\ \A e \in Executors : mine[e] # NoRun <=> step[e] \in {"open", "ended"}
    /\ tidy \in [Workers -> JobId \cup {NoJob}]
    /\ \A w \in Workers : tidy[w] # NoJob => pc[w] = "idle"

-----------------------------------------------------------------------------
OpenRuns == {n \in RunId : runStatus[n] = "RUNNING"}

Active(e)  == IF e \in Workers THEN pc[e] = "exec" ELSE TRUE
JobOf(e)   == IF e \in Workers THEN cur[e] ELSE NoJob
KindOf(e)  == IF e \in Workers THEN kind[cur[e]] ELSE CliKind
LostJob(e) == e \in Workers /\ ~Owned(e, cur[e])

RInit ==
    /\ Init
    /\ lastRun = 0
    /\ runStatus = [n \in RunId |-> "NONE"]
    /\ runJob = [n \in RunId |-> NoJob]
    /\ runKind = [n \in RunId |-> NoKind]
    /\ late = {}
    /\ step = [e \in Executors |-> "start"]
    /\ mine = [e \in Executors |-> NoRun]
    /\ tidy = [w \in Workers |-> NoJob]

-----------------------------------------------------------------------------
(* What an execution does with its run *)

\* start_run and create_calc_run, first transaction: is one of the kind
\* running?  RunInProgress ends the execution.
CheckRunning(e) ==
    /\ Active(e)
    /\ step[e] = "start"
    /\ step' = [step EXCEPT ![e] = IF \E n \in OpenRuns : runKind[n] = KindOf(e)
                                    THEN "refused" ELSE "checked"]
    /\ UNCHANGED <<vars, lastRun, runStatus, runJob, runKind, late, mine, tidy>>

\* start_run and create_calc_run, second transaction: INSERT.
OpenRun(e) ==
    /\ Active(e)
    /\ step[e] = "checked"
    /\ lastRun < MaxRuns
    /\ LET n == lastRun + 1 IN
        /\ lastRun' = n
        /\ runStatus' = [runStatus EXCEPT ![n] = "RUNNING"]
        /\ runJob' = [runJob EXCEPT ![n] = JobOf(e)]
        /\ runKind' = [runKind EXCEPT ![n] = KindOf(e)]
        /\ late' = IF LostJob(e) THEN late \cup {n} ELSE late
        /\ mine' = [mine EXCEPT ![e] = n]
    /\ step' = [step EXCEPT ![e] = "open"]
    /\ UNCHANGED <<vars, tidy>>

\* reopen_run: a collection with parameter resume goes on with the newest run
\* of its kind, which must be FAILED (or PARTIAL).
Resumable(n, k) ==
    /\ runStatus[n] = "FAILED"
    /\ runKind[n] = k
    /\ \A m \in RunId : runKind[m] = k => m <= n

ReopenRun(e) ==
    /\ Active(e)
    /\ step[e] = "start"
    /\ KindOf(e) \in Resumers
    /\ \E n \in RunId :
        /\ Resumable(n, KindOf(e))
        /\ runStatus' = [runStatus EXCEPT ![n] = "RUNNING"]
        /\ runJob' = [runJob EXCEPT ![n] = JobOf(e)]
        /\ late' = IF LostJob(e) THEN late \cup {n} ELSE late \ {n}
        /\ mine' = [mine EXCEPT ![e] = n]
    /\ step' = [step EXCEPT ![e] = "open"]
    /\ UNCHANGED <<vars, lastRun, runKind, tidy>>

\* finish_run and its like in calc/runner.py and walk/compute.py: the status
\* is written whatever it was.
EndRun(e, st) ==
    /\ Active(e)
    /\ step[e] = "open"
    /\ runStatus' = [runStatus EXCEPT ![mine[e]] = st]
    /\ step' = [step EXCEPT ![e] = "ended"]
    /\ UNCHANGED <<vars, lastRun, runJob, runKind, late, mine, tidy>>

Forget(e) ==
    /\ step' = [step EXCEPT ![e] = "start"]
    /\ mine' = [mine EXCEPT ![e] = NoRun]

\* A command ends, or is killed with its run open; it may be given again.
CliExit(c) ==
    /\ step[c] # "start"
    /\ Forget(c)
    /\ UNCHANGED <<vars, lastRun, runStatus, runJob, runKind, late, tidy>>

-----------------------------------------------------------------------------
(* execute and the queue *)

\* The two conditions under which execute records success: the run ended, and
\* its record does not say FAILED.  First, the one without the second part.
EndedAnyhow(w) == step[w] = "ended"
Succeeded(w) == step[w] = "ended" /\ runStatus[mine[w]] # "FAILED"

FinishDone(w) ==
    /\ Succeeded(w)
    /\ Finish(w, TRUE)
    /\ Forget(w)
    /\ UNCHANGED <<lastRun, runStatus, runJob, runKind, late, tidy>>

\* The exception branch of execute: the failure is recorded, and the runs of
\* the job are to be closed where the job was still owned.
TidyAlways(w) == cur[w]
TidyIfOwned(w) == IF Owned(w, cur[w]) THEN cur[w] ELSE NoJob

FinishFailed(w) ==
    /\ Finish(w, FALSE)
    /\ tidy' = [tidy EXCEPT ![w] = TidyIfOwned(w)]
    /\ Forget(w)
    /\ UNCHANGED <<lastRun, runStatus, runJob, runKind, late>>

\* _close_runs on a set of jobs.
Closed(jobs) ==
    [n \in RunId |-> IF n \in OpenRuns /\ runJob[n] \in jobs THEN "FAILED" ELSE runStatus[n]]

\* close_runs, a transaction of its own after finish.
CloseRuns(w) ==
    /\ tidy[w] # NoJob
    /\ runStatus' = Closed({tidy[w]})
    /\ tidy' = [tidy EXCEPT ![w] = NoJob]
    /\ UNCHANGED <<vars, lastRun, runJob, runKind, late, step, mine>>

\* close_runs raises; execute logs it and goes on.
CloseRunsFails(w) ==
    /\ tidy[w] # NoJob
    /\ tidy' = [tidy EXCEPT ![w] = NoJob]
    /\ UNCHANGED <<vars, lastRun, runStatus, runJob, runKind, late, step, mine>>

Lose(w) ==
    /\ Forget(w)
    /\ tidy' = [tidy EXCEPT ![w] = NoJob]
    /\ UNCHANGED <<lastRun, runStatus, runJob, runKind, late>>

RAbandon(w) == Abandon(w) /\ Lose(w)
RCrash(w)   == Crash(w) /\ Lose(w)

\* The lane takes the next job after execute has returned, and before it would
\* be the clean-up of one job in the execution of another.  First, that form.
RClaimAtOnce(w) == ClaimSnapshot(w) /\ UNCHANGED runVars
RClaimSnapshot(w) == tidy[w] = NoJob /\ ClaimSnapshot(w) /\ UNCHANGED runVars

\* _reap closes the runs of the jobs it sent back or gave up, in the same
\* transaction.  First, the form that closes those of given up jobs only.
GivenUp(r) == rsup[r] \cup (Rest(r) \ Retryable(r))
Reaped(r) == rsup[r] \cup Rest(r)

RReapCommit(r) ==
    /\ ReapCommit(r)
    /\ runStatus' = Closed(Reaped(r))
    /\ UNCHANGED <<lastRun, runJob, runKind, late, step, mine, tidy>>

-----------------------------------------------------------------------------
RWorkerNext(w) ==
    \/ RClaimSnapshot(w)
    \/ \E heard \in BOOLEAN : ClaimTake(w, heard) /\ UNCHANGED runVars
    \/ ClaimNothing(w) /\ UNCHANGED runVars
    \/ Heartbeat(w) /\ UNCHANGED runVars
    \/ FinishDone(w)
    \/ FinishFailed(w)
    \/ CloseRuns(w)
    \/ CloseRunsFails(w)
    \/ RAbandon(w)
    \/ RCrash(w)
    \/ Restart(w) /\ UNCHANGED runVars

RExecutorNext(e) ==
    \/ CheckRunning(e)
    \/ OpenRun(e)
    \/ ReopenRun(e)
    \/ \E st \in {"DONE", "FAILED"} : EndRun(e, st)

RNext ==
    \/ \E k \in Kinds : Enqueue(k) /\ UNCHANGED runVars
    \/ \E j \in JobId : (Cancel(j) \/ MissBeats(j)) /\ UNCHANGED runVars
    \/ \E w \in Workers : RWorkerNext(w)
    \/ \E e \in Executors : RExecutorNext(e)
    \/ \E c \in Clis : CliExit(c)
    \/ \E r \in Reapers : \/ (ReapFirst(r) \/ ReapAbort(r)) /\ UNCHANGED runVars
                          \/ RReapCommit(r)

RSpec == RInit /\ [][RNext]_allVars
-----------------------------------------------------------------------------
(* Safety *)

\* R1: a job that waits, for the first time or again, has left no run open
\* that would refuse its execution, unless an execution that had already lost
\* the job opened it afterwards (queue.py:152-176, "남으면 재시도가 '이미 실행
\* 중'으로 실패").
WaitingJobHasNoOpenRun ==
    \A n \in OpenRuns \ late : runJob[n] # NoJob => status[runJob[n]] # "QUEUED"

\* R6: a job is DONE only where one of its runs is: a collector that returns
\* normally after recording FAILED does not pass for a success
\* (worker.py:56-58), whatever reap and close_runs do to the runs meanwhile.
\* Of kinds with resume this cannot be said: two executions may have the
\* record of a resumed run open, and each writes it.
DoneJobHasResult ==
    \A j \in JobId : status[j] = "DONE" /\ kind[j] \notin Resumers =>
        \E n \in RunId : runJob[n] = j /\ runStatus[n] = "DONE"

\* The run of an execution that holds its job and beats is ended only by an
\* execution that has it open: neither reap nor the clean-up of an earlier
\* executor of the same job closes it (worker.py:77-81, queue.py:146-149).
\* The record must still name the job: another execution that resumes the
\* same run writes its own job there.
RunEndedByItsExecution ==
    [][\A w \in Workers :
         /\ pc[w] = "exec" /\ step[w] = "open" /\ Owned(w, cur[w])
         /\ ~stale[cur[w]] /\ runJob[mine[w]] = cur[w]
         /\ runStatus[mine[w]] = "RUNNING" /\ runStatus'[mine[w]] # "RUNNING"
         => \E e \in Executors : Active(e) /\ mine[e] = mine[w] /\ step'[e] # step[e]]_allVars

\* The queue behaves as it does alone: run records never stand in its way.
QueueUnchanged == Spec

=============================================================================
