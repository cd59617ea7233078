------------------------------- MODULE JobQueue -------------------------------
(***************************************************************************)
(* The Postgres job queue of atlas/jobs/queue.py as the lane threads of    *)
(* atlas/jobs/worker.py use it: the table ops.job with its partial unique  *)
(* index ux_job_queued (V23), enqueue, cancel, claim, heartbeat, finish    *)
(* and reap.                                                               *)
(*                                                                         *)
(* One action is one step other sessions can see.  A transaction of one    *)
(* statement is atomic, with two exceptions that READ COMMITTED makes      *)
(* visible:                                                                *)
(*   - claim finds its candidates in the snapshot of the statement and     *)
(*     rechecks only the row it then locks, so it is two actions,          *)
(*     ClaimSnapshot and ClaimTake;                                        *)
(*   - _reap is one transaction of three UPDATEs, and the second sees rows *)
(*     committed after the first, so it is two actions as well; rows that  *)
(*     the first UPDATE changed stay locked until the transaction ends.    *)
(***************************************************************************)
EXTENDS Naturals, FiniteSets

CONSTANTS Kinds,        \* kinds of jobs (registry.JOBS)
          Workers,      \* lane threads: host:pid/lane
          Reapers,      \* threads that run reap(), one per worker process
          Prompt,       \* kinds whose executions are known to end (liveness only)
          LaneKinds,    \* [Workers -> SUBSET Kinds]: registry.kinds_for(lane)
          MaxAttempts,  \* ops.job.max_attempts (2 in V11)
          MaxJobs,      \* bound: rows ever inserted
          NoWorker,     \* NULL in column worker
          NoKind        \* column kind of a row not inserted yet

ASSUME QueueAssumption ==
    /\ LaneKinds \in [Workers -> SUBSET Kinds]
    /\ MaxAttempts \in Nat \ {0}
    /\ MaxJobs \in Nat
    /\ NoWorker \notin Workers
    /\ NoKind \notin Kinds

JobId == 1 .. MaxJobs         \* job_id follows created_at
NoJob == 0

Terminal == {"DONE", "FAILED", "CANCELLED"}
Status   == {"NONE", "QUEUED", "RUNNING"} \cup Terminal   \* NONE: no row yet

VARIABLES
    \* ops.job
    lastId,    \* the last job_id given out
    status,
    kind,
    attempts,
    owner,     \* column worker
    stale,     \* heartbeat_at is older than STALE_MIN minutes
    \* lane threads
    pc,
    snap,      \* candidates in the snapshot of a claim in progress
    cur,       \* the job in execution, or NoJob
    att,       \* its attempt, as claim returned it
    \* reap transactions
    rpc,
    rstale,    \* rows that are stale at the transaction's now()
    rsup       \* rows the first UPDATE changed, locked until commit

jobVars    == <<lastId, status, kind, attempts, owner, stale>>
workerVars == <<pc, snap, cur, att>>
reapVars   == <<rpc, rstale, rsup>>
vars       == <<lastId, status, kind, attempts, owner, stale,
                pc, snap, cur, att, rpc, rstale, rsup>>

\* The shape of the state; a row exists exactly for the ids given out, and
\* rows and threads hold values the code can store there.
TypeOK ==
    /\ lastId \in 0 .. MaxJobs
    /\ status \in [JobId -> Status]
    /\ kind \in [JobId -> Kinds \cup {NoKind}]
    /\ \A j \in JobId : (status[j] = "NONE" <=> lastId < j)
                     /\ (kind[j] = NoKind <=> lastId < j)
    /\ attempts \in [JobId -> 0 .. MaxAttempts]
    /\ owner \in [JobId -> Workers \cup {NoWorker}]
    /\ stale \in [JobId -> BOOLEAN]
    /\ pc \in [Workers -> {"idle", "claim", "exec", "down"}]
    /\ snap \in [Workers -> SUBSET JobId]
    /\ cur \in [Workers -> JobId \cup {NoJob}]
    /\ att \in [Workers -> 0 .. MaxAttempts]
    /\ rpc \in [Reapers -> {"idle", "second"}]
    /\ rstale \in [Reapers -> SUBSET JobId]
    /\ rsup \in [Reapers -> SUBSET JobId]

-----------------------------------------------------------------------------
Queued  == {j \in JobId : status[j] = "QUEUED"}
Running == {j \in JobId : status[j] = "RUNNING"}

QueuedKind(k)  == \E j \in Queued : kind[j] = k
RunningKind(k) == \E j \in Running : kind[j] = k

LockedByOther(r) == UNION {rsup[s] : s \in Reapers \ {r}}
Locked           == UNION {rsup[s] : s \in Reapers}

\* _OWNED: job j is still the execution of worker w.  First, two mistaken
\* forms: without the worker, and without the status.
OwnedByAnyone(w, j)    == status[j] = "RUNNING"
OwnedInAnyStatus(w, j) == owner[j] = w
Owned(w, j) == status[j] = "RUNNING" /\ owner[j] = w

Oldest(S) == CHOOSE j \in S : \A i \in S : j <= i

-----------------------------------------------------------------------------
Init ==
    /\ lastId = 0
    /\ status = [j \in JobId |-> "NONE"]
    /\ kind = [j \in JobId |-> NoKind]
    /\ attempts = [j \in JobId |-> 0]
    /\ owner = [j \in JobId |-> NoWorker]
    /\ stale = [j \in JobId |-> FALSE]
    /\ pc = [w \in Workers |-> "idle"]
    /\ snap = [w \in Workers |-> {}]
    /\ cur = [w \in Workers |-> NoJob]
    /\ att = [w \in Workers |-> 0]
    /\ rpc = [r \in Reapers |-> "idle"]
    /\ rstale = [r \in Reapers |-> {}]
    /\ rsup = [r \in Reapers |-> {}]

\* enqueue and try_enqueue_slot: INSERT, refused by ux_job_queued while a row
\* of the kind waits (the refusal changes no row).  First, the table without
\* the index.
EnqueueAlways(k) == TRUE
Insertable(k) == ~QueuedKind(k)

Enqueue(k) ==
    /\ lastId < MaxJobs
    /\ Insertable(k)
    /\ lastId' = lastId + 1
    /\ status' = [status EXCEPT ![lastId + 1] = "QUEUED"]
    /\ kind' = [kind EXCEPT ![lastId + 1] = k]
    /\ UNCHANGED <<attempts, owner, stale, workerVars, reapVars>>

Cancellable(j) == status[j] = "QUEUED"

Cancel(j) ==
    /\ Cancellable(j)
    /\ status' = [status EXCEPT ![j] = "CANCELLED"]
    /\ UNCHANGED <<lastId, kind, attempts, owner, stale, workerVars, reapVars>>

-----------------------------------------------------------------------------
\* The rows the inner SELECT of claim finds: the lane's waiting jobs whose
\* kind is not running.  First, the form without NOT EXISTS.
EveryWaiting(w) == {j \in Queued : kind[j] \in LaneKinds[w]}
Candidates(w) == {j \in Queued : kind[j] \in LaneKinds[w] /\ ~RunningKind(kind[j])}

ClaimSnapshot(w) ==
    /\ pc[w] = "idle"
    /\ pc' = [pc EXCEPT ![w] = "claim"]
    /\ snap' = [snap EXCEPT ![w] = Candidates(w)]
    /\ UNCHANGED <<jobVars, cur, att, reapVars>>

\* FOR UPDATE SKIP LOCKED rechecks the status of the row it locks and passes
\* over a row that another claim or a cancel took since the snapshot.
StillWaiting(w) == {j \in snap[w] : status[j] = "QUEUED"}

\* The UPDATE takes the oldest such row.  heard is FALSE when the commit
\* succeeds and its reply is lost with the connection: the lane goes on
\* without the job, which nobody executes.
ClaimTake(w, heard) ==
    /\ pc[w] = "claim"
    /\ StillWaiting(w) # {}
    /\ LET j == Oldest(StillWaiting(w)) IN
        /\ status' = [status EXCEPT ![j] = "RUNNING"]
        /\ attempts' = [attempts EXCEPT ![j] = attempts[j] + 1]
        /\ owner' = [owner EXCEPT ![j] = w]
        /\ stale' = [stale EXCEPT ![j] = FALSE]
        /\ IF heard
           THEN /\ pc' = [pc EXCEPT ![w] = "exec"]
                /\ cur' = [cur EXCEPT ![w] = j]
                /\ att' = [att EXCEPT ![w] = attempts[j] + 1]
           ELSE /\ pc' = [pc EXCEPT ![w] = "idle"]
                /\ UNCHANGED <<cur, att>>
    /\ snap' = [snap EXCEPT ![w] = {}]
    /\ UNCHANGED <<lastId, kind, reapVars>>

\* Nothing to take: the lane listens for NOTIFY or polls again.
ClaimNothing(w) ==
    /\ pc[w] = "claim"
    /\ StillWaiting(w) = {}
    /\ pc' = [pc EXCEPT ![w] = "idle"]
    /\ snap' = [snap EXCEPT ![w] = {}]
    /\ UNCHANGED <<jobVars, cur, att, reapVars>>

-----------------------------------------------------------------------------
\* The heartbeat thread of an execution; it matters when the row is stale.
Heartbeat(w) ==
    /\ pc[w] = "exec"
    /\ cur[w] \notin Locked
    /\ Owned(w, cur[w])
    /\ stale[cur[w]]
    /\ stale' = [stale EXCEPT ![cur[w]] = FALSE]
    /\ rstale' = [r \in Reapers |-> rstale[r] \ {cur[w]}]
    /\ UNCHANGED <<lastId, status, kind, attempts, owner, workerVars, rpc, rsup>>

\* finish: the result is recorded where the job is still owned, and ignored
\* where it is not; the lane goes on either way.
Finish(w, ok) ==
    /\ pc[w] = "exec"
    /\ cur[w] \notin Locked
    /\ status' = IF Owned(w, cur[w])
                 THEN [status EXCEPT ![cur[w]] = IF ok THEN "DONE" ELSE "FAILED"]
                 ELSE status
    /\ pc' = [pc EXCEPT ![w] = "idle"]
    /\ cur' = [cur EXCEPT ![w] = NoJob]
    /\ att' = [att EXCEPT ![w] = 0]
    /\ UNCHANGED <<lastId, kind, attempts, owner, stale, snap, reapVars>>

\* The database is away when the result is to be recorded: both calls of
\* finish raise, run_lane catches the error and reconnects.
Abandon(w) ==
    /\ pc[w] \in {"claim", "exec"}
    /\ pc' = [pc EXCEPT ![w] = "idle"]
    /\ snap' = [snap EXCEPT ![w] = {}]
    /\ cur' = [cur EXCEPT ![w] = NoJob]
    /\ att' = [att EXCEPT ![w] = 0]
    /\ UNCHANGED <<jobVars, reapVars>>

\* The process is killed, or stops on SIGTERM; the container is restarted
\* under the same name (host and pid of the container do not change).
Crash(w) ==
    /\ pc[w] # "down"
    /\ pc' = [pc EXCEPT ![w] = "down"]
    /\ snap' = [snap EXCEPT ![w] = {}]
    /\ cur' = [cur EXCEPT ![w] = NoJob]
    /\ att' = [att EXCEPT ![w] = 0]
    /\ UNCHANGED <<jobVars, reapVars>>

Restart(w) ==
    /\ pc[w] = "down"
    /\ pc' = [pc EXCEPT ![w] = "idle"]
    /\ UNCHANGED <<jobVars, snap, cur, att, reapVars>>

\* No heartbeat reached the database for STALE_MIN minutes: the executor is
\* gone, or it is alive and cut off from the database.
MissBeats(j) ==
    /\ status[j] = "RUNNING"
    /\ ~stale[j]
    /\ stale' = [stale EXCEPT ![j] = TRUE]
    /\ UNCHANGED <<lastId, status, kind, attempts, owner, workerVars, reapVars>>

-----------------------------------------------------------------------------
StaleRows == {j \in Running : stale[j]}

\* _reap, first UPDATE: stale executions whose kind waits already.  First, the
\* code before it had that UPDATE.
NoneSuperseded == {}
Superseded == {j \in StaleRows : QueuedKind(kind[j])}

ReapFirst(r) ==
    /\ rpc[r] = "idle"
    /\ StaleRows # {}
    /\ Superseded \cap LockedByOther(r) = {}
    /\ rpc' = [rpc EXCEPT ![r] = "second"]
    /\ rstale' = [rstale EXCEPT ![r] = StaleRows]
    /\ rsup' = [rsup EXCEPT ![r] = Superseded]
    /\ UNCHANGED <<jobVars, workerVars>>

\* What the second and third UPDATE find: rows stale at now() and still so.
RestAsSeen(r) == rstale[r] \ rsup[r]
Rest(r) == {j \in rstale[r] \ rsup[r] : status[j] = "RUNNING" /\ stale[j]}

RetryEvery(r) == Rest(r)
Retryable(r) == {j \in Rest(r) : attempts[j] < MaxAttempts}

\* The second UPDATE runs into ux_job_queued: a job of the kind was enqueued
\* since the first one.  First, the form that does not notice.
NoCollision(r) == FALSE
Collision(r) ==
    \E j \in Retryable(r), q \in JobId :
        /\ q # j
        /\ kind[q] = kind[j]
        /\ status[q] = "QUEUED" \/ q \in Retryable(r)

\* Second and third UPDATE and commit: retry where attempts are left, give up
\* the others.
ReapCommit(r) ==
    /\ rpc[r] = "second"
    /\ Rest(r) \cap LockedByOther(r) = {}
    /\ ~Collision(r)
    /\ status' = [j \in JobId |->
                    IF j \in Retryable(r) THEN "QUEUED"
                    ELSE IF j \in rsup[r] \cup Rest(r) THEN "FAILED"
                    ELSE status[j]]
    /\ owner' = [j \in JobId |-> IF j \in Retryable(r) THEN NoWorker ELSE owner[j]]
    /\ rpc' = [rpc EXCEPT ![r] = "idle"]
    /\ rstale' = [rstale EXCEPT ![r] = {}]
    /\ rsup' = [rsup EXCEPT ![r] = {}]
    /\ UNCHANGED <<lastId, kind, attempts, stale, workerVars>>

\* IntegrityError (reap catches it), a lost connection, or the death of the
\* process: the transaction is rolled back and the next cycle starts over.
ReapAbort(r) ==
    /\ rpc[r] = "second"
    /\ rpc' = [rpc EXCEPT ![r] = "idle"]
    /\ rstale' = [rstale EXCEPT ![r] = {}]
    /\ rsup' = [rsup EXCEPT ![r] = {}]
    /\ UNCHANGED <<jobVars, workerVars>>

-----------------------------------------------------------------------------
WorkerNext(w) ==
    \/ ClaimSnapshot(w)
    \/ \E heard \in BOOLEAN : ClaimTake(w, heard)
    \/ ClaimNothing(w)
    \/ Heartbeat(w)
    \/ \E ok \in BOOLEAN : Finish(w, ok)
    \/ Abandon(w)
    \/ Crash(w)
    \/ Restart(w)

ReaperNext(r) == ReapFirst(r) \/ ReapCommit(r) \/ ReapAbort(r)

Next ==
    \/ \E k \in Kinds : Enqueue(k)
    \/ \E j \in JobId : Cancel(j) \/ MissBeats(j)
    \/ \E w \in Workers : WorkerNext(w)
    \/ \E r \in Reapers : ReaperNext(r)

Spec == Init /\ [][Next]_vars
-----------------------------------------------------------------------------
(* Safety *)

\* Of each kind at most one job waits (index ux_job_queued, V23), whatever
\* enqueue, the schedule and two reapers do at once (queue.py:45-70, 163-180).
OneQueuedPerKind == \A i, j \in Queued : kind[i] = kind[j] => i = j

\* Of each kind at most one job runs: what claim's docstring states
\* (queue.py:75), although NOT EXISTS reads an old snapshot and is not
\* repeated when the row is locked.
OneRunningPerKind == \A i, j \in Running : kind[i] = kind[j] => i = j

\* A result is recorded only by the execution of the job's current attempt,
\* never by an executor that was reaped and comes late (queue.py:113-115, R8).
ResultOfCurrentAttempt ==
    [][\A j \in Running :
         status'[j] = "DONE" =>
            \E w \in Workers : /\ pc[w] = "exec" /\ pc'[w] = "idle"
                               /\ cur[w] = j /\ att[w] = attempts[j]]_vars

\* A job that is DONE, FAILED or CANCELLED stays so: no late finish, claim,
\* cancel or reap revives or relabels it (queue.py:77-82, 115, 183-186).
TerminalIsFinal ==
    [][\A j \in JobId : status[j] \in Terminal => status'[j] = status[j]]_vars

\* While its heartbeats arrive, a running job is touched by its owner alone:
\* it keeps its owner and attempt until the owner's execution ends it.  A
\* heartbeat between the UPDATEs of _reap is in time (queue.py:155, 171-176).
BeatingJobIsKept ==
    [][\A j \in Running :
         ~stale[j] =>
            \/ status'[j] = "RUNNING" /\ owner'[j] = owner[j] /\ attempts'[j] = attempts[j]
            \/ \E w \in Workers : /\ pc[w] = "exec" /\ pc'[w] = "idle"
                                  /\ cur[w] = j /\ owner[j] = w]_vars

\* The queue keeps the promise of KindQueue.
WaitingKinds == {kind[j] : j \in Queued}
ActiveKinds  == {kind[j] : j \in Running}
Promise == INSTANCE KindQueue WITH waiting <- WaitingKinds, active <- ActiveKinds
ImplementsKindQueue == Promise!QSpec

-----------------------------------------------------------------------------
(* Liveness *)

Orphan(j) == \A w \in Workers : pc[w] = "exec" => cur[w] # j

EndsPrompt(w) ==
    /\ pc[w] = "exec"
    /\ kind[cur[w]] \in Prompt
    /\ \E ok \in BOOLEAN : Finish(w, ok)

\* Lanes poll (poll_s) and are restarted by compose; interruptions of a claim
\* or of a reap do not hit every cycle; an execution nobody performs gets no
\* heartbeat; a Prompt execution that is not interrupted ends.
Fairness ==
    /\ \A w \in Workers :
        /\ WF_vars(Restart(w))
        /\ SF_vars(ClaimSnapshot(w))
        /\ SF_vars(ClaimTake(w, TRUE))
        /\ WF_vars(ClaimNothing(w))
        /\ SF_vars(EndsPrompt(w))
    /\ \A j \in JobId : WF_vars(Orphan(j) /\ MissBeats(j))
    /\ \A r \in Reapers :
        /\ SF_vars(ReapFirst(r))
        /\ SF_vars(ReapCommit(r))
        /\ WF_vars(Collision(r) /\ ReapAbort(r))

FairSpec == Spec /\ Fairness

\* Every job of a Prompt kind ends, whatever crashes, lost connections and
\* lost replies interrupt it, and although jobs of other kinds may run for
\* ever: that is what lanes (worker.py:3-4, registry.py:168-177), reap and
\* the retry limit are for.
PromptJobsEnd ==
    \A j \in JobId :
        (status[j] \in {"QUEUED", "RUNNING"} /\ kind[j] \in Prompt)
            ~> status[j] \in Terminal
=============================================================================
