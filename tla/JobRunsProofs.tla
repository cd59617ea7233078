----------------------------- MODULE JobRunsProofs ----------------------------
(***************************************************************************)
(* Proofs about the queue, for any kinds, workers, lanes, reapers and      *)
(* bound on the rows, and about the runs of its jobs and of commands.  The *)
(* runs do not disturb the queue, so that everything the first part shows  *)
(* of JobQueue holds in JobRuns as well; IInv is the queue's invariant.    *)
(***************************************************************************)
EXTENDS JobRuns, TLAPS, WellFoundedInduction

(* The queue *)

\* A waiting job has an attempt left; a row not inserted yet had none.
AttemptsLeft ==
    /\ \A j \in Queued : attempts[j] < MaxAttempts
    /\ \A j \in JobId : status[j] = "NONE" => attempts[j] = 0

\* What makes the snapshot of a claim safe although NOT EXISTS is not
\* repeated: as long as a candidate waits, no other job of its kind can have
\* come to run, for it would have had to wait at the same time.
SnapshotHolds ==
    \A w \in Workers : \A j \in snap[w] :
        /\ status[j] # "NONE"
        /\ status[j] = "QUEUED" => ~RunningKind(kind[j])

\* The thread that executes a job it owns executes the job's current attempt.
ExecutesCurrent ==
    \A w \in Workers :
        /\ pc[w] = "exec" => cur[w] \in JobId
        /\ pc[w] = "exec" /\ Owned(w, cur[w]) => att[w] = attempts[cur[w]]

\* Rows locked by a reap transaction are stale executions, each locked by one.
LockedRows ==
    /\ \A r \in Reapers : \A j \in rsup[r] : status[j] = "RUNNING" /\ stale[j]
    /\ \A r, s \in Reapers : r # s => rsup[r] \cap rsup[s] = {}

IInv ==
    /\ TypeOK
    /\ OneQueuedPerKind
    /\ OneRunningPerKind
    /\ AttemptsLeft
    /\ SnapshotHolds
    /\ ExecutesCurrent
    /\ LockedRows
-----------------------------------------------------------------------------
\* The row claim takes is one of its candidates.
LEMMA OldestIsMember ==
    ASSUME NEW S \in SUBSET JobId, S # {}
    PROVE  Oldest(S) \in S
<1>1. S \subseteq Nat
    BY QueueAssumption DEF JobId
<1>2. PICK m \in S : \A y \in S : ~ (<<y, m>> \in OpToRel(<, Nat))
    BY <1>1, NatLessThanWellFounded, WFMin
<1>3. \A y \in S : m <= y
  <2> TAKE y \in S
  <2>1. m \in Nat /\ y \in Nat
      BY <1>1
  <2>2. ~ (y < m)
      BY <1>2, <2>1 DEF OpToRel
  <2> QED BY <2>1, <2>2
<1> QED BY <1>3 DEF Oldest

-----------------------------------------------------------------------------
(* One lemma per action: it preserves the invariant. *)

LEMMA InitIInv == Init => IInv
<1> SUFFICES ASSUME Init PROVE IInv
    OBVIOUS
<1>1. TypeOK
    BY QueueAssumption DEF Init, TypeOK, JobId, NoJob, Status
<1>2. OneQueuedPerKind /\ OneRunningPerKind /\ AttemptsLeft
    BY DEF Init, OneQueuedPerKind, OneRunningPerKind, AttemptsLeft, Queued, Running
<1>3. SnapshotHolds /\ ExecutesCurrent /\ LockedRows
    BY DEF Init, SnapshotHolds, ExecutesCurrent, LockedRows
<1> QED BY <1>1, <1>2, <1>3 DEF IInv

LEMMA EnqueueIInv ==
    ASSUME IInv, NEW k \in Kinds, Enqueue(k)
    PROVE  IInv'
<1> USE DEF JobId
<1>0. lastId + 1 \in JobId /\ status[lastId + 1] = "NONE" /\ kind[lastId + 1] = NoKind
  <2>1. lastId \in Nat /\ lastId < MaxJobs /\ MaxJobs \in Nat
      BY QueueAssumption DEF IInv, TypeOK, Enqueue
  <2>2. lastId + 1 \in JobId /\ lastId < lastId + 1
      BY <2>1
  <2> HIDE DEF JobId
  <2> QED BY <2>2 DEF IInv, TypeOK
<1>1. TypeOK'
  <2>1. lastId' = lastId + 1 /\ lastId \in Nat /\ lastId' \in 0 .. MaxJobs
      BY QueueAssumption DEF IInv, TypeOK, Enqueue
  <2>2. /\ status' \in [JobId -> Status]
        /\ kind' \in [JobId -> Kinds \cup {NoKind}]
      BY <1>0 DEF IInv, TypeOK, Enqueue, Status
  <2>3. \A j \in JobId : (status'[j] = "NONE" <=> lastId' < j)
                      /\ (kind'[j] = NoKind <=> lastId' < j)
    <3> TAKE j \in JobId
    <3>1. CASE j = lastId + 1
      <4>1. status'[j] = "QUEUED" /\ kind'[j] = k /\ k # NoKind /\ ~ (lastId' < j)
          BY <1>0, <2>1, <3>1, QueueAssumption DEF IInv, TypeOK, Enqueue
      <4> QED BY <4>1
    <3>2. CASE j # lastId + 1
      <4>1. status'[j] = status[j] /\ kind'[j] = kind[j]
          BY <3>2 DEF IInv, TypeOK, Enqueue
      <4>2. lastId' < j <=> lastId < j
          BY <2>1, <3>2
      <4> QED BY <4>1, <4>2 DEF IInv, TypeOK
    <3> QED BY <3>1, <3>2
  <2>4. UNCHANGED <<attempts, owner, stale, workerVars, reapVars>>
      BY DEF Enqueue
  <2> QED BY <2>1, <2>2, <2>3, <2>4 DEF IInv, TypeOK, workerVars, reapVars
<1>a. /\ Queued' \subseteq Queued \cup {lastId + 1}
      /\ kind'[lastId + 1] = k
      /\ \A i \in JobId : i # lastId + 1 => kind'[i] = kind[i]
    BY <1>0 DEF IInv, TypeOK, Enqueue, Queued
<1>b. \A i \in Queued : kind[i] # k
    BY DEF Enqueue, Insertable, QueuedKind
<1>2. OneQueuedPerKind'
    BY <1>a, <1>b DEF IInv, OneQueuedPerKind, Queued
<1>3. OneRunningPerKind'
    BY <1>0 DEF IInv, TypeOK, Enqueue, OneRunningPerKind, Running
<1>4. AttemptsLeft'
    BY <1>0, QueueAssumption DEF IInv, TypeOK, Enqueue, AttemptsLeft, Queued
<1>5. SnapshotHolds'
    BY <1>0 DEF IInv, TypeOK, Enqueue, SnapshotHolds, RunningKind, Running, workerVars
<1>6. ExecutesCurrent'
    BY <1>0 DEF IInv, TypeOK, Enqueue, ExecutesCurrent, Owned, workerVars
<1>7. LockedRows'
    BY <1>0 DEF IInv, TypeOK, Enqueue, LockedRows, reapVars
<1> QED BY <1>1, <1>2, <1>3, <1>4, <1>5, <1>6, <1>7 DEF IInv

LEMMA CancelIInv ==
    ASSUME IInv, NEW j \in JobId, Cancel(j)
    PROVE  IInv'
<1>1. TypeOK'
    BY DEF IInv, TypeOK, Cancel, Cancellable, Status, Terminal, workerVars, reapVars
<1>2. OneQueuedPerKind' /\ OneRunningPerKind' /\ AttemptsLeft'
    BY DEF IInv, TypeOK, Cancel, Cancellable, OneQueuedPerKind, OneRunningPerKind,
           AttemptsLeft, Queued, Running
<1>3. SnapshotHolds'
    BY DEF IInv, TypeOK, Cancel, Cancellable, SnapshotHolds, RunningKind, Running, workerVars
<1>4. ExecutesCurrent'
    BY DEF IInv, TypeOK, Cancel, Cancellable, ExecutesCurrent, Owned, workerVars
<1>5. LockedRows'
    BY DEF IInv, TypeOK, Cancel, Cancellable, LockedRows, reapVars
<1> QED BY <1>1, <1>2, <1>3, <1>4, <1>5 DEF IInv

LEMMA ClaimSnapshotIInv ==
    ASSUME IInv, NEW w \in Workers, ClaimSnapshot(w)
    PROVE  IInv'
<1>1. TypeOK'
    BY DEF IInv, TypeOK, ClaimSnapshot, Candidates, Queued, jobVars, reapVars
<1>2. OneQueuedPerKind' /\ OneRunningPerKind' /\ AttemptsLeft'
    BY DEF IInv, ClaimSnapshot, OneQueuedPerKind, OneRunningPerKind, AttemptsLeft,
           Queued, Running, jobVars
<1>3. SnapshotHolds'
    BY DEF IInv, TypeOK, ClaimSnapshot, Candidates, SnapshotHolds, RunningKind, Queued,
           Running, jobVars
<1>4. ExecutesCurrent' /\ LockedRows'
    BY DEF IInv, TypeOK, ClaimSnapshot, ExecutesCurrent, LockedRows, Owned, jobVars, reapVars
<1> QED BY <1>1, <1>2, <1>3, <1>4 DEF IInv

LEMMA ClaimTakeIInv ==
    ASSUME IInv, NEW w \in Workers, NEW heard \in BOOLEAN, ClaimTake(w, heard)
    PROVE  IInv'
<1> DEFINE j == Oldest(StillWaiting(w))
<1>0. j \in snap[w] /\ j \in JobId /\ status[j] = "QUEUED"
  <2>1. StillWaiting(w) \in SUBSET JobId /\ StillWaiting(w) # {}
      BY DEF IInv, TypeOK, ClaimTake, StillWaiting
  <2> QED BY <2>1, OldestIsMember DEF StillWaiting
<1>a. /\ status' = [status EXCEPT ![j] = "RUNNING"]
      /\ attempts' = [attempts EXCEPT ![j] = attempts[j] + 1]
      /\ owner' = [owner EXCEPT ![j] = w]
      /\ stale' = [stale EXCEPT ![j] = FALSE]
      /\ \/ /\ pc' = [pc EXCEPT ![w] = "exec"]
            /\ cur' = [cur EXCEPT ![w] = j]
            /\ att' = [att EXCEPT ![w] = attempts[j] + 1]
         \/ /\ pc' = [pc EXCEPT ![w] = "idle"]
            /\ UNCHANGED <<cur, att>>
      /\ pc[w] = "claim"
      /\ snap' = [snap EXCEPT ![w] = {}]
      /\ UNCHANGED <<lastId, kind, rpc, rstale, rsup>>
    BY DEF ClaimTake, reapVars
<1> HIDE DEF j
<1>b. attempts[j] \in 0 .. MaxAttempts /\ attempts[j] < MaxAttempts
    BY <1>0 DEF IInv, TypeOK, AttemptsLeft, Queued
<1>1. TypeOK'
  <2>1. /\ status' \in [JobId -> Status]
        /\ \A i \in JobId : status'[i] = "NONE" <=> lastId < i
      BY <1>0, <1>a DEF IInv, TypeOK, Status
  <2>2. attempts[j] + 1 \in 0 .. MaxAttempts
      BY <1>b, QueueAssumption
  <2>3. attempts' \in [JobId -> 0 .. MaxAttempts]
      BY <1>a, <2>2 DEF IInv, TypeOK
  <2>4. /\ owner' \in [JobId -> Workers \cup {NoWorker}]
        /\ stale' \in [JobId -> BOOLEAN]
      BY <1>a DEF IInv, TypeOK
  <2>5. /\ pc' \in [Workers -> {"idle", "claim", "exec", "down"}]
        /\ snap' \in [Workers -> SUBSET JobId]
      BY <1>a DEF IInv, TypeOK
  <2>6. cur' \in [Workers -> JobId \cup {NoJob}]
    <3>1. cur \in [Workers -> JobId \cup {NoJob}]
        BY DEF IInv, TypeOK
    <3>2. cur' \in {cur, [cur EXCEPT ![w] = j]}
        BY <1>a
    <3> QED BY <1>0, <3>1, <3>2
  <2>9. att' \in [Workers -> 0 .. MaxAttempts]
    <3>1. att \in [Workers -> 0 .. MaxAttempts]
        BY DEF IInv, TypeOK
    <3>2. att' \in {att, [att EXCEPT ![w] = attempts[j] + 1]}
        BY <1>a
    <3> QED BY <2>2, <3>1, <3>2
  <2>7. /\ lastId' \in 0 .. MaxJobs
        /\ kind' \in [JobId -> Kinds \cup {NoKind}]
        /\ \A i \in JobId : (status'[i] = "NONE" <=> lastId' < i)
                         /\ (kind'[i] = NoKind <=> lastId' < i)
      BY <1>a, <2>1 DEF IInv, TypeOK
  <2>8. UNCHANGED <<rpc, rstale, rsup>>
      BY <1>a
  <2> HIDE DEF JobId
  <2> QED BY <2>1, <2>3, <2>4, <2>5, <2>6, <2>7, <2>8, <2>9 DEF IInv, TypeOK
<1>2. OneQueuedPerKind'
    BY <1>0, <1>a DEF IInv, TypeOK, OneQueuedPerKind, Queued
<1>3. OneRunningPerKind'
    BY <1>0, <1>a DEF IInv, TypeOK, OneRunningPerKind, SnapshotHolds, RunningKind, Running
<1>4. AttemptsLeft'
    BY <1>0, <1>a DEF IInv, TypeOK, AttemptsLeft, Queued
<1>5. SnapshotHolds'
    BY <1>0, <1>a DEF IInv, TypeOK, SnapshotHolds, OneQueuedPerKind, RunningKind, Running, Queued
<1>6. ExecutesCurrent'
    BY <1>0, <1>a DEF IInv, TypeOK, ExecutesCurrent, Owned
<1>7. LockedRows'
    BY <1>0, <1>a DEF IInv, TypeOK, LockedRows
<1> QED BY <1>1, <1>2, <1>3, <1>4, <1>5, <1>6, <1>7 DEF IInv

LEMMA ClaimNothingIInv ==
    ASSUME IInv, NEW w \in Workers, ClaimNothing(w)
    PROVE  IInv'
<1>1. TypeOK'
    BY DEF IInv, TypeOK, ClaimNothing, jobVars, reapVars
<1>2. OneQueuedPerKind' /\ OneRunningPerKind' /\ AttemptsLeft'
    BY DEF IInv, ClaimNothing, OneQueuedPerKind, OneRunningPerKind, AttemptsLeft,
           Queued, Running, jobVars
<1>3. SnapshotHolds' /\ ExecutesCurrent' /\ LockedRows'
    BY DEF IInv, TypeOK, ClaimNothing, SnapshotHolds, ExecutesCurrent, LockedRows,
           RunningKind, Running, Owned, jobVars, reapVars
<1> QED BY <1>1, <1>2, <1>3 DEF IInv

LEMMA HeartbeatIInv ==
    ASSUME IInv, NEW w \in Workers, Heartbeat(w)
    PROVE  IInv'
<1>0. cur[w] \in JobId
    BY DEF IInv, ExecutesCurrent, Heartbeat
<1>1. TypeOK'
    BY <1>0 DEF IInv, TypeOK, Heartbeat, workerVars
<1>2. OneQueuedPerKind' /\ OneRunningPerKind' /\ AttemptsLeft'
    BY DEF IInv, Heartbeat, OneQueuedPerKind, OneRunningPerKind, AttemptsLeft, Queued, Running
<1>3. SnapshotHolds' /\ ExecutesCurrent'
    BY DEF IInv, TypeOK, Heartbeat, SnapshotHolds, ExecutesCurrent, RunningKind, Running,
           Owned, workerVars
<1>4. LockedRows'
    BY <1>0 DEF IInv, TypeOK, Heartbeat, LockedRows, Locked
<1> QED BY <1>1, <1>2, <1>3, <1>4 DEF IInv

LEMMA FinishIInv ==
    ASSUME IInv, NEW w \in Workers, NEW ok \in BOOLEAN, Finish(w, ok)
    PROVE  IInv'
<1> DEFINE j == cur[w]
<1>0. j \in JobId /\ j \notin Locked
    BY DEF IInv, ExecutesCurrent, Finish
<1>a. /\ \/ /\ Owned(w, j)
            /\ status' = [status EXCEPT ![j] = IF ok THEN "DONE" ELSE "FAILED"]
         \/ status' = status
      /\ pc' = [pc EXCEPT ![w] = "idle"]
      /\ cur' = [cur EXCEPT ![w] = NoJob]
      /\ att' = [att EXCEPT ![w] = 0]
      /\ UNCHANGED <<lastId, kind, attempts, owner, stale, snap, rpc, rstale, rsup>>
    BY DEF Finish, reapVars
<1> HIDE DEF j
<1>1. TypeOK'
    BY <1>0, <1>a, QueueAssumption DEF IInv, TypeOK, Owned, Status, Terminal
<1>b. /\ Queued' \subseteq Queued
      /\ Running' \subseteq Running
      /\ \A i \in JobId : status'[i] = "NONE" => status[i] = "NONE"
  <2>1. CASE status' = status
      BY <2>1 DEF Queued, Running
  <2>2. CASE status' # status
      BY <1>0, <1>a, <2>2 DEF IInv, TypeOK, Queued, Running
  <2> QED BY <2>1, <2>2
<1>2. OneQueuedPerKind' /\ OneRunningPerKind' /\ AttemptsLeft'
  <2>1. OneQueuedPerKind'
      BY <1>a, <1>b DEF IInv, OneQueuedPerKind
  <2>2. OneRunningPerKind'
      BY <1>a, <1>b DEF IInv, OneRunningPerKind
  <2>3. AttemptsLeft'
      BY <1>a, <1>b DEF IInv, AttemptsLeft
  <2> QED BY <2>1, <2>2, <2>3
<1>3. SnapshotHolds'
    BY <1>0, <1>a DEF IInv, TypeOK, SnapshotHolds, RunningKind, Running
<1>4. ExecutesCurrent'
    BY <1>0, <1>a DEF IInv, TypeOK, ExecutesCurrent, Owned
<1>5. LockedRows'
    BY <1>0, <1>a DEF IInv, TypeOK, LockedRows, Locked
<1> QED BY <1>1, <1>2, <1>3, <1>4, <1>5 DEF IInv

\* Steps that only take a thread away from what it was doing.
LEMMA InterruptIInv ==
    ASSUME IInv, NEW w \in Workers, Abandon(w) \/ Crash(w) \/ Restart(w)
    PROVE  IInv'
<1>a. \/ /\ pc' \in {[pc EXCEPT ![w] = "idle"], [pc EXCEPT ![w] = "down"]}
         /\ snap' = [snap EXCEPT ![w] = {}]
         /\ cur' = [cur EXCEPT ![w] = NoJob]
         /\ att' = [att EXCEPT ![w] = 0]
      \/ /\ pc' = [pc EXCEPT ![w] = "idle"]
         /\ pc[w] = "down"
         /\ UNCHANGED <<snap, cur, att>>
    BY DEF Abandon, Crash, Restart
<1>b. UNCHANGED <<jobVars, reapVars>>
    BY DEF Abandon, Crash, Restart
<1>c. /\ pc' \in [Workers -> {"idle", "claim", "exec", "down"}]
      /\ \A v \in Workers : pc'[v] = "exec" => v # w /\ pc[v] = "exec"
    BY <1>a DEF IInv, TypeOK
<1>d. /\ snap' \in [Workers -> SUBSET JobId]
      /\ \A v \in Workers : snap'[v] \subseteq snap[v]
    BY <1>a DEF IInv, TypeOK
<1>e. /\ cur' \in [Workers -> JobId \cup {NoJob}]
      /\ \A v \in Workers : v # w => cur'[v] = cur[v]
    BY <1>a DEF IInv, TypeOK
<1>f. /\ att' \in [Workers -> 0 .. MaxAttempts]
      /\ \A v \in Workers : v # w => att'[v] = att[v]
    BY <1>a, QueueAssumption DEF IInv, TypeOK
<1>1. TypeOK'
    BY <1>b, <1>c, <1>d, <1>e, <1>f DEF IInv, TypeOK, jobVars, reapVars
<1>2. OneQueuedPerKind' /\ OneRunningPerKind' /\ AttemptsLeft'
    BY DEF IInv, Abandon, Crash, Restart, OneQueuedPerKind, OneRunningPerKind, AttemptsLeft,
           Queued, Running, jobVars
<1>3. SnapshotHolds'
    BY <1>b, <1>d DEF IInv, SnapshotHolds, RunningKind, Running, jobVars
<1>4. ExecutesCurrent'
    BY <1>b, <1>c, <1>e, <1>f DEF IInv, ExecutesCurrent, Owned, jobVars
<1>5. LockedRows'
    BY DEF IInv, Abandon, Crash, Restart, LockedRows, jobVars, reapVars
<1> QED BY <1>1, <1>2, <1>3, <1>4, <1>5 DEF IInv

LEMMA MissBeatsIInv ==
    ASSUME IInv, NEW j \in JobId, MissBeats(j)
    PROVE  IInv'
<1>1. TypeOK'
    BY DEF IInv, TypeOK, MissBeats, workerVars, reapVars
<1>2. OneQueuedPerKind' /\ OneRunningPerKind' /\ AttemptsLeft'
    BY DEF IInv, MissBeats, OneQueuedPerKind, OneRunningPerKind, AttemptsLeft, Queued, Running
<1>3. SnapshotHolds' /\ ExecutesCurrent' /\ LockedRows'
    BY DEF IInv, TypeOK, MissBeats, SnapshotHolds, ExecutesCurrent, LockedRows, RunningKind,
           Running, Owned, workerVars, reapVars
<1> QED BY <1>1, <1>2, <1>3 DEF IInv

LEMMA ReapFirstIInv ==
    ASSUME IInv, NEW r \in Reapers, ReapFirst(r)
    PROVE  IInv'
<1>0. Superseded \subseteq StaleRows /\ StaleRows \subseteq JobId
    BY DEF Superseded, StaleRows, Running
<1>1. TypeOK'
    BY <1>0 DEF IInv, TypeOK, ReapFirst, jobVars, workerVars
<1>2. OneQueuedPerKind' /\ OneRunningPerKind' /\ AttemptsLeft'
    BY DEF IInv, ReapFirst, OneQueuedPerKind, OneRunningPerKind, AttemptsLeft, Queued, Running,
           jobVars
<1>3. SnapshotHolds' /\ ExecutesCurrent'
    BY DEF IInv, TypeOK, ReapFirst, SnapshotHolds, ExecutesCurrent, RunningKind, Running, Owned,
           jobVars, workerVars
<1>4. LockedRows'
    BY <1>0 DEF IInv, TypeOK, ReapFirst, LockedRows, LockedByOther, StaleRows, Running, jobVars
<1> QED BY <1>1, <1>2, <1>3, <1>4 DEF IInv

LEMMA ReapAbortIInv ==
    ASSUME IInv, NEW r \in Reapers, ReapAbort(r)
    PROVE  IInv'
<1>1. TypeOK'
    BY DEF IInv, TypeOK, ReapAbort, jobVars, workerVars
<1>2. OneQueuedPerKind' /\ OneRunningPerKind' /\ AttemptsLeft'
    BY DEF IInv, ReapAbort, OneQueuedPerKind, OneRunningPerKind, AttemptsLeft, Queued, Running,
           jobVars
<1>3. SnapshotHolds' /\ ExecutesCurrent' /\ LockedRows'
    BY DEF IInv, TypeOK, ReapAbort, SnapshotHolds, ExecutesCurrent, LockedRows, RunningKind,
           Running, Owned, jobVars, workerVars
<1> QED BY <1>1, <1>2, <1>3 DEF IInv

LEMMA ReapCommitIInv ==
    ASSUME IInv, NEW r \in Reapers, ReapCommit(r)
    PROVE  IInv'
<1> DEFINE R == Retryable(r)
           F == (rsup[r] \cup Rest(r)) \ R
<1>0. /\ R \subseteq Running /\ F \subseteq Running
      /\ \A j \in R : attempts[j] < MaxAttempts
      /\ \A s \in Reapers \ {r} : rsup[s] \cap (R \cup F) = {}
  <2>1. R \subseteq Rest(r) /\ Rest(r) \subseteq Running /\ rsup[r] \subseteq Running
      BY DEF IInv, TypeOK, LockedRows, Retryable, Rest, Running
  <2>2. \A s \in Reapers \ {r} : rsup[s] \cap Rest(r) = {}
      BY DEF ReapCommit, LockedByOther
  <2>3. \A s \in Reapers \ {r} : rsup[s] \cap rsup[r] = {}
      BY DEF IInv, LockedRows
  <2> QED BY <2>1, <2>2, <2>3 DEF Retryable
<1>a. /\ status' = [j \in JobId |-> IF j \in R THEN "QUEUED"
                                    ELSE IF j \in F THEN "FAILED" ELSE status[j]]
      /\ owner' = [j \in JobId |-> IF j \in R THEN NoWorker ELSE owner[j]]
      /\ rpc' = [rpc EXCEPT ![r] = "idle"]
      /\ rstale' = [rstale EXCEPT ![r] = {}]
      /\ rsup' = [rsup EXCEPT ![r] = {}]
      /\ UNCHANGED <<lastId, kind, attempts, stale, pc, snap, cur, att>>
    BY DEF ReapCommit, workerVars
<1>b. \A j \in R, q \in JobId : kind[q] = kind[j] /\ (status[q] = "QUEUED" \/ q \in R) => q = j
    BY DEF ReapCommit, Collision
<1> HIDE DEF R, F
<1>1. TypeOK'
    BY <1>0, <1>a, QueueAssumption DEF IInv, TypeOK, Status, Terminal, Running
<1>2. OneQueuedPerKind'
    BY <1>0, <1>a, <1>b DEF IInv, TypeOK, OneQueuedPerKind, Queued, Running
<1>3. OneRunningPerKind'
    BY <1>0, <1>a DEF IInv, TypeOK, OneRunningPerKind, Running
<1>4. AttemptsLeft'
    BY <1>0, <1>a DEF IInv, TypeOK, AttemptsLeft, Queued, Running
<1>5. SnapshotHolds'
    BY <1>0, <1>a DEF IInv, TypeOK, SnapshotHolds, OneRunningPerKind, RunningKind, Running
<1>6. ExecutesCurrent'
    BY <1>0, <1>a, QueueAssumption DEF IInv, TypeOK, ExecutesCurrent, Owned, Running
<1>7. LockedRows'
    BY <1>0, <1>a DEF IInv, TypeOK, LockedRows, Running
<1> QED BY <1>1, <1>2, <1>3, <1>4, <1>5, <1>6, <1>7 DEF IInv

LEMMA StutterIInv == ASSUME IInv, UNCHANGED vars PROVE IInv'
<1>1. TypeOK' /\ OneQueuedPerKind' /\ OneRunningPerKind' /\ AttemptsLeft'
    BY DEF IInv, TypeOK, OneQueuedPerKind, OneRunningPerKind, AttemptsLeft, Queued, Running, vars
<1>2. SnapshotHolds' /\ ExecutesCurrent' /\ LockedRows'
    BY DEF IInv, SnapshotHolds, ExecutesCurrent, LockedRows, RunningKind, Running, Owned, vars
<1> QED BY <1>1, <1>2 DEF IInv

-----------------------------------------------------------------------------
(* The invariant and what follows from it. *)

\* The inductive invariant: types, uniqueness per kind, and the four facts
\* about attempts, snapshots, executions and locks that keep them.
THEOREM Invariance == Spec => []IInv
<1>1. Init => IInv
    BY InitIInv
<1>2. IInv /\ [Next]_vars => IInv'
  <2> SUFFICES ASSUME IInv, [Next]_vars PROVE IInv'
      OBVIOUS
  <2>1. CASE \E k \in Kinds : Enqueue(k)
      BY <2>1, EnqueueIInv
  <2>2. CASE \E j \in JobId : Cancel(j) \/ MissBeats(j)
      BY <2>2, CancelIInv, MissBeatsIInv
  <2>3. CASE \E w \in Workers : WorkerNext(w)
    <3> PICK w \in Workers : WorkerNext(w)
        BY <2>3
    <3> QED BY ClaimSnapshotIInv, ClaimTakeIInv, ClaimNothingIInv, HeartbeatIInv, FinishIInv,
               InterruptIInv DEF WorkerNext
  <2>4. CASE \E r \in Reapers : ReaperNext(r)
      BY <2>4, ReapFirstIInv, ReapCommitIInv, ReapAbortIInv DEF ReaperNext
  <2>5. CASE UNCHANGED vars
      BY <2>5, StutterIInv
  <2> QED BY <2>1, <2>2, <2>3, <2>4, <2>5 DEF Next
<1> QED BY <1>1, <1>2, PTL DEF Spec

\* The state keeps its shape, and no job is tried more than max_attempts times.
THEOREM TypeCorrect == Spec => []TypeOK
<1>1. IInv => TypeOK
    BY DEF IInv
<1> QED BY <1>1, Invariance, PTL

\* At most one job of a kind waits.
THEOREM QueuedUnique == Spec => []OneQueuedPerKind
<1>1. IInv => OneQueuedPerKind
    BY DEF IInv
<1> QED BY <1>1, Invariance, PTL

\* At most one job of a kind runs, although claim decides on a snapshot.
THEOREM RunningUnique == Spec => []OneRunningPerKind
<1>1. IInv => OneRunningPerKind
    BY DEF IInv
<1> QED BY <1>1, Invariance, PTL

-----------------------------------------------------------------------------
(* Action properties. *)

\* No step takes a job out of a final state.
THEOREM TerminalStays == Spec => TerminalIsFinal
<1>1. IInv /\ [Next]_vars =>
         [\A j \in JobId : status[j] \in Terminal => status'[j] = status[j]]_vars
  <2> SUFFICES ASSUME IInv, Next, NEW j \in JobId, status[j] \in Terminal
               PROVE  status'[j] = status[j]
      OBVIOUS
  <2> USE DEF Terminal, JobId
  <2>1. CASE \E k \in Kinds : Enqueue(k)
      BY <2>1, QueueAssumption DEF Enqueue, IInv, TypeOK
  <2>2. CASE \E i \in JobId : Cancel(i) \/ MissBeats(i)
      BY <2>2 DEF Cancel, Cancellable, MissBeats, IInv, TypeOK
  <2>3. CASE \E w \in Workers : \E heard \in BOOLEAN : ClaimTake(w, heard)
    <3> PICK w \in Workers, heard \in BOOLEAN : ClaimTake(w, heard)
        BY <2>3
    <3>1. StillWaiting(w) \in SUBSET JobId /\ StillWaiting(w) # {}
        BY DEF ClaimTake, StillWaiting, IInv, TypeOK
    <3>2. status[Oldest(StillWaiting(w))] = "QUEUED"
        BY <3>1, OldestIsMember DEF StillWaiting
    <3>3. status' = [status EXCEPT ![Oldest(StillWaiting(w))] = "RUNNING"]
        BY DEF ClaimTake
    <3> QED BY <3>2, <3>3 DEF IInv, TypeOK
  <2>4. CASE \E w \in Workers : \E ok \in BOOLEAN : Finish(w, ok)
      BY <2>4 DEF Finish, Owned, IInv, TypeOK
  <2>5. CASE \E w \in Workers : ClaimSnapshot(w) \/ ClaimNothing(w) \/ Heartbeat(w)
                                \/ Abandon(w) \/ Crash(w) \/ Restart(w)
      BY <2>5 DEF ClaimSnapshot, ClaimNothing, Heartbeat, Abandon, Crash, Restart, jobVars
  <2>6. CASE \E r \in Reapers : ReapCommit(r)
    <3> PICK r \in Reapers : ReapCommit(r)
        BY <2>6
    <3>1. j \notin rsup[r] /\ j \notin Rest(r) /\ j \notin Retryable(r)
        BY DEF Rest, Retryable, IInv, LockedRows
    <3> QED BY <3>1 DEF ReapCommit
  <2>7. CASE \E r \in Reapers : ReapFirst(r) \/ ReapAbort(r)
      BY <2>7 DEF ReapFirst, ReapAbort, jobVars
  <2> QED BY <2>1, <2>2, <2>3, <2>4, <2>5, <2>6, <2>7 DEF Next, WorkerNext, ReaperNext
<1> QED BY <1>1, Invariance, PTL DEF Spec, TerminalIsFinal

\* A result comes from the execution of the job's current attempt.
THEOREM ResultIsCurrent == Spec => ResultOfCurrentAttempt
<1> DEFINE FromCurrent(j) == \E w \in Workers : /\ pc[w] = "exec" /\ pc'[w] = "idle"
                                                /\ cur[w] = j /\ att[w] = attempts[j]
<1>1. IInv /\ [Next]_vars => [\A j \in Running : status'[j] = "DONE" => FromCurrent(j)]_vars
  <2> SUFFICES ASSUME IInv, Next, NEW j \in JobId, status[j] = "RUNNING", status'[j] = "DONE"
               PROVE  FromCurrent(j)
      BY DEF Running
  <2>1. CASE \E k \in Kinds : Enqueue(k)
      BY <2>1, QueueAssumption DEF Enqueue, IInv, TypeOK, JobId
  <2>2. CASE \E i \in JobId : Cancel(i) \/ MissBeats(i)
      BY <2>2 DEF Cancel, Cancellable, MissBeats, IInv, TypeOK
  <2>3. CASE \E w \in Workers : \E heard \in BOOLEAN : ClaimTake(w, heard)
      BY <2>3 DEF ClaimTake, IInv, TypeOK
  <2>4. CASE \E w \in Workers : \E ok \in BOOLEAN : Finish(w, ok)
    <3> PICK w \in Workers, ok \in BOOLEAN : Finish(w, ok)
        BY <2>4
    <3>1. Owned(w, cur[w]) /\ cur[w] = j
        BY DEF Finish, IInv, TypeOK, ExecutesCurrent
    <3>2. att[w] = attempts[j]
        BY <3>1 DEF Finish, IInv, ExecutesCurrent
    <3> QED BY <3>1, <3>2 DEF Finish, IInv, TypeOK
  <2>5. CASE \E w \in Workers : ClaimSnapshot(w) \/ ClaimNothing(w) \/ Heartbeat(w)
                                \/ Abandon(w) \/ Crash(w) \/ Restart(w)
      BY <2>5 DEF ClaimSnapshot, ClaimNothing, Heartbeat, Abandon, Crash, Restart, jobVars
  <2>6. CASE \E r \in Reapers : ReaperNext(r)
      BY <2>6 DEF ReaperNext, ReapFirst, ReapCommit, ReapAbort, jobVars
  <2> QED BY <2>1, <2>2, <2>3, <2>4, <2>5, <2>6 DEF Next, WorkerNext
<1> QED BY <1>1, Invariance, PTL DEF Spec, ResultOfCurrentAttempt

\* A job whose heartbeats arrive stays with its owner until that one ends it.
THEOREM BeatingStays == Spec => BeatingJobIsKept
<1> DEFINE Kept(j) == status'[j] = "RUNNING" /\ owner'[j] = owner[j] /\ attempts'[j] = attempts[j]
           Ended(j) == \E w \in Workers : /\ pc[w] = "exec" /\ pc'[w] = "idle"
                                          /\ cur[w] = j /\ owner[j] = w
<1>1. IInv /\ [Next]_vars =>
         [\A j \in Running :
            ~stale[j] =>
               \/ status'[j] = "RUNNING" /\ owner'[j] = owner[j] /\ attempts'[j] = attempts[j]
               \/ \E w \in Workers : /\ pc[w] = "exec" /\ pc'[w] = "idle"
                                     /\ cur[w] = j /\ owner[j] = w]_vars
  <2> SUFFICES ASSUME IInv, Next, NEW j \in JobId, status[j] = "RUNNING", ~stale[j]
               PROVE  Kept(j) \/ Ended(j)
      BY DEF Running
  <2>1. CASE \E k \in Kinds : Enqueue(k)
      BY <2>1, QueueAssumption DEF Enqueue, IInv, TypeOK, JobId
  <2>2. CASE \E i \in JobId : Cancel(i) \/ MissBeats(i)
      BY <2>2 DEF Cancel, Cancellable, MissBeats, IInv, TypeOK
  <2>3. CASE \E w \in Workers : \E heard \in BOOLEAN : ClaimTake(w, heard)
    <3> PICK w \in Workers, heard \in BOOLEAN : ClaimTake(w, heard)
        BY <2>3
    <3> DEFINE i == Oldest(StillWaiting(w))
    <3>1. StillWaiting(w) \in SUBSET JobId /\ StillWaiting(w) # {}
        BY DEF ClaimTake, StillWaiting, IInv, TypeOK
    <3>2. status[i] = "QUEUED"
        BY <3>1, OldestIsMember DEF StillWaiting
    <3>3. /\ status' = [status EXCEPT ![i] = "RUNNING"]
          /\ attempts' = [attempts EXCEPT ![i] = attempts[i] + 1]
          /\ owner' = [owner EXCEPT ![i] = w]
        BY DEF ClaimTake
    <3> HIDE DEF i
    <3> QED BY <3>2, <3>3 DEF IInv, TypeOK
  <2>4. CASE \E w \in Workers : \E ok \in BOOLEAN : Finish(w, ok)
    <3> PICK w \in Workers, ok \in BOOLEAN : Finish(w, ok)
        BY <2>4
    <3>1. CASE Owned(w, cur[w]) /\ cur[w] = j
        BY <3>1 DEF Finish, Owned, IInv, TypeOK
    <3>2. CASE ~ (Owned(w, cur[w]) /\ cur[w] = j)
        BY <3>2 DEF Finish, IInv, TypeOK
    <3> QED BY <3>1, <3>2
  <2>5. CASE \E w \in Workers : ClaimSnapshot(w) \/ ClaimNothing(w) \/ Heartbeat(w)
                                \/ Abandon(w) \/ Crash(w) \/ Restart(w)
      BY <2>5 DEF ClaimSnapshot, ClaimNothing, Heartbeat, Abandon, Crash, Restart, jobVars
  <2>6. CASE \E r \in Reapers : ReapCommit(r)
    <3> PICK r \in Reapers : ReapCommit(r)
        BY <2>6
    <3>1. j \notin rsup[r] /\ j \notin Rest(r) /\ j \notin Retryable(r)
        BY DEF Rest, Retryable, IInv, LockedRows
    <3> QED BY <3>1 DEF ReapCommit
  <2>7. CASE \E r \in Reapers : ReapFirst(r) \/ ReapAbort(r)
      BY <2>7 DEF ReapFirst, ReapAbort, jobVars
  <2> QED BY <2>1, <2>2, <2>3, <2>4, <2>5, <2>6, <2>7 DEF Next, WorkerNext, ReaperNext
<1> QED BY <1>1, Invariance, PTL DEF Spec, BeatingJobIsKept

-----------------------------------------------------------------------------
(* The queue implements KindQueue. *)

\* Every step of the queue is a step of KindQueue on the waiting and the
\* active kinds, or leaves both as they are.
LEMMA StepRefines ==
    ASSUME IInv, IInv', [Next]_vars
    PROVE  [Promise!QNext]_(<<WaitingKinds, ActiveKinds>>)
<1> USE DEF WaitingKinds, ActiveKinds, Queued, Running
<1>0. /\ status \in [JobId -> Status] /\ kind \in [JobId -> Kinds \cup {NoKind}]
      /\ \A j \in JobId : status[j] # "NONE" => kind[j] \in Kinds
    BY DEF IInv, TypeOK
<1>1. ASSUME NEW k \in Kinds, Enqueue(k) PROVE Promise!Request(k)
  <2>1. lastId + 1 \in JobId /\ status[lastId + 1] = "NONE"
      BY <1>1, QueueAssumption DEF Enqueue, IInv, TypeOK, JobId
  <2>2. k \notin WaitingKinds
      BY <1>1 DEF Enqueue, Insertable, QueuedKind
  <2>3. WaitingKinds' = WaitingKinds \cup {k} /\ ActiveKinds' = ActiveKinds
      BY <1>0, <1>1, <2>1 DEF Enqueue
  <2> QED BY <2>2, <2>3 DEF Promise!Request
<1>2. ASSUME NEW j \in JobId, Cancel(j) PROVE Promise!Withdraw(kind[j])
  <2>1. WaitingKinds' = WaitingKinds \ {kind[j]} /\ ActiveKinds' = ActiveKinds
      BY <1>0, <1>2 DEF Cancel, Cancellable, IInv, OneQueuedPerKind
  <2> QED BY <1>2, <2>1 DEF Cancel, Cancellable, Promise!Withdraw
<1>3. ASSUME NEW w \in Workers, NEW heard \in BOOLEAN, ClaimTake(w, heard)
      PROVE  Promise!Start(kind[Oldest(StillWaiting(w))])
  <2> DEFINE j == Oldest(StillWaiting(w))
  <2>1. j \in snap[w] /\ j \in JobId /\ status[j] = "QUEUED"
    <3>1. StillWaiting(w) \in SUBSET JobId /\ StillWaiting(w) # {}
        BY <1>3 DEF IInv, TypeOK, ClaimTake, StillWaiting
    <3> QED BY <3>1, OldestIsMember DEF StillWaiting
  <2>2. status' = [status EXCEPT ![j] = "RUNNING"] /\ kind' = kind
      BY <1>3 DEF ClaimTake
  <2> HIDE DEF j
  <2>3. kind[j] \in WaitingKinds \ ActiveKinds
      BY <2>1 DEF IInv, SnapshotHolds, RunningKind
  <2>4. WaitingKinds' = WaitingKinds \ {kind[j]}
      BY <1>0, <2>1, <2>2 DEF IInv, OneQueuedPerKind
  <2>5. ActiveKinds' = ActiveKinds \cup {kind[j]}
      BY <1>0, <2>1, <2>2
  <2> QED BY <2>3, <2>4, <2>5 DEF Promise!Start, j
<1>4. ASSUME NEW w \in Workers, NEW ok \in BOOLEAN, Finish(w, ok)
      PROVE  Promise!Complete(kind[cur[w]]) \/ UNCHANGED <<WaitingKinds, ActiveKinds>>
  <2> DEFINE j == cur[w]
  <2>1. j \in JobId /\ kind' = kind
      BY <1>4 DEF Finish, IInv, ExecutesCurrent
  <2>2. CASE Owned(w, j)
    <3>1. status[j] = "RUNNING" /\ status' = [status EXCEPT ![j] = IF ok THEN "DONE" ELSE "FAILED"]
        BY <1>4, <2>2 DEF Finish, Owned
    <3>2. ActiveKinds' = ActiveKinds \ {kind[j]} /\ WaitingKinds' = WaitingKinds
        BY <1>0, <2>1, <3>1 DEF IInv, OneRunningPerKind
    <3> QED BY <2>1, <3>1, <3>2 DEF Promise!Complete
  <2>3. CASE ~Owned(w, j)
      BY <1>4, <2>1, <2>3 DEF Finish
  <2> QED BY <2>2, <2>3
<1>5. ASSUME NEW r \in Reapers, ReapCommit(r)
      PROVE  \E retry, drop \in SUBSET Kinds : Promise!Recover(retry, drop)
  <2> DEFINE R == Retryable(r)
             F == (rsup[r] \cup Rest(r)) \ R
             retry == {kind[j] : j \in R}
             drop == {kind[j] : j \in F}
  <2>1. R \subseteq Running /\ F \subseteq Running
      BY DEF IInv, TypeOK, LockedRows, Retryable, Rest
  <2>2. /\ status' = [j \in JobId |-> IF j \in R THEN "QUEUED"
                                      ELSE IF j \in F THEN "FAILED" ELSE status[j]]
        /\ kind' = kind
      BY <1>5 DEF ReapCommit
  <2>3. \A j \in R, q \in JobId : kind[q] = kind[j] /\ status[q] = "QUEUED" => q = j
      BY <1>5 DEF ReapCommit, Collision
  <2>4. R \cap F = {}
      OBVIOUS
  <2> HIDE DEF R, F
  <2>5. retry \in SUBSET Kinds /\ drop \in SUBSET Kinds /\ retry \cup drop \subseteq ActiveKinds
      BY <1>0, <2>1
  <2>6. retry \cap WaitingKinds = {}
      BY <2>1, <2>3
  <2>7. retry \cap drop = {}
      BY <2>1, <2>4 DEF IInv, OneRunningPerKind
  <2>8. WaitingKinds' = WaitingKinds \cup retry
      BY <1>0, <2>1, <2>2
  <2>9. ActiveKinds' = ActiveKinds \ (retry \cup drop)
      BY <1>0, <2>1, <2>2 DEF IInv, OneRunningPerKind
  <2> HIDE DEF retry, drop
  <2> QED BY <2>5, <2>6, <2>7, <2>8, <2>9 DEF Promise!Recover
<1>6. ASSUME UNCHANGED <<status, kind>> PROVE UNCHANGED <<WaitingKinds, ActiveKinds>>
    BY <1>6
<1>7. CASE UNCHANGED vars
    BY <1>6, <1>7 DEF vars
<1>8. CASE \E k \in Kinds : Enqueue(k)
    BY <1>1, <1>8 DEF Promise!QNext
<1>9. CASE \E j \in JobId : Cancel(j)
    BY <1>0, <1>2, <1>9 DEF Promise!QNext, Promise!Withdraw, Cancel, Cancellable
<1>10. CASE \E w \in Workers, heard \in BOOLEAN : ClaimTake(w, heard)
  <2> PICK w \in Workers, heard \in BOOLEAN : ClaimTake(w, heard)
      BY <1>10
  <2>1. Promise!Start(kind[Oldest(StillWaiting(w))])
      BY <1>3
  <2>2. kind[Oldest(StillWaiting(w))] \in Kinds
      BY <1>0, <2>1 DEF Promise!Start
  <2> QED BY <2>1, <2>2 DEF Promise!QNext, Promise!Start
<1>11. CASE \E w \in Workers, ok \in BOOLEAN : Finish(w, ok)
  <2> PICK w \in Workers, ok \in BOOLEAN : Finish(w, ok)
      BY <1>11
  <2>1. CASE Promise!Complete(kind[cur[w]])
    <3>1. kind[cur[w]] \in Kinds
        BY <1>0, <2>1 DEF Promise!Complete
    <3> QED BY <2>1, <3>1 DEF Promise!QNext, Promise!Complete
  <2> QED BY <1>4, <2>1
<1>12. CASE \E r \in Reapers : ReapCommit(r)
    BY <1>5, <1>12 DEF Promise!QNext
<1>13. CASE \/ \E j \in JobId : MissBeats(j)
            \/ \E r \in Reapers : ReapFirst(r) \/ ReapAbort(r)
            \/ \E w \in Workers : ClaimSnapshot(w) \/ ClaimNothing(w) \/ Heartbeat(w)
                                  \/ Abandon(w) \/ Crash(w) \/ Restart(w)
  <2>1. UNCHANGED <<status, kind>>
      BY <1>13 DEF MissBeats, ReapFirst, ReapAbort, ClaimSnapshot, ClaimNothing, Heartbeat,
                   Abandon, Crash, Restart, jobVars
  <2> QED BY <1>6, <2>1
<1> QED BY <1>7, <1>8, <1>9, <1>10, <1>11, <1>12, <1>13 DEF Next, WorkerNext, ReaperNext

\* The queue keeps the promise of one waiting and one active job per kind,
\* as the abstract specification states it.
THEOREM Refinement == Spec => ImplementsKindQueue
<1>1. Init => Promise!QInit
    BY DEF Init, Promise!QInit, WaitingKinds, ActiveKinds, Queued, Running
<1>2. IInv /\ IInv' /\ [Next]_vars => [Promise!QNext]_(<<WaitingKinds, ActiveKinds>>)
    BY StepRefines
<1> QED BY <1>1, <1>2, Invariance, PTL
        DEF Spec, ImplementsKindQueue, Promise!QSpec, Promise!qvars

-----------------------------------------------------------------------------
(* The runs *)

\* A thread between two jobs has no run, and the job of one that executes is
\* a row of the table.
RunsAreOfExecutions ==
    \A w \in Workers :
        /\ pc[w] # "exec" => step[w] = "start"
        /\ pc[w] = "exec" => status[cur[w]] # "NONE"

\* A job whose runs are about to be closed is over.
TidiedJobIsOver ==
    \A w \in Workers : tidy[w] # NoJob => status[tidy[w]] \in Terminal

\* Stronger than WaitingJobHasNoOpenRun: a job that is yet to be inserted has
\* no open run either.
UnstartedJobHasNoOpenRun ==
    \A n \in OpenRuns \ late : runJob[n] # NoJob => status[runJob[n]] \notin {"NONE", "QUEUED"}

\* The run an execution has opened is of its kind, and exists.
RunOfKind ==
    \A e \in Executors : mine[e] # NoRun => mine[e] <= lastRun /\ runKind[mine[e]] = KindOf(e)

Unresumed(n) == runKind[n] \notin Resumers

\* Without resume a run belongs to one execution, and is told apart by how far
\* that one has come.
OwnRun ==
    \A e \in Executors : mine[e] # NoRun /\ Unresumed(mine[e]) =>
        /\ runJob[mine[e]] = JobOf(e)
        /\ step[e] = "open" => runStatus[mine[e]] # "DONE"
        /\ step[e] = "ended" => runStatus[mine[e]] # "RUNNING"
        /\ \A f \in Executors : mine[f] = mine[e] => f = e

\* Stronger than DoneJobHasResult: the run is of the kind of the job.
DoneJobHasOwnResult ==
    \A j \in JobId : status[j] = "DONE" /\ kind[j] \notin Resumers =>
        \E n \in RunId : runJob[n] = j /\ runStatus[n] = "DONE" /\ Unresumed(n)

RInv ==
    /\ RunTypeOK
    /\ RunsAreOfExecutions
    /\ TidiedJobIsOver
    /\ UnstartedJobHasNoOpenRun
    /\ RunOfKind
    /\ OwnRun
    /\ DoneJobHasOwnResult
-----------------------------------------------------------------------------
(* The steps of the queue that leave the runs alone *)

QuietStep ==
    /\ UNCHANGED runVars
    /\ \/ \E k \in Kinds : Enqueue(k)
       \/ \E j \in JobId : Cancel(j) \/ MissBeats(j)
       \/ \E w \in Workers : \/ tidy[w] = NoJob /\ ClaimSnapshot(w)
                             \/ \E heard \in BOOLEAN : ClaimTake(w, heard)
                             \/ ClaimNothing(w) \/ Heartbeat(w) \/ Restart(w)
       \/ \E r \in Reapers : ReapFirst(r) \/ ReapAbort(r)
       \/ UNCHANGED vars

\* What such a step can do to a job and to a thread.
JobGoesOn(j) ==
    /\ \/ status'[j] = status[j]
       \/ status[j] = "NONE" /\ status'[j] = "QUEUED"
       \/ status[j] = "QUEUED" /\ status'[j] \in {"RUNNING", "CANCELLED"}
    /\ status[j] # "NONE" => kind'[j] = kind[j]

ThreadGoesOn(w) ==
    /\ pc[w] = "exec" => pc'[w] = "exec" /\ cur'[w] = cur[w]
    /\ pc'[w] = "exec" => pc[w] = "exec" \/ status'[cur'[w]] = "RUNNING"
    /\ pc[w] = "idle" /\ tidy[w] # NoJob => pc'[w] = "idle"

LEMMA QuietFacts ==
    ASSUME IInv, QuietStep
    PROVE  (\A j \in JobId : JobGoesOn(j)) /\ (\A w \in Workers : ThreadGoesOn(w))
<1> USE QueueAssumption DEF IInv, TypeOK, JobGoesOn, ThreadGoesOn
<1>1. ASSUME NEW k \in Kinds, Enqueue(k)
      PROVE  (\A j \in JobId : JobGoesOn(j)) /\ (\A w \in Workers : ThreadGoesOn(w))
  BY <1>1 DEF Enqueue, workerVars, JobId
<1>2. ASSUME NEW i \in JobId, Cancel(i) \/ MissBeats(i)
      PROVE  (\A j \in JobId : JobGoesOn(j)) /\ (\A w \in Workers : ThreadGoesOn(w))
  BY <1>2 DEF Cancel, Cancellable, MissBeats, workerVars
<1>3. ASSUME NEW v \in Workers, tidy[v] = NoJob, ClaimSnapshot(v)
      PROVE  (\A j \in JobId : JobGoesOn(j)) /\ (\A w \in Workers : ThreadGoesOn(w))
  BY <1>3 DEF ClaimSnapshot, jobVars
<1>4. ASSUME NEW v \in Workers, NEW heard \in BOOLEAN, ClaimTake(v, heard)
      PROVE  (\A j \in JobId : JobGoesOn(j)) /\ (\A w \in Workers : ThreadGoesOn(w))
  <2> DEFINE i == Oldest(StillWaiting(v))
  <2>1. i \in JobId /\ status[i] = "QUEUED"
    <3>1. StillWaiting(v) \in SUBSET JobId /\ StillWaiting(v) # {}
      BY <1>4 DEF ClaimTake, StillWaiting
    <3> QED
      BY <3>1, OldestIsMember DEF StillWaiting
  <2>2. status' = [status EXCEPT ![i] = "RUNNING"] /\ kind' = kind /\ pc[v] = "claim"
    BY <1>4 DEF ClaimTake
  <2>3. \/ /\ pc' = [pc EXCEPT ![v] = "exec"]
           /\ cur' = [cur EXCEPT ![v] = i]
        \/ pc' = [pc EXCEPT ![v] = "idle"] /\ cur' = cur
    BY <1>4 DEF ClaimTake
  <2> HIDE DEF i
  <2> QED
    BY <2>1, <2>2, <2>3
<1>5. ASSUME NEW v \in Workers, ClaimNothing(v) \/ Heartbeat(v) \/ Restart(v)
      PROVE  (\A j \in JobId : JobGoesOn(j)) /\ (\A w \in Workers : ThreadGoesOn(w))
  BY <1>5 DEF ClaimNothing, Heartbeat, Restart, jobVars, workerVars
<1>6. ASSUME NEW r \in Reapers, ReapFirst(r) \/ ReapAbort(r)
      PROVE  (\A j \in JobId : JobGoesOn(j)) /\ (\A w \in Workers : ThreadGoesOn(w))
  BY <1>6 DEF ReapFirst, ReapAbort, jobVars, workerVars
<1>7. CASE UNCHANGED vars
  BY <1>7 DEF vars
<1> QED
  BY <1>1, <1>2, <1>3, <1>4, <1>5, <1>6, <1>7 DEF QuietStep

\* A thread with a run executes a job.
LEMMA RunnersExecute ==
    ASSUME RunTypeOK, RunsAreOfExecutions, NEW w \in Workers, mine[w] # NoRun
    PROVE  pc[w] = "exec" /\ status[cur[w]] # "NONE"
  BY DEF RunTypeOK, RunsAreOfExecutions, Executors

LEMMA QuietRInv == ASSUME IInv, IInv', RInv, QuietStep PROVE RInv'
<1> USE RunAssumption DEF RInv
<1>1. /\ \A j \in JobId : JobGoesOn(j)
      /\ \A w \in Workers : ThreadGoesOn(w)
      /\ UNCHANGED <<lastRun, runStatus, runJob, runKind, late, step, mine, tidy>>
  BY QuietFacts DEF QuietStep, runVars
<1>2. RunTypeOK'
  BY <1>1 DEF RunTypeOK, ThreadGoesOn
<1>3. \A w \in Workers : pc[w] = "exec" => cur[w] \in JobId
  BY DEF IInv, ExecutesCurrent
<1>4. RunsAreOfExecutions'
  BY <1>1, <1>3 DEF RunsAreOfExecutions, ThreadGoesOn, JobGoesOn
<1>5. TidiedJobIsOver'
  BY <1>1 DEF TidiedJobIsOver, JobGoesOn, Terminal, RunTypeOK
<1>6. UnstartedJobHasNoOpenRun'
  BY <1>1 DEF UnstartedJobHasNoOpenRun, JobGoesOn, OpenRuns, RunTypeOK
<1>7. \A e \in Executors : mine[e] # NoRun => KindOf(e)' = KindOf(e) /\ JobOf(e)' = JobOf(e)
  <2> SUFFICES ASSUME NEW e \in Executors, mine[e] # NoRun
               PROVE  KindOf(e)' = KindOf(e) /\ JobOf(e)' = JobOf(e)
    OBVIOUS
  <2>1. CASE e \in Workers
    <3>1. pc[e] = "exec" /\ status[cur[e]] # "NONE"
      BY <2>1, RunnersExecute
    <3> QED
      BY <1>1, <1>3, <2>1, <3>1 DEF ThreadGoesOn, JobGoesOn, KindOf, JobOf
  <2> QED
    BY <2>1 DEF KindOf, JobOf
<1>8. RunOfKind'
  BY <1>1, <1>7 DEF RunOfKind
<1>9. OwnRun'
  BY <1>1, <1>7 DEF OwnRun, Unresumed
<1>10. DoneJobHasOwnResult'
  BY <1>1 DEF DoneJobHasOwnResult, JobGoesOn, Unresumed
<1> QED
  BY <1>2, <1>4, <1>5, <1>6, <1>8, <1>9, <1>10

-----------------------------------------------------------------------------
(* The steps of executions: vars is unchanged *)

RunStep(e) == CheckRunning(e) \/ OpenRun(e) \/ ReopenRun(e) \/ \E st \in {"DONE", "FAILED"} : EndRun(e, st)

LEMMA RunStepFacts ==
    ASSUME RInv, NEW e \in Executors, RunStep(e)
    PROVE  /\ UNCHANGED vars /\ tidy' = tidy
           /\ step' \in [Executors -> {"start", "checked", "open", "ended", "refused"}]
           /\ \A f \in Executors \ {e} : mine'[f] = mine[f] /\ step'[f] = step[f]
           /\ Active(e)
  BY DEF RunStep, CheckRunning, OpenRun, ReopenRun, EndRun, RInv, RunTypeOK

\* What follows of every such step.
LEMMA RunStepKeeps ==
    ASSUME IInv, RInv, NEW e \in Executors, RunStep(e)
    PROVE  RunsAreOfExecutions' /\ TidiedJobIsOver'
<1>1. /\ UNCHANGED vars /\ tidy' = tidy
      /\ \A f \in Executors \ {e} : step'[f] = step[f]
      /\ e \in Workers => pc[e] = "exec"
  BY RunStepFacts DEF Active
<1>2. UNCHANGED <<pc, cur, status, tidy>>
  BY <1>1 DEF vars
<1> QED
  BY <1>1, <1>2 DEF RInv, RunsAreOfExecutions, TidiedJobIsOver, Executors

LEMMA JobAndKindStay == ASSUME UNCHANGED vars, NEW e
                        PROVE  JobOf(e)' = JobOf(e) /\ KindOf(e)' = KindOf(e) /\ LostJob(e)' = LostJob(e)
  BY DEF vars, JobOf, KindOf, LostJob, Owned

LEMMA CheckRunningRInv ==
    ASSUME IInv, RInv, NEW e \in Executors, CheckRunning(e) PROVE RInv'
<1>1. RunStep(e)
  BY DEF RunStep
<1>2. /\ UNCHANGED <<vars, lastRun, runStatus, runJob, runKind, late, mine, tidy>>
      /\ step[e] = "start" /\ step' \in [Executors -> {"start", "checked", "open", "ended", "refused"}]
      /\ step'[e] \in {"refused", "checked"}
      /\ \A f \in Executors \ {e} : step'[f] = step[f]
  BY <1>1, RunStepFacts DEF CheckRunning, RInv, RunTypeOK
<1>3. UNCHANGED <<status, pc, kind>>
  BY <1>2 DEF vars
<1>4. mine[e] = NoRun
  BY <1>2 DEF RInv, RunTypeOK
<1>5. RunTypeOK'
  BY <1>2, <1>3, <1>4 DEF RInv, RunTypeOK
<1>6. UnstartedJobHasNoOpenRun' /\ DoneJobHasOwnResult'
  BY <1>2, <1>3 DEF RInv, UnstartedJobHasNoOpenRun, OpenRuns, DoneJobHasOwnResult, Unresumed
<1>7. RunOfKind' /\ OwnRun'
  BY <1>2, <1>4, JobAndKindStay DEF RInv, RunOfKind, OwnRun, Unresumed
<1> QED
  BY <1>1, <1>5, <1>6, <1>7, RunStepKeeps DEF RInv

\* The job of an execution that has not lost it is running.
LEMMA HeldJobRuns ==
    ASSUME IInv, NEW e \in Executors, Active(e), ~LostJob(e), JobOf(e) # NoJob
    PROVE  status[JobOf(e)] = "RUNNING"
  BY DEF Executors, Active, LostJob, JobOf, Owned

LEMMA JobOfType ==
    ASSUME IInv, NEW e \in Executors PROVE JobOf(e) \in JobId \cup {NoJob}
  BY DEF IInv, TypeOK, Executors, JobOf

LEMMA KindOfType ==
    ASSUME IInv, RInv, NEW e \in Executors, Active(e)
    PROVE  KindOf(e) \in Kinds /\ KindOf(e) # NoKind
<1>1. CASE e \in Workers
  <2>1. cur[e] \in JobId /\ status[cur[e]] # "NONE"
    BY <1>1 DEF IInv, ExecutesCurrent, RInv, RunsAreOfExecutions, Active
  <2> QED
    BY <1>1, <2>1, QueueAssumption DEF IInv, TypeOK, KindOf
<1> QED
  BY <1>1, QueueAssumption, RunAssumption DEF KindOf

LEMMA OpenRunRInv ==
    ASSUME IInv, RInv, NEW e \in Executors, OpenRun(e) PROVE RInv'
<1> DEFINE n == lastRun + 1
<1>1. RunStep(e)
  BY DEF RunStep
<1>2. /\ UNCHANGED vars /\ tidy' = tidy /\ Active(e) /\ step[e] = "checked"
      /\ lastRun' = n /\ n \in RunId /\ runStatus[n] = "NONE"
      /\ runStatus' = [runStatus EXCEPT ![n] = "RUNNING"]
      /\ runJob' = [runJob EXCEPT ![n] = JobOf(e)]
      /\ runKind' = [runKind EXCEPT ![n] = KindOf(e)]
      /\ late' = IF LostJob(e) THEN late \cup {n} ELSE late
      /\ mine' = [mine EXCEPT ![e] = n]
      /\ step' = [step EXCEPT ![e] = "open"]
  BY RunAssumption DEF OpenRun, RInv, RunTypeOK, RunId
<1>3. UNCHANGED <<status, pc, kind>>
  BY <1>2 DEF vars
<1>4. \A f \in Executors : mine[f] # n
  BY <1>2, RunAssumption DEF RInv, RunOfKind, RunTypeOK, RunId, NoRun
<1>5. RunTypeOK'
  <2>1. \A m \in RunId : (runStatus'[m] = "NONE" <=> lastRun' < m)
                      /\ (runKind'[m] = NoKind <=> lastRun' < m)
    BY <1>2, KindOfType, RunAssumption DEF RInv, RunTypeOK, RunId
  <2>2. runJob' \in [RunId -> JobId \cup {NoJob}] /\ runKind' \in [RunId -> Kinds \cup {NoKind}]
    BY <1>2, JobOfType, KindOfType DEF RInv, RunTypeOK
  <2>3. lastRun' \in 0 .. MaxRuns /\ n # NoRun
    BY <1>2, RunAssumption DEF RInv, RunTypeOK, RunId, NoRun
  <2>4. /\ \A f \in Executors : mine'[f] # NoRun <=> step'[f] \in {"open", "ended"}
        /\ step' \in [Executors -> {"start", "checked", "open", "ended", "refused"}]
        /\ mine' \in [Executors -> RunId \cup {NoRun}]
    BY <1>2, <2>3 DEF RInv, RunTypeOK
  <2> HIDE DEF n
  <2>5. runStatus' \in [RunId -> {"NONE", "RUNNING", "DONE", "FAILED"}] /\ late' \in SUBSET RunId
    BY <1>2 DEF RInv, RunTypeOK
  <2> QED
    BY <1>2, <1>3, <2>1, <2>2, <2>3, <2>4, <2>5 DEF RInv, RunTypeOK
<1> HIDE DEF n
<1>6. UnstartedJobHasNoOpenRun'
  <2> SUFFICES ASSUME NEW m \in OpenRuns' \ late', runJob'[m] # NoJob
               PROVE  status[runJob'[m]] \notin {"NONE", "QUEUED"}
    BY <1>3 DEF UnstartedJobHasNoOpenRun
  <2>1. CASE m = n
    BY <1>2, <2>1, HeldJobRuns DEF RInv, RunTypeOK
  <2>2. CASE m # n
    BY <1>2, <2>2 DEF RInv, RunTypeOK, UnstartedJobHasNoOpenRun, OpenRuns
  <2> QED
    BY <2>1, <2>2
<1>7. RunOfKind'
  <2>1. n \in Nat /\ lastRun \in Nat /\ n = lastRun + 1
    BY RunAssumption DEF RInv, RunTypeOK, n
  <2> SUFFICES ASSUME NEW f \in Executors, mine'[f] # NoRun
               PROVE  mine'[f] <= lastRun' /\ runKind'[mine'[f]] = KindOf(f)
    BY <1>2, JobAndKindStay DEF RunOfKind
  <2>2. CASE f = e
    BY <1>2, <2>1, <2>2 DEF RInv, RunTypeOK
  <2>3. CASE f # e
    <3>1. mine'[f] = mine[f] /\ mine[f] \in RunId
      BY <1>2, <2>3 DEF RInv, RunTypeOK
    <3> QED
      BY <1>2, <1>4, <2>1, <3>1 DEF RInv, RunOfKind, RunTypeOK, RunId
  <2> QED
    BY <2>2, <2>3
<1>8. OwnRun'
  <2> SUFFICES ASSUME NEW f \in Executors, mine'[f] # NoRun, runKind'[mine'[f]] \notin Resumers
               PROVE  /\ runJob'[mine'[f]] = JobOf(f)
                      /\ step'[f] = "open" => runStatus'[mine'[f]] # "DONE"
                      /\ step'[f] = "ended" => runStatus'[mine'[f]] # "RUNNING"
                      /\ \A g \in Executors : mine'[g] = mine'[f] => g = f
    BY <1>2, JobAndKindStay DEF OwnRun, Unresumed
  <2>1. CASE f = e
    BY <1>2, <1>4, <2>1 DEF RInv, RunTypeOK
  <2>2. CASE f # e
    <3>1. mine'[f] = mine[f] /\ mine[f] \in RunId /\ mine[f] # n /\ step'[f] = step[f]
      BY <1>2, <1>4, <2>2 DEF RInv, RunTypeOK
    <3>2. Unresumed(mine[f])
      BY <1>2, <3>1 DEF Unresumed, RInv, RunTypeOK
    <3> QED
      BY <1>2, <3>1, <3>2 DEF RInv, RunTypeOK, OwnRun
  <2> QED
    BY <2>1, <2>2
<1>9. DoneJobHasOwnResult'
  BY <1>2, <1>3 DEF RInv, RunTypeOK, DoneJobHasOwnResult, Unresumed
<1> QED
  BY <1>1, <1>5, <1>6, <1>7, <1>8, <1>9, RunStepKeeps DEF RInv

LEMMA ReopenRunRInv ==
    ASSUME IInv, RInv, NEW e \in Executors, ReopenRun(e) PROVE RInv'
<1>1. RunStep(e)
  BY DEF RunStep
<1>2. PICK n \in RunId :
        /\ runStatus[n] = "FAILED" /\ runKind[n] = KindOf(e)
        /\ runStatus' = [runStatus EXCEPT ![n] = "RUNNING"]
        /\ runJob' = [runJob EXCEPT ![n] = JobOf(e)]
        /\ late' = IF LostJob(e) THEN late \cup {n} ELSE late \ {n}
        /\ mine' = [mine EXCEPT ![e] = n]
  BY DEF ReopenRun, Resumable
<1>3. /\ UNCHANGED vars /\ tidy' = tidy /\ Active(e) /\ step[e] = "start"
      /\ KindOf(e) \in Resumers
      /\ step' = [step EXCEPT ![e] = "open"]
      /\ UNCHANGED <<lastRun, runKind>>
  BY DEF ReopenRun
<1>4. UNCHANGED <<status, pc, kind>>
  BY <1>3 DEF vars
<1>5. n # NoRun /\ n <= lastRun /\ lastRun \in Nat
  BY <1>2, RunAssumption DEF RInv, RunTypeOK, RunId, NoRun
<1>6. RunTypeOK'
  <2>1. runJob' \in [RunId -> JobId \cup {NoJob}] /\ late' \in SUBSET RunId
    BY <1>2, JobOfType DEF RInv, RunTypeOK
  <2>2. /\ runStatus' \in [RunId -> {"NONE", "RUNNING", "DONE", "FAILED"}]
        /\ \A m \in RunId : runStatus'[m] = "NONE" <=> lastRun < m
    BY <1>2 DEF RInv, RunTypeOK
  <2>3. /\ \A f \in Executors : mine'[f] # NoRun <=> step'[f] \in {"open", "ended"}
        /\ step' \in [Executors -> {"start", "checked", "open", "ended", "refused"}]
        /\ mine' \in [Executors -> RunId \cup {NoRun}]
    BY <1>2, <1>3, <1>5 DEF RInv, RunTypeOK
  <2> QED
    BY <1>3, <1>4, <2>1, <2>2, <2>3 DEF RInv, RunTypeOK
<1>7. UnstartedJobHasNoOpenRun'
  <2> SUFFICES ASSUME NEW m \in OpenRuns' \ late', runJob'[m] # NoJob
               PROVE  status[runJob'[m]] \notin {"NONE", "QUEUED"}
    BY <1>4 DEF UnstartedJobHasNoOpenRun
  <2>1. CASE m = n
    BY <1>2, <1>3, <2>1, HeldJobRuns DEF RInv, RunTypeOK
  <2>2. CASE m # n
    BY <1>2, <2>2 DEF RInv, RunTypeOK, UnstartedJobHasNoOpenRun, OpenRuns
  <2> QED
    BY <2>1, <2>2
<1>8. RunOfKind'
  BY <1>2, <1>3, <1>5, JobAndKindStay DEF RInv, RunTypeOK, RunOfKind
<1>9. OwnRun'
  <2> SUFFICES ASSUME NEW f \in Executors, mine'[f] # NoRun, runKind'[mine'[f]] \notin Resumers
               PROVE  /\ runJob'[mine'[f]] = JobOf(f)
                      /\ step'[f] = "open" => runStatus'[mine'[f]] # "DONE"
                      /\ step'[f] = "ended" => runStatus'[mine'[f]] # "RUNNING"
                      /\ \A g \in Executors : mine'[g] = mine'[f] => g = f
    BY <1>3, JobAndKindStay DEF OwnRun, Unresumed
  <2>1. mine'[f] # n /\ mine'[e] = n /\ f # e
    BY <1>2, <1>3 DEF RInv, RunTypeOK
  <2>2. mine'[f] = mine[f] /\ step'[f] = step[f] /\ mine[f] \in RunId
    BY <1>2, <1>3, <2>1 DEF RInv, RunTypeOK
  <2>3. /\ runJob[mine[f]] = JobOf(f)
        /\ step[f] = "open" => runStatus[mine[f]] # "DONE"
        /\ step[f] = "ended" => runStatus[mine[f]] # "RUNNING"
        /\ \A g \in Executors : mine[g] = mine[f] => g = f
    BY <1>3, <2>2 DEF RInv, OwnRun, Unresumed
  <2> QED
    BY <1>2, <2>1, <2>2, <2>3 DEF RInv, RunTypeOK
<1>10. DoneJobHasOwnResult'
  BY <1>2, <1>3, <1>4 DEF RInv, RunTypeOK, DoneJobHasOwnResult, Unresumed
<1> QED
  BY <1>1, <1>6, <1>7, <1>8, <1>9, <1>10, RunStepKeeps DEF RInv

LEMMA EndRunRInv ==
    ASSUME IInv, RInv, NEW e \in Executors, NEW st \in {"DONE", "FAILED"}, EndRun(e, st)
    PROVE  RInv'
<1>1. RunStep(e)
  BY DEF RunStep
<1>2. /\ UNCHANGED <<vars, lastRun, runJob, runKind, late, mine, tidy>>
      /\ step[e] = "open"
      /\ runStatus' = [runStatus EXCEPT ![mine[e]] = st]
      /\ step' = [step EXCEPT ![e] = "ended"]
  BY DEF EndRun
<1>3. UNCHANGED <<status, pc, kind>>
  BY <1>2 DEF vars
<1>4. mine[e] \in RunId /\ mine[e] # NoRun /\ runStatus[mine[e]] # "NONE"
  BY <1>2, RunAssumption DEF RInv, RunTypeOK, RunOfKind, RunId, NoRun
<1>5. RunTypeOK'
  BY <1>2, <1>3, <1>4 DEF RInv, RunTypeOK
<1>6. UnstartedJobHasNoOpenRun'
  BY <1>2, <1>3, <1>4 DEF RInv, RunTypeOK, UnstartedJobHasNoOpenRun, OpenRuns
<1>7. RunOfKind'
  BY <1>2, JobAndKindStay DEF RInv, RunOfKind
<1>8. OwnRun'
  <2> SUFFICES ASSUME NEW f \in Executors, mine[f] # NoRun, runKind[mine[f]] \notin Resumers
               PROVE  /\ step'[f] = "open" => runStatus'[mine[f]] # "DONE"
                      /\ step'[f] = "ended" => runStatus'[mine[f]] # "RUNNING"
    BY <1>2, JobAndKindStay DEF RInv, OwnRun, Unresumed
  <2>1. CASE f = e
    BY <1>2, <1>4, <2>1 DEF RInv, RunTypeOK
  <2>2. CASE f # e
    BY <1>2, <1>4, <2>2 DEF RInv, RunTypeOK, OwnRun, Unresumed
  <2> QED
    BY <2>1, <2>2
<1>9. DoneJobHasOwnResult'
  <2>1. \A n \in RunId : Unresumed(n) /\ runStatus[n] = "DONE" => n # mine[e]
    BY <1>2, <1>4 DEF RInv, OwnRun
  <2> QED
    BY <1>2, <1>3, <1>4, <2>1 DEF RInv, RunTypeOK, DoneJobHasOwnResult, Unresumed
<1> QED
  BY <1>1, <1>5, <1>6, <1>7, <1>8, <1>9, RunStepKeeps DEF RInv

-----------------------------------------------------------------------------
(* The clean-up after a failure, and the end of a command *)

\* Closing the runs of finished jobs, or of none.
LEMMA ClosedKeeps ==
    ASSUME IInv, RInv, NEW jobs \in SUBSET JobId,
           runStatus' = Closed(jobs), UNCHANGED <<vars, lastRun, runJob, runKind, late, step, mine>>,
           tidy' \in [Workers -> JobId \cup {NoJob}],
           \A w \in Workers : tidy'[w] \in {tidy[w], NoJob}
    PROVE  RInv'
<1>1. UNCHANGED <<status, pc, cur, kind>>
  BY DEF vars
<1>2. \A n \in RunId : /\ runStatus'[n] # runStatus[n] => runStatus[n] = "RUNNING"
                        /\ runStatus'[n] \in {runStatus[n], "FAILED"}
  BY DEF Closed, OpenRuns
<1>3. runStatus' \in [RunId -> {"NONE", "RUNNING", "DONE", "FAILED"}]
  BY DEF Closed, RInv, RunTypeOK
<1>4. RunTypeOK'
  BY <1>1, <1>2, <1>3 DEF RInv, RunTypeOK
<1>5. RunsAreOfExecutions' /\ TidiedJobIsOver'
  BY <1>1 DEF RInv, RunsAreOfExecutions, TidiedJobIsOver
<1>6. UnstartedJobHasNoOpenRun'
  BY <1>1, <1>2 DEF RInv, UnstartedJobHasNoOpenRun, OpenRuns
<1>7. RunOfKind'
  BY <1>1, JobAndKindStay DEF RInv, RunOfKind
<1>8. OwnRun'
  <2>1. \A f \in Executors : mine[f] # NoRun => mine[f] \in RunId
    BY DEF RInv, RunTypeOK
  <2> QED
    BY <1>1, <1>2, <2>1, JobAndKindStay DEF RInv, OwnRun, Unresumed
<1>9. DoneJobHasOwnResult'
  BY <1>1, <1>2 DEF RInv, DoneJobHasOwnResult, Unresumed
<1> QED
  BY <1>4, <1>5, <1>6, <1>7, <1>8, <1>9 DEF RInv

LEMMA TidyRInv ==
    ASSUME IInv, RInv, NEW w \in Workers, CloseRuns(w) \/ CloseRunsFails(w) PROVE RInv'
<1>1. /\ UNCHANGED <<vars, lastRun, runJob, runKind, late, step, mine>>
      /\ tidy' \in [Workers -> JobId \cup {NoJob}]
      /\ \A v \in Workers : tidy'[v] \in {tidy[v], NoJob}
  BY DEF CloseRuns, CloseRunsFails, RInv, RunTypeOK
<1>2. CASE CloseRuns(w)
  <2>1. {tidy[w]} \in SUBSET JobId /\ runStatus' = Closed({tidy[w]})
    BY <1>2 DEF CloseRuns, RInv, RunTypeOK
  <2> QED
    BY <1>1, <2>1, ClosedKeeps
<1>3. CASE CloseRunsFails(w)
  <2>1. runStatus' = Closed({})
    BY <1>3 DEF CloseRunsFails, Closed, RInv, RunTypeOK
  <2> QED
    BY <1>1, <2>1, ClosedKeeps
<1> QED
  BY <1>2, <1>3

\* An executor forgets its run, and lets go of its job if it has one; nothing
\* else about executions and runs changes.
LetsGo(e) ==
    /\ Forget(e)
    /\ UNCHANGED <<kind, lastRun, runStatus, runJob, runKind, late>>
    /\ pc' \in [Workers -> {"idle", "claim", "exec", "down"}]
    /\ e \in Workers => pc'[e] # "exec"
    /\ \A w \in Workers \ {e} : pc'[w] = pc[w] /\ cur'[w] = cur[w]

LEMMA LetsGoFacts ==
    ASSUME RInv, NEW e \in Executors, LetsGo(e)
    PROVE  /\ step' \in [Executors -> {"start", "checked", "open", "ended", "refused"}]
           /\ mine' \in [Executors -> RunId \cup {NoRun}]
           /\ step'[e] = "start" /\ mine'[e] = NoRun
           /\ \A f \in Executors \ {e} : mine'[f] = mine[f] /\ step'[f] = step[f]
  BY DEF LetsGo, Forget, RInv, RunTypeOK

LEMMA LetsGoKeeps ==
    ASSUME IInv, RInv, NEW e \in Executors, LetsGo(e)
    PROVE  RunOfKind' /\ OwnRun'
<1>1. \A f \in Executors \ {e} : KindOf(f)' = KindOf(f) /\ JobOf(f)' = JobOf(f)
  BY DEF LetsGo, KindOf, JobOf, Executors
<1>2. UNCHANGED <<lastRun, runStatus, runJob, runKind>>
  BY DEF LetsGo
<1> QED
  BY <1>1, <1>2, LetsGoFacts DEF RInv, RunOfKind, OwnRun, Unresumed

LEMMA LetsGoRuns ==
    ASSUME IInv, RInv, NEW e \in Executors, LetsGo(e),
           tidy' \in [Workers -> JobId \cup {NoJob}],
           \A w \in Workers : tidy'[w] # NoJob => pc'[w] = "idle"
    PROVE  RunTypeOK'
<1>1. /\ UNCHANGED <<lastRun, runStatus, runJob, runKind, late>>
      /\ \A f \in Executors : mine'[f] # NoRun <=> step'[f] \in {"open", "ended"}
  BY LetsGoFacts DEF LetsGo, RInv, RunTypeOK
<1> QED
  BY <1>1, LetsGoFacts DEF RInv, RunTypeOK

LEMMA CliExitRInv == ASSUME IInv, RInv, NEW c \in Clis, CliExit(c) PROVE RInv'
<1>1. c \in Executors /\ c \notin Workers
  BY RunAssumption DEF Executors
<1>2. UNCHANGED <<status, pc, cur, kind, lastRun, runStatus, runJob, runKind, late, tidy>>
  BY DEF CliExit, vars
<1>3. LetsGo(c)
  BY <1>1, <1>2 DEF CliExit, LetsGo, IInv, TypeOK
<1>4. RunTypeOK'
  BY <1>1, <1>2, <1>3, LetsGoRuns DEF RInv, RunTypeOK
<1>5. RunsAreOfExecutions'
  BY <1>1, <1>2, <1>3, LetsGoFacts DEF RInv, RunsAreOfExecutions, Executors
<1>6. TidiedJobIsOver' /\ UnstartedJobHasNoOpenRun' /\ DoneJobHasOwnResult'
  BY <1>2 DEF RInv, TidiedJobIsOver, UnstartedJobHasNoOpenRun, OpenRuns,
              DoneJobHasOwnResult, Unresumed
<1> QED
  BY <1>1, <1>3, <1>4, <1>5, <1>6, LetsGoKeeps DEF RInv

\* The executor was interrupted: its job stays as it is.
LEMMA LoseRInv ==
    ASSUME IInv, RInv, NEW w \in Workers, RAbandon(w) \/ RCrash(w) PROVE RInv'
<1>1. w \in Executors
  BY DEF Executors
<1>2. /\ UNCHANGED <<status, kind, lastRun, runStatus, runJob, runKind, late>>
      /\ Forget(w) /\ tidy' = [tidy EXCEPT ![w] = NoJob]
  BY DEF RAbandon, RCrash, Abandon, Crash, Lose, jobVars
<1>3. /\ pc' \in [Workers -> {"idle", "claim", "exec", "down"}] /\ pc'[w] # "exec"
      /\ \A v \in Workers \ {w} : pc'[v] = pc[v] /\ cur'[v] = cur[v]
  BY DEF RAbandon, RCrash, Abandon, Crash, IInv, TypeOK
<1>4. LetsGo(w)
  BY <1>2, <1>3 DEF LetsGo
<1>5. RunTypeOK'
  BY <1>1, <1>2, <1>3, <1>4, LetsGoRuns DEF RInv, RunTypeOK
<1>6. RunsAreOfExecutions'
  BY <1>1, <1>2, <1>3, <1>4, LetsGoFacts DEF RInv, RunsAreOfExecutions, Executors
<1>7. TidiedJobIsOver' /\ UnstartedJobHasNoOpenRun' /\ DoneJobHasOwnResult'
  BY <1>2 DEF RInv, RunTypeOK, TidiedJobIsOver, UnstartedJobHasNoOpenRun, OpenRuns,
              DoneJobHasOwnResult, Unresumed
<1> QED
  BY <1>1, <1>4, <1>5, <1>6, <1>7, LetsGoKeeps DEF RInv

LEMMA FinishDoneRInv == ASSUME IInv, RInv, NEW w \in Workers, FinishDone(w) PROVE RInv'
<1>1. Finish(w, TRUE) /\ w \in Executors
  BY DEF FinishDone, Executors
<1>f. /\ pc[w] = "exec" /\ pc'[w] = "idle" /\ cur[w] \in JobId /\ kind' = kind
      /\ pc' \in [Workers -> {"idle", "claim", "exec", "down"}]
      /\ \A v \in Workers \ {w} : pc'[v] = pc[v] /\ cur'[v] = cur[v]
      /\ \A j \in JobId : status'[j] # status[j] => j = cur[w] /\ status[j] = "RUNNING" /\ status'[j] = "DONE"
      /\ Owned(w, cur[w]) => status'[cur[w]] = "DONE"
  BY <1>1 DEF Finish, IInv, TypeOK, ExecutesCurrent, Owned
<1>2. /\ Forget(w) /\ UNCHANGED <<lastRun, runStatus, runJob, runKind, late, tidy>>
      /\ step[w] = "ended" /\ runStatus[mine[w]] # "FAILED"
  BY DEF FinishDone, Succeeded
<1>3. LetsGo(w)
  BY <1>1, <1>2, <1>f DEF LetsGo
<1>g. /\ step'[w] = "start" /\ mine'[w] = NoRun
      /\ \A v \in Executors \ {w} : mine'[v] = mine[v] /\ step'[v] = step[v]
  BY <1>1, <1>3, LetsGoFacts
<1>4. tidy[w] = NoJob
  BY <1>1, <1>f DEF RInv, RunTypeOK
<1>5. RunTypeOK'
  BY <1>1, <1>2, <1>3, <1>4, <1>f, LetsGoRuns DEF RInv, RunTypeOK
<1>6. RunsAreOfExecutions'
  <2>1. \A v \in Workers : pc[v] = "exec" => cur[v] \in JobId
    BY DEF IInv, ExecutesCurrent
  <2> QED
    BY <1>1, <1>g, <2>1, <1>f DEF RInv, RunsAreOfExecutions, Executors
<1>7. TidiedJobIsOver'
  BY <1>1, <1>2, <1>f DEF RInv, RunTypeOK, TidiedJobIsOver, Terminal
<1>8. UnstartedJobHasNoOpenRun'
  BY <1>1, <1>2, <1>f DEF RInv, RunTypeOK, UnstartedJobHasNoOpenRun, OpenRuns
<1>9. DoneJobHasOwnResult'
  <2> SUFFICES ASSUME NEW j \in JobId, status'[j] = "DONE", kind[j] \notin Resumers
               PROVE  \E n \in RunId : runJob[n] = j /\ runStatus[n] = "DONE" /\ Unresumed(n)
    BY <1>1, <1>2, <1>f DEF DoneJobHasOwnResult, Unresumed
  <2>1. CASE status[j] = "DONE"
    BY <2>1 DEF RInv, DoneJobHasOwnResult
  <2>2. CASE status[j] # "DONE"
    <3>1. j = cur[w]
      BY <1>1, <2>2, <1>f
    <3>2. mine[w] \in RunId /\ mine[w] # NoRun
      BY <1>1, <1>2 DEF RInv, RunTypeOK
    <3>3. Unresumed(mine[w])
      BY <1>1, <3>1, <3>2 DEF RInv, RunOfKind, KindOf, Unresumed
    <3>4. runJob[mine[w]] = j /\ runStatus[mine[w]] # "RUNNING"
      BY <1>1, <1>2, <3>1, <3>2, <3>3 DEF RInv, OwnRun, JobOf
    <3>5. runStatus[mine[w]] # "NONE"
      BY <1>1, <3>2, RunAssumption DEF RInv, RunTypeOK, RunOfKind, RunId
    <3> QED
      BY <1>2, <3>2, <3>3, <3>4, <3>5 DEF RInv, RunTypeOK
  <2> QED
    BY <2>1, <2>2
<1> QED
  BY <1>1, <1>3, <1>5, <1>6, <1>7, <1>8, <1>9, LetsGoKeeps DEF RInv

LEMMA FinishFailedRInv == ASSUME IInv, RInv, NEW w \in Workers, FinishFailed(w) PROVE RInv'
<1>1. Finish(w, FALSE) /\ w \in Executors
  BY DEF FinishFailed, Executors
<1>f. /\ pc[w] = "exec" /\ pc'[w] = "idle" /\ cur[w] \in JobId /\ kind' = kind
      /\ pc' \in [Workers -> {"idle", "claim", "exec", "down"}]
      /\ \A v \in Workers \ {w} : pc'[v] = pc[v] /\ cur'[v] = cur[v]
      /\ \A j \in JobId : status'[j] # status[j] => j = cur[w] /\ status[j] = "RUNNING" /\ status'[j] = "FAILED"
      /\ Owned(w, cur[w]) => status'[cur[w]] = "FAILED"
  BY <1>1 DEF Finish, IInv, TypeOK, ExecutesCurrent, Owned
<1>2. /\ Forget(w) /\ UNCHANGED <<lastRun, runStatus, runJob, runKind, late>>
      /\ tidy' = [tidy EXCEPT ![w] = TidyIfOwned(w)]
  BY DEF FinishFailed
<1>3. LetsGo(w)
  BY <1>1, <1>2, <1>f DEF LetsGo
<1>g. /\ step'[w] = "start" /\ mine'[w] = NoRun
      /\ \A v \in Executors \ {w} : mine'[v] = mine[v] /\ step'[v] = step[v]
  BY <1>1, <1>3, LetsGoFacts
<1>4. TidyIfOwned(w) \in JobId \cup {NoJob}
  BY <1>1, <1>f DEF TidyIfOwned
<1>5. RunTypeOK'
  BY <1>1, <1>2, <1>3, <1>4, <1>f, LetsGoRuns DEF RInv, RunTypeOK
<1>6. RunsAreOfExecutions'
  <2>1. \A v \in Workers : pc[v] = "exec" => cur[v] \in JobId
    BY DEF IInv, ExecutesCurrent
  <2> QED
    BY <1>1, <1>g, <2>1, <1>f DEF RInv, RunsAreOfExecutions, Executors
<1>7. TidiedJobIsOver'
  <2> SUFFICES ASSUME NEW v \in Workers, tidy'[v] # NoJob
               PROVE  status'[tidy'[v]] \in Terminal
    BY DEF TidiedJobIsOver
  <2>1. CASE v = w
    BY <1>1, <1>2, <2>1, <1>f DEF RInv, RunTypeOK, TidyIfOwned, Terminal
  <2>2. CASE v # w
    BY <1>1, <1>2, <2>2, <1>f DEF RInv, RunTypeOK, TidiedJobIsOver, Terminal
  <2> QED
    BY <2>1, <2>2
<1>8. UnstartedJobHasNoOpenRun'
  BY <1>1, <1>2, <1>f DEF RInv, RunTypeOK, UnstartedJobHasNoOpenRun, OpenRuns
<1>9. DoneJobHasOwnResult'
  BY <1>1, <1>2, <1>f DEF RInv, DoneJobHasOwnResult, Unresumed
<1> QED
  BY <1>1, <1>3, <1>5, <1>6, <1>7, <1>8, <1>9, LetsGoKeeps DEF RInv

\* Reap closes the runs of every job it sends back to wait.
LEMMA ReapCommitRInv == ASSUME IInv, RInv, NEW r \in Reapers, RReapCommit(r) PROVE RInv'
<1>1. UNCHANGED <<pc, cur, kind, lastRun, runJob, runKind, late, step, mine, tidy>>
  BY DEF RReapCommit, ReapCommit, workerVars
<1>2. \A j \in JobId : status'[j] # status[j] => j \in Reaped(r) /\ status'[j] \in {"QUEUED", "FAILED"}
  BY DEF RReapCommit, ReapCommit, Reaped, Retryable
<1>3. \A j \in JobId : j \in Reaped(r) => status[j] = "RUNNING"
  BY DEF Reaped, Rest, IInv, LockedRows
<1>4. \A n \in RunId : /\ runStatus'[n] # runStatus[n] => runStatus[n] = "RUNNING"
                        /\ runStatus'[n] \in {runStatus[n], "FAILED"}
  BY DEF RReapCommit, Closed, OpenRuns
<1>c. \A n \in RunId : runJob[n] \in Reaped(r) => runStatus'[n] # "RUNNING"
  BY DEF RReapCommit, Closed, OpenRuns
<1>5. RunTypeOK'
  <2>1. runStatus' \in [RunId -> {"NONE", "RUNNING", "DONE", "FAILED"}]
    BY DEF RReapCommit, Closed, RInv, RunTypeOK
  <2> QED
    BY <1>1, <1>4, <2>1 DEF RInv, RunTypeOK
<1>6. RunsAreOfExecutions'
  <2>1. \A v \in Workers : pc[v] = "exec" => cur[v] \in JobId
    BY DEF IInv, ExecutesCurrent
  <2> QED
    BY <1>1, <1>2, <2>1 DEF RInv, RunsAreOfExecutions
<1>7. TidiedJobIsOver'
  BY <1>1, <1>2, <1>3 DEF RInv, RunTypeOK, TidiedJobIsOver, Terminal
<1>8. UnstartedJobHasNoOpenRun'
  BY <1>1, <1>2, <1>3, <1>4, <1>c DEF RInv, RunTypeOK, UnstartedJobHasNoOpenRun, OpenRuns
<1>9. \A e \in Executors : KindOf(e)' = KindOf(e) /\ JobOf(e)' = JobOf(e)
  BY <1>1 DEF KindOf, JobOf
<1>10. RunOfKind'
  BY <1>1, <1>9 DEF RInv, RunOfKind
<1>11. OwnRun'
  <2>1. \A f \in Executors : mine[f] # NoRun => mine[f] \in RunId
    BY DEF RInv, RunTypeOK
  <2> QED
    BY <1>1, <1>4, <1>9, <2>1 DEF RInv, OwnRun, Unresumed
<1>12. DoneJobHasOwnResult'
  BY <1>1, <1>2, <1>4 DEF RInv, DoneJobHasOwnResult, Unresumed
<1> QED
  BY <1>5, <1>6, <1>7, <1>8, <1>10, <1>11, <1>12 DEF RInv

-----------------------------------------------------------------------------
\* Every step of JobRuns is a step of the queue or leaves the queue alone.
LEMMA StepOfQueue == ASSUME RNext PROVE [Next]_vars
<1>1. ASSUME NEW w \in Workers, RWorkerNext(w) PROVE [Next]_vars
  <2>1. CASE RClaimSnapshot(w) \/ ClaimNothing(w) \/ Heartbeat(w) \/ Restart(w)
    BY <2>1 DEF RClaimSnapshot, Next, WorkerNext
  <2>2. ASSUME NEW heard \in BOOLEAN, ClaimTake(w, heard) PROVE [Next]_vars
    BY <2>2 DEF Next, WorkerNext
  <2>3. CASE FinishDone(w) \/ FinishFailed(w)
    BY <2>3 DEF FinishDone, FinishFailed, Next, WorkerNext
  <2>4. CASE RAbandon(w) \/ RCrash(w)
    BY <2>4 DEF RAbandon, RCrash, Next, WorkerNext
  <2>5. CASE CloseRuns(w) \/ CloseRunsFails(w)
    BY <2>5 DEF CloseRuns, CloseRunsFails
  <2> QED
    BY <1>1, <2>1, <2>2, <2>3, <2>4, <2>5 DEF RWorkerNext
<1>2. ASSUME NEW e \in Executors, RExecutorNext(e) PROVE [Next]_vars
  BY <1>2 DEF RExecutorNext, CheckRunning, OpenRun, ReopenRun, EndRun
<1>3. ASSUME NEW c \in Clis, CliExit(c) PROVE [Next]_vars
  BY <1>3 DEF CliExit
<1>4. ASSUME NEW r \in Reapers, ReapFirst(r) \/ ReapAbort(r) \/ RReapCommit(r) PROVE [Next]_vars
  BY <1>4 DEF RReapCommit, Next, ReaperNext
<1>5. ASSUME NEW k \in Kinds, Enqueue(k) PROVE [Next]_vars
  BY <1>5 DEF Next
<1>6. ASSUME NEW j \in JobId, Cancel(j) \/ MissBeats(j) PROVE [Next]_vars
  BY <1>6 DEF Next
<1> QED
  BY <1>1, <1>2, <1>3, <1>4, <1>5, <1>6 DEF RNext

\* The run records, and the commands that pass by the queue, never make the
\* queue do what it could not do alone (queue.py, with runs.py beside it).
THEOREM RunsLeaveQueueAlone == RSpec => QueueUnchanged
<1>1. RInit => Init
  BY DEF RInit
<1>2. [RNext]_allVars => [Next]_vars
  BY StepOfQueue DEF allVars
<1> QED
  BY <1>1, <1>2, PTL DEF RSpec, QueueUnchanged, Spec

LEMMA InitRInv == ASSUME RInit PROVE RInv
<1> USE RunAssumption DEF RInit
<1>1. RunTypeOK
  BY DEF RunTypeOK, RunId, NoRun
<1>2. RunsAreOfExecutions /\ DoneJobHasOwnResult
  BY DEF Init, RunsAreOfExecutions, DoneJobHasOwnResult, Executors
<1>3. TidiedJobIsOver /\ UnstartedJobHasNoOpenRun /\ RunOfKind /\ OwnRun
  BY DEF TidiedJobIsOver, UnstartedJobHasNoOpenRun, RunOfKind, OwnRun, OpenRuns
<1> QED
  BY <1>1, <1>2, <1>3 DEF RInv

LEMMA NextRInv == ASSUME IInv, IInv', RInv, [RNext]_allVars PROVE RInv'
<1>1. ASSUME NEW w \in Workers, RWorkerNext(w) PROVE RInv'
  <2>1. CASE \/ RClaimSnapshot(w)
             \/ \E heard \in BOOLEAN : ClaimTake(w, heard) /\ UNCHANGED runVars
             \/ (ClaimNothing(w) \/ Heartbeat(w) \/ Restart(w)) /\ UNCHANGED runVars
    <3>1. QuietStep
      BY <2>1 DEF QuietStep, RClaimSnapshot
    <3> QED
      BY <3>1, QuietRInv
  <2>2. CASE FinishDone(w)
    BY <2>2, FinishDoneRInv
  <2>3. CASE FinishFailed(w)
    BY <2>3, FinishFailedRInv
  <2>4. CASE CloseRuns(w) \/ CloseRunsFails(w)
    BY <2>4, TidyRInv
  <2>5. CASE RAbandon(w) \/ RCrash(w)
    BY <2>5, LoseRInv
  <2> QED
    BY <1>1, <2>1, <2>2, <2>3, <2>4, <2>5 DEF RWorkerNext
<1>2. ASSUME NEW e \in Executors, RExecutorNext(e) PROVE RInv'
  <2>1. CASE CheckRunning(e)
    BY <2>1, CheckRunningRInv
  <2>2. CASE OpenRun(e)
    BY <2>2, OpenRunRInv
  <2>3. CASE ReopenRun(e)
    BY <2>3, ReopenRunRInv
  <2>4. ASSUME NEW st \in {"DONE", "FAILED"}, EndRun(e, st) PROVE RInv'
    BY <2>4, EndRunRInv
  <2> QED
    BY <1>2, <2>1, <2>2, <2>3, <2>4 DEF RExecutorNext
<1>3. ASSUME NEW c \in Clis, CliExit(c) PROVE RInv'
  BY <1>3, CliExitRInv
<1>4. ASSUME NEW r \in Reapers, RReapCommit(r) PROVE RInv'
  BY <1>4, ReapCommitRInv
<1>5. CASE \/ \E k \in Kinds : Enqueue(k) /\ UNCHANGED runVars
           \/ \E j \in JobId : (Cancel(j) \/ MissBeats(j)) /\ UNCHANGED runVars
           \/ \E r \in Reapers : (ReapFirst(r) \/ ReapAbort(r)) /\ UNCHANGED runVars
           \/ UNCHANGED allVars
  <2>1. QuietStep
    BY <1>5 DEF QuietStep, allVars
  <2> QED
    BY <2>1, QuietRInv
<1> QED
  BY <1>1, <1>2, <1>3, <1>4, <1>5 DEF RNext

\* The inductive invariant, on top of that of the queue.
THEOREM RunInvariance == RSpec => [](IInv /\ RInv)
<1>1. RInit => RInv
  BY InitRInv
<1>2. IInv /\ IInv' /\ RInv /\ [RNext]_allVars => RInv'
  BY NextRInv
<1>3. RSpec => []IInv
  BY RunsLeaveQueueAlone, Invariance, PTL DEF QueueUnchanged
<1> QED
  BY <1>1, <1>2, <1>3, PTL DEF RSpec

\* The shape of the run records, for any number of jobs, runs and workers.
THEOREM RunTypes == RSpec => []RunTypeOK
<1>1. RInv => RunTypeOK
  BY DEF RInv
<1> QED
  BY <1>1, RunInvariance, PTL

\* R1: reap leaves no run open that would refuse the job it sends back
\* (queue.py:152-180).
THEOREM RetryIsNotRefused == RSpec => []WaitingJobHasNoOpenRun
<1>1. RInv => WaitingJobHasNoOpenRun
  BY DEF RInv, UnstartedJobHasNoOpenRun, WaitingJobHasNoOpenRun
<1> QED
  BY <1>1, RunInvariance, PTL

\* R6: no job of a kind without resume is DONE without a run that is
\* (worker.py:56-58).
THEOREM DoneHasResult == RSpec => []DoneJobHasResult
<1>1. RInv => DoneJobHasResult
  BY DEF RInv, DoneJobHasOwnResult, DoneJobHasResult
<1> QED
  BY <1>1, RunInvariance, PTL

\* No reap and no clean-up of another execution ends the run of one that holds
\* its job and beats (worker.py:77-81).
THEOREM RunIsItsOwn == RSpec => RunEndedByItsExecution
<1> DEFINE Ended(w) ==
      (/\ pc[w] = "exec" /\ step[w] = "open" /\ Owned(w, cur[w])
       /\ ~stale[cur[w]] /\ runJob[mine[w]] = cur[w]
       /\ runStatus[mine[w]] = "RUNNING" /\ runStatus'[mine[w]] # "RUNNING")
      => \E e \in Executors : Active(e) /\ mine[e] = mine[w] /\ step'[e] # step[e]
<1>1. ASSUME IInv, RInv, [RNext]_allVars, NEW w \in Workers PROVE Ended(w)
  <2> SUFFICES ASSUME pc[w] = "exec", step[w] = "open", Owned(w, cur[w]),
                      ~stale[cur[w]], runJob[mine[w]] = cur[w],
                      runStatus[mine[w]] = "RUNNING", runStatus'[mine[w]] # "RUNNING"
               PROVE  \E e \in Executors : Active(e) /\ mine[e] = mine[w] /\ step'[e] # step[e]
    OBVIOUS
  <2>1. mine[w] \in RunId /\ cur[w] \in JobId /\ status[cur[w]] = "RUNNING"
    <3>1. w \in Executors
      BY DEF Executors
    <3>2. mine[w] \in RunId
      BY <1>1, <3>1 DEF RInv, RunTypeOK
    <3> QED
      BY <1>1, <3>2 DEF IInv, ExecutesCurrent, Owned
  <2>2. ASSUME NEW e \in Executors, RExecutorNext(e)
        PROVE  Active(e) /\ mine[e] = mine[w] /\ step'[e] # step[e]
    <3>1. CASE CheckRunning(e)
      BY <3>1 DEF CheckRunning
    <3>2. CASE OpenRun(e)
      BY <1>1, <2>1, <3>2 DEF OpenRun, RInv, RunTypeOK
    <3>3. CASE ReopenRun(e)
      BY <1>1, <2>1, <3>3 DEF ReopenRun, RInv, RunTypeOK
    <3>4. ASSUME NEW st \in {"DONE", "FAILED"}, EndRun(e, st)
          PROVE  Active(e) /\ mine[e] = mine[w] /\ step'[e] # step[e]
      <4>1. mine[e] \in RunId /\ runStatus' = [runStatus EXCEPT ![mine[e]] = st]
        BY <1>1, <2>1, <3>4 DEF EndRun, RInv, RunTypeOK
      <4>2. mine[e] = mine[w]
        BY <2>1, <4>1
      <4>3. step[e] = "open" /\ step' = [step EXCEPT ![e] = "ended"] /\ Active(e)
        BY <3>4 DEF EndRun
      <4>4. step'[e] = "ended"
        BY <1>1, <4>3 DEF RInv, RunTypeOK
      <4> QED
        BY <4>2, <4>3, <4>4
    <3> QED
      BY <2>2, <3>1, <3>2, <3>3, <3>4 DEF RExecutorNext
  <2>3. ASSUME NEW v \in Workers, CloseRuns(v) PROVE FALSE
    <3>1. cur[w] = tidy[v] /\ tidy[v] # NoJob
      BY <2>1, <2>3 DEF CloseRuns, Closed
    <3>2. status[tidy[v]] \in Terminal
      BY <1>1, <3>1 DEF RInv, TidiedJobIsOver
    <3> QED
      BY <2>1, <3>1, <3>2 DEF Terminal
  <2>4. ASSUME NEW r \in Reapers, RReapCommit(r) PROVE FALSE
    <3>1. cur[w] \in Reaped(r)
      BY <2>1, <2>4 DEF RReapCommit, Closed
    <3>2. \A j \in rsup[r] : stale[j]
      BY <1>1 DEF IInv, LockedRows
    <3> QED
      BY <3>1, <3>2 DEF Reaped, Rest
  <2>5. runStatus' = runStatus => FALSE
    OBVIOUS
  <2>6. ASSUME NEW v \in Workers, RWorkerNext(v) PROVE CloseRuns(v)
    BY <2>5, <2>6 DEF RWorkerNext, RClaimSnapshot, runVars, FinishDone, FinishFailed,
                      CloseRunsFails, RAbandon, RCrash, Lose
  <2>7. ASSUME NEW c \in Clis, CliExit(c) PROVE FALSE
    BY <2>5, <2>7 DEF CliExit
  <2> QED
    <3>1. CASE \E v \in Workers : RWorkerNext(v)
      BY <2>3, <2>6, <3>1
    <3>2. CASE \E e \in Executors : RExecutorNext(e)
      BY <2>2, <3>2
    <3>3. CASE UNCHANGED runVars \/ UNCHANGED allVars
      BY <2>5, <3>3 DEF runVars, allVars
    <3> QED
      BY <1>1, <2>4, <2>7, <3>1, <3>2, <3>3 DEF RNext
<1>2. IInv /\ RInv /\ [RNext]_allVars => [\A w \in Workers : Ended(w)]_allVars
  BY <1>1
<1> QED
  BY <1>2, RunInvariance, PTL DEF RSpec, RunEndedByItsExecution
=============================================================================
