-------------------------------- MODULE Slots ---------------------------------
(***************************************************************************)
(* Scheduled jobs.  The schedule thread of every worker process looks at   *)
(* the clock again and again (worker._schedule_tick); an entry of the      *)
(* schedule whose time has come, and less than WINDOW ago, is a slot that  *)
(* is due (scheduler.due), and the thread inserts a job that carries the   *)
(* slot.  The row is not inserted where the slot has a job already, or     *)
(* where one of the kind waits (ON CONFLICT DO NOTHING in                  *)
(* try_enqueue_slot).                                                      *)
(*                                                                         *)
(* The queue is KindQueue.  Time passes in units in which a thread that is *)
(* up looks at least once (SCHEDULE_TICK_S, 20 s), unless it is kept in    *)
(* the middle of a pass.                                                   *)
(***************************************************************************)
EXTENDS KindQueue, Naturals

CONSTANTS Schedulers,   \* schedule threads, one per worker process
          Occurs,       \* [Kinds -> SUBSET Nat]: the times of the schedule
          Window,       \* scheduler.WINDOW
          MaxTime       \* bound: the last time modelled

ASSUME SlotAssumption ==
    /\ Occurs \in [Kinds -> SUBSET Nat]
    /\ Window \in Nat \ {0}
    /\ MaxTime \in Nat

Time  == 0 .. MaxTime
Never == MaxTime + 1

VARIABLES
    now,
    slots,      \* column slot: the <<kind, time>> that have a job
    todo,       \* due slots that a thread has still to insert
    looked,     \* threads that have looked since now began
    calm,       \* since when a thread has looked in every unit, or Never
    up,         \* threads that run and reach the database
    \* what became of the kinds
    made,       \* jobs of a kind that were inserted for a slot
    taken       \* when a waiting job of the kind last began or was cancelled,
                \* plus one; or 0

threadVars == <<todo, looked, calm, up>>
svars      == <<waiting, active, now, slots, todo, looked, calm, up, made, taken>>

SlotTypeOK ==
    /\ QTypeOK
    /\ now \in Time
    /\ slots \in SUBSET (Kinds \X Time)
    /\ \A sl \in slots : sl[2] \in Occurs[sl[1]] /\ sl[2] <= now
    /\ todo \in [Schedulers -> SUBSET (Kinds \X Time)]
    /\ \A s \in Schedulers : \A sl \in todo[s] : sl[2] \in Occurs[sl[1]] /\ sl[2] <= now
    /\ looked \in SUBSET up
    /\ up \in SUBSET Schedulers
    /\ calm \in [Schedulers -> Time \cup {Never}]
    /\ \A s \in Schedulers : s \notin up => calm[s] = Never /\ todo[s] = {}
    /\ made \in [Kinds -> Nat]
    /\ taken \in [Kinds -> 0 .. MaxTime + 1]

-----------------------------------------------------------------------------
SInit ==
    /\ QInit
    /\ now = 0
    /\ slots = {}
    /\ todo = [s \in Schedulers |-> {}]
    /\ looked = {}
    /\ calm = [s \in Schedulers |-> Never]
    /\ up = {}
    /\ made = [k \in Kinds |-> 0]
    /\ taken = [k \in Kinds |-> 0]

\* A thread that is up and between two passes looks before time goes on; one
\* that is not through with its pass by then has not been calm.
Tick ==
    /\ now < MaxTime
    /\ \A s \in up : todo[s] = {} => s \in looked
    /\ now' = now + 1
    /\ looked' = {}
    /\ calm' = [s \in Schedulers |-> IF todo[s] = {} THEN calm[s] ELSE Never]
    /\ UNCHANGED <<qvars, slots, todo, up, made, taken>>

-----------------------------------------------------------------------------
(* Schedule threads *)

\* The process and its database are there (again).
Up(s) ==
    /\ s \in Schedulers \ up
    /\ up' = up \cup {s}
    /\ calm' = [calm EXCEPT ![s] = now]
    /\ UNCHANGED <<qvars, now, slots, todo, looked, made, taken>>

\* The process ends, or the database is away: the pass is given up, and the
\* thread waits (backoff).
Down(s) ==
    /\ s \in up
    /\ up' = up \ {s}
    /\ looked' = looked \ {s}
    /\ todo' = [todo EXCEPT ![s] = {}]
    /\ calm' = [calm EXCEPT ![s] = Never]
    /\ UNCHANGED <<qvars, now, slots, made, taken>>

\* scheduler.due
Due == {sl \in Kinds \X Time : sl[2] \in Occurs[sl[1]] /\ sl[2] <= now /\ now < sl[2] + Window}

Look(s) ==
    /\ s \in up
    /\ todo[s] = {}
    /\ todo' = [todo EXCEPT ![s] = Due]
    /\ looked' = looked \cup {s}
    /\ UNCHANGED <<qvars, now, slots, calm, up, made, taken>>

\* What the two unique indexes of ops.job let in.  First, without ux_job_slot;
\* and with ux_job_active (V11) in place of ux_job_queued (V23).
NoneWaits(sl)  == sl[1] \notin waiting
NoneActive(sl) == sl \notin slots /\ sl[1] \notin waiting \cup active
Insertable(sl) == sl \notin slots /\ sl[1] \notin waiting

\* The last slot of a pass ends it.
TrySlot(s, sl) ==
    /\ sl \in todo[s]
    /\ todo' = [todo EXCEPT ![s] = @ \ {sl}]
    /\ calm' = IF todo'[s] = {} /\ calm[s] = Never THEN [calm EXCEPT ![s] = now] ELSE calm
    /\ UNCHANGED <<now, looked, up, taken>>

InsertSlot(s, sl) ==
    /\ TrySlot(s, sl)
    /\ Insertable(sl)
    /\ waiting' = waiting \cup {sl[1]}
    /\ slots' = slots \cup {sl}
    /\ made' = [made EXCEPT ![sl[1]] = @ + 1]
    /\ UNCHANGED active

PassOver(s, sl) ==
    /\ TrySlot(s, sl)
    /\ ~Insertable(sl)
    /\ UNCHANGED <<qvars, slots, made>>

-----------------------------------------------------------------------------
(* The queue *)

\* A request by an administrator or by another job.
Call(k) ==
    /\ Request(k)
    /\ UNCHANGED <<now, slots, threadVars, made, taken>>

Begin(k) ==
    /\ Start(k)
    /\ taken' = [taken EXCEPT ![k] = now + 1]
    /\ UNCHANGED <<now, slots, threadVars, made>>

End(k) ==
    /\ Complete(k)
    /\ UNCHANGED <<now, slots, threadVars, made, taken>>

CancelWaiting(k) ==
    /\ Withdraw(k)
    /\ taken' = [taken EXCEPT ![k] = now + 1]
    /\ UNCHANGED <<now, slots, threadVars, made>>

Interrupt(retry, drop) ==
    /\ retry \cup drop # {}
    /\ Recover(retry, drop)
    /\ UNCHANGED <<now, slots, threadVars, made, taken>>

-----------------------------------------------------------------------------
SNext ==
    \/ Tick
    \/ \E s \in Schedulers :
        \/ Up(s) \/ Down(s) \/ Look(s)
        \/ \E sl \in todo[s] : InsertSlot(s, sl) \/ PassOver(s, sl)
    \/ \E k \in Kinds : Call(k) \/ Begin(k) \/ End(k) \/ CancelWaiting(k)
    \/ \E gone \in SUBSET active : \E retry \in SUBSET gone : Interrupt(retry, gone \ retry)

SSpec == SInit /\ [][SNext]_svars
-----------------------------------------------------------------------------
(* Safety *)

\* Every slot makes one job at most, however many threads find it due at
\* once, and although its job has long ended or was cancelled while its
\* window is still open (V11 ux_job_slot, queue.py:60-70).
OneJobPerSlot == \A k \in Kinds : made[k] <= Cardinality({t \in Occurs[k] \cap Time : t <= now})

\* After time t of the schedule a job of the kind waits, has begun, or was
\* cancelled.
Served(k, t) == k \in waiting \/ taken[k] > t

\* R7: a slot in whose window some thread went through one unit calmly is
\* followed by a job of its kind that begins after its time, although another
\* job of the kind may wait or run at that moment (worker.py:228-230, V23).
DueSlotIsServed ==
    \A k \in Kinds : \A t \in Occurs[k] \cap Time :
        (t < now /\ \E s \in Schedulers : calm[s] < now /\ calm[s] < t + Window)
            => Served(k, t)
=============================================================================
