----------------------------- MODULE RecalcChain ------------------------------
(***************************************************************************)
(* From collected data to metrics.  A collection that brought data asks    *)
(* for calc (recalc=True in registry.JOBS); a request that finds a calc    *)
(* waiting is taken for granted, because that calc will read the data too. *)
(*                                                                         *)
(* The queue is KindQueue, which JobQueue implements: an execution that    *)
(* was interrupted waits again or is given up (Recover).  Executions are   *)
(* told in the steps whose order matters: what is committed, what is read, *)
(* what is asked for, and the end.                                         *)
(***************************************************************************)
EXTENDS KindQueue

CONSTANTS Sources,      \* kinds with recalc: post, sgis, care, migration ...
          Incremental,  \* those that report changed (migration)
          Calc

ASSUME ChainAssumption ==
    /\ Kinds = Sources \cup {Calc}
    /\ Incremental \subseteq Sources
    /\ Calc \notin Sources

VARIABLES
    phase,      \* how far the execution of a kind has come
    \* collected data
    news,       \* incremental sources with data upstream that was not collected
    changed,    \* sources whose execution has stored something
    settled,    \* sources whose data is of an execution that was DONE and told
    ended,      \* sources with a DONE execution since their data was stored
    unread,     \* sources with data that no calc run has read
    \* calc
    reading,    \* sources whose data the calc run in progress has read
    lost        \* sources whose recalculation failed or was withdrawn, which
                \* an administrator sees

chainVars == <<phase, news, changed, settled, ended, unread, reading, lost>>
cvars     == <<waiting, active, phase, news, changed, settled, ended, unread, reading, lost>>
dataVars  == <<news, changed, settled, ended, unread>>

ChainTypeOK ==
    /\ QTypeOK
    /\ phase \in [Kinds -> {"none", "work", "read", "chain", "chained"}]
    /\ \A k \in Kinds : phase[k] = "none" <=> k \notin active
    /\ news \in SUBSET Sources
    /\ changed \in SUBSET (Sources \cap active)
    /\ settled \in SUBSET Sources
    /\ ended \in SUBSET Sources
    /\ unread \in SUBSET Sources
    /\ reading \in SUBSET Sources
    /\ reading # {} => phase[Calc] = "read"
    /\ lost \in SUBSET Sources

-----------------------------------------------------------------------------
CInit ==
    /\ QInit
    /\ phase = [k \in Kinds |-> "none"]
    /\ news = {} /\ changed = {} /\ settled = {} /\ ended = {} /\ unread = {}
    /\ reading = {}
    /\ lost = {}

Goes(k, p) == phase' = [phase EXCEPT ![k] = p]

\* queue.enqueue as execute calls it, with the conflict swallowed.  First, the
\* queue before V23: one of a kind, waiting or running.
AskUnlessActive(k) ==
    waiting' = IF k \in active THEN waiting ELSE waiting \cup {k}
Ask(k) == waiting' = waiting \cup {k}

\* A request by the schedule or an administrator.
Call(k) ==
    /\ Request(k)
    /\ UNCHANGED chainVars

Begin(k) ==
    /\ Start(k)
    /\ Goes(k, "work")
    /\ UNCHANGED <<dataVars, reading, lost>>

-----------------------------------------------------------------------------
(* Collections *)

\* New data upstream; what the other sources bring is not compared with it.
Release(s) ==
    /\ s \in Incremental \ news
    /\ news' = news \cup {s}
    /\ UNCHANGED <<qvars, phase, changed, settled, ended, unread, reading, lost>>

\* One transaction that stores collected data: a month of collect_migration,
\* the merge of collect_post.  Only an incremental source looks for news.
Store(s) ==
    /\ s \in Sources
    /\ phase[s] = "work"
    /\ s \in Incremental => s \in news
    /\ news' = news \ {s}
    /\ changed' = changed \cup {s}
    /\ unread' = unread \cup {s}
    /\ settled' = settled \ {s}
    /\ ended' = ended \ {s}
    /\ UNCHANGED <<qvars, phase, reading, lost>>

\* The collector returns, and not all of its runs are FAILED.
Collected(s) ==
    /\ s \in Sources
    /\ phase[s] = "work"
    /\ Goes(s, "chain")
    /\ UNCHANGED <<qvars, dataVars, reading, lost>>

\* result.get("changed", True): what the collector reports.
Changed(s) == s \in Incremental => s \in changed

ChainCalc(s) ==
    /\ s \in Sources
    /\ phase[s] = "chain"
    /\ Goes(s, "chained")
    /\ IF Changed(s)
       THEN Ask(Calc) /\ lost' = lost \ {s}
       ELSE UNCHANGED <<waiting, lost>>
    /\ UNCHANGED <<active, dataVars, reading>>

Done(s) ==
    /\ s \in Sources
    /\ phase[s] = "chained"
    /\ Complete(s)
    /\ Goes(s, "none")
    /\ settled' = IF Changed(s) THEN settled \cup {s} ELSE settled
    /\ ended' = ended \cup {s}
    /\ changed' = changed \ {s}
    /\ UNCHANGED <<news, unread, reading, lost>>

\* The job ends FAILED: the collector raises, all of its runs are FAILED, or
\* the request for calc raises.  What was stored stays.
CollectFails(s) ==
    /\ s \in Sources
    /\ phase[s] \in {"work", "chain"}
    /\ Complete(s)
    /\ Goes(s, "none")
    /\ changed' = changed \ {s}
    /\ UNCHANGED <<news, settled, ended, unread, reading, lost>>

-----------------------------------------------------------------------------
(* calc *)

\* calc/00_snapshot.sql and the steps after it.
CalcRead ==
    /\ phase[Calc] = "work"
    /\ Goes(Calc, "read")
    /\ reading' = unread
    /\ unread' = {}
    /\ lost' = {}
    /\ UNCHANGED <<qvars, news, changed, settled, ended>>

\* The commit of execute_calc_run and the end of its job.
CalcDone ==
    /\ phase[Calc] = "read"
    /\ Complete(Calc)
    /\ Goes(Calc, "none")
    /\ reading' = {}
    /\ UNCHANGED <<dataVars, lost>>

\* A calc that ends without a result leaves what it had read unread again: it
\* is one transaction.
Unreads ==
    /\ unread' = unread \cup reading
    /\ reading' = {}

CalcFails ==
    /\ phase[Calc] \in {"work", "read"}
    /\ Complete(Calc)
    /\ Goes(Calc, "none")
    /\ Unreads
    /\ lost' = IF Calc \in waiting THEN lost ELSE lost \cup unread'
    /\ UNCHANGED <<news, changed, settled, ended>>

-----------------------------------------------------------------------------
(* What the queue does to any of them *)

\* An administrator cancels what waits.
CancelWaiting(k) ==
    /\ Withdraw(k)
    /\ lost' = IF k = Calc /\ phase[Calc] # "work" THEN lost \cup unread ELSE lost
    /\ UNCHANGED <<phase, dataVars, reading>>

\* The worker died or was cut off: reap sends the job back or gives it up.
\* Transactions that had committed stay, the others are undone.
Interrupt(retry, drop) ==
    LET gone == retry \cup drop IN
    /\ gone # {}
    /\ Recover(retry, drop)
    /\ phase' = [k \in Kinds |-> IF k \in gone THEN "none" ELSE phase[k]]
    /\ changed' = changed \ gone
    /\ IF Calc \in gone THEN Unreads ELSE UNCHANGED <<unread, reading>>
    /\ lost' = IF Calc \in drop \ waiting THEN lost \cup unread' ELSE lost
    /\ UNCHANGED <<news, settled, ended>>

-----------------------------------------------------------------------------
\* All but the two steps that turn collected data into metrics.
BesidesCalc ==
    \/ \E k \in Kinds : Call(k) \/ Begin(k) \/ CancelWaiting(k)
    \/ \E s \in Sources : \/ Release(s) \/ Store(s) \/ Collected(s)
                          \/ ChainCalc(s) \/ Done(s) \/ CollectFails(s)
    \/ CalcFails
    \/ \E gone \in SUBSET active : \E retry \in SUBSET gone : Interrupt(retry, gone \ retry)
CNext == CalcRead \/ CalcDone \/ BesidesCalc

CSpec == CInit /\ [][CNext]_cvars
-----------------------------------------------------------------------------
(* Safety *)

\* A calc run that will read all there is: one waits, or has not begun to read.
CalcDue == Calc \in waiting \/ phase[Calc] = "work"

\* R2: data that a collection stored before it ended well, reporting a change,
\* reaches the metrics: a calc that has not read yet is due, even when one was
\* running as the collection ended, unless a calc failed, was withdrawn or
\* given up (worker.py:59-64, V23).
CollectedDataIsDue == (unread \cap settled) \ lost # {} => CalcDue

\* The same of all stored data: one execution that stores and is interrupted
\* and one that ends well belong to one collection (migration.py:269-270,
\* "새 달을 넣었거나 대응표가 바뀜"; scheduler.py:30).
StoredDataIsDue == (unread \cap ended) \ lost # {} => CalcDue
=============================================================================
