------------------------------ MODULE WalkChain -------------------------------
(***************************************************************************)
(* From metrics to walking distances.  A calc run is filled by a walk of   *)
(* its own: calc asks for walk when it has committed (then=("walk",) in    *)
(* registry.JOBS), and so does osm, because a new graph makes the walking  *)
(* distances of every calc run old.  A request that finds a walk waiting   *)
(* is taken for granted.  An administrator may ask for the walk of a given *)
(* calc run (params.calcRunId); a walk without it takes the latest one     *)
(* that is DONE when it starts.                                            *)
(*                                                                         *)
(* The queue is KindQueue, as in RecalcChain.                              *)
(***************************************************************************)
EXTENDS KindQueue, Naturals

CONSTANTS Calc, Walk, Osm,
          Named,        \* TRUE: walks of a given calc run are asked for too
          MaxCalc       \* bound: calc runs that end DONE

ASSUME WalkAssumption ==
    /\ Kinds = {Calc, Walk, Osm}
    /\ Calc # Walk /\ Calc # Osm /\ Walk # Osm
    /\ Named \in BOOLEAN
    /\ MaxCalc \in Nat

CalcRun == 1 .. MaxCalc
NoCalc  == 0

VARIABLES
    phase,      \* how far the execution of a kind has come
    latest,     \* the latest calc run that is DONE, or NoCalc
    graph,      \* there is a graph of streets
    asked,      \* calcRunId in the params of the waiting walk, or NoCalc
    wanted,     \* the same of the running walk
    target,     \* the calc run the running walk works on, with the graph as it is
    walked,     \* calc runs with walking distances by the present graph
    lost,       \* a calc, osm or walk failed or was withdrawn since a walk was
                \* asked for, which an administrator sees
    taken       \* a walk of another calc run stood for the one that was due

walkVars == <<asked, wanted, target, walked, lost, taken>>
chainVars == <<phase, latest, graph, walkVars>>
wvars     == <<waiting, active, phase, latest, graph,
               asked, wanted, target, walked, lost, taken>>

WalkTypeOK ==
    /\ QTypeOK
    /\ phase \in [Kinds -> {"none", "work", "read", "chain", "chained"}]
    /\ \A k \in Kinds : phase[k] = "none" <=> k \notin active
    /\ graph \in BOOLEAN
    /\ latest \in CalcRun \cup {NoCalc}
    /\ asked \in 0 .. latest
    /\ asked # NoCalc => Walk \in waiting
    /\ wanted \in 0 .. latest
    /\ target \in 0 .. latest
    /\ target # NoCalc => phase[Walk] \in {"read", "chained"}
    /\ walked \in SUBSET (1 .. latest)
    /\ lost \in BOOLEAN
    /\ taken \in BOOLEAN

-----------------------------------------------------------------------------
WInit ==
    /\ QInit
    /\ phase = [k \in Kinds |-> "none"]
    /\ latest = NoCalc
    /\ graph = FALSE
    /\ asked = NoCalc /\ wanted = NoCalc /\ target = NoCalc
    /\ walked = {}
    /\ lost = FALSE /\ taken = FALSE

Goes(k, p) == phase' = [phase EXCEPT ![k] = p]

\* queue.enqueue as execute calls it, with the conflict swallowed.  First, the
\* queue before V23: one of a kind, waiting or running.
AskUnlessActive(k) ==
    waiting' = IF k \in active THEN waiting ELSE waiting \cup {k}
Ask(k) == waiting' = waiting \cup {k}

\* A request by the schedule or an administrator.
Call(k) ==
    /\ Request(k)
    /\ UNCHANGED chainVars

\* POST /admin/jobs with kind walk and a calcRunId.
CallWalkOf(n) ==
    /\ Named
    /\ n <= latest
    /\ Request(Walk)
    /\ asked' = n
    /\ UNCHANGED <<phase, latest, graph, wanted, target, walked, lost, taken>>

\* queue.claim: the params go with the job.
Begin(k) ==
    /\ Start(k)
    /\ Goes(k, "work")
    /\ IF k = Walk THEN wanted' = asked /\ asked' = NoCalc ELSE UNCHANGED <<asked, wanted>>
    /\ UNCHANGED <<latest, graph, target, walked, lost, taken>>

\* The walk in execution ends in whatever way.
LeavesWalk(k) ==
    IF k = Walk THEN wanted' = NoCalc /\ target' = NoCalc ELSE UNCHANGED <<wanted, target>>

\* The end of an execution that did well.
End(k) ==
    /\ phase[k] = "chained"
    /\ Complete(k)
    /\ Goes(k, "none")
    /\ LeavesWalk(k)
    /\ UNCHANGED <<latest, graph, asked, walked, lost, taken>>

\* The end of one that did not: the work raises or is cut off by its time
\* limit, or the request for walk raises.
Fail(k) ==
    /\ phase[k] \in {"work", "read", "chain"}
    /\ Complete(k)
    /\ Goes(k, "none")
    /\ LeavesWalk(k)
    /\ lost' = TRUE
    /\ UNCHANGED <<latest, graph, asked, walked, taken>>

-----------------------------------------------------------------------------
(* calc and osm *)

\* The commit of execute_calc_run: LATEST_DONE_ID is this run from now on.
CalcCommit ==
    /\ phase[Calc] = "work"
    /\ latest < MaxCalc
    /\ Goes(Calc, "chain")
    /\ latest' = latest + 1
    /\ UNCHANGED <<qvars, graph, walkVars>>

\* g.save in refresh: a new graph, which no walk has used.  A walk in
\* progress goes on with the graph it has loaded.
OsmBuilt ==
    /\ phase[Osm] = "work"
    /\ Goes(Osm, "read")
    /\ graph' = TRUE
    /\ walked' = {}
    /\ target' = NoCalc
    /\ UNCHANGED <<qvars, latest, asked, wanted, lost, taken>>

\* refresh returns; the graph is as it was where the file has not changed.
OsmRefreshed ==
    /\ phase[Osm] \in {"work", "read"}
    /\ graph
    /\ Goes(Osm, "chain")
    /\ UNCHANGED <<qvars, latest, graph, walkVars>>

\* spec.then, of calc and of osm.
ChainWalk(k) ==
    /\ k \in {Calc, Osm}
    /\ phase[k] = "chain"
    /\ Goes(k, "chained")
    /\ Ask(Walk)
    /\ lost' = FALSE
    /\ taken' = (Walk \in waiting /\ asked \notin {NoCalc, latest})
    /\ UNCHANGED <<active, latest, graph, asked, wanted, target, walked>>

-----------------------------------------------------------------------------
(* walk *)

\* run_walk without a graph or without a calc run that is DONE.
WalkSkipped ==
    /\ phase[Walk] = "work"
    /\ ~graph \/ latest = NoCalc
    /\ Goes(Walk, "chained")
    /\ UNCHANGED <<qvars, latest, graph, walkVars>>

\* The calc run of a walk: the one its params name, or LATEST_DONE_ID.
CalcOfWalk == IF wanted = NoCalc THEN latest ELSE wanted

\* run_walk loads the graph and looks up its calc run.
WalkRead ==
    /\ phase[Walk] = "work"
    /\ graph /\ latest # NoCalc
    /\ Goes(Walk, "read")
    /\ target' = CalcOfWalk
    /\ UNCHANGED <<qvars, latest, graph, asked, wanted, walked, lost, taken>>

\* Its last transaction.
WalkCommit ==
    /\ phase[Walk] = "read"
    /\ Goes(Walk, "chained")
    /\ walked' = walked \cup ({target} \ {NoCalc})
    /\ UNCHANGED <<qvars, latest, graph, asked, wanted, target, lost, taken>>

-----------------------------------------------------------------------------
(* What the queue does to any of them *)

\* An administrator cancels what waits.
CancelWaiting(k) ==
    /\ Withdraw(k)
    /\ asked' = IF k = Walk THEN NoCalc ELSE asked
    /\ lost' = TRUE
    /\ UNCHANGED <<phase, latest, graph, wanted, target, walked, taken>>

\* The worker died or was cut off: reap sends the job back or gives it up.
\* Transactions that had committed stay, the others are undone; the params
\* stay with the job.
Interrupt(retry, drop) ==
    LET gone == retry \cup drop IN
    /\ gone # {}
    /\ Recover(retry, drop)
    /\ phase' = [k \in Kinds |-> IF k \in gone THEN "none" ELSE phase[k]]
    /\ asked' = IF Walk \in retry THEN wanted ELSE asked
    /\ IF Walk \in gone THEN LeavesWalk(Walk) ELSE UNCHANGED <<wanted, target>>
    /\ lost' = (lost \/ drop # {})
    /\ UNCHANGED <<latest, graph, walked, taken>>

-----------------------------------------------------------------------------
WNext ==
    \/ \E k \in Kinds : Call(k) \/ Begin(k) \/ End(k) \/ Fail(k) \/ CancelWaiting(k)
    \/ \E n \in CalcRun : CallWalkOf(n)
    \/ CalcCommit
    \/ OsmBuilt \/ OsmRefreshed
    \/ \E k \in {Calc, Osm} : ChainWalk(k)
    \/ WalkSkipped \/ WalkRead \/ WalkCommit
    \/ \E gone \in SUBSET active : \E retry \in SUBSET gone : Interrupt(retry, gone \ retry)

WSpec == WInit /\ [][WNext]_wvars
-----------------------------------------------------------------------------
(* Safety *)

\* The walk that will give the latest calc run its walking distances by the
\* graph that will be there then.
WalkDue ==
    \/ Walk \in waiting /\ asked \in {NoCalc, latest}
    \/ phase[Walk] = "work" /\ wanted \in {NoCalc, latest}
    \/ phase[Walk] = "read" /\ target = latest
    \/ \E k \in {Calc, Osm} : k \in waiting \/ phase[k] \in {"work", "read", "chain"}

Needed == graph /\ latest # NoCalc /\ latest \notin walked

\* The latest calc run has walking distances by the present graph, or a walk
\* for it is due, whether calc and osm end before, during or after one another
\* and a walk, unless calc, osm or walk failed, was withdrawn or given up, or
\* a walk of another calc run was waiting (registry.py:30, worker.py:65-69).
LatestCalcIsWalked == Needed => WalkDue \/ lost \/ taken
=============================================================================
