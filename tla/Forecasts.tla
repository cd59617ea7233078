------------------------------ MODULE Forecasts ------------------------------
(***************************************************************************)
(* collector/weather/kma.py: the forecast of every grid cell is fetched by *)
(* a pool of threads and stored by the thread that waits for them.  An     *)
(* answer that tells to stop cancels what has not begun.  An execution     *)
(* that lost its job may go on beside the next one, with an older base.    *)
(***************************************************************************)
EXTENDS Naturals, FiniteSets

CONSTANTS
  Executions,   \* executions of collect_kma
  Grids,        \* the cells of ensure_grids
  Threads,      \* datago_concurrency
  MaxBase       \* bound on the times at which forecasts are issued

ASSUME ForecastsAssumption == Threads \in Nat \ {0} /\ MaxBase \in Nat

VARIABLES
  issued,    \* the newest base that latest_base gives
  based,     \* [execution -> its base]
  kma,       \* [execution -> "none", "RUNNING" or its status]
  future,    \* [execution -> [grid -> state of its future]]
  batch,     \* [execution -> finished futures that are still to be stored]
  halted,    \* [execution -> stats.stoppedBy is set]
  hourly     \* [grid -> base_at of its rows in mart.weather_hourly]

kmaVars == <<issued, based, kma, future, batch, halted, hourly>>

\* Futures: "queued" and "going" are pending; "rows", "none" and "stop" have
\* finished and "stored", "failed", "over" and "cancelled" have been dealt with.
Finished == {"rows", "none", "stop"}
Pending == {"queued", "going"}
With(e, st) == {g \in Grids : future[e][g] \in st}

KmaInit ==
  /\ issued = 1 /\ based = [e \in Executions |-> 0] /\ kma = [e \in Executions |-> "none"]
  /\ future = [e \in Executions |-> [g \in Grids |-> "queued"]]
  /\ batch = [e \in Executions |-> {}] /\ halted = [e \in Executions |-> FALSE]
  /\ hourly = [g \in Grids |-> 0]

Issue ==
  /\ issued < MaxBase /\ issued' = issued + 1
  /\ UNCHANGED <<based, kma, future, batch, halted, hourly>>
KmaBegin(e) ==
  /\ kma[e] = "none"
  /\ kma' = [kma EXCEPT ![e] = "RUNNING"] /\ based' = [based EXCEPT ![e] = issued]
  /\ UNCHANGED <<issued, future, batch, halted, hourly>>

Becomes(e, g, st) == future' = [future EXCEPT ![e][g] = st]
\* fetch_grid, in a thread of the pool: all pages, no answer, or DataGoStop.
FetchBegins(e, g) ==
  /\ kma[e] = "RUNNING" /\ future[e][g] = "queued" /\ Cardinality(With(e, {"going"})) < Threads
  /\ Becomes(e, g, "going") /\ UNCHANGED <<issued, based, kma, batch, halted, hourly>>
FetchEnds(e, g) ==
  /\ future[e][g] = "going" /\ \E st \in Finished : Becomes(e, g, st)
  /\ UNCHANGED <<issued, based, kma, batch, halted, hourly>>

\* wait(FIRST_EXCEPTION) returns what has finished, once all has or something
\* has raised; the first DataGoStop cancels the rest of the queue.
Wait(e) ==
  /\ kma[e] = "RUNNING" /\ batch[e] = {} /\ With(e, Finished) # {}
  /\ With(e, {"stop"}) # {} \/ With(e, Pending) = {}
  /\ batch' = [batch EXCEPT ![e] = With(e, Finished)]
  /\ future' = IF ~halted[e] /\ With(e, {"stop"}) # {}
               THEN [future EXCEPT ![e] = [g \in Grids |-> IF @[g] = "queued" THEN "cancelled" ELSE @[g]]]
               ELSE future
  /\ UNCHANGED <<issued, based, kma, halted, hourly>>

StoredUnlessHalted(e, g) == ~halted[e] /\ hourly[g] <= based[e]
\* upsert_hours replaces no forecast by an older one.
Stores(e, g) == hourly[g] <= based[e]

Handle(e, g) ==
  /\ kma[e] = "RUNNING" /\ g \in batch[e] /\ batch' = [batch EXCEPT ![e] = @ \ {g}]
  /\ Becomes(e, g, CASE future[e][g] = "rows" -> "stored" [] future[e][g] = "none" -> "failed" [] OTHER -> "over")
  /\ halted' = [halted EXCEPT ![e] = @ \/ future[e][g] = "stop"]
  /\ hourly' = IF future[e][g] = "rows" /\ Stores(e, g) THEN [hourly EXCEPT ![g] = based[e]] ELSE hourly
  /\ UNCHANGED <<issued, based, kma>>

KmaEnd(e) ==
  /\ kma[e] = "RUNNING" /\ batch[e] = {} /\ With(e, Pending \cup Finished) = {}
  /\ kma' = [kma EXCEPT ![e] = IF With(e, {"stored"}) = Grids THEN "DONE"
                               ELSE IF With(e, {"stored"}) # {} THEN "PARTIAL" ELSE "FAILED"]
  /\ UNCHANGED <<issued, based, future, batch, halted, hourly>>
\* Any other exception: no more cells are asked for, and the pool waits for
\* those that are going.
KmaBroken(e) ==
  /\ kma[e] = "RUNNING" /\ kma' = [kma EXCEPT ![e] = "BROKEN"]
  /\ batch' = [batch EXCEPT ![e] = {}]
  /\ future' = [future EXCEPT ![e] = [g \in Grids |-> IF @[g] = "queued" THEN "cancelled" ELSE @[g]]]
  /\ UNCHANGED <<issued, based, halted, hourly>>

KmaNext ==
  \/ Issue
  \/ \E e \in Executions :
       \/ KmaBegin(e) \/ Wait(e) \/ KmaEnd(e) \/ KmaBroken(e)
       \/ \E g \in Grids : FetchBegins(e, g) \/ FetchEnds(e, g) \/ Handle(e, g)
KmaSpec == KmaInit /\ [][KmaNext]_kmaVars

-----------------------------------------------------------------------------
\* Whatever order the threads end in, whenever an answer tells to stop, and
\* whichever execution stores last: once an execution has ended, every cell it
\* fetched has its forecast or a newer one (the comment at line 137).
FetchedIsStored ==
  \A e \in Executions :
    kma[e] \in {"DONE", "PARTIAL", "FAILED"} => \A g \in With(e, {"rows", "stored"}) : hourly[g] >= based[e]
=============================================================================
