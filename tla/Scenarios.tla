------------------------------ MODULE Scenarios ------------------------------
(***************************************************************************)
(* What-if requests of several clients (features/whatif/service.py and     *)
(* api/routers/whatif.py): each looks in the cache, then in                *)
(* mart.whatif_scenario, and stores a scenario with its rows if it finds   *)
(* none; the answer is cached once the transaction is committed.  Every    *)
(* statement sees what is committed when it runs; `prune` of               *)
(* collector/cli.py deletes old calculations with their scenarios.         *)
(***************************************************************************)
EXTENDS Naturals, FiniteSets, FiniteSetsExt

CONSTANTS
  Clients,
  Removals,      \* sets of facilities asked for
  RunsKept,      \* keep_calc: calculations kept by prune
  MaxRun,       \* bound on calculations
  MaxScenarios   \* bound on the ids given

ASSUME ScenariosAssumption == {RunsKept, MaxRun, MaxScenarios} \subseteq Nat

VARIABLES
  runs,        \* calculations DONE and not pruned: the latest is the highest
  scenarios,   \* whatif_scenario with whatif_result: {[run, ids, id, rows]} committed
  open,        \* [client -> its scenario in hand and not committed, or {}]
  place,       \* [client -> where its request is]
  wanted,      \* [client -> the run and the facilities of its request]
  out,         \* [client -> the answer it will give: a set of one scenario, or {}]
  cache,       \* the answers in Redis
  given,       \* the answers given
  ids          \* ids given so far

scenVars == <<runs, scenarios, open, place, wanted, out, cache, given, ids>>

NoWish == [run |-> 0, ids |-> {}]
Key(s) == [run |-> s.run, ids |-> s.ids]
Of(set, k) == {s \in set : Key(s) = k}

ScenInit ==
  /\ runs = {1} /\ scenarios = {} /\ cache = {} /\ given = {} /\ ids = 0
  /\ open = [c \in Clients |-> {}] /\ out = [c \in Clients |-> {}]
  /\ place = [c \in Clients |-> "idle"] /\ wanted = [c \in Clients |-> NoWish]

Become(c, where, answer) == place' = [place EXCEPT ![c] = where] /\ out' = [out EXCEPT ![c] = answer]
\* The connection ends: what was not committed is gone.
Leave(c) == Become(c, "idle", {}) /\ open' = [open EXCEPT ![c] = {}] /\ wanted' = [wanted EXCEPT ![c] = NoWish]

\* A run that is DONE: the one asked for, or the latest.
Request(c, run, r) ==
  /\ place[c] = "idle" /\ run \in runs /\ wanted' = [wanted EXCEPT ![c] = [run |-> run, ids |-> r]]
  /\ Become(c, "resolved", {}) /\ UNCHANGED <<runs, scenarios, open, cache, given, ids>>
LookInCache(c) ==
  /\ place[c] = "resolved"
  /\ \/ Of(cache, wanted[c]) # {} /\ given' = given \cup Of(cache, wanted[c]) /\ Leave(c)
     \/ Become(c, "missed", {}) /\ UNCHANGED <<given, open, wanted>>   \* not there, or Redis does not answer
  /\ UNCHANGED <<runs, scenarios, cache, ids>>
LookUp(c) ==
  /\ place[c] = "missed"
  /\ Become(c, IF Of(scenarios, wanted[c]) # {} THEN "made" ELSE "computing", Of(scenarios, wanted[c]))
  /\ UNCHANGED <<runs, scenarios, open, wanted, cache, given, ids>>
\* INSERT .. ON CONFLICT DO NOTHING waits for whoever has inserted the same
\* and has not committed; its id is None if there is one after all.
Waits(c) == \E d \in Clients \ {c} : Of(open[d], wanted[c]) # {}
Insert(c) ==
  /\ place[c] = "computing" /\ ~Waits(c) /\ wanted[c].run \in runs /\ ids < MaxScenarios
  /\ IF Of(scenarios, wanted[c]) # {}
     THEN Become(c, "made", Of(scenarios, wanted[c])) /\ UNCHANGED <<open, ids>>
     ELSE /\ ids' = ids + 1
          /\ open' = [open EXCEPT ![c] = {[run |-> wanted[c].run, ids |-> wanted[c].ids, id |-> ids', rows |-> FALSE]}]
          /\ Become(c, "inserted", {})
  /\ UNCHANGED <<runs, scenarios, wanted, cache, given>>
InsertRows(c) ==
  /\ place[c] = "inserted"
  /\ LET s == {[t EXCEPT !.rows = TRUE] : t \in open[c]} IN open' = [open EXCEPT ![c] = s] /\ Become(c, "made", s)
  /\ UNCHANGED <<runs, scenarios, wanted, cache, given, ids>>
Commit(c) ==
  /\ place[c] = "made" /\ scenarios' = scenarios \cup open[c] /\ open' = [open EXCEPT ![c] = {}]
  /\ Become(c, "committed", out[c]) /\ UNCHANGED <<runs, wanted, cache, given, ids>>
\* remember, and the response; or Redis does not take it.
Soon(c) == place[c] \in {"made", "committed"}
MayRemember(c) == place[c] = "committed"
Remember(c) ==
  /\ MayRemember(c) /\ given' = given \cup out[c]
  /\ cache' \in {cache, {s \in cache : \A t \in out[c] : Key(s) # Key(t)} \cup out[c]}
  /\ Leave(c) /\ UNCHANGED <<runs, scenarios, ids>>
\* A statement or COMMIT fails, the run is gone, or the process dies.
Fail(c) == place[c] # "idle" /\ Leave(c) /\ UNCHANGED <<runs, scenarios, cache, given, ids>>

Forgotten(s) == cache' = cache \ {s} /\ UNCHANGED <<runs, scenarios, open, place, wanted, out, given, ids>>
Calculated ==
  /\ runs # {} /\ Max(runs) < MaxRun /\ runs' = runs \cup {Max(runs) + 1}
  /\ UNCHANGED <<scenarios, open, place, wanted, out, cache, given, ids>>
\* prune: a run whose scenario is being inserted is locked by the foreign key.
Old == {r \in runs : Cardinality({q \in runs : q > r}) >= RunsKept /\ r # Max(runs)}
Prune ==
  /\ Old # {} /\ \A s \in UNION {open[c] : c \in Clients} : s.run \notin Old
  /\ runs' = runs \ Old /\ scenarios' = {s \in scenarios : s.run \notin Old}
  /\ UNCHANGED <<open, place, wanted, out, cache, given, ids>>

ScenNext ==
  \/ Calculated \/ Prune
  \/ \E s \in cache : Forgotten(s)
  \/ \E c \in Clients :
       \/ LookInCache(c) \/ LookUp(c) \/ Insert(c) \/ InsertRows(c) \/ Commit(c) \/ Remember(c) \/ Fail(c)
       \/ \E run \in runs, r \in Removals : Request(c, run, r)
ScenSpec == ScenInit /\ [][ScenNext]_scenVars

-----------------------------------------------------------------------------
\* An answer that was given or is cached stands for a scenario that is stored
\* with its rows, and the same request is never answered by two: although
\* clients ask at once, commits fail and processes die (service.py:79-83 and
\* 88-90).  Scenarios of a run that prune has deleted are excepted.
AnsweredIsStored ==
  /\ \A s \in given \cup cache : s.run \in runs => s \in scenarios /\ s.rows
  /\ \A s, t \in given \cup cache \cup scenarios : Key(s) = Key(t) => s = t
=============================================================================
