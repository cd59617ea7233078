# A TLA+ model of the Post Office Way backend

The repository collects data about Korean post offices and their surroundings,
calculates access metrics and serves them. The parts whose correctness depends
on the order of events are in `src/atlas/atlas`: a job queue kept in Postgres,
worker processes that serve it, collectors that fill staging tables and
histories, and the chain of jobs that turns collected data into metrics. This
directory models those parts in TLA+, checks them with TLC on small instances,
and proves the main results with TLAPS for every value of the constants.

Paths below are relative to `src/atlas/atlas` unless they say otherwise.

## 1. Inventory

### Components, what they keep, what they do

| component | state | operations | correct if |
|---|---|---|---|
| job queue (`jobs/queue.py`, `src/db/migrations/V11, V23`) | rows of `ops.job`: status, kind, attempts, worker, heartbeat, slot | enqueue, try_enqueue_slot, claim, heartbeat, finish, cancel, reap | one row of a kind waits and one runs; results come from the current attempt; ended jobs stay ended; a job in progress that beats is left alone; every job ends |
| workers (`jobs/worker.py`) | one thread per lane and its job, a heartbeat thread, a schedule thread, isolated children | execute, run_lane, run_isolated, _schedule_tick | a short job never waits for a long one; failures are recorded as failures; the next jobs of the chain are asked for |
| registry (`jobs/registry.py`) | none | which kind is recalculated, chained, isolated, in which lane | with the workers: what is collected is calculated, what is calculated is walked |
| scheduler (`jobs/scheduler.py`) | none; the slots are in `ops.job` | due, next_run | a slot runs once, whatever number of workers look, or not at all when its 30 minutes are over |
| run records (`ops/runs.py`, V22, and the like in `calc/`, `walk/`) | `ops.collect_run`, `mart.calc_run`, `mart.walk_run`: status, stats, job_id | start_run, reopen_run, save_stats, finish_run, close_runs | a dead execution never blocks its retry; success is recorded only for a run that did well; nobody closes another's run |
| collectors (`collector/`) | `raw`, `stg` rows of a run; `mart` histories and tables | one per source: post, SGIS, KOSIS, OA, Kakao banks/road/geocheck, care, holidays, weather, air, migration | what an upstream error withheld is not taken for gone; a resumed collection ends like an undisturbed one |
| calculation (`calc/`, `sql/calc/`) | `mart.calc_run` and its metrics, one transaction | create, execute, commit or fail | reads one snapshot; a failed calc leaves nothing |
| walking distances (`walk/`) | graph file, `mart.walk_run`, `oa_walk` | osm refresh, run_walk | the latest calc run has the walking distances of the present graph |
| cache (`core/cache.py`, `calc/runs.py`) | Redis keys made of calc run and end of walk | get, set | no reader gets the values of another version |
| API (`api/`) | rate limit counters | reads; insert and cancel jobs | as the queue |
| domain rules (`domain/`) | none | placement, visit, params, rules | equal to their definitions |
| web (`src/web`) | a page's own | pages and maps over the API | - |

### How they interact

    schedule / admin API / CLI --INSERT--> ops.job --claim--> lane thread --execute--> collector | calc | osm | walk
                                             ^                  |                        | opens and ends a run record
       reap (each worker process) -----------+   finish, beat --+                        v
       collector done and changed --> enqueue calc;  calc, osm done --> enqueue walk     stg, mart, graph file

Everything is shared through Postgres under READ COMMITTED; NOTIFY only shortens
the wait between two polls. Commands of the CLI run collectors and calc outside
the queue. Redis and the graph file are the only other shared state.

### What is hard here

* claim decides on the snapshot of its statement and rechecks only the row it
  locks; reap is one transaction of three UPDATEs with a snapshot each, and may
  run in two processes; enqueue may come between.
* Executions outlive their jobs: a worker cut off from the database goes on,
  and finishes late, after its job was given to another.
* A process may die between any two transactions: between the commit and the
  reply of claim, between finish and close_runs, between storing data and
  asking for calc, between a merge and the end of its run.
* Requests are swallowed by a waiting job of the kind, which need not be the
  same request.
* Upstream services drop pages, list things twice and change in between, and say
  "there is none" and "I cannot answer" in ways that are easily confused.
* What is shown is put together from the database, Redis and the browser, each of
  which may be of another time.
* Sums over areas take shortcuts by the few nearest facilities.

`PROJECT.json` lists each hazard with its line and the properties about it.

## 2. The modules

| module | models | builds on |
|---|---|---|
| `KindQueue` | what the queue promises: per kind at most one request waits and one execution goes on | - |
| `JobQueue` | `queue.py` and the loop of `worker.py`, row by row and statement by statement | refines `KindQueue` |
| `JobRuns` | run records, `execute`'s two ends, CLI commands | extends `JobQueue` |
| `RecalcChain` | collections, incremental ones among them, and calc | extends `KindQueue` |
| `CalcAsked` | the same with the parameters of calc jobs | extends `RecalcChain` |
| `WalkChain` | calc, osm and walk | extends `KindQueue` |
| `Slots` | the schedule threads, the window and the slot key | extends `KindQueue` |
| `PostHistory` | `collect_post`, resumption, the history of facilities | - |
| `Collect` | what the other collectors share: a run and a loop over units | - |
| `Care`, `Banks`, `SgisAreas`, `Kosis`, `Geocheck`, `Roads`, `OaAreas`, `Holidays`, `Months` | a collector each (`Holidays` also `air.py`) | extend `Collect` |
| `Forecasts` | `collect_kma`, which fetches in parallel | - |
| `Upstream` | `Fetcher.get` and the clients' reading of its answer | - |
| `Nearest` | the search of the k nearest facilities on foot | - |
| `Planning` | what-if and plan by the nearest facilities | - |
| `Impacts` | the sums over census blocks: calc, walk and what-if | - |
| `Recodes` | sums of migration over provinces that change their codes | - |
| `Scenarios` | what-if requests, their table, their cache, prune | - |
| `Served` | maps and overview under a version, in Redis and the browser | - |
| `Visit` | conditions of a day under a version of their own | - |
| `Assess` | the conditions of a day from its hours and its air | - |
| `Limits` | counters in Redis | - |
| `Sublists` | SelectSeq in a form that can be reasoned about | - |
| `MCJobQueue`, `MCJobLanes`, `MCJobRuns`, `MCSlots`, `MCPostHistory`, `MCCollectors`, `MCAnswers` | values, lanes and symmetries for TLC | |
| `JobRunsProofs`, `RecalcChainProofs`, `WalkChainProofs`, `SlotsProofs`, `PostHistoryProofs`, `CollectorsProofs`, `AnswersProofs` | theorems | TLAPS |
| `FiniteLemmas` | lemmas about finite sets and sequences, for the proofs | TLAPS |

`PROJECT.json` ("map") gives the source lines of every definition. Some
modules define, before an operator, a mistaken form of it (`OwnedInAnyStatus`
before `Owned`): the change of the code that a property is there to find.
Nothing in the specifications uses these forms.

### JobQueue

A row of `ops.job` is an id in `JobId` and its columns are functions of it;
`stale[j]` stands for "heartbeat_at is older than STALE_MIN". A lane thread is
`idle`, in a `claim` between the statement's snapshot and the row lock, in
`exec`, or `down`. A reap transaction is `idle` or between its first UPDATE and
the others, and holds the rows it changed (`rsup`), as row locks do.

* `ClaimSnapshot`/`ClaimTake`/`ClaimNothing`: the two moments of claim.
  `ClaimTake(w, FALSE)` is a commit whose reply is lost.
* `Heartbeat`, `Finish`: guarded by `_OWNED`; `Finish` always frees the thread.
* `ReapFirst`/`ReapCommit`/`ReapAbort`: superseded rows first, then retries
  and failures; `Collision` is the IntegrityError of `ux_job_queued`.
* `Abandon`: the result cannot be recorded. `Crash`, `Restart`: the process.
* `MissBeats(j)` may happen to any running row, also to one whose thread is
  alive: it is then a zombie.

Left out: `ops.worker` (a display), priorities (there are none), params, error
texts. The slot key is in `Slots`.

### JobRuns

Every action of `JobQueue` with what the same code does to run records, and the
steps between: `CheckRunning` and `OpenRun` are the two transactions of
start_run, `ReopenRun` is reopen_run, `EndRun` writes whatever the status was,
`FinishDone` needs a run that is not FAILED, `FinishFailed` is followed by
`CloseRuns`, a transaction of its own that may fail, and `RReapCommit` closes
the runs of the jobs it sent back in the transaction of reap. An execution opens
one run, as all but SGIS's "all" do. The age limit of open runs (STALE_HOURS) is
time and left out: in the model an open run refuses for ever. `late` marks the
runs that an execution opened after it had lost its job; `WaitingJobHasNoOpenRun`
excepts them, for such an execution does block the retry until it ends.

### RecalcChain and WalkChain

The queue is the abstract one, so the chains are told in terms of kinds.
Interruption of executions is `Recover`. An execution that is a zombie is not
part of these two modules; `JobRuns` has it. `lost` notes what an administrator
sees as FAILED or CANCELLED, and excuses the chain. Not modelled: `recalc: false`
in params, and a walk's params surviving in any other way than with its job.

`CalcAsked` adds the parameters: `asked` and `going` are "own" while the calc that waits,
or runs, was asked for with a stat year or levels of its own. It stands for the calc that
a collection asks for all the same, and what it takes in is not in the metrics of the
present year. The comment at worker.py:63, that a waiting calc will take the
new data in, does not hold of it; `OnlyOwnStandsIn` says that nothing else goes wrong.

### Slots

A slot is a kind and a time. A schedule thread that looks takes the list of the
slots that are due (`Look`) and inserts their jobs one by one (`InsertSlot`), or
passes over a slot that the two unique indexes refuse (`PassOver`); it may stop,
lose the database or an exception may end the pass (`Down`), and it may hang in the
middle of a pass while time goes on. A thread that is up and between passes
looks at least once in a unit of time, as it does every SCHEDULE_TICK_S seconds;
`calm[s]` is the time since when thread s has done so. Times are counted from a
start: weekdays, hours and midnight, missing API keys and `next_run`, which is
for display, are left out. Jobs begin, end, are interrupted and are cancelled as in
KindQueue.

### PostHistory

`up` is the service: a set of facilities under each area code; a facility may be
listed under two codes. `stg` has a row per facility (the primary key is run and
post_id), `hist` the open row of a facility, both told by the area code of the
row, because the area code is one of the hashed fields. `BeginCode` takes the next
code that is not done. `Page` is one answer: at most `PageSize` of the items, in any
choice, so that a page may come short, come empty or bring items again, with
totalCount and totalPage each told or missing; `pages` counts what the code counts
(received, with items that come twice counted twice, the latest totalCount, the
empty pages). `EndCode` decides from those numbers alone whether the code is done
(`Complete`), after its last page or after a page that failed. `doubtful` is a history
variable: the codes that became done on an answer without totalCount, or with an
item twice, which the code does not notice. `BeginMerge` and `Merge` are the
transaction of the merge, with coordinates filled for some rows. A process that
is killed and closed by reap is `Stop(FALSE)`, an exception `Stop(TRUE)`;
`MergeGuardError` is the case in which `Merge` is disabled. Tolerance, share and guard
are constants instead of 2 or 2 % and 20 or 5 %. One run is open at a time, which
is start_run's check (its gap is in `JobRuns`), and resumption is of the newest
run, which is reopen_run's. Of the service is assumed that an answer tells true
numbers or none, and that an item comes once on a page.

### Collect and the collectors

`Collect` has the run and the loop: `Begin`, a unit that is done, fails or is
passed over, `Break` for an answer that tells to stop (a key refused, a quota),
`Finish`, and `Interrupted` for an exception or the loss of the process. A
collector adds what it stores and what it asks for.

* `Care`: one page is one transaction (`Page`); `LastOfKind` stores the last one
  and removes what was not seen, if everything was received. `listed` changes
  between the pages, and a page may come without its items or without a count.
* `Banks`: a tile is the sequence of quarters that leads to it. `EmptyTile` is an
  answer with total_count 0 or without one, `Divide` a tile with more branches than a
  search brings, `FirstPage` and `NextPage` the pages of one that has not, or is as
  small as tiles get: a page may bring fewer branches than it should, and branches open
  and close between pages. `TilePageFailed` leaves the rest of a tile out. `base` is the
  run that decides what is current; `since` and `steady` are history variables, the
  branches open all through a full run that no answer of it has left out.
* `SgisAreas`: `src` is the pinned year, `told` the years of which SGIS has said
  that there are none. `map` is the mapping of facilities, which calc fills
  (read, uncommitted, committed) and boundaries delete.
* `Kosis`: values in memory, and one transaction (`KosisStore`) that replaces the
  year if all provinces have answered, and otherwise what was matched.
* `Geocheck`: both collections, geocheck and post's filling of coordinates, share
  the cache of answers; `asking` is a call whose answer is not stored yet.
* `Roads`: a route has an origin, the area's point or a census block's; the second
  is a repair, which is made once. Distances are left out but for "a long detour".
* `OaAreas`: people by district, then boundaries by subdistrict; what is there is
  skipped, unless everything is asked for again.
* `Holidays`: years, and the air forecast with its announcements.
* `Months`: pages of a month in any order, retried once, while rows change places
  or the month is revised; `acc` counts how often a row was added up.
* `Forecasts`: futures, the batches that `wait` returns, and another execution
  beside, with an older base.

### Answers

* `Upstream`: a call is attempts of one `Fetcher.get`, or for SGIS up to two of
  them with a token between; answers are classes (`Again`, a code, rows). What it
  says is what the collectors above branch on.
* `Nearest`: the heap and the labels of `ksource.py`, one pop a step; the
  reference relaxes every edge from one facility at a time.
* `Planning`, `Impacts`: a request or a statement a step, over tables of distances;
  the references look at all facilities or all blocks. Distances of `Impacts` are
  centimetres: what the SQL and walk store (dist_m, post2_m, bank_m, oa_walk) is
  rounded to 0.1 m (`Rounded`), what a what-if or the impact of a branch compares at once
  is not. `onRecord` has the offices that a query for the calc run's date finds, and
  `ImpMerge` changes it once after calc, as a merge does that began before calc and
  commits later. In each row of a table all distances are given; of two halves the upper is taken
  (numeric does so; walk rounds floats, which are hardly ever halves).
* `Recodes`: provinces are merged, renamed, cut up and cede units; the code sees
  codes and names, the property sees the land. `SummedOnce` asks that at most one change
  lay between any two months that were neighbours among those received when aliases
  were made (`OneAtATime`). Without that it fails: province 1 has one unit, province 2 one of the same
  name; month 2 cedes the latter to a new province 3, month 3 gives province 1 a new code,
  and month 2 is not there. `sido_recodes` speaks of the very next month
  (migration.py:183) but takes the next month received (`later[0]`, :194-197), and joins
  the unit of 1 to that of 3, other land. Months are missing where files were not
  published or not read, two recodings in one such gap are rare, and the next rebuild
  with the month stored mends it; `seen` is a history variable that says what was there.
* `Assess`: hours come in any order, may lack values and are replaced by later
  forecasts; the code keeps maxima and minima over the day, the property looks at each hour.
* `Scenarios`, `Served`, `Visit`: each statement of a request is a step. In `Served`
  a body is named by the calc run and the walk it was made of, in `Visit` by
  the inputs it has read; versions are what the code compares.
* `Limits`: a clock, keys with an end, Redis that comes back empty, and any call that
  gets no answer of it, whether it has counted or not: then a request passes (`Hit`), a
  report is dropped and an error is counted by its process (`CountAlone`). Reading the hour,
  counting (`CountRow`) and writing the row (`WriteRow`) are steps of a thread of their own.

`MCCollectors` and `MCAnswers` put these side by side: `which` is chosen at the start,
one part plays and the variables of the others stay as they began. This only saves
runs: nothing is claimed of two parts at once, and the theorems are of each part's own
specification (`KmaSpec`, `GeoSpec`, `AreasSpec`, `ScenSpec`, `UpSpec`, `VisitSpec`,
`ServedSpec`, `LimSpec`, `ImpSpec`, `AssessSpec`, `PlanSpec`, `NearSpec`, `RecSpec`), or,
where a property speaks of several collectors, of `CollectorsSpec`.
`Playing` is the set of parts of an instance.

## 3. What is checked

| run | question | result |
|---|---|---|
| `queue_safety` | do two workers and two reapers keep rows, results and the abstract promise? | holds |
| `queue_liveness` | does every prompt job end, with crashes, lost replies and a long lane that never comes free? | holds |
| `run_records` | run records with a zombie, a resumed run and a CLI command | holds |
| `recalc_due` | does the data of a collection that ended well reach the metrics, and if not, is it only for a calc of its own? | holds |
| `recalc_lost` | does all stored data? | violated |
| `walk_due` | does the latest calc run get its walk, with the exceptions seen by an administrator? | holds |
| `schedule_slots` | is a slot one job, and is none lost while one thread does its work? | holds |
| `post_history` | do errors close no facility, and does a run that is DONE match the service? | holds |
| `post_errors` | without the exception of facilities listed twice (mart_post_hist.sql:5)? | violated |
| `collectors` | does no gap in an answer delete, close or overwrite, is a run that is DONE whole, and does calc map facilities to the areas that are there? | holds |
| `areas_stale` | the last without its exceptions (sgis/pipeline.py:276)? | violated |
| `answers` | is what is said, worked out, cached and limited what a reference says that takes no shortcut? | holds |

### The violations

* **recalc_lost** (code). `collect_migration` commits each month by itself and
  reports `changed` only for what this execution stored. Killed after storing a
  month and before asking for calc, its retry finds nothing pending, reports
  `changed=False`, and calc is never asked for.
* **post_errors** (code). A facility listed under codes A and B is stored under
  A, its row under B is dropped (ON CONFLICT DO NOTHING). A then fails, B is done,
  and the run is interrupted before its merge. Resuming deletes A's rows and
  skips B. If A fails again, the merge sees a done code B that no longer brings the
  facility, and closes it if its open row has code B, although the service has
  listed it all the time.
* **areas_stale** (code). A collection of boundaries deletes the mapping of facilities to
  areas only at its end. Interrupted, it has committed new boundaries and leaves the
  mapping; and its DELETE does not see the rows of a calc that has not committed.
  `01_facility_area_map.sql` fills only what is missing, so the stale rows stay.

### The exceptions

Some properties hold with an exception that the model made visible. Each is
written into its property, and is what the code does:

* `OnlyShortfallCloses`, `DoneMatchesService`: doubtful codes. An answer without
  totalPage and totalCount has one page (pipeline.py:103) and is short of nothing
  (`(total_count or 0) - received`, :121), so a code of two pages is done after the
  first, and the merge closes what the second would have brought. And with A and B
  under a code, a page each, A on both: two of two items were received, and B is closed.
  A facility whose row under a second code was dropped is the other exception (see
  post_errors);
* `OpenBranchIsCurrent`: what a full collection does not notice (banks.py:171-187). An
  answer without total_count is an empty tile, not a failed one; a page that brings fewer
  branches than total_count announced is not compared with it; and when a branch of the tile
  closes after page 1, the first of page 2 moves up to page 1 and is not seen. The run
  ends DONE, becomes the base, and the branches it left out count as closed;
* `LimitsHold`: each loss of Redis begins a count anew; a request that Redis gives no
  answer for passes (security.py:98-99, stated in its line 5); without Redis each process
  counts errors by itself, and begins anew when a thread comes that has read the hour
  before; a row counted in one hour may be written in the next, on top of that hour's
  own (csp_reports.py:77, 83; errors.py:83, 105), by each thread once;
* `ImpactsAgree`: an office at 2000.04 m is stored as at 2000.0, so its block is near for
  facility_hub and life metrics, and far for a what-if that closes something and measures anew:
  the what-if then counts those people as newly far, facility_hub does not. The
  difference is at most the people at such an edge (`Edge`), and none where there are
  none. And a late merge takes an office off the record, which the what-if then finds closed
  already: it leaves out the blocks that office was the nearest of. On foot both sides use what
  oa_walk has stored, so 30 minutes means 30 minutes as rounded;
* the rows of the queue are exclusive, the executions are not: a worker cut off for
  STALE_MIN minutes goes on while another has its job (queue.py:1, 75 say otherwise);
  a waiting walk of a given calc run stands for the walk that calc asks for, and
  the new calc run is not walked (`LatestCalcIsWalked`, docs/architecture.md:52);
* `ServedIsCurrent`: two walks of one calc run that begin to commit in one second
  have one version; and where walks commit under two readers, the body of one may
  come with the tag of the other, which a later 304 confirms (api/etag.py:4 has the new
  body at once). A change of the boundaries' shapes is in no version, and not in the model;
* `VisitIsCurrent`: the version has the newest base and the number of cells of it,
  so a cell of an older base that is stored after a newer one of another cell
  escapes it, as does an air code stored after another's same announcement
  (features/visit.py:144 has "any change"); `unseen` names them;
* `ListedIsKept`: a list that shrinks between two pages moves a place over the edge
  of a page that was read;
* `MonthStoredWhole`: a row without a usable pair is not recognised when it
  comes twice, so it may stand for one that was missed;
* `ShortcutsAreExact`: a facility that was valid when calc read, but was committed
  later, is known only to a what-if that searches anew, as `demand_top_n` does for a plan's
  close, too;
* `AnsweredIsStored`: scenarios of a calc run that prune has deleted; `SaidIsAnswered`: an
  empty body is read as an empty object.

Met while reading, without a property: a what-if's router remembers an answer again when it
came from the cache (whatif.py:21-22), and the date of visit conditions is picked before
their version is read (features/visit.py:160). domain/visit.py:156 gives no RAIN for a day
on which rain_h equals snow_h (its docstring, line 132, has rain from one hour on).

### Bounds, and why they are enough

* `queue_safety`: two kinds, two workers of one lane, two reapers, two rows,
  two attempts (the value of V11). Two rows of one kind give a running and a
  waiting one, on which every rule of the queue depends; two reapers are the
  fewest that can collide. Workers and kinds are symmetric.
* `queue_liveness`: the two lanes with a kind each, two rows, one reaper.
  No symmetry, as it would be unsound.
* `run_records`: one row, two workers, three runs: a zombie, the retry and a
  command of the CLI can each open one, or share a resumed one.
* `recalc_due`: one incremental source and one that is not. Sources do not
  meet except at calc. `walk_due`: three calc runs, so that a walk may be of
  an older one while a newer one commits.
* `schedule_slots`: two threads, a window of two units, three slots: two of one
  kind, whose windows touch, and one of another, due together with either.
* `post_history`: two facilities and two codes: a facility under both, one code
  that fails and one that does not, a merge that closes one facility and one that
  is stopped by the guard (both gone). Pages of one item give a code of two pages, of
  which one may be empty, short or a repetition. A tolerance of 0 or one in two makes a
  single item count and lets one of two be missing, which are the two sides of
  `MayLack`; with three facilities the state space is too large for a routine run.

* `collectors`: two runs, so that what one has stored meets the next one's gaps; two or
  three units of each loop, one that answers and one that does not. `Care` has
  pages of one row and two changes of the list; `Banks` pages of one branch and
  three a search: a tile above that limit, which is divided to the least side, one that is
  above it at that side, and two moves, also between pages; `SgisAreas` a province
  with two districts and one with one, and one older year; `Months` three pages of a
  month, two months and the passing of one; `Forecasts` two executions, two cells
  and one thread, so that a stop finds a cell that has not begun.
* `answers`: two clients each, which is what a race takes. `Upstream` one retry and a token
  that ends within the clock; `Nearest` a square with diagonals and two labels a
  vertex, with ties and two facilities at one vertex; `Planning` five facilities on a
  line at all the distances from four areas, more than the three ranks kept;
  `Scenarios` two calc runs of which one is kept; `Served` two walks within one
  second or two; `Limits` an hour of two windows and the begin of the next one, two threads of
  one process, one loss and one request let through without Redis; `Recodes` three
  units of two provinces, with one name in both, and two changes in four months with a window of two; `Visit` two cells, two
  bases, two codes and three changes; `Impacts` three blocks, two walks, a merge
  that adds an office or takes one, and distances below, at, so little above a limit
  that they are stored as at it (20 and 24 for limits of 20), and beyond.

Deadlock is checked in every run but `collectors`, `areas_stale` and `answers`, whose
bounds on runs, requests and changes come to an end; in the others something may
always happen.

### Fairness

Only `FairSpec` of JobQueue states fairness.
Containers are restarted (`restart: unless-stopped` in docker-compose.yml), so
`Restart` is weakly fair. Lanes poll every `poll_s` seconds and the schedule
thread reaps every minute: `ClaimSnapshot`, `ClaimTake` and the steps of reap
are strongly fair, because a crash, a lost reply or a collision may interrupt
a cycle but not every one. A row that nobody executes gets no heartbeat, so
`MissBeats` is weakly fair for orphans only. Executions are *not* assumed to end,
except those of the kinds in `Prompt`: the short lane's in the run, while the long
lane's may go on for ever. The bound on rows means that arrivals stop, which a
queue ordered by age with one waiting row per kind does not depend on.

## 4. What is proved

For all kinds, workers, lanes, reapers, retry limits and bounds on rows and runs
(`QueueAssumption`, `RunAssumption`), all sources (`ChainAssumption`) and any
number of calc runs (`WalkAssumption`), any schedule, threads and window
(`SlotAssumption`), any facilities, area codes, page size, tolerance and limit on closures
(`HistoryAssumption`), and of the later modules any units, sources, clients and bounds:

* **JobRunsProofs**, the queue. `Invariance`: `IInv` is inductive. `OneQueuedPerKind` and
  `OneRunningPerKind` are not inductive by themselves, because `ClaimTake` acts on an
  old snapshot. `SnapshotHolds` supplies the reason: as long as a candidate waits, no
  other job of its kind can have come to run, for it would have had to wait at the
  same time. `AttemptsLeft` bounds attempts, `ExecutesCurrent` ties a thread to the
  current attempt of the job it owns, `LockedRows` says what reap transactions
  hold. From it follow `TypeCorrect`, `QueuedUnique`, `RunningUnique`, and the action
  properties `TerminalStays`, `ResultIsCurrent`, `BeatingStays`. `Refinement`: every
  step of JobQueue is a step of KindQueue or a stutter, under the mapping of
  rows to the kinds that wait and run. This is what allows the chains to be
  modelled over KindQueue.
* **JobRunsProofs**, the runs. `RunsLeaveQueueAlone`: JobRuns implements JobQueue, so all of
  the above holds in it. `RunInvariance`: `RInv` is inductive with `IInv`; it says
  which execution has which run open and of which job (`OwnRun`, `RunOfKind`), and
  strengthens the two safety properties to jobs that do not exist yet and to runs
  of the job's kind. From it `RunTypes`, `RetryIsNotRefused`, `DoneHasResult`,
  `RunIsItsOwn`.
* **RecalcChainProofs.** `CollectedIsDue`: not inductive, because a source
  is settled one step after it asked; `TellingAsks` covers the gap. `OwnStandsIn`, of
  `CalcAsked`: a source that has told is taken in, or due, or was stood for by a calc
  with parameters of its own (`ToldAreDue`). Every step of `CalcAsked` is one of
  `RecalcChain`, so its types and `CollectedIsDue` hold there too.
* **WalkChainProofs**, the chain. `LatestWalked`, with `TargetIsWanted`: a walk that is
  interrupted waits again with the params that made it due.
* **WalkChainProofs**, the search. `NearestTrue`, for every network and placing. The
  reference, rounds of relaxation, is the greatest function below the outset that no edge
  shortens, and each of its values is one of the outset or comes by an edge (`ShortestIs`);
  the rounds reach it because each settles one vertex more, the nearest that is not right
  (`RoundsReach`). `NearInvariant`: what is settled or waits is the length of a
  way (`TrueWays`), the heap is never nearer than what is settled (`FarOff`), labels are in
  order and of different facilities (`InOrder`), and a facility that reaches a vertex by its
  place or by an edge is settled there, waits, or comes too late (`Followed`). Once the heap
  is empty nobody waits, and at the nearest vertex that a facility has missed it would have
  come by an edge from one that passed it on or is full of nearer ones (`AllCome`,
  `FullPassesOn`). The i-th label and the i-th nearest are equally far by counting
  (`SettledNearest`).
* **SlotsProofs.** `SlotMakesOneJob`, by counting the slots that have a job, and
  `SlotIsServed`. The latter speaks of slots whose time is over; it is kept up by
  `LookedServed` (once a thread has looked, each due slot is served or still on its
  list) and `SlotsServed` (a slot that has a job is served), because a slot is
  passed over only where it is served.
* **PostHistoryProofs.** `ShortfallCloses`. What a step closes depends on what
  made a code done, many steps before: `DoneHasRows` says that of the facilities a
  done or saved code lists, those without a row under it were dropped or are within
  the tolerance, doubtful codes aside, and `GotHasRows` the same of the pages of the code
  being fetched. `EndCode` turns one into the other by counting: where a number was told and
  nothing came twice, what was counted is what was received (`CompleteLacksFew`). Other codes, the
  deletion of a code's old rows, interruption and resumption keep it up.
  `DoneMatches`: rows name a code the facility is listed under (`RowsListed`), and once the
  merge is made, the history has the rows of the run, and nothing else open under a code
  that is done and has brought rows (`HistFollows`).
  `RowsSummedOnce`, of `Recodes`: through all changes a number says which piece of land a unit
  is, and a name in a province of the outset says the number (`UnitsFit`). A province that
  appears in the month in which another is gone has the numbers of that one, whichever
  change it was (`Carries`). So where at most one change lies between two months (`Gap`) the unit that `sido_recodes` joins is the one of the same
  number (`Joined`), which makes aliases, matches and rows of one piece of land (`AliasTrue`,
  `MapTrue`).
* **CollectorsProofs.** The theorems about a collector's end share one shape: as long as
  a run has met no failure, every unit is still to do, has what it needs, or has the
  excuse the property grants; nothing is to do when the run ends.
  * `DoneWhole`: provinces with their districts' boundaries (`EachHasAreas`), districts
    with people (`EachHasPeople`), subdistricts of OA (`EachHasOa`). A month of the window is
    still to do or was loaded once its recheck was due (`EachLoaded`; `LoadInv` says which
    months the calendar leaves to a run), and what Kosis has written when no province
    failed is all there is (`AllReplaced`).
  * `UnreplacedKept`: a province that was passed over by Kosis has values in memory or a
    failure that keeps the transaction from replacing its year (`EachAnswered`); a year of
    holidays and a call of the air forecast are replaced by what was received.
  * `RouteKept`: a call that waits is for a pair whose row it may replace (`CallsFit`).
  * `OpenStaysCurrent`: a branch that was open all through a full run, and that no answer
    left out, was seen, or lies in a tile still to do (`EachSeen`), of the tile in hand on a
    page still to come (`PagesSeen`); a tile that is divided leaves its quarters, and the pages
    that another is asked for hold all its branches (`PagesHoldAll`). A branch that opens or
    closes between the pages of a tile takes those of the tile out of `since`.
  * `ListedKept`: what is listed all the time was touched or is on a later page, while
    nothing is dropped from the list (`StillToCome`); what was touched is stored (`InKind`).
  * `MonthWhole`: while the list stays, each row of the pages that came is added up once
    (`Exact`); when rows changed places, rows of the list, none of them twice and as many
    as it is long, are all of them (`OfList`, `AllOnce`).
  * `FetchedStored`: `StoredStays` (what an execution has stored is at least of its base, for
    no cell gives way to an older one) and `EndedHasAll` (no future is left when it ends).
  * `KnownNotGivenUp`: `NoneNotFound`, which rests on `AsksForUnit`, the address that is asked
    for is that of the facility in hand.
  * `MapFollows`: a calc that is to commit has read the boundaries as they are, unless they
    changed under it (`ReadIsCurrent`), what is in the map is of them (`MapIsCurrent`), and
    a run that has changed some is still to delete it.
  * `StandsInIfTold`: the year that is pinned was told to be the newest (`PinnedIsTold`), and
    rows of this run are of it (`RowsArePinned`).
* **AnswersProofs.**
  * `ScenInvariance`, `AnswersStored`: what a client has in hand is stored or its own (`Held`),
    scenarios of one key exist once in whatever place (`Unique`, `OpenApart`), and numbers
    of calc runs are never given again (`Bounded`), without which a pruned run's answers
    would come back as another's.
  * `SaidAnswered`: attempts, entries and what was last heard go together at each step.
  * `VisitCurrent`: a body that is kept under a version, or will be, is as new as the version
    says (`Sound`). That it is as new as what was there for whoever reads the same version
    later (`Serves`) follows by counting: as many cells of the body have the newest base as
    there are, so they are the same cells (`SoundServes`).
  * `ServedCurrent`: what is kept under a version is no older than the walk whose second the
    version has (`NoOlder`), and the version that a request has read is that of a walk no
    older than its beginning (`Told`, `RequestSound`).
  * `LimitsKept`: a request let through was counted in Redis, before a loss of it or since, or
    had no answer (`PassedCounted`). A row, written or about to be, was counted in Redis in
    this hour (`RowsCounted`), is one of what its process still had left, which each thread
    that is late with its hour may give back once (`AloneCounted`), or is late itself, once
    a thread (`LateCounted`). Counters and marks live as long as their window (`Windows`,
    `MarksHold`).
  * `ImpactsDoAgree`: block by block, what the code takes from a row of distances, the least, the
    least but one, the nearest in reach, is what the reference says of all of them
    (`LeastOf`, `NearestIsLeast`, `ClosedFar`), so the same blocks are added up
    (`SplitSums`). Rounding keeps the order of distances and moves a limit by `Slack`, so that
    a block for which both sides differ has an office at the edge. `CalcMade` and `WalkedWith` keep what the tables were made from.
  * `ShortcutsExact`: the first of an area's ranks that is left is the nearest that is left
    (`FirstIsNearest`), and where more ranks are kept than may close one is left
    (`SomeLeft`). A sum changes only by the areas it touches (`TouchedOnly`, `TotalAdds`).
    `Closed`: each step of a plan costs what closing the facility adds, and no candidate adds
    less. `Opened`: the distances in hand are those with the picked sites, gains add up to
    what is saved, and no site that remains gains more than one that was told.
  * `WorstDoesShow`: what an hour alone is judged by is there in a day that has it, so no level of
    the day is lower (`LevelsGrow`).
* **FiniteLemmas** has what these rest on. Sums are proved about without induction over the
  data: a sum is the size of a tally (`Sums`), and what should hold of all subsets is
  refuted at a least one for which it fails (`LeastSubset`).

What the later modules assume of their constants, and why the code grants it: an area, a
facility and a pair of districts come once in a list that has them (primary keys, `dict`s and
SELECT DISTINCT); Kosis's `Active` provinces are among those it asks for, being found there;
the start tiles of `Banks` cover every branch, as KOREA_BBOX does the
country (banks.py:104); edges of `Nearest` have a length (walk/graph.py:132); tables have a distance, or one beyond all, for each pair; `Walk30 < Reach` in `Impacts` (0.8 m/s in 30
minutes are 1440 m, walk/compute.py:102, and walk_limit_m is 3000, core/config.py:58); in
`Planning` more facilities exist than a plan may close and TOP_N is more than MAX_K
(features/plan/service.py:28); amounts of rain and snow are not negative in `Assess`
(domain/visit.py:39); in `Recodes` no two units share a number, nor a name within a province, and
an area is a unit or a district of one, whose code and name no unit has (the ministry's
rows are of cities, not of their districts: migration.py:150-169).

Only model-checked: `PromptJobsEnd`, liveness, which is out of the prover's reach together
with ENABLED.

`SlotTypeOK`, `ChainTypeOK` and `WalkTypeOK` are only proved.

## 5. Not modelled

* Data quality records, the order of schema migrations, the smoke test of upstreams,
  scripts and the web: input and output, or one actor at a time.
* Metric SQL over geography, ratios, ranks and percentiles; building the graph from
  OSM tags; parsers, normalisation of names and geometry; queries that only fill a
  page: functions of data, without steps that interleave.
* The age limit of open runs (`STALE_HOURS`), which is time: in `JobRuns` an open run
  refuses for ever, so a run that stays open after its process died between
  finish and close_runs (worker.py:77) blocks more in the model than in the code.
* The gap between check and insert of start_run is in `JobRuns` (`CheckRunning`,
  `OpenRun`), without a property: two runs of a kind may be open, by a CLI command.

## 6. Plan

Done: the queue with its chains, schedule and runs, and calcs with parameters of their
own; the collectors; the clients' calls, cached answers, limits; the sums and their
shortcuts; proofs of all the safety properties.

Left: the collectors as sources of `RecalcChain`. That module takes from `Months` that
an execution reports `changed` when it has stored a month (`done` of `Collect` is not
empty, migration.py:315), which is its `Store`; the two are not composed. The other
reason for `changed`, a map of districts that came out different, is not modelled.
