------------------------------- MODULE Limits -------------------------------
(***************************************************************************)
(* Counters in Redis that keep public paths from flooding the service: the *)
(* rate limit of api/security.py, the reports of features/csp_reports.py   *)
(* and the error records of api/errors.py.  Redis may come back empty, and *)
(* any call may find it away, before or after it has counted.  What is     *)
(* counted in an hour may be written in the next one.  A process that is   *)
(* started anew is another process.                                        *)
(***************************************************************************)
EXTENDS Naturals, FiniteSets, Functions

CONSTANTS
  Threads,      \* that record reports and errors
  ProcessOf,    \* [thread -> its process of the API]
  Violations,   \* <<directive, origin>> of CSP reports
  Minute,       \* ticks of a window of the rate limit; an hour is two of them
  Limit,        \* requests of an address and a rule in a window
  HourlyMax,    \* HOURLY_MAX and APP_ERROR_HOURLY_MAX
  MaxClock, MaxLosses, MaxFree   \* bounds

ASSUME LimitsAssumption ==
  /\ {Minute, Limit, HourlyMax, MaxClock, MaxLosses, MaxFree} \subseteq Nat /\ Minute > 0
  /\ IsFiniteSet(Threads) /\ DOMAIN ProcessOf = Threads

VARIABLES
  path,      \* the counter looked at: they share nothing but Redis
  clock,
  redis,     \* [key -> [n, until]] of the keys that have been set
  losses,    \* times it came back empty
  request,   \* [thread -> how far its record is, and the hour it has read]
  local,     \* [process -> [hour, n]]: _local of errors.py
  passed,    \* requests let through in this window, ...
  free,      \* ... those of them without an answer of Redis
  rows,      \* rows of app_error written in this hour that Redis has counted in it
  alone,     \* [process -> those that it has counted by itself in it]
  overdue,   \* rows written in this hour that were counted in one before
  reported   \* {<<violation, time of its mark, losses then>>}: CSP rows of the last hour

limVars == <<path, clock, redis, losses, request, local, passed, free, rows, alone, overdue, reported>>

Hour == 2 * Minute
MinuteNow == clock \div Minute
HourNow == clock \div Hour
Processes == {ProcessOf[t] : t \in Threads}
Idle == [step |-> "idle", hour |-> 0, alone |-> FALSE, mark |-> {}]
LimInit ==
  /\ path \in {"requests", "reports", "errors"} /\ clock = 0 /\ redis = <<>> /\ losses = 0
  /\ passed = 0 /\ free = 0 /\ rows = 0 /\ alone = [p \in Processes |-> 0] /\ overdue = 0 /\ reported = {}
  /\ request = [t \in Threads |-> Idle] /\ local = [p \in Processes |-> [hour |-> 0, n |-> 0]]

\* Windows begin anew; what was marked an hour ago is no longer of interest.
Tick ==
  /\ clock < MaxClock /\ clock' = clock + 1
  /\ IF MinuteNow' = MinuteNow THEN UNCHANGED <<passed, free>> ELSE passed' = 0 /\ free' = 0
  /\ IF HourNow' = HourNow THEN UNCHANGED <<rows, alone, overdue>>
     ELSE rows' = 0 /\ alone' = [p \in Processes |-> 0] /\ overdue' = 0
  /\ reported' = {r \in reported : clock' - r[2] < Hour}
  /\ redis' = Restrict(redis, {k \in DOMAIN redis : redis[k].until > clock'})
  /\ UNCHANGED <<losses, request, local>>
Lost ==
  /\ losses < MaxLosses /\ losses' = losses + 1 /\ redis' = <<>>
  /\ UNCHANGED <<clock, request, local, passed, free, rows, alone, overdue, reported>>

\* A key lives until its time (Tick); INCR begins a new one.
Count(key) == IF key \in DOMAIN redis THEN redis[key].n ELSE 0
Set(key, n, until) ==
  redis' = [k \in DOMAIN redis \cup {key} |-> IF k = key THEN [n |-> n, until |-> until] ELSE redis[k]]
Incr(key, until) == Set(key, Count(key) + 1, until)
\* Nothing is learned: Redis is away, or it has counted and the answer is lost.
Unheard(key, until) == UNCHANGED redis \/ Incr(key, until)
\* cache.incr: EXPIRE with NX, only for a new key.
HourLife(key) == IF Count(key) > 0 THEN redis[key].until ELSE clock + Hour

\* hit: the key of a window of 60 s is good for 70 s from the last request.  An
\* error of Redis lets the request through.
ShortLife == Minute \div 2
KeyLife == Minute + 1
Hit ==
  LET key == <<"rl", MinuteNow>> IN
  /\ Count(key) <= Limit   \* bound: what is beyond is refused alike
  /\ \/ /\ Incr(key, clock + KeyLife)
        /\ passed' = IF Count(key) + 1 <= Limit THEN passed + 1 ELSE passed
        /\ UNCHANGED free
     \/ /\ free < MaxFree /\ Unheard(key, clock + KeyLife)
        /\ passed' = passed + 1 /\ free' = free + 1
  /\ UNCHANGED <<clock, losses, request, local, rows, alone, overdue, reported>>

Becomes(t, r) == request' = [request EXCEPT ![t] = r]
Unwritten == UNCHANGED <<clock, losses, passed, free, rows, alone, overdue, reported>>

\* csp_reports.record: the mark of the violation is set unless there is one,
\* and the hour is read; without the answer there is no record.
StartReport(t, v) ==
  /\ request[t].step = "idle"
  /\ Count(<<"csp", v>>) = 0 /\ Set(<<"csp", v>>, 1, clock + Hour)
  /\ \/ Becomes(t, [step |-> "count", hour |-> HourNow, alone |-> FALSE, mark |-> {<<v, clock, losses>>}])
     \/ UNCHANGED request
  /\ UNCHANGED local /\ Unwritten
\* _allow_record reads the hour.
StartError(t) ==
  /\ request[t].step = "idle"
  /\ Becomes(t, [Idle EXCEPT !.step = "count", !.hour = HourNow])
  /\ UNCHANGED <<redis, local>> /\ Unwritten

\* cache.incr.  Without a count a report is dropped and an error is counted
\* by its process.
RowKey(hour) == <<path, hour>>
CountRow(t) ==
  LET r == request[t]
      key == RowKey(r.hour)
  IN
  /\ r.step = "count" /\ Count(key) <= HourlyMax   \* bound: what is beyond is dropped alike
  /\ \/ Incr(key, HourLife(key)) /\ Becomes(t, IF Count(key) + 1 <= HourlyMax THEN [r EXCEPT !.step = "write"] ELSE Idle)
     \/ Unheard(key, HourLife(key)) /\ Becomes(t, IF path = "errors" THEN [r EXCEPT !.step = "alone"] ELSE Idle)
  /\ UNCHANGED local /\ Unwritten
\* Under _lock, with the hour read before: another than the last one counted
\* begins from nothing.
CountAlone(t) ==
  LET r == request[t]
      p == ProcessOf[t]
      n == IF local[p].hour = r.hour THEN local[p].n + 1 ELSE 1
  IN
  /\ r.step = "alone" /\ n <= HourlyMax + 1   \* bound
  /\ local' = [local EXCEPT ![p] = [hour |-> r.hour, n |-> n]]
  /\ Becomes(t, IF n <= HourlyMax THEN [r EXCEPT !.step = "write", !.alone = TRUE] ELSE Idle)
  /\ UNCHANGED redis /\ Unwritten

\* INSERT INTO ops.app_error, which may fail.
Written(t) ==
  LET r == request[t] IN
  /\ IF r.hour = HourNow
     THEN IF r.alone THEN alone' = [alone EXCEPT ![ProcessOf[t]] = @ + 1] /\ UNCHANGED <<rows, overdue>>
                     ELSE rows' = rows + 1 /\ UNCHANGED <<alone, overdue>>
     ELSE overdue' = overdue + 1 /\ UNCHANGED <<rows, alone>>
  /\ reported' = reported \cup r.mark
WriteRow(t) ==
  /\ request[t].step = "write" /\ Becomes(t, Idle)
  /\ Written(t) \/ UNCHANGED <<rows, alone, overdue, reported>>
  /\ UNCHANGED <<clock, redis, losses, local, passed, free>>

LimNext ==
  /\ UNCHANGED path
  /\ \/ Tick \/ Lost
     \/ path = "requests" /\ Hit
     \/ path = "reports" /\ \E t \in Threads, v \in Violations : StartReport(t, v)
     \/ path = "errors" /\ \E t \in Threads : StartError(t)
     \/ \E t \in Threads : CountRow(t) \/ CountAlone(t) \/ WriteRow(t)
LimSpec == LimInit /\ [][LimNext]_limVars

-----------------------------------------------------------------------------
\* No window lets more requests through than its limit, no hour writes more
\* rows than its own, also over keys that expire within it, and the same CSP
\* violation is marked and so written once in any hour (security.py:96,
\* csp_reports.py:75-78, errors.py:75).  The exceptions: every time that Redis
\* comes back empty it counts from nothing; a request that Redis gives no answer
\* for passes (security.py:98-99); without Redis each process counts errors by
\* itself, and begins anew after a thread that read the hour in the one before;
\* and a row counted in one hour may be written in the next one, by each thread
\* once.
LimitsHold ==
  /\ passed <= Limit * (1 + losses) + free
  /\ rows <= HourlyMax * (1 + losses)
  /\ \A p \in Processes : alone[p] <= HourlyMax * (1 + Cardinality({t \in Threads : ProcessOf[t] = p}))
  /\ overdue <= Cardinality(Threads)
  /\ \A r, q \in reported : r[1] = q[1] /\ r[3] = q[3] /\ r[2] <= q[2] /\ q[2] < r[2] + Hour => r = q
=============================================================================
