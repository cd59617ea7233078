-------------------------------- MODULE Visit --------------------------------
(***************************************************************************)
(* features/visit.py: the conditions of one day are put together when they *)
(* are asked for, from forecasts that come in grid by grid, of the air     *)
(* code by code, and from the latest calc run; a body is kept under a      *)
(* version of what it was read from.  Every statement sees what has been   *)
(* committed by then.                                                      *)
(***************************************************************************)
EXTENDS Naturals, FiniteSets, FiniteSetsExt

CONSTANTS
  Visitors,          \* requests
  Cells,             \* grid cells
  AirCodes,             \* PM10 and PM25
  LastBase, LastAir, MaxInputs   \* bounds: bases, announcements, changes of the inputs

ASSUME VisitAssumption ==
  /\ {LastBase, LastAir, MaxInputs} \subseteq Nat
  /\ IsFiniteSet(Cells) /\ Cells # {} /\ IsFiniteSet(AirCodes) /\ AirCodes # {}
  /\ Cells \cap AirCodes = {}

VARIABLES
  hours,      \* [cell -> base_at of its hours of the day in mart.weather_hourly, or 0]
  airAt,      \* [code -> announced_at of its rows in mart.air_forecast, or 0]
  calcRun,    \* the latest DONE calc run
  inputs,     \* changes of these so far
  unseen,     \* cells and codes that last changed behind others of theirs
  kept,       \* Redis: {<<version, body>>}
  visit,      \* [visitor -> how far it is]
  from,       \* [visitor -> what was true when it asked, but for what escaped the version]
  version,    \* [visitor -> the version it read]
  body        \* [visitor -> what it has read, or what it is answered]

visitVars == <<hours, airAt, calcRun, inputs, unseen, kept, visit, from, version, body>>

VisitInit ==
  /\ hours = [g \in Cells |-> 0] /\ airAt = [a \in AirCodes |-> 0] /\ calcRun = 0 /\ inputs = 0 /\ unseen = {}
  /\ kept = {} /\ visit = [v \in Visitors |-> "idle"]
  /\ from = [v \in Visitors |-> [hours |-> hours, air |-> airAt, calc |-> 0]] /\ version = [v \in Visitors |-> <<>>] /\ body = from

Newest(f) == Max({f[x] : x \in DOMAIN f})
AtNewest(f) == {x \in DOMAIN f : f[x] = Newest(f)}

-----------------------------------------------------------------------------
\* What changes the inputs: upsert_hours of a cell, in a commit of its own;
\* the codes of a collection of the air forecast, in one; a calc run that ends.
\* Neither gives way to something older.
InputChanges == inputs < MaxInputs /\ inputs' = inputs + 1 /\ UNCHANGED <<kept, visit, from, version, body>>
HoursStored(g, base) ==
  /\ InputChanges /\ hours[g] <= base /\ hours' = [hours EXCEPT ![g] = base]
  /\ unseen' = IF base < Newest(hours) THEN unseen \cup {g} ELSE unseen \ {g}
  /\ UNCHANGED <<airAt, calcRun>>
AirStored(codes, at) ==
  /\ InputChanges /\ airAt' = [a \in AirCodes |-> IF a \in codes /\ airAt[a] <= at THEN at ELSE airAt[a]]
  /\ unseen' = IF at <= Newest(airAt) THEN unseen \cup {a \in codes : airAt[a] < at} ELSE unseen \ codes
  /\ UNCHANGED <<hours, calcRun>>
Calculates ==
  /\ InputChanges /\ calcRun' = calcRun + 1
  /\ UNCHANGED <<hours, airAt, unseen>>

-----------------------------------------------------------------------------
inputVars == <<hours, airAt, calcRun, inputs, unseen>>
Goes(v, p) == visit' = [visit EXCEPT ![v] = p]
NewestOnly == <<Newest(hours), Newest(airAt), calcRun>>
\* _version: the newest base and how many rows came with it, the newest
\* announcement, the latest calc run.
Version == <<Newest(hours), Cardinality(AtNewest(hours)), Newest(airAt), calcRun>>

\* A request begins with its version.
ReadsVersion(v) ==
  /\ visit[v] = "idle" /\ Goes(v, "cache") /\ version' = [version EXCEPT ![v] = Version]
  /\ from' = [from EXCEPT ![v] = [hours |-> [g \in Cells |-> IF g \in unseen THEN 0 ELSE hours[g]],
                                  air |-> [a \in AirCodes |-> IF a \in unseen THEN 0 ELSE airAt[a]], calc |-> calcRun]]
  /\ UNCHANGED <<inputVars, kept, body>>
\* The body is in the cache, or it is read: a miss, one expired, or no Redis.
Hits(v) ==
  /\ visit[v] = "cache" /\ Goes(v, "said")
  /\ \E k \in kept : k[1] = version[v] /\ body' = [body EXCEPT ![v] = k[2]]
  /\ UNCHANGED <<inputVars, kept, from, version>>
Misses(v) ==
  /\ visit[v] = "cache" /\ Goes(v, "hours") /\ body' = [body EXCEPT ![v].calc = calcRun]
  /\ UNCHANGED <<inputVars, kept, from, version>>
ReadsHours(v) ==
  /\ visit[v] = "hours" /\ Goes(v, "air") /\ body' = [body EXCEPT ![v].hours = hours]
  /\ UNCHANGED <<inputVars, kept, from, version>>
\* Without any forecast it is a 404, which nothing keeps.
ReadsAir(v) ==
  /\ visit[v] = "air" /\ body' = [body EXCEPT ![v].air = airAt]
  /\ Goes(v, IF Newest(body[v].hours) = 0 /\ Newest(airAt) = 0 THEN "404" ELSE "keep")
  /\ UNCHANGED <<inputVars, kept, from, version>>
Keeps(v) ==
  /\ visit[v] = "keep" /\ Goes(v, "said")
  /\ \/ kept' = {k \in kept : k[1] # version[v]} \cup {<<version[v], body[v]>>}
     \/ UNCHANGED kept   \* no Redis
  /\ UNCHANGED <<inputVars, from, version, body>>

VisitNext ==
  \/ \E g \in Cells, base \in 1 .. LastBase : HoursStored(g, base)
  \/ \E codes \in SUBSET AirCodes, at \in 1 .. LastAir : codes # {} /\ AirStored(codes, at)
  \/ Calculates
  \/ \E v \in Visitors :
       \/ ReadsVersion(v) \/ Hits(v) \/ Misses(v) \/ ReadsHours(v)
       \/ ReadsAir(v) \/ Keeps(v)
VisitSpec == VisitInit /\ [][VisitNext]_visitVars

-----------------------------------------------------------------------------
\* No answer is older, in any of its cells and codes, than what was committed
\* when it was asked for, although the inputs change a cell at a time under
\* those who read and keep (visit.py:144-146).  Two kinds of change escape the
\* version: a cell of an older base that comes after a newer base of another,
\* and a code that comes after another's of the same announcement.
VisitIsCurrent ==
  \A v \in Visitors : visit[v] = "said" =>
    /\ \A g \in Cells : body[v].hours[g] >= from[v].hours[g]
    /\ \A a \in AirCodes : body[v].air[a] >= from[v].air[a]
    /\ body[v].calc >= from[v].calc
=============================================================================
