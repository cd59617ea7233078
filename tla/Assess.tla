------------------------------- MODULE Assess --------------------------------
(***************************************************************************)
(* domain/visit.py, assess: the conditions of a visit on one day, 0 good,  *)
(* 1 caution, 2 bad, from hourly forecasts, which come hour by hour and    *)
(* may lack values, and from the grades of the air.                        *)
(***************************************************************************)
EXTENDS Integers, FiniteSets, FiniteSetsExt, Functions

CONSTANTS
  DayHours,    \* hours of the day with forecasts
  Forecasts,   \* what an hour may bring: [tmp, pty, pcp, sno, wsd]
  Untold       \* a value that is missing

ASSUME AssessAssumption ==
  /\ DayHours \subseteq Nat /\ Untold \notin Int
  /\ Forecasts \subseteq [tmp : Int \cup {Untold}, pty : Int \cup {Untold}, pcp : Nat \cup {Untold},
                        sno : Nat \cup {Untold}, wsd : Int \cup {Untold}]

VARIABLES
  day,   \* [hour -> its forecast], of the hours that have one
  air    \* [PM10, PM25 |-> grade, or Untold]

assessVars == <<day, air>>

Grades == {Untold, "good", "bad", "very bad"}
AssessInit == day = <<>> /\ air = [PM10 |-> Untold, PM25 |-> Untold]

\* upsert_hours and collect_air: a later announcement takes the place of another.
HourComes(h, f) == day' = [k \in DOMAIN day \cup {h} |-> IF k = h THEN f ELSE day[k]] /\ UNCHANGED air
AirComes(code, g) == air' = [air EXCEPT ![code] = g] /\ UNCHANGED day
AssessNext ==
  \/ \E h \in DayHours, f \in Forecasts : HourComes(h, f)
  \/ \E code \in DOMAIN air, g \in Grades : AirComes(code, g)
AssessSpec == AssessInit /\ [][AssessNext]_assessVars

-----------------------------------------------------------------------------
\* WINDOW_HOURS: the counters are open from 9 to 18.
InWindow(d) == DOMAIN d \cap 9 .. 18
Values(d, field) == {d[h][field] : h \in InWindow(d)} \ {Untold}
Amount(d, field) == SumFunction([h \in InWindow(d) |-> IF d[h][field] = Untold THEN 0 ELSE d[h][field]])
HoursOf(d, types) == {h \in InWindow(d) : d[h].pty \in types}
Snowy(d) == Cardinality(HoursOf(d, {2, 3}))
Rainy(d) == Cardinality(HoursOf(d, {1, 2, 4}))
\* The snow is told already, if all the rain is sleet: their hours are as many.
AllSleet(d) == Snowy(d) > 0 /\ Rainy(d) = Snowy(d)

AtLeast(d, field, bound) == \E v \in Values(d, field) : v >= bound
AllAtMost(d, field, bound) == Values(d, field) # {} /\ \A v \in Values(d, field) : v <= bound
AtMost(d, field, bound) == \E v \in Values(d, field) : v <= bound
Either(caution, bad) == IF bad THEN {2} ELSE IF caution THEN {1} ELSE {}

\* Amounts of snow are in half centimetres.
Snow(d) == Either(Snowy(d) > 0 \/ Amount(d, "sno") > 0, Amount(d, "sno") >= 2)
Rain(d) == IF Rainy(d) = 0 \/ AllSleet(d) THEN {} ELSE Either(TRUE, Amount(d, "pcp") >= 30 \/ AtLeast(d, "pcp", 10))
Heat(d) == Either(AtLeast(d, "tmp", 31), AtLeast(d, "tmp", 33))
Cold(d) == Either(AtMost(d, "tmp", -5), AtMost(d, "tmp", -10))
Wind(d) == Either(AtLeast(d, "wsd", 9), AtLeast(d, "wsd", 14))
Dust(a) == UNION {Either(a[code] = "bad", a[code] = "very bad") : code \in DOMAIN a}

Levels(d, a) == Dust(a) \cup IF InWindow(d) = {} THEN {} ELSE Snow(d) \cup Rain(d) \cup Heat(d) \cup Cold(d) \cup Wind(d)
\* The air alone does not judge a day that has no forecast.
Level(d, a) == IF InWindow(d) = {} THEN Untold ELSE Max(Levels(d, a) \cup {0})
-----------------------------------------------------------------------------
Alone(h, f) == [k \in {h} |-> f]
\* A day is as bad as the worst of its hours is alone, in whatever order hours
\* and grades come, mixed or without some of their values (visit.py:129-175),
\* but for days whose rain is taken for sleet, where "10 mm in an hour is bad"
\* (visit.py:132) does not hold.
WorstHourShows ==
  \A h \in InWindow(day) : ~AllSleet(day) => Level(day, air) >= Level(Alone(h, day[h]), air)
=============================================================================
