------------------------------ MODULE SgisAreas ------------------------------
(***************************************************************************)
(* collector/sgis/pipeline.py: the boundaries of districts (level 2) and   *)
(* of what lies below them (level 3), province by province, of one source  *)
(* year; and the mapping of facilities to areas, which calc fills where    *)
(* there is none and a collection of boundaries deletes at its end.        *)
(* collect_population has the same loop.                                   *)
(***************************************************************************)
EXTENDS Collect

CONSTANTS
  Sidos,        \* _target_sido, in order
  DistrictsOf,  \* [sido -> the districts SGIS lists below it]
  YearsBack,    \* 2: the oldest year that stands in for the stat year
  NoMap         \* facility_area_map holds nothing of the stat year

ASSUME SgisAssumption ==
  /\ YearsBack \in Nat
  /\ Sidos \in Seq(DOMAIN DistrictsOf) /\ DOMAIN DistrictsOf \subseteq {Sidos[i] : i \in DOMAIN Sidos}

VARIABLES
  src,     \* src_year, counted back from the stat year
  told,    \* years that SGIS has said it has nothing of, in this run
  level2,  \* [district -> run and source year of its mart.admin_area row]
  level3,  \* the same of the areas below the district
  below,   \* districts whose level 3 is asked for one by one
  deep,    \* the province in hand has its level 2 stored
  bare,    \* districts SGIS has listed nothing of, or below, in this run
  pop,     \* [district -> run that stored its population]
  totals,  \* the provinces whose row has a population
  what,    \* the run in hand collects "boundaries" or "populations"
  map,     \* facility_area_map: the boundaries it was made of, or NoMap
  calc,    \* the running calculation: what it has read, and its part of the map
  fresh,   \* the last calc ran alone, and boundaries have not changed since
  spoilt   \* boundaries were stored by a run cut short, or deleted the map under a calc

areaVars == <<src, told, level2, level3, below, deep, bare>>
popVars == <<pop, totals, what>>
mapVars == <<map, calc, fresh, spoilt>>
sgisVars == <<areaVars, popVars, mapVars>>

District == UNION {DistrictsOf[s] : s \in {Sidos[i] : i \in DOMAIN Sidos}}
NoYear == YearsBack + 1   \* None
Areas == <<level2, level3>>
Idle == [areas |-> NoMap, part |-> "none", at |-> 0]

SgisInit ==
  /\ src = NoYear /\ told = {} /\ below = {} /\ deep = FALSE /\ bare = {}
  /\ level2 = [d \in District |-> <<0, 0>>] /\ level3 = level2
  /\ pop = [d \in District |-> 0] /\ totals = {} /\ what = "none"
  /\ map = NoMap /\ calc = Idle /\ fresh = FALSE /\ spoilt = FALSE

BoundariesBegin ==
  /\ Begin(Sidos) /\ what' = "boundaries" /\ src' = NoYear /\ told' = {} /\ below' = {} /\ deep' = FALSE /\ bare' = {}
  /\ UNCHANGED <<level2, level3, pop, totals, mapVars>>

\* Which year's boundaries: the pinned one, or else the newest that has any.
\* Another year is tried only where SGIS says it has nothing of this one.
OlderAnyhow(answer) == TRUE
Older(answer) == answer = "none"

YearsToTry == IF src # NoYear THEN <<src>> ELSE [i \in 1 .. YearsBack + 1 |-> i - 1]
Answers == [1 .. Len(YearsToTry) -> {"some", "none", "error"}]
Asked(a) == {i \in DOMAIN a : \A j \in 1 .. i - 1 : a[j] # "some" /\ Older(a[j])}
Found(a) == {i \in Asked(a) : a[i] = "some"}
ToldBy(a) == {YearsToTry[i] : i \in {j \in Asked(a) : a[j] = "none"}}

\* Boundaries have changed: no calc has seen them as they are now.
Stored == fresh' = FALSE /\ UNCHANGED <<map, calc, spoilt>>

Level2 ==
  /\ Held /\ what = "boundaries" /\ ~deep
  /\ \E a \in Answers : \E i \in Found(a) :
       /\ src' = YearsToTry[i] /\ told' = told \cup ToldBy(a)
       /\ level2' = [d \in District |-> IF d \in DistrictsOf[Unit] THEN <<run, YearsToTry[i]>> ELSE level2[d]]
  /\ deep' = TRUE /\ Stored /\ UNCHANGED <<level3, below, bare, popVars>>
Level2Failed ==
  /\ Failure /\ what = "boundaries" /\ ~deep
  /\ \E a \in Answers : Found(a) = {} /\ told' = told \cup ToldBy(a)
  /\ UNCHANGED <<src, level2, level3, below, deep, bare, popVars, mapVars>>

\* Level 3 of the province at once; if that fails or is empty, of each district.
Level3 ==
  /\ Success /\ deep /\ below = {} /\ deep' = FALSE
  /\ level3' = [d \in District |-> IF d \in DistrictsOf[Unit] THEN <<run, src>> ELSE level3[d]]
  /\ Stored /\ UNCHANGED <<src, told, level2, below, bare, popVars>>
Level3Empty ==
  /\ Held /\ deep /\ below = {} /\ below' = DistrictsOf[Unit]
  /\ UNCHANGED <<src, told, level2, level3, deep, bare, popVars, mapVars>>

\* A district of the province; the province is done with its last one, although
\* its failed districts are noted.
AfterDistrict(d, fails) ==
  /\ Busy /\ deep /\ below' = below \ {d} /\ deep' = (below' # {})
  /\ failed' = IF fails THEN failed \cup {d} ELSE failed
  /\ todo' = IF deep' THEN todo ELSE Tail(todo)
  /\ done' = IF deep' THEN done ELSE done \cup {Unit}
  /\ UNCHANGED <<run, status, stopped, src, told, level2, popVars>>
DistrictStored(d) ==
  /\ d \in below /\ AfterDistrict(d, FALSE)
  /\ \/ level3' = [level3 EXCEPT ![d] = <<run, src>>] /\ Stored /\ UNCHANGED bare
     \/ bare' = bare \cup {d} /\ UNCHANGED <<level3, mapVars>>
DistrictFailed(d) == d \in below /\ AfterDistrict(d, TRUE) /\ UNCHANGED <<level3, bare, mapVars>>

\* The last transaction deletes the mapping: rows a calc has not committed yet
\* escape it.
NotUnmapped == map
Unmapped == NoMap
BoundariesEnd ==
  /\ what = "boundaries" /\ Finish(Outcome(done # {}))
  /\ map' = Unmapped /\ spoilt' = (calc # Idle) /\ fresh' = FALSE
  /\ UNCHANGED <<areaVars, popVars, calc>>
StoredOne == \E d \in District : level2[d][1] = run \/ level3[d][1] = run
BoundariesInterrupted ==
  /\ what = "boundaries" /\ Interrupted /\ deep' = FALSE /\ below' = {}
  /\ spoilt' = (spoilt \/ StoredOne)
  /\ UNCHANGED <<src, told, level2, level3, bare, popVars, map, calc, fresh>>

\* collect_population: a row of the province without its total, then level by
\* level, then the totals.
PopBegin ==
  /\ Begin([i \in 1 .. 2 * Len(Sidos) |-> <<Sidos[(i + 1) \div 2], IF i % 2 = 1 THEN 2 ELSE 3>>])
  /\ what' = "populations" /\ totals' = {} /\ bare' = {}
  /\ UNCHANGED <<src, told, level2, level3, below, deep, pop, mapVars>>
\* An answer may have no rows, which is no failure.
PopLevel ==
  /\ what = "populations"
  /\ \/ /\ Success
        /\ LET ds == IF Unit[2] = 2 THEN DistrictsOf[Unit[1]] ELSE {} IN
             \/ pop' = [d \in District |-> IF d \in ds THEN run ELSE pop[d]] /\ UNCHANGED bare
             \/ bare' = bare \cup ds /\ UNCHANGED pop
     \/ Failure /\ UNCHANGED <<pop, bare>>
  /\ UNCHANGED <<src, told, level2, level3, below, deep, totals, what, mapVars>>
PopEnd ==
  /\ what = "populations" /\ Finish(Outcome(done # {}))
  /\ totals' = {s \in DOMAIN DistrictsOf : \E d \in DistrictsOf[s] : pop[d] > 0}
  /\ UNCHANGED <<pop, what, areaVars, mapVars>>
PopInterrupted == what = "populations" /\ Interrupted /\ UNCHANGED sgisVars

\* execute_calc_run: it reads the boundaries, adds the rows of the mapping that
\* are missing, and commits; each statement sees what is committed by then.
CalcReads ==
  /\ calc = Idle /\ calc' = [areas |-> Areas, part |-> "none", at |-> IF status = "RUNNING" THEN 0 ELSE run]
  /\ UNCHANGED <<runVars, areaVars, popVars, map, fresh, spoilt>>
CalcMaps ==
  /\ calc # Idle /\ calc.part = "none"
  /\ calc' = [calc EXCEPT !.part = IF map = NoMap THEN "added" ELSE "there"]
  /\ UNCHANGED <<runVars, areaVars, popVars, map, fresh, spoilt>>
CalcCommits ==
  /\ calc.part # "none" /\ calc' = Idle
  /\ map' = IF calc.part = "added" THEN calc.areas ELSE map
  /\ fresh' = (status # "RUNNING" /\ calc.at = run)
  /\ UNCHANGED <<runVars, areaVars, popVars, spoilt>>

PopNext == PopBegin \/ PopLevel \/ PopEnd \/ PopInterrupted
AreasNext ==
  \/ BoundariesBegin \/ Level2 \/ Level2Failed \/ Level3 \/ Level3Empty
  \/ \E d \in District : DistrictStored(d) \/ DistrictFailed(d)
  \/ BoundariesEnd \/ BoundariesInterrupted
  \/ CalcReads \/ CalcMaps \/ CalcCommits
AreasSpec == CollectInit /\ SgisInit /\ [][AreasNext]_<<runVars, sgisVars>>

-----------------------------------------------------------------------------
\* Boundaries of an older year stand in only where SGIS has said, in the same
\* run, that it has nothing of every newer year; and what a run stores is of one
\* year, whichever provinces failed on the way (the comment at line 227).
StandsInOnlyIfTold ==
  \A d \in District : \A row \in {level2[d], level3[d]} :
    row[1] = run /\ what = "boundaries" => row[2] = src /\ 0 .. src - 1 \subseteq told

\* A run that ends DONE has stored every district, and below each of them what
\* SGIS has; a run of populations every province's total.
DoneIsWhole ==
  status = "DONE" =>
    /\ what = "boundaries" => \A d \in District : level2[d][1] = run /\ (level3[d][1] = run \/ d \in bare)
    /\ what = "populations" => \A s \in DOMAIN DistrictsOf : \A d \in DistrictsOf[s] :
                                 (pop[d] = run /\ s \in totals) \/ d \in bare

\* After boundaries have changed, the next calculation makes the mapping of
\* facilities to areas anew (the comment at line 276).
MapIsRebuilt == fresh => map = Areas
\* It does so unless the boundaries' run was cut short after it had stored
\* some, or deleted the mapping while a calculation had its rows uncommitted.
MapFollowsAreas == ~spoilt => MapIsRebuilt
=============================================================================
