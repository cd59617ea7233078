-------------------------------- MODULE Roads --------------------------------
(***************************************************************************)
(* collector/kakao/road.py: road distances of (area, facility) pairs, as   *)
(* many as a run may ask for.  A pair whose route from the area's point    *)
(* fails or is a long detour is tried once more from where people live.    *)
(***************************************************************************)
EXTENDS Collect, SequencesExt

CONSTANTS
  RoadPairs, \* the pairs of areas and their nearest facilities, in order
  HasOa,     \* pairs whose area has a small area (oa_area) with a point
  MaxCalls   \* road_max_calls

\* _TODO: an area with each of its nearest facilities, once.
ASSUME RoadAssumption ==
  /\ MaxCalls \in Nat /\ RoadPairs \in Seq(ToSet(RoadPairs))
  /\ \A i, j \in DOMAIN RoadPairs : RoadPairs[i] = RoadPairs[j] => i = j

VARIABLES road   \* [pair -> its mart.area_road: status, origin, and whether it is a long detour]
roadVars == <<road>>

Pair == ToSet(RoadPairs)
Never == [st |-> "none", origin |-> "REP", far |-> FALSE]
RoadInit == road = [p \in Pair |-> Never]

Todo(r) == Only(RoadPairs, {p \in Pair : r[p].st \notin {"OK", "NO_ROUTE"}})
Suspect(p, r) == p \in HasOa /\ r[p].origin = "REP" /\ (r[p].st = "NO_ROUTE" \/ r[p].far)
Repairs(r) == Only(RoadPairs, {p \in Pair : Suspect(p, r)})
Upto(s, n) == SubSeq(s, 1, Min({n, Len(s)}))
Calls(p, origin) == [pair |-> p, origin |-> origin]

RoadBegin ==
  /\ LET new == Upto(Todo(road), MaxCalls)
         old == Upto(Repairs(road), MaxCalls - Len(new))
     IN  Begin([i \in DOMAIN new |-> Calls(new[i], "REP")] \o [i \in DOMAIN old |-> Calls(old[i], "OA")])
  /\ UNCHANGED road

Overwritten(row, st, far) == [st |-> st, origin |-> "OA", far |-> far]
\* A repair that brings no route leaves the row as it is, and is not repeated.
Repaired(row, st, far) ==
  IF st = "OK" THEN [st |-> st, origin |-> "OA", far |-> far] ELSE [row EXCEPT !.origin = "OA"]

\* result_code 0 and 104 are routes; another code, none; no code, no answer.
Routed ==
  /\ Passed
  /\ \E st \in {"OK", "NO_ROUTE", "ERROR"} : \E far \in BOOLEAN :
       /\ far => st = "OK"
       /\ road' = [road EXCEPT ![Unit.pair] =
            IF Unit.origin = "REP" THEN [st |-> st, origin |-> "REP", far |-> far] ELSE Repaired(@, st, far)]
RoadStop == Break /\ UNCHANGED road
RoadEnd ==
  /\ Finish(IF stopped \/ Todo(road) # <<>> \/ Repairs(road) # <<>> THEN "PARTIAL" ELSE "DONE")
  /\ UNCHANGED road
RoadInterrupted == Interrupted /\ UNCHANGED road

RoadNext == RoadBegin \/ Routed \/ RoadStop \/ RoadEnd \/ RoadInterrupted

-----------------------------------------------------------------------------
\* A route once found stays found: neither a repair that fails, nor a run that
\* stops or breaks, takes it away; and a pair is repaired at most once (line 104).
RouteIsKept ==
  [][\A p \in Pair :
       /\ road[p].st = "OK" => road'[p].st = "OK"
       /\ road[p].origin = "OA" => road'[p].origin = "OA"]_roadVars
=============================================================================
