-------------------------- MODULE CollectorsProofs ---------------------------
(***************************************************************************)
(* What single collectors promise, for any units, sources and executions:  *)
(* the forecasts that are fetched are stored, an address is not given up   *)
(* for an error, calc maps facilities to the boundaries that are there,    *)
(* and boundaries of another year stand in only where SGIS has told so.    *)
(* Then what collections keep and that they leave nothing out: for every   *)
(* unit of the loop the invariants say that it is still to do, or has been *)
(* dealt with, or why not.                                                 *)
(***************************************************************************)
EXTENDS MCCollectors, FiniteLemmas, TLAPS

-----------------------------------------------------------------------------
(* Forecasts *)
FutureStates == Finished \cup Pending \cup {"stored", "failed", "over", "cancelled"}
KmaTypes ==
  /\ issued \in Nat /\ based \in [Executions -> Nat] /\ hourly \in [Grids -> Nat]
  /\ kma \in [Executions -> {"none", "RUNNING", "DONE", "PARTIAL", "FAILED", "BROKEN"}]
  /\ future \in [Executions -> [Grids -> FutureStates]]

\* What an execution has stored is there, from the moment it is stored, and only
\* an execution that has its base stores.
StoredStays ==
  \A e \in Executions, g \in Grids :
    future[e][g] = "stored" => kma[e] # "none" /\ hourly[g] >= based[e]
\* An execution ends with every future dealt with, and nothing comes after its end.
EndedHasAll ==
  \A e \in Executions, g \in Grids :
    kma[e] \in {"DONE", "PARTIAL", "FAILED"} => future[e][g] \notin Finished \cup Pending
KmaInv == KmaTypes /\ StoredStays /\ EndedHasAll

\* A future that changes into anything but "stored" disturbs nothing.
LEMMA BecomesOther ==
  ASSUME KmaInv, NEW e \in Executions, NEW g \in Grids, NEW st \in FutureStates \ {"stored"},
         future[e][g] \in Pending, Becomes(e, g, st), UNCHANGED <<issued, based, kma, hourly>>
  PROVE  KmaInv'
<1>1. future' \in [Executions -> [Grids -> FutureStates]]
  BY DEF KmaInv, KmaTypes, Becomes
<1>2. \A d \in Executions, h \in Grids : future'[d][h] = future[d][h] \/ (d = e /\ h = g /\ future'[d][h] = st)
  BY DEF KmaInv, KmaTypes, Becomes
<1> QED
  BY <1>1, <1>2 DEF KmaInv, KmaTypes, StoredStays, EndedHasAll

LEMMA WaitStep == ASSUME KmaInv, NEW e \in Executions, Wait(e) PROVE KmaInv'
<1>1. \A d \in Executions, h \in Grids : future'[d][h] = future[d][h] \/ future'[d][h] = "cancelled"
  BY DEF KmaInv, KmaTypes, Wait
<1>2. future' \in [Executions -> [Grids -> FutureStates]]
  BY DEF KmaInv, KmaTypes, Wait, FutureStates
<1>3. "cancelled" \notin Finished \cup Pending
  BY DEF Finished, Pending
<1> QED
  BY <1>1, <1>2, <1>3 DEF KmaInv, KmaTypes, StoredStays, EndedHasAll, Wait

LEMMA BrokenStep == ASSUME KmaInv, NEW e \in Executions, KmaBroken(e) PROVE KmaInv'
<1>1. \A d \in Executions, h \in Grids : future'[d][h] = future[d][h] \/ future'[d][h] = "cancelled"
  BY DEF KmaInv, KmaTypes, KmaBroken
<1>2. future' \in [Executions -> [Grids -> FutureStates]]
  BY DEF KmaInv, KmaTypes, KmaBroken, FutureStates
<1>3. "cancelled" \notin Finished \cup Pending
  BY DEF Finished, Pending
<1> QED
  BY <1>1, <1>2, <1>3 DEF KmaInv, KmaTypes, StoredStays, EndedHasAll, KmaBroken

\* No hour gives way to an older one, so what others have stored stays too.
LEMMA HandleStep == ASSUME KmaInv, NEW e \in Executions, NEW g \in Grids, Handle(e, g) PROVE KmaInv'
<1> DEFINE st == CASE future[e][g] = "rows" -> "stored" [] future[e][g] = "none" -> "failed" [] OTHER -> "over"
<1>1. st \in FutureStates /\ (st = "stored" => future[e][g] = "rows")
  BY DEF FutureStates
<1> HIDE DEF st
<1>2. future' = [future EXCEPT ![e][g] = st]
  BY DEF Handle, Becomes, st
<1>3. hourly' \in [Grids -> Nat] /\ \A h \in Grids : hourly'[h] >= hourly[h]
  BY DEF KmaInv, KmaTypes, Handle, Stores
<1>4. future[e][g] = "rows" => hourly'[g] >= based[e]
  BY DEF KmaInv, KmaTypes, Handle, Stores
<1>5. KmaTypes'
  BY <1>1, <1>2, <1>3 DEF KmaInv, KmaTypes, Handle
<1>6. \A d \in Executions, h \in Grids :
        future'[d][h] = IF d = e /\ h = g THEN st ELSE future[d][h]
  BY <1>2 DEF KmaInv, KmaTypes
<1>7. StoredStays'
  <2> SUFFICES ASSUME NEW d \in Executions, NEW h \in Grids, future'[d][h] = "stored"
               PROVE  kma'[d] # "none" /\ hourly'[h] >= based'[d]
    BY DEF StoredStays
  <2>1. kma' = kma /\ based' = based /\ kma[e] # "none"
    BY DEF Handle
  <2>2. CASE d = e /\ h = g
    BY <1>1, <1>4, <1>6, <2>1, <2>2
  <2>3. CASE ~(d = e /\ h = g)
    <3>1. kma[d] # "none" /\ hourly[h] >= based[d]
      BY <1>6, <2>3 DEF KmaInv, StoredStays
    <3> QED
      BY <1>3, <2>1, <3>1 DEF KmaInv, KmaTypes
  <2> QED
    BY <2>2, <2>3
<1>8. EndedHasAll'
  <2>1. st \notin Finished \cup Pending /\ kma' = kma /\ kma[e] = "RUNNING"
    BY DEF st, Finished, Pending, Handle
  <2> QED
    BY <1>6, <2>1 DEF KmaInv, EndedHasAll
<1> QED
  BY <1>5, <1>7, <1>8 DEF KmaInv

\* Every cell that an execution of collect_kma has fetched has its forecast or a
\* newer one (kma.py:137), for any number of cells, threads and executions.
THEOREM FetchedStored == KmaSpec => []FetchedIsStored
<1>1. KmaInit => KmaInv
  BY DEF KmaInit, KmaInv, KmaTypes, StoredStays, EndedHasAll, FutureStates, Pending
<1>2. KmaInv /\ [KmaNext]_kmaVars => KmaInv'
  <2> SUFFICES ASSUME KmaInv, [KmaNext]_kmaVars PROVE KmaInv'
    OBVIOUS
  <2>1. CASE Issue
    BY <2>1 DEF KmaInv, KmaTypes, StoredStays, EndedHasAll, Issue
  <2>2. ASSUME NEW e \in Executions, KmaBegin(e) PROVE KmaInv'
    BY <2>2 DEF KmaInv, KmaTypes, StoredStays, EndedHasAll, KmaBegin
  <2>3. ASSUME NEW e \in Executions, NEW g \in Grids, FetchBegins(e, g) PROVE KmaInv'
    BY <2>3, BecomesOther DEF FetchBegins, FutureStates, Pending
  <2>4. ASSUME NEW e \in Executions, NEW g \in Grids, FetchEnds(e, g) PROVE KmaInv'
    BY <2>4, BecomesOther DEF FetchEnds, FutureStates, Finished, Pending
  <2>5. ASSUME NEW e \in Executions, KmaEnd(e) PROVE KmaInv'
    BY <2>5 DEF KmaInv, KmaTypes, StoredStays, EndedHasAll, KmaEnd, With
  <2>6. CASE UNCHANGED kmaVars
    BY <2>6 DEF KmaInv, KmaTypes, StoredStays, EndedHasAll, kmaVars
  <2> QED
    BY <2>1, <2>2, <2>3, <2>4, <2>5, <2>6, WaitStep, HandleStep, BrokenStep DEF KmaNext
<1>3. KmaInv => FetchedIsStored
  BY DEF KmaInv, StoredStays, EndedHasAll, FetchedIsStored, With, Finished
<1> QED
  BY <1>1, <1>2, <1>3, PTL DEF KmaSpec

-----------------------------------------------------------------------------
(* Geocheck *)
Findable == Known \cup (KnownShort \cap Long)
GeoTypes ==
  /\ check \in [Facility -> {"none", "OK", "MISMATCH", "NOT_FOUND", "NO_ADDR"}]
  /\ cache \in [Addresses -> {"none", "OK", "NOT_FOUND", "ERROR"}]
  /\ filling \in Addresses \cup {NoAddr}

\* The address that is asked for is that of the facility in hand.
AsksForUnit == asking # NoAddr => status = "RUNNING" /\ todo # <<>> /\ asking = AddrOf[Unit]
\* No "not found" is stored for an address that the service finds.
NoneNotFound ==
  \A f \in Facility : AddrOf[f] \in Findable => cache[AddrOf[f]] # "NOT_FOUND" /\ check[f] # "NO_ADDR"
GeoInv == GeoTypes /\ AsksForUnit /\ NoneNotFound

LEMMA AnswerTypes ==
  \A a : /\ Answer(a) \subseteq {"OK", "NOT_FOUND", "ERROR"}
         /\ a \in Findable => Answer(a) \subseteq {"OK", "ERROR"}
         /\ \A st : Compared(st) \subseteq {"OK", "MISMATCH", "NOT_FOUND"}
BY DEF Answer, Findable, Compared

\* A check that is stored says "no address" only of a facility that has none.
LEMMA CheckedKeeps ==
  ASSUME GeoInv, NEW st \in {"OK", "MISMATCH", "NOT_FOUND", "NO_ADDR"}, Checked(st),
         st = "NO_ADDR" => AddrOf[Unit] = NoAddr
  PROVE  /\ check' \in [Facility -> {"none", "OK", "MISMATCH", "NOT_FOUND", "NO_ADDR"}]
         /\ \A f \in Facility : AddrOf[f] \in Findable => check'[f] # "NO_ADDR"
<1>1. NoAddr \notin Findable
  BY GeocheckAssumption DEF Findable
<1>2. \A f \in Facility : check'[f] = IF f = Unit /\ Unit \notin renewed THEN st ELSE check[f]
  BY DEF GeoInv, GeoTypes, Checked
<1>3. check' \in [Facility -> {"none", "OK", "MISMATCH", "NOT_FOUND", "NO_ADDR"}]
  BY DEF GeoInv, GeoTypes, Checked
<1> QED
  BY <1>1, <1>2, <1>3 DEF GeoInv, NoneNotFound

\* An answer stored in the cache is one the service gives for the address.
LEMMA CacheKeeps ==
  ASSUME GeoInv, NEW a, NEW st \in Answer(a), cache' = [cache EXCEPT ![a] = st]
  PROVE  /\ cache' \in [Addresses -> {"none", "OK", "NOT_FOUND", "ERROR"}]
         /\ \A f \in Facility : AddrOf[f] \in Findable => cache'[AddrOf[f]] # "NOT_FOUND"
<1>1. st \in {"OK", "NOT_FOUND", "ERROR"} /\ (a \in Findable => st # "NOT_FOUND")
  BY AnswerTypes
<1>2. \A f \in Facility : AddrOf[f] \in Addresses
  BY DEF Addresses
<1>3. \A f \in Facility : cache'[AddrOf[f]] = IF AddrOf[f] = a THEN st ELSE cache[AddrOf[f]]
  BY <1>2 DEF GeoInv, GeoTypes
<1> QED
  BY <1>1, <1>3 DEF GeoInv, GeoTypes, NoneNotFound

\* An address the service knows is never given up (geocheck.py:37): its facility is
\* compared or the next run takes it up, whatever either collection stores.
THEOREM KnownNotGivenUp == GeoSpec => []KnownIsNotGivenUp
<1> DEFINE vars == <<runVars, geoVars>>
<1>1. CollectInit /\ GeoInit => GeoInv
  <2> SUFFICES ASSUME CollectInit, GeoInit PROVE GeoInv
    OBVIOUS
  <2>1. \A f \in Facility : AddrOf[f] \in Addresses
    BY DEF Addresses
  <2> QED
    BY <2>1 DEF GeoInit, GeoInv, GeoTypes, AsksForUnit, NoneNotFound
<1>2. GeoInv /\ [GeoNext]_vars => GeoInv'
  <2> SUFFICES ASSUME GeoInv, [GeoNext]_vars PROVE GeoInv'
    OBVIOUS
  <2>1. CASE GeoBegin
    <3>1. asking = NoAddr
      BY <2>1 DEF GeoBegin, Begin, GeoInv, AsksForUnit
    <3> QED
      BY <2>1, <3>1 DEF GeoBegin, GeoInv, GeoTypes, AsksForUnit, NoneNotFound
  <2>2. CASE NoAddress
    <3>1. asking = NoAddr
      BY <2>2 DEF NoAddress, GeoInv, AsksForUnit
    <3> QED
      BY <2>2, <3>1, CheckedKeeps DEF NoAddress, GeoInv, GeoTypes, AsksForUnit, NoneNotFound
  <2>3. CASE FromCache
    <3>1. PICK st \in Compared(cache[AddrOf[Unit]]) : Checked(st)
      BY <2>3 DEF FromCache
    <3>2. st \in {"OK", "MISMATCH", "NOT_FOUND"}
      BY <3>1, AnswerTypes
    <3> QED
      BY <2>3, <3>1, <3>2, CheckedKeeps DEF FromCache, GeoInv, GeoTypes, AsksForUnit, NoneNotFound
  <2>4. CASE Ask
    BY <2>4 DEF Ask, Held, Busy, runVars, Unit, GeoInv, GeoTypes, AsksForUnit, NoneNotFound
  <2>5. CASE Answered
    <3>1. PICK st \in Answer(asking) : cache' = [cache EXCEPT ![asking] = st] /\ \E r \in Compared(st) : Checked(r)
      BY <2>5 DEF Answered
    <3>2. PICK r \in Compared(st) : Checked(r)
      BY <3>1
    <3>3. r \in {"OK", "MISMATCH", "NOT_FOUND"}
      BY <3>2, AnswerTypes
    <3>4. /\ check' \in [Facility -> {"none", "OK", "MISMATCH", "NOT_FOUND", "NO_ADDR"}]
          /\ \A f \in Facility : AddrOf[f] \in Findable => check'[f] # "NO_ADDR"
      BY <3>2, <3>3, CheckedKeeps
    <3>5. /\ cache' \in [Addresses -> {"none", "OK", "NOT_FOUND", "ERROR"}]
          /\ \A f \in Facility : AddrOf[f] \in Findable => cache'[AddrOf[f]] # "NOT_FOUND"
      BY <3>1, CacheKeeps
    <3>6. asking' = NoAddr /\ filling' = filling
      BY <2>5 DEF Answered
    <3> QED
      BY <3>4, <3>5, <3>6 DEF GeoInv, GeoTypes, AsksForUnit, NoneNotFound
  <2>6. CASE GeoStop
    BY <2>6 DEF GeoStop, GeoInv, GeoTypes, AsksForUnit, NoneNotFound
  <2>7. CASE GeoEnd
    BY <2>7 DEF GeoEnd, Finish, geoVars, GeoInv, GeoTypes, AsksForUnit, NoneNotFound
  <2>8. CASE GeoInterrupted
    BY <2>8 DEF GeoInterrupted, GeoInv, GeoTypes, AsksForUnit, NoneNotFound
  <2>9. ASSUME NEW f \in Facility, Renew(f) PROVE GeoInv'
    BY <2>9 DEF Renew, runVars, Unit, GeoInv, GeoTypes, AsksForUnit, NoneNotFound
  <2>10. ASSUME NEW a \in Addresses, FillAsk(a) PROVE GeoInv'
    BY <2>10 DEF FillAsk, runVars, Unit, GeoInv, GeoTypes, AsksForUnit, NoneNotFound
  <2>11. CASE FillAnswered
    <3>1. CASE UNCHANGED cache
      BY <2>11, <3>1 DEF FillAnswered, runVars, Unit, GeoInv, GeoTypes, AsksForUnit, NoneNotFound
    <3>2. CASE \E st \in Answer(filling) : cache' = [cache EXCEPT ![filling] = st]
      BY <2>11, <3>2, CacheKeeps DEF FillAnswered, runVars, Unit, GeoInv, GeoTypes, AsksForUnit, NoneNotFound
    <3> QED
      BY <2>11, <3>1, <3>2 DEF FillAnswered
  <2>12. CASE UNCHANGED vars
    BY <2>12 DEF vars, runVars, geoVars, Unit, GeoInv, GeoTypes, AsksForUnit, NoneNotFound
  <2> QED
    BY <2>1, <2>2, <2>3, <2>4, <2>5, <2>6, <2>7, <2>8, <2>9, <2>10, <2>11, <2>12 DEF GeoNext
<1>3. GeoInv => KnownIsNotGivenUp
  <2> SUFFICES ASSUME GeoInv, NEW f \in Facility, AddrOf[f] \in Findable
               PROVE  check[f] \in {"OK", "MISMATCH"} \/ (Due(f) /\ (cache[AddrOf[f]] = "OK" \/ ~Hit(cache[AddrOf[f]])))
    BY DEF KnownIsNotGivenUp, Findable
  <2>1. AddrOf[f] \in Addresses
    BY DEF Addresses
  <2> QED
    BY <2>1 DEF GeoInv, GeoTypes, NoneNotFound, Due, Hit
<1> QED
  BY <1>1, <1>2, <1>3, PTL DEF GeoSpec

-----------------------------------------------------------------------------
(* SgisAreas *)
LevelTypes ==
  /\ run \in Nat
  /\ level2 = [d \in District |-> level2[d]] /\ level3 = [d \in District |-> level3[d]]
  /\ \A d \in District : level2[d][1] \in 0 .. run /\ level3[d][1] \in 0 .. run
CalcTypes ==
  /\ calc = [areas |-> calc.areas, part |-> calc.part, at |-> calc.at]
  /\ calc.part \in {"none", "added", "there"}

\* Boundaries are changing: a run has stored some and has not ended.
Changing == status = "RUNNING" /\ StoredOne
\* Outside of such a run a calculation has read the boundaries as they are, ...
ReadIsCurrent == calc # Idle /\ ~spoilt /\ ~Changing => calc.areas = Areas
\* ... the mapping, if there is one, was made of them, ...
MapIsCurrent == map # NoMap /\ ~spoilt /\ ~Changing => map = Areas
\* ... and the one a calculation found has not been deleted.
FoundIsThere == calc # Idle /\ calc.part = "there" /\ ~spoilt => map # NoMap
MapInv == LevelTypes /\ CalcTypes /\ ReadIsCurrent /\ MapIsCurrent /\ FoundIsThere /\ MapFollowsAreas

\* The steps of a run that store boundaries: each row they change is the run's.
Stores2or3 ==
  /\ status = "RUNNING" /\ status' = status /\ run' = run /\ LevelTypes'
  /\ \A d \in District : /\ level2'[d] = level2[d] \/ level2'[d][1] = run
                         /\ level3'[d] = level3[d] \/ level3'[d][1] = run

LEMMA StoringKeepsMap == ASSUME MapInv, Stores2or3, Stored PROVE MapInv'
<1>1. CASE StoredOne'
  BY <1>1 DEF MapInv, CalcTypes, Stores2or3, Stored, Changing, ReadIsCurrent, MapIsCurrent, FoundIsThere, MapFollowsAreas, MapIsRebuilt, Idle
<1>2. CASE ~StoredOne'
  <2>1. \A d \in District : level2'[d] = level2[d] /\ level3'[d] = level3[d]
    BY <1>2 DEF Stores2or3, StoredOne
  <2>2. level2' = level2 /\ level3' = level3
    BY <2>1 DEF Stores2or3, MapInv, LevelTypes
  <2>3. Areas' = Areas /\ ~Changing /\ ~Changing'
    BY <1>2, <2>2 DEF Areas, Changing, StoredOne, Stores2or3
  <2> QED
    BY <2>3 DEF MapInv, CalcTypes, Stores2or3, Stored, ReadIsCurrent, MapIsCurrent, FoundIsThere, MapFollowsAreas, MapIsRebuilt, Idle
<1> QED
  BY <1>1, <1>2

\* A step that leaves boundaries, mapping and calculations alone, and no run that
\* has stored some ends by it.
LEMMA OthersKeepMap ==
  ASSUME MapInv, UNCHANGED <<level2, level3, mapVars>>, run' \in Nat, run' >= run, Changing => Changing'
  PROVE  MapInv'
<1>1. Areas' = Areas
  BY DEF Areas
<1>2. LevelTypes'
  BY DEF MapInv, LevelTypes
<1> QED
  BY <1>1, <1>2 DEF MapInv, CalcTypes, mapVars, ReadIsCurrent, MapIsCurrent, FoundIsThere, MapFollowsAreas, MapIsRebuilt, Idle

LEMMA Level2Stores == ASSUME LevelTypes, Level2 PROVE Stores2or3
<1>1. PICK y : level2' = [d \in District |-> IF d \in DistrictsOf[Unit] THEN <<run, y>> ELSE level2[d]]
  BY DEF Level2
<1>2. level3' = level3 /\ run' = run /\ status' = status /\ status = "RUNNING"
  BY DEF Level2, Held, Busy, runVars
<1> QED
  BY <1>1, <1>2 DEF LevelTypes, Stores2or3

LEMMA Level3Stores == ASSUME LevelTypes, Level3 PROVE Stores2or3
<1>1. level3' = [d \in District |-> IF d \in DistrictsOf[Unit] THEN <<run, src>> ELSE level3[d]]
  BY DEF Level3
<1>2. level2' = level2 /\ run' = run /\ status' = status /\ status = "RUNNING"
  BY DEF Level3, Success, Busy
<1> QED
  BY <1>1, <1>2 DEF LevelTypes, Stores2or3

LEMMA DistrictStores ==
  ASSUME LevelTypes, NEW d \in District, AfterDistrict(d, FALSE), level3' = [level3 EXCEPT ![d] = <<run, src>>]
  PROVE  Stores2or3
<1>1. level2' = level2 /\ run' = run /\ status' = status /\ status = "RUNNING"
  BY DEF AfterDistrict, Busy
<1>2. level3' = [c \in District |-> IF c = d THEN <<run, src>> ELSE level3[c]]
  BY DEF LevelTypes
<1> QED
  BY <1>1, <1>2 DEF LevelTypes, Stores2or3

\* After boundaries have changed, the next calculation maps facilities to areas
\* anew (pipeline.py:276), unless a run was cut short or a calculation was
\* open: for any provinces, districts and years.
THEOREM MapFollows == AreasSpec => []MapFollowsAreas
<1> DEFINE vars == <<runVars, sgisVars>>
<1>1. CollectInit /\ SgisInit => MapInv
  BY DEF CollectInit, SgisInit, MapInv, LevelTypes, CalcTypes, Idle, ReadIsCurrent, MapIsCurrent, FoundIsThere, MapFollowsAreas, MapIsRebuilt
<1>2. MapInv /\ [AreasNext]_vars => MapInv'
  <2> SUFFICES ASSUME MapInv, [AreasNext]_vars PROVE MapInv'
    OBVIOUS
  <2>0. LevelTypes /\ run \in Nat
    BY DEF MapInv, LevelTypes
  <2>1. CASE BoundariesBegin
    <3>1. ~Changing /\ run' = run + 1
      BY <2>1 DEF BoundariesBegin, Begin, Changing
    <3> QED
      BY <2>0, <2>1, <3>1, OthersKeepMap DEF BoundariesBegin
  <2>2. CASE Level2
    BY <2>0, <2>2, Level2Stores, StoringKeepsMap DEF Level2
  <2>3. CASE Level2Failed
    BY <2>0, <2>3, OthersKeepMap DEF Level2Failed, Failure, Busy, Changing, StoredOne, mapVars
  <2>4. CASE Level3
    BY <2>0, <2>4, Level3Stores, StoringKeepsMap DEF Level3
  <2>5. CASE Level3Empty
    BY <2>0, <2>5, OthersKeepMap DEF Level3Empty, Held, runVars, Changing, StoredOne, mapVars
  <2>6. ASSUME NEW d \in District, DistrictStored(d) PROVE MapInv'
    <3>1. CASE level3' = [level3 EXCEPT ![d] = <<run, src>>] /\ Stored
      BY <2>0, <2>6, <3>1, DistrictStores, StoringKeepsMap DEF DistrictStored
    <3>2. CASE UNCHANGED <<level3, mapVars>>
      BY <2>0, <2>6, <3>2, OthersKeepMap DEF DistrictStored, AfterDistrict, Changing, StoredOne, mapVars
    <3> QED
      BY <2>6, <3>1, <3>2 DEF DistrictStored
  <2>7. ASSUME NEW d \in District, DistrictFailed(d) PROVE MapInv'
    BY <2>0, <2>7, OthersKeepMap DEF DistrictFailed, AfterDistrict, Changing, StoredOne, mapVars
  <2>8. CASE BoundariesEnd
    <3>1. map' = NoMap /\ spoilt' = (calc # Idle) /\ fresh' = FALSE /\ calc' = calc
          /\ level2' = level2 /\ level3' = level3 /\ run' = run
      BY <2>8 DEF BoundariesEnd, Unmapped, areaVars, Finish
    <3> QED
      BY <2>0, <3>1 DEF MapInv, LevelTypes, CalcTypes, ReadIsCurrent, MapIsCurrent, FoundIsThere, MapFollowsAreas, MapIsRebuilt, Idle
  <2>9. CASE BoundariesInterrupted
    <3>1. /\ spoilt' = (spoilt \/ StoredOne) /\ UNCHANGED <<map, calc, fresh, level2, level3, run>>
          /\ status = "RUNNING"
      BY <2>9 DEF BoundariesInterrupted, Interrupted
    <3>2. ~spoilt' => ~spoilt /\ ~Changing
      BY <3>1 DEF Changing
    <3> QED
      BY <2>0, <3>1, <3>2 DEF MapInv, LevelTypes, CalcTypes, ReadIsCurrent, MapIsCurrent, FoundIsThere, MapFollowsAreas, MapIsRebuilt, Idle, Areas
  <2>10. CASE CalcReads
    <3>1. /\ calc' = [areas |-> Areas, part |-> "none", at |-> IF status = "RUNNING" THEN 0 ELSE run]
          /\ UNCHANGED <<run, status, level2, level3, map, fresh, spoilt>>
      BY <2>10 DEF CalcReads, runVars, areaVars
    <3> QED
      BY <2>0, <3>1 DEF MapInv, LevelTypes, CalcTypes, ReadIsCurrent, MapIsCurrent, FoundIsThere, MapFollowsAreas, MapIsRebuilt, Idle, Areas, Changing, StoredOne
  <2>11. CASE CalcMaps
    <3>1. /\ calc # Idle /\ calc'.areas = calc.areas /\ CalcTypes' /\ (calc'.part = "there" => map # NoMap)
          /\ UNCHANGED <<run, status, level2, level3, map, fresh, spoilt>>
      BY <2>11 DEF CalcMaps, runVars, areaVars, MapInv, CalcTypes
    <3> QED
      BY <2>0, <3>1 DEF MapInv, LevelTypes, ReadIsCurrent, MapIsCurrent, FoundIsThere, MapFollowsAreas, MapIsRebuilt, Idle, Areas, Changing, StoredOne
  <2>12. CASE CalcCommits
    <3>1. /\ calc # Idle /\ calc' = Idle /\ calc.part \in {"added", "there"}
          /\ map' = IF calc.part = "added" THEN calc.areas ELSE map
          /\ fresh' = (status # "RUNNING" /\ calc.at = run)
          /\ UNCHANGED <<run, status, level2, level3, spoilt>>
      BY <2>12 DEF CalcCommits, runVars, areaVars, MapInv, CalcTypes, Idle
    <3>2. Areas' = Areas /\ (Changing' <=> Changing) /\ CalcTypes' /\ LevelTypes'
      BY <2>0, <3>1 DEF Areas, Changing, StoredOne, LevelTypes, CalcTypes, Idle
    <3>3. MapIsCurrent'
      BY <3>1, <3>2 DEF MapInv, ReadIsCurrent, MapIsCurrent
    <3>4. MapFollowsAreas'
      BY <3>1, <3>2 DEF MapInv, ReadIsCurrent, MapIsCurrent, FoundIsThere, MapFollowsAreas, MapIsRebuilt, Changing
    <3> QED
      BY <3>1, <3>2, <3>3, <3>4 DEF MapInv, ReadIsCurrent, FoundIsThere, Idle
  <2>13. CASE UNCHANGED vars
    <3>1. UNCHANGED <<run, status, level2, level3, mapVars>>
      BY <2>13 DEF vars, runVars, sgisVars, areaVars
    <3> QED
      BY <2>0, <3>1, OthersKeepMap DEF Changing, StoredOne
  <2> QED
    BY <2>1, <2>2, <2>3, <2>4, <2>5, <2>6, <2>7, <2>8, <2>9, <2>10, <2>11, <2>12, <2>13 DEF AreasNext
<1>3. MapInv => MapFollowsAreas
  BY DEF MapInv
<1> QED
  BY <1>1, <1>2, <1>3, PTL DEF AreasSpec

-----------------------------------------------------------------------------
\* The year pinned is one to choose from, and every newer one was asked in vain; ...
PinnedIsTold == src # NoYear => src \in 0 .. YearsBack /\ 0 .. src - 1 \subseteq told
\* ... the rows of a run are of that year, and so will be those it is about to store.
RowsArePinned ==
  /\ deep => src # NoYear
  /\ what = "boundaries" =>
       \A d \in District : \A row \in {level2[d], level3[d]} : row[1] = run => src # NoYear /\ row[2] = src
YearInv == LevelTypes /\ PinnedIsTold /\ RowsArePinned

\* The year found is the pinned one, or SGIS has said of every newer one that it
\* has nothing.
LEMMA FoundIsTold ==
  ASSUME PinnedIsTold, NEW a \in Answers, NEW i \in Found(a)
  PROVE  /\ YearsToTry[i] \in 0 .. YearsBack /\ (src # NoYear => YearsToTry[i] = src)
         /\ 0 .. YearsToTry[i] - 1 \subseteq told \cup ToldBy(a)
<1>1. CASE src # NoYear
  <2>1. YearsToTry = <<src>> /\ i \in 1 .. 1
    BY <1>1 DEF YearsToTry, Answers, Found, Asked
  <2> QED
    BY <1>1, <2>1 DEF PinnedIsTold
<1>2. CASE src = NoYear
  <2>1. YearsToTry = [k \in 1 .. YearsBack + 1 |-> k - 1] /\ YearsToTry \in Seq(Int)
    BY <1>2, SgisAssumption DEF YearsToTry
  <2>2. Len(YearsToTry) = YearsBack + 1
    BY <2>1, SgisAssumption
  <2>3. DOMAIN a = 1 .. YearsBack + 1 /\ i \in 1 .. YearsBack + 1 /\ YearsToTry[i] = i - 1
    BY <2>1, <2>2 DEF Answers, Found, Asked
  <2>4. \A j \in 1 .. i - 1 : a[j] = "none" /\ j \in Asked(a)
    BY <2>3, SgisAssumption DEF Found, Asked, Older
  <2>5. \A k \in 0 .. i - 2 : k \in ToldBy(a)
    <3> SUFFICES ASSUME NEW k \in 0 .. i - 2 PROVE k \in ToldBy(a)
      OBVIOUS
    <3>1. k + 1 \in Asked(a) /\ a[k + 1] = "none"
      BY <2>3, <2>4
    <3>2. YearsToTry[k + 1] = k
      BY <2>1, <2>3, SgisAssumption
    <3> QED
      BY <3>1, <3>2 DEF ToldBy
  <2> QED
    BY <2>3, <2>5, <1>2, SgisAssumption
<1> QED
  BY <1>1, <1>2

\* A step that changes no row, no year and no run.
LEMMA OthersKeepYear ==
  ASSUME YearInv, UNCHANGED <<level2, level3, run, what, src>>, told \subseteq told', deep' => deep
  PROVE  YearInv'
BY DEF YearInv, LevelTypes, PinnedIsTold, RowsArePinned

\* Boundaries of an older year stand in only where SGIS has said that it has nothing
\* of each newer one, and a run stores one year (pipeline.py:227), for any provinces.
THEOREM StandsInIfTold == AreasSpec => []StandsInOnlyIfTold
<1> DEFINE vars == <<runVars, sgisVars>>
<1>1. CollectInit /\ SgisInit => YearInv
  BY DEF CollectInit, SgisInit, YearInv, LevelTypes, PinnedIsTold, RowsArePinned
<1>2. YearInv /\ [AreasNext]_vars => YearInv'
  <2> SUFFICES ASSUME YearInv, [AreasNext]_vars PROVE YearInv'
    OBVIOUS
  <2>0. LevelTypes /\ run \in Nat
    BY DEF YearInv, LevelTypes
  <2>1. CASE BoundariesBegin
    BY <2>0, <2>1 DEF BoundariesBegin, Begin, YearInv, LevelTypes, PinnedIsTold, RowsArePinned
  <2>2. CASE Level2
    <3>0. PICK a \in Answers : \E i \in Found(a) :
            /\ src' = YearsToTry[i] /\ told' = told \cup ToldBy(a)
            /\ level2' = [d \in District |-> IF d \in DistrictsOf[Unit] THEN <<run, YearsToTry[i]>> ELSE level2[d]]
      BY <2>2 DEF Level2
    <3>1. PICK i \in Found(a) :
            /\ src' = YearsToTry[i] /\ told' = told \cup ToldBy(a)
            /\ level2' = [d \in District |-> IF d \in DistrictsOf[Unit] THEN <<run, YearsToTry[i]>> ELSE level2[d]]
      BY <3>0
    <3>2. src' \in 0 .. YearsBack /\ (src # NoYear => src' = src) /\ 0 .. src' - 1 \subseteq told'
      BY <3>1, FoundIsTold DEF YearInv
    <3>3. /\ run' = run /\ level3' = level3 /\ src' # NoYear
          /\ level2' = [d \in District |-> IF d \in DistrictsOf[Unit] THEN <<run, src'>> ELSE level2[d]]
      BY <2>2, <3>1, <3>2, SgisAssumption DEF Level2, Held, runVars, NoYear
    <3>4. what' = what
      BY <2>2 DEF Level2, popVars
    <3>5. LevelTypes'
      BY <2>0, <3>3 DEF LevelTypes
    <3>6. RowsArePinned'
      <4> SUFFICES ASSUME what = "boundaries", NEW d \in District, NEW row \in {level2'[d], level3'[d]}, row[1] = run
                   PROVE  row[2] = src'
        BY <3>3, <3>4 DEF RowsArePinned
      <4>1. CASE row = <<run, src'>>
        BY <4>1
      <4>2. CASE row \in {level2[d], level3[d]}
        BY <3>2, <4>2 DEF YearInv, RowsArePinned
      <4> QED
        BY <3>3, <4>1, <4>2
    <3> QED
      BY <3>2, <3>3, <3>5, <3>6 DEF YearInv, PinnedIsTold
  <2>3. CASE Level2Failed
    BY <2>3, OthersKeepYear DEF Level2Failed, Failure, popVars
  <2>4. CASE Level3
    <3>1. /\ run' = run /\ level2' = level2 /\ src # NoYear /\ src' = src /\ told' = told /\ what' = what /\ deep' = FALSE
          /\ level3' = [d \in District |-> IF d \in DistrictsOf[Unit] THEN <<run, src>> ELSE level3[d]]
      BY <2>4 DEF Level3, Success, popVars, YearInv, RowsArePinned
    <3>2. LevelTypes'
      BY <2>0, <3>1 DEF LevelTypes
    <3> QED
      BY <3>1, <3>2 DEF YearInv, PinnedIsTold, RowsArePinned
  <2>5. CASE Level3Empty
    BY <2>5, OthersKeepYear DEF Level3Empty, Held, runVars, popVars
  <2>6. ASSUME NEW d \in District, DistrictStored(d) PROVE YearInv'
    <3>1. run' = run /\ level2' = level2 /\ src' = src /\ told' = told /\ what' = what /\ deep
      BY <2>6 DEF DistrictStored, AfterDistrict, popVars
    <3>2. CASE level3' = [level3 EXCEPT ![d] = <<run, src>>]
      <4>1. level3' = [c \in District |-> IF c = d THEN <<run, src>> ELSE level3[c]]
        BY <2>0, <3>2 DEF LevelTypes
      <4>2. LevelTypes'
        BY <2>0, <3>1, <4>1 DEF LevelTypes
      <4> QED
        BY <3>1, <4>1, <4>2 DEF YearInv, PinnedIsTold, RowsArePinned
    <3>3. CASE level3' = level3
      BY <3>1, <3>3, OthersKeepYear
    <3> QED
      BY <2>6, <3>2, <3>3 DEF DistrictStored
  <2>7. ASSUME NEW d \in District, DistrictFailed(d) PROVE YearInv'
    BY <2>7, OthersKeepYear DEF DistrictFailed, AfterDistrict, popVars
  <2>8. CASE BoundariesEnd
    BY <2>8, OthersKeepYear DEF BoundariesEnd, Finish, areaVars, popVars
  <2>9. CASE BoundariesInterrupted
    BY <2>9, OthersKeepYear DEF BoundariesInterrupted, Interrupted, popVars
  <2>10. CASE CalcReads \/ CalcMaps \/ CalcCommits
    BY <2>10, OthersKeepYear DEF CalcReads, CalcMaps, CalcCommits, runVars, areaVars, popVars
  <2>11. CASE UNCHANGED vars
    BY <2>11, OthersKeepYear DEF vars, runVars, sgisVars, areaVars, popVars
  <2> QED
    BY <2>1, <2>2, <2>3, <2>4, <2>5, <2>6, <2>7, <2>8, <2>9, <2>10, <2>11 DEF AreasNext
<1>3. YearInv => StandsInOnlyIfTold
  BY DEF YearInv, PinnedIsTold, RowsArePinned, StandsInOnlyIfTold
<1> QED
  BY <1>1, <1>2, <1>3, PTL DEF AreasSpec

-----------------------------------------------------------------------------
\* What the collections have in common
Going == status \in {"RUNNING", "DONE"} /\ failed = {}
-----------------------------------------------------------------------------
(* SgisAreas: boundaries *)
AreaTypes == run \in Nat /\ todo \in Seq(DOMAIN DistrictsOf) /\ what \in {"none", "boundaries"}
             /\ level2 = [d \in District |-> level2[d]] /\ level3 = [d \in District |-> level3[d]]
Has3(d) == level3[d][1] = run \/ d \in bare
HasAreas(s) == \A d \in DistrictsOf[s] : level2[d][1] = run /\ Has3(d)
\* A province is still to do or has its areas.
EachHasAreas == what = "boundaries" /\ Going => \A s \in DOMAIN DistrictsOf : s \in ToSet(todo) \/ HasAreas(s)
\* Of the province in hand, the districts that are not asked for one by one have theirs.
UnitHasSome ==
  /\ deep => status = "RUNNING" /\ todo # <<>> /\ \A d \in DistrictsOf[Unit] : level2[d][1] = run
  /\ below # {} => deep /\ (failed = {} => \A d \in DistrictsOf[Unit] \ below : Has3(d))
EndsEmpty == status = "DONE" => failed = {} /\ todo = <<>>
WholeInv == AreaTypes /\ EachHasAreas /\ UnitHasSome /\ EndsEmpty

LEMMA DistrictIsSome == \A s \in DOMAIN DistrictsOf : \A d \in DistrictsOf[s] : d \in District
BY SgisAssumption DEF District

LEMMA EmptySet == ToSet(<<>>) = {}
BY DEF ToSet

\* The province in hand is done with, and what the others have stays.
LEMMA NextProvince ==
  ASSUME WholeInv, todo # <<>>, status = "RUNNING", todo' = Tail(todo), UNCHANGED <<run, status, what>>, ~deep', below' = {},
         AreaTypes' \/ UNCHANGED <<level2, level3>>, failed \subseteq failed', bare \subseteq bare',
         \A d \in District : (level2[d][1] = run => level2'[d][1] = run) /\ (level3[d][1] = run => level3'[d][1] = run),
         failed' = {} => \A s \in DOMAIN DistrictsOf : s = Unit => HasAreas(s)'
  PROVE  WholeInv'
<1>1. /\ Tail(todo) \in Seq(DOMAIN DistrictsOf) /\ ToSet(todo) = {Unit} \cup ToSet(Tail(todo))
  BY TailSet DEF WholeInv, AreaTypes, Unit
<1>2. AreaTypes'
  BY <1>1 DEF WholeInv, AreaTypes
<1>3. ASSUME NEW s \in DOMAIN DistrictsOf, HasAreas(s) PROVE HasAreas(s)'
  BY <1>3, DistrictIsSome DEF HasAreas, Has3
<1>4. EachHasAreas'
  <2> SUFFICES ASSUME what = "boundaries", Going', NEW s \in DOMAIN DistrictsOf PROVE s \in ToSet(todo)' \/ HasAreas(s)'
    BY DEF EachHasAreas
  <2>1. Going
    BY DEF Going
  <2>2. s \in ToSet(todo) \/ HasAreas(s)
    BY <2>1 DEF WholeInv, EachHasAreas
  <2>3. CASE s = Unit
    BY <2>3 DEF Going
  <2>4. CASE s # Unit
    BY <1>1, <1>3, <2>2, <2>4
  <2> QED
    BY <2>3, <2>4
<1> QED
  BY <1>2, <1>4 DEF WholeInv, UnitHasSome, EndsEmpty

\* A step within the province in hand.
LEMMA SameProvince ==
  ASSUME WholeInv, UNCHANGED <<run, todo, status, what>>, failed \subseteq failed', bare \subseteq bare',
         AreaTypes' \/ UNCHANGED <<level2, level3>>,
         \A d \in District : (level2[d][1] = run => level2'[d][1] = run) /\ (level3[d][1] = run => level3'[d][1] = run),
         UnitHasSome', status = "DONE" => failed' = failed
  PROVE  WholeInv'
<1>1. AreaTypes'
  BY DEF WholeInv, AreaTypes
<1>2. ASSUME NEW s \in DOMAIN DistrictsOf, HasAreas(s) PROVE HasAreas(s)'
  BY <1>2, DistrictIsSome DEF HasAreas, Has3
<1>3. EachHasAreas'
  BY <1>2 DEF WholeInv, EachHasAreas, Going
<1> QED
  BY <1>1, <1>3 DEF WholeInv, EndsEmpty

LEMMA NextWholeAreas == WholeInv /\ [AreasNext]_<<runVars, sgisVars>> => WholeInv'
<1> SUFFICES ASSUME WholeInv, AreasNext \/ UNCHANGED <<runVars, sgisVars>> PROVE WholeInv'
  OBVIOUS
<1>0. AreaTypes /\ EachHasAreas /\ UnitHasSome /\ EndsEmpty
  BY DEF WholeInv
<1>1. CASE BoundariesBegin
  <2>1. /\ run' = run + 1 /\ todo' = Sidos /\ what' = "boundaries" /\ status' = "RUNNING" /\ ~deep' /\ below' = {}
        /\ level2' = level2 /\ level3' = level3
    BY <1>1 DEF BoundariesBegin, Begin
  <2>2. Sidos \in Seq(DOMAIN DistrictsOf) /\ \A s \in DOMAIN DistrictsOf : s \in ToSet(Sidos)
    BY SgisAssumption DEF ToSet
  <2> QED
    BY <1>0, <2>1, <2>2 DEF WholeInv, AreaTypes, EachHasAreas, UnitHasSome, EndsEmpty
<1>2. CASE Level2
  <2>1. PICK y : level2' = [d \in District |-> IF d \in DistrictsOf[Unit] THEN <<run, y>> ELSE level2[d]]
    BY <1>2 DEF Level2
  <2>2. /\ UNCHANGED <<run, todo, status, what, failed, bare, below, level3>> /\ deep' /\ status = "RUNNING" /\ todo # <<>> /\ ~deep
    BY <1>2 DEF Level2, Held, Busy, runVars, popVars
  <2>3. \A d \in District : level2'[d] = IF d \in DistrictsOf[Unit] THEN <<run, y>> ELSE level2[d]
    BY <2>1
  <2>4. AreaTypes'
    BY <1>0, <2>1, <2>2 DEF AreaTypes
  <2>5. Unit' = Unit /\ Unit \in DOMAIN DistrictsOf
    BY <1>0, <2>2, TailSet DEF AreaTypes, Unit, ToSet
  <2>6. \A d \in DistrictsOf[Unit] : level2'[d][1] = run
    BY <2>3, <2>5, DistrictIsSome
  <2>7. UnitHasSome'
    BY <1>0, <2>2, <2>5, <2>6 DEF UnitHasSome
  <2> QED
    BY <2>2, <2>3, <2>4, <2>7, SameProvince
<1>3. CASE Level2Failed
  <2>1. failed' # {}
    BY <1>3 DEF Level2Failed, Failure
  <2>2. ~deep /\ below = {}
    BY <1>0, <1>3 DEF Level2Failed, UnitHasSome
  <2> QED
    BY <1>3, <2>1, <2>2, NextProvince DEF Level2Failed, Failure, Busy, popVars
<1>4. CASE Level3
  <2>1. /\ UNCHANGED <<run, status, what, failed, bare, below, level2>> /\ todo' = Tail(todo) /\ ~deep' /\ below = {}
        /\ status = "RUNNING" /\ todo # <<>> /\ deep
        /\ level3' = [d \in District |-> IF d \in DistrictsOf[Unit] THEN <<run, src>> ELSE level3[d]]
    BY <1>4 DEF Level3, Success, Busy, popVars
  <2>2. \A d \in District : level3'[d] = IF d \in DistrictsOf[Unit] THEN <<run, src>> ELSE level3[d]
    BY <2>1
  <2>3. Unit \in DOMAIN DistrictsOf /\ Tail(todo) \in Seq(DOMAIN DistrictsOf)
    BY <1>0, <2>1, TailSet DEF AreaTypes, Unit, ToSet
  <2>4. AreaTypes'
    BY <1>0, <2>1, <2>3 DEF AreaTypes
  <2>5. \A d \in DistrictsOf[Unit] : level2'[d][1] = run /\ level3'[d][1] = run
    BY <1>0, <2>1, <2>2, <2>3, DistrictIsSome DEF UnitHasSome
  <2>6. ASSUME NEW s, s = Unit PROVE HasAreas(s)'
    BY <2>1, <2>5, <2>6 DEF HasAreas, Has3
  <2> QED
    BY <2>1, <2>2, <2>4, <2>6, NextProvince
<1>5. CASE Level3Empty
  <2>1. /\ UNCHANGED <<run, todo, status, what, failed, bare, level2, level3, deep>> /\ below' = DistrictsOf[Unit] /\ deep
        /\ status = "RUNNING" /\ todo # <<>>
    BY <1>5 DEF Level3Empty, Held, Busy, runVars, popVars
  <2>2. UnitHasSome'
    BY <1>0, <2>1 DEF UnitHasSome, Unit
  <2> QED
    BY <2>1, <2>2, SameProvince
<1>6. ASSUME NEW d \in District, DistrictStored(d) \/ DistrictFailed(d) PROVE WholeInv'
  <2>1. /\ d \in below /\ status = "RUNNING" /\ todo # <<>> /\ deep /\ below' = below \ {d} /\ deep' = (below' # {})
        /\ todo' = (IF deep' THEN todo ELSE Tail(todo)) /\ UNCHANGED <<run, status, what, level2>>
        /\ failed \subseteq failed' /\ bare \subseteq bare'
    BY <1>6 DEF DistrictStored, DistrictFailed, AfterDistrict, Busy, popVars
  <2>2. \/ level3' = [level3 EXCEPT ![d] = <<run, src>>] /\ UNCHANGED <<failed, bare>>
        \/ bare' = bare \cup {d} /\ UNCHANGED <<failed, level3>>
        \/ failed' # {} /\ UNCHANGED <<bare, level3>>
    BY <1>6 DEF DistrictStored, DistrictFailed, AfterDistrict
  <2>3. level3 = [b \in District |-> level3[b]]
    BY <1>0 DEF AreaTypes
  <2>4. \A b \in District : level3'[b] = (IF b = d THEN <<run, src>> ELSE level3[b]) \/ level3'[b] = level3[b]
    BY <2>2, <2>3
  <2>5. failed' = {} => \A b \in DistrictsOf[Unit] \ below' : Has3(b)'
    <3> SUFFICES ASSUME failed' = {}, NEW b \in DistrictsOf[Unit], b \notin below' PROVE Has3(b)'
      OBVIOUS
    <3>1. b \in District
      BY <1>0, <2>1, TailSet, DistrictIsSome DEF AreaTypes, Unit, ToSet
    <3>2. CASE b = d
      BY <2>1, <2>2, <2>3, <3>1, <3>2 DEF Has3
    <3>3. CASE b # d
      <4>1. Has3(b)
        BY <1>0, <2>1, <3>3 DEF UnitHasSome
      <4> QED
        BY <2>1, <2>4, <3>1, <4>1 DEF Has3
    <3> QED
      BY <3>2, <3>3
  <2>6. level3' = [b \in District |-> level3'[b]]
    BY <2>2, <2>3
  <2>7. AreaTypes'
    <3>1. Tail(todo) \in Seq(DOMAIN DistrictsOf)
      BY <1>0, <2>1, TailSet DEF AreaTypes
    <3> QED
      BY <1>0, <2>1, <2>6, <3>1 DEF AreaTypes
  <2>8. \A b \in District : (level2[b][1] = run => level2'[b][1] = run) /\ (level3[b][1] = run => level3'[b][1] = run)
    BY <2>1, <2>4
  <2>9. \A b \in DistrictsOf[Unit] : level2[b][1] = run
    BY <1>0, <2>1 DEF UnitHasSome
  <2>10. CASE deep'
    <3>1. UNCHANGED todo /\ Unit' = Unit
      BY <2>1, <2>10 DEF Unit
    <3>2. UnitHasSome'
      BY <2>1, <2>5, <2>9, <2>10, <3>1 DEF UnitHasSome
    <3> QED
      BY <2>1, <2>7, <2>8, <3>1, <3>2, SameProvince
  <2>11. CASE ~deep'
    <3>1. todo' = Tail(todo) /\ below' = {}
      BY <2>1, <2>11
    <3>2. ASSUME NEW s, s = Unit, failed' = {} PROVE HasAreas(s)'
      BY <2>1, <2>5, <2>9, <3>1, <3>2 DEF HasAreas
    <3> QED
      BY <2>1, <2>7, <2>8, <2>11, <3>1, <3>2, NextProvince
  <2> QED
    BY <2>10, <2>11
<1>7. CASE BoundariesEnd
  <2>1. /\ UNCHANGED <<run, todo, done, failed, what, level2, level3, below, deep, bare>> /\ status = "RUNNING" /\ todo = <<>>
        /\ (status' = "DONE" => failed = {}) /\ ~deep
    BY <1>0, <1>7 DEF BoundariesEnd, Finish, Outcome, areaVars, popVars, UnitHasSome
  <2> QED
    BY <1>0, <2>1 DEF WholeInv, AreaTypes, EachHasAreas, Going, HasAreas, Has3, UnitHasSome, EndsEmpty
<1>8. CASE BoundariesInterrupted
  <2>1. /\ run' = run /\ todo' = <<>> /\ status' = "FAILED" /\ ~deep' /\ below' = {} /\ UNCHANGED <<what, level2, level3>>
    BY <1>8 DEF BoundariesInterrupted, Interrupted, popVars
  <2> QED
    BY <1>0, <2>1 DEF WholeInv, AreaTypes, EachHasAreas, Going, UnitHasSome, EndsEmpty
<1>9. CASE CalcReads \/ CalcMaps \/ CalcCommits
  <2>1. UNCHANGED <<runVars, areaVars, popVars>>
    BY <1>9 DEF CalcReads, CalcMaps, CalcCommits
  <2> QED
    BY <1>0, <2>1, SameProvince DEF runVars, areaVars, popVars, UnitHasSome, Has3, Unit
<1>13. CASE UNCHANGED <<runVars, sgisVars>>
  BY <1>0, <1>13, SameProvince DEF runVars, sgisVars, areaVars, popVars, UnitHasSome, Has3, Unit
<1> QED
  BY <1>1, <1>2, <1>3, <1>4, <1>5, <1>6, <1>7, <1>8, <1>9, <1>13 DEF AreasNext

LEMMA AreasAreWhole == WholeInv /\ what # "populations" => DoneIsWhole
<1> SUFFICES ASSUME WholeInv, status = "DONE", what = "boundaries", NEW d \in District
             PROVE  level2[d][1] = run /\ (level3[d][1] = run \/ d \in bare)
  BY DEF DoneIsWhole
<1>1. PICK s \in DOMAIN DistrictsOf : d \in DistrictsOf[s]
  BY SgisAssumption DEF District
<1>2. Going /\ todo = <<>>
  BY DEF WholeInv, EndsEmpty, Going
<1>3. HasAreas(s)
  BY <1>2, EmptySet DEF WholeInv, EachHasAreas
<1> QED
  BY <1>1, <1>3 DEF HasAreas, Has3

-----------------------------------------------------------------------------
(* SgisAreas: populations *)
PopUnit == {<<s, 2>> : s \in DOMAIN DistrictsOf} \cup {<<s, 3>> : s \in DOMAIN DistrictsOf}
PopTypes == /\ run \in Nat /\ todo \in Seq(PopUnit) /\ what \in {"none", "populations"}
            /\ pop \in [District -> Nat] /\ (what = "populations" => run >= 1)
HasPeople(s) == \A d \in DistrictsOf[s] : pop[d] = run \/ d \in bare
\* A province's districts are still to do or have their people.
EachHasPeople == what = "populations" /\ Going => \A s \in DOMAIN DistrictsOf : <<s, 2>> \in ToSet(todo) \/ HasPeople(s)
PopInv == PopTypes /\ EachHasPeople /\ EndsEmpty /\ DoneIsWhole

LEMMA PopUnitIs == \A s \in DOMAIN DistrictsOf : <<s, 2>> \in PopUnit /\ <<s, 3>> \in PopUnit
BY DEF PopUnit

LEMMA PopUnits ==
  LET units == [i \in 1 .. 2 * Len(Sidos) |-> <<Sidos[(i + 1) \div 2], IF i % 2 = 1 THEN 2 ELSE 3>>]
  IN  /\ units \in Seq(PopUnit)
      /\ \A s \in DOMAIN DistrictsOf : <<s, 2>> \in ToSet(units)
<1> DEFINE n == 2 * Len(Sidos)
           units == [i \in 1 .. n |-> <<Sidos[(i + 1) \div 2], IF i % 2 = 1 THEN 2 ELSE 3>>]
<1>1. /\ Len(Sidos) \in Nat /\ DOMAIN Sidos = 1 .. Len(Sidos) /\ n \in Nat
      /\ \A k \in 1 .. Len(Sidos) : Sidos[k] \in DOMAIN DistrictsOf
  BY SgisAssumption
<1>2. \A i \in 1 .. n : (i + 1) \div 2 \in 1 .. Len(Sidos)
  BY <1>1
<1>3. \A i \in 1 .. n : units[i] \in PopUnit
  <2> TAKE i \in 1 .. n
  <2>1. Sidos[(i + 1) \div 2] \in DOMAIN DistrictsOf
    BY <1>1, <1>2
  <2>2. units[i] = <<Sidos[(i + 1) \div 2], IF i % 2 = 1 THEN 2 ELSE 3>>
    OBVIOUS
  <2>3. units[i] = <<Sidos[(i + 1) \div 2], 2>> \/ units[i] = <<Sidos[(i + 1) \div 2], 3>>
    BY <2>2
  <2> QED
    BY <2>1, <2>3, PopUnitIs
<1>4. units \in Seq(PopUnit) /\ DOMAIN units = 1 .. n
  <2>1. units = [i \in 1 .. n |-> units[i]]
    OBVIOUS
  <2> HIDE DEF units, n
  <2> QED
    BY <1>1, <1>3, <2>1
<1>5. ASSUME NEW s \in DOMAIN DistrictsOf PROVE <<s, 2>> \in ToSet(units)
  <2>1. PICK k \in 1 .. Len(Sidos) : Sidos[k] = s
    BY <1>1, SgisAssumption
  <2>2. 2 * k - 1 \in 1 .. n /\ (2 * k - 1 + 1) \div 2 = k /\ (2 * k - 1) % 2 = 1
    BY <1>1
  <2>3. units[2 * k - 1] = <<s, 2>>
    BY <2>1, <2>2
  <2> HIDE DEF units, n
  <2> QED
    BY <1>4, <2>2, <2>3 DEF ToSet
<1> QED
  BY <1>4, <1>5

LEMMA NextWholePeople == PopInv /\ [PopNext]_<<runVars, sgisVars>> => PopInv'
<1> SUFFICES ASSUME PopInv, PopNext \/ UNCHANGED <<runVars, sgisVars>> PROVE PopInv'
  OBVIOUS
<1>0. PopTypes /\ EachHasPeople /\ EndsEmpty /\ DoneIsWhole
  BY DEF PopInv
<1>1. CASE PopBegin
  <2> DEFINE units == [i \in 1 .. 2 * Len(Sidos) |-> <<Sidos[(i + 1) \div 2], IF i % 2 = 1 THEN 2 ELSE 3>>]
  <2>1. /\ run' = run + 1 /\ todo' = units /\ what' = "populations" /\ status' = "RUNNING" /\ pop' = pop
    BY <1>1 DEF PopBegin, Begin
  <2>2. units \in Seq(PopUnit) /\ \A s \in DOMAIN DistrictsOf : <<s, 2>> \in ToSet(units)
    BY PopUnits
  <2> HIDE DEF units
  <2> QED
    BY <1>0, <2>1, <2>2 DEF PopInv, PopTypes, EachHasPeople, EndsEmpty, DoneIsWhole
<1>2. CASE PopLevel
  <2>1. /\ what = "populations" /\ what' = what /\ run' = run /\ status = "RUNNING" /\ status' = status /\ todo # <<>> /\ todo' = Tail(todo)
        /\ failed \subseteq failed'
    BY <1>2 DEF PopLevel, Success, Failure, Busy
  <2>2. /\ Tail(todo) \in Seq(PopUnit) /\ ToSet(todo) = {Unit} \cup ToSet(Tail(todo))
        /\ Unit \in PopUnit
    <3>1. todo \in Seq(PopUnit) /\ todo # <<>>
      BY <1>0, <2>1 DEF PopTypes
    <3>2. Head(todo) \in PopUnit
      BY <3>1
    <3> QED
      BY <3>1, <3>2, TailSet DEF Unit
  <2>3. PICK ds : /\ ds = IF Unit[2] = 2 THEN DistrictsOf[Unit[1]] ELSE {}
                  /\ \/ failed' # {} /\ UNCHANGED <<pop, bare>>
                     \/ pop' = [d \in District |-> IF d \in ds THEN run ELSE pop[d]] /\ UNCHANGED bare
                     \/ bare' = bare \cup ds /\ UNCHANGED pop
    <3>1. PICK ds : ds = IF Unit[2] = 2 THEN DistrictsOf[Unit[1]] ELSE {}
      OBVIOUS
    <3>2. CASE Failure /\ UNCHANGED <<pop, bare>>
      <4>1. failed' # {}
        BY <3>2 DEF Failure
      <4> QED
        BY <3>1, <3>2, <4>1
    <3>3. CASE /\ Success
               /\ \/ pop' = [d \in District |-> IF d \in ds THEN run ELSE pop[d]] /\ UNCHANGED bare
                  \/ bare' = bare \cup ds /\ UNCHANGED pop
      BY <3>1, <3>3
    <3> QED
      BY <1>2, <3>1, <3>2, <3>3 DEF PopLevel
  <2>4. pop' \in [District -> Nat] /\ \A d \in District : pop'[d] = pop[d] \/ pop'[d] = run
    BY <1>0, <2>3 DEF PopTypes
  <2>5. bare \subseteq bare'
    BY <2>3
  <2>6. ASSUME NEW s \in DOMAIN DistrictsOf, HasPeople(s) PROVE HasPeople(s)'
    BY <2>1, <2>4, <2>5, <2>6, DistrictIsSome DEF HasPeople
  <2>7. ASSUME failed' = {}, NEW s \in DOMAIN DistrictsOf, Unit = <<s, 2>> PROVE HasPeople(s)'
    <3>1. ds = DistrictsOf[s]
      BY <2>3, <2>7
    <3> QED
      BY <2>1, <2>3, <2>7, <3>1, DistrictIsSome DEF HasPeople
  <2>8. PopTypes'
    BY <1>0, <2>1, <2>2, <2>4 DEF PopTypes
  <2>9. EachHasPeople'
    <3> SUFFICES ASSUME Going', NEW s \in DOMAIN DistrictsOf PROVE <<s, 2>> \in ToSet(todo)' \/ HasPeople(s)'
      BY DEF EachHasPeople
    <3>1. Going /\ failed' = {}
      BY <2>1 DEF Going
    <3>2. <<s, 2>> \in ToSet(todo) \/ HasPeople(s)
      BY <1>0, <2>1, <3>1 DEF EachHasPeople
    <3> QED
      BY <2>1, <2>2, <2>6, <2>7, <3>1, <3>2
  <2> QED
    BY <2>1, <2>8, <2>9 DEF PopInv, EndsEmpty, DoneIsWhole
<1>3. CASE PopEnd
  <2>1. /\ UNCHANGED <<run, todo, done, failed, what, pop, bare>> /\ status = "RUNNING" /\ todo = <<>>
        /\ (status' = "DONE" => failed = {}) /\ what = "populations"
        /\ totals' = {s \in DOMAIN DistrictsOf : \E d \in DistrictsOf[s] : pop[d] > 0}
    BY <1>3 DEF PopEnd, Finish, Outcome, areaVars
  <2>2. PopTypes' /\ EachHasPeople' /\ EndsEmpty'
    BY <1>0, <2>1 DEF PopTypes, EachHasPeople, Going, HasPeople, EndsEmpty
  <2>3. ASSUME status' = "DONE", NEW s \in DOMAIN DistrictsOf, NEW d \in DistrictsOf[s]
        PROVE  (pop'[d] = run' /\ s \in totals') \/ d \in bare'
    <3>1. Going /\ ToSet(todo) = {}
      BY <2>1, <2>3, EmptySet DEF Going
    <3>2. pop[d] = run \/ d \in bare
      BY <1>0, <2>1, <3>1 DEF EachHasPeople, HasPeople
    <3>3. run > 0
      BY <1>0, <2>1 DEF PopTypes
    <3> QED
      BY <2>1, <3>2, <3>3
  <2>4. DoneIsWhole'
    BY <2>1, <2>3 DEF DoneIsWhole
  <2> QED
    BY <2>2, <2>4 DEF PopInv
<1>4. CASE PopInterrupted
  <2>1. run' = run /\ todo' = <<>> /\ status' = "FAILED" /\ UNCHANGED <<what, pop>>
    BY <1>4 DEF PopInterrupted, Interrupted, sgisVars, popVars
  <2> QED
    BY <1>0, <2>1 DEF PopInv, PopTypes, EachHasPeople, Going, EndsEmpty, DoneIsWhole
<1>5. CASE UNCHANGED <<runVars, sgisVars>>
  BY <1>0, <1>5 DEF PopInv, PopTypes, EachHasPeople, Going, HasPeople, EndsEmpty, DoneIsWhole, runVars, sgisVars, popVars, areaVars
<1> QED
  BY <1>1, <1>2, <1>3, <1>4, <1>5 DEF PopNext

-----------------------------------------------------------------------------
(* OaAreas *)
OaUnit == ToSet(Sggs) \cup ToSet(Emds)
SggHas(s) == s \in none \/ \E e \in EmdsIn(s) : e \in people
EmdHas(e) == e \in none \/ e \in geom
\* A district, a subdistrict is still to do or has its rows.
EachHasOa == Going => /\ \A s \in ToSet(Sggs) : s \in ToSet(todo) \/ SggHas(s)
                      /\ \A e \in ToSet(Emds) : e \in ToSet(todo) \/ EmdHas(e)
OaInv == todo \in Seq(OaUnit) /\ people \subseteq DOMAIN SggOf /\ EachHasOa /\ EndsEmpty

\* Of the units, those without rows are taken up.
LEMMA OaBegins ==
  ASSUME NEW have, NEW havePop
  PROVE  LET units == Only(Sggs, ToSet(Sggs) \ havePop) \o Only(Emds, ToSet(Emds) \ have)
         IN  /\ units \in Seq(OaUnit)
             /\ \A s \in ToSet(Sggs) : s \in ToSet(units) \/ s \in havePop
             /\ \A e \in ToSet(Emds) : e \in ToSet(units) \/ e \in have
<1> DEFINE A == Only(Sggs, ToSet(Sggs) \ havePop)
           B == Only(Emds, ToSet(Emds) \ have)
<1>1. Sggs \in Seq(OaUnit) /\ Emds \in Seq(OaUnit)
  BY OaAssumption DEF OaUnit
<1>2. A \in Seq(OaUnit) /\ ToSet(A) = ToSet(Sggs) \cap (ToSet(Sggs) \ havePop)
  BY <1>1, OnlySet
<1>3. B \in Seq(OaUnit) /\ ToSet(B) = ToSet(Emds) \cap (ToSet(Emds) \ have)
  BY <1>1, OnlySet
<1> HIDE DEF A, B
<1>4. A \o B \in Seq(OaUnit) /\ ToSet(A \o B) = ToSet(A) \cup ToSet(B)
  BY <1>2, <1>3, ConcatSet
<1>5. /\ \A s \in ToSet(Sggs) : s \in ToSet(A \o B) \/ s \in havePop
      /\ \A e \in ToSet(Emds) : e \in ToSet(A \o B) \/ e \in have
  BY <1>2, <1>3, <1>4
<1> QED
  BY <1>4, <1>5 DEF A, B

LEMMA NextWholeOa == OaInv /\ [OaNext]_<<runVars, oaVars>> => OaInv'
<1> SUFFICES ASSUME OaInv, OaNext \/ UNCHANGED <<runVars, oaVars>> PROVE OaInv'
  OBVIOUS
<1>0. todo \in Seq(OaUnit) /\ people \subseteq DOMAIN SggOf /\ EachHasOa /\ EndsEmpty
  BY DEF OaInv
<1>1. CASE OaBegin
  <2>1. PICK refresh \in BOOLEAN :
          LET have    == IF refresh THEN {} ELSE geom
              havePop == IF refresh THEN {} ELSE {SggOf[e] : e \in people}
          IN  Begin(Only(Sggs, ToSet(Sggs) \ havePop) \o Only(Emds, ToSet(Emds) \ have))
    BY <1>1 DEF OaBegin
  <2> DEFINE have    == IF refresh THEN {} ELSE geom
             havePop == IF refresh THEN {} ELSE {SggOf[e] : e \in people}
             units   == Only(Sggs, ToSet(Sggs) \ havePop) \o Only(Emds, ToSet(Emds) \ have)
  <2>2. todo' = units /\ status' = "RUNNING" /\ UNCHANGED <<people, geom>>
    BY <1>1, <2>1 DEF OaBegin, Begin
  <2>3. have \subseteq geom /\ \A s \in havePop : \E e \in people : SggOf[e] = s
    OBVIOUS
  <2>4. /\ units \in Seq(OaUnit)
        /\ \A s \in ToSet(Sggs) : s \in ToSet(units) \/ s \in havePop
        /\ \A e \in ToSet(Emds) : e \in ToSet(units) \/ e \in have
    <3> HIDE DEF have, havePop
    <3> QED
      BY OaBegins
  <2> HIDE DEF have, havePop, units
  <2>5. \A s \in havePop : SggHas(s)'
    BY <1>0, <2>2, <2>3 DEF SggHas, EmdsIn
  <2> QED
    BY <1>0, <2>2, <2>3, <2>4, <2>5 DEF OaInv, EachHasOa, EmdHas, EndsEmpty
<1>2. CASE PopAnswer \/ BoundaryAnswer \/ OaError
  <2>1. /\ status = "RUNNING" /\ status' = status /\ todo # <<>> /\ todo' = Tail(todo) /\ failed \subseteq failed'
        /\ people \subseteq people' /\ geom \subseteq geom' /\ none \subseteq none' /\ people' \subseteq DOMAIN SggOf
    BY <1>0, <1>2 DEF PopAnswer, BoundaryAnswer, OaError, Success, Failure, Passed, Busy, EmdsIn
  <2>2. Tail(todo) \in Seq(OaUnit) /\ ToSet(todo) = {Unit} \cup ToSet(Tail(todo))
    BY <1>0, <2>1, TailSet DEF Unit
  <2>3. failed' # {} \/ (IF IsSgg THEN Unit \in none' \/ \E e \in EmdsIn(Unit) : e \in people'
                                  ELSE Unit \in none' \/ Unit \in geom')
    BY <1>2 DEF PopAnswer, BoundaryAnswer, OaError, Failure, NoData
  <2>4. ASSUME Going', NEW s \in ToSet(Sggs) PROVE s \in ToSet(todo)' \/ SggHas(s)'
    BY <1>0, <2>1, <2>2, <2>3, <2>4 DEF EachHasOa, Going, SggHas, IsSgg, EmdsIn
  <2>5. ASSUME Going', NEW e \in ToSet(Emds) PROVE e \in ToSet(todo)' \/ EmdHas(e)'
    <3>1. e \notin ToSet(Sggs)
      BY OaAssumption
    <3> QED
      BY <1>0, <2>1, <2>2, <2>3, <2>5, <3>1 DEF EachHasOa, Going, EmdHas, IsSgg
  <2> QED
    BY <2>1, <2>2, <2>4, <2>5 DEF OaInv, EachHasOa, EndsEmpty
<1>3. CASE OaEnd \/ OaInterrupted
  <2>1. /\ UNCHANGED <<people, geom, none, failed>> /\ status = "RUNNING"
        /\ \/ todo' = <<>> /\ status' = "FAILED"
           \/ todo = <<>> /\ todo' = todo /\ (status' = "DONE" => failed = {})
    BY <1>3 DEF OaEnd, OaInterrupted, Finish, Interrupted, oaVars
  <2>2. \A s : SggHas(s)' = SggHas(s) /\ EmdHas(s)' = EmdHas(s)
    BY <2>1 DEF SggHas, EmdHas
  <2>3. todo' \in Seq(OaUnit)
    <3>1. <<>> \in Seq(OaUnit)
      OBVIOUS
    <3>2. todo' = <<>> \/ todo' = todo
      BY <2>1
    <3> QED
      BY <1>0, <3>1, <3>2
  <2> QED
    BY <1>0, <2>1, <2>2, <2>3 DEF OaInv, EachHasOa, Going, EndsEmpty
<1>4. CASE UNCHANGED <<runVars, oaVars>>
  BY <1>0, <1>4 DEF OaInv, EachHasOa, Going, SggHas, EmdHas, EndsEmpty, runVars, oaVars
<1> QED
  BY <1>1, <1>2, <1>3, <1>4 DEF OaNext

-----------------------------------------------------------------------------
(* Kosis *)
KosisUnit == DOMAIN Below
KosisTypes == run \in Nat /\ (status = "RUNNING" => run >= 1) /\ todo \in Seq(KosisUnit) /\ resident \in [Resident -> Nat]
ProvinceHas(s) == s \in done /\ Within(s) \cap values # {}
\* While nothing has failed, a province SGIS knows is still to do or has brought some.
EachAnswered == status = "RUNNING" /\ failed = {} => \A s \in Active : s \in ToSet(todo) \/ ProvinceHas(s)
KosisInv == KosisTypes /\ EachAnswered

LEMMA NextAnswered == KosisInv /\ [KosisNext]_<<runVars, kosisVars>> => KosisInv'
<1> SUFFICES ASSUME KosisInv, KosisNext \/ UNCHANGED <<runVars, kosisVars>> PROVE KosisInv'
  OBVIOUS
<1>0. KosisTypes /\ EachAnswered
  BY DEF KosisInv
<1>1. CASE KosisBegin
  <2>1. KosisSidos \in Seq(KosisUnit) /\ \A s \in Active : s \in ToSet(KosisSidos)
    BY KosisAssumption DEF ToSet, KosisUnit
  <2> QED
    BY <1>0, <1>1, <2>1 DEF KosisInv, KosisTypes, EachAnswered, KosisBegin, Begin
<1>2. CASE SidoAnswers \/ SidoHasNone \/ SidoFailed
  <2>1. /\ UNCHANGED <<run, status, resident>> /\ status = "RUNNING" /\ todo # <<>> /\ todo' = Tail(todo)
        /\ failed \subseteq failed' /\ done \subseteq done' /\ values \subseteq values'
        /\ (failed' # {} \/ Unit \notin Active \/ (Unit \in done' /\ Within(Unit) \cap values' # {}))
    BY <1>2 DEF SidoAnswers, SidoHasNone, SidoFailed, Success, Failure, Passed, Busy, MustHave, kosisVars
  <2>2. Tail(todo) \in Seq(KosisUnit) /\ ToSet(todo) = {Unit} \cup ToSet(Tail(todo))
    BY <1>0, <2>1, TailSet DEF Unit, KosisTypes
  <2>3. ASSUME failed' = {}, NEW s \in Active PROVE s \in ToSet(todo)' \/ ProvinceHas(s)'
    <3>1. s \in ToSet(todo) \/ ProvinceHas(s)
      BY <1>0, <2>1, <2>3 DEF EachAnswered
    <3> QED
      BY <2>1, <2>2, <2>3, <3>1 DEF ProvinceHas
  <2> QED
    BY <1>0, <2>1, <2>2, <2>3 DEF KosisInv, KosisTypes, EachAnswered
<1>3. CASE KosisStore
  <2>1. resident' \in [Resident -> Nat]
    BY <1>0, <1>3 DEF KosisStore, KosisTypes
  <2> QED
    BY <1>0, <1>3, <2>1 DEF KosisInv, KosisTypes, EachAnswered, ProvinceHas, KosisStore, runVars
<1>4. CASE KosisEnd
  <2>1. status' # "RUNNING" /\ UNCHANGED <<run, todo, resident>>
    BY <1>4 DEF KosisEnd, Finish, Outcome, kosisVars
  <2> QED
    BY <1>0, <2>1 DEF KosisInv, KosisTypes, EachAnswered
<1>5. CASE KosisInterrupted
  <2>1. status' # "RUNNING" /\ UNCHANGED <<run, resident>> /\ todo' = <<>>
    BY <1>5 DEF KosisInterrupted, Interrupted, kosisVars
  <2> QED
    BY <1>0, <2>1 DEF KosisInv, KosisTypes, EachAnswered
<1>6. CASE UNCHANGED <<runVars, kosisVars>>
  BY <1>0, <1>6 DEF KosisInv, KosisTypes, EachAnswered, ProvinceHas, runVars, kosisVars
<1> QED
  BY <1>1, <1>2, <1>3, <1>4, <1>5, <1>6 DEF KosisNext

LostIsAnswered ==
  \A s \in Active : \A a \in Within(s) : resident[a] > 0 /\ resident'[a] = 0 => s \in done /\ Within(s) \cap values # {}
LEMMA KosisKeeps == KosisInv /\ [KosisNext]_<<runVars, kosisVars>> => [LostIsAnswered]_kosisVars
<1> SUFFICES ASSUME KosisInv, KosisNext \/ UNCHANGED <<runVars, kosisVars>>, NEW s \in Active, NEW a \in Within(s),
                    resident[a] > 0, resident'[a] = 0
             PROVE  ProvinceHas(s)
  BY DEF LostIsAnswered, ProvinceHas
<1>1. s \in DOMAIN Below /\ a \in Resident
  BY KosisAssumption DEF Resident
<1>2. KosisStore
  <2>1. resident' # resident
    BY <1>1 DEF KosisInv, KosisTypes
  <2> QED
    BY <2>1 DEF KosisNext, KosisBegin, SidoAnswers, SidoHasNone, SidoFailed, KosisEnd, KosisInterrupted, kosisVars
<1>3. resident'[a] = IF a \in Matched THEN run ELSE IF failed # {} THEN resident[a] ELSE 0
  BY <1>1, <1>2 DEF KosisStore
<1>4. failed = {} /\ status = "RUNNING" /\ todo = <<>> /\ run > 0
  BY <1>1, <1>2, <1>3 DEF KosisStore, KosisInv, KosisTypes
<1> QED
  BY <1>4, EmptySet DEF KosisInv, EachAnswered

-----------------------------------------------------------------------------
(* Kosis: no province is left out *)
\* What a run has stored with all its provinces is all there is.
AllReplaced ==
  written /\ Going => todo = <<>> /\ \A a \in Resident : resident[a] = IF a \in Matched THEN run ELSE 0
KosisWhole == KosisInv /\ AllReplaced /\ EndsEmpty /\ DoneHasResidents

LEMMA NextWholeKosis == KosisWhole /\ [KosisNext]_<<runVars, kosisVars>> => KosisWhole'
<1> SUFFICES ASSUME KosisWhole, KosisNext \/ UNCHANGED <<runVars, kosisVars>> PROVE KosisWhole'
  OBVIOUS
<1>0. KosisInv /\ AllReplaced /\ EndsEmpty /\ DoneHasResidents
  BY DEF KosisWhole
<1>1. KosisInv'
  BY <1>0, NextAnswered
<1>2. CASE KosisBegin
  BY <1>1, <1>2 DEF KosisBegin, Begin, KosisWhole, AllReplaced, EndsEmpty, DoneHasResidents
<1>3. CASE SidoAnswers \/ SidoHasNone \/ SidoFailed
  <2>1. /\ status = "RUNNING" /\ status' = status /\ todo # <<>> /\ failed \subseteq failed' /\ written' = written
    BY <1>3 DEF SidoAnswers, SidoHasNone, SidoFailed, Success, Failure, Passed, Busy, kosisVars
  <2>2. ~(written' /\ Going')
    BY <1>0, <2>1 DEF AllReplaced, Going
  <2> QED
    BY <1>1, <2>1, <2>2 DEF KosisWhole, AllReplaced, EndsEmpty, DoneHasResidents
<1>4. CASE KosisStore
  <2>1. /\ status = "RUNNING" /\ todo = <<>> /\ UNCHANGED <<run, status, todo, failed, values>>
        /\ resident' = [a \in Resident |-> IF a \in Matched THEN run ELSE IF failed # {} THEN resident[a] ELSE 0]
    BY <1>4 DEF KosisStore, runVars
  <2>2. Matched' = Matched
    BY <2>1 DEF Matched
  <2>3. ASSUME failed = {}, NEW a \in Resident PROVE resident'[a] = IF a \in Matched THEN run ELSE 0
    BY <2>1, <2>3
  <2>4. AllReplaced'
    BY <2>1, <2>2, <2>3 DEF AllReplaced, Going
  <2> QED
    BY <1>1, <2>1, <2>4 DEF KosisWhole, EndsEmpty, DoneHasResidents
<1>5. CASE KosisEnd
  <2>1. /\ written /\ status = "RUNNING" /\ todo = <<>> /\ UNCHANGED <<run, todo, done, failed, values, resident, written>>
        /\ (status' = "DONE" => failed = {})
    BY <1>5 DEF KosisEnd, Finish, Outcome, kosisVars
  <2>2. Matched' = Matched
    BY <2>1 DEF Matched
  <2>3. ASSUME failed = {}
        PROVE  /\ \A a \in Resident : resident[a] = IF a \in Matched THEN run ELSE 0
               /\ \A s \in Active : ProvinceHas(s)
    <3>1. Going
      BY <2>1, <2>3 DEF Going
    <3>2. ToSet(todo) = {}
      BY <2>1, EmptySet
    <3> QED
      BY <1>0, <2>1, <2>3, <3>1, <3>2 DEF AllReplaced, KosisInv, EachAnswered
  <2>4. AllReplaced'
    BY <2>1, <2>2, <2>3 DEF AllReplaced, Going
  <2>5. DoneHasResidents'
    BY <2>1, <2>2, <2>3 DEF DoneHasResidents, ProvinceHas
  <2> QED
    BY <1>1, <2>1, <2>4, <2>5 DEF KosisWhole, EndsEmpty
<1>6. CASE KosisInterrupted
  <2>1. status' = "FAILED"
    BY <1>6 DEF KosisInterrupted, Interrupted
  <2> QED
    BY <1>1, <2>1 DEF KosisWhole, AllReplaced, Going, EndsEmpty, DoneHasResidents
<1>7. CASE UNCHANGED <<runVars, kosisVars>>
  <2>1. Matched' = Matched
    BY <1>7 DEF Matched, kosisVars
  <2> QED
    BY <1>0, <1>1, <1>7, <2>1 DEF KosisWhole, AllReplaced, Going, EndsEmpty, DoneHasResidents, runVars, kosisVars
<1> QED
  BY <1>2, <1>3, <1>4, <1>5, <1>6, <1>7 DEF KosisNext

-----------------------------------------------------------------------------
(* Holidays *)
DayInv ==
  /\ run \in Nat /\ holiday \in [SeqSet(Years) -> Nat] /\ \A y \in SeqSet(Years) : holiday[y] <= run
  /\ air \in [SeqSet(AirCalls) -> Nat] /\ best \in [SeqSet(AirCalls) -> Nat]

LEMMA NextDay == DayInv /\ [DayNext]_<<runVars, dayVars>> => DayInv'
<1> SUFFICES ASSUME DayInv, DayNext \/ UNCHANGED <<runVars, dayVars>> PROVE DayInv'
  OBVIOUS
<1>1. CASE HolidaysBegin \/ AirBegin
  BY <1>1 DEF DayInv, HolidaysBegin, AirBegin, Begin
<1>2. CASE Year
  <2>1. /\ run' = run /\ UNCHANGED <<air, best>>
        /\ \/ holiday' = holiday
           \/ holiday' = [holiday EXCEPT ![Unit] = run]
    BY <1>2 DEF Year, Success, Passed, Replaces
  <2> QED
    BY <2>1 DEF DayInv
<1>3. CASE AirAnswer
  <2>1. PICK items \in SUBSET Announcements :
          best' = [best EXCEPT ![Unit] = IF items = {} THEN @ ELSE CHOOSE t \in items : \A u \in items : t >= u]
    BY <1>3 DEF AirAnswer
  <2>2. IsFiniteSet(items) /\ items \in SUBSET Int
    <3>1. IsFiniteSet(items)
      BY DayAssumption, FS_Subset
    <3>2. items \in SUBSET Int
      BY DayAssumption
    <3> QED
      BY <3>1, <3>2
  <2>3. items # {} => (CHOOSE t \in items : \A u \in items : t >= u) \in Nat
    <3> HAVE items # {}
    <3>1. \E t \in items : \A u \in items : t >= u
      BY <2>2, Extremes
    <3>2. (CHOOSE t \in items : \A u \in items : t >= u) \in items
      BY <3>1
    <3> QED
      BY <3>2, DayAssumption
  <2> DEFINE new == CHOOSE t \in items : \A u \in items : t >= u
  <2>4. best' = [best EXCEPT ![Unit] = IF items = {} THEN @ ELSE new] /\ (items # {} => new \in Nat)
    BY <2>1, <2>3
  <2> HIDE DEF new
  <2>5. best' \in [SeqSet(AirCalls) -> Nat]
    BY <2>4 DEF DayInv
  <2>6. UNCHANGED <<run, holiday, air>>
    BY <1>3 DEF AirAnswer, Success
  <2> QED
    BY <2>5, <2>6 DEF DayInv
<1>4. CASE AirStore
  <2>1. air' \in [SeqSet(AirCalls) -> Nat]
    BY <1>4 DEF AirStore, DayInv
  <2> QED
    BY <1>4, <2>1 DEF AirStore, DayInv, runVars
<1>5. CASE DayFailed \/ DayStop \/ DayEnd \/ DayInterrupted \/ UNCHANGED <<runVars, dayVars>>
  <2>1. UNCHANGED <<run, holiday, air, best>>
    BY <1>5 DEF DayFailed, DayStop, DayEnd, DayInterrupted, Failure, Break, Finish, Interrupted, dayVars, runVars
  <2> QED
    BY <2>1 DEF DayInv
<1> QED
  BY <1>1, <1>2, <1>3, <1>4, <1>5 DEF DayNext

NothingLost ==
  /\ \A y \in DOMAIN holiday : holiday[y] > 0 => holiday'[y] >= holiday[y]
  /\ \A d \in DOMAIN air : air'[d] >= air[d]
LEMMA DaysKeep == DayInv /\ [DayNext]_<<runVars, dayVars>> => [NothingLost]_dayVars
<1> SUFFICES ASSUME DayInv, DayNext PROVE NothingLost
  BY DEF dayVars
<1>1. CASE Year
  <2>1. /\ UNCHANGED air
        /\ \/ holiday' = holiday
           \/ holiday' = [holiday EXCEPT ![Unit] = run]
    BY <1>1 DEF Year, Success, Passed, Replaces
  <2>2. \A y \in DOMAIN holiday : holiday'[y] = holiday[y] \/ holiday'[y] = run
    BY <2>1 DEF DayInv
  <2> QED
    BY <2>1, <2>2 DEF DayInv, NothingLost
<1>2. CASE AirStore
  <2>1. \A d \in DOMAIN air : air'[d] >= air[d]
    BY <1>2 DEF AirStore, DayInv
  <2> QED
    BY <1>2, <2>1 DEF AirStore, DayInv, NothingLost
<1>3. CASE ~Year /\ ~AirStore
  <2>1. UNCHANGED <<holiday, air>>
    BY <1>3 DEF DayNext, HolidaysBegin, AirBegin, AirAnswer, DayFailed, DayStop, DayEnd, DayInterrupted, dayVars
  <2> QED
    BY <2>1 DEF DayInv, NothingLost
<1> QED
  BY <1>1, <1>2, <1>3

-----------------------------------------------------------------------------
\* A collection of residents takes an area's away only after its province has
\* answered in the same run, and a year's holidays and a day's air forecast give
\* way only to newer ones (kosis/pipeline.py:136-155, holiday.py:60-75, air.py:52),
\* for any provinces, years and calls and in any number of runs.
KeptInv ==
  /\ which = "kosis" => KosisInv
  /\ which = "days" => DayInv
THEOREM UnreplacedKept == CollectorsSpec => UnreplacedIsKept
<1>1. CollectorsInit => KeptInv
  <2> SUFFICES ASSUME CollectorsInit PROVE KeptInv
    OBVIOUS
  <2>1. <<>> \in Seq(KosisUnit)
    OBVIOUS
  <2>2. KosisInv
    BY <2>1 DEF CollectorsInit, CollectInit, KosisInit, KosisInv, KosisTypes, EachAnswered
  <2>3. DayInv
    BY DEF CollectorsInit, CollectInit, DayInit, DayInv
  <2> QED
    BY <2>2, <2>3 DEF KeptInv
<1>2. KeptInv /\ [CollectorsNext]_<<which, runVars, othersVars>> => KeptInv' /\ [LostIsAnswered]_kosisVars /\ [NothingLost]_dayVars
  <2> SUFFICES ASSUME KeptInv, CollectorsNext \/ UNCHANGED <<which, runVars, othersVars>>
               PROVE  KeptInv' /\ [LostIsAnswered]_kosisVars /\ [NothingLost]_dayVars
    OBVIOUS
  <2>1. which' = which
    BY DEF CollectorsNext
  <2>2. CASE which = "kosis"
    <3>1. [KosisNext]_<<runVars, kosisVars>> /\ UNCHANGED dayVars
      BY <2>2 DEF CollectorsNext, othersVars
    <3> QED
      BY <2>1, <2>2, <3>1, NextAnswered, KosisKeeps DEF KeptInv
  <2>3. CASE which = "days"
    <3>1. [DayNext]_<<runVars, dayVars>> /\ UNCHANGED kosisVars
      BY <2>3 DEF CollectorsNext, othersVars
    <3> QED
      BY <2>1, <2>3, <3>1, NextDay, DaysKeep DEF KeptInv
  <2>4. CASE which \notin {"kosis", "days"}
    BY <2>1, <2>4 DEF KeptInv, CollectorsNext, othersVars
  <2> QED
    BY <2>2, <2>3, <2>4
<1> QED
  BY <1>1, <1>2, PTL DEF CollectorsSpec, UnreplacedIsKept, UnansweredIsKept, DaysAreKept, LostIsAnswered, NothingLost

-----------------------------------------------------------------------------
(* Roads *)
RoadRow == [st : {"none", "OK", "NO_ROUTE", "ERROR"}, origin : {"REP", "OA"}, far : BOOLEAN]
Call == [pair : Pair, origin : {"REP", "OA"}]
\* Only a row with a result is repaired, and only a route is a detour.
RowsAgree == \A p \in Pair : (road[p].origin = "OA" => road[p].st \in {"OK", "NO_ROUTE"}) /\ (road[p].far => road[p].st = "OK")
\* The calls still to make are of different pairs, and what each finds there is
\* what it was chosen for.
CallsFit(calls, r) ==
  /\ calls \in Seq(Call)
  /\ \A i, j \in DOMAIN calls : calls[i].pair = calls[j].pair => i = j
  /\ \A i \in DOMAIN calls : calls[i].origin = "REP" <=> r[calls[i].pair].st \notin {"OK", "NO_ROUTE"}
RoadInv == road \in [Pair -> RoadRow] /\ RowsAgree /\ CallsFit(todo, road)

LEMMA UptoFacts ==
  ASSUME NEW S, NEW s \in Seq(S), NEW n \in Nat
  PROVE  /\ Upto(s, n) \in Seq(S) /\ Len(Upto(s, n)) \in 0 .. n /\ DOMAIN Upto(s, n) \subseteq DOMAIN s
         /\ \A i \in DOMAIN Upto(s, n) : Upto(s, n)[i] = s[i] /\ s[i] \in ToSet(s)
<1> DEFINE k == Min({n, Len(s)})
<1>1. Len(s) \in Nat /\ DOMAIN s = 1 .. Len(s)
  OBVIOUS
<1>3. k \in Nat /\ k <= n /\ k <= Len(s)
  BY <1>1, MinOfTwo
<1> HIDE DEF k
<1>4. SubSeq(s, 1, k) \in Seq(S) /\ Len(SubSeq(s, 1, k)) = k /\ \A i \in 1 .. k : SubSeq(s, 1, k)[i] = s[i]
  BY <1>1, <1>3
<1>5. Upto(s, n) = SubSeq(s, 1, k)
  BY DEF Upto, k
<1>6. DOMAIN SubSeq(s, 1, k) = 1 .. k
  BY <1>3, <1>4
<1>7. \A i \in 1 .. k : i \in DOMAIN s /\ s[i] \in ToSet(s)
  BY <1>1, <1>3 DEF ToSet
<1> QED
  BY <1>1, <1>3, <1>4, <1>5, <1>6, <1>7

\* Calls of pairs that differ, made in one way.
FirstOf(X, n) == Upto(Only(RoadPairs, X), n)
CallsFor(s, origin) == [i \in DOMAIN s |-> Calls(s[i], origin)]
LEMMA CallsOf ==
  ASSUME NEW X \in SUBSET Pair, NEW n \in Nat, NEW origin \in {"REP", "OA"}
  PROVE  LET s == FirstOf(X, n)
             calls == CallsFor(s, origin)
         IN  /\ calls \in Seq(Call) /\ DOMAIN calls = DOMAIN s /\ Len(s) \in 0 .. n
             /\ \A i, j \in DOMAIN calls : calls[i].pair = calls[j].pair => i = j
             /\ \A i \in DOMAIN calls : calls[i].pair \in X /\ calls[i].origin = origin
<1> DEFINE o == Only(RoadPairs, X)
           s == Upto(o, n)
           calls == [i \in DOMAIN s |-> Calls(s[i], origin)]
<1>1. /\ o \in Seq(Pair) /\ ToSet(o) = Pair \cap X
      /\ \A i, j \in DOMAIN o : o[i] = o[j] => i = j
  <2>1. RoadPairs \in Seq(Pair) /\ \A i, j \in DOMAIN RoadPairs : RoadPairs[i] = RoadPairs[j] => i = j
    BY RoadAssumption DEF Pair
  <2> QED
    BY <2>1, OnlySet DEF Pair
<1> HIDE DEF o
<1>2. /\ s \in Seq(Pair) /\ Len(s) \in 0 .. n /\ DOMAIN s \subseteq DOMAIN o
      /\ \A i \in DOMAIN s : s[i] = o[i] /\ s[i] \in X
  BY <1>1, UptoFacts
<1> HIDE DEF s
<1>3. \A i \in DOMAIN s : calls[i] \in Call /\ calls[i].pair = s[i] /\ calls[i].origin = origin
  BY <1>2 DEF Calls, Call
<1>4. calls \in Seq(Call) /\ DOMAIN calls = DOMAIN s
  <2>1. DOMAIN s = 1 .. Len(s) /\ Len(s) \in Nat /\ calls = [i \in 1 .. Len(s) |-> calls[i]]
    BY <1>2
  <2> HIDE DEF calls
  <2> QED
    BY <1>3, <2>1
<1> QED
  BY <1>1, <1>2, <1>3, <1>4 DEF s, o, FirstOf, CallsFor

LEMMA NextRoad == RoadInv /\ [RoadNext]_<<runVars, roadVars>> => RoadInv'
<1> SUFFICES ASSUME RoadInv, RoadNext \/ UNCHANGED <<runVars, roadVars>> PROVE RoadInv'
  OBVIOUS
<1>0. road \in [Pair -> RoadRow] /\ RowsAgree /\ CallsFit(todo, road)
  BY DEF RoadInv
<1>1. CASE RoadBegin
  <2> DEFINE X == {p \in Pair : road[p].st \notin {"OK", "NO_ROUTE"}}
             Y == {p \in Pair : Suspect(p, road)}
             new == FirstOf(X, MaxCalls)
             old == FirstOf(Y, MaxCalls - Len(new))
             a == CallsFor(new, "REP")
             b == CallsFor(old, "OA")
  <2>1. todo' = a \o b /\ road' = road
    BY <1>1 DEF RoadBegin, Begin, Todo, Repairs, FirstOf, CallsFor
  <2>2. X \in SUBSET Pair /\ Y \in SUBSET Pair /\ MaxCalls \in Nat
    BY RoadAssumption
  <2>3. \A p \in X : road[p].st \notin {"OK", "NO_ROUTE"}
    OBVIOUS
  <2>4. \A p \in Y : road[p].st \in {"OK", "NO_ROUTE"}
    BY <1>0 DEF Suspect, RowsAgree
  <2>9. \A p \in X : p \notin Y
    BY <2>3, <2>4
  <2> HIDE DEF X, Y
  <2>5. /\ a \in Seq(Call) /\ Len(new) \in 0 .. MaxCalls
        /\ \A i, j \in DOMAIN a : a[i].pair = a[j].pair => i = j
        /\ \A i \in DOMAIN a : a[i].pair \in X /\ a[i].origin = "REP"
    BY <2>2, CallsOf
  <2>6. MaxCalls - Len(new) \in Nat
    <3> HIDE DEF new, a
    <3> QED
      BY <2>2, <2>5
  <2>7. /\ b \in Seq(Call)
        /\ \A i, j \in DOMAIN b : b[i].pair = b[j].pair => i = j
        /\ \A i \in DOMAIN b : b[i].pair \in Y /\ b[i].origin = "OA"
    <3> DEFINE k == MaxCalls - Len(new)
    <3>1. k \in Nat
      BY <2>6
    <3>2. PICK c : c = CallsFor(FirstOf(Y, k), "OA")
      OBVIOUS
    <3>3. b = c
      BY <3>2
    <3> HIDE DEF k, new, old, a, b
    <3>4. Y \in SUBSET Pair /\ "OA" \in {"REP", "OA"}
      BY <2>2
    <3>5. /\ c \in Seq(Call)
          /\ \A i, j \in DOMAIN c : c[i].pair = c[j].pair => i = j
          /\ \A i \in DOMAIN c : c[i].pair \in Y /\ c[i].origin = "OA"
      BY <3>1, <3>2, <3>4, CallsOf
    <3> QED
      BY <3>3, <3>5
  <2> HIDE DEF new, old, a, b
  <2>8. CallsFit(a \o b, road)
    <3>1. /\ a \o b \in Seq(Call) /\ Len(a \o b) = Len(a) + Len(b) /\ Len(a) \in Nat /\ Len(b) \in Nat
          /\ DOMAIN (a \o b) = 1 .. Len(a) + Len(b) /\ DOMAIN a = 1 .. Len(a) /\ DOMAIN b = 1 .. Len(b)
          /\ \A i \in 1 .. Len(a) + Len(b) : (a \o b)[i] = IF i <= Len(a) THEN a[i] ELSE b[i - Len(a)]
      BY <2>5, <2>7
    <3>2. \A i \in 1 .. Len(a) + Len(b) : (i \in DOMAIN a /\ (a \o b)[i] = a[i]) \/ (i - Len(a) \in DOMAIN b /\ (a \o b)[i] = b[i - Len(a)])
      BY <3>1
    <3>3. ASSUME NEW i \in DOMAIN (a \o b), NEW j \in DOMAIN (a \o b), (a \o b)[i].pair = (a \o b)[j].pair PROVE i = j
      <4>1. i \in Int /\ j \in Int /\ Len(a) \in Nat
        BY <3>1
      <4>2. CASE (a \o b)[i].pair \in X
        <5>1. /\ i \in DOMAIN a /\ (a \o b)[i] = a[i]
              /\ j \in DOMAIN a /\ (a \o b)[j] = a[j]
          BY <2>7, <2>9, <3>1, <3>2, <3>3, <4>2
        <5> QED
          BY <2>5, <3>3, <5>1
      <4>3. CASE (a \o b)[i].pair \notin X
        <5>1. /\ i - Len(a) \in DOMAIN b /\ (a \o b)[i] = b[i - Len(a)]
              /\ j - Len(a) \in DOMAIN b /\ (a \o b)[j] = b[j - Len(a)]
          BY <2>5, <3>1, <3>2, <3>3, <4>3
        <5>2. i - Len(a) = j - Len(a)
          BY <2>7, <3>3, <5>1
        <5> QED
          BY <4>1, <5>2
      <4> QED
        BY <4>2, <4>3
    <3>4. ASSUME NEW i \in DOMAIN (a \o b)
          PROVE  (a \o b)[i].origin = "REP" <=> road[(a \o b)[i].pair].st \notin {"OK", "NO_ROUTE"}
      BY <2>3, <2>4, <2>5, <2>7, <3>1, <3>2
    <3> QED
      BY <3>1, <3>3, <3>4 DEF CallsFit
  <2> QED
    BY <1>0, <2>1, <2>8 DEF RoadInv, RowsAgree
<1>2. CASE Routed
  <2>1. PICK st \in {"OK", "NO_ROUTE", "ERROR"}, far \in BOOLEAN :
          /\ far => st = "OK"
          /\ road' = [road EXCEPT ![Unit.pair] =
               IF Unit.origin = "REP" THEN [st |-> st, origin |-> "REP", far |-> far] ELSE Repaired(@, st, far)]
    BY <1>2 DEF Routed
  <2>2. todo # <<>> /\ todo' = Tail(todo)
    BY <1>2 DEF Routed, Passed, Busy
  <2>3. /\ todo \in Seq(Call) /\ Unit = todo[1] /\ Unit \in Call /\ 1 \in DOMAIN todo
        /\ Tail(todo) \in Seq(Call) /\ \A i \in DOMAIN Tail(todo) : i + 1 \in DOMAIN todo /\ i + 1 # 1 /\ Tail(todo)[i] = todo[i + 1]
    BY <1>0, <2>2 DEF CallsFit, Unit
  <2> DEFINE p == Unit.pair
             row == IF Unit.origin = "REP" THEN [st |-> st, origin |-> "REP", far |-> far] ELSE Repaired(road[p], st, far)
  <2>4. p \in Pair /\ road' = [road EXCEPT ![p] = row]
    BY <2>1, <2>3 DEF Call
  <2>5. row \in RoadRow /\ (row.origin = "OA" => row.st \in {"OK", "NO_ROUTE"}) /\ (row.far => row.st = "OK")
    <3>1. road[p] \in RoadRow
      BY <1>0, <2>4
    <3>2. CASE Unit.origin = "REP"
      BY <2>1, <3>2 DEF RoadRow
    <3>3. CASE Unit.origin # "REP"
      <4>1. road[p].st \in {"OK", "NO_ROUTE"} /\ (road[p].far => road[p].st = "OK")
        BY <1>0, <2>3, <2>4, <3>3 DEF CallsFit, RowsAgree
      <4> QED
        BY <2>1, <3>1, <3>3, <4>1 DEF RoadRow, Repaired
    <3> QED
      BY <3>2, <3>3
  <2> HIDE DEF row
  <2>6. road' \in [Pair -> RoadRow] /\ RowsAgree'
    BY <1>0, <2>4, <2>5 DEF RowsAgree
  <2>7. \A i \in DOMAIN Tail(todo) : road'[Tail(todo)[i].pair] = road[Tail(todo)[i].pair]
    BY <1>0, <2>3, <2>4 DEF CallsFit
  <2>8. ASSUME NEW i \in DOMAIN Tail(todo), NEW j \in DOMAIN Tail(todo), Tail(todo)[i].pair = Tail(todo)[j].pair PROVE i = j
    <3>1. i + 1 = j + 1 /\ i \in Int /\ j \in Int
      BY <1>0, <2>3, <2>8 DEF CallsFit
    <3> QED
      BY <3>1
  <2>9. CallsFit(Tail(todo), road')
    BY <1>0, <2>3, <2>7, <2>8 DEF CallsFit
  <2> QED
    BY <2>2, <2>6, <2>9 DEF RoadInv
<1>3. CASE RoadStop \/ RoadEnd \/ RoadInterrupted \/ UNCHANGED <<runVars, roadVars>>
  <2>1. road' = road /\ (todo' = todo \/ todo' = <<>>)
    BY <1>3 DEF RoadStop, RoadEnd, RoadInterrupted, Break, Finish, Interrupted, runVars, roadVars
  <2>2. CallsFit(<<>>, road)
    BY DEF CallsFit
  <2> QED
    BY <1>0, <2>1, <2>2 DEF RoadInv, RowsAgree
<1> QED
  BY <1>1, <1>2, <1>3 DEF RoadNext

RoutesStay ==
  \A p \in Pair :
    /\ road[p].st = "OK" => road'[p].st = "OK"
    /\ road[p].origin = "OA" => road'[p].origin = "OA"
LEMMA RoadsStay == RoadInv /\ [RoadNext]_<<runVars, roadVars>> => [RoutesStay]_roadVars
<1> SUFFICES ASSUME RoadInv, RoadNext, NEW p \in Pair
             PROVE  /\ road[p].st = "OK" => road'[p].st = "OK"
                    /\ road[p].origin = "OA" => road'[p].origin = "OA"
  BY DEF RoutesStay, roadVars
<1>0. road \in [Pair -> RoadRow] /\ RowsAgree /\ CallsFit(todo, road)
  BY DEF RoadInv
<1>1. CASE Routed /\ Unit.pair = p
  <2>1. PICK st \in {"OK", "NO_ROUTE", "ERROR"}, far \in BOOLEAN :
          road' = [road EXCEPT ![Unit.pair] =
            IF Unit.origin = "REP" THEN [st |-> st, origin |-> "REP", far |-> far] ELSE Repaired(@, st, far)]
    BY <1>1 DEF Routed
  <2>2. /\ Unit \in Call
        /\ Unit.origin = "REP" <=> road[p].st \notin {"OK", "NO_ROUTE"}
    <3>1. todo \in Seq(Call) /\ todo # <<>>
      BY <1>0, <1>1 DEF CallsFit, Routed, Passed, Busy
    <3>2. 1 \in DOMAIN todo /\ Unit = todo[1] /\ Unit \in Call
      BY <3>1 DEF Unit
    <3> QED
      BY <1>0, <1>1, <3>2 DEF CallsFit
  <2>3. CASE Unit.origin = "REP"
    BY <1>0, <2>2, <2>3 DEF RowsAgree
  <2>4. CASE Unit.origin # "REP"
    <3>1. road'[p] = Repaired(road[p], st, far) /\ road[p] \in RoadRow
      BY <1>0, <1>1, <2>1, <2>4
    <3> QED
      BY <3>1 DEF Repaired, RoadRow
  <2> QED
    BY <2>3, <2>4
<1>2. CASE Routed /\ Unit.pair # p
  BY <1>0, <1>2 DEF Routed
<1>3. CASE ~Routed
  BY <1>3 DEF RoadNext, RoadBegin, RoadStop, RoadEnd, RoadInterrupted
<1> QED
  BY <1>1, <1>2, <1>3

\* Whatever calls bring and wherever runs end, a route once found stays, and a pair
\* is repaired once (road.py:104), for any pairs and any number of calls.
THEOREM RouteKept == CollectorsSpec => RouteIsKept
<1> DEFINE Inv == which = "roads" => RoadInv
<1>1. CollectorsInit => Inv
  <2>1. CollectorsInit => road \in [Pair -> RoadRow] /\ RowsAgree /\ CallsFit(todo, road)
    BY DEF CollectorsInit, CollectInit, RoadInit, RowsAgree, CallsFit, Never, RoadRow
  <2> QED
    BY <2>1 DEF RoadInv
<1>2. Inv /\ [CollectorsNext]_<<which, runVars, othersVars>> => Inv' /\ [RoutesStay]_roadVars
  <2> SUFFICES ASSUME Inv, CollectorsNext \/ UNCHANGED <<which, runVars, othersVars>> PROVE Inv' /\ [RoutesStay]_roadVars
    OBVIOUS
  <2>1. which' = which
    BY DEF CollectorsNext
  <2>2. CASE which = "roads"
    <3>1. [RoadNext]_<<runVars, roadVars>>
      BY <2>2 DEF CollectorsNext, othersVars
    <3> QED
      BY <2>1, <2>2, <3>1, NextRoad, RoadsStay
  <2>3. CASE which # "roads"
    BY <2>1, <2>3 DEF CollectorsNext, othersVars
  <2> QED
    BY <2>2, <2>3
<1> QED
  BY <1>1, <1>2, PTL DEF CollectorsSpec, RouteIsKept, RoutesStay

-----------------------------------------------------------------------------
(* Banks *)
Tiles == Seq(1 .. 4)
BanksTypes ==
  /\ run \in Nat /\ base \in 0 .. run /\ lastSeen \in [Branch -> 0 .. run]
  /\ open \subseteq Branch /\ since \subseteq open /\ steady \subseteq Branch
  /\ full => todo \in Seq(Tiles)
  /\ pageNo \in Nat
  /\ pageNo > 0 => status = "RUNNING" /\ full /\ todo # <<>>
\* While nothing has failed, a branch open since the full run began has been seen
\* by it or lies in a tile still to do.
EachSeen ==
  status = "RUNNING" /\ full /\ failed = {} /\ ~stopped =>
    \A b \in since : lastSeen[b] = run \/ \E t \in ToSet(todo) : IsPrefix(t, TileOf[b])
\* Of the tile in hand the branches on the pages that have come have been seen,
\* and the total is still right, unless its branches have moved.
PagesSeen ==
  pageNo > 0 =>
    \A b \in since \cap InTile(Unit) :
      /\ stated = Total(Unit)
      /\ b \in OnPages(SetToSeq(InTile(Unit)), pageNo) => lastSeen[b] = run
BanksInv == BanksTypes /\ EachSeen /\ PagesSeen /\ OpenBranchIsCurrent

LEMMA TilesCover == ASSUME NEW b \in Branch PROVE \E t \in ToSet(Reverse(StartTiles)) : IsPrefix(t, TileOf[b])
<1>1. StartTiles \in Seq(Tiles)
  BY BanksAssumption DEF Tiles
<1>2. PICK i \in DOMAIN StartTiles : IsPrefix(StartTiles[i], TileOf[b])
  BY BanksAssumption
<1>3. StartTiles[i] \in ToSet(Reverse(StartTiles))
  <2>1. ToSet(Reverse(StartTiles)) = ToSet(StartTiles)
    BY <1>1, ReverseSet
  <2> QED
    BY <2>1 DEF ToSet
<1> QED
  BY <1>2, <1>3

\* A tile above the smallest ones lies in one of its quarters.
LEMMA InQuarter ==
  ASSUME NEW b \in Branch, NEW t \in Tiles, IsPrefix(t, TileOf[b]), Len(t) < MinDepth
  PROVE  \E q \in Quarters : IsPrefix(Append(t, q), TileOf[b])
<1> DEFINE u == TileOf[b]
           q == u[Len(t) + 1]
<1>1. u \in Seq(1 .. 4) /\ Len(u) = MinDepth /\ t \in Seq(1 .. 4) /\ Len(t) \in Nat
  BY BanksAssumption DEF Tiles
<1>2. \A i \in 1 .. Len(t) : t[i] = u[i]
  BY <1>1, PrefixAt
<1>3. Len(t) + 1 \in 1 .. Len(u) /\ q \in 1 .. 4
  BY <1>1
<1>4. /\ Append(t, q) \in Seq(1 .. 4) /\ Len(Append(t, q)) = Len(t) + 1
      /\ \A i \in 1 .. Len(t) + 1 : Append(t, q)[i] = IF i = Len(t) + 1 THEN q ELSE t[i]
  BY <1>1, <1>3
<1>5. \A i \in 1 .. Len(Append(t, q)) : Append(t, q)[i] = u[i]
  BY <1>1, <1>2, <1>4
<1>6. IsPrefix(Append(t, q), u)
  <2> DEFINE p == Append(t, q)
  <2>1. p \in Seq(1 .. 4) /\ Len(p) <= Len(u) /\ \A i \in 1 .. Len(p) : p[i] = u[i]
    BY <1>1, <1>3, <1>4, <1>5
  <2> HIDE DEF p, u
  <2>2. IsPrefix(p, u)
    BY <1>1, <2>1, PrefixAt
  <2> QED
    BY <2>2 DEF p
<1> QED
  BY <1>3, <1>6 DEF Quarters

LEMMA QuartersOf ==
  ASSUME NEW t \in Tiles
  PROVE  LET qs == Reverse([q \in Quarters |-> Append(t, q)])
         IN  qs \in Seq(Tiles) /\ ToSet(qs) = {Append(t, q) : q \in Quarters}
<1> DEFINE s == [q \in Quarters |-> Append(t, q)]
<1>1. \A q \in 1 .. 4 : Append(t, q) \in Tiles
  BY DEF Tiles
<1>2. s \in [1 .. 4 -> Tiles] /\ DOMAIN s = 1 .. 4
  BY <1>1 DEF Quarters
<1>3. ToSet(s) = {Append(t, q) : q \in Quarters}
  BY DEF ToSet, Quarters
<1> HIDE DEF s
<1>4. s \in Seq(Tiles)
  <2>1. 4 \in Nat
    OBVIOUS
  <2> QED
    BY <1>2, <2>1, FunctionIsSeq
<1> QED
  BY <1>3, <1>4, ReverseSet DEF s

LEMMA MoreTimes ==
  ASSUME NEW a \in Nat, NEW b \in Nat, NEW k \in Nat, a <= b
  PROVE  a * k \in Nat /\ b * k \in Nat /\ b * k >= a * k
OBVIOUS

LEMMA NoPagesNone == ASSUME BanksTypes, NEW t PROVE OnPages(SetToSeq(InTile(t)), 0) = {}
<1> DEFINE s == SetToSeq(InTile(t))
<1>1. IsFiniteSet(InTile(t))
  <2>1. InTile(t) \in SUBSET Branch
    BY DEF InTile, BanksTypes
  <2> QED
    BY <2>1, BanksAssumption, FS_Subset
<1>2. s \in Seq(InTile(t)) /\ Len(s) \in Nat
  BY <1>1, SetSeq
<1> HIDE DEF s
<1>3. Min({0 * SearchPage, Len(s)}) = 0
  BY <1>2, MinOfTwo, BanksAssumption
<1>4. SubSeq(s, 1, 0) = <<>>
  BY <1>2
<1> QED
  BY <1>3, <1>4, EmptySet DEF OnPages, s

\* The pages that a tile is not divided for hold all its branches, and no page
\* none.
LEMMA PagesHoldAll ==
  ASSUME BanksTypes, NEW t, ~TooMany(Total(t)), NEW n \in Nat, PagesOfTile(Total(t)) <= n
  PROVE  OnPages(SetToSeq(InTile(t)), n) = InTile(t)
<1> DEFINE I == InTile(t)
           c == Cardinality(I)
           s == SetToSeq(I)
           d == (c + SearchPage - 1) \div SearchPage
           last == PagesOfTile(Total(t))
<1>1. IsFiniteSet(I)
  <2>1. I \in SUBSET Branch
    BY DEF InTile, BanksTypes
  <2> QED
    BY <2>1, BanksAssumption, FS_Subset
<1>2. s \in Seq(I) /\ Len(s) = c /\ ToSet(s) = I /\ c \in Nat
  BY <1>1, SetSeq, FS_CardinalityType
<1>3. last = Min({SearchMax, d}) /\ c <= SearchMax * SearchPage
  <2>1. c \in Nat /\ SearchMax * SearchPage \in Nat
    BY <1>2, BanksAssumption
  <2>2. ~(c > SearchMax * SearchPage)
    BY DEF TooMany, Total
  <2> QED
    BY <2>1, <2>2 DEF PagesOfTile, Total
<1> HIDE DEF I, s
<1>4. d \in Nat /\ d * SearchPage >= c
  <2> HIDE DEF c
  <2> QED
    BY <1>2, BanksAssumption, PagesSuffice
<1> HIDE DEF d, c, last
<1>5. last \in Nat /\ last <= n /\ (last = SearchMax \/ last = d)
  <2>1. last \in Nat /\ (last = SearchMax \/ last = d)
    BY <1>3, <1>4, MinOfTwo, BanksAssumption
  <2> QED
    BY <2>1 DEF last
<1>6. n * SearchPage \in Nat /\ n * SearchPage >= c
  <2>1. last * SearchPage \in Nat /\ last * SearchPage >= c
    BY <1>2, <1>3, <1>4, <1>5, BanksAssumption
  <2>2. n * SearchPage \in Nat /\ n * SearchPage >= last * SearchPage
    BY <1>5, BanksAssumption, MoreTimes
  <2> QED
    BY <1>2, <2>1, <2>2
<1>7. Min({n * SearchPage, Len(s)}) = Len(s)
  <2> DEFINE m == n * SearchPage
  <2>1. m \in Nat /\ m >= Len(s) /\ Len(s) \in Nat
    BY <1>2, <1>6
  <2> HIDE DEF m
  <2>2. Min({m, Len(s)}) = Len(s)
    BY <2>1, MinOfTwo
  <2> QED
    BY <2>2 DEF m
<1>8. SubSeq(s, 1, Len(s)) = s
  BY <1>2
<1> QED
  BY <1>2, <1>7, <1>8 DEF OnPages, s, I

LEMMA PagesNumber == ASSUME BanksTypes, NEW t PROVE PagesOfTile(Total(t)) \in Nat
<1> DEFINE c == Total(t)
           d == (c + SearchPage - 1) \div SearchPage
<1>1. c \in Nat
  <2>1. InTile(t) \in SUBSET Branch
    BY DEF InTile, BanksTypes
  <2> QED
    BY <2>1, BanksAssumption, FS_Subset, FS_CardinalityType DEF Total
<1> HIDE DEF c
<1>2. d \in Nat
  BY <1>1, BanksAssumption, PagesSuffice
<1> HIDE DEF d
<1> QED
  BY <1>2, MinOfTwo, BanksAssumption DEF PagesOfTile, c, d

\* What a call has stored only adds to what has been seen.
LEMMA SavesMore ==
  ASSUME BanksTypes, NEW found, Save(found), run' = run
  PROVE  /\ lastSeen' \in [Branch -> 0 .. run']
         /\ \A b \in Branch : lastSeen'[b] = IF b \in found THEN run ELSE lastSeen[b]
BY DEF BanksTypes, Save

LEMMA NextBanks == BanksInv /\ [BanksNext]_<<runVars, banksVars>> => BanksInv'
<1> SUFFICES ASSUME BanksInv, BanksNext \/ UNCHANGED <<runVars, banksVars>> PROVE BanksInv'
  OBVIOUS
<1>0. BanksTypes /\ EachSeen /\ PagesSeen /\ OpenBranchIsCurrent
  BY DEF BanksInv
<1>a. ASSUME UNCHANGED <<run, base, steady>>, NEW found, Save(found)
      PROVE  /\ lastSeen' \in [Branch -> 0 .. run']
             /\ \A b \in Branch : lastSeen'[b] = IF b \in found THEN run ELSE lastSeen[b]
             /\ OpenBranchIsCurrent'
  <2>1. /\ lastSeen' \in [Branch -> 0 .. run']
        /\ \A b \in Branch : lastSeen'[b] = IF b \in found THEN run ELSE lastSeen[b]
    BY <1>0, <1>a, SavesMore
  <2> QED
    BY <1>0, <1>a, <2>1 DEF BanksTypes, OpenBranchIsCurrent, Current
<1>1. ASSUME NEW b \in Branch, Moves(b) PROVE BanksInv'
  <2>1. /\ UNCHANGED <<runVars, lastSeen, full, base, pageNo, stated>>
        /\ open' = IF b \in open THEN open \ {b} ELSE open \cup {b}
        /\ since' = since \ ({b} \cup Reordered(b)) /\ steady' = steady \ {b}
    BY <1>1 DEF Moves
  <2>2. BanksTypes'
    BY <1>0, <2>1 DEF BanksTypes, runVars
  <2>3. EachSeen' /\ OpenBranchIsCurrent'
    BY <1>0, <2>1 DEF EachSeen, OpenBranchIsCurrent, Current, runVars
  <2>4. PagesSeen'
    <3>1. Unit' = Unit
      BY <2>1 DEF Unit, runVars
    <3>2. CASE pageNo > 0 /\ IsPrefix(Unit, TileOf[b])
      <4>1. (since \cap InTile(Unit))' = {}
        BY <1>1, <2>1, <3>1, <3>2 DEF Reordered, InTile
      <4> QED
        BY <4>1 DEF PagesSeen
    <3>3. CASE pageNo = 0
      BY <2>1, <3>3 DEF PagesSeen
    <3>4. CASE pageNo > 0 /\ ~IsPrefix(Unit, TileOf[b])
      <4>1. InTile(Unit)' = InTile(Unit)
        BY <1>1, <2>1, <3>1, <3>4 DEF InTile
      <4>2. since' \subseteq since
        BY <2>1
      <4> QED
        BY <1>0, <2>1, <3>1, <4>1, <4>2 DEF PagesSeen, Total, OnPages, runVars
    <3> QED
      BY <1>0, <3>2, <3>3, <3>4 DEF BanksTypes
  <2> QED
    BY <2>2, <2>3, <2>4 DEF BanksInv
<1>2. CASE BanksBegin
  <2>1. /\ run' = run + 1 /\ stopped' = FALSE /\ failed' = {} /\ since' = open
        /\ UNCHANGED <<open, lastSeen, base, moves, pageNo, stated, steady>>
        /\ pageNo = 0
        /\ (full' = TRUE /\ todo' = Reverse(StartTiles)) \/ full' = FALSE
    BY <1>0, <1>2 DEF BanksBegin, Begin, BanksTypes
  <2>2. Reverse(StartTiles) \in Seq(Tiles)
    <3>1. StartTiles \in Seq(Tiles)
      BY BanksAssumption DEF Tiles
    <3> QED
      BY <3>1, ReverseSet
  <2>3. lastSeen' \in [Branch -> 0 .. run']
    BY <1>0, <2>1 DEF BanksTypes
  <2>4. BanksTypes'
    BY <1>0, <2>1, <2>2, <2>3 DEF BanksTypes
  <2>5. EachSeen'
    <3> SUFFICES ASSUME full', NEW b \in Branch PROVE \E t \in ToSet(todo') : IsPrefix(t, TileOf[b])
      BY <1>0, <2>1 DEF EachSeen, BanksTypes
    <3> QED
      BY <2>1, TilesCover
  <2> QED
    BY <1>0, <2>1, <2>4, <2>5 DEF BanksInv, PagesSeen, OpenBranchIsCurrent, Current
<1>3. CASE Divide
  <2> DEFINE qs == Reverse([q \in Quarters |-> Append(Unit, q)])
  <2>1. /\ UNCHANGED <<run, status, stopped, failed, open, lastSeen, base, since, steady, full, pageNo>>
        /\ todo' = qs \o Tail(todo)
        /\ full /\ pageNo = 0 /\ todo # <<>> /\ Len(Unit) < MinDepth
    BY <1>3 DEF Divide, Busy, Untouched
  <2>2. todo \in Seq(Tiles)
    BY <1>0, <2>1 DEF BanksTypes
  <2>3. Tail(todo) \in Seq(Tiles) /\ ToSet(todo) = {Unit} \cup ToSet(Tail(todo))
    BY <2>1, <2>2, TailSet DEF Unit
  <2>4. Unit \in Tiles
    <3>1. Head(todo) \in Tiles
      BY <2>1, <2>2
    <3> QED
      BY <3>1 DEF Unit
  <2>5. qs \in Seq(Tiles) /\ ToSet(qs) = {Append(Unit, q) : q \in Quarters}
    BY <2>4, QuartersOf
  <2> HIDE DEF qs
  <2>6. todo' \in Seq(Tiles) /\ ToSet(todo') = {Append(Unit, q) : q \in Quarters} \cup ToSet(Tail(todo))
    <3> DEFINE r == Tail(todo)
    <3>1. r \in Seq(Tiles)
      BY <2>3
    <3> HIDE DEF r
    <3>2. qs \o r \in Seq(Tiles) /\ ToSet(qs \o r) = ToSet(qs) \cup ToSet(r)
      BY ONLY <2>5, <3>1, ConcatSet
    <3> QED
      BY <2>1, <2>5, <3>2 DEF r
  <2>7. ASSUME NEW b \in Branch, NEW t \in ToSet(todo), IsPrefix(t, TileOf[b])
        PROVE  \E u \in ToSet(todo') : IsPrefix(u, TileOf[b])
    <3>1. CASE t = Unit
      <4>1. PICK q \in Quarters : IsPrefix(Append(Unit, q), TileOf[b])
        BY <2>1, <2>4, <2>7, <3>1, InQuarter
      <4> QED
        BY <2>6, <4>1
    <3> QED
      BY <2>3, <2>6, <2>7, <3>1
  <2>8. BanksTypes'
    BY <1>0, <2>1, <2>6 DEF BanksTypes
  <2>9. EachSeen'
    BY <1>0, <2>1, <2>7 DEF EachSeen, BanksTypes
  <2> QED
    BY <1>0, <2>1, <2>8, <2>9 DEF BanksInv, PagesSeen, OpenBranchIsCurrent, Current
<1>b. ASSUME full, todo # <<>>, todo' = Tail(todo), failed \subseteq failed',
             UNCHANGED <<run, status, stopped, open, base, steady, full>>,
             pageNo' = 0, since' \subseteq since, NEW found, Save(found),
             failed' # {} \/ \A x \in since' \cap InTile(Unit) : lastSeen[x] = run \/ x \in found
      PROVE  BanksInv'
  <2>1. /\ lastSeen' \in [Branch -> 0 .. run']
        /\ \A b \in Branch : lastSeen'[b] = IF b \in found THEN run ELSE lastSeen[b]
        /\ OpenBranchIsCurrent'
    BY <1>a, <1>b
  <2>2. Tail(todo) \in Seq(Tiles) /\ ToSet(todo) = {Unit} \cup ToSet(Tail(todo))
    <3>1. todo \in Seq(Tiles)
      BY <1>0, <1>b DEF BanksTypes
    <3> QED
      BY <1>b, <3>1, TailSet DEF Unit
  <2>3. BanksTypes'
    BY <1>0, <1>b, <2>1, <2>2 DEF BanksTypes
  <2>4. EachSeen'
    <3> SUFFICES ASSUME status = "RUNNING", failed' = {}, ~stopped, NEW b \in since'
                 PROVE  lastSeen'[b] = run \/ \E t \in ToSet(Tail(todo)) : IsPrefix(t, TileOf[b])
      BY <1>b DEF EachSeen
    <3>1. b \in since /\ b \in open /\ b \in Branch
      BY <1>0, <1>b DEF BanksTypes
    <3>2. lastSeen[b] = run \/ \E t \in ToSet(todo) : IsPrefix(t, TileOf[b])
      BY <1>0, <1>b, <3>1 DEF EachSeen
    <3>3. IsPrefix(Unit, TileOf[b]) => b \in InTile(Unit)
      BY <3>1 DEF InTile
    <3> QED
      BY <1>b, <2>1, <2>2, <3>1, <3>2, <3>3
  <2>5. PagesSeen'
    BY <1>b DEF PagesSeen
  <2> QED
    BY <2>1, <2>3, <2>4, <2>5 DEF BanksInv
<1>c. BanksTypes => Save({}) \/ lastSeen' # lastSeen
  BY DEF Save, BanksTypes
<1>4. CASE TilePageFailed
  <2>1. /\ UNCHANGED <<run, status, stopped, open, base, since, steady, full, lastSeen>>
        /\ full /\ todo # <<>> /\ todo' = Tail(todo) /\ failed' = failed \cup {Unit} /\ pageNo' = 0
    BY <1>4 DEF TilePageFailed, Busy, Failure, Untouched, NoPage
  <2>2. Save({}) /\ failed' # {} /\ failed \subseteq failed'
    BY <1>0, <1>c, <2>1
  <2> QED
    BY <1>b, <2>1, <2>2
<1>10. CASE EmptyTile
  <2>1. /\ UNCHANGED <<run, status, stopped, failed, open, base, steady, full, lastSeen, pageNo>>
        /\ full /\ pageNo = 0 /\ todo # <<>> /\ todo' = Tail(todo) /\ since' = since \ InTile(Unit)
    BY <1>10 DEF EmptyTile, Busy, Passed, Untouched
  <2>2. Save({}) /\ \A x \in since' \cap InTile(Unit) : lastSeen[x] = run \/ x \in {}
    BY <1>0, <1>c, <2>1
  <2> QED
    BY <1>b, <2>1, <2>2
<1>11. ASSUME NEW n \in Nat, NEW tot, full, todo # <<>>, TilePage(n + 1, tot),
              \A x \in since \cap InTile(Unit) :
                 /\ tot = Total(Unit)
                 /\ x \in OnPages(SetToSeq(InTile(Unit)), n) => lastSeen[x] = run
       PROVE  BanksInv'
  <2> DEFINE s == SetToSeq(InTile(Unit))
  <2>1. PICK docs \in SUBSET SliceOf(Unit, n + 1) :
          Save(docs) /\ since' = since \ (SliceOf(Unit, n + 1) \ docs)
    BY <1>11 DEF TilePage
  <2>2. SliceOf(Unit, n + 1) = OnPages(s, n + 1) \ OnPages(s, n)
    <3>1. n + 1 - 1 = n
      OBVIOUS
    <3> QED
      BY <3>1 DEF SliceOf
  <2>3. /\ UNCHANGED <<open, full, base, moves, steady>>
        /\ IF n + 1 < PagesOfTile(tot)
           THEN pageNo' = n + 1 /\ stated' = tot /\ Held
           ELSE NoPage /\ (IF TooMany(tot) THEN Failure ELSE Success)
    BY <1>11 DEF TilePage, Untouched
  <2>4. \A x \in since' \cap InTile(Unit) :
           x \in since /\ (x \in OnPages(s, n + 1) => lastSeen[x] = run \/ x \in docs)
    BY <1>11, <2>1, <2>2
  <2> HIDE DEF s
  <2>5. CASE n + 1 < PagesOfTile(tot)
    <3>1. pageNo' = n + 1 /\ stated' = tot /\ UNCHANGED runVars /\ status = "RUNNING"
      BY <2>3, <2>5 DEF Held, Busy
    <3>2. /\ lastSeen' \in [Branch -> 0 .. run']
          /\ \A b \in Branch : lastSeen'[b] = IF b \in docs THEN run ELSE lastSeen[b]
          /\ OpenBranchIsCurrent'
      <4>1. UNCHANGED <<run, base, steady>>
        BY <2>3, <3>1 DEF runVars
      <4> QED
        BY <1>a, <2>1, <4>1
    <3>3. BanksTypes'
      BY <1>0, <1>11, <2>1, <2>3, <3>1, <3>2 DEF BanksTypes, runVars
    <3>4. EachSeen'
      BY <1>0, <2>1, <2>3, <3>1, <3>2 DEF EachSeen, BanksTypes, runVars
    <3>5. PagesSeen'
      <4>1. Unit' = Unit /\ InTile(Unit)' = InTile(Unit)
        BY <2>3, <3>1 DEF Unit, InTile, runVars
      <4>2. Total(Unit)' = Total(Unit) /\ run' = run
        BY <3>1, <4>1 DEF Total, runVars
      <4>3. OnPages(SetToSeq(InTile(Unit)), pageNo)' = OnPages(s, n + 1)
        BY <3>1, <4>1 DEF OnPages, s
      <4>4. ASSUME NEW x \in since' \cap InTile(Unit)
            PROVE  stated' = Total(Unit) /\ (x \in OnPages(s, n + 1) => lastSeen'[x] = run)
        <5>1. x \in Branch
          BY <1>0 DEF BanksTypes, InTile
        <5> QED
          BY <1>11, <2>4, <3>1, <3>2, <4>4, <5>1
      <4> QED
        BY <4>1, <4>2, <4>3, <4>4 DEF PagesSeen
    <3> QED
      BY <3>2, <3>3, <3>4, <3>5 DEF BanksInv
  <2>6. CASE ~(n + 1 < PagesOfTile(tot))
    <3>1. /\ UNCHANGED <<run, status, stopped>> /\ pageNo' = 0 /\ todo' = Tail(todo) /\ failed \subseteq failed'
          /\ TooMany(tot) => failed' # {}
      BY <2>3, <2>6 DEF NoPage, Failure, Success
    <3>2. since' \subseteq since
      BY <2>1
    <3>3. failed' # {} \/ \A x \in since' \cap InTile(Unit) : lastSeen[x] = run \/ x \in docs
      <4> SUFFICES ASSUME ~TooMany(tot), NEW x \in since' \cap InTile(Unit)
                   PROVE  lastSeen[x] = run \/ x \in docs
        BY <3>1
      <4>1. tot = Total(Unit)
        BY <1>11, <2>4
      <4>2. PagesOfTile(Total(Unit)) <= n + 1
        <5>1. PagesOfTile(Total(Unit)) \in Nat
          BY <1>0, PagesNumber
        <5> QED
          BY <2>6, <4>1, <5>1
      <4>3. OnPages(s, n + 1) = InTile(Unit)
        BY <1>0, <4>1, <4>2, PagesHoldAll DEF s
      <4> QED
        BY <2>4, <4>3
    <3> QED
      BY <1>11, <1>b, <2>1, <2>3, <3>1, <3>2, <3>3
  <2> QED
    BY <2>5, <2>6
<1>12. CASE FirstPage
  <2>1. full /\ todo # <<>> /\ TilePage(0 + 1, Total(Unit))
    BY <1>12 DEF FirstPage, Busy
  <2>2. OnPages(SetToSeq(InTile(Unit)), 0) = {}
    BY <1>0, NoPagesNone
  <2> QED
    BY <1>11, <2>1, <2>2
<1>13. CASE NextPage
  <2>1. full /\ todo # <<>> /\ pageNo \in Nat /\ pageNo > 0 /\ TilePage(pageNo + 1, stated)
    BY <1>0, <1>13 DEF NextPage, Busy, BanksTypes
  <2>2. \A x \in since \cap InTile(Unit) :
           /\ stated = Total(Unit)
           /\ x \in OnPages(SetToSeq(InTile(Unit)), pageNo) => lastSeen[x] = run
    BY <1>0, <2>1 DEF PagesSeen
  <2> QED
    BY <1>11, <2>1, <2>2
<1>5. CASE Point
  <2>1. /\ UNCHANGED <<run, base, steady, full, open, since, pageNo>> /\ ~full /\ pageNo = 0
    BY <1>0, <1>5 DEF Point, Passed, Untouched, BanksTypes
  <2>2. PICK found : Save(found)
    BY <1>5 DEF Point
  <2> QED
    BY <1>0, <1>a, <2>1, <2>2 DEF BanksInv, BanksTypes, EachSeen, PagesSeen
<1>6. CASE BanksStop
  <2>1. /\ UNCHANGED <<run, base, steady, full, open, since>> /\ stopped' /\ todo' = <<>> /\ pageNo' = 0
    BY <1>6 DEF BanksStop, Break, Untouched, NoPage
  <2>2. PICK found : Save(found)
    BY <1>6 DEF BanksStop
  <2>3. todo' \in Seq(Tiles)
    BY <2>1
  <2> QED
    BY <1>0, <1>a, <2>1, <2>2, <2>3 DEF BanksInv, BanksTypes, EachSeen, PagesSeen
<1>7. CASE BanksEnd
  <2>1. /\ UNCHANGED <<run, todo, stopped, done, failed, open, lastSeen, full, since, pageNo>> /\ status = "RUNNING" /\ todo = <<>>
        /\ pageNo = 0
        /\ status' # "RUNNING" /\ (status' = "DONE" => failed = {} /\ ~stopped)
    BY <1>0, <1>7 DEF BanksEnd, Finish, BanksOutcome, BanksTypes
  <2>2. CASE full /\ status' = "DONE"
    <3>1. base' = run /\ steady' = since
      BY <1>7, <2>2 DEF BanksEnd
    <3>2. \A b \in since : lastSeen[b] = run
      BY <1>0, <2>1, <2>2, EmptySet DEF EachSeen
    <3>3. BanksTypes'
      BY <1>0, <2>1, <3>1 DEF BanksTypes
    <3>4. OpenBranchIsCurrent'
      BY <1>0, <2>1, <3>1, <3>2 DEF OpenBranchIsCurrent, Current, BanksTypes
    <3> QED
      BY <2>1, <3>3, <3>4 DEF BanksInv, EachSeen, PagesSeen
  <2>3. CASE ~(full /\ status' = "DONE")
    <3>1. UNCHANGED <<base, steady>>
      BY <1>7, <2>3 DEF BanksEnd
    <3> QED
      BY <1>0, <2>1, <3>1 DEF BanksInv, BanksTypes, EachSeen, PagesSeen, OpenBranchIsCurrent, Current
  <2> QED
    BY <2>2, <2>3
<1>8. CASE BanksInterrupted
  <2>1. /\ UNCHANGED <<run, open, lastSeen, full, base, since, steady>> /\ todo' = <<>> /\ status' = "FAILED" /\ pageNo' = 0
    BY <1>8 DEF BanksInterrupted, Interrupted, Untouched, NoPage
  <2>2. todo' \in Seq(Tiles)
    BY <2>1
  <2> QED
    BY <1>0, <2>1, <2>2 DEF BanksInv, BanksTypes, EachSeen, PagesSeen, OpenBranchIsCurrent, Current
<1>9. CASE UNCHANGED <<runVars, banksVars>>
  <2>1. InTile(Unit)' = InTile(Unit) /\ Total(Unit)' = Total(Unit)
    BY <1>9 DEF InTile, Total, Unit, runVars, banksVars
  <2> QED
    BY <1>0, <1>9, <2>1 DEF BanksInv, BanksTypes, EachSeen, PagesSeen, OnPages, OpenBranchIsCurrent, Current, runVars, banksVars
<1> QED
  BY <1>1, <1>2, <1>3, <1>4, <1>5, <1>6, <1>7, <1>8, <1>9, <1>10, <1>12, <1>13 DEF BanksNext

\* No gap that a collection sees, a search with too many places, a failed page or
\* a stop, closes a branch (banks.py:163-220), for any branches and tiles.
THEOREM OpenStaysCurrent == CollectorsSpec => []OpenBranchIsCurrent
<1> DEFINE Inv == IF which = "banks" THEN BanksInv ELSE base = 0
<1>1. CollectorsInit => Inv
  <2> SUFFICES ASSUME CollectorsInit PROVE BanksInv /\ base = 0
    OBVIOUS
  <2>1. run = 0 /\ status = "none" /\ open = Branch /\ lastSeen = [b \in Branch |-> 0] /\ full = FALSE /\ base = 0
        /\ pageNo = 0 /\ since = {} /\ steady = {}
    BY DEF CollectorsInit, CollectInit, BanksInit
  <2> QED
    BY <2>1 DEF BanksInv, BanksTypes, EachSeen, PagesSeen, OpenBranchIsCurrent
<1>2. Inv /\ [CollectorsNext]_<<which, runVars, othersVars>> => Inv'
  <2> SUFFICES ASSUME Inv, CollectorsNext \/ UNCHANGED <<which, runVars, othersVars>> PROVE Inv'
    OBVIOUS
  <2>1. which' = which
    BY DEF CollectorsNext
  <2>2. CASE which = "banks"
    <3>1. [BanksNext]_<<runVars, banksVars>>
      BY <2>2 DEF CollectorsNext, othersVars
    <3> QED
      BY <2>1, <2>2, <3>1, NextBanks
  <2>3. CASE which # "banks"
    <3>1. UNCHANGED banksVars
      BY <2>3 DEF CollectorsNext, othersVars
    <3> QED
      BY <2>1, <2>3, <3>1 DEF banksVars
  <2> QED
    BY <2>2, <2>3
<1>3. Inv => OpenBranchIsCurrent
  BY DEF BanksInv, OpenBranchIsCurrent
<1> QED
  BY <1>1, <1>2, <1>3, PTL DEF CollectorsSpec

-----------------------------------------------------------------------------
(* Care *)
Before == (page - 1) * PageRows
CareTypes ==
  /\ todo \in Seq(Kind) /\ page \in Nat /\ listed \in [Kind -> Seq(Place)]
  /\ care \in [Kind -> SUBSET (Place \ Unusable)]
\* Pages before the last are full, so what has been received is as many; and it is stored.
InKind == page > 0 => status = "RUNNING" /\ todo # <<>> /\ count = Before /\ touched \subseteq care[Unit]
\* What is listed all the time has been touched or comes on a later page.
StillToCome ==
  page > 0 /\ ~shrunk =>
    \A p \in always : p \in Unusable \cup touched \/ \E i \in DOMAIN listed[Unit] : i > Before /\ listed[Unit][i] = p
CareInv == CareTypes /\ InKind /\ StillToCome

LEMMA KindInHand == ASSUME CareTypes, todo # <<>> PROVE Unit \in Kind /\ Tail(todo) \in Seq(Kind)
BY DEF CareTypes, Unit

LEMMA OnePageMore ==
  ASSUME CareTypes, page > 0
  PROVE  Before \in Nat /\ page * PageRows = Before + PageRows /\ page * PageRows \in Nat /\ PageRows \in Nat \ {0}
<1>1. \A n, p \in Nat : n * p \in Nat /\ (n + 1) * p = n * p + p
  OBVIOUS
<1>2. page - 1 \in Nat /\ page - 1 + 1 = page /\ PageRows \in Nat \ {0}
  BY CareAssumption DEF CareTypes
<1> DEFINE n == page - 1
<1> HIDE DEF n
<1>3. n * PageRows \in Nat /\ (n + 1) * PageRows = n * PageRows + PageRows
  BY <1>1, <1>2 DEF n
<1>4. Before = n * PageRows /\ page = n + 1
  BY <1>2 DEF Before, n
<1> QED
  BY <1>2, <1>3, <1>4

LEMMA PageHolds ==
  ASSUME CareTypes, NEW k \in Kind, page > 0
  PROVE  /\ OnPage(k) \in Seq(Place)
         /\ \A i \in DOMAIN listed[k] : i > Before /\ i <= page * PageRows => listed[k][i] \in ToSet(OnPage(k))
         /\ Len(listed[k]) > page * PageRows => Len(OnPage(k)) = PageRows
<1> DEFINE l == listed[k]
           a == Before
           n == PageRows
<1>1. l \in Seq(Place)
  BY DEF CareTypes
<1>2. a \in Nat /\ n \in Nat /\ page * PageRows = a + n
  BY OnePageMore
<1>3. OnPage(k) = SubSeq(l, a + 1, Min({a + n, Len(l)}))
  BY <1>2 DEF OnPage, Before
<1> HIDE DEF l, a, n
<1> DEFINE o == SubSeq(l, a + 1, Min({a + n, Len(l)}))
<1>4. /\ o \in Seq(Place)
      /\ \A i \in DOMAIN l : i > a /\ i <= a + n => l[i] \in ToSet(o)
      /\ Len(l) > a + n => Len(o) = n
  BY <1>1, <1>2, PageOf
<1> HIDE DEF o
<1>5. OnPage(k) = o
  BY <1>3 DEF o
<1> QED
  BY <1>2, <1>4, <1>5 DEF l, a, n

\* A whole kind has touched all that was listed all the time.
LEMMA WholeTouches ==
  ASSUME CareInv, Busy, page > 0, ~shrunk, NEW items \in {<<>>, OnPage(Unit)}, LastPage(items, Len(listed[Unit])),
         count + Len(items) >= Len(listed[Unit]), NEW p \in always, p \notin Unusable
  PROVE  p \in touched \/ p \in ToSet(items)
<1>1. Unit \in Kind /\ CareTypes
  BY KindInHand DEF Busy, CareInv
<1> DEFINE l == listed[Unit]
<1>2. l \in Seq(Place) /\ Len(l) \in Nat /\ DOMAIN l = 1 .. Len(l)
  BY <1>1 DEF CareTypes
<1>3. count = Before /\ Before \in Nat /\ page * PageRows \in Nat
  BY <1>1, OnePageMore DEF CareInv, InKind
<1>4. SUFFICES ASSUME NEW i \in 1 .. Len(l), i > Before, l[i] = p PROVE p \in ToSet(items)
  BY <1>2 DEF CareInv, StillToCome
<1> HIDE DEF l
<1>5. items # <<>>
  <2> SUFFICES ASSUME items = <<>> PROVE FALSE
    OBVIOUS
  <2>1. Len(items) = 0 /\ count + Len(items) >= Len(l)
    BY DEF l
  <2> QED
    BY <1>2, <1>3, <1>4, <2>1
<1>6. items = OnPage(Unit) /\ page * PageRows >= Len(l)
  BY <1>5 DEF LastPage, l
<1>7. i <= page * PageRows
  BY <1>2, <1>3, <1>4, <1>6
<1>8. l[i] \in ToSet(OnPage(Unit))
  BY <1>1, <1>2, <1>4, <1>7, PageHolds DEF l
<1> QED
  BY <1>4, <1>6, <1>8

LEMMA NextCare == CareInv /\ [CareNext]_<<runVars, careVars>> => CareInv'
<1> SUFFICES ASSUME CareInv, CareNext \/ UNCHANGED <<runVars, careVars>> PROVE CareInv'
  OBVIOUS
<1>0. CareTypes /\ InKind /\ StillToCome
  BY DEF CareInv
<1>1. ASSUME NEW k \in Kind, NEW p \in Place, Open(k, p) PROVE CareInv'
  <2>1. PICK i \in 1 .. Len(listed[k]) + 1 : listed' = [listed EXCEPT ![k] = InsertAt(@, i, p)]
    BY <1>1 DEF Open
  <2>2. listed[k] \in Seq(Place)
    BY <1>0 DEF CareTypes
  <2> DEFINE new == InsertAt(listed[k], i, p)
  <2>3. /\ new \in Seq(Place)
        /\ \A j \in DOMAIN listed[k] : \E n \in DOMAIN new : n >= j /\ new[n] = listed[k][j]
    BY <2>2, Inserted
  <2>4. listed' = [listed EXCEPT ![k] = new]
    BY <2>1
  <2> HIDE DEF new
  <2>5. listed' \in [Kind -> Seq(Place)]
    BY <1>0, <2>3, <2>4 DEF CareTypes
  <2>6. UNCHANGED <<run, status, todo, care, page, count, touched, always, shrunk>>
    BY <1>1 DEF Open, runVars, kindVars
  <2>7. ASSUME page > 0, ~shrunk, NEW q \in always, q \notin Unusable \cup touched
        PROVE  \E n \in DOMAIN listed'[Unit] : n > Before /\ listed'[Unit][n] = q
    <3>1. Unit \in Kind
      BY <1>0, <2>7, KindInHand DEF InKind
    <3>2. PICK j \in DOMAIN listed[Unit] : j > Before /\ listed[Unit][j] = q
      BY <1>0, <2>7 DEF StillToCome
    <3>3. CASE Unit = k
      <4>1. PICK n \in DOMAIN new : n >= j /\ new[n] = listed[k][j]
        BY <2>3, <3>2, <3>3
      <4>2. n \in Int /\ j \in Int /\ Before \in Int
        <5>1. DOMAIN new = 1 .. Len(new) /\ DOMAIN listed[k] = 1 .. Len(listed[k])
          BY <2>2, <2>3
        <5>2. Before \in Nat
          BY <1>0, <2>7, OnePageMore
        <5> QED
          BY <3>2, <3>3, <4>1, <5>1, <5>2
      <4>3. listed'[Unit] = new
        BY <1>0, <2>4, <3>1, <3>3 DEF CareTypes
      <4> QED
        BY <3>2, <3>3, <4>1, <4>2, <4>3
    <3>4. CASE Unit # k
      BY <1>0, <2>4, <3>1, <3>2, <3>4 DEF CareTypes
    <3> QED
      BY <3>3, <3>4
  <2>8. Before' = Before /\ Unit' = Unit
    BY <2>6 DEF Before, Unit
  <2>9. StillToCome'
    BY <2>6, <2>7, <2>8 DEF StillToCome
  <2> QED
    BY <1>0, <2>5, <2>6, <2>8, <2>9 DEF CareInv, CareTypes, InKind
<1>2. ASSUME NEW k \in Kind, NEW p \in Place, Close(k, p) PROVE CareInv'
  <2>1. /\ listed' = [listed EXCEPT ![k] = Only(@, Place \ {p})] /\ shrunk'
        /\ UNCHANGED <<run, status, todo, care, page, count, touched>>
    BY <1>2 DEF Close, runVars, kindVars
  <2>2. listed[k] \in Seq(Place)
    BY <1>0 DEF CareTypes
  <2> DEFINE new == Only(listed[k], Place \ {p})
  <2>3. new \in Seq(Place) /\ listed' = [listed EXCEPT ![k] = new]
    BY <2>1, <2>2, OnlySet
  <2> HIDE DEF new
  <2>4. listed' \in [Kind -> Seq(Place)]
    BY <1>0, <2>3 DEF CareTypes
  <2> QED
    BY <1>0, <2>1, <2>4 DEF CareInv, CareTypes, InKind, StillToCome, Before, Unit
<1>3. CASE CareBegin
  <2>1. page = 0
    BY <1>0, <1>3 DEF CareBegin, Begin, InKind, CareTypes
  <2>2. Kinds \in Seq(Kind)
    BY CareAssumption DEF Kind
  <2> QED
    BY <1>0, <1>3, <2>1, <2>2 DEF CareBegin, Begin, kindVars, CareInv, CareTypes, InKind, StillToCome
<1>4. CASE KindBegin
  <2>1. /\ UNCHANGED <<run, status, todo, listed, care>> /\ page' = 1 /\ count' = 0 /\ always' = ToSet(listed[Unit]) /\ ~shrunk'
        /\ touched' = {}
        /\ status = "RUNNING" /\ todo # <<>>
    BY <1>4 DEF KindBegin, Held, Busy, runVars
  <2>2. Before' = 0 /\ Unit' = Unit /\ Unit \in Kind
    BY <1>0, <2>1, KindInHand, CareAssumption DEF Before, Unit
  <2>3. listed[Unit] \in Seq(Place)
    BY <1>0, <2>2 DEF CareTypes
  <2>4. ASSUME NEW p \in ToSet(listed[Unit]) PROVE \E i \in DOMAIN listed[Unit] : i > 0 /\ listed[Unit][i] = p
    BY <2>3 DEF ToSet
  <2>5. StillToCome'
    BY <2>1, <2>2, <2>4 DEF StillToCome
  <2> QED
    BY <1>0, <2>1, <2>2, <2>5 DEF CareInv, CareTypes, InKind
<1>5. CASE Page
  <2>1. PICK t \in {0, Len(listed[Unit])}, items \in {<<>>, OnPage(Unit)} :
          /\ count' = count + Len(items) /\ touched' = touched \cup (ToSet(items) \ Unusable)
          /\ care' = [care EXCEPT ![Unit] = @ \cup (ToSet(items) \ Unusable)]
          /\ ~LastPage(items, t) /\ page' = page + 1
    BY <1>5 DEF Page
  <2>2. UNCHANGED <<run, status, todo, listed, always, shrunk>> /\ status = "RUNNING" /\ todo # <<>> /\ page > 0 /\ page \in Nat
    BY <1>0, <1>5 DEF Page, Held, Busy, runVars, CareTypes
  <2>3. Unit \in Kind /\ Unit' = Unit
    BY <1>0, <2>2, KindInHand DEF Unit
  <2>4. listed[Unit] \in Seq(Place) /\ page * PageRows \in Nat /\ Before \in Nat /\ Before' = Before + PageRows /\ Before' = page * PageRows
    <3>1. page' - 1 = page
      BY <2>1, <2>2
    <3>2. Before' = page * PageRows
      BY <3>1 DEF Before
    <3> QED
      BY <1>0, <2>2, <2>3, <3>2, OnePageMore DEF CareTypes
  <2>5. items = OnPage(Unit) /\ Len(listed[Unit]) > page * PageRows
    BY <2>1, <2>4 DEF LastPage
  <2>6. /\ items \in Seq(Place) /\ Len(items) = PageRows
        /\ \A i \in DOMAIN listed[Unit] : i > Before /\ i <= page * PageRows => listed[Unit][i] \in ToSet(items)
    BY <1>0, <2>2, <2>3, <2>5, PageHolds
  <2>7. count' = Before'
    BY <1>0, <2>1, <2>2, <2>4, <2>6 DEF InKind
  <2>8. care' \in [Kind -> SUBSET (Place \ Unusable)]
    <3>1. ToSet(items) \subseteq Place
      BY <2>6 DEF ToSet
    <3> QED
      BY <1>0, <2>1, <2>3, <3>1 DEF CareTypes
  <2>9. StillToCome'
    <3> SUFFICES ASSUME ~shrunk, NEW p \in always, p \notin Unusable \cup touched'
                 PROVE  \E i \in DOMAIN listed[Unit] : i > Before' /\ listed[Unit][i] = p
      BY <2>2, <2>3 DEF StillToCome
    <3>1. PICK i \in DOMAIN listed[Unit] : i > Before /\ listed[Unit][i] = p
      BY <1>0, <2>1, <2>2 DEF StillToCome
    <3>2. ~(i <= page * PageRows)
      BY <2>1, <2>6, <3>1
    <3>3. i \in Int
      BY <2>4
    <3> QED
      BY <2>4, <3>1, <3>2, <3>3
  <2> QED
    <3>1. touched' \subseteq care'[Unit]
      BY <1>0, <2>1, <2>2, <2>3 DEF InKind, CareTypes
    <3> QED
      BY <1>0, <2>1, <2>2, <2>3, <2>7, <2>8, <2>9, <3>1 DEF CareInv, CareTypes, InKind
<1>6. CASE LastOfKind
  <2>1. PICK items \in {<<>>, OnPage(Unit)} :
          \E set \in SUBSET (care[Unit] \cup (ToSet(items) \ Unusable)) : care' = [care EXCEPT ![Unit] = set]
    BY <1>6 DEF LastOfKind
  <2>2. todo # <<>> /\ todo' = Tail(todo) /\ page' = 0 /\ page > 0 /\ UNCHANGED listed
    BY <1>6 DEF LastOfKind, Busy, Success, Failure, Return
  <2>3. Unit \in Kind /\ Tail(todo) \in Seq(Kind)
    BY <1>0, <2>2, KindInHand
  <2>4. ToSet(items) \subseteq Place
    <3>1. items \in Seq(Place)
      <4>1. OnPage(Unit) \in Seq(Place)
        BY <1>0, <2>2, <2>3, PageHolds
      <4>2. <<>> \in Seq(Place)
        OBVIOUS
      <4> QED
        BY <4>1, <4>2
    <3> QED
      BY <3>1 DEF ToSet
  <2>5. care' \in [Kind -> SUBSET (Place \ Unusable)]
    BY <1>0, <2>1, <2>3, <2>4 DEF CareTypes
  <2> QED
    BY <1>0, <2>2, <2>3, <2>5 DEF CareInv, CareTypes, InKind, StillToCome
<1>7. CASE PageFailed \/ CareStop \/ CareInterrupted
  <2>1. page' = 0 /\ UNCHANGED <<listed, care>> /\ (todo' = <<>> \/ (todo # <<>> /\ todo' = Tail(todo)))
    BY <1>7 DEF PageFailed, CareStop, CareInterrupted, Failure, Break, Interrupted, Busy, Return
  <2>2. <<>> \in Seq(Kind)
    OBVIOUS
  <2>3. todo' \in Seq(Kind)
    BY <1>0, <2>1, <2>2, KindInHand
  <2> QED
    BY <1>0, <2>1, <2>3 DEF CareInv, CareTypes, InKind, StillToCome
<1>8. CASE CareEnd
  <2>1. UNCHANGED <<todo, listed, care, page>> /\ todo = <<>>
    BY <1>8 DEF CareEnd, Finish, careVars, kindVars
  <2> QED
    BY <1>0, <2>1 DEF CareInv, CareTypes, InKind, StillToCome
<1>9. CASE UNCHANGED <<runVars, careVars>>
  BY <1>0, <1>9 DEF CareInv, CareTypes, InKind, StillToCome, Before, Unit, runVars, careVars, kindVars
<1> QED
  BY <1>1, <1>2, <1>3, <1>4, <1>5, <1>6, <1>7, <1>8, <1>9 DEF CareNext

AllListedKept ==
  \A k \in Kind :
    /\ \A p \in care[k] \ care'[k] : p \in always => shrunk
    /\ \A p \in always \ Unusable : k \in done' \ done /\ ~shrunk => p \in care'[k]
\* The end of a kind: what was listed all the time is there if it was, or if the kind is done.
LEMMA KindKeeps ==
  ASSUME CareInv, LastOfKind, ~shrunk, NEW k \in Kind, NEW p \in always, p \in care[k] \/ (k \in done' \ done /\ p \notin Unusable)
  PROVE  p \in care'[k]
<1>0. CareTypes /\ InKind
  BY DEF CareInv
<1>1. PICK t \in {0, Len(listed[Unit])}, items \in {<<>>, OnPage(Unit)} :
        /\ LastPage(items, t)
        /\ LET usable == ToSet(items) \ Unusable
               rest   == care[Unit] \cup usable
               unseen == rest \ (touched \cup usable)
               whole  == Received(t, count + Len(items)) /\ Cardinality(unseen) <= MaxRemoved
           IN  \/ whole /\ Success /\ care' = [care EXCEPT ![Unit] = rest \ unseen]
               \/ ~whole /\ Failure /\ care' = [care EXCEPT ![Unit] = rest]
  BY DEF LastOfKind
<1>2. Busy /\ page > 0 /\ Unit \in Kind /\ touched \subseteq care[Unit]
  BY <1>0, KindInHand DEF LastOfKind, Busy, InKind
<1> DEFINE usable == ToSet(items) \ Unusable
           rest   == care[Unit] \cup usable
<1>3. \/ /\ done' = done /\ care' = [care EXCEPT ![Unit] = rest]
      \/ /\ Received(t, count + Len(items)) /\ done' = done \cup {Unit}
         /\ care' = [care EXCEPT ![Unit] = rest \ (rest \ (touched \cup usable))]
  BY <1>1 DEF Success, Failure
<1> HIDE DEF usable
<1>4. CASE care' = [care EXCEPT ![Unit] = rest] /\ done' = done
  <2>1. p \in care[k]
    BY <1>4
  <2> QED
    BY <1>0, <1>2, <1>4, <2>1 DEF CareTypes
<1>5. CASE /\ Received(t, count + Len(items)) /\ done' = done \cup {Unit}
           /\ care' = [care EXCEPT ![Unit] = rest \ (rest \ (touched \cup usable))]
  <2>1. CASE k # Unit
    <3>1. p \in care[k]
      BY <1>5, <2>1
    <3> QED
      BY <1>0, <1>2, <1>5, <2>1, <3>1 DEF CareTypes
  <2>2. CASE k = Unit
    <3>1. p \notin Unusable
      BY <1>0 DEF CareTypes
    <3>2. t = Len(listed[Unit]) /\ count + Len(items) >= t
      BY <1>1, <1>5 DEF Received
    <3>3. p \in touched \/ p \in ToSet(items)
      BY <1>1, <1>2, <3>1, <3>2, WholeTouches
    <3>4. p \in touched \/ p \in usable
      BY <3>1, <3>3 DEF usable
    <3>5. care'[k] = rest \ (rest \ (touched \cup usable))
      BY <1>0, <1>2, <1>5, <2>2 DEF CareTypes
    <3> QED
      BY <1>2, <3>4, <3>5
  <2> QED
    BY <2>1, <2>2
<1> QED
  BY <1>3, <1>4, <1>5

LEMMA CareKeeps == CareInv /\ [CareNext]_<<runVars, careVars>> => [AllListedKept]_careVars
<1> SUFFICES ASSUME CareInv, CareNext, ~shrunk, NEW k \in Kind
             PROVE  /\ \A p \in care[k] \ care'[k] : p \notin always
                    /\ \A p \in always \ Unusable : k \in done' \ done => p \in care'[k]
  BY DEF AllListedKept, careVars
<1>0. CareTypes
  BY DEF CareInv
<1>1. CASE LastOfKind
  BY <1>1, KindKeeps
<1>2. CASE Page
  <2>1. done' = done
    BY <1>2 DEF Page, Held, runVars
  <2> QED
    BY <1>0, <1>2, <2>1 DEF Page, CareTypes
<1>3. CASE ~LastOfKind /\ ~Page
  <2>1. care' = care /\ done' \subseteq done
    BY <1>3 DEF CareNext, Open, Close, CareBegin, Begin, KindBegin, PageFailed, CareStop, CareEnd, CareInterrupted, careVars,
                Held, Failure, Break, Finish, Interrupted, runVars
  <2> QED
    BY <2>1
<1> QED
  BY <1>1, <1>2, <1>3

\* A collection removes no place that the service has listed all the time, and stores
\* all of them before a kind counts as done, whatever pages are lost or empty and
\* whatever is added (care.py:86-105), as long as nothing leaves the list, for any
\* lists, kinds and page sizes.
THEOREM ListedKept == CollectorsSpec => ListedIsKept
<1> DEFINE Inv == which = "care" => CareInv
<1>1. CollectorsInit => Inv
  <2> SUFFICES ASSUME CollectorsInit PROVE CareInv
    OBVIOUS
  <2>1. /\ todo = <<>> /\ page = 0 /\ listed = FirstList /\ care = [k \in Kind |-> ToSet(FirstList[k]) \ Unusable]
    BY DEF CollectorsInit, CollectInit, CareInit
  <2>2. FirstList \in [Kind -> Seq(Place)]
    BY CareAssumption DEF Kind
  <2>3. ASSUME NEW k \in Kind PROVE ToSet(FirstList[k]) \subseteq Place
    BY <2>2 DEF ToSet
  <2>4. <<>> \in Seq(Kind)
    OBVIOUS
  <2> QED
    BY <2>1, <2>2, <2>3, <2>4 DEF CareInv, CareTypes, InKind, StillToCome
<1>2. Inv /\ [CollectorsNext]_<<which, runVars, othersVars>> => Inv' /\ [AllListedKept]_careVars
  <2> SUFFICES ASSUME Inv, CollectorsNext \/ UNCHANGED <<which, runVars, othersVars>> PROVE Inv' /\ [AllListedKept]_careVars
    OBVIOUS
  <2>1. which' = which
    BY DEF CollectorsNext
  <2>2. CASE which = "care"
    <3>1. [CareNext]_<<runVars, careVars>>
      BY <2>2 DEF CollectorsNext, othersVars
    <3> QED
      BY <2>1, <2>2, <3>1, NextCare, CareKeeps
  <2>3. CASE which # "care"
    BY <2>1, <2>3 DEF CollectorsNext, othersVars
  <2> QED
    BY <2>2, <2>3
<1> QED
  BY <1>1, <1>2, PTL DEF CollectorsSpec, ListedIsKept, AllListedKept
-----------------------------------------------------------------------------
(* Months.  While the list is the one page 1 was counted of, the sums hold *)
(* each row of the pages that have come, once (Exact).  When rows have     *)
(* changed places this is lost, and the count decides: rows of the list,   *)
(* none twice, as many as the list is long, are all of them (OfList).      *)
Came == (1 .. total) \ (pages \cup again)
Exact ==
  drift = "same" =>
    \A r \in Rows : acc[r] = IF r \notin Strange /\ (\E p \in Came : list[Unit][p] = r) THEN 1 ELSE 0
OfList ==
  drift # "revised" =>
    /\ Len(list[Unit]) = total
    /\ \A r \in Rows : acc[r] > 0 => r \in Range(list[Unit]) \ Strange
    /\ Range(list[Unit]) \cap Strange = {} => skipped = 0
MonthTypes ==
  /\ now \in FirstMonth .. LastMonth /\ todo \in Seq(Ms) /\ drift \in {"same", "shifted", "revised"}
  /\ list \in [Ms -> Seq(Rows)] /\ \A m \in Ms : Different(list[m])
  /\ DOMAIN month = Ms /\ total \in Nat
InMonth ==
  total > 0 =>
    /\ todo # <<>> /\ status = "RUNNING"
    /\ pages \subseteq 2 .. total /\ again \subseteq 2 .. total /\ pages \cap again = {}
    /\ acc \in [Rows -> Nat] /\ skipped \in Nat
    /\ Exact /\ OfList
MonthsInv == MonthTypes /\ InMonth
-----------------------------------------------------------------------------
\* The months that may be asked for.
LEMMA CandidatesAre ==
  ASSUME now \in FirstMonth .. LastMonth
  PROVE  Candidates \in Seq(Ms)
<1>1. \A i \in 1 .. Window : now - i \in Ms
  BY MonthsAssumption DEF Ms
<1>2. Candidates \in [1 .. Window -> Ms]
  BY <1>1 DEF Candidates
<1> QED
  BY <1>2, MonthsAssumption, FunctionIsSeq

LEMMA RangeWithin ==
  ASSUME NEW s, NEW t, \A k \in DOMAIN s : \E l \in DOMAIN t : t[l] = s[k]
  PROVE  Range(s) \subseteq Range(t)
BY DEF Range

\* Two elements change places.
LEMMA Swapped ==
  ASSUME NEW S, NEW s \in Seq(S), Different(s), NEW i \in DOMAIN s, NEW j \in DOMAIN s, i # j,
         NEW t \in [DOMAIN s -> S], t[i] = s[j], t[j] = s[i], \A k \in DOMAIN s \ {i, j} : t[k] = s[k]
  PROVE  t \in Seq(S) /\ Len(t) = Len(s) /\ Different(t) /\ Range(t) = Range(s)
<1>1. Len(s) \in Nat /\ DOMAIN s = 1 .. Len(s) /\ \A k \in 1 .. Len(s) : s[k] \in S
  OBVIOUS
<1>2. t \in [1 .. Len(s) -> S] /\ \A k \in 1 .. Len(s) : t[k] = IF k = i THEN s[j] ELSE IF k = j THEN s[i] ELSE s[k]
  BY <1>1
<1>3. t \in Seq(S) /\ Len(t) = Len(s) /\ DOMAIN t = 1 .. Len(s)
  BY <1>1, <1>2
<1>4. Different(t)
  BY <1>1, <1>2, <1>3 DEF Different
<1>5. \A k \in 1 .. Len(s) : \E l \in 1 .. Len(s) : t[l] = s[k]
  BY <1>1, <1>2
<1>6. \A k \in 1 .. Len(s) : \E l \in 1 .. Len(s) : s[l] = t[k]
  BY <1>1, <1>2
<1>8. Range(t) \subseteq Range(s)
  <2>1. \A k \in DOMAIN t : \E l \in DOMAIN s : s[l] = t[k]
    BY <1>1, <1>3, <1>6
  <2> QED
    BY <2>1, RangeWithin
<1>9. Range(s) \subseteq Range(t)
  <2>1. \A k \in DOMAIN s : \E l \in DOMAIN t : t[l] = s[k]
    BY <1>1, <1>3, <1>5
  <2> QED
    BY <2>1, RangeWithin
<1>7. Range(t) = Range(s)
  BY <1>8, <1>9
<1> QED
  BY <1>3, <1>4, <1>7

LEMMA Prepended ==
  ASSUME NEW S, NEW s \in Seq(S), Different(s), NEW e \in S, ~Contains(s, e)
  PROVE  <<e>> \o s \in Seq(S) /\ Different(<<e>> \o s)
<1>1. Len(s) \in Nat /\ DOMAIN s = 1 .. Len(s)
  OBVIOUS
<1>2. /\ <<e>> \o s \in Seq(S) /\ Len(<<e>> \o s) = Len(s) + 1 /\ (<<e>> \o s)[1] = e
      /\ \A k \in 2 .. Len(s) + 1 : k - 1 \in 1 .. Len(s) /\ (<<e>> \o s)[k] = s[k - 1]
  BY <1>1
<1>3. DOMAIN (<<e>> \o s) = 1 .. Len(s) + 1
  BY <1>2
<1>4. \A k \in 1 .. Len(s) : s[k] # e
  BY DEF Contains
<1>5. ASSUME NEW i \in 1 .. Len(s) + 1, NEW j \in 1 .. Len(s) + 1, (<<e>> \o s)[i] = (<<e>> \o s)[j] PROVE i = j
  <2>1. (i = 1 \/ i \in 2 .. Len(s) + 1) /\ (j = 1 \/ j \in 2 .. Len(s) + 1)
    BY <1>1
  <2>2. CASE i = 1
    BY <1>2, <1>4, <1>5, <2>1, <2>2
  <2>3. CASE j = 1
    BY <1>2, <1>4, <1>5, <2>1, <2>3
  <2>4. CASE i \in 2 .. Len(s) + 1 /\ j \in 2 .. Len(s) + 1
    <3>1. s[i - 1] = s[j - 1] /\ i - 1 \in DOMAIN s /\ j - 1 \in DOMAIN s
      BY <1>1, <1>2, <1>5, <2>4
    <3>2. i - 1 = j - 1
      BY <3>1 DEF Different
    <3> QED
      BY <3>2
  <2> QED
    BY <2>1, <2>2, <2>3, <2>4
<1> QED
  BY <1>2, <1>3, <1>5 DEF Different

\* Of what counts for one or for nothing the sum is the number of the ones.
LEMMA SumOfOnes ==
  ASSUME NEW S, IsFiniteSet(S), NEW f, \A x \in S : f[x] \in {0, 1}
  PROVE  SumOver(f, S) = Cardinality({x \in S : f[x] = 1}) /\ IsFiniteSet({x \in S : f[x] = 1})
<1> DEFINE A == {x \in S : f[x] = 1}
<1>1. A \in SUBSET S
  OBVIOUS
<1>2. Tally(f, S) = A \X {1}
  <2>1. \A x \in S : {x} \X (1 .. f[x]) = IF x \in A THEN {<<x, 1>>} ELSE {}
    <3> TAKE x \in S
    <3>1. f[x] = 1 => 1 .. f[x] = {1}
      OBVIOUS
    <3>2. f[x] = 0 => 1 .. f[x] = {}
      OBVIOUS
    <3> QED
      BY <3>1, <3>2
  <2> QED
    BY <2>1 DEF Tally
<1>3. SumOver(f, S) = Cardinality(Tally(f, S))
  BY SumIsTally
<1> HIDE DEF A
<1>4. IsFiniteSet(A) /\ Cardinality(A) \in Nat
  BY <1>1, FS_Subset, FS_CardinalityType
<1>5. PICK N : N = {1} /\ IsFiniteSet(N) /\ Cardinality(N) = 1
  BY FS_Singleton
<1>6. Cardinality(A \X N) = Cardinality(A) * Cardinality(N)
  BY <1>4, <1>5, FS_Product
<1>7. Cardinality(A \X N) = Cardinality(A) * 1
  BY <1>5, <1>6
<1>8. \A n \in Nat : n * 1 = n
  OBVIOUS
<1> QED
  BY <1>2, <1>3, <1>4, <1>5, <1>7, <1>8 DEF A

LEMMA RowsFinite == IsFiniteSet(Rows)
<1>1. IsFiniteSet(Ms)
  BY MonthsAssumption, FS_Interval DEF Ms
<1> DEFINE f == [m \in Ms |-> Range(RowsOf(m))]
           R == {f[m] : m \in Ms}
<1>2. \A m \in Ms : IsFiniteSet(f[m])
  BY MonthsAssumption, DifferentCount DEF Different
<1>3. f \in Surjection(Ms, R)
  BY DEF Surjection
<1>4. Rows = {NewRow} \cup UNION R
  BY DEF Rows
<1>5. \A T \in R : IsFiniteSet(T)
  BY <1>2
<1> HIDE DEF R, f
<1>6. IsFiniteSet(R)
  BY <1>1, <1>3, FS_Surjection
<1>7. PICK U : U = UNION R /\ IsFiniteSet(U)
  BY <1>5, <1>6, FS_UNION
<1>8. IsFiniteSet(U \cup {NewRow})
  BY <1>7, FS_AddElement
<1>9. Rows = U \cup {NewRow}
  BY <1>4, <1>7
<1> QED
  BY <1>8, <1>9

\* A page more, of a list that is still the one counted or has been shifted.
LEMMA PageMore ==
  ASSUME MonthsInv, total > 0, NEW p \in pages \cup again, Adds(RowsOn(p)),
         pages' \subseteq pages, again' \subseteq again, pages' \cup again' = (pages \cup again) \ {p},
         UNCHANGED <<list, todo, total, drift, status>>
  PROVE  InMonth'
<1> DEFINE l == list[Unit]
           come == RowsOn(p)
<1>1. /\ todo \in Seq(Ms) /\ todo # <<>> /\ status = "RUNNING" /\ total \in Nat
      /\ pages \subseteq 2 .. total /\ again \subseteq 2 .. total /\ pages \cap again = {}
      /\ acc \in [Rows -> Nat] /\ skipped \in Nat /\ Exact /\ OfList /\ drift \in {"same", "shifted", "revised"}
  BY DEF MonthsInv, MonthTypes, InMonth
<1>2. Unit \in Ms /\ l \in Seq(Rows) /\ Different(l) /\ Unit' = Unit /\ list'[Unit'] = l
  BY <1>1 DEF MonthsInv, MonthTypes, Unit
<1>3. p \in 2 .. total /\ Came' = Came \cup {p} /\ p \notin Came
  BY <1>1 DEF Came
<1>4. come = IF p \in DOMAIN l THEN {l[p]} ELSE {}
  BY DEF RowsOn
<1>5. acc' = [r \in Rows |-> IF r \in come \ Strange THEN acc[r] + 1 ELSE acc[r]]
  BY DEF Adds
<1>6. skipped' = skipped + Cardinality(come \cap Strange)
  BY DEF Adds
<1>7. IsFiniteSet(come) /\ come \subseteq Range(l)
  <2>1. IsFiniteSet({l[p]}) /\ IsFiniteSet({})
    BY FS_Singleton, FS_EmptySet
  <2>2. p \in DOMAIN l => l[p] \in Range(l)
    BY DEF Range
  <2> HIDE DEF come, l
  <2>3. CASE p \in DOMAIN l
    BY <1>4, <2>1, <2>2, <2>3
  <2>4. CASE p \notin DOMAIN l
    BY <1>4, <2>1, <2>4
  <2> QED
    BY <2>3, <2>4
<1>8. Cardinality(come \cap Strange) \in Nat /\ (come \cap Strange = {} => Cardinality(come \cap Strange) = 0)
  <2>1. come \cap Strange \in SUBSET come
    OBVIOUS
  <2> HIDE DEF come
  <2> QED
    BY <1>7, <2>1, FS_Subset, FS_CardinalityType, FS_EmptySet
<1>9. acc' \in [Rows -> Nat] /\ skipped' \in Nat
  BY <1>1, <1>5, <1>6, <1>8
<1> HIDE DEF l, come
<1>10. drift = "same" => \A r \in Rows : acc'[r] = IF r \notin Strange /\ (\E q \in Came' : l[q] = r) THEN 1 ELSE 0
  <2> SUFFICES ASSUME drift = "same", NEW r \in Rows
               PROVE  acc'[r] = IF r \notin Strange /\ (\E q \in Came' : l[q] = r) THEN 1 ELSE 0
    OBVIOUS
  <2>1. acc[r] = IF r \notin Strange /\ (\E q \in Came : l[q] = r) THEN 1 ELSE 0
    BY <1>1 DEF Exact, l
  <2>2. Len(l) = total /\ DOMAIN l = 1 .. total
    BY <1>1, <1>2 DEF OfList, l
  <2>3. p \in DOMAIN l /\ come = {l[p]}
    BY <1>1, <1>3, <1>4, <2>2
  <2>4. l[p] = r => ~\E q \in Came : l[q] = r
    <3>1. Came \subseteq DOMAIN l
      BY <2>2 DEF Came
    <3> QED
      BY <1>2, <1>3, <2>3, <3>1 DEF Different
  <2>5. (\E q \in Came' : l[q] = r) <=> (\E q \in Came : l[q] = r) \/ l[p] = r
    BY <1>3
  <2>6. acc'[r] = IF r = l[p] /\ r \notin Strange THEN acc[r] + 1 ELSE acc[r]
    BY <1>5, <2>3
  <2> QED
    BY <2>1, <2>4, <2>5, <2>6
<1>11. drift # "revised" =>
         /\ Len(l) = total
         /\ \A r \in Rows : acc'[r] > 0 => r \in Range(l) \ Strange
         /\ Range(l) \cap Strange = {} => skipped' = 0
  <2> SUFFICES ASSUME drift # "revised"
               PROVE  /\ Len(l) = total
                      /\ \A r \in Rows : acc'[r] > 0 => r \in Range(l) \ Strange
                      /\ Range(l) \cap Strange = {} => skipped' = 0
    OBVIOUS
  <2>1. /\ Len(l) = total
        /\ \A r \in Rows : acc[r] > 0 => r \in Range(l) \ Strange
        /\ Range(l) \cap Strange = {} => skipped = 0
    BY <1>1 DEF OfList, l
  <2>2. ASSUME NEW r \in Rows, acc'[r] > 0 PROVE r \in Range(l) \ Strange
    BY <1>5, <1>7, <2>1, <2>2
  <2>3. ASSUME Range(l) \cap Strange = {} PROVE skipped' = 0
    <3>1. come \cap Strange = {}
      BY <1>7, <2>3
    <3>2. Cardinality(come \cap Strange) = 0 /\ skipped = 0
      BY <1>8, <2>1, <2>3, <3>1
    <3> QED
      BY <1>6, <3>2
  <2> QED
    BY <2>1, <2>2, <2>3
<1>12. Exact'
  BY <1>2, <1>10 DEF Exact, l
<1>13. OfList'
  BY <1>2, <1>11 DEF OfList, l
<1> QED
  BY <1>1, <1>9, <1>12, <1>13 DEF InMonth
\* Page 1, which starts the count.
LEMMA PageOne ==
  ASSUME MonthTypes, Page1
  PROVE  InMonth'
<1> DEFINE l == list[Unit]
           come == RowsOn(1)
<1>1. /\ todo \in Seq(Ms) /\ todo # <<>> /\ status = "RUNNING" /\ l # <<>>
      /\ total' = Len(l) /\ pages' = 2 .. Len(l) /\ again' = {} /\ drift' = "same"
      /\ UNCHANGED <<list, todo, status>>
  BY DEF MonthTypes, Page1, Held, Busy, runVars
<1>2. Unit \in Ms /\ l \in Seq(Rows) /\ Different(l) /\ Unit' = Unit /\ list'[Unit'] = l
  BY <1>1 DEF MonthTypes, Unit
<1>3. Len(l) \in Nat /\ Len(l) > 0 /\ DOMAIN l = 1 .. Len(l)
  BY <1>1, <1>2
<1>4. come = {l[1]} /\ l[1] \in Range(l)
  BY <1>3 DEF RowsOn, Range
<1>5. acc' = [r \in Rows |-> IF r \in come \ Strange THEN 1 ELSE 0] /\ skipped' = Cardinality(come \cap Strange)
  BY DEF Page1
<1>6. Came' = {1}
  BY <1>1, <1>3 DEF Came
<1>7. Cardinality(come \cap Strange) \in Nat /\ (come \cap Strange = {} => Cardinality(come \cap Strange) = 0)
  <2>1. IsFiniteSet(come)
    BY <1>4, FS_Singleton
  <2>2. come \cap Strange \in SUBSET come
    OBVIOUS
  <2> HIDE DEF come
  <2> QED
    BY <2>1, <2>2, FS_Subset, FS_CardinalityType, FS_EmptySet
<1> HIDE DEF l, come
<1>8. acc' \in [Rows -> Nat] /\ skipped' \in Nat
  BY <1>5, <1>7
<1>9. \A r \in Rows : acc'[r] = IF r \notin Strange /\ (\E q \in {1} : l[q] = r) THEN 1 ELSE 0
  BY <1>4, <1>5
<1>10. \A r \in Rows : acc'[r] > 0 => r \in Range(l) \ Strange
  BY <1>4, <1>5
<1>11. Range(l) \cap Strange = {} => skipped' = 0
  <2>1. Range(l) \cap Strange = {} => come \cap Strange = {}
    BY <1>4
  <2> QED
    BY <2>1, <1>5, <1>7
<1>12. Exact'
  BY <1>2, <1>6, <1>9 DEF Exact
<1>13. OfList'
  BY <1>1, <1>2, <1>10, <1>11 DEF OfList
<1>14. total' \in Nat /\ pages' \subseteq 2 .. total' /\ again' \subseteq 2 .. total' /\ pages' \cap again' = {}
  BY <1>1, <1>3
<1> QED
  BY <1>1, <1>8, <1>12, <1>13, <1>14 DEF InMonth

\* Rows change places, in the month in hand or in another one.
LEMMA ShiftKeeps ==
  ASSUME MonthsInv, NEW m \in Ms, Shift(m)
  PROVE  MonthsInv'
<1>1. PICK i, j \in DOMAIN list[m] :
        i < j /\ list' = [list EXCEPT ![m] = [@ EXCEPT ![i] = list[m][j], ![j] = list[m][i]]]
  BY DEF Shift
<1>2. /\ drift' = (IF drift = "same" THEN "shifted" ELSE drift)
      /\ UNCHANGED <<todo, status, now, month, total, pages, again, acc, skipped>>
  BY DEF Shift, runVars
<1>3. /\ list \in [Ms -> Seq(Rows)] /\ list[m] \in Seq(Rows) /\ Different(list[m]) /\ todo \in Seq(Ms)
      /\ drift \in {"same", "shifted", "revised"}
  BY DEF MonthsInv, MonthTypes
<1>4. PICK t : t = [list[m] EXCEPT ![i] = list[m][j], ![j] = list[m][i]]
  OBVIOUS
<1>5. i # j
  BY <1>1, <1>3
<1>6. t \in Seq(Rows) /\ Len(t) = Len(list[m]) /\ Different(t) /\ Range(t) = Range(list[m])
  <2>1. PICK s : s = list[m]
    OBVIOUS
  <2>2. s \in Seq(Rows) /\ Different(s) /\ i \in DOMAIN s /\ j \in DOMAIN s
    BY <1>3, <2>1
  <2>3. \A k \in DOMAIN s : s[k] \in Rows
    BY <2>2
  <2>4. /\ t \in [DOMAIN s -> Rows]
        /\ t[i] = s[j] /\ t[j] = s[i] /\ \A k \in DOMAIN s \ {i, j} : t[k] = s[k]
    <3>1. t = [s EXCEPT ![i] = s[j], ![j] = s[i]]
      BY <1>4, <2>1
    <3> QED
      BY <1>5, <2>2, <2>3, <3>1
  <2>5. t \in Seq(Rows) /\ Len(t) = Len(s) /\ Different(t) /\ Range(t) = Range(s)
    BY <1>5, <2>2, <2>4, Swapped
  <2> QED
    BY <2>1, <2>5
<1>7. list' = [list EXCEPT ![m] = t]
  BY <1>1, <1>4
<1>8. list' \in [Ms -> Seq(Rows)] /\ \A n \in Ms : Different(list'[n]) /\ Len(list'[n]) = Len(list[n]) /\ Range(list'[n]) = Range(list[n])
  BY <1>3, <1>6, <1>7 DEF MonthsInv, MonthTypes
<1>9. MonthTypes'
  BY <1>2, <1>3, <1>8 DEF MonthsInv, MonthTypes
<1>10. ASSUME total > 0 PROVE Exact' /\ OfList'
  <2>1. Unit \in Ms /\ Unit' = Unit /\ OfList
    BY <1>2, <1>3, <1>10 DEF MonthsInv, InMonth, Unit
  <2>2. drift' # "same" /\ (drift' # "revised" => drift # "revised")
    BY <1>2, <1>3
  <2>3. Len(list'[Unit']) = Len(list[Unit]) /\ Range(list'[Unit']) = Range(list[Unit])
    BY <1>8, <2>1
  <2> QED
    BY <1>2, <2>1, <2>2, <2>3 DEF Exact, OfList
<1> QED
  BY <1>2, <1>9, <1>10 DEF MonthsInv, InMonth

\* The month is revised, and what was counted is no longer its list.
LEMMA ReviseKeeps ==
  ASSUME MonthsInv, NEW m \in Ms, Revise(m)
  PROVE  MonthsInv'
<1>1. /\ list' = [list EXCEPT ![m] = IF Contains(@, NewRow) THEN Only(@, Rows \ {NewRow}) ELSE <<NewRow>> \o @]
      /\ drift' = "revised" /\ UNCHANGED <<todo, status, now, month, total, pages, again, acc, skipped>>
  BY DEF Revise, runVars
<1>2. list \in [Ms -> Seq(Rows)] /\ list[m] \in Seq(Rows) /\ Different(list[m]) /\ NewRow \in Rows
  BY DEF MonthsInv, MonthTypes, Rows
<1>3. Only(list[m], Rows \ {NewRow}) \in Seq(Rows) /\ Different(Only(list[m], Rows \ {NewRow}))
  BY <1>2, OnlySet DEF Different
<1>4. ~Contains(list[m], NewRow) => <<NewRow>> \o list[m] \in Seq(Rows) /\ Different(<<NewRow>> \o list[m])
  BY <1>2, Prepended
<1>5. PICK t : t = IF Contains(list[m], NewRow) THEN Only(list[m], Rows \ {NewRow}) ELSE <<NewRow>> \o list[m]
  OBVIOUS
<1>6. t \in Seq(Rows) /\ Different(t) /\ list' = [list EXCEPT ![m] = t]
  BY <1>1, <1>3, <1>4, <1>5
<1>7. list' \in [Ms -> Seq(Rows)] /\ \A n \in Ms : Different(list'[n])
  BY <1>2, <1>6 DEF MonthsInv, MonthTypes
<1> QED
  BY <1>1, <1>7 DEF MonthsInv, MonthTypes, InMonth, Exact, OfList

LEMMA NextMonths == MonthsInv /\ [MonthsNext]_<<runVars, monthVars>> => MonthsInv'
<1> SUFFICES ASSUME MonthsInv, MonthsNext \/ UNCHANGED <<runVars, monthVars>> PROVE MonthsInv'
  OBVIOUS
<1>0. MonthTypes /\ InMonth
  BY DEF MonthsInv
<1>1. CASE \E m \in Ms : Shift(m) \/ Revise(m)
  BY <1>1, ShiftKeeps, ReviseKeeps
<1>2. CASE MonthPasses
  <2>1. now' \in FirstMonth .. LastMonth
    BY <1>0, <1>2, MonthsAssumption DEF MonthPasses, MonthTypes
  <2> QED
    BY <1>0, <1>2, <2>1 DEF MonthPasses, MonthsInv, MonthTypes, InMonth, Exact, OfList, Came, Unit, runVars
<1>3. CASE MonthsBegin
  <2>1. todo' = Only(Candidates, {m \in Ms : ToLoad(m)}) /\ total' = 0 /\ UNCHANGED <<now, list, month, drift>>
    BY <1>3 DEF MonthsBegin, Begin
  <2>2. todo' \in Seq(Ms)
    BY <1>0, <2>1, CandidatesAre, OnlySet DEF MonthTypes
  <2> QED
    BY <1>0, <2>1, <2>2 DEF MonthsInv, MonthTypes, InMonth
<1>4. CASE Page1
  <2>1. MonthTypes'
    <3>1. total' = Len(list[Unit]) /\ drift' = "same" /\ UNCHANGED <<now, todo, list, month>> /\ todo # <<>>
      BY <1>4 DEF Page1, Held, Busy, runVars
    <3>2. list[Unit] \in Seq(Rows)
      BY <1>0, <3>1 DEF MonthTypes, Unit
    <3> QED
      BY <1>0, <3>1, <3>2 DEF MonthTypes
  <2> QED
    BY <1>0, <1>4, <2>1, PageOne DEF MonthsInv
<1>5. CASE \E p \in pages : PageIn(p)
  <2>1. PICK p \in pages : PageIn(p)
    BY <1>5
  <2>2. /\ Held /\ pages' = pages \ {p} /\ UNCHANGED <<now, list, month, total, drift>>
        /\ \/ Adds(RowsOn(p)) /\ again' = again
           \/ again' = again \cup {p} /\ UNCHANGED <<acc, skipped>>
    BY <2>1 DEF PageIn
  <2>3. UNCHANGED <<todo, status>> /\ todo # <<>> /\ status = "RUNNING"
    BY <2>2 DEF Held, Busy, runVars
  <2>4. MonthTypes'
    BY <1>0, <2>2, <2>3 DEF MonthTypes
  <2>5. CASE Adds(RowsOn(p)) /\ again' = again
    <3> SUFFICES ASSUME total > 0 PROVE InMonth'
      BY <2>2, <2>4 DEF MonthsInv, InMonth
    <3>1. p \notin again
      BY <1>0 DEF InMonth
    <3>2. pages' \subseteq pages /\ again' \subseteq again /\ pages' \cup again' = (pages \cup again) \ {p}
      BY <2>2, <2>5, <3>1
    <3> QED
      BY <2>2, <2>3, <2>5, <3>2, PageMore
  <2>6. CASE again' = again \cup {p} /\ UNCHANGED <<acc, skipped>>
    <3> SUFFICES ASSUME total > 0 PROVE InMonth'
      BY <2>2, <2>4 DEF MonthsInv, InMonth
    <3>1. Came' = Came /\ Unit' = Unit
      BY <2>2, <2>3, <2>6 DEF Came, Unit
    <3>2. Exact' /\ OfList'
      BY <1>0, <2>2, <2>6, <3>1 DEF InMonth, Exact, OfList
    <3> QED
      BY <1>0, <2>2, <2>3, <2>6, <3>2 DEF InMonth
  <2> QED
    BY <2>2, <2>5, <2>6
<1>6. CASE PageAgain
  <2> DEFINE p == CHOOSE q \in again : \A r \in again : q <= r
  <2>1. /\ Held /\ total > 0 /\ again # {} /\ again' = again \ {p} /\ Adds(RowsOn(p))
        /\ UNCHANGED <<now, list, month, total, pages, drift>> /\ pages = {}
    BY <1>6 DEF PageAgain
  <2>2. again \subseteq 2 .. total /\ total \in Nat
    BY <1>0, <2>1 DEF MonthTypes, InMonth
  <2>3. p \in again
    <3>1. IsFiniteSet(2 .. total)
      BY <2>2, FS_Interval
    <3>2. again \in SUBSET (2 .. total) /\ again \in SUBSET Int
      BY <2>2
    <3>3. IsFiniteSet(again)
      BY <3>1, <3>2, FS_Subset
    <3>4. \E q \in again : \A r \in again : q <= r
      BY <2>1, <3>2, <3>3, Extremes
    <3> QED
      BY <3>4
  <2> HIDE DEF p
  <2>4. UNCHANGED <<todo, status>> /\ todo # <<>> /\ status = "RUNNING"
    BY <2>1 DEF Held, Busy, runVars
  <2>5. MonthTypes'
    BY <1>0, <2>1, <2>4 DEF MonthTypes
  <2>6. pages' \subseteq pages /\ again' \subseteq again /\ pages' \cup again' = (pages \cup again) \ {p}
    BY <2>1
  <2>7. p \in pages \cup again
    BY <2>3
  <2>8. InMonth'
    BY <2>1, <2>4, <2>6, <2>7, PageMore
  <2> QED
    BY <2>5, <2>8 DEF MonthsInv
<1>7. CASE NotYet \/ MonthFailed \/ MonthsStop \/ MonthStored \/ MonthIncomplete \/ MonthsInterrupted
  <2>1. /\ UNCHANGED <<now, list>> /\ total' = 0 /\ drift' \in {"same", "shifted", "revised"}
        /\ DOMAIN month' = DOMAIN month
        /\ todo' = <<>> \/ (todo # <<>> /\ todo' = Tail(todo))
    BY <1>0, <1>7 DEF NotYet, MonthFailed, MonthsStop, MonthStored, MonthIncomplete, MonthsInterrupted, MonthTypes,
                      Failure, Success, Passed, Break, Interrupted, Busy, Forget, monthVars
  <2>2. <<>> \in Seq(Ms)
    OBVIOUS
  <2>3. todo' \in Seq(Ms)
    BY <1>0, <2>1, <2>2, TailSet DEF MonthTypes
  <2> QED
    BY <1>0, <2>1, <2>3 DEF MonthsInv, MonthTypes, InMonth
<1>8. CASE MonthsEnd
  <2>1. UNCHANGED <<todo, now, list, month, total, drift>> /\ todo = <<>>
    BY <1>8 DEF MonthsEnd, Finish, monthVars
  <2>2. ~(total > 0)
    BY <1>0, <2>1 DEF InMonth
  <2> QED
    BY <1>0, <2>1, <2>2 DEF MonthsInv, MonthTypes, InMonth
<1>9. CASE UNCHANGED <<runVars, monthVars>>
  BY <1>0, <1>9 DEF MonthsInv, MonthTypes, InMonth, Exact, OfList, Came, Unit, runVars, monthVars
<1> QED
  BY <1>1, <1>2, <1>3, <1>4, <1>5, <1>6, <1>7, <1>8, <1>9 DEF MonthsNext

AllOnce ==
  \A m \in Ms :
    month'[m] # month[m] /\ (drift = "same" \/ (drift = "shifted" /\ Range(list[m]) \cap Strange = {}))
      => \A r \in Rows : month'[m][r] = IF r \in Range(list[m]) \ Strange THEN 1 ELSE 0
LEMMA MonthsKeep == MonthsInv /\ [MonthsNext]_<<runVars, monthVars>> => [AllOnce]_monthVars
<1> SUFFICES ASSUME MonthsInv, MonthsNext, NEW m \in Ms, month'[m] # month[m],
                    drift = "same" \/ (drift = "shifted" /\ Range(list[m]) \cap Strange = {}), NEW r \in Rows
             PROVE  month'[m][r] = IF r \in Range(list[m]) \ Strange THEN 1 ELSE 0
  BY DEF AllOnce, monthVars
<1>1. CASE MonthStored
  <2>1. /\ total > 0 /\ pages = {} /\ again = {} /\ (\A x \in Rows : acc[x] <= 1) /\ Got = total
        /\ month' = [month EXCEPT ![Unit] = acc]
    BY <1>1 DEF MonthStored, Whole
  <2>2. m = Unit /\ month'[m] = acc
    BY <2>1 DEF MonthsInv, MonthTypes
  <2>3. list[m] \in Seq(Rows) /\ Different(list[m]) /\ total \in Nat /\ acc \in [Rows -> Nat] /\ Exact /\ OfList
    BY <2>1 DEF MonthsInv, MonthTypes, InMonth
  <2>4. Len(list[m]) = total /\ DOMAIN list[m] = 1 .. total
    BY <2>2, <2>3 DEF OfList
  <2>5. CASE drift = "same"
    <3>1. Came = DOMAIN list[m]
      BY <2>1, <2>4 DEF Came
    <3> QED
      BY <2>2, <2>3, <2>5, <3>1 DEF Exact, Range
  <2>6. CASE drift = "shifted" /\ Range(list[m]) \cap Strange = {}
    <3> DEFINE A == {x \in Rows : acc[x] = 1}
               R == Range(list[m])
    <3>1. skipped = 0 /\ \A x \in Rows : acc[x] > 0 => x \in R
      BY <2>2, <2>3, <2>6 DEF OfList
    <3>2. \A x \in Rows : acc[x] \in {0, 1}
      BY <2>1, <2>3
    <3>3. SumOver(acc, Rows) = Cardinality(A) /\ IsFiniteSet(A)
      BY <3>2, SumOfOnes, RowsFinite
    <3>4. Got = skipped + SumOver(acc, Rows)
      <4>1. DOMAIN acc = Rows
        BY <2>3
      <4> QED
        BY <4>1 DEF Got, SumFunction, SumFunctionOnSet, FoldFunctionOnSet, SumOver, MapThenSumSet
    <3>5. A \in SUBSET R
      BY <3>1
    <3>6. IsFiniteSet(R) /\ Cardinality(R) = total
      BY <2>3, <2>4, DifferentCount
    <3> HIDE DEF A, R
    <3>7. Cardinality(A) = total
      BY <2>1, <3>1, <3>3, <3>4, FS_CardinalityType
    <3>8. A = R
      BY <3>5, <3>6, <3>7, FS_Subset
    <3> QED
      BY <2>2, <2>6, <3>2, <3>8 DEF A, R
  <2> QED
    BY <2>5, <2>6
<1>2. CASE ~MonthStored
  BY <1>2 DEF MonthsNext, MonthPasses, Shift, Revise, MonthsBegin, Page1, NotYet, PageAgain, MonthFailed, MonthsStop,
              MonthIncomplete, MonthsEnd, MonthsInterrupted, PageIn, monthVars
<1> QED
  BY <1>1, <1>2

\* A month is replaced only by all of its rows, each added up once, for any
\* lists, windows and changes of the service (mois/migration.py:81-118).
THEOREM MonthWhole == CollectorsSpec => MonthStoredWhole
<1> DEFINE Inv == which = "months" => MonthsInv
<1>1. CollectorsInit => Inv
  <2> SUFFICES ASSUME CollectorsInit PROVE MonthsInv
    OBVIOUS
  <2>1. /\ todo = <<>> /\ now = FirstMonth /\ list = [m \in Ms |-> RowsOf(m)] /\ month = [m \in Ms |-> NoRows]
        /\ total = 0 /\ drift = "same"
    BY DEF CollectorsInit, CollectInit, MonthsInit
  <2>2. <<>> \in Seq(Ms)
    OBVIOUS
  <2>3. \A m \in Ms : list[m] \in Seq(Rows) /\ Different(list[m])
    BY <2>1, MonthsAssumption DEF Different
  <2>4. now \in FirstMonth .. LastMonth
    BY <2>1, MonthsAssumption
  <2> QED
    BY <2>1, <2>2, <2>3, <2>4 DEF MonthsInv, MonthTypes, InMonth
<1>2. Inv /\ [CollectorsNext]_<<which, runVars, othersVars>> => Inv' /\ [AllOnce]_monthVars
  <2> SUFFICES ASSUME Inv, CollectorsNext \/ UNCHANGED <<which, runVars, othersVars>> PROVE Inv' /\ [AllOnce]_monthVars
    OBVIOUS
  <2>1. which' = which
    BY DEF CollectorsNext
  <2>2. CASE which = "months"
    <3>1. [MonthsNext]_<<runVars, monthVars>>
      BY <2>2 DEF CollectorsNext, othersVars
    <3> QED
      BY <2>1, <2>2, <3>1, NextMonths, MonthsKeep
  <2>3. CASE which # "months"
    BY <2>1, <2>3 DEF CollectorsNext, othersVars
  <2> QED
    BY <2>2, <2>3
<1> QED
  BY <1>1, <1>2, PTL DEF CollectorsSpec, MonthStoredWhole, AllOnce
-----------------------------------------------------------------------------
(* Months: none is left out *)
LoadTypes ==
  /\ now \in FirstMonth .. LastMonth /\ todo \in Seq(Ms) /\ loaded \in [Ms -> Nat]
  /\ status # "none" => newest < now /\ newest \in FirstMonth - 1 .. LastMonth - 1
\* The months of the run's window, but the newest.
DueMonths == newest - Window + 1 .. newest - 1
\* A month is still to do or has been loaded in time.
EachLoaded == Going /\ ~stopped => \A m \in DueMonths : m \in ToSet(todo) \/ loaded[m] >= m + 2
LoadInv == LoadTypes /\ EachLoaded /\ EndsEmpty /\ (status = "DONE" => ~stopped)

LEMMA DueIs ==
  ASSUME LoadTypes, status # "none", NEW m \in DueMonths
  PROVE  m \in Ms /\ m \in Int /\ newest \in Int /\ now \in Nat /\ m < newest /\ m + 2 <= now
<1>1. /\ newest \in Int /\ now \in Nat /\ newest < now /\ Window \in Nat /\ FirstMonth \in Nat /\ LastMonth \in Nat
      /\ FirstMonth - 1 <= newest /\ newest <= LastMonth - 1
  BY MonthsAssumption DEF LoadTypes
<1>2. m \in newest - Window + 1 .. newest - 1
  BY DEF DueMonths
<1> QED
  BY <1>1, <1>2 DEF Ms

\* What is not taken up when a run begins has been loaded in time.
LEMMA MonthsBegun ==
  ASSUME LoadTypes, newest' = now - 1, UNCHANGED loaded, todo' = Only(Candidates, {m \in Ms : ToLoad(m)})
  PROVE  todo' \in Seq(Ms) /\ \A m \in DueMonths' : m \in ToSet(todo)' \/ loaded'[m] >= m + 2
<1>1. now \in Nat /\ Window \in Nat /\ now \in FirstMonth .. LastMonth /\ Candidates \in Seq(Ms)
  BY MonthsAssumption, CandidatesAre DEF LoadTypes
<1>2. todo' \in Seq(Ms) /\ ToSet(todo)' = ToSet(Candidates) \cap {m \in Ms : ToLoad(m)}
  BY <1>1, OnlySet
<1>3. ASSUME NEW m \in DueMonths' PROVE m \in ToSet(todo)' \/ loaded'[m] >= m + 2
  <2>1. m \in now - Window .. now - 2
    BY <1>1, <1>3 DEF DueMonths
  <2>2. m \in Int /\ now - m \in 1 .. Window /\ now - (now - m) = m /\ m + 2 <= now
    BY <1>1, <2>1
  <2>3. m \in Ms
    BY <1>1, <2>2, MonthsAssumption DEF Ms
  <2>4. m \in ToSet(Candidates)
    BY <2>2 DEF ToSet, Candidates
  <2>5. ~ToLoad(m) => loaded[m] >= m + 2
    BY <2>2, <2>3 DEF ToLoad, NeedsRecheck, LoadTypes
  <2> QED
    BY <1>2, <2>3, <2>4, <2>5
<1> QED
  BY <1>2, <1>3

\* The month in hand is done with.
LEMMA MonthTaken ==
  ASSUME LoadInv, status = "RUNNING", status' = status, todo # <<>>, todo' = Tail(todo), UNCHANGED <<now, newest, stopped>>,
         loaded' = loaded \/ loaded' = [loaded EXCEPT ![Unit] = now], failed \subseteq failed',
         failed' # {} \/ Unit = newest \/ loaded' = [loaded EXCEPT ![Unit] = now]
  PROVE  LoadInv'
<1>1. Unit \in Ms /\ Tail(todo) \in Seq(Ms) /\ ToSet(todo) = {Unit} \cup ToSet(Tail(todo))
  <2>1. todo \in Seq(Ms)
    BY DEF LoadInv, LoadTypes
  <2>2. Head(todo) \in Ms
    BY <2>1
  <2> QED
    BY <2>1, <2>2, TailSet DEF Unit
<1>2. now \in Nat /\ loaded \in [Ms -> Nat]
  BY MonthsAssumption DEF LoadInv, LoadTypes
<1>3. LoadTypes'
  BY <1>1, <1>2 DEF LoadInv, LoadTypes
<1>4. ASSUME Going', ~stopped', NEW m \in DueMonths' PROVE m \in ToSet(todo)' \/ loaded'[m] >= m + 2
  <2>1. Going /\ ~stopped /\ failed' = {}
    BY <1>4 DEF Going
  <2>2. m \in DueMonths
    BY <1>4 DEF DueMonths
  <2>3. m \in Ms /\ m \in Int /\ newest \in Int /\ m < newest /\ m + 2 <= now
    BY <2>2, DueIs DEF LoadInv
  <2>4. m \in ToSet(todo) \/ loaded[m] >= m + 2
    BY <2>1, <2>2 DEF LoadInv, EachLoaded
  <2>5. CASE m = Unit
    <3>1. loaded' = [loaded EXCEPT ![Unit] = now]
      BY <2>1, <2>3, <2>5
    <3> QED
      BY <1>2, <2>3, <2>5, <3>1
  <2>6. CASE m # Unit
    <3>1. loaded'[m] = loaded[m]
      BY <1>2, <2>3, <2>6
    <3> QED
      BY <1>1, <2>4, <2>6, <3>1
  <2> QED
    BY <2>5, <2>6
<1> QED
  BY <1>3, <1>4 DEF LoadInv, EachLoaded, EndsEmpty

LEMMA NextWholeMonths == LoadInv /\ [MonthsNext]_<<runVars, monthVars>> => LoadInv'
<1> SUFFICES ASSUME LoadInv, MonthsNext \/ UNCHANGED <<runVars, monthVars>> PROVE LoadInv'
  OBVIOUS
<1>0. LoadTypes /\ EachLoaded /\ EndsEmpty /\ (status = "DONE" => ~stopped)
  BY DEF LoadInv
<1>1. CASE UNCHANGED <<runVars, now, newest, loaded>>
  BY <1>0, <1>1 DEF LoadInv, LoadTypes, EachLoaded, Going, DueMonths, EndsEmpty, runVars
<1>2. CASE MonthPasses
  <2>1. now' = now + 1 /\ now < LastMonth /\ UNCHANGED <<runVars, newest, loaded>>
    BY <1>2 DEF MonthPasses
  <2>2. LoadTypes'
    BY <1>0, <2>1, MonthsAssumption DEF LoadTypes, runVars
  <2> QED
    BY <1>0, <2>1, <2>2 DEF LoadInv, EachLoaded, Going, DueMonths, EndsEmpty, runVars
<1>3. CASE MonthsBegin
  <2>1. /\ todo' = Only(Candidates, {m \in Ms : ToLoad(m)}) /\ newest' = now - 1 /\ UNCHANGED <<now, loaded>>
        /\ status' = "RUNNING"
    BY <1>3 DEF MonthsBegin, Begin
  <2>2. todo' \in Seq(Ms) /\ \A m \in DueMonths' : m \in ToSet(todo)' \/ loaded'[m] >= m + 2
    BY <1>0, <2>1, MonthsBegun
  <2>3. LoadTypes'
    BY <1>0, <2>1, <2>2, MonthsAssumption DEF LoadTypes
  <2> QED
    BY <2>1, <2>2, <2>3 DEF LoadInv, EachLoaded, EndsEmpty
<1>4. CASE NotYet \/ MonthFailed \/ MonthStored \/ MonthIncomplete
  <2>1. /\ status = "RUNNING" /\ status' = status /\ todo # <<>> /\ todo' = Tail(todo) /\ UNCHANGED <<now, newest, stopped>>
        /\ failed \subseteq failed'
    BY <1>4 DEF NotYet, MonthFailed, MonthStored, MonthIncomplete, Passed, Success, Failure, Busy, monthVars
  <2>2. loaded' = loaded \/ loaded' = [loaded EXCEPT ![Unit] = now]
    BY <1>4 DEF NotYet, MonthFailed, MonthStored, MonthIncomplete, monthVars
  <2>3. failed' # {} \/ Unit = newest \/ loaded' = [loaded EXCEPT ![Unit] = now]
    BY <1>4 DEF NotYet, MonthFailed, MonthStored, MonthIncomplete, Failure
  <2> QED
    BY <2>1, <2>2, <2>3, MonthTaken
<1>5. CASE MonthsStop
  <2>1. todo' = <<>> /\ stopped' = TRUE /\ status = "RUNNING" /\ status' = status /\ UNCHANGED <<now, newest, loaded>>
    BY <1>5 DEF MonthsStop, Break, Busy
  <2>2. <<>> \in Seq(Ms)
    OBVIOUS
  <2> QED
    BY <1>0, <2>1, <2>2 DEF LoadInv, LoadTypes, EachLoaded, EndsEmpty
<1>6. CASE MonthsEnd
  <2>1. /\ status = "RUNNING" /\ todo = <<>> /\ UNCHANGED <<todo, failed, stopped, now, newest, loaded>>
        /\ (status' = "DONE" => failed = {} /\ ~stopped)
    BY <1>6 DEF MonthsEnd, Finish, Outcome, monthVars
  <2> QED
    BY <1>0, <2>1 DEF LoadInv, LoadTypes, EachLoaded, Going, DueMonths, EndsEmpty
<1>7. CASE MonthsInterrupted
  <2>1. todo' = <<>> /\ status = "RUNNING" /\ status' = "FAILED" /\ UNCHANGED <<now, newest, loaded>>
    BY <1>7 DEF MonthsInterrupted, Interrupted
  <2>2. <<>> \in Seq(Ms)
    OBVIOUS
  <2> QED
    BY <1>0, <2>1, <2>2 DEF LoadInv, LoadTypes, EachLoaded, Going, EndsEmpty
<1>8. (\E m \in Ms : Shift(m) \/ Revise(m)) \/ Page1 \/ PageAgain \/ (\E p \in pages : PageIn(p)) \/ UNCHANGED <<runVars, monthVars>>
      => UNCHANGED <<runVars, now, newest, loaded>>
  BY DEF Shift, Revise, Page1, PageAgain, PageIn, Held, monthVars
<1> QED
  BY <1>1, <1>2, <1>3, <1>4, <1>5, <1>6, <1>7, <1>8 DEF MonthsNext

LEMMA MonthsAreWhole == LoadInv => DoneHasMonths
<1> SUFFICES ASSUME LoadInv, status = "DONE" PROVE \A m \in DueMonths : loaded[m] >= m + 2
  BY DEF DoneHasMonths, DueMonths
<1>1. Going /\ ~stopped /\ todo = <<>>
  BY DEF LoadInv, EndsEmpty, Going
<1> QED
  BY <1>1, EmptySet DEF LoadInv, EachLoaded

-----------------------------------------------------------------------------
\* A run of boundaries, populations, small areas, residents or migration that ends
\* DONE has left out no province, district, subdistrict or month (sgis/pipeline.py:
\* 225-285, oa.py:160-230, kosis/pipeline.py:124-180, migration.py:281-318), for any
\* of them, any number of runs and whatever else fails, is missing or comes late.
DoneInv ==
  /\ which = "areas" => WholeInv /\ what # "populations"
  /\ which = "populations" => PopInv
  /\ which = "oa" => OaInv
  /\ which = "months" => LoadInv
  /\ which = "kosis" => KosisWhole
THEOREM DoneWhole == CollectorsSpec => []EveryDoneIsWhole
<1>1. CollectorsInit => DoneInv
  <2> SUFFICES ASSUME CollectorsInit PROVE DoneInv
    OBVIOUS
  <2>1. /\ run = 0 /\ status = "none" /\ todo = <<>> /\ what = "none" /\ people = {} /\ deep = FALSE /\ below = {}
        /\ level2 = [d \in District |-> <<0, 0>>] /\ level3 = level2 /\ pop = [d \in District |-> 0]
    BY DEF CollectorsInit, CollectInit, SgisInit, OaInit
  <2>2. AreaTypes
    BY <2>1 DEF AreaTypes
  <2>3. LoadInv
    <3>1. now = FirstMonth /\ loaded = [m \in Ms |-> 0] /\ status = "none" /\ todo = <<>>
      BY DEF CollectorsInit, CollectInit, MonthsInit
    <3>2. <<>> \in Seq(Ms)
      OBVIOUS
    <3> QED
      BY <3>1, <3>2, MonthsAssumption DEF LoadInv, LoadTypes, EachLoaded, EndsEmpty, Going
  <2>4. KosisWhole
    <3>1. status = "none" /\ resident = [a \in Resident |-> 0] /\ written = FALSE /\ <<>> \in Seq(KosisUnit)
      BY DEF CollectorsInit, CollectInit, KosisInit
    <3> QED
      BY <2>1, <3>1 DEF KosisWhole, KosisInv, KosisTypes, EachAnswered, AllReplaced, Going, EndsEmpty, DoneHasResidents
  <2> QED
    BY <2>1, <2>2, <2>3, <2>4 DEF DoneInv, WholeInv, EachHasAreas, UnitHasSome, EndsEmpty, PopInv, PopTypes, EachHasPeople, DoneIsWhole,
                      OaInv, EachHasOa, Going
<1>2. DoneInv /\ [CollectorsNext]_<<which, runVars, othersVars>> => DoneInv'
  <2> SUFFICES ASSUME DoneInv, CollectorsNext \/ UNCHANGED <<which, runVars, othersVars>> PROVE DoneInv'
    OBVIOUS
  <2>1. which' = which
    BY DEF CollectorsNext
  <2>2. CASE which = "areas"
    <3>1. [AreasNext]_<<runVars, sgisVars>>
      BY <2>2 DEF CollectorsNext, othersVars
    <3>2. what' # "populations"
      BY <2>2, <3>1, NextWholeAreas DEF DoneInv, WholeInv, AreaTypes
    <3> QED
      BY <2>1, <2>2, <3>1, <3>2, NextWholeAreas DEF DoneInv
  <2>3. CASE which = "populations"
    <3>1. [PopNext]_<<runVars, sgisVars>>
      BY <2>3 DEF CollectorsNext, othersVars
    <3> QED
      BY <2>1, <2>3, <3>1, NextWholePeople DEF DoneInv
  <2>4. CASE which = "oa"
    <3>1. [OaNext]_<<runVars, oaVars>>
      BY <2>4 DEF CollectorsNext, othersVars
    <3> QED
      BY <2>1, <2>4, <3>1, NextWholeOa DEF DoneInv
  <2>5. CASE which = "months"
    <3>1. [MonthsNext]_<<runVars, monthVars>>
      BY <2>5 DEF CollectorsNext, othersVars
    <3> QED
      BY <2>1, <2>5, <3>1, NextWholeMonths DEF DoneInv
  <2>6. CASE which = "kosis"
    <3>1. [KosisNext]_<<runVars, kosisVars>>
      BY <2>6 DEF CollectorsNext, othersVars
    <3> QED
      BY <2>1, <2>6, <3>1, NextWholeKosis DEF DoneInv
  <2> QED
    BY <2>1, <2>2, <2>3, <2>4, <2>5, <2>6 DEF DoneInv
<1>3. DoneInv => EveryDoneIsWhole
  <2>1. PopInv => DoneIsWhole
    BY DEF PopInv
  <2>2. OaInv => DoneHasAll
    BY EmptySet DEF OaInv, EachHasOa, Going, EndsEmpty, SggHas, EmdHas, DoneHasAll
  <2> QED
    BY <2>1, <2>2, AreasAreWhole, MonthsAreWhole DEF DoneInv, KosisWhole, EveryDoneIsWhole
<1> QED
  BY <1>1, <1>2, <1>3, PTL DEF CollectorsSpec
=============================================================================
