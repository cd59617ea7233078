---------------------------- MODULE MCCollectors ----------------------------
(* One collector plays in a behaviour; each has variables of its own beside *)
(* those of Collect.                                                       *)
EXTENDS Care, Banks, SgisAreas, Kosis, Geocheck, Roads, OaAreas, Forecasts, Holidays, Months

CONSTANT Playing   \* the collectors of this instance
VARIABLE which     \* the one that plays

othersVars == <<careVars, banksVars, sgisVars, kosisVars, geoVars, roadVars, oaVars, kmaVars, dayVars, monthVars>>
CollectorsInit ==
  /\ which \in Playing
  /\ CollectInit /\ CareInit /\ BanksInit /\ SgisInit /\ KosisInit /\ GeoInit /\ RoadInit /\ OaInit /\ KmaInit /\ DayInit /\ MonthsInit
CollectorsNext ==
  /\ UNCHANGED which
  /\ \/ which = "care" /\ CareNext /\ UNCHANGED <<banksVars, sgisVars, kosisVars, geoVars, roadVars, oaVars, kmaVars, dayVars, monthVars>>
     \/ which = "banks" /\ BanksNext /\ UNCHANGED <<careVars, sgisVars, kosisVars, geoVars, roadVars, oaVars, kmaVars, dayVars, monthVars>>
     \/ which = "areas" /\ AreasNext /\ UNCHANGED <<careVars, banksVars, kosisVars, geoVars, roadVars, oaVars, kmaVars, dayVars, monthVars>>
     \/ which = "populations" /\ PopNext /\ UNCHANGED <<careVars, banksVars, kosisVars, geoVars, roadVars, oaVars, kmaVars, dayVars, monthVars>>
     \/ which = "kosis" /\ KosisNext /\ UNCHANGED <<careVars, banksVars, sgisVars, geoVars, roadVars, oaVars, kmaVars, dayVars, monthVars>>
     \/ which = "geocheck" /\ GeoNext /\ UNCHANGED <<careVars, banksVars, sgisVars, kosisVars, roadVars, oaVars, kmaVars, dayVars, monthVars>>
     \/ which = "roads" /\ RoadNext /\ UNCHANGED <<careVars, banksVars, sgisVars, kosisVars, geoVars, oaVars, kmaVars, dayVars, monthVars>>
     \/ which = "oa" /\ OaNext /\ UNCHANGED <<careVars, banksVars, sgisVars, kosisVars, geoVars, roadVars, kmaVars, dayVars, monthVars>>
     \/ which = "forecasts" /\ KmaNext /\ UNCHANGED <<runVars, careVars, banksVars, sgisVars, kosisVars, geoVars, roadVars, oaVars, dayVars, monthVars>>
     \/ which = "days" /\ DayNext /\ UNCHANGED <<careVars, banksVars, sgisVars, kosisVars, geoVars, roadVars, oaVars, kmaVars, monthVars>>
     \/ which = "months" /\ MonthsNext /\ UNCHANGED <<careVars, banksVars, sgisVars, kosisVars, geoVars, roadVars, oaVars, kmaVars, dayVars>>
CollectorsSpec == CollectorsInit /\ [][CollectorsNext]_<<which, runVars, othersVars>>

MCKinds == <<"PHARMACY", "CLINIC">>
MCFirstList == [k \in {"PHARMACY", "CLINIC"} |-> IF k = "PHARMACY" THEN <<"a", "b">> ELSE <<"c">>]
MCTileOf == [b \in 1 .. 5 |-> IF b = 5 THEN <<2>> ELSE <<1>>]
MCStartTiles == << <<>> >>
MCPoints == <<"p">>
MCNear == [p \in {"p"} |-> <<5, 2>>]
MCSidos == <<"11", "39">>
MCDistricts == [s \in {"11", "39"} |-> IF s = "11" THEN {"11010", "11020"} ELSE {"39010"}]
MCKosisSidos == <<"11", "39", "52">>
MCBelow ==
  ("11" :> ("11010" :> {"1101053"} @@ "11020" :> {})) @@ ("39" :> ("39010" :> {})) @@ ("52" :> ("52010" :> {}))
MCFacilities == <<"f", "g", "h">>
MCAddrOf == [f \in {"f", "g", "h"} |-> IF f = "f" THEN "long" ELSE IF f = "g" THEN "short" ELSE NoAddr]
MCRoadPairs == <<"r1", "r2", "r3">>
MCSggs == <<"11010", "39010">>
MCEmds == <<"1101053", "1101054", "3901011">>
MCSggOf == [e \in {"1101053", "1101054", "3901011"} |-> IF e = "3901011" THEN "39010" ELSE "11010"]

\* A run that ends DONE leaves nothing out, in the words of each collector.
EveryDoneIsWhole ==
  /\ which \in {"areas", "populations"} => DoneIsWhole
  /\ which = "oa" => DoneHasAll
  /\ which = "kosis" => DoneHasResidents
  /\ which = "months" => DoneHasMonths

\* What an answer does not replace stays: of an area, of a year, of a day.
UnreplacedIsKept == UnansweredIsKept /\ DaysAreKept
MCYears == <<"2026", "2027">>
MCAirCalls == <<"PM10", "PM25">>
\* The first month has a row without a pair, the later ones
\* are published late.
MCRowsOf(m) == IF m = 9 THEN <<"x", "a", "b">> ELSE IF m = 10 THEN <<"a", "b">> ELSE <<>>
=============================================================================
