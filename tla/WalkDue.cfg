\* calc, osm and walk, with walks of given calc runs
SPECIFICATION WSpec
CONSTANTS
 Calc = calc
 Walk = walk
 Osm = osm
 Kinds = {calc, osm, walk}
 Named = TRUE
 MaxCalc = 3
INVARIANTS LatestCalcIsWalked
