------------------------------ MODULE Recodes ------------------------------
(***************************************************************************)
(* Migration between the units of the ministry, whose codes change when    *)
(* provinces are merged, renamed or cut up: the aliases of old codes and   *)
(* the map of areas in collector/mois/migration.py, and the sums over the  *)
(* last months in sql/calc/12_migration.sql.  A unit is known by its code; *)
(* `places' says what it really covers, which the code cannot see.         *)
(***************************************************************************)
EXTENDS Integers, FiniteSets, Sequences, FiniteSetsExt

CONSTANTS
  World,       \* the units at first: {[code, name, places]}, code = <<province, number>>
  Areas,       \* the areas of SGIS: {[id, code, sido, name, city, land]}, drawn when World was: code
               \* is KOSIS's or None, city the unit of whose name the area's begins, or None
  SidoName,    \* [province -> its name], the same of a province that only got a new code
  CityCode,    \* [code -> the code that its first digits and zeros would be]
  Window,      \* 12 months
  MaxMonth, MaxEvents,   \* bounds
  None

\* An area is a unit or, if it has a city, a district, whose code and name are no unit's.
Numbers == {u.code[2] : u \in World}
Land == UNION {u.places : u \in World}
DrawnOf(a, u) ==
  /\ a.sido = SidoName[u.code[1]]
  /\ a.city = None => a.code \in {None, u.code} /\ a.name = u.name /\ a.land = u.places
  /\ a.city # None =>
       /\ a.city = u.name /\ a.land \subseteq u.places /\ a.name \notin {v.name : v \in World}
       /\ a.code # None => /\ a.code[2] \in Nat \ Numbers /\ SidoName[a.code[1]] = a.sido
                           /\ CityCode[a.code] \in (DOMAIN SidoName) \X Nat /\ CityCode[a.code][1] = a.code[1]

ASSUME RecodesAssumption ==
  /\ {Window, MaxMonth, MaxEvents} \subseteq Nat /\ Window > 0 /\ DOMAIN SidoName \subseteq Nat /\ None \notin Nat \X Int
  /\ IsFiniteSet(World) /\ World \subseteq [code : (DOMAIN SidoName) \X Nat, name : Nat, places : SUBSET Land]
  /\ \A u, v \in World : u.code[2] = v.code[2] \/ (SidoName[u.code[1]] = SidoName[v.code[1]] /\ u.name = v.name) => u = v
  /\ \A a \in Areas : a.name \in Nat /\ (\E u \in World : DrawnOf(a, u)) /\ \A b \in Areas : b.id = a.id => b = a

VARIABLES
  history,   \* [month -> the units then]
  events,    \* changes so far
  stored,    \* mart.migration_month: {<<month, unit>>}
  alias,     \* mart.migration_unit_alias: [old code -> new code]
  areaMap,   \* mart.area_migration_map: [area -> <<code, method>>]
  seen       \* a history variable: the months that were there when alias and areaMap were made

recVars == <<history, events, stored, alias, areaMap, seen>>

RecInit ==
  /\ history = <<World>> /\ events = 0 /\ stored = {} /\ alias = <<>> /\ areaMap = <<>> /\ seen = {}

-----------------------------------------------------------------------------
\* What happens to provinces.
Now == history[Len(history)]
Ever == UNION {history[m] : m \in DOMAIN history}
Provinces(units) == {u.code[1] : u \in units}
NextMonth(units) ==
  /\ Len(history) < MaxMonth /\ history' = Append(history, units)
  /\ UNCHANGED <<stored, alias, areaMap, seen>>
Same == NextMonth(Now) /\ UNCHANGED events
Event == events < MaxEvents /\ events' = events + 1
Moved(u, p) == [u EXCEPT !.code = <<p, u.code[2]>>]
\* A province that is new has a name of its own, or that of the only one it was.
IsNew(p, olds) == \A q \in Provinces(Ever) : q # p /\ (SidoName[q] = SidoName[p] => olds = {q})
\* Provinces become a new one, and their units keep their names.
Recoded(olds, new) ==
  /\ Event /\ IsNew(new, olds)
  /\ NextMonth({IF u.code[1] \in olds THEN Moved(u, new) ELSE u : u \in Now})
\* A unit goes to another province, old or new, that never had one of its name.
Ceded(u, p) ==
  /\ Event /\ p # u.code[1] /\ (p \in Provinces(Now) \/ IsNew(p, {}))
  /\ \A v \in Ever : SidoName[v.code[1]] = SidoName[p] => v.name # u.name
  /\ NextMonth((Now \ {u}) \cup {Moved(u, p)})
\* A unit is cut up into units of codes and names that nobody had.
CutUp(u) ==
  LET n == Min({0} \cup {v.code[2] : v \in Ever})
      part(i, places) == [code |-> <<u.code[1], n - i>>, name |-> n - i, places |-> places]
  IN /\ Event /\ \E ps \in SUBSET u.places :
          ps # {} /\ ps # u.places /\ NextMonth((Now \ {u}) \cup {part(1, ps), part(2, u.places \ ps)})

-----------------------------------------------------------------------------
Got == {r[1] : r \in stored}
Codes == {r[2].code : r \in stored}
MonthsOf(code) == {r[1] : r \in {s \in stored : s[2].code = code}}
NameOf(code) == (CHOOSE r \in stored : r[2].code = code /\ r[1] = Max(MonthsOf(code)))[2].name
UnitsOf(p) == {c \in Codes : c[1] = p}

\* sido_recodes: all units of `old' end in one month; in the next that we have
\* there first appears a province with just one unit of each of their names.
Ends(old) == {Max(MonthsOf(c)) : c \in UnitsOf(old)}
Later(old) == {m \in Got : m > Max(Ends(old))}
Named(c, new) == {d \in UnitsOf(new) : NameOf(d) = NameOf(c)}
FollowsAtAnyTime(old, new) == new # old /\ \A c \in UnitsOf(old) : Cardinality(Named(c, new)) = 1
Follows(old, new) ==
  /\ new # old /\ Min(UNION {MonthsOf(d) : d \in UnitsOf(new)}) = Min(Later(old))
  /\ \A c \in UnitsOf(old) : Cardinality(Named(c, new)) = 1
Successors(old) ==
  IF Cardinality(Ends(old)) # 1 \/ Later(old) = {} THEN {} ELSE {p \in {c[1] : c \in Codes} : Follows(old, p)}
Linked ==
  {<<c, CHOOSE d \in Named(c, Min(Successors(c[1]))) : TRUE>> : c \in {b \in Codes : Successors(b[1]) # {}}}
SidoRecodes ==
  LET all == Linked
      kept == {p \in all : \A q \in all : q[2] = p[2] => q = p}
  IN  [c \in {p[1] : p \in kept} |-> (CHOOSE p \in kept : p[1] = c)[2]]

\* match_units: the code of KOSIS, else the names, else the city of a district.
\* Of two units of one name the higher code is found.
ByName(sido, name) == {c \in Codes : SidoName[c[1]] = sido /\ NameOf(c) = name}
LastCode(codes) == CHOOSE c \in codes : \A d \in codes : d[1] < c[1] \/ (d[1] = c[1] /\ d[2] <= c[2])
Drawn(i) == CHOOSE a \in Areas : a.id = i
Matched(a) ==
  IF a.code \in Codes THEN {<<a.code, "KOSIS_CD">>}
  ELSE IF ByName(a.sido, a.name) # {} THEN {<<LastCode(ByName(a.sido, a.name)), "NAME">>}
  ELSE IF a.city = None THEN {}
  ELSE IF a.code # None /\ CityCode[a.code] \in Codes /\ NameOf(CityCode[a.code]) = a.city
       THEN {<<CityCode[a.code], "CITY">>}
  ELSE IF ByName(a.sido, a.city) # {} THEN {<<LastCode(ByName(a.sido, a.city)), "CITY">>} ELSE {}

\* rebuild_aliases and rebuild_map: both anew; the map follows an alias once.
Follow(to, c) == IF c \in DOMAIN to THEN to[c] ELSE c
Rebuild ==
  /\ alias' = SidoRecodes
  /\ LET matched == [a \in Areas |-> Matched(a)]  to == alias' IN
       areaMap' = [i \in {a.id : a \in {b \in Areas : matched[b] # {}}} |->
                    LET m == CHOOSE m \in matched[Drawn(i)] : TRUE IN <<Follow(to, m[1]), m[2]>>]
  /\ seen' = Got /\ UNCHANGED <<history, events, stored>>
\* A collection stores months, each whole (Months.tla), and rebuilds at its end
\* unless it is interrupted.
Collected(months) ==
  /\ months # {} /\ stored' = stored \cup UNION {{<<m, u>> : u \in history[m]} : m \in months}
  /\ UNCHANGED <<history, events, alias, areaMap, seen>>

\* 12_migration.sql: the last months that we have, if none is missing between
\* them, and of the units those that have each of them once.
LastMonths == {m \in Got : Cardinality({n \in Got : n > m}) < Window}
WindowOk == Cardinality(LastMonths) = Window /\ Max(LastMonths) = Min(LastMonths) + Window - 1
Summed(unit) == {r \in stored : r[1] \in LastMonths /\ Follow(alias, r[2].code) = unit}
HasAll(unit) == Cardinality(Summed(unit)) = Window /\ Cardinality({r[1] : r \in Summed(unit)}) = Window
Metric(i) == IF WindowOk /\ HasAll(areaMap[i][1]) THEN Summed(areaMap[i][1]) ELSE {}

RecNext ==
  \/ Same \/ Rebuild
  \/ \E months \in SUBSET (DOMAIN history \ Got) : Collected(months)
  \/ \E u \in Now : CutUp(u) \/ \E p \in DOMAIN SidoName : Ceded(u, p)
  \/ \E new \in DOMAIN SidoName, olds \in SUBSET Provinces(Now) : olds # {} /\ Recoded(olds, new)
RecSpec == RecInit /\ [][RecNext]_recVars

-----------------------------------------------------------------------------
\* Of two changes one may hide behind the other where no month between them is there.
ChangesBetween(m, n) == {k \in m .. n - 1 : history[k + 1] # history[k]}
OneAtATime(months) ==
  \A m, n \in months : m < n /\ (\A k \in months : k <= m \/ k >= n) => Cardinality(ChangesBetween(m, n)) <= 1

\* What is summed for an area is one row for each month, all of one and the same
\* piece of land, which is the area or the city it is a district of: whatever
\* becomes of provinces, and whichever months are missing or come late, unless two
\* changes lay in one gap when aliases were made (migration.py:181-185,
\* 12_migration.sql:14-15).
SummedOnce ==
  OneAtATime(seen) => \A i \in DOMAIN areaMap :
    LET rows == Metric(i)  months == {r[1] : r \in rows} IN
    rows # {} =>
      /\ Cardinality(months) = Window /\ Cardinality(rows) = Window
      /\ Max(months) = Min(months) + Window - 1
      /\ \E u \in World : /\ {r[2].places : r \in rows} = {u.places} /\ Drawn(i).land \subseteq u.places
                          /\ areaMap[i][2] # "CITY" => Drawn(i).land = u.places
=============================================================================
