------------------------------ MODULE Planning ------------------------------
(***************************************************************************)
(* What the API works out from a calculation: what closing facilities does *)
(* (features/whatif), which to close and where to open (features/plan with *)
(* domain/placement.py).  Each takes a shortcut by the few nearest         *)
(* facilities of an area; the properties compare it with all of them.      *)
(***************************************************************************)
EXTENDS Naturals, FiniteSets, FiniteSetsExt, SequencesExt, Functions

CONSTANTS
  Places, Facs,   \* areas, and facilities as numbers (hist_id)
  InScope,       \* areas of the scope asked for
  Candidates,    \* facilities of the scope that offer finance
  Tables,        \* the distances tried: [area -> [facility -> number]]
  Weights,       \* the weights tried: [area -> number]
  BankDist,      \* [area -> distance of the nearest bank, or NoDist]
  SiteDist,      \* [site -> [area -> distance]]
  Radius,        \* OPEN_RADIUS_M
  FarM,          \* far_meters
  Ranks,         \* 3: ranks that area_nearest keeps
  TopN, MaxK,    \* TOP_N and MAX_K
  NoDist         \* no facility: a number beyond all distances

Sites == DOMAIN SiteDist
\* TOP_N is more than MAX_K, and there are as many facilities that not all of
\* the nearest of a point can be closed (features/plan/service.py:5).
ASSUME PlanningAssumption ==
  /\ IsFiniteSet(Places) /\ IsFiniteSet(Facs) /\ IsFiniteSet(Sites)
  /\ Facs \subseteq Nat \ {0} /\ Sites \subseteq Nat /\ InScope \subseteq Places /\ Candidates \subseteq Facs
  /\ {Radius, FarM, Ranks, TopN, MaxK, NoDist} \subseteq Nat /\ Ranks > 0
  /\ 0 < MaxK /\ MaxK < TopN /\ MaxK < Cardinality(Facs)
  /\ Tables \subseteq [Places -> [Facs -> 0 .. NoDist - 1]] /\ Weights \subseteq [Places -> Nat]
  /\ BankDist \in [Places -> Nat] /\ \A s \in Sites : SiteDist[s] \in [InScope -> Nat]

VARIABLES
  table,    \* the distances of this calculation
  weight,   \* the weights of the areas
  late,     \* a facility valid when calc read, but committed after (0: none)
  asked,    \* "none", "whatif", "close" or "open"
  gone,     \* facilities closed so far, or those of the what-if
  told,     \* the answer: [area -> distance after] or the steps
  cur,      \* greedy_open: [area of the scope -> distance]
  picked    \* greedy_open: sites opened

planVars == <<table, weight, late, asked, gone, told, cur, picked>>

NoTable == [a \in Places |-> [f \in Facs |-> 0]]
PlanInit ==
  /\ table = NoTable /\ weight = [a \in Places |-> 0] /\ late = 0 /\ asked = "none"
  /\ gone = {} /\ told = <<>> /\ cur = [a \in InScope |-> 0] /\ picked = {}

\* The n facilities of fs nearest to an area; of equal ones those of the lower id.
Nearer(a, f, g) == table[a][f] < table[a][g] \/ (table[a][f] = table[a][g] /\ f < g)
Ranked(a, fs, i) == CHOOSE f \in fs : Cardinality({g \in fs : Nearer(a, g, f)}) = i - 1
NearestOf(a, fs, n) == [i \in 1 .. Min({n, Cardinality(fs)}) |-> Ranked(a, fs, i)]
FirstNotIn(a, s, ids) ==
  LET left == {i \in DOMAIN s : s[i] \notin ids} IN IF left = {} THEN NoDist ELSE table[a][s[Min(left)]]

FacsOfCalc == Facs \ {late}
\* mart.area_nearest, as calc left it.
AreaNearest(a) == NearestOf(a, FacsOfCalc, Ranks)
\* The distance to the nearest facility but for ids, as the index finds it now.
KnnExcluding(a, ids) == Min({NoDist} \cup {table[a][f] : f \in Facs \ ids})

-----------------------------------------------------------------------------
Affected(ids) == {a \in Places : AreaNearest(a) # <<>> /\ AreaNearest(a)[1] \in ids}
NoSearch(a, ids) == NoDist
\* Only areas of which all ranks are closed are searched for.
Search(a, ids) == KnnExcluding(a, ids)
After(a, ids) == LET d == FirstNotIn(a, AreaNearest(a), ids) IN IF d < NoDist THEN d ELSE Search(a, ids)
PartialRecompute(ids) == [a \in Affected(ids) |-> After(a, ids)]

WhatIfAsked(t, w, l, ids) ==
  /\ asked = "none" /\ asked' = "whatif" /\ table' = t /\ weight' = w /\ late' = l
  /\ gone' = ids /\ UNCHANGED <<told, cur, picked>>
WhatIf ==
  /\ asked = "whatif" /\ told = <<>> /\ told' = <<PartialRecompute(gone)>>
  /\ UNCHANGED <<table, weight, late, asked, gone, cur, picked>>
\* fin_access_loss: who had finance within FarM and has neither it nor a bank.
LostFinance(result) ==
  SumFunctionOnSet(weight,
    {a \in DOMAIN result : table[a][AreaNearest(a)[1]] <= FarM /\ result[a] > FarM /\ BankDist[a] > FarM})

-----------------------------------------------------------------------------
\* demand_top_n: the points of the scope, and those outside whose nearest
\* facility is a candidate, with their TopN nearest facilities.
Points == InScope \cup {a \in Places : AreaNearest(a) # <<>> /\ AreaNearest(a)[1] \in Candidates}
Cands(a) == NearestOf(a, Facs, TopN)
PointDist(a, closed) == FirstNotIn(a, Cands(a), closed)

\* What closing c adds for the points that have it among theirs.
Touched(c, closed) ==
  {a \in Points : Contains(Cands(a), c) /\ PointDist(a, closed \cup {c}) < NoDist
                  /\ PointDist(a, closed \cup {c}) # PointDist(a, closed)}
AddedCost(c, closed) ==
  SumFunction([a \in Touched(c, closed) |-> weight[a] * (PointDist(a, closed \cup {c}) - PointDist(a, closed))])
NewlyFar(c, closed) ==
  SumFunctionOnSet(weight,
    {a \in Touched(c, closed) : PointDist(a, closed) <= FarM /\ FarM < PointDist(a, closed \cup {c})})

CloseAsked(t, w) ==
  /\ asked = "none" /\ asked' = "close" /\ table' = t /\ weight' = w
  /\ UNCHANGED <<late, gone, told, cur, picked>>
\* The cost of a step is that of the points as they are after the steps before.
StepCost(c) == AddedCost(c, gone)
CloseStep ==
  /\ asked = "close" /\ Cardinality(gone) < Min({MaxK, Cardinality(Candidates)})
  /\ LET best == CHOOSE c \in Candidates \ gone :
                   \A d \in Candidates \ gone : StepCost(c) < StepCost(d) \/ (StepCost(c) = StepCost(d) /\ c <= d)
     IN /\ gone' = gone \cup {best}
        /\ told' = Append(told, [fac |-> best, cost |-> StepCost(best), far |-> NewlyFar(best, gone)])
  /\ UNCHANGED <<table, weight, late, asked, cur, picked>>
\* single_impacts: what closing a facility alone does to the points nearest to it.
SingleImpact(c) ==
  SumFunction([a \in {b \in Points : Len(Cands(b)) >= 2 /\ Cands(b)[1] = c} |->
    weight[a] * (table[a][Cands(a)[2]] - table[a][Cands(a)[1]])])

-----------------------------------------------------------------------------
Near(s) == {a \in InScope : SiteDist[s][a] <= Radius}
Gain(s) == SumFunction([a \in Near(s) |-> IF SiteDist[s][a] < cur[a] THEN weight[a] * (cur[a] - SiteDist[s][a]) ELSE 0])
NewlyNear(s) ==
  SumFunctionOnSet(weight, {a \in Near(s) : SiteDist[s][a] < cur[a] /\ cur[a] > FarM /\ FarM >= SiteDist[s][a]})
Better(s, t) == \/ Gain(s) > Gain(t)
                \/ Gain(s) = Gain(t) /\ (NewlyNear(s) > NewlyNear(t) \/ (NewlyNear(s) = NewlyNear(t) /\ s >= t))

OpenAsked(t, w) ==
  /\ asked = "none" /\ asked' = "open" /\ table' = t /\ weight' = w
  /\ cur' = [a \in InScope |-> Min({t[a][f] : f \in Facs})]
  /\ UNCHANGED <<late, gone, told, picked>>
OpenStep ==
  /\ asked = "open" /\ Cardinality(picked) < MaxK
  /\ LET left == Sites \ picked
         best == CHOOSE s \in left : \A t \in left : Better(s, t)
     IN /\ left # {} /\ Gain(best) > 0
        /\ picked' = picked \cup {best}
        /\ told' = Append(told, [site |-> best, gain |-> Gain(best)])
        /\ cur' = [a \in InScope |-> IF a \in Near(best) THEN Min({cur[a], SiteDist[best][a]}) ELSE cur[a]]
  /\ UNCHANGED <<table, weight, late, asked, gone>>

PlanNext ==
  \/ WhatIf \/ CloseStep \/ OpenStep
  \/ \E t \in Tables, w \in Weights :
       \/ CloseAsked(t, w) \/ OpenAsked(t, w)
       \/ \E l \in {0} \cup Facs, ids \in SUBSET Facs : WhatIfAsked(t, w, l, ids)

PlanSpec == PlanInit /\ [][PlanNext]_planVars

-----------------------------------------------------------------------------
Total(closed) == SumFunction([a \in Places |-> weight[a] * KnnExcluding(a, closed)])
Beyond(closed) == SumFunctionOnSet(weight, {a \in Places : KnnExcluding(a, closed) > FarM})
UpTo(n) == {told[i].fac : i \in 1 .. n}
NearestWith(a, sites) ==
  Min({KnnExcluding(a, {})} \cup {SiteDist[s][a] : s \in {p \in sites : SiteDist[p][a] <= Radius}})

\* A what-if finds for the areas it looks at what recompute_all finds, and the
\* others keep theirs; who loses finance is counted as over the whole country
\* (service.py:4, ADR-005).  A facility that calc could not see, because it was
\* committed late, is excepted: only the search knows of it.
PartialIsFull ==
  asked = "whatif" /\ told # <<>> /\ late = 0 =>
    /\ \A a \in Places : KnnExcluding(a, gone) = IF a \in DOMAIN told[1] THEN told[1][a] ELSE KnnExcluding(a, {})
    /\ LostFinance(told[1]) = SumFunctionOnSet(weight,
         {a \in Places : KnnExcluding(a, {}) <= FarM /\ KnnExcluding(a, gone) > FarM /\ BankDist[a] > FarM})

\* Every step costs what it adds to the weighted distance of the whole country,
\* and no other candidate would have added less; the first column of the table
\* of facilities is the cost of a first step (service.py:4-6).
CloseIsExact ==
  asked = "close" =>
    /\ \A i \in DOMAIN told :
         LET before == UpTo(i - 1) IN
         /\ told[i].cost = Total(before \cup {told[i].fac}) - Total(before)
         /\ told[i].far = Beyond(before \cup {told[i].fac}) - Beyond(before)
         /\ \A c \in Candidates \ before : told[i].cost <= Total(before \cup {c}) - Total(before)
    /\ \A c \in Candidates : SingleImpact(c) = Total({c}) - Total({})

\* The gains never grow, and their sum is what the weighted distance of the
\* scope falls by with all sites picked.
OpenAddsUp ==
  asked = "open" =>
    /\ \A i, j \in DOMAIN told : i < j => told[i].gain >= told[j].gain
    /\ SumFunction([i \in DOMAIN told |-> told[i].gain]) =
         SumFunction([a \in InScope |-> weight[a] * (KnnExcluding(a, {}) - NearestWith(a, picked))])

\* The shortcuts by the few nearest facilities of an area lose nothing.
ShortcutsAreExact == PartialIsFull /\ CloseIsExact /\ OpenAddsUp
=============================================================================
