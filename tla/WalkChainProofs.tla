---------------------------- MODULE WalkChainProofs ---------------------------
(***************************************************************************)
(* What WalkChain says of every number of calc runs.  A walk that is       *)
(* interrupted waits again with the params it had, so that what was due    *)
(* because of the calc run it works on is due because of the one it will   *)
(* be given: this is TargetIsWanted.                                       *)
(*                                                                         *)
(* And of the search a walk makes, for every network of streets and every  *)
(* placing of facilities (Nearest).  Ways is the function that no edge     *)
(* shortens and of which each value is one of the outset or comes by an    *)
(* edge (Shortest): there is such a function, and the rounds reach it.     *)
(* The search keeps NearInv: every facility that reaches a vertex by its   *)
(* place or by an edge from where it is settled is settled there, waits in *)
(* the heap, or comes too late (Followed).  With the heap empty, of the    *)
(* vertices a facility has not come to by its shortest way the nearest     *)
(* would have an edge from one it has come to (AllCome).                   *)
(***************************************************************************)
EXTENDS WalkChain, Nearest, FiniteLemmas, TLAPS

TargetIsWanted == target # NoCalc => wanted \in {NoCalc, target}

IInv == WalkTypeOK /\ TargetIsWanted /\ LatestCalcIsWalked

-----------------------------------------------------------------------------
LEMMA InitIInv == WInit => IInv
<1> SUFFICES ASSUME WInit PROVE IInv
  OBVIOUS
<1>1. WalkTypeOK
  <2>1. asked \in 0 .. latest /\ wanted \in 0 .. latest /\ target \in 0 .. latest
    BY DEF WInit, NoCalc
  <2> QED
    BY <2>1, WalkAssumption DEF WInit, QInit, WalkTypeOK, QTypeOK
<1>2. TargetIsWanted /\ LatestCalcIsWalked
  BY DEF WInit, TargetIsWanted, LatestCalcIsWalked, Needed
<1> QED
  BY <1>1, <1>2 DEF IInv

\* The types survive every step.
LEMMA NextType == WalkTypeOK /\ TargetIsWanted /\ [WNext]_wvars => WalkTypeOK' /\ TargetIsWanted'
<1> SUFFICES ASSUME WalkTypeOK, TargetIsWanted, [WNext]_wvars
             PROVE  WalkTypeOK' /\ TargetIsWanted'
  OBVIOUS
<1> USE WalkAssumption DEF WalkTypeOK, QTypeOK, Goes, TargetIsWanted, CalcRun, NoCalc,
                           walkVars, qvars
<1>1. ASSUME NEW k \in Kinds, Call(k) PROVE WalkTypeOK' /\ TargetIsWanted'
  BY <1>1 DEF Call, Request, chainVars
<1>2. ASSUME NEW k \in Kinds, Begin(k) PROVE WalkTypeOK' /\ TargetIsWanted'
  <2>1. CASE k = Walk
    BY <1>2, <2>1 DEF Begin, Start
  <2>2. CASE k # Walk
    BY <1>2, <2>2 DEF Begin, Start
  <2> QED
    BY <2>1, <2>2
<1>3. ASSUME NEW k \in Kinds, End(k) PROVE WalkTypeOK' /\ TargetIsWanted'
  BY <1>3 DEF End, Complete, LeavesWalk
<1>4. ASSUME NEW k \in Kinds, Fail(k) PROVE WalkTypeOK' /\ TargetIsWanted'
  BY <1>4 DEF Fail, Complete, LeavesWalk
<1>5. ASSUME NEW k \in Kinds, CancelWaiting(k) PROVE WalkTypeOK' /\ TargetIsWanted'
  BY <1>5 DEF CancelWaiting, Withdraw
<1>6. ASSUME NEW n \in CalcRun, CallWalkOf(n) PROVE WalkTypeOK' /\ TargetIsWanted'
  BY <1>6 DEF CallWalkOf, Request
<1>7. CASE CalcCommit
  BY <1>7 DEF CalcCommit
<1>8. CASE OsmBuilt
  BY <1>8 DEF OsmBuilt
<1>9. CASE OsmRefreshed
  BY <1>9 DEF OsmRefreshed
<1>10. ASSUME NEW k \in {Calc, Osm}, ChainWalk(k) PROVE WalkTypeOK' /\ TargetIsWanted'
  BY <1>10 DEF ChainWalk, Ask
<1>11. CASE WalkSkipped
  BY <1>11 DEF WalkSkipped
<1>12. CASE WalkRead
  BY <1>12 DEF WalkRead, CalcOfWalk
<1>13. CASE WalkCommit
  BY <1>13 DEF WalkCommit
<1>14. ASSUME NEW gone \in SUBSET active, NEW retry \in SUBSET gone,
              Interrupt(retry, gone \ retry)
       PROVE  WalkTypeOK' /\ TargetIsWanted'
  <2>1. waiting' \in SUBSET Kinds /\ active' = active \ gone /\ retry \subseteq waiting'
    BY <1>14 DEF Interrupt, Recover
  <2>2. phase' = [k \in Kinds |-> IF k \in gone THEN "none" ELSE phase[k]]
    BY <1>14 DEF Interrupt
  <2>3. UNCHANGED <<latest, graph, walked, taken>> /\ lost' \in BOOLEAN
    BY <1>14 DEF Interrupt
  <2>4. asked' \in 0 .. latest /\ (asked' # NoCalc => Walk \in waiting')
    BY <1>14 DEF Interrupt, Recover
  <2>5. \/ Walk \in gone /\ wanted' = NoCalc /\ target' = NoCalc
        \/ Walk \notin gone /\ wanted' = wanted /\ target' = target
    BY <1>14 DEF Interrupt, LeavesWalk
  <2> QED
    BY <2>1, <2>2, <2>3, <2>4, <2>5
<1>15. CASE UNCHANGED wvars
  BY <1>15 DEF wvars
<1> QED
  BY <1>1, <1>2, <1>3, <1>4, <1>5, <1>6, <1>7, <1>8, <1>9, <1>10, <1>11, <1>12,
     <1>13, <1>14, <1>15 DEF WNext

\* A walk for the latest calc run stays due until it is there.
LEMMA NextWalked == IInv /\ [WNext]_wvars => LatestCalcIsWalked'
<1> SUFFICES ASSUME WalkTypeOK, TargetIsWanted, LatestCalcIsWalked, [WNext]_wvars
             PROVE  LatestCalcIsWalked'
  BY DEF IInv
<1> USE WalkAssumption DEF WalkTypeOK, QTypeOK, Goes, TargetIsWanted, CalcRun, NoCalc,
                           walkVars, qvars, LatestCalcIsWalked, Needed, WalkDue
<1>1. ASSUME NEW k \in Kinds, Call(k) PROVE LatestCalcIsWalked'
  BY <1>1 DEF Call, Request, chainVars
<1>2. ASSUME NEW k \in Kinds, Begin(k) PROVE LatestCalcIsWalked'
  <2>1. CASE k = Walk
    BY <1>2, <2>1 DEF Begin, Start
  <2>2. CASE k # Walk
    BY <1>2, <2>2 DEF Begin, Start
  <2> QED
    BY <2>1, <2>2
<1>3. ASSUME NEW k \in Kinds, End(k) PROVE LatestCalcIsWalked'
  BY <1>3 DEF End, Complete, LeavesWalk
<1>4. ASSUME NEW k \in Kinds, Fail(k) PROVE LatestCalcIsWalked'
  BY <1>4 DEF Fail, Complete, LeavesWalk
<1>5. ASSUME NEW k \in Kinds, CancelWaiting(k) PROVE LatestCalcIsWalked'
  BY <1>5 DEF CancelWaiting, Withdraw
<1>6. ASSUME NEW n \in CalcRun, CallWalkOf(n) PROVE LatestCalcIsWalked'
  BY <1>6 DEF CallWalkOf, Request
<1>7. CASE CalcCommit
  BY <1>7 DEF CalcCommit
<1>8. CASE OsmBuilt
  BY <1>8 DEF OsmBuilt
<1>9. CASE OsmRefreshed
  BY <1>9 DEF OsmRefreshed
<1>10. ASSUME NEW k \in {Calc, Osm}, ChainWalk(k) PROVE LatestCalcIsWalked'
  BY <1>10 DEF ChainWalk, Ask
<1>11. CASE WalkSkipped
  BY <1>11 DEF WalkSkipped
<1>12. CASE WalkRead
  BY <1>12 DEF WalkRead, CalcOfWalk
<1>13. CASE WalkCommit
  BY <1>13 DEF WalkCommit
<1>14. ASSUME NEW gone \in SUBSET active, NEW retry \in SUBSET gone,
              Interrupt(retry, gone \ retry)
       PROVE  LatestCalcIsWalked'
  <2>1. /\ UNCHANGED <<latest, graph, walked, taken>>
        /\ waiting' = waiting \cup retry
        /\ lost' = (lost \/ gone \ retry # {})
        /\ asked' = IF Walk \in retry THEN wanted ELSE asked
    BY <1>14 DEF Interrupt, Recover
  <2>2. \A k \in Kinds : k \notin gone => phase'[k] = phase[k]
    BY <1>14 DEF Interrupt
  <2>3. Walk \notin gone => UNCHANGED <<wanted, target>>
    BY <1>14 DEF Interrupt
  <2>4. Walk \in retry => Walk \notin waiting
    BY <1>14 DEF Interrupt, Recover
  <2>5. CASE gone \ retry # {}
    BY <2>1, <2>5
  <2>6. CASE gone = retry
    <3>1. CASE \E k \in {Calc, Osm} : k \in gone
      BY <2>1, <2>6, <3>1
    <3>2. CASE Walk \in gone /\ Calc \notin gone /\ Osm \notin gone
      BY <2>1, <2>2, <2>4, <2>6, <3>2
    <3>3. CASE gone = {}
      BY <2>1, <2>2, <2>3, <2>6, <3>3
    <3> QED
      BY <3>1, <3>2, <3>3
  <2> QED
    BY <2>5, <2>6
<1>15. CASE UNCHANGED wvars
  BY <1>15 DEF wvars
<1> QED
  BY <1>1, <1>2, <1>3, <1>4, <1>5, <1>6, <1>7, <1>8, <1>9, <1>10, <1>11, <1>12,
     <1>13, <1>14, <1>15 DEF WNext

-----------------------------------------------------------------------------
\* The inductive invariant holds in every reachable state.
THEOREM WalkInvariance == WSpec => []IInv
<1>1. IInv /\ [WNext]_wvars => IInv'
  BY NextType, NextWalked DEF IInv
<1> QED
  BY InitIInv, <1>1, PTL DEF WSpec

\* The shape of the state, for any number of calc runs.
THEOREM WalkTypes == WSpec => []WalkTypeOK
<1>1. IInv => WalkTypeOK
  BY DEF IInv
<1> QED
  BY <1>1, WalkInvariance, PTL

\* The latest calc run never stays without walking distances unnoticed
\* (worker.py:65-69), but for the walk of another one in its place.
THEOREM LatestWalked == WSpec => []LatestCalcIsWalked
<1>1. IInv => LatestCalcIsWalked
  BY DEF IInv
<1> QED
  BY <1>1, WalkInvariance, PTL

-----------------------------------------------------------------------------
(* The search for the nearest facilities *)

\* A round shortens ways by edges, and in no other way.
LEMMA RelaxIs ==
  ASSUME csr \in [Vertices -> [Vertices -> Nat]], NEW d \in [Vertices -> Nat]
  PROVE  /\ Relax(d) \in [Vertices -> Nat]
         /\ \A v \in Vertices : Relax(d)[v] <= d[v]
         /\ \A u, v \in Vertices : csr[u][v] > 0 => Relax(d)[v] <= d[u] + csr[u][v]
         /\ \A v \in Vertices : Relax(d)[v] = d[v] \/ \E u \in Vertices : csr[u][v] > 0 /\ Relax(d)[v] = d[u] + csr[u][v]
<1> DEFINE S(v) == {d[v]} \cup {d[u] + csr[u][v] : u \in {w \in Vertices : csr[w][v] > 0}}
<1>1. ASSUME NEW v \in Vertices PROVE S(v) \in SUBSET Nat /\ S(v) # {}
  OBVIOUS
<1>2. Relax(d) = [v \in Vertices |-> Min(S(v))]
  BY DEF Relax
<1>3. ASSUME NEW v \in Vertices PROVE Min(S(v)) \in S(v) /\ \A y \in S(v) : Min(S(v)) <= y
  <2> HIDE DEF S
  <2> QED
    BY <1>1, LeastNat
<1>4. \A v \in Vertices : d[v] \in S(v) /\ \A u \in Vertices : csr[u][v] > 0 => d[u] + csr[u][v] \in S(v)
  OBVIOUS
<1>5. \A v \in Vertices : \A y \in S(v) : y = d[v] \/ \E u \in Vertices : csr[u][v] > 0 /\ y = d[u] + csr[u][v]
  OBVIOUS
<1> HIDE DEF S
<1>6. \A v \in Vertices : Relax(d)[v] \in S(v) /\ \A y \in S(v) : Relax(d)[v] <= y
  BY <1>2, <1>3
<1>7. Relax(d) \in [Vertices -> Nat]
  BY <1>1, <1>2, <1>3
<1> QED
  BY <1>4, <1>5, <1>6, <1>7

\* The recursion that defines the rounds has a solution, so that the rounds are it.
LEMMA RoundsAre ==
  ASSUME IsFiniteSet(Vertices), NEW start
  PROVE  Rounds(start) = [i \in 0 .. Cardinality(Vertices) |-> IF i = 0 THEN start ELSE Relax(Rounds(start)[i - 1])]
<1> DEFINE IsRounds(r, n) == r = [i \in 0 .. n |-> IF i = 0 THEN start ELSE Relax(r[i - 1])]
           Lacking == {n \in Nat : ~\E r : IsRounds(r, n)}
<1>1. Cardinality(Vertices) \in Nat
  BY FS_CardinalityType
<1>2. Lacking = {}
  <2> SUFFICES ASSUME Lacking # {} PROVE FALSE
    OBVIOUS
  <2>1. PICK n \in Lacking : \A m \in Lacking : n <= m
    <3>1. Lacking \in SUBSET Nat
      OBVIOUS
    <3> HIDE DEF Lacking
    <3> QED
      BY <3>1, LeastNat
  <2>2. CASE n = 0
    <3>1. IsRounds([i \in 0 .. 0 |-> start], 0)
      OBVIOUS
    <3> QED
      BY <2>2, <3>1
  <2>3. CASE n # 0
    <3>1. n \in Nat
      OBVIOUS
    <3>5. n - 1 \in Nat /\ ~(n <= n - 1)
      BY <2>3, <3>1
    <3>6. n - 1 \notin Lacking
      <4> HIDE DEF Lacking
      <4> QED
        BY <2>1, <3>5
    <3>2. PICK r : IsRounds(r, n - 1)
      BY <3>5, <3>6
    <3> DEFINE q == [i \in 0 .. n |-> IF i = n THEN Relax(r[n - 1]) ELSE r[i]]
    <3>3. \A i \in 0 .. n - 1 : q[i] = r[i]
      OBVIOUS
    <3>4. \A i \in 0 .. n - 1 : r[i] = IF i = 0 THEN start ELSE Relax(r[i - 1])
      BY <3>2
    <3>7. \A i \in 0 .. n : q[i] = IF i = 0 THEN start ELSE Relax(q[i - 1])
      BY <2>3, <3>3, <3>4
    <3>8. IsRounds(q, n)
      <4>1. DOMAIN q = 0 .. n /\ q = [i \in 0 .. n |-> q[i]]
        OBVIOUS
      <4> HIDE DEF q
      <4> QED
        BY <3>7, <4>1
    <3> QED
      BY <3>8
  <2> QED
    BY <2>2, <2>3
<1>3. \E r : IsRounds(r, Cardinality(Vertices))
  BY <1>1, <1>2
<1>4. Rounds(start) = CHOOSE r : IsRounds(r, Cardinality(Vertices))
  BY DEF Rounds
<1> QED
  BY <1>3, <1>4

\* The lengths of the shortest ways: no longer than an edge and the way before it,
\* and each as long as some such.
NoLonger(s, g) ==
  /\ g \in [Vertices -> Nat] /\ \A v \in Vertices : g[v] <= s[v]
  /\ \A u, v \in Vertices : csr[u][v] > 0 => g[v] <= g[u] + csr[u][v]
Shortest(s, g) ==
  NoLonger(s, g) /\ \A v \in Vertices : g[v] = s[v] \/ \E u \in Vertices : csr[u][v] > 0 /\ g[v] = g[u] + csr[u][v]

LEMMA ShortestIs ==
  ASSUME csr \in [Vertices -> [Vertices -> Nat]], NEW s \in [Vertices -> Nat]
  PROVE  \E m : Shortest(s, m)
<1> DEFINE Values(v) == {n \in Nat : \E g : NoLonger(s, g) /\ g[v] = n}
           Over(v) == {n \in Nat : \A k \in Values(v) : k <= n}
           m == [v \in Vertices |-> Min(Over(v))]
<1>1. NoLonger(s, [v \in Vertices |-> 0])
  BY DEF NoLonger
<1>2. ASSUME NEW v \in Vertices
      PROVE  m[v] \in Nat /\ (\A g : NoLonger(s, g) => g[v] <= m[v]) /\ \E g : NoLonger(s, g) /\ g[v] = m[v]
  <2>1. \A g : NoLonger(s, g) => g[v] \in Values(v) /\ g[v] <= s[v] /\ g[v] \in Nat
    BY DEF NoLonger
  <2>2. \A k \in Values(v) : k \in Nat /\ \E g : NoLonger(s, g) /\ g[v] = k
    OBVIOUS
  <2>3. 0 \in Values(v)
    BY <1>1, <2>1
  <2> HIDE DEF Values
  <2>4. s[v] \in Over(v)
    BY <2>1, <2>2
  <2>5. Over(v) \in SUBSET Nat
    OBVIOUS
  <2>6. \A n \in Over(v) : \A k \in Values(v) : k <= n
    OBVIOUS
  <2>7. \A n \in Nat : (\A k \in Values(v) : k <= n) => n \in Over(v)
    OBVIOUS
  <2> HIDE DEF Over
  <2>8. PICK n : n = Min(Over(v)) /\ n \in Over(v) /\ \A y \in Over(v) : n <= y
    BY <2>4, <2>5, LeastNat
  <2>9. m[v] = n
    BY <2>8
  <2> HIDE DEF m
  <2>10. n \in Nat /\ \A k \in Values(v) : k <= n
    BY <2>5, <2>6, <2>8
  <2>11. n \in Values(v)
    <3> SUFFICES ASSUME n \notin Values(v) PROVE FALSE
      OBVIOUS
    <3>1. n # 0
      BY <2>3
    <3>2. n - 1 \in Nat /\ ~(n <= n - 1)
      BY <2>10, <3>1
    <3>3. \A k \in Values(v) : k <= n - 1
      <4> TAKE k \in Values(v)
      <4>1. k \in Nat /\ k <= n /\ k # n
        BY <2>2, <2>10
      <4> QED
        BY <2>10, <4>1
    <3> QED
      BY <2>7, <2>8, <3>2, <3>3
  <2> QED
    BY <2>1, <2>2, <2>9, <2>10, <2>11
<1> HIDE DEF m
<1>3. m \in [Vertices -> Nat]
  <2>1. m = [v \in Vertices |-> Min(Over(v))]
    BY DEF m
  <2> HIDE DEF Over
  <2>2. DOMAIN m = Vertices /\ m = [v \in Vertices |-> m[v]]
    BY <2>1
  <2> QED
    BY <1>2, <2>2
<1> HIDE DEF Values, Over
<1>4. NoLonger(s, m)
  <2>1. \A v \in Vertices : m[v] <= s[v]
    <3> TAKE v \in Vertices
    <3>1. PICK g : NoLonger(s, g) /\ g[v] = m[v]
      BY <1>2
    <3> QED
      BY <3>1 DEF NoLonger
  <2>2. ASSUME NEW u \in Vertices, NEW v \in Vertices, csr[u][v] > 0 PROVE m[v] <= m[u] + csr[u][v]
    <3>1. PICK g : NoLonger(s, g) /\ g[v] = m[v]
      BY <1>2
    <3>2. g[u] <= m[u] /\ m[u] \in Nat /\ g[u] \in Nat /\ csr[u][v] \in Nat /\ m[v] \in Nat
      BY <1>2, <3>1 DEF NoLonger
    <3>3. g[v] <= g[u] + csr[u][v]
      BY <2>2, <3>1 DEF NoLonger
    <3> QED
      BY <3>1, <3>2, <3>3
  <2> QED
    BY <1>3, <2>1, <2>2 DEF NoLonger
<1>5. ASSUME NEW v \in Vertices, m[v] # s[v], \A u \in Vertices : csr[u][v] > 0 => m[v] # m[u] + csr[u][v] PROVE FALSE
  <2> DEFINE g == [m EXCEPT ![v] = @ + 1]
  <2>1. g \in [Vertices -> Nat] /\ g[v] = m[v] + 1 /\ \A u \in Vertices : g[u] = (IF u = v THEN m[v] + 1 ELSE m[u]) /\ m[u] \in Nat /\ s[u] \in Nat
    BY <1>3
  <2> HIDE DEF g
  <2>2. \A u \in Vertices : m[u] <= g[u]
    BY <2>1
  <2>3. \A u \in Vertices : g[u] <= s[u]
    <3> TAKE u \in Vertices
    <3>1. m[u] <= s[u] /\ m[u] \in Nat /\ s[u] \in Nat
      BY <1>3, <1>4 DEF NoLonger
    <3>2. CASE u = v
      <4>1. PICK x \in Nat, y \in Nat : x = m[v] /\ y = s[v]
        BY <2>1
      <4>2. x <= y /\ x # y
        BY <1>5, <3>1, <3>2, <4>1
      <4>3. x + 1 <= y
        BY <4>2
      <4> QED
        BY <2>1, <3>2, <4>1, <4>3
    <3>3. CASE u # v
      BY <2>1, <3>1, <3>3
    <3> QED
      BY <3>2, <3>3
  <2>4. ASSUME NEW u \in Vertices, NEW w \in Vertices, csr[u][w] > 0 PROVE g[w] <= g[u] + csr[u][w]
    <3>1. m[w] <= m[u] + csr[u][w] /\ csr[u][w] \in Nat /\ m[u] \in Nat /\ m[w] \in Nat /\ g[u] \in Nat
      BY <1>3, <1>4, <2>1, <2>4 DEF NoLonger
    <3>2. m[u] <= g[u]
      BY <2>2
    <3>3. CASE w = v
      <4>1. m[v] # m[u] + csr[u][v]
        BY <1>5, <2>4, <3>3
      <4>2. PICK c \in Nat, x \in Nat, y \in Nat, z \in Nat : c = csr[u][v] /\ x = m[v] /\ y = m[u] /\ z = g[u]
        BY <3>1, <3>3
      <4>3. x <= y + c /\ x # y + c /\ y <= z
        BY <3>1, <3>2, <3>3, <4>1, <4>2
      <4>4. x + 1 <= z + c
        BY <4>3
      <4> QED
        BY <2>1, <3>3, <4>2, <4>4
    <3>4. CASE w # v
      BY <2>1, <3>1, <3>2, <3>4
    <3> QED
      BY <3>3, <3>4
  <2>5. NoLonger(s, g)
    BY <2>1, <2>3, <2>4 DEF NoLonger
  <2>6. g[v] <= m[v]
    BY <1>2, <2>5
  <2> QED
    BY <2>1, <2>6
<1> QED
  BY <1>4, <1>5 DEF Shortest

LEMMA RoundStep ==
  ASSUME IsFiniteSet(Vertices), NEW start
  PROVE  /\ Rounds(start)[0] = start /\ Cardinality(Vertices) \in Nat
         /\ \A i \in 1 .. Cardinality(Vertices) : Rounds(start)[i] = Relax(Rounds(start)[i - 1])
<1>1. Cardinality(Vertices) \in Nat
  BY FS_CardinalityType
<1>2. PICK r, n : r = Rounds(start) /\ n = Cardinality(Vertices)
  OBVIOUS
<1>3. r = [i \in 0 .. n |-> IF i = 0 THEN start ELSE Relax(r[i - 1])]
  BY <1>2, RoundsAre
<1>4. n \in Nat /\ 0 \in 0 .. n /\ \A i \in 1 .. n : i \in 0 .. n /\ i # 0
  BY <1>1, <1>2
<1>5. \A i \in 0 .. n : r[i] = IF i = 0 THEN start ELSE Relax(r[i - 1])
  BY <1>3
<1> QED
  BY <1>1, <1>2, <1>4, <1>5

\* With every round one more way is the shortest, if any is not: that to the
\* nearest vertex among them, for the vertex before it is nearer.
LEMMA RoundsReach ==
  ASSUME csr \in [Vertices -> [Vertices -> Nat]], IsFiniteSet(Vertices), NEW s \in [Vertices -> Nat], NEW m, Shortest(s, m)
  PROVE  Rounds(s)[Cardinality(Vertices)] = m
<1> DEFINE N == Cardinality(Vertices)
           r == Rounds(s)
           Right(i) == {v \in Vertices : r[i][v] = m[v]}
           Good(i) == /\ r[i] \in [Vertices -> Nat] /\ \A v \in Vertices : m[v] <= r[i][v] /\ r[i][v] <= s[v]
                      /\ Right(i) = Vertices \/ Cardinality(Right(i)) >= i
           Bad == {i \in 0 .. N : ~Good(i)}
<1>1. N \in Nat /\ r[0] = s /\ \A i \in 1 .. N : r[i] = Relax(r[i - 1])
  BY RoundStep
<1>2. m \in [Vertices -> Nat] /\ (\A v \in Vertices : m[v] <= s[v])
      /\ (\A u, v \in Vertices : csr[u][v] > 0 => m[v] <= m[u] + csr[u][v])
      /\ (\A v \in Vertices : m[v] = s[v] \/ \E u \in Vertices : csr[u][v] > 0 /\ m[v] = m[u] + csr[u][v])
  BY DEF Shortest, NoLonger
<1>3. \A i : Right(i) \in SUBSET Vertices
  OBVIOUS
<1>4. \A i : IsFiniteSet(Right(i)) /\ Cardinality(Right(i)) \in Nat /\ Cardinality(Right(i)) <= N
           /\ (Cardinality(Right(i)) = N => Right(i) = Vertices)
  <2> TAKE i
  <2> HIDE DEF Right
  <2> QED
    BY <1>3, FS_Subset, FS_CardinalityType
<1>5. \A i : \A v : v \in Right(i) <=> v \in Vertices /\ r[i][v] = m[v]
  OBVIOUS
<1> HIDE DEF N, r, Right
<1>6. Good(0)
  BY <1>1, <1>2, <1>4
<1>7. ASSUME NEW i \in 0 .. N, i # 0, Good(i - 1) PROVE Good(i)
  <2>1. PICK p \in [Vertices -> Nat] : p = r[i - 1] /\ \A v \in Vertices : m[v] <= p[v] /\ p[v] <= s[v]
    BY <1>7
  <2>2. PICK q : q = r[i] /\ q = Relax(p)
    BY <1>1, <1>7, <2>1
  <2>3. /\ q \in [Vertices -> Nat] /\ \A v \in Vertices : q[v] <= p[v]
        /\ \A u, v \in Vertices : csr[u][v] > 0 => q[v] <= p[u] + csr[u][v]
        /\ \A v \in Vertices : q[v] = p[v] \/ \E u \in Vertices : csr[u][v] > 0 /\ q[v] = p[u] + csr[u][v]
    BY <2>2, RelaxIs
  <2>4. \A v \in Vertices : m[v] <= q[v]
    <3> TAKE v \in Vertices
    <3>1. CASE q[v] = p[v]
      BY <2>1, <3>1
    <3>2. CASE q[v] # p[v]
      <4>1. PICK u \in Vertices : csr[u][v] > 0 /\ q[v] = p[u] + csr[u][v]
        BY <2>3, <3>2
      <4>2. m[v] <= m[u] + csr[u][v] /\ m[u] <= p[u] /\ m[u] \in Nat /\ p[u] \in Nat /\ m[v] \in Nat /\ csr[u][v] \in Nat
        BY <1>2, <2>1, <4>1
      <4> QED
        BY <4>1, <4>2
    <3> QED
      BY <3>1, <3>2
  <2>5. Right(i - 1) \subseteq Right(i)
    <3> SUFFICES ASSUME NEW v \in Vertices, p[v] = m[v] PROVE q[v] = m[v]
      BY <1>5, <2>1, <2>2
    <3>1. PICK x \in Nat, y \in Nat : x = q[v] /\ y = m[v]
      BY <1>2, <2>3
    <3>2. x <= y /\ y <= x
      BY <2>3, <2>4, <3>1
    <3>3. x = y
      BY <3>2
    <3> QED
      BY <3>1, <3>3
  <2>6. ASSUME Right(i - 1) # Vertices PROVE \E v \in Right(i) : v \notin Right(i - 1)
    <3> DEFINE Wrong == {v \in Vertices : v \notin Right(i - 1)}
               Lens == {m[v] : v \in Wrong}
    <3>1. Wrong # {}
      BY <1>3, <2>6
    <3>2. Lens \in SUBSET Nat /\ Lens # {}
      BY <1>2, <3>1
    <3>3. PICK least \in Lens : \A l \in Lens : least <= l
      <4> HIDE DEF Lens
      <4> QED
        BY <3>2, LeastNat
    <3>4. PICK v \in Wrong : least = m[v]
      OBVIOUS
    <3>5. \A w \in Wrong : m[v] <= m[w]
      BY <3>3, <3>4
    <3>6. v \in Vertices /\ p[v] # m[v] /\ m[v] <= p[v]
      BY <1>5, <2>1
    <3>7. p[v] <= s[v]
      BY <2>1, <3>6
    <3>8. PICK u \in Vertices : csr[u][v] > 0 /\ m[v] = m[u] + csr[u][v]
      <4>1. m[v] # s[v]
        <5>1. PICK x \in Nat, y \in Nat, z \in Nat : x = m[v] /\ y = p[v] /\ z = s[v]
          BY <1>2, <2>1, <3>6
        <5>2. x <= y /\ y # x /\ y <= z
          BY <3>6, <3>7, <5>1
        <5>3. x # z
          BY <5>2
        <5> QED
          BY <5>1, <5>3
      <4> QED
        BY <1>2, <3>6, <4>1
    <3>9. u \notin Wrong
      <4>1. m[u] \in Nat /\ csr[u][v] \in Nat /\ m[v] \in Nat
        BY <1>2, <3>6
      <4>2. ~(m[v] <= m[u])
        BY <3>8, <4>1
      <4> QED
        BY <3>5, <4>2
    <3>10. p[u] = m[u]
      BY <1>5, <2>1, <3>9
    <3>11. q[v] = m[v]
      <4>1. q[v] <= p[u] + csr[u][v] /\ m[v] <= q[v] /\ q[v] \in Nat /\ m[v] \in Nat
        BY <1>2, <2>3, <2>4, <3>6, <3>8
      <4>2. PICK x, y, z : x = q[v] /\ y = m[v] /\ z = p[u] + csr[u][v]
        OBVIOUS
      <4>3. x <= z /\ y <= x /\ x \in Nat /\ y \in Nat /\ y = z
        BY <3>8, <3>10, <4>1, <4>2
      <4>5. x <= y
        BY <4>3, Zenon
      <4>4. x = y
        BY <4>3, <4>5
      <4> QED
        BY <4>2, <4>4
    <3> QED
      BY <1>5, <2>2, <3>6, <3>11
  <2>7. Right(i) = Vertices \/ Cardinality(Right(i)) >= i
    <3>1. CASE Right(i - 1) = Vertices
      BY <1>3, <2>5, <3>1
    <3>2. CASE Right(i - 1) # Vertices
      <4>1. PICK v \in Right(i) : v \notin Right(i - 1)
        BY <2>6, <3>2
      <4>2. PICK A, B : A = Right(i - 1) /\ B = Right(i)
        OBVIOUS
      <4>3. IsFiniteSet(A) /\ IsFiniteSet(B) /\ A \cup {v} \in SUBSET B /\ v \notin A
        BY <1>4, <2>5, <4>1, <4>2
      <4>4. Cardinality(A \cup {v}) = Cardinality(A) + 1 /\ Cardinality(A \cup {v}) <= Cardinality(B)
        BY <4>3, FS_AddElement, FS_Subset
      <4>5. Cardinality(A) >= i - 1 /\ Cardinality(A) \in Nat /\ Cardinality(B) \in Nat
        BY <1>4, <1>7, <3>2, <4>2
      <4>6. i \in Nat
        BY <1>1
      <4> QED
        BY <4>2, <4>4, <4>5, <4>6
    <3> QED
      BY <3>1, <3>2
  <2>8. \A v \in Vertices : q[v] <= s[v]
    <3> TAKE v \in Vertices
    <3>1. q[v] <= p[v] /\ p[v] <= s[v] /\ q[v] \in Nat /\ p[v] \in Nat /\ s[v] \in Nat
      BY <2>1, <2>3
    <3> QED
      BY <3>1
  <2> QED
    BY <2>2, <2>3, <2>4, <2>7, <2>8
<1>8. Good(N)
  <2> HIDE DEF Good
  <2> SUFFICES ASSUME Bad # {} PROVE FALSE
    BY <1>1
  <2>1. Bad \in SUBSET Nat
    BY <1>1
  <2>2. \A i : i \in Bad <=> i \in 0 .. N /\ ~Good(i)
    OBVIOUS
  <2> HIDE DEF Bad
  <2>3. PICK i \in Bad : \A j \in Bad : i <= j
    BY <2>1, LeastNat
  <2>4. i # 0 /\ i \in 0 .. N /\ i - 1 \in 0 .. N /\ ~(i <= i - 1)
    BY <1>1, <1>6, <2>2
  <2>5. Good(i - 1)
    BY <2>2, <2>3, <2>4
  <2> QED
    BY <1>7, <2>2, <2>4, <2>5
<1>9. Right(N) = Vertices
  <2>1. Right(N) = Vertices \/ Cardinality(Right(N)) >= N
    BY <1>8
  <2> QED
    BY <1>1, <1>4, <2>1
<1>10. r[N] = m
  <2>1. r[N] \in [Vertices -> Nat] /\ m \in [Vertices -> Nat] /\ \A v \in Vertices : r[N][v] = m[v]
    BY <1>2, <1>5, <1>8, <1>9
  <2> QED
    BY <2>1
<1> QED
  BY <1>10 DEF r, N

-----------------------------------------------------------------------------
\* The search.  What waits in the heap or has been settled is the length of a
\* way (IsWay), the heap is at no time nearer than what is settled (FarOff), and
\* a facility that reaches a vertex by its place or by an edge is settled there,
\* waits, or comes too late (Comes).
GraphTypes ==
  /\ csr \in [Vertices -> [Vertices -> Nat]] /\ DOMAIN placed \in SUBSET Nat /\ IsFiniteSet(DOMAIN placed)
  /\ \A f \in DOMAIN placed : placed[f] \in Vertices \X Nat
SearchTypes ==
  /\ heap \in SUBSET (Nat \X Vertices \X (DOMAIN placed)) /\ label \in [Vertices -> Seq((DOMAIN placed) \X Nat)]
  /\ searching \in {"none", "on", "over"}
  /\ searching = "none" => \A v \in Vertices : label[v] = <<>>
  /\ searching # "on" => heap = {}
IsWay(f, v, d) == Ways(f)[v] <= d /\ d <= WalkLimit
TrueWays ==
  /\ \A e \in heap : IsWay(e[3], e[2], e[1])
  /\ \A v \in Vertices : \A i \in DOMAIN label[v] : IsWay(label[v][i][1], v, label[v][i][2])
FarOff == \A e \in heap : \A v \in Vertices : \A i \in DOMAIN label[v] : label[v][i][2] <= e[1]
InOrder ==
  \A v \in Vertices :
    /\ Len(label[v]) <= K
    /\ \A i, j \in DOMAIN label[v] : i < j => label[v][i][2] <= label[v][j][2] /\ label[v][i][1] # label[v][j][1]
Comes(v, f, d) ==
  \/ <<d, v, f>> \in heap
  \/ \E i \in DOMAIN label[v] : label[v][i][1] = f /\ label[v][i][2] <= d
  \/ Len(label[v]) >= K /\ \A i \in DOMAIN label[v] : label[v][i][2] <= d
Followed ==
  /\ \A v \in Vertices : \A i \in DOMAIN label[v] : \A u \in Vertices :
       csr[v][u] > 0 /\ label[v][i][2] + csr[v][u] <= WalkLimit => Comes(u, label[v][i][1], label[v][i][2] + csr[v][u])
  /\ searching # "none" =>
       \A f \in DOMAIN placed : placed[f][2] <= SnapMax /\ placed[f][2] <= WalkLimit => Comes(placed[f][1], f, placed[f][2])
NearInv == GraphTypes /\ SearchTypes /\ TrueWays /\ FarOff /\ InOrder /\ Followed

LEMMA NearConstants ==
  /\ Vertices \in SUBSET Nat /\ IsFiniteSet(Vertices) /\ K \in Nat /\ K > 0 /\ WalkLimit \in Nat /\ SnapMax \in Nat
BY NearestAssumption

LEMMA WaysAre ==
  ASSUME GraphTypes, NEW f \in DOMAIN placed
  PROVE  Seeded(f) \in [Vertices -> Nat] /\ Shortest(Seeded(f), Ways(f)) /\ Ways(f) \in [Vertices -> Nat]
<1>1. csr \in [Vertices -> [Vertices -> Nat]] /\ placed[f] \in Vertices \X Nat /\ IsFiniteSet(Vertices) /\ WalkLimit \in Nat
  BY NearConstants DEF GraphTypes
<1>2. Seeded(f) \in [Vertices -> Nat]
  BY <1>1 DEF Seeded, Far
<1>3. PICK m : Shortest(Seeded(f), m)
  BY <1>1, <1>2, ShortestIs
<1>4. PICK s : s = Seeded(f)
  OBVIOUS
<1>5. Rounds(s)[Cardinality(Vertices)] = m
  BY <1>1, <1>2, <1>3, <1>4, RoundsReach
<1>6. Ways(f) = m
  BY <1>4, <1>5 DEF Ways
<1> QED
  BY <1>2, <1>3, <1>6 DEF Shortest, NoLonger

LEMMA WaysStay ==
  ASSUME UNCHANGED <<csr, placed>>
  PROVE  \A f : Ways(f)' = Ways(f)
<1>1. \A d : Relax(d)' = Relax(d)
  BY DEF Relax
<1>2. \A s : Rounds(s)' = Rounds(s)
  BY <1>1 DEF Rounds
<1>3. \A f : Seeded(f)' = Seeded(f)
  BY DEF Seeded
<1> QED
  BY <1>2, <1>3 DEF Ways

LEMMA TopIs ==
  ASSUME heap \in SUBSET (Nat \X Vertices \X (DOMAIN placed)), DOMAIN placed \in SUBSET Nat, heap # {}
  PROVE  Top \in heap /\ \A e \in heap : Top[1] <= e[1]
<1>0. Vertices \in SUBSET Nat
  BY NearConstants
<1>1. \A e \in heap : e[1] \in Nat /\ e[2] \in Nat /\ e[3] \in Nat
  BY <1>0
<1> DEFINE D == {e[1] : e \in heap}
<1>2. D \in SUBSET Nat /\ D # {}
  BY <1>1
<1>3. PICK d \in D : \A x \in D : d <= x
  <2> HIDE DEF D
  <2> QED
    BY <1>2, LeastNat
<1>4. d \in Nat /\ (\E e \in heap : e[1] = d) /\ \A e \in heap : d <= e[1]
  BY <1>2, <1>3
<1> HIDE DEF D
<1> DEFINE V == {e[2] : e \in {h \in heap : h[1] = d}}
<1>5. V \in SUBSET Nat /\ V # {}
  BY <1>1, <1>4
<1>6. PICK v \in V : \A x \in V : v <= x
  <2> HIDE DEF V
  <2> QED
    BY <1>5, LeastNat
<1>7. v \in Nat /\ (\E e \in heap : e[1] = d /\ e[2] = v) /\ \A e \in heap : e[1] = d => v <= e[2]
  BY <1>5, <1>6
<1> HIDE DEF V
<1> DEFINE F == {e[3] : e \in {h \in heap : h[1] = d /\ h[2] = v}}
<1>8. F \in SUBSET Nat /\ F # {}
  BY <1>1, <1>7
<1>9. PICK f \in F : \A x \in F : f <= x
  <2> HIDE DEF F
  <2> QED
    BY <1>8, LeastNat
<1>10. PICK t \in heap : t[1] = d /\ t[2] = v /\ t[3] = f /\ \A e \in heap : e[1] = d /\ e[2] = v => f <= e[3]
  BY <1>8, <1>9
<1>11. ASSUME NEW e \in heap PROVE Before(t, e)
  <2>1. d <= e[1] /\ (e[1] = d => v <= e[2]) /\ (e[1] = d /\ e[2] = v => f <= e[3])
    BY <1>4, <1>7, <1>10
  <2>2. d \in Nat /\ v \in Nat /\ e[1] \in Nat /\ e[2] \in Nat
    BY <1>1, <1>4, <1>7
  <2> QED
    BY <1>10, <2>1, <2>2 DEF Before
<1>12. Top \in heap /\ \A e \in heap : Before(Top, e)
  BY <1>11 DEF Top
<1>13. ASSUME NEW e \in heap PROVE Top[1] <= e[1]
  <2>1. Before(Top, e) /\ Top[1] \in Nat /\ e[1] \in Nat
    BY <1>1, <1>12
  <2> QED
    BY <2>1 DEF Before
<1> QED
  BY <1>12, <1>13

-----------------------------------------------------------------------------
\* What a pop does with the entry it takes.
Pushed(d, v, f) ==
  {<<d + csr[v][u], u, f>> : u \in {w \in Vertices : csr[v][w] > 0 /\ d + csr[v][w] <= WalkLimit /\ ~Full(w, f)}}
Takes(d, v, f) ==
  /\ <<d, v, f>> \in heap /\ d \in Nat /\ v \in Vertices /\ f \in DOMAIN placed
  /\ IsWay(f, v, d)
  /\ \A e \in heap : d <= e[1]
  /\ \A u \in Vertices : \A i \in DOMAIN label[u] : label[u][i][2] <= d
Passes(d, v, f) == Takes(d, v, f) /\ Full(v, f) /\ heap' = heap \ {<<d, v, f>>} /\ label' = label
Settles(d, v, f) ==
  /\ Takes(d, v, f) /\ ~Full(v, f) /\ heap' = (heap \ {<<d, v, f>>}) \cup Pushed(d, v, f)
  /\ label' \in [Vertices -> Seq((DOMAIN placed) \X Nat)]
  /\ \A u \in Vertices : u # v => label'[u] = label[u]
  /\ Len(label'[v]) = Len(label[v]) + 1 /\ Len(label[v]) \in Nat
  /\ DOMAIN label[v] = 1 .. Len(label[v]) /\ DOMAIN label'[v] = 1 .. Len(label[v]) + 1
  /\ \A i \in 1 .. Len(label[v]) : label'[v][i] = label[v][i]
  /\ label'[v][Len(label[v]) + 1] = <<f, d>>

LEMMA LabelTypes ==
  ASSUME SearchTypes, NEW v \in Vertices
  PROVE  /\ label[v] \in Seq((DOMAIN placed) \X Nat) /\ Len(label[v]) \in Nat /\ DOMAIN label[v] = 1 .. Len(label[v])
         /\ \A i \in DOMAIN label[v] : /\ label[v][i] = <<label[v][i][1], label[v][i][2]>>
                                     /\ label[v][i][1] \in DOMAIN placed /\ label[v][i][2] \in Nat
<1>1. PICK s \in Seq((DOMAIN placed) \X Nat) : s = label[v]
  BY DEF SearchTypes
<1>2. \A i \in 1 .. Len(s) : s[i] \in (DOMAIN placed) \X Nat
  OBVIOUS
<1>3. \A i \in 1 .. Len(s) : s[i] = <<s[i][1], s[i][2]>> /\ s[i][1] \in DOMAIN placed /\ s[i][2] \in Nat
  BY <1>2
<1>4. Len(s) \in Nat /\ DOMAIN s = 1 .. Len(s)
  OBVIOUS
<1> QED
  BY <1>1, <1>3, <1>4

LEMMA PopIs ==
  ASSUME NearInv, Pop
  PROVE  /\ UNCHANGED <<csr, placed, searching>> /\ searching = "on"
         /\ \E d, v, f : Passes(d, v, f) \/ Settles(d, v, f)
<1>1. heap \in SUBSET (Nat \X Vertices \X (DOMAIN placed)) /\ DOMAIN placed \in SUBSET Nat /\ heap # {}
  BY DEF NearInv, SearchTypes, GraphTypes, Pop
<1>2. Top \in heap /\ \A e \in heap : Top[1] <= e[1]
  BY <1>1, TopIs
<1>3. PICK t : t = Top
  OBVIOUS
<1>4. PICK d, v, f : d = t[1] /\ v = t[2] /\ f = t[3]
  OBVIOUS
<1>5. t = <<d, v, f>> /\ d \in Nat /\ v \in Vertices /\ f \in DOMAIN placed
  BY <1>1, <1>2, <1>3, <1>4
<1>6. Takes(d, v, f)
  <2>1. IsWay(f, v, d)
    BY <1>2, <1>3, <1>4 DEF NearInv, TrueWays
  <2>2. \A u \in Vertices : \A i \in DOMAIN label[u] : label[u][i][2] <= d
    BY <1>2, <1>3, <1>4 DEF NearInv, FarOff
  <2> QED
    BY <1>2, <1>3, <1>4, <1>5, <2>1, <2>2 DEF Takes
<1>7. CASE Full(v, f)
  BY <1>3, <1>4, <1>5, <1>6, <1>7 DEF Pop, Passes
<1>8. CASE ~Full(v, f)
  <2>1. label' = [label EXCEPT ![v] = Append(@, <<f, d>>)]
    BY <1>3, <1>4, <1>8 DEF Pop
  <2>2. heap' = (heap \ {<<d, v, f>>}) \cup Pushed(d, v, f)
    BY <1>3, <1>4, <1>5, <1>8 DEF Pop, Pushed
  <2>3. label \in [Vertices -> Seq((DOMAIN placed) \X Nat)]
    BY DEF NearInv, SearchTypes
  <2>4. PICK S : S = (DOMAIN placed) \X Nat
    OBVIOUS
  <2>5. PICK s \in Seq(S) : s = label[v]
    BY <1>5, <2>3, <2>4
  <2>6. PICK x \in S : x = <<f, d>>
    BY <1>5, <2>4
  <2>7. /\ Append(s, x) \in Seq(S) /\ Len(s) \in Nat /\ Len(Append(s, x)) = Len(s) + 1
        /\ DOMAIN s = 1 .. Len(s) /\ DOMAIN Append(s, x) = 1 .. Len(s) + 1
        /\ \A i \in 1 .. Len(s) : Append(s, x)[i] = s[i]
        /\ Append(s, x)[Len(s) + 1] = x
    OBVIOUS
  <2>8. label'[v] = Append(s, x) /\ \A u \in Vertices : u # v => label'[u] = label[u]
    BY <1>5, <2>1, <2>3, <2>5, <2>6
  <2>9. label' \in [Vertices -> Seq(S)]
    BY <2>1, <2>3, <2>4, <2>5, <2>6, <2>7
  <2>10. label'[v][Len(label[v]) + 1] = <<f, d>> /\ Len(label'[v]) = Len(label[v]) + 1
    BY <2>5, <2>6, <2>7, <2>8
  <2>11. Settles(d, v, f)
    BY <1>6, <1>8, <2>2, <2>4, <2>5, <2>7, <2>8, <2>9, <2>10 DEF Settles
  <2> QED
    BY <2>11 DEF Pop
<1> QED
  BY <1>7, <1>8 DEF Pop

\* What comes to a vertex goes on coming.
LEMMA GoesOnComing ==
  ASSUME NearInv, NEW d, NEW v, NEW f, Passes(d, v, f) \/ Settles(d, v, f),
         NEW u \in Vertices, NEW g, NEW x \in Nat, Comes(u, g, x)
  PROVE  Comes(u, g, x)'
<1>1. CASE Passes(d, v, f)
  <2>1. label' = label /\ heap' = heap \ {<<d, v, f>>}
    BY <1>1 DEF Passes
  <2>2. CASE <<x, u, g>> # <<d, v, f>>
    BY <2>1, <2>2 DEF Comes
  <2>3. CASE <<x, u, g>> = <<d, v, f>>
    <3>1. x = d /\ u = v /\ g = f
      BY <2>3
    <3>2. \A i \in DOMAIN label[u] : label[u][i][2] <= x
      BY <1>1, <3>1 DEF Passes, Takes
    <3>3. Len(label[u]) >= K \/ \E i \in DOMAIN label[u] : label[u][i][1] = g
      BY <1>1, <3>1 DEF Passes, Full, Settled
    <3> QED
      BY <2>1, <3>2, <3>3 DEF Comes
  <2> QED
    BY <2>2, <2>3
<1>2. CASE Settles(d, v, f)
  <2>1. /\ heap \ {<<d, v, f>>} \subseteq heap' /\ (u # v => label'[u] = label[u]) /\ v \in Vertices
        /\ Len(label[v]) \in Nat /\ DOMAIN label[v] = 1 .. Len(label[v]) /\ DOMAIN label'[v] = 1 .. Len(label[v]) + 1
        /\ \A i \in 1 .. Len(label[v]) : label'[v][i] = label[v][i]
        /\ label'[v][Len(label[v]) + 1] = <<f, d>>
    BY <1>2 DEF Settles, Takes
  <2>2. CASE <<x, u, g>> \in heap
    <3>1. CASE <<x, u, g>> # <<d, v, f>>
      BY <2>1, <2>2, <3>1 DEF Comes
    <3>2. CASE <<x, u, g>> = <<d, v, f>>
      <4>1. x = d /\ u = v /\ g = f
        BY <3>2
      <4>2. Len(label[v]) + 1 \in DOMAIN label'[u] /\ label'[u][Len(label[v]) + 1] = <<g, x>>
        BY <2>1, <4>1
      <4>3. label'[u][Len(label[v]) + 1][1] = g /\ label'[u][Len(label[v]) + 1][2] <= x
        BY <4>2
      <4> QED
        BY <4>2, <4>3 DEF Comes
    <3> QED
      BY <3>1, <3>2
  <2>3. CASE \E i \in DOMAIN label[u] : label[u][i][1] = g /\ label[u][i][2] <= x
    <3>1. PICK i \in DOMAIN label[u] : label[u][i][1] = g /\ label[u][i][2] <= x
      BY <2>3
    <3>2. i \in DOMAIN label'[u] /\ label'[u][i] = label[u][i]
      BY <2>1
    <3> QED
      BY <3>1, <3>2 DEF Comes
  <2>4. CASE Len(label[u]) >= K /\ \A i \in DOMAIN label[u] : label[u][i][2] <= x
    <3>1. u # v
      BY <1>2, <2>4 DEF Settles, Full
    <3> QED
      BY <2>1, <2>4, <3>1 DEF Comes
  <2> QED
    BY <2>2, <2>3, <2>4 DEF Comes
<1> QED
  BY <1>1, <1>2

\* What is pushed is the length of a way, not nearer than what was taken.
LEMMA PushedIs ==
  ASSUME NearInv, NEW d, NEW v, NEW f, Takes(d, v, f), NEW e \in Pushed(d, v, f)
  PROVE  /\ e \in Nat \X Vertices \X (DOMAIN placed)
         /\ IsWay(e[3], e[2], e[1]) /\ d <= e[1]
<1>1. PICK u \in Vertices : csr[v][u] > 0 /\ d + csr[v][u] <= WalkLimit /\ e = <<d + csr[v][u], u, f>>
  BY DEF Pushed
<1>2. d \in Nat /\ v \in Vertices /\ f \in DOMAIN placed /\ Ways(f)[v] <= d
  BY DEF Takes, IsWay
<1>3. GraphTypes /\ csr[v][u] \in Nat
  BY <1>2 DEF NearInv, GraphTypes
<1>4. Ways(f)[v] \in Nat /\ Ways(f)[u] \in Nat /\ Ways(f)[u] <= Ways(f)[v] + csr[v][u]
  BY <1>1, <1>2, <1>3, WaysAre DEF Shortest, NoLonger
<1>5. PICK x, y, c : x = Ways(f)[v] /\ y = Ways(f)[u] /\ c = csr[v][u]
  OBVIOUS
<1>6. y <= d + c /\ d <= d + c /\ d + c \in Nat
  BY <1>2, <1>3, <1>4, <1>5
<1> QED
  BY <1>1, <1>2, <1>5, <1>6 DEF IsWay

LEMMA SearchTypesKept ==
  ASSUME NearInv, UNCHANGED <<csr, placed, searching>>, searching = "on", NEW d, NEW v, NEW f, Passes(d, v, f) \/ Settles(d, v, f)
  PROVE  GraphTypes' /\ SearchTypes'
<1>1. GraphTypes'
  BY DEF NearInv, GraphTypes
<1>2. CASE Passes(d, v, f)
  <2>1. heap' = heap \ {<<d, v, f>>} /\ label' = label
    BY <1>2 DEF Passes
  <2>2. PICK S : S = Nat \X Vertices \X (DOMAIN placed)
    OBVIOUS
  <2>3. heap' \in SUBSET S
    BY <2>1, <2>2 DEF NearInv, SearchTypes
  <2> QED
    BY <1>1, <2>1, <2>2, <2>3 DEF NearInv, SearchTypes
<1>3. CASE Settles(d, v, f)
  <2>1. Pushed(d, v, f) \subseteq Nat \X Vertices \X (DOMAIN placed)
    BY <1>3, PushedIs DEF Settles
  <2> QED
    BY <1>1, <1>3, <2>1 DEF NearInv, SearchTypes, Settles
<1> QED
  BY <1>1, <1>2, <1>3

LEMMA TrueWaysKept ==
  ASSUME NearInv, UNCHANGED <<csr, placed, searching>>, NEW d, NEW v, NEW f, Passes(d, v, f) \/ Settles(d, v, f)
  PROVE  TrueWays' /\ FarOff'
<1>0. \A g, u, x : IsWay(g, u, x)' <=> IsWay(g, u, x)
  BY WaysStay DEF IsWay
<1>1. TrueWays /\ FarOff
  BY DEF NearInv
<1>2. CASE Passes(d, v, f)
  BY <1>0, <1>1, <1>2 DEF TrueWays, FarOff, Passes
<1>3. CASE Settles(d, v, f)
  <2>1. /\ heap' = (heap \ {<<d, v, f>>}) \cup Pushed(d, v, f) /\ d \in Nat
        /\ IsWay(f, v, d) /\ \A e \in heap : d <= e[1]
        /\ \A u \in Vertices : \A i \in DOMAIN label[u] : label[u][i][2] <= d
    BY <1>3 DEF Settles, Takes
  <2>2. /\ \A e \in heap' : IsWay(e[3], e[2], e[1]) /\ d <= e[1] /\ e[1] \in Nat
    <3>1. \A e \in heap : e[1] \in Nat /\ IsWay(e[3], e[2], e[1])
      BY <1>1 DEF NearInv, SearchTypes, TrueWays
    <3>2. \A e \in Pushed(d, v, f) : IsWay(e[3], e[2], e[1]) /\ d <= e[1] /\ e[1] \in Nat
      BY <1>3, PushedIs DEF Settles
    <3> QED
      BY <2>1, <3>1, <3>2
  <2>3. ASSUME NEW u \in Vertices, NEW i \in DOMAIN label'[u]
        PROVE  IsWay(label'[u][i][1], u, label'[u][i][2]) /\ label'[u][i][2] <= d /\ label'[u][i][2] \in Nat
    <3>1. /\ DOMAIN label[v] = 1 .. Len(label[v]) /\ DOMAIN label'[v] = 1 .. Len(label[v]) + 1 /\ Len(label[v]) \in Nat
          /\ (\A j \in 1 .. Len(label[v]) : label'[v][j] = label[v][j])
          /\ label'[v][Len(label[v]) + 1] = <<f, d>> /\ (u # v => label'[u] = label[u])
      BY <1>3 DEF Settles
    <3>2. CASE i \in DOMAIN label[u] /\ label'[u][i] = label[u][i]
      <4>1. IsWay(label[u][i][1], u, label[u][i][2]) /\ label[u][i][2] <= d
        BY <1>1, <2>1, <3>2 DEF TrueWays
      <4>2. label[u][i][2] \in Nat
        BY <3>2, LabelTypes DEF NearInv
      <4> QED
        BY <3>2, <4>1, <4>2
    <3>3. CASE u = v /\ i = Len(label[v]) + 1
      <4>1. label'[u][i] = <<f, d>>
        BY <3>1, <3>3
      <4> QED
        BY <2>1, <3>3, <4>1
    <3>4. (i \in DOMAIN label[u] /\ label'[u][i] = label[u][i]) \/ (u = v /\ i = Len(label[v]) + 1)
      <4>1. CASE u = v
        <5>1. i \in 1 .. Len(label[v]) + 1
          BY <3>1, <4>1
        <5>2. i \in 1 .. Len(label[v]) \/ i = Len(label[v]) + 1
          BY <3>1, <5>1
        <5> QED
          BY <3>1, <4>1, <5>2
      <4>2. CASE u # v
        BY <3>1, <4>2
      <4> QED
        BY <4>1, <4>2
    <3> QED
      BY <3>2, <3>3, <3>4
  <2>4. TrueWays'
    BY <1>0, <2>2, <2>3 DEF TrueWays
  <2>5. FarOff'
    <3> SUFFICES ASSUME NEW e \in heap', NEW u \in Vertices, NEW i \in DOMAIN label'[u] PROVE label'[u][i][2] <= e[1]
      BY DEF FarOff
    <3>1. label'[u][i][2] <= d /\ d <= e[1] /\ e[1] \in Nat /\ label'[u][i][2] \in Nat /\ d \in Nat
      BY <2>1, <2>2, <2>3
    <3> QED
      BY <3>1
  <2> QED
    BY <2>4, <2>5
<1> QED
  BY <1>2, <1>3

LEMMA InOrderKept ==
  ASSUME NearInv, UNCHANGED <<csr, placed, searching>>, NEW d, NEW v, NEW f, Passes(d, v, f) \/ Settles(d, v, f)
  PROVE  InOrder'
<1>1. InOrder
  BY DEF NearInv
<1>2. CASE Passes(d, v, f)
  BY <1>1, <1>2 DEF InOrder, Passes
<1>3. CASE Settles(d, v, f)
  <2>1. /\ v \in Vertices /\ ~Full(v, f) /\ Len(label'[v]) = Len(label[v]) + 1 /\ Len(label[v]) \in Nat
        /\ DOMAIN label[v] = 1 .. Len(label[v]) /\ DOMAIN label'[v] = 1 .. Len(label[v]) + 1
        /\ (\A j \in 1 .. Len(label[v]) : label'[v][j] = label[v][j])
        /\ label'[v][Len(label[v]) + 1] = <<f, d>>
        /\ (\A i \in DOMAIN label[v] : label[v][i][2] <= d)
        /\ (\A u \in Vertices : u # v => label'[u] = label[u])
    BY <1>3 DEF Settles, Takes
  <2>2. Len(label'[v]) <= K
    <3>1. ~(Len(label[v]) >= K) /\ K \in Nat
      BY <2>1, NearConstants DEF Full
    <3> QED
      BY <2>1, <3>1
  <2>3. ASSUME NEW i \in DOMAIN label'[v], NEW j \in DOMAIN label'[v], i < j
        PROVE  label'[v][i][2] <= label'[v][j][2] /\ label'[v][i][1] # label'[v][j][1]
    <3>1. i \in 1 .. Len(label[v]) /\ (j \in 1 .. Len(label[v]) \/ j = Len(label[v]) + 1)
      BY <2>1, <2>3
    <3>2. CASE j \in 1 .. Len(label[v])
      <4>1. label'[v][i] = label[v][i] /\ label'[v][j] = label[v][j]
        BY <2>1, <3>1, <3>2
      <4>2. i \in DOMAIN label[v] /\ j \in DOMAIN label[v]
        BY <2>1, <3>1, <3>2
      <4>3. label[v][i][2] <= label[v][j][2] /\ label[v][i][1] # label[v][j][1]
        <5>1. \A a, b \in DOMAIN label[v] : a < b => label[v][a][2] <= label[v][b][2] /\ label[v][a][1] # label[v][b][1]
          BY <1>1, <2>1 DEF InOrder
        <5> QED
          BY <2>3, <4>2, <5>1
      <4> QED
        BY <4>1, <4>3
    <3>3. CASE j = Len(label[v]) + 1
      <4>1. label'[v][j] = <<f, d>> /\ label'[v][i] = label[v][i] /\ label[v][i][2] <= d
        BY <2>1, <3>1, <3>3
      <4>2. label[v][i][1] # f
        BY <2>1, <3>1 DEF Full, Settled
      <4> QED
        BY <4>1, <4>2
    <3> QED
      BY <3>1, <3>2, <3>3
  <2>4. ASSUME NEW u \in Vertices
        PROVE  /\ Len(label'[u]) <= K
               /\ \A i, j \in DOMAIN label'[u] : i < j => label'[u][i][2] <= label'[u][j][2] /\ label'[u][i][1] # label'[u][j][1]
    <3>1. CASE u = v
      BY <2>2, <2>3, <3>1
    <3>2. CASE u # v
      <4>1. label'[u] = label[u]
        BY <2>1, <3>2
      <4> QED
        BY <1>1, <4>1 DEF InOrder
    <3> QED
      BY <3>1, <3>2
  <2> QED
    BY <2>4 DEF InOrder
<1> QED
  BY <1>2, <1>3

LEMMA FollowedKept ==
  ASSUME NearInv, UNCHANGED <<csr, placed, searching>>, NEW d, NEW v, NEW f, Passes(d, v, f) \/ Settles(d, v, f)
  PROVE  Followed'
<1>0. GraphTypes /\ SearchTypes /\ Followed
  BY DEF NearInv
<1>1. searching # "none" =>
       \A g \in DOMAIN placed : placed[g][2] <= SnapMax /\ placed[g][2] <= WalkLimit => Comes(placed[g][1], g, placed[g][2])'
  <2> SUFFICES ASSUME searching # "none", NEW g \in DOMAIN placed, placed[g][2] <= SnapMax, placed[g][2] <= WalkLimit
               PROVE  Comes(placed[g][1], g, placed[g][2])'
    OBVIOUS
  <2>1. PICK u \in Vertices, x \in Nat : placed[g] = <<u, x>>
    BY <1>0 DEF GraphTypes
  <2>2. Comes(u, g, x)
    BY <1>0, <2>1 DEF Followed
  <2>3. Comes(u, g, x)'
    BY <2>2, GoesOnComing
  <2> QED
    BY <2>1, <2>3
<1>2. ASSUME NEW w \in Vertices, NEW i \in DOMAIN label'[w], NEW u \in Vertices,
             NEW g, g = label'[w][i][1], NEW x, x = label'[w][i][2] + csr[w][u], csr[w][u] > 0, x <= WalkLimit
      PROVE  Comes(u, g, x)'
  <2>1. csr[w][u] \in Nat
    BY <1>0 DEF GraphTypes
  <2>2. CASE i \in DOMAIN label[w] /\ label'[w][i] = label[w][i]
    <3>1. label[w][i][2] \in Nat
      BY <1>0, <2>2, LabelTypes
    <3>2. g = label[w][i][1] /\ x = label[w][i][2] + csr[w][u]
      BY <1>2, <2>2
    <3>3. x \in Nat
      BY <2>1, <3>1, <3>2
    <3>4. Comes(u, g, x)
      BY <1>0, <1>2, <2>2, <3>2 DEF Followed
    <3> QED
      BY <3>3, <3>4, GoesOnComing
  <2>3. CASE ~(i \in DOMAIN label[w] /\ label'[w][i] = label[w][i])
    <3>1. Settles(d, v, f)
      BY <2>3 DEF Passes
    <3>2. /\ v \in Vertices /\ ~Full(v, f) /\ d \in Nat /\ Len(label[v]) \in Nat
          /\ DOMAIN label[v] = 1 .. Len(label[v]) /\ DOMAIN label'[v] = 1 .. Len(label[v]) + 1
          /\ (\A j \in 1 .. Len(label[v]) : label'[v][j] = label[v][j])
          /\ label'[v][Len(label[v]) + 1] = <<f, d>>
          /\ (\A j \in DOMAIN label[u] : label[u][j][2] <= d)
          /\ (\A y \in Vertices : y # v => label'[y] = label[y])
          /\ heap' = (heap \ {<<d, v, f>>}) \cup Pushed(d, v, f)
      BY <3>1 DEF Settles, Takes
    <3>3. w = v /\ i = Len(label[v]) + 1
      <4>1. w = v
        BY <2>3, <3>2
      <4>2. i \in 1 .. Len(label[v]) + 1 /\ ~(i \in 1 .. Len(label[v]))
        <5>1. i \in 1 .. Len(label[v]) + 1
          BY <3>2, <4>1
        <5>2. ASSUME i \in 1 .. Len(label[v]) PROVE FALSE
          <6>1. i \in DOMAIN label[w] /\ label'[w][i] = label[w][i]
            BY <3>2, <4>1, <5>2
          <6> QED
            BY <2>3, <6>1
        <5> QED
          BY <5>1, <5>2
      <4> QED
        BY <3>2, <4>1, <4>2
    <3>4. label'[w][i] = <<f, d>>
      BY <3>2, <3>3
    <3>5. x = d + csr[v][u] /\ g = f
      BY <1>2, <3>3, <3>4
    <3>6. x \in Nat /\ d <= x /\ x <= WalkLimit
      <4>1. PICK c \in Nat : c = csr[v][u]
        BY <2>1, <3>3
      <4>2. x = d + c /\ d \in Nat
        BY <3>2, <3>5, <4>1
      <4> QED
        BY <1>2, <4>2
    <3>7. CASE ~Full(u, f)
      <4>1. <<x, u, f>> \in Pushed(d, v, f)
        BY <1>2, <3>3, <3>5, <3>6, <3>7 DEF Pushed
      <4> QED
        BY <3>2, <3>5, <4>1 DEF Comes
    <3>8. CASE Full(u, f)
      <4>1. u # v /\ label'[u] = label[u]
        BY <3>2, <3>8
      <4>2. \A j \in DOMAIN label[u] : label[u][j][2] <= x
        <5> TAKE j \in DOMAIN label[u]
        <5>1. label[u][j][2] \in Nat /\ label[u][j][2] <= d
          BY <1>0, <3>2, LabelTypes
        <5> QED
          BY <3>2, <3>6, <5>1
      <4>3. Len(label[u]) >= K \/ \E j \in DOMAIN label[u] : label[u][j][1] = f
        BY <3>8 DEF Full, Settled
      <4>4. Comes(u, f, x)'
        BY <4>1, <4>2, <4>3 DEF Comes
      <4> QED
        BY <3>5, <4>4
    <3> QED
      BY <3>7, <3>8
  <2> QED
    BY <2>2, <2>3
<1>3. \A w \in Vertices : \A i \in DOMAIN label'[w] : \A u \in Vertices : \A g, x :
        g = label'[w][i][1] /\ x = label'[w][i][2] + csr[w][u] /\ csr[w][u] > 0 /\ x <= WalkLimit => Comes(u, g, x)'
  BY <1>2
<1> HIDE DEF Comes
<1> QED
  BY <1>1, <1>3 DEF Followed

-----------------------------------------------------------------------------
LEMMA CsrIs ==
  ASSUME NEW edges \in Streets
  PROVE  ToCsr(edges) \in [Vertices -> [Vertices -> Nat]]
<1>1. edges \subseteq Vertices \X Vertices \X (Nat \ {0})
  BY NearestAssumption
<1>2. ASSUME NEW u, NEW v PROVE Lengths(edges, u, v) \in SUBSET Nat
  <2>1. \A e \in edges : e[3] \in Nat
    BY <1>1
  <2> QED
    BY <2>1 DEF Lengths
<1>3. ASSUME NEW u, NEW v PROVE (IF u = v \/ Lengths(edges, u, v) = {} THEN 0 ELSE Min(Lengths(edges, u, v))) \in Nat
  <2>1. PICK S : S = Lengths(edges, u, v)
    OBVIOUS
  <2>2. S # {} => Min(S) \in S
    BY <1>2, <2>1, LeastNat
  <2>3. S # {} => Min(S) \in Nat
    BY <1>2, <2>1, <2>2
  <2> QED
    BY <2>1, <2>3
<1> QED
  BY <1>3 DEF ToCsr

LEMMA InitNear == NearInit => NearInv
<1> SUFFICES ASSUME NearInit PROVE NearInv
  OBVIOUS
<1>1. /\ csr = [u \in Vertices |-> [v \in Vertices |-> 0]] /\ placed = <<>> /\ heap = {}
      /\ label = [v \in Vertices |-> <<>>] /\ searching = "none"
  BY DEF NearInit
<1>2. DOMAIN placed = {}
  BY <1>1
<1>3. IsFiniteSet({})
  BY FS_EmptySet
<1>4. GraphTypes
  BY <1>1, <1>2, <1>3 DEF GraphTypes
<1>5. \A v \in Vertices : label[v] = <<>> /\ DOMAIN label[v] = {} /\ Len(label[v]) = 0
  BY <1>1
<1>6. label \in [Vertices -> Seq((DOMAIN placed) \X Nat)]
  <2>1. PICK S : S = (DOMAIN placed) \X Nat
    OBVIOUS
  <2>2. <<>> \in Seq(S)
    OBVIOUS
  <2> QED
    BY <1>1, <2>1, <2>2
<1>7. SearchTypes
  BY <1>1, <1>5, <1>6 DEF SearchTypes
<1>8. TrueWays /\ FarOff /\ Followed
  BY <1>1, <1>2, <1>5 DEF TrueWays, FarOff, Followed
<1>9. InOrder
  BY <1>5, NearConstants DEF InOrder
<1> QED
  BY <1>4, <1>7, <1>8, <1>9 DEF NearInv

\* A facility is no farther from its vertex than it was placed.
LEMMA PlacesAreWays ==
  GraphTypes => \A f \in DOMAIN placed : placed[f][2] <= SnapMax /\ placed[f][2] <= WalkLimit
                                           => IsWay(f, placed[f][1], placed[f][2])
<1> SUFFICES ASSUME GraphTypes, NEW f \in DOMAIN placed, placed[f][2] <= SnapMax, placed[f][2] <= WalkLimit
             PROVE  Ways(f)[placed[f][1]] <= placed[f][2]
  BY DEF IsWay
<1>1. placed[f][1] \in Vertices
  BY DEF GraphTypes
<1>2. Ways(f)[placed[f][1]] <= Seeded(f)[placed[f][1]]
  BY <1>1, WaysAre DEF Shortest, NoLonger
<1>3. Seeded(f)[placed[f][1]] = placed[f][2]
  BY <1>1 DEF Seeded
<1> QED
  BY <1>2, <1>3

LEMMA BeginsNear ==
  ASSUME NearInv, NEW edges \in Streets, NEW p \in Placings, SearchBegins(edges, p)
  PROVE  NearInv'
<1>1. /\ searching = "none" /\ searching' = "on" /\ csr' = ToCsr(edges) /\ placed' = p /\ heap' = Seeds(p) /\ label' = label
  BY DEF SearchBegins
<1>2. DOMAIN p \in SUBSET Nat /\ IsFiniteSet(DOMAIN p) /\ \A f \in DOMAIN p : p[f] \in Vertices \X Nat
  BY NearestAssumption
<1>3. csr' \in [Vertices -> [Vertices -> Nat]]
  BY <1>1, CsrIs
<1>4. GraphTypes'
  BY <1>1, <1>2, <1>3 DEF GraphTypes
<1>5. \A v \in Vertices : label'[v] = <<>> /\ DOMAIN label'[v] = {} /\ Len(label'[v]) = 0
  BY <1>1 DEF NearInv, SearchTypes
<1>6. \A e \in Seeds(p) : \E f \in DOMAIN p : e = <<p[f][2], p[f][1], f>> /\ p[f][2] <= SnapMax /\ p[f][2] <= WalkLimit
  BY DEF Seeds
<1>7. \A f \in DOMAIN p : p[f][2] <= SnapMax /\ p[f][2] <= WalkLimit => <<p[f][2], p[f][1], f>> \in Seeds(p)
  BY DEF Seeds
<1>8. SearchTypes'
  <2>1. heap' \in SUBSET (Nat \X Vertices \X (DOMAIN placed'))
    BY <1>1, <1>2, <1>6
  <2>2. label' \in [Vertices -> Seq((DOMAIN placed') \X Nat)]
    <3>1. PICK S : S = (DOMAIN placed') \X Nat
      OBVIOUS
    <3>2. <<>> \in Seq(S)
      OBVIOUS
    <3>3. DOMAIN label' = Vertices /\ label' = [v \in Vertices |-> label'[v]]
      BY <1>1 DEF NearInv, SearchTypes
    <3> QED
      BY <1>5, <3>1, <3>2, <3>3
  <2> QED
    BY <1>1, <2>1, <2>2 DEF SearchTypes
<1>9. TrueWays'
  <2>1. (GraphTypes => \A f \in DOMAIN placed : placed[f][2] <= SnapMax /\ placed[f][2] <= WalkLimit
                                           => IsWay(f, placed[f][1], placed[f][2]))'
    BY PlacesAreWays, PTL
  <2>2. \A f \in DOMAIN placed' : placed'[f][2] <= SnapMax /\ placed'[f][2] <= WalkLimit
                                           => IsWay(f, placed[f][1], placed[f][2])'
    BY <1>4, <2>1
  <2> QED
    BY <1>1, <1>5, <1>6, <2>2 DEF TrueWays, IsWay
<1>10. FarOff'
  BY <1>5 DEF FarOff
<1>11. InOrder'
  BY <1>5, NearConstants DEF InOrder
<1>12. Followed'
  BY <1>1, <1>5, <1>7 DEF Followed, Comes
<1> QED
  BY <1>4, <1>8, <1>9, <1>10, <1>11, <1>12 DEF NearInv

LEMMA NextNear == NearInv /\ [NearNext]_nearVars => NearInv'
<1> SUFFICES ASSUME NearInv, [NearNext]_nearVars PROVE NearInv'
  OBVIOUS
<1>1. CASE Pop
  <2>1. UNCHANGED <<csr, placed, searching>> /\ searching = "on"
    BY <1>1, PopIs
  <2>2. PICK d, v, f : Passes(d, v, f) \/ Settles(d, v, f)
    BY <1>1, PopIs
  <2> QED
    BY <2>1, <2>2, SearchTypesKept, TrueWaysKept, InOrderKept, FollowedKept DEF NearInv
<1>2. CASE SearchEnds \/ UNCHANGED nearVars
  <2>1. csr' = csr /\ placed' = placed /\ heap' = heap /\ label' = label
    BY <1>2 DEF SearchEnds, nearVars
  <2>8. (searching = "none" <=> searching' = "none") /\ (searching' # "on" => heap' = {}) /\ searching' \in {"none", "on", "over"}
    BY <1>2 DEF SearchEnds, nearVars, NearInv, SearchTypes
  <2>2. GraphTypes' /\ InOrder' /\ FarOff'
    BY <2>1, <2>8 DEF NearInv, GraphTypes, InOrder, FarOff
  <2>3. SearchTypes'
    BY <2>1, <2>8 DEF NearInv, SearchTypes
  <2>4. \A f, v, d : IsWay(f, v, d)' <=> IsWay(f, v, d)
    BY <2>1, WaysStay DEF IsWay
  <2>5. TrueWays'
    BY <2>1, <2>4 DEF NearInv, TrueWays
  <2>6. \A v, f, d : Comes(v, f, d)' <=> Comes(v, f, d)
    BY <2>1 DEF Comes
  <2>7. Followed'
    <3> HIDE DEF Comes
    <3> QED
      BY <2>1, <2>6, <2>8 DEF NearInv, Followed
  <2> QED
    BY <2>2, <2>3, <2>5, <2>7 DEF NearInv
<1>3. CASE \E edges \in Streets, p \in Placings : SearchBegins(edges, p)
  BY <1>3, BeginsNear
<1> QED
  BY <1>1, <1>2, <1>3 DEF NearNext

\* At every moment of every search (walk/ksource.py:15-60) what is settled and what
\* waits is true, in order, and leaves nothing behind: NearInv is invariant.
THEOREM NearInvariant == NearSpec => []NearInv
<1> QED
  BY InitNear, NextNear, PTL DEF NearSpec

-----------------------------------------------------------------------------
(* When the search is over. *)

\* What fits one by one into a finite set is no more than it.
LEMMA FewerIn ==
  ASSUME NEW S, IsFiniteSet(S), NEW T, IsFiniteSet(T), NEW h \in [S -> T], \A x, y \in S : h[x] = h[y] => x = y
  PROVE  Cardinality(S) \in Nat /\ Cardinality(T) \in Nat /\ Cardinality(S) <= Cardinality(T)
<1>1. Cardinality(S) \in Nat /\ Cardinality(T) \in Nat
  BY FS_CardinalityType
<1>2. ~(Cardinality(S) > Cardinality(T))
  BY FS_PigeonHole
<1> QED
  BY <1>1, <1>2

LEMMA UpTo ==
  ASSUME NEW b \in Nat
  PROVE  IsFiniteSet(1 .. b) /\ Cardinality(1 .. b) = b
BY FS_Interval

\* A shorter sequence, of the first elements.
LEMMA OnlyPrefix ==
  ASSUME NEW S, NEW s \in Seq(S), NEW X, \A i, j \in DOMAIN s : i < j /\ s[j] \in X => s[i] \in X
  PROVE  IsPrefix(Only(s, X), s)
<1> DEFINE I == {i \in DOMAIN s : s[i] \in X}
           n == Cardinality(I)
           At(j) == CHOOSE i \in I : Rank(I)[i] = j - 1
<1>1. Len(s) \in Nat /\ DOMAIN s = 1 .. Len(s) /\ I \in SUBSET (1 .. Len(s)) /\ I \in SUBSET Int
  OBVIOUS
<1>2. IsFiniteSet(1 .. Len(s)) /\ Cardinality(1 .. Len(s)) = Len(s)
  BY <1>1, UpTo
<1>3. IsFiniteSet(I) /\ n <= Len(s)
  <2>1. PICK P, L : P = 1 .. L /\ L = Len(s)
    OBVIOUS
  <2>2. I \in SUBSET P /\ IsFiniteSet(P) /\ Cardinality(P) = L
    BY <1>1, <1>2, <2>1
  <2> HIDE DEF I
  <2>3. IsFiniteSet(I) /\ Cardinality(I) <= L
    BY <2>2, FS_Subset
  <2> QED
    BY <2>1, <2>3
<1>4. Only(s, X) = [j \in 1 .. n |-> s[At(j)]]
  BY DEF Only
<1>5. \A i : i \in I <=> i \in 1 .. Len(s) /\ s[i] \in X
  BY <1>1
<1>6. Only(s, X) \in Seq(S)
  BY OnlySet
<1> HIDE DEF I
<1>7. /\ n \in Nat /\ \A r \in 0 .. n - 1 : \E i \in I : Rank(I)[i] = r
  BY <1>1, <1>3, RankNumbers
<1>8. ASSUME NEW i \in I PROVE Rank(I)[i] = i - 1
  <2>1. i \in Nat /\ i \in 1 .. Len(s)
    BY <1>1, <1>5
  <2>2. \A k : k \in I /\ k < i <=> k \in 1 .. i - 1
    <3>1. ASSUME NEW k \in I, k < i PROVE k \in 1 .. i - 1
      <4>1. k \in 1 .. Len(s)
        BY <1>5
      <4> QED
        BY <2>1, <3>1, <4>1
    <3>2. ASSUME NEW k \in 1 .. i - 1 PROVE k \in I /\ k < i
      <4>1. k \in 1 .. Len(s) /\ k < i
        BY <1>1, <2>1
      <4> QED
        BY <1>1, <1>5, <2>1, <4>1
    <3> QED
      BY <3>1, <3>2
  <2>3. {k \in I : k < i} = 1 .. i - 1
    BY <2>2
  <2>4. Cardinality(1 .. i - 1) = i - 1
    <3>1. i - 1 \in Nat
      BY <2>1
    <3> QED
      BY <3>1, UpTo
  <2> QED
    BY <2>3, <2>4 DEF Rank
<1>9. ASSUME NEW j \in 1 .. n PROVE At(j) = j
  <2>1. j - 1 \in 0 .. n - 1
    BY <1>7
  <2>2. \E i \in I : Rank(I)[i] = j - 1
    BY <1>7, <2>1
  <2>3. At(j) \in I /\ Rank(I)[At(j)] = j - 1
    BY <2>2
  <2> HIDE DEF At
  <2>4. PICK a \in I : a = At(j) /\ Rank(I)[a] = j - 1
    BY <2>3
  <2>5. a - 1 = j - 1 /\ a \in Int /\ j \in Int
    BY <1>1, <1>7, <1>8, <2>4
  <2>6. a = j
    BY <2>5
  <2> QED
    BY <2>4, <2>6
<1> HIDE DEF n, At
<1>10. Len(Only(s, X)) = n /\ \A j \in 1 .. n : Only(s, X)[j] = s[j]
  BY <1>4, <1>6, <1>7, <1>9
<1> QED
  BY <1>3, <1>6, <1>10, PrefixAt

LEMMA ComesAtLast ==
  ASSUME heap = {}, NEW v, NEW f, NEW d
  PROVE  Comes(v, f, d) <=> \/ \E i \in DOMAIN label[v] : label[v][i][1] = f /\ label[v][i][2] <= d
                            \/ Len(label[v]) >= K /\ \A i \in DOMAIN label[v] : label[v][i][2] <= d
BY DEF Comes

LEMMA ComesLater ==
  ASSUME SearchTypes, heap = {}, NEW v \in Vertices, NEW f, NEW d \in Nat, NEW e \in Nat, d <= e, Comes(v, f, d)
  PROVE  Comes(v, f, e)
<1>1. \A i \in DOMAIN label[v] : label[v][i][2] \in Nat
  BY LabelTypes
<1>2. \A i \in DOMAIN label[v] : label[v][i][2] <= d => label[v][i][2] <= e
  BY <1>1
<1> QED
  BY <1>2, ComesAtLast

\* What a full vertex passes on fills the next.
LEMMA FullPassesOn ==
  ASSUME SearchTypes, InOrder, NEW u \in Vertices, NEW v \in Vertices, NEW d \in Nat, Len(label[u]) >= K,
         \A i \in DOMAIN label[u] : \E j \in DOMAIN label[v] : label[v][j][1] = label[u][i][1] /\ label[v][j][2] <= d
  PROVE  Len(label[v]) >= K /\ \A i \in DOMAIN label[v] : label[v][i][2] <= d
<1>1. PICK s, t : s = label[u] /\ t = label[v]
  OBVIOUS
<1>2. PICK m \in Nat, n \in Nat : m = Len(s) /\ n = Len(t) /\ DOMAIN s = 1 .. m /\ DOMAIN t = 1 .. n
  BY <1>1, LabelTypes
<1>3. m >= K /\ n <= K /\ K \in Nat
  BY <1>1, <1>2, NearConstants DEF InOrder
<1>4. \A i, j \in 1 .. m : s[i][1] = s[j][1] => i = j
  <2> TAKE i, j \in 1 .. m
  <2>1. i < j \/ j < i \/ i = j
    OBVIOUS
  <2>2. \A k, l \in 1 .. m : k < l => s[k][1] # s[l][1]
    <3>1. PICK D : D = DOMAIN label[u]
      OBVIOUS
    <3>2. \A k, l \in D : k < l => s[k][1] # s[l][1]
      BY <1>1, <3>1 DEF InOrder
    <3>3. D = 1 .. m
      BY <1>1, <1>2, <3>1
    <3> QED
      BY <3>2, <3>3
  <2> QED
    BY <2>1, <2>2
<1>5. \A i \in 1 .. m : \E j \in 1 .. n : t[j][1] = s[i][1] /\ t[j][2] <= d
  BY <1>1, <1>2
<1> DEFINE J == {j \in 1 .. n : t[j][2] <= d}
           h == [i \in 1 .. m |-> CHOOSE j \in J : t[j][1] = s[i][1]]
<1>6. \A i \in 1 .. m : h[i] \in J /\ t[h[i]][1] = s[i][1]
  <2> TAKE i \in 1 .. m
  <2>1. \E j \in J : t[j][1] = s[i][1]
    BY <1>5
  <2>2. h[i] = CHOOSE j \in J : t[j][1] = s[i][1]
    OBVIOUS
  <2> HIDE DEF J, h
  <2> QED
    BY <2>1, <2>2
<1>7. J \in SUBSET (1 .. n) /\ DOMAIN h = 1 .. m /\ h = [i \in 1 .. m |-> h[i]]
  OBVIOUS
<1>8. \A j \in 1 .. n : j \in J => t[j][2] <= d
  OBVIOUS
<1> HIDE DEF J, h
<1>9. h \in [1 .. m -> J] /\ \A i, j \in 1 .. m : h[i] = h[j] => i = j
  BY <1>4, <1>6, <1>7
<1>10. IsFiniteSet(1 .. m) /\ Cardinality(1 .. m) = m /\ IsFiniteSet(1 .. n) /\ Cardinality(1 .. n) = n
  BY UpTo
<1>11. IsFiniteSet(J) /\ Cardinality(J) <= n /\ (Cardinality(J) = n => J = 1 .. n)
  BY <1>7, <1>10, FS_Subset
<1>12. m <= Cardinality(J) /\ Cardinality(J) \in Nat
  BY <1>9, <1>10, <1>11, FewerIn
<1>13. n = K /\ J = 1 .. n
  <2>1. PICK c \in Nat : c = Cardinality(J)
    BY <1>12
  <2>2. m <= c /\ c <= n
    BY <1>11, <1>12, <2>1
  <2>3. c = n /\ n = K
    BY <1>3, <2>2
  <2> QED
    BY <1>11, <2>1, <2>3
<1>14. \A i \in 1 .. n : t[i][2] <= d
  BY <1>8, <1>13
<1> QED
  BY <1>1, <1>2, <1>3, <1>13, <1>14

\* In the end every facility has come to every vertex within the limit, by its
\* shortest way: that of least length to which one has not would come by one that has.
LEMMA AllCome ==
  ASSUME NearInv, searching = "over", NEW f \in DOMAIN placed, NEW v \in Vertices, Ways(f)[v] <= WalkLimit
  PROVE  Comes(v, f, Ways(f)[v])
<1>0. GraphTypes /\ SearchTypes /\ InOrder /\ Followed /\ heap = {}
  BY DEF NearInv, SearchTypes
<1>1. PICK m \in [Vertices -> Nat] : m = Ways(f) /\ Shortest(Seeded(f), m)
  BY <1>0, WaysAre
<1> DEFINE Missed == {w \in Vertices : m[w] <= WalkLimit /\ ~Comes(w, f, m[w])}
           Lens == {m[w] : w \in Missed}
<1>2. SUFFICES Missed = {}
  BY <1>1
<1>3. SUFFICES ASSUME Missed # {} PROVE FALSE
  OBVIOUS
<1>4. Lens \in SUBSET Nat /\ Lens # {}
  <2>1. \A w \in Missed : m[w] \in Nat
    OBVIOUS
  <2> HIDE DEF Missed
  <2> QED
    BY <1>3, <2>1
<1>5. PICK least \in Lens : \A l \in Lens : least <= l
  <2> HIDE DEF Lens
  <2> QED
    BY <1>4, LeastNat
<1>6. PICK w \in Missed : least = m[w]
  OBVIOUS
<1>7. \A u \in Vertices : m[u] <= WalkLimit /\ ~(m[w] <= m[u]) => Comes(u, f, m[u])
  <2> HIDE DEF Comes
  <2> QED
    BY <1>5, <1>6
<1>8. w \in Vertices /\ m[w] <= WalkLimit /\ ~Comes(w, f, m[w]) /\ m[w] \in Nat /\ WalkLimit \in Nat
  <2> HIDE DEF Comes
  <2> QED
    BY <1>6, NearConstants
<1> HIDE DEF Missed, Lens, Comes
<1>9. CASE m[w] = Seeded(f)[w]
  <2>1. w = placed[f][1] /\ placed[f][2] <= SnapMax /\ m[w] = placed[f][2]
    <3>1. Seeded(f)[w] = IF w = placed[f][1] /\ placed[f][2] <= SnapMax THEN placed[f][2] ELSE WalkLimit + 1
      BY <1>8 DEF Seeded, Far
    <3>2. m[w] # WalkLimit + 1
      BY <1>8
    <3> QED
      BY <1>9, <3>1, <3>2
  <2>2. placed[f][2] <= WalkLimit
    BY <1>8, <2>1
  <2> QED
    BY <1>0, <1>8, <2>1, <2>2 DEF Followed
<1>10. CASE \E u \in Vertices : csr[u][w] > 0 /\ m[w] = m[u] + csr[u][w]
  <2>1. PICK u \in Vertices : csr[u][w] > 0 /\ m[w] = m[u] + csr[u][w]
    BY <1>10
  <2>2. PICK c \in Nat, x \in Nat, y \in Nat : c = csr[u][w] /\ x = m[u] /\ y = m[w]
    BY <1>0, <1>8 DEF GraphTypes
  <2>3. c > 0 /\ y = x + c /\ y <= WalkLimit /\ x <= WalkLimit /\ ~(y <= x)
    BY <1>8, <2>1, <2>2
  <2>4. Comes(u, f, x)
    BY <1>7, <2>2, <2>3
  <2>5. ASSUME NEW i \in DOMAIN label[u], label[u][i][2] <= x
        PROVE  Comes(w, label[u][i][1], y)
    <3>1. PICK l \in Nat : l = label[u][i][2]
      BY <1>0, LabelTypes
    <3>2. l + c \in Nat /\ l + c <= y /\ l + c <= WalkLimit
      BY <1>8, <2>3, <2>5, <3>1
    <3>3. Comes(w, label[u][i][1], l + c)
      BY <1>0, <1>8, <2>2, <2>3, <3>1, <3>2 DEF Followed
    <3> QED
      BY <1>0, <1>8, <3>2, <3>3, ComesLater
  <2>6. CASE \E i \in DOMAIN label[u] : label[u][i][1] = f /\ label[u][i][2] <= x
    BY <1>8, <2>2, <2>5, <2>6
  <2>7. CASE Len(label[u]) >= K /\ \A i \in DOMAIN label[u] : label[u][i][2] <= x
    <3>1. ~(Len(label[w]) >= K /\ \A i \in DOMAIN label[w] : label[w][i][2] <= y)
      BY <1>0, <1>8, <2>2, ComesAtLast
    <3>2. \A i \in DOMAIN label[u] : \E j \in DOMAIN label[w] : label[w][j][1] = label[u][i][1] /\ label[w][j][2] <= y
      BY <1>0, <2>5, <2>7, <3>1, ComesAtLast
    <3> QED
      BY <1>0, <1>8, <2>7, <3>1, <3>2, FullPassesOn
  <2> QED
    BY <1>0, <2>4, <2>6, <2>7, ComesAtLast
<1> QED
  BY <1>1, <1>8, <1>9, <1>10 DEF Shortest

\* What is settled at a vertex in the end: its facilities are all within the
\* limit, each at its true distance, and none that is missing is nearer.
LEMMA SettledAtLast ==
  ASSUME NearInv, searching = "over", NEW v \in Vertices
  PROVE  /\ \A i \in DOMAIN label[v] : label[v][i][1] \in Within(v) /\ label[v][i][2] = Ways(label[v][i][1])[v]
         /\ \A f \in Within(v) : \/ \E i \in DOMAIN label[v] : label[v][i][1] = f
                                 \/ Len(label[v]) = K /\ \A i \in DOMAIN label[v] : label[v][i][2] <= Ways(f)[v]
<1>0. GraphTypes /\ SearchTypes /\ InOrder /\ TrueWays /\ heap = {}
  BY DEF NearInv, SearchTypes
<1>1. \A f \in DOMAIN placed : Ways(f)[v] \in Nat
  BY <1>0, WaysAre
<1>2. Len(label[v]) \in Nat /\ Len(label[v]) <= K /\ K \in Nat /\ WalkLimit \in Nat
  BY <1>0, LabelTypes, NearConstants DEF InOrder
<1>3. ASSUME NEW i \in DOMAIN label[v]
      PROVE  label[v][i][1] \in Within(v) /\ label[v][i][2] = Ways(label[v][i][1])[v]
  <2>1. PICK f, l : f = label[v][i][1] /\ l = label[v][i][2]
    OBVIOUS
  <2>2. f \in DOMAIN placed /\ l \in Nat
    BY <1>0, <2>1, LabelTypes
  <2>3. Ways(f)[v] <= l /\ l <= WalkLimit
    BY <1>0, <2>1 DEF TrueWays, IsWay
  <2>4. PICK w \in Nat : w = Ways(f)[v]
    BY <1>1, <2>2
  <2>5. w <= WalkLimit
    BY <1>2, <2>2, <2>3, <2>4
  <2>6. Comes(v, f, w)
    BY <2>2, <2>4, <2>5, AllCome
  <2>7. l <= w
    <3>1. CASE \E j \in DOMAIN label[v] : label[v][j][1] = f /\ label[v][j][2] <= w
      <4>1. PICK j \in DOMAIN label[v] : label[v][j][1] = f /\ label[v][j][2] <= w
        BY <3>1
      <4>2. i \in Nat /\ j \in Nat
        BY <1>0, LabelTypes
      <4>3. i < j \/ j < i \/ i = j
        BY <4>2
      <4> QED
        BY <1>0, <2>1, <4>1, <4>3 DEF InOrder
    <3>2. CASE \A j \in DOMAIN label[v] : label[v][j][2] <= w
      BY <2>1, <3>2
    <3> QED
      BY <1>0, <2>6, <3>1, <3>2, ComesAtLast
  <2>8. l = w
    BY <2>2, <2>3, <2>4, <2>7
  <2> QED
    BY <2>1, <2>2, <2>4, <2>5, <2>8 DEF Within
<1>4. ASSUME NEW f \in Within(v)
      PROVE  \/ \E i \in DOMAIN label[v] : label[v][i][1] = f
             \/ Len(label[v]) = K /\ \A i \in DOMAIN label[v] : label[v][i][2] <= Ways(f)[v]
  <2>1. f \in DOMAIN placed /\ Ways(f)[v] <= WalkLimit
    BY DEF Within
  <2>2. Comes(v, f, Ways(f)[v])
    BY <2>1, AllCome
  <2> QED
    BY <1>0, <1>2, <2>2, ComesAtLast
<1> QED
  BY <1>3, <1>4

\* Who precedes whom orders the facilities at a vertex, so that each has a number.
Ahead(v) == [f \in Within(v) |-> {g \in Within(v) : Precedes(v, g, f)}]
LEMMA AheadIs ==
  ASSUME GraphTypes, NEW v \in Vertices
  PROVE  /\ IsFiniteSet(Within(v)) /\ Cardinality(Within(v)) \in Nat
         /\ \A f \in Within(v) : f \in Nat /\ Ways(f)[v] \in Nat
         /\ \A r \in 0 .. Cardinality(Within(v)) - 1 : \E f \in Within(v) : Cardinality(Ahead(v)[f]) = r
<1>1. Within(v) \in SUBSET (DOMAIN placed) /\ IsFiniteSet(DOMAIN placed)
  BY DEF Within, GraphTypes
<1>2. PICK W : W = Within(v)
  OBVIOUS
<1>3. IsFiniteSet(W)
  BY <1>1, <1>2, FS_Subset
<1>4. \A f \in W : f \in Nat /\ Ways(f)[v] \in Nat
  BY <1>1, <1>2, WaysAre DEF GraphTypes
<1>5. PICK B : B = Ahead(v)
  OBVIOUS
<1>6. \A f \in W : \A g : g \in B[f] <=> g \in W /\ Precedes(v, g, f)
  BY <1>2, <1>5 DEF Ahead
<1>7. PICK w : \A f \in W : w[f] = Ways(f)[v]
  <2>1. \A f \in W : [g \in W |-> Ways(g)[v]][f] = Ways(f)[v]
    OBVIOUS
  <2> QED
    BY <2>1
<1>8. \A f, g \in W : Precedes(v, g, f) <=> w[g] < w[f] \/ (w[g] = w[f] /\ g < f)
  BY <1>7 DEF Precedes
<1>9. \A f \in W : f \in Nat /\ w[f] \in Nat
  BY <1>4, <1>7
<1>10. \A f \in W : B[f] \in SUBSET W /\ f \notin B[f]
  BY <1>6, <1>8, <1>9
<1>11. \A f, g \in W : f # g => f \in B[g] \/ g \in B[f]
  BY <1>6, <1>8, <1>9
<1>12. \A f, g \in W : f \in B[g] => B[f] \subseteq B[g]
  <2> TAKE f, g \in W
  <2> HAVE f \in B[g]
  <2>1. ASSUME NEW h \in W, Precedes(v, h, f) PROVE Precedes(v, h, g)
    <3>1. Precedes(v, f, g)
      BY <1>6
    <3> QED
      BY <1>8, <1>9, <2>1, <3>1
  <2> QED
    BY <1>6, <2>1
<1>13. Cardinality(W) \in Nat /\ \A r \in 0 .. Cardinality(W) - 1 : \E f \in W : Cardinality(B[f]) = r
  BY <1>3, <1>10, <1>11, <1>12, Numbered
<1> QED
  BY <1>2, <1>3, <1>4, <1>5, <1>13

\* As many facilities are settled at a vertex as there are, or as it takes.
LEMMA SettledCount ==
  ASSUME NearInv, searching = "over", NEW v \in Vertices
  PROVE  /\ Len(label[v]) = Min({K, Cardinality(Within(v))}) /\ Cardinality(Settled(v)) = Len(label[v])
         /\ Len(label[v]) \in Nat /\ Len(label[v]) <= Cardinality(Within(v))
<1>0. GraphTypes /\ SearchTypes /\ InOrder
  BY DEF NearInv
<1>1. PICK s : s = label[v]
  OBVIOUS
<1>2. PICK n \in Nat : n = Len(s) /\ DOMAIN s = 1 .. n
  BY <1>0, <1>1, LabelTypes
<1>3. n <= K /\ K \in Nat
  BY <1>0, <1>1, <1>2, NearConstants DEF InOrder
<1>4. PICK W, w : W = Within(v) /\ w = Cardinality(W)
  OBVIOUS
<1>5. IsFiniteSet(W) /\ w \in Nat
  BY <1>0, <1>4, AheadIs
<1>6. PICK h : h = [i \in 1 .. n |-> s[i][1]]
  OBVIOUS
<1>7. PICK F : F = Settled(v)
  OBVIOUS
<1>8. \A g : g \in F <=> \E i \in 1 .. n : g = h[i]
  BY <1>1, <1>2, <1>6, <1>7 DEF Settled
<1>9. \A i \in 1 .. n : h[i] \in W
  BY <1>1, <1>2, <1>4, <1>6, SettledAtLast
<1>10. \A i, j \in 1 .. n : h[i] = h[j] => i = j
  <2> TAKE i, j \in 1 .. n
  <2>1. i < j \/ j < i \/ i = j
    OBVIOUS
  <2>2. \A k, l \in 1 .. n : k < l => s[k][1] # s[l][1]
    BY <1>0, <1>1, <1>2 DEF InOrder
  <2> QED
    BY <1>6, <2>1, <2>2
<1>11. IsFiniteSet(1 .. n) /\ Cardinality(1 .. n) = n
  BY UpTo
<1>12. F \in SUBSET W
  BY <1>8, <1>9
<1>13. Cardinality(F) = n
  <2>1. h \in Surjection(1 .. n, F) /\ h \in Injection(1 .. n, F)
    BY <1>6, <1>8, <1>10 DEF Surjection, Injection, IsInjective
  <2> QED
    BY <1>11, <2>1, FS_Surjection
<1>14. n <= w
  BY <1>4, <1>5, <1>12, <1>13, FS_Subset
<1>15. n = K \/ n = w
  <2> SUFFICES ASSUME n # K PROVE n = w
    OBVIOUS
  <2>1. \A f \in W : \E i \in 1 .. n : s[i][1] = f
    BY <1>1, <1>2, <1>4, SettledAtLast
  <2>2. W \subseteq F
    BY <1>6, <1>8, <2>1
  <2>3. W = F
    BY <1>12, <2>2
  <2> QED
    BY <1>4, <1>13, <2>3
<1>16. Min({K, w}) = n
  <2>1. Min({K, w}) = IF K <= w THEN K ELSE w
    BY <1>3, <1>5, MinOfTwo
  <2> QED
    BY <1>3, <1>5, <1>14, <1>15, <2>1
<1> QED
  BY <1>1, <1>2, <1>4, <1>7, <1>13, <1>14, <1>16

\* The i-th of what is settled is as far as the i-th nearest facility: nearer,
\* i facilities would precede one that i - 1 precede; farther, i facilities would
\* be among the i - 1 before it.
LEMMA SettledNearest ==
  ASSUME NearInv, searching = "over", NEW v \in Vertices, NEW i \in DOMAIN label[v]
  PROVE  label[v][i][2] = Ways(NthNearest(v, i))[v]
<1>0. GraphTypes /\ SearchTypes /\ InOrder
  BY DEF NearInv
<1>1. PICK s : s = label[v]
  OBVIOUS
<1>2. PICK n \in Nat : n = Len(s) /\ DOMAIN s = 1 .. n
  BY <1>0, <1>1, LabelTypes
<1>3. PICK W : W = Within(v)
  OBVIOUS
<1>4. i \in 1 .. n /\ n <= Cardinality(W) /\ Cardinality(W) \in Nat
  BY <1>0, <1>1, <1>2, <1>3, AheadIs, SettledCount
<1>5. PICK B : B = Ahead(v)
  OBVIOUS
<1>6. \A f \in W : B[f] = {g \in W : Precedes(v, g, f)}
  BY <1>3, <1>5 DEF Ahead
<1>7. PICK g : g = NthNearest(v, i)
  OBVIOUS
<1>8. g \in W /\ Cardinality(B[g]) = i - 1
  <2>1. i - 1 \in 0 .. Cardinality(W) - 1
    BY <1>4
  <2>2. PICK f \in W : Cardinality(B[f]) = i - 1
    BY <1>0, <1>3, <1>5, <2>1, AheadIs
  <2>3. \E x \in Within(v) : Cardinality({y \in Within(v) : Precedes(v, y, x)}) = i - 1
    BY <1>3, <1>6, <2>2
  <2>4. g \in Within(v) /\ Cardinality({y \in Within(v) : Precedes(v, y, g)}) = i - 1
    <3>1. g = CHOOSE x \in Within(v) : Cardinality({y \in Within(v) : Precedes(v, y, x)}) = i - 1
      BY <1>7 DEF NthNearest
    <3> QED
      BY <2>3, <3>1, Zenon
  <2> QED
    BY <1>3, <1>6, <2>4
<1>9. PICK w : w = [f \in W |-> Ways(f)[v]]
  OBVIOUS
<1>10. IsFiniteSet(W) /\ \A f \in W : f \in Nat /\ w[f] \in Nat /\ w[f] = Ways(f)[v]
  BY <1>0, <1>3, <1>9, AheadIs
<1>11. \A f \in W : f \in B[g] <=> w[f] < w[g] \/ (w[f] = w[g] /\ f < g)
  BY <1>6, <1>8, <1>10 DEF Precedes
<1>12. \A j \in 1 .. n : s[j][1] \in W /\ s[j][2] = w[s[j][1]] /\ s[j][2] \in Nat
  BY <1>1, <1>2, <1>3, <1>10, SettledAtLast
<1>13. \A f \in W : (\E j \in 1 .. n : s[j][1] = f) \/ \A j \in 1 .. n : s[j][2] <= w[f]
  BY <1>1, <1>2, <1>3, <1>10, SettledAtLast
<1>14. \A j, k \in 1 .. n : j < k => s[j][2] <= s[k][2] /\ s[j][1] # s[k][1]
  BY <1>0, <1>1, <1>2 DEF InOrder
<1>15. i \in Nat /\ \A j \in 1 .. i : j \in 1 .. n /\ (j < i \/ j = i)
  BY <1>4
<1>16. B[g] \in SUBSET W /\ g \notin B[g]
  <2>1. g \notin B[g]
    BY <1>8, <1>10, <1>11
  <2> QED
    BY <1>6, <1>8, <2>1
<1>17. IsFiniteSet(B[g])
  BY <1>10, <1>16, FS_Subset
<1>18. ASSUME s[i][2] < w[g] PROVE FALSE
  <2> DEFINE h == [j \in 1 .. i |-> s[j][1]]
  <2>1. ASSUME NEW j \in 1 .. i PROVE h[j] \in B[g]
    <3>1. s[j][2] <= s[i][2] /\ s[j][2] \in Nat /\ s[i][2] \in Nat /\ w[g] \in Nat
      BY <1>4, <1>8, <1>10, <1>12, <1>14, <1>15
    <3>2. s[j][2] < w[g]
      BY <1>18, <3>1
    <3> QED
      BY <1>11, <1>12, <1>15, <3>2
  <2>2. \A j, k \in 1 .. i : h[j] = h[k] => j = k
    <3> TAKE j, k \in 1 .. i
    <3>1. j < k \/ k < j \/ j = k
      BY <1>15
    <3> QED
      BY <1>14, <1>15, <3>1
  <2>3. h \in [1 .. i -> B[g]]
    BY <2>1
  <2>4. IsFiniteSet(1 .. i) /\ Cardinality(1 .. i) = i
    BY <1>15, UpTo
  <2> HIDE DEF h
  <2>5. PICK C, D : C = B[g] /\ D = 1 .. i
    OBVIOUS
  <2>6. Cardinality(D) <= Cardinality(C)
    <3>1. h \in [D -> C] /\ IsFiniteSet(C) /\ IsFiniteSet(D) /\ \A j, k \in D : h[j] = h[k] => j = k
      BY <1>17, <2>2, <2>3, <2>4, <2>5
    <3> QED
      BY <3>1, FewerIn
  <2>7. Cardinality(D) = i /\ Cardinality(C) = i - 1
    BY <1>8, <2>4, <2>5
  <2> QED
    BY <1>15, <2>6, <2>7
<1>19. ASSUME w[g] < s[i][2] PROVE FALSE
  <2> DEFINE S == B[g] \cup {g}
             h == [f \in S |-> CHOOSE j \in 1 .. i - 1 : s[j][1] = f]
  <2>1. IsFiniteSet(S) /\ Cardinality(S) = (i - 1) + 1 /\ S \in SUBSET W
    BY <1>8, <1>16, <1>17, FS_AddElement
  <2>2. ASSUME NEW f \in S PROVE h[f] \in 1 .. i - 1 /\ s[h[f]][1] = f
    <3>1. f \in W /\ w[f] <= w[g] /\ w[f] \in Nat /\ w[g] \in Nat /\ s[i][2] \in Nat
      <4>1. f \in W /\ (f = g \/ f \in B[g])
        BY <1>8, <2>1
      <4> QED
        BY <1>4, <1>8, <1>10, <1>11, <1>12, <4>1
    <3>2. w[f] < s[i][2]
      BY <1>19, <3>1
    <3>3. ~(s[i][2] <= w[f])
      BY <3>1, <3>2
    <3>4. PICK j \in 1 .. n : s[j][1] = f
      BY <1>4, <1>13, <3>1, <3>3
    <3>5. s[j][2] = w[f]
      BY <1>12, <3>4
    <3>6. ~(s[i][2] <= s[j][2])
      BY <3>3, <3>5
    <3>7. j \in 1 .. i - 1
      <4>1. j # i /\ ~(i < j)
        BY <1>4, <1>14, <3>1, <3>6
      <4> QED
        BY <1>4, <4>1
    <3>8. \E k \in 1 .. i - 1 : s[k][1] = f
      BY <3>4, <3>7
    <3>9. h[f] = CHOOSE k \in 1 .. i - 1 : s[k][1] = f
      OBVIOUS
    <3> HIDE DEF h, S
    <3> QED
      BY <3>8, <3>9, Zenon
  <2>3. DOMAIN h = S /\ h = [f \in S |-> h[f]]
    OBVIOUS
  <2> HIDE DEF h, S
  <2>4. h \in [S -> 1 .. i - 1] /\ \A f, e \in S : h[f] = h[e] => f = e
    BY <2>2, <2>3
  <2>5. IsFiniteSet(1 .. i - 1) /\ Cardinality(1 .. i - 1) = i - 1
    <3>1. i - 1 \in Nat
      BY <1>4
    <3> QED
      BY <3>1, UpTo
  <2>6. (i - 1) + 1 <= i - 1
    BY <2>1, <2>4, <2>5, FewerIn
  <2> QED
    BY <1>15, <2>6
<1>20. s[i][2] \in Nat /\ w[g] \in Nat /\ w[g] = Ways(g)[v]
  BY <1>4, <1>8, <1>10, <1>12
<1>21. s[i][2] = w[g]
  BY <1>18, <1>19, <1>20
<1> QED
  BY <1>1, <1>7, <1>20, <1>21

\* A point beside a vertex gets the first of what the vertex has.
LEMMA ReachedIs ==
  ASSUME NearInv, NEW v \in Vertices, NEW off \in 0 .. SnapMax
  PROVE  IsPrefix(Reached(v, off), label[v])
<1>0. SearchTypes /\ InOrder
  BY DEF NearInv
<1>1. PICK S : S = (DOMAIN placed) \X Nat
  OBVIOUS
<1>2. PICK s \in Seq(S) : s = label[v]
  BY <1>0, <1>1, LabelTypes
<1>3. off \in Nat /\ WalkLimit \in Nat /\ off <= SnapMax /\ SnapMax \in Nat
  BY NearConstants
<1>4. PICK X : X = {l \in Range(s) : l[2] + off <= WalkLimit}
  OBVIOUS
<1>5. \A i \in DOMAIN s : s[i][2] \in Nat
  BY <1>0, <1>2, LabelTypes
<1>6. \A i, j \in DOMAIN s : i < j => s[i][2] <= s[j][2]
  BY <1>0, <1>2 DEF InOrder
<1>7. \A i \in DOMAIN s : s[i] \in X <=> s[i][2] + off <= WalkLimit
  BY <1>4 DEF Range
<1>8. \A i, j \in DOMAIN s : i < j /\ s[j] \in X => s[i] \in X
  <2> TAKE i, j \in DOMAIN s
  <2> HAVE i < j /\ s[j] \in X
  <2>1. PICK a \in Nat, b \in Nat : a = s[i][2] /\ b = s[j][2]
    BY <1>5
  <2>2. a <= b /\ b + off <= WalkLimit
    BY <1>6, <1>7, <2>1
  <2>3. a + off <= WalkLimit
    BY <1>3, <2>2
  <2> QED
    BY <1>7, <2>1, <2>3
<1>9. IsPrefix(Only(s, X), s)
  BY <1>8, OnlyPrefix
<1>10. ~(off > SnapMax)
  BY <1>3
<1>11. Reached(v, off) = Only(s, X)
  BY <1>2, <1>4, <1>10 DEF Reached
<1> QED
  BY <1>2, <1>9, <1>11

\* Whatever the streets and wherever the facilities: when the search of
\* walk/ksource.py is over, each vertex has the facilities nearest to it by the
\* shortest ways, as many as K allows, and a point beside it the first of them.
THEOREM NearestTrue == NearSpec => []NearestAreNearest
<1>1. NearInv => NearestAreNearest
  BY SettledAtLast, SettledCount, SettledNearest, ReachedIs DEF NearestAreNearest
<1> QED
  BY <1>1, NearInvariant, PTL
=============================================================================
