-------------------------- MODULE RecalcChainProofs ---------------------------
(***************************************************************************)
(* What RecalcChain says of every set of sources.  CollectedDataIsDue is   *)
(* not inductive: between the request for calc and the end of its job a    *)
(* source is not settled yet, and the end of the job settles it.  IInv     *)
(* therefore says of a source in that gap what it says of a settled one.   *)
(***************************************************************************)
EXTENDS CalcAsked, TLAPS

Told(s) == s \in settled \/ (phase[s] = "chained" /\ Changed(s))

TellingAsks == \A s \in Sources : Told(s) /\ s \in unread /\ s \notin lost => CalcDue

IInv == ChainTypeOK /\ TellingAsks

-----------------------------------------------------------------------------
LEMMA InitIInv == CInit => IInv
  BY ChainAssumption DEF CInit, QInit, IInv, ChainTypeOK, QTypeOK, TellingAsks, Told

\* The types survive every step.
LEMMA NextType == ChainTypeOK /\ [CNext]_cvars => ChainTypeOK'
<1> SUFFICES ASSUME ChainTypeOK, [CNext]_cvars PROVE ChainTypeOK'
  OBVIOUS
<1> USE ChainAssumption DEF ChainTypeOK, QTypeOK, Goes
<1>1. ASSUME NEW k \in Kinds, Call(k) PROVE ChainTypeOK'
  BY <1>1 DEF Call, Request, chainVars
<1>2. ASSUME NEW k \in Kinds, Begin(k) PROVE ChainTypeOK'
  BY <1>2 DEF Begin, Start, dataVars
<1>3. ASSUME NEW k \in Kinds, CancelWaiting(k) PROVE ChainTypeOK'
  BY <1>3 DEF CancelWaiting, Withdraw, dataVars
<1>4. ASSUME NEW s \in Sources, Release(s) PROVE ChainTypeOK'
  BY <1>4 DEF Release, qvars
<1>5. ASSUME NEW s \in Sources, Store(s) PROVE ChainTypeOK'
  BY <1>5 DEF Store, qvars
<1>6. ASSUME NEW s \in Sources, Collected(s) PROVE ChainTypeOK'
  BY <1>6 DEF Collected, qvars, dataVars
<1>7. ASSUME NEW s \in Sources, ChainCalc(s) PROVE ChainTypeOK'
  BY <1>7 DEF ChainCalc, Ask, dataVars
<1>8. ASSUME NEW s \in Sources, Done(s) PROVE ChainTypeOK'
  BY <1>8 DEF Done, Complete
<1>9. ASSUME NEW s \in Sources, CollectFails(s) PROVE ChainTypeOK'
  BY <1>9 DEF CollectFails, Complete
<1>10. CASE CalcRead
  BY <1>10 DEF CalcRead, qvars
<1>11. CASE CalcDone
  BY <1>11 DEF CalcDone, Complete, dataVars
<1>12. CASE CalcFails
  BY <1>12 DEF CalcFails, Complete, Unreads
<1>13. ASSUME NEW gone \in SUBSET active, NEW retry \in SUBSET gone,
              Interrupt(retry, gone \ retry)
       PROVE  ChainTypeOK'
  <2>1. waiting' \in SUBSET Kinds /\ active' = active \ gone
    BY <1>13 DEF Interrupt, Recover
  <2>2. phase' = [k \in Kinds |-> IF k \in gone THEN "none" ELSE phase[k]]
    BY <1>13 DEF Interrupt
  <2>3. changed' = changed \ gone /\ UNCHANGED <<news, settled, ended>>
    BY <1>13 DEF Interrupt
  <2>4. /\ unread' \in SUBSET Sources /\ reading' \in SUBSET Sources
        /\ reading' = IF Calc \in gone THEN {} ELSE reading
    BY <1>13 DEF Interrupt, Unreads
  <2>5. lost' \in SUBSET Sources
    BY <1>13, <2>4 DEF Interrupt
  <2> QED
    BY <2>1, <2>2, <2>3, <2>4, <2>5
<1>14. CASE UNCHANGED cvars
  BY <1>14 DEF cvars
<1> QED
  BY <1>1, <1>2, <1>3, <1>4, <1>5, <1>6, <1>7, <1>8, <1>9, <1>10, <1>11, <1>12,
     <1>13, <1>14 DEF CNext, BesidesCalc

\* So does the promise to a source that has told of its data.
LEMMA NextAsks == IInv /\ [CNext]_cvars => TellingAsks'
<1> SUFFICES ASSUME ChainTypeOK, TellingAsks, [CNext]_cvars,
                    NEW s \in Sources, Told(s)', s \in unread', s \notin lost'
             PROVE  CalcDue'
  BY DEF IInv, TellingAsks
<1> USE ChainAssumption DEF ChainTypeOK, QTypeOK, Goes, CalcDue, Told, Changed, TellingAsks
<1>1. ASSUME NEW k \in Kinds, Call(k) PROVE CalcDue'
  BY <1>1 DEF Call, Request, chainVars
<1>2. ASSUME NEW k \in Kinds, Begin(k) PROVE CalcDue'
  BY <1>2 DEF Begin, Start, dataVars
<1>3. ASSUME NEW k \in Kinds, CancelWaiting(k) PROVE CalcDue'
  BY <1>3 DEF CancelWaiting, Withdraw, dataVars
<1>4. ASSUME NEW t \in Sources, Release(t) PROVE CalcDue'
  BY <1>4 DEF Release, qvars
<1>5. ASSUME NEW t \in Sources, Store(t) PROVE CalcDue'
  BY <1>5 DEF Store, qvars
<1>6. ASSUME NEW t \in Sources, Collected(t) PROVE CalcDue'
  BY <1>6 DEF Collected, qvars, dataVars
<1>7. ASSUME NEW t \in Sources, ChainCalc(t) PROVE CalcDue'
  BY <1>7 DEF ChainCalc, Ask, dataVars
<1>8. ASSUME NEW t \in Sources, Done(t) PROVE CalcDue'
  BY <1>8 DEF Done, Complete
<1>9. ASSUME NEW t \in Sources, CollectFails(t) PROVE CalcDue'
  BY <1>9 DEF CollectFails, Complete
<1>10. CASE CalcRead
  BY <1>10 DEF CalcRead
<1>11. CASE CalcDone
  BY <1>11 DEF CalcDone, Complete, dataVars
<1>12. CASE CalcFails
  BY <1>12 DEF CalcFails, Complete, Unreads
<1>13. ASSUME NEW gone \in SUBSET active, NEW retry \in SUBSET gone,
              Interrupt(retry, gone \ retry)
       PROVE  CalcDue'
  <2>1. CASE Calc \notin gone
    BY <1>13, <2>1 DEF Interrupt, Recover
  <2>2. CASE Calc \in gone
    BY <1>13, <2>2 DEF Interrupt, Recover
  <2> QED
    BY <2>1, <2>2
<1>14. CASE UNCHANGED cvars
  BY <1>14 DEF cvars
<1> QED
  BY <1>1, <1>2, <1>3, <1>4, <1>5, <1>6, <1>7, <1>8, <1>9, <1>10, <1>11, <1>12,
     <1>13, <1>14 DEF CNext, BesidesCalc

-----------------------------------------------------------------------------
\* The inductive invariant holds in every reachable state.
THEOREM ChainInvariance == CSpec => []IInv
<1>1. IInv /\ [CNext]_cvars => IInv'
  BY NextType, NextAsks DEF IInv
<1> QED
  BY InitIInv, <1>1, PTL DEF CSpec

\* The shape of the state, for any sources.
THEOREM ChainTypes == CSpec => []ChainTypeOK
<1>1. IInv => ChainTypeOK
  BY DEF IInv
<1> QED
  BY <1>1, ChainInvariance, PTL

\* Data of a collection that ended well is never left without a calc to come
\* (worker.py:59-64): whatever the number of sources and whatever is
\* interrupted, cancelled or requested in between.
THEOREM CollectedIsDue == CSpec => []CollectedDataIsDue
<1>1. IInv => CollectedDataIsDue
  BY DEF IInv, ChainTypeOK, TellingAsks, Told, CollectedDataIsDue
<1> QED
  BY <1>1, ChainInvariance, PTL

-----------------------------------------------------------------------------
(* Calcs with parameters of their own *)

\* Each step is one of the chain, which does not know of parameters.
LEMMA AskedIsChain == [AskedNext]_askedVars => [CNext]_cvars
<1> SUFFICES ASSUME [AskedNext]_askedVars PROVE [CNext]_cvars
  OBVIOUS
<1>1. CASE CallOwn
  BY <1>1, ChainAssumption DEF CallOwn, CNext, BesidesCalc
<1>2. CASE TakesIn \/ Takes \/ Other
  BY <1>2 DEF TakesIn, Takes, Other, CNext
<1>3. CASE UNCHANGED askedVars
  BY <1>3 DEF askedVars
<1> QED
  BY <1>1, <1>2, <1>3 DEF AskedNext

AskedTypes ==
  /\ asked \in {"own", "default"} /\ going \in {"own", "default"}
  /\ asked = "own" => Calc \in waiting
  /\ missed \in SUBSET Sources

\* A calc without parameters will take in the data of s, or has read them.
DueFor(s) ==
  \/ Calc \in waiting /\ asked = "default"
  \/ phase[Calc] = "work" /\ going = "default"
  \/ phase[Calc] = "read" /\ going = "default" /\ s \notin unread
ToldAreDue == \A s \in Sources : Told(s) /\ s \in (unread \cup missed) \ stood => DueFor(s)
OwnInv == ChainTypeOK /\ AskedTypes /\ ToldAreDue

LEMMA NextAskedTypes == ChainTypeOK /\ AskedTypes /\ [AskedNext]_askedVars => AskedTypes'
<1> SUFFICES ASSUME ChainTypeOK, AskedTypes, [AskedNext]_askedVars PROVE AskedTypes'
  OBVIOUS
<1>1. CASE CallOwn
  BY <1>1 DEF CallOwn, Call, Request, AskedTypes
<1>2. CASE TakesIn
  BY <1>2 DEF TakesIn, Params, AskedTypes, ChainTypeOK
<1>3. CASE Takes
  BY <1>3 DEF Takes, Params, AskedTypes
<1>4. CASE Other
  BY <1>4 DEF Other, Params, AskedTypes
<1>5. CASE UNCHANGED askedVars
  BY <1>5 DEF askedVars, cvars, AskedTypes
<1> QED
  BY <1>1, <1>2, <1>3, <1>4, <1>5 DEF AskedNext

\* The steps beside calc, one by one.
LEMMA OtherKeepsDue ==
  ASSUME OwnInv, Other, NEW s \in Sources, Told(s)', s \in unread' \cup missed', s \notin stood'
  PROVE  DueFor(s)'
<1> USE ChainAssumption DEF ChainTypeOK, QTypeOK, Goes, Told, Changed
<1>0. /\ ChainTypeOK /\ AskedTypes /\ Params /\ BesidesCalc /\ missed' = missed \ unread'
      /\ s \notin stood /\ ~(asked = "own" /\ ChainCalc(s))
      /\ ~(GivenUp /\ s \in missed \cup unread')
      /\ Told(s) /\ s \in unread \cup missed => DueFor(s)
  BY DEF OwnInv, Other, ToldAreDue
<1> USE <1>0 DEF DueFor, Params, AskedTypes
<1>1. ASSUME NEW k \in Kinds, Call(k) PROVE DueFor(s)'
  BY <1>1 DEF Call, Request, chainVars
<1>2. ASSUME NEW k \in Kinds, Begin(k) PROVE DueFor(s)'
  BY <1>2 DEF Begin, Start, dataVars
<1>3. ASSUME NEW k \in Kinds, CancelWaiting(k) PROVE DueFor(s)'
  <2>1. CASE k = Calc
    BY <1>3, <2>1 DEF CancelWaiting, Withdraw, dataVars, GivenUp
  <2>2. CASE k # Calc
    BY <1>3, <2>2 DEF CancelWaiting, Withdraw, dataVars
  <2> QED
    BY <2>1, <2>2
<1>4. ASSUME NEW t \in Sources, Release(t) PROVE DueFor(s)'
  BY <1>4 DEF Release, qvars
<1>5. ASSUME NEW t \in Sources, Store(t) PROVE DueFor(s)'
  BY <1>5 DEF Store, qvars
<1>6. ASSUME NEW t \in Sources, Collected(t) PROVE DueFor(s)'
  BY <1>6 DEF Collected, qvars, dataVars
<1>7. ASSUME NEW t \in Sources, ChainCalc(t) PROVE DueFor(s)'
  BY <1>7 DEF ChainCalc, Ask, dataVars
<1>8. ASSUME NEW t \in Sources, Done(t) PROVE DueFor(s)'
  BY <1>8 DEF Done, Complete
<1>9. ASSUME NEW t \in Sources, CollectFails(t) PROVE DueFor(s)'
  BY <1>9 DEF CollectFails, Complete
<1>10. CASE CalcFails
  BY <1>10 DEF CalcFails, Complete, Unreads, GivenUp
<1>11. ASSUME NEW gone \in SUBSET active, NEW retry \in SUBSET gone, Interrupt(retry, gone \ retry)
       PROVE  DueFor(s)'
  <2>1. CASE Calc \notin gone
    BY <1>11, <2>1 DEF Interrupt, Recover
  <2>2. CASE Calc \in gone
    BY <1>11, <2>2 DEF Interrupt, Recover, GivenUp
  <2> QED
    BY <2>1, <2>2
<1> QED
  BY <1>1, <1>2, <1>3, <1>4, <1>5, <1>6, <1>7, <1>8, <1>9, <1>10, <1>11 DEF BesidesCalc

LEMMA NextDue == OwnInv /\ [AskedNext]_askedVars => ToldAreDue'
<1> SUFFICES ASSUME OwnInv, [AskedNext]_askedVars,
                    NEW s \in Sources, Told(s)', s \in (unread' \cup missed') \ stood'
             PROVE  DueFor(s)'
  BY DEF ToldAreDue
<1> USE ChainAssumption DEF ChainTypeOK, QTypeOK, Goes, Told, Changed, OwnInv, AskedTypes, ToldAreDue, DueFor
<1>1. CASE CallOwn
  BY <1>1 DEF CallOwn, Call, Request, chainVars
<1>2. CASE TakesIn
  BY <1>2 DEF TakesIn, CalcRead, Params, qvars
<1>3. CASE Takes
  BY <1>3 DEF Takes, CalcDone, Complete, Params, dataVars
<1>4. CASE Other
  BY <1>4, OtherKeepsDue
<1>5. CASE UNCHANGED askedVars
  BY <1>5 DEF askedVars, cvars
<1> QED
  BY <1>1, <1>2, <1>3, <1>4, <1>5 DEF AskedNext

\* Only a calc with parameters of its own that waited when a collection asked
\* keeps its data out of the metrics (worker.py:63), for any sources.
THEOREM OwnStandsIn == AskedSpec => []OnlyOwnStandsIn
<1>1. AskedInit => OwnInv
  BY InitIInv DEF AskedInit, OwnInv, IInv, AskedTypes, ToldAreDue, CInit
<1>2. OwnInv /\ [AskedNext]_askedVars => OwnInv'
  BY AskedIsChain, NextType, NextAskedTypes, NextDue DEF OwnInv
<1>3. OwnInv => OnlyOwnStandsIn
  BY DEF OwnInv, ChainTypeOK, ToldAreDue, Told, DueFor, OnlyOwnStandsIn
<1> QED
  BY <1>1, <1>2, <1>3, PTL DEF AskedSpec
=============================================================================
