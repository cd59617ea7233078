-------------------------- MODULE PostHistoryProofs ---------------------------
(***************************************************************************)
(* What PostHistory says of any number of facilities and area codes and of *)
(* any tolerance.  That a merge closes no more than a complete answer may  *)
(* lack is a property of one step; the reason lies further back, in what   *)
(* makes a code done.  DoneHasRows says it: what a code lists and has no   *)
(* row under it was dropped or is within the tolerance, through all later  *)
(* codes, interruptions and resumptions.                                   *)
(*                                                                         *)
(* And of another history, that of units whose codes change (Recodes): for *)
(* any units, names, changes and months received.  A number says which     *)
(* piece of land a unit is (UnitsFit), and the alias of a code has the     *)
(* number of the code (AliasTrue), for where one change lies between the   *)
(* months compared, a province that appears when another is gone has the   *)
(* units of that one (Carries, Joined).                                    *)
(***************************************************************************)
EXTENDS PostHistory, Recodes, FiniteLemmas, TLAPS

\* What came under the code being fetched is listed there, and has its row
\* under it unless it was dropped; the count told is none or that of the list.
GotHasRows ==
    ~moved /\ step = "pages" =>
        /\ \A f \in got : f \in up[at] /\ (stg[f] = at \/ f \in dropped)
        /\ pages.told \in {0, Cardinality(up[at])}

Lacking(c)  == {f \in up[c] \ dropped : stg[f] # c}
Few(c)      == Cardinality(Lacking(c)) <= MayLack(Cardinality(up[c]))
DoneHasRows == ~moved => \A c \in (done \cup saved) \ doubtful : Few(c)

IInv == PostTypeOK /\ GotHasRows /\ DoneHasRows

\* What a run has stored is listed, ...
RowsListed == ~moved => \A f \in Facilities : stg[f] # NoCode => f \in up[stg[f]]
\* ... and from the merge on the history has its rows, and nothing else open
\* under a code that is done and has brought rows.
Covered(c) == /\ IF step = "finish" THEN c \in done ELSE run = "DONE"
              /\ \E f \in Facilities : stg[f] = c
HistFollows ==
    step = "finish" \/ run = "DONE" =>
        \A f \in Facilities :
            /\ stg[f] # NoCode /\ f \notin bad => hist[f] = stg[f]
            /\ stg[f] = NoCode => hist[f] = NoCode \/ ~Covered(hist[f])
-----------------------------------------------------------------------------
\* The next code is one that is left, and the first of them.
LEMMA NextIsLeft ==
    ASSUME PostTypeOK, Left # {}
    PROVE  (CHOOSE c \in Left : \A d \in Left : c <= d) \in Left
<1>1. Left \subseteq Nat
  BY HistoryAssumption DEF Left, Code
<1>2. PICK m \in Left : \A y \in Left : ~ (<<y, m>> \in OpToRel(<, Nat))
  BY <1>1, NatLessThanWellFounded, WFMin
<1>3. \A y \in Left : m <= y
  <2> TAKE y \in Left
  <2>1. m \in Nat /\ y \in Nat
    BY <1>1
  <2>2. ~ (y < m)
    BY <1>2, <2>1 DEF OpToRel
  <2> QED
    BY <2>1, <2>2
<1> QED
  BY <1>3

LEMMA InitIInv == PInit => IInv
<1> SUFFICES ASSUME PInit PROVE IInv
  OBVIOUS
<1>1. PostTypeOK
  <2>1. 1 \in 1 .. NCodes + 1
    BY HistoryAssumption
  <2>2. NoRows \in Rows
    BY DEF NoRows, Rows
  <2>3. NoPages \in Counts
    BY DEF NoPages, Counts
  <2> QED
    BY <2>1, <2>2, <2>3 DEF PInit, PostTypeOK
<1>2. GotHasRows /\ DoneHasRows
  BY DEF PInit, GotHasRows, DoneHasRows
<1> QED
  BY <1>1, <1>2 DEF IInv

-----------------------------------------------------------------------------
(* Types *)

LEMMA NoPagesType == NoPages \in Counts
BY DEF NoPages, Counts

LEMMA PagesOfType == ASSUME NEW n \in Nat PROVE PagesOf(n) \in Nat
<1>1. n + PageSize - 1 \in Nat /\ PageSize > 0
  BY HistoryAssumption
<1> QED
  BY <1>1, HistoryAssumption DEF PagesOf

LEMMA MayLackType == ASSUME NEW n \in Nat PROVE MayLack(n) \in Nat
<1>1. n \div Share \in Nat
  BY HistoryAssumption
<1> QED
  BY <1>1, HistoryAssumption DEF MayLack

LEMMA BeginCodeType == ASSUME PostTypeOK, BeginCode PROVE PostTypeOK'
<1> USE HistoryAssumption DEF PostTypeOK, Rows
<1>1. at' \in Left
  BY NextIsLeft DEF BeginCode
<1>2. at' \in Code \ done /\ at' \in 1 .. NCodes + 1
  BY <1>1 DEF Left, Code
<1>3. stg' \in Rows /\ bad' \in SUBSET {f \in Facilities : stg'[f] # NoCode}
  BY DEF BeginCode
<1> QED
  BY <1>2, <1>3, NoPagesType DEF BeginCode

LEMMA PageType ==
    ASSUME PostTypeOK, NEW items \in SUBSET Facilities, NEW noCoord \in SUBSET items,
           Page(items, noCoord)
    PROVE  PostTypeOK'
<1> USE HistoryAssumption DEF PostTypeOK, Rows
<1> DEFINE new == {f \in items : stg[f] = NoCode}
<1>1. /\ noCoord \subseteq new
      /\ stg' = [f \in Facilities |-> IF f \in new THEN at ELSE stg[f]]
      /\ dropped' = dropped \cup {f \in items : stg[f] \notin {NoCode, at}}
      /\ bad' = bad \cup noCoord
      /\ got' = got \cup items
  BY DEF Page
<1>2. at \in Code \ done /\ at # NoCode
  BY DEF Page, Code, NoCode
<1>3. stg' \in Rows
  BY <1>1, <1>2
<1>4. \A f \in items : stg'[f] # NoCode
  BY <1>1, <1>2
<1>5. \A f \in Facilities : stg[f] # NoCode => stg'[f] # NoCode
  BY <1>1, <1>2
<1>6. /\ got' \subseteq {f \in Facilities : stg'[f] # NoCode}
      /\ bad' \in SUBSET {f \in Facilities : stg'[f] # NoCode}
      /\ dropped' \in SUBSET Facilities
  BY <1>1, <1>4, <1>5
<1>7. pages' \in Counts
  <2> DEFINE all == Cardinality(up[at])
  <2>1. IsFiniteSet(up[at]) /\ IsFiniteSet(items)
    <3>1. up[at] \in SUBSET Facilities
      BY <1>2
    <3> QED
      BY <3>1, FS_Subset
  <2>2. all \in Nat /\ Cardinality(items) \in Nat
    BY <2>1, FS_CardinalityType
  <2>3. PagesOf(all) \in Nat /\ PagesOf(0) \in Nat
    BY <2>2, PagesOfType
  <2>4. pages \in Counts
    OBVIOUS
  <2> HIDE DEF all, PostTypeOK
  <2>5. PICK told \in {0, all}, last \in {PagesOf(0), PagesOf(all)} :
          pages' = [no    |-> pages.no + 1, last |-> last, told |-> told,
                    count |-> pages.count + Cardinality(items),
                    empty |-> pages.empty \cup IF items = {} /\ told > 0
                                               THEN {pages.no + 1} ELSE {}]
    BY DEF Page, all
  <2> QED
    BY <2>2, <2>3, <2>4, <2>5 DEF Counts
<1> QED
  BY <1>2, <1>3, <1>6, <1>7 DEF Page

LEMMA EndCodeType ==
    ASSUME PostTypeOK, NEW save \in BOOLEAN, EndCode(save)
    PROVE  PostTypeOK'
<1> USE HistoryAssumption DEF PostTypeOK, Rows
<1>1. at \in Code /\ at' = at + 1
  BY DEF EndCode
<1>2. at' \in 1 .. NCodes + 1
  BY <1>1 DEF Code
<1>3. /\ done' \in SUBSET Code /\ saved' \in SUBSET Code /\ saved' \subseteq done'
      /\ doubtful' \in SUBSET Code
  BY <1>1 DEF EndCode
<1> QED
  BY <1>2, <1>3, NoPagesType DEF EndCode

LEMMA MergeType ==
    ASSUME PostTypeOK, NEW found \in SUBSET bad, Merge(found)
    PROVE  PostTypeOK'
<1> USE HistoryAssumption DEF PostTypeOK, Rows
<1>1. hist' \in Rows
  BY DEF Merge, Merged, Gone
<1> QED
  BY <1>1 DEF Merge

LEMMA NextType == PostTypeOK /\ [PNext]_pvars => PostTypeOK'
<1> SUFFICES ASSUME PostTypeOK, [PNext]_pvars PROVE PostTypeOK'
  OBVIOUS
<1> USE HistoryAssumption DEF PostTypeOK, Rows
<1>0. 1 \in 1 .. NCodes + 1
  OBVIOUS
<1>1. ASSUME NEW c \in Code, NEW f \in Facilities, Upstream(c, f) PROVE PostTypeOK'
  BY <1>1 DEF Upstream, runVars
<1>2. CASE StartRun
  <2>1. NoRows \in Rows
    BY DEF NoRows
  <2> QED
    BY <1>0, <1>2, <2>1, NoPagesType DEF StartRun
<1>3. CASE Resume
  BY <1>0, <1>3, NoPagesType DEF Resume
<1>4. CASE BeginCode
  BY <1>4, BeginCodeType
<1>5. ASSUME NEW items \in SUBSET Facilities, NEW noCoord \in SUBSET items, Page(items, noCoord)
      PROVE  PostTypeOK'
  BY <1>5, PageType
<1>6. ASSUME NEW save \in BOOLEAN, EndCode(save) PROVE PostTypeOK'
  BY <1>6, EndCodeType
<1>7. CASE BeginMerge
  BY <1>7 DEF BeginMerge
<1>8. ASSUME NEW found \in SUBSET bad, Merge(found) PROVE PostTypeOK'
  BY <1>8, MergeType
<1>9. CASE Finish
  BY <1>0, <1>9, NoPagesType DEF Finish, Ended
<1>10. ASSUME NEW save \in BOOLEAN, Stop(save) PROVE PostTypeOK'
  BY <1>0, <1>10, NoPagesType DEF Stop, Ended
<1>11. CASE UNCHANGED pvars
  BY <1>11 DEF pvars
<1> QED
  BY <1>1, <1>2, <1>3, <1>4, <1>5, <1>6, <1>7, <1>8, <1>9, <1>10, <1>11 DEF PNext

-----------------------------------------------------------------------------
(* Rows *)

\* Steps that leave the rows of the run and the code being fetched alone.
LEMMA RowsStay ==
    ASSUME IInv, UNCHANGED <<up, moved, stg, dropped, doubtful>>,
           done' \cup saved' \subseteq done \cup saved,
           step' = "pages" => UNCHANGED <<step, at, got, pages>>
    PROVE  GotHasRows' /\ DoneHasRows'
<1>1. GotHasRows'
  BY DEF IInv, GotHasRows
<1>2. \A c : Few(c)' <=> Few(c)
  BY DEF Few, Lacking, MayLack
<1> QED
  BY <1>1, <1>2 DEF IInv, DoneHasRows

\* A set with fewer elements is within the tolerance as well.
LEMMA FewerLacking ==
    ASSUME PostTypeOK, NEW c \in Code, Few(c), UNCHANGED up, Lacking(c)' \subseteq Lacking(c)
    PROVE  Few(c)'
<1>1. Lacking(c) \in SUBSET Facilities /\ up[c] \in SUBSET Facilities
  BY DEF PostTypeOK, Lacking
<1>2. IsFiniteSet(Lacking(c)) /\ IsFiniteSet(up[c])
  BY <1>1, HistoryAssumption, FS_Subset
<1>3. IsFiniteSet(Lacking(c)') /\ Cardinality(Lacking(c)') <= Cardinality(Lacking(c))
  BY <1>2, FS_Subset
<1>4. /\ Cardinality(Lacking(c)) \in Nat /\ Cardinality(Lacking(c)') \in Nat
      /\ MayLack(Cardinality(up[c])) \in Nat
  BY <1>2, <1>3, FS_CardinalityType, MayLackType
<1>5. MayLack(Cardinality(up[c]))' = MayLack(Cardinality(up[c]))
  BY DEF MayLack
<1> QED
  BY <1>3, <1>4, <1>5 DEF Few

\* A code that is complete beyond doubt lacks no more than the tolerance.
LEMMA CompleteLacksFew ==
    ASSUME PostTypeOK, GotHasRows, ~moved, step = "pages", Complete, ~Doubt
    PROVE  Few(at)
<1>1. at \in Code /\ up[at] \in SUBSET Facilities
  BY DEF PostTypeOK
<1>2. got \in SUBSET up[at] /\ IsFiniteSet(up[at])
  BY <1>1, HistoryAssumption, FS_Subset DEF GotHasRows
<1>3. Lacking(at) \in SUBSET (up[at] \ got)
  BY DEF GotHasRows, Lacking
<1>4. /\ IsFiniteSet(got) /\ IsFiniteSet(up[at] \ got)
      /\ Cardinality(up[at] \ got) = Cardinality(up[at]) - Cardinality(got)
  <2>1. IsFiniteSet(got)
    BY <1>2, FS_Subset
  <2>2. up[at] \cap got = got
    BY <1>2
  <2> QED
    BY <1>2, <2>1, <2>2, FS_Difference
<1>5. Cardinality(Lacking(at)) <= Cardinality(up[at] \ got) /\ IsFiniteSet(Lacking(at))
  BY <1>3, <1>4, FS_Subset
<1>6. /\ Cardinality(up[at]) \in Nat /\ Cardinality(got) \in Nat
      /\ Cardinality(Lacking(at)) \in Nat /\ MayLack(Cardinality(up[at])) \in Nat
  BY <1>2, <1>4, <1>5, FS_CardinalityType, MayLackType
<1>7. /\ pages.told = Cardinality(up[at]) /\ pages.count \in Nat
      /\ pages.count <= Cardinality(got)
      /\ pages.told <= pages.count + MayLack(pages.told)
  BY <1>6 DEF GotHasRows, Complete, Doubt, PostTypeOK, Counts
<1> QED
  BY <1>4, <1>5, <1>6, <1>7 DEF Few

LEMMA BeginCodeRows == ASSUME IInv, BeginCode PROVE GotHasRows' /\ DoneHasRows'
<1>1. GotHasRows'
  BY DEF BeginCode, GotHasRows, NoPages
<1>2. at' \in Code \ done /\ saved \subseteq done
  BY NextIsLeft DEF BeginCode, Left, IInv, PostTypeOK
<1>3. ASSUME NEW c \in (done \cup saved) \ doubtful, ~moved PROVE Few(c)'
  <2>1. c \in Code /\ c # at' /\ UNCHANGED <<up, dropped>>
    BY <1>2 DEF IInv, PostTypeOK, BeginCode
  <2>2. up[c] \subseteq Facilities
    BY <2>1 DEF IInv, PostTypeOK
  <2>3. \A f \in Facilities : stg[f] = c => stg'[f] = c
    BY <2>1 DEF BeginCode, IInv, PostTypeOK
  <2>4. Lacking(c)' \subseteq Lacking(c)
    BY <2>1, <2>2, <2>3 DEF Lacking
  <2>5. Few(c)
    BY <1>3 DEF IInv, DoneHasRows
  <2> QED
    BY <2>1, <2>4, <2>5, FewerLacking DEF IInv
<1>4. DoneHasRows'
  BY <1>2, <1>3 DEF DoneHasRows, BeginCode
<1> QED
  BY <1>1, <1>4

LEMMA PageRows ==
    ASSUME IInv, NEW items \in SUBSET Facilities, NEW noCoord \in SUBSET items,
           Page(items, noCoord)
    PROVE  GotHasRows' /\ DoneHasRows'
<1> DEFINE new == {f \in items : stg[f] = NoCode}
<1>1. /\ stg' = [f \in Facilities |-> IF f \in new THEN at ELSE stg[f]]
      /\ dropped' = dropped \cup {f \in items : stg[f] \notin {NoCode, at}}
      /\ got' = got \cup items
      /\ items \subseteq up[at]
      /\ pages'.told \in {0, Cardinality(up[at])}
      /\ UNCHANGED <<up, moved, step, at, done, saved, doubtful>>
  BY DEF Page
<1>2. at \in Code \ done /\ saved \subseteq done /\ NoCode \notin Code /\ got \subseteq Facilities
  BY DEF Page, IInv, PostTypeOK, NoCode, Code
<1>3. GotHasRows'
  <2> SUFFICES ASSUME ~moved, step = "pages", NEW f \in got'
               PROVE  f \in up[at] /\ (stg'[f] = at \/ f \in dropped')
    BY <1>1 DEF GotHasRows
  <2>1. CASE f \in items
    BY <1>1, <1>2, <2>1 DEF IInv, PostTypeOK, Rows
  <2>2. CASE f \notin items
    <3>1. f \in got /\ f \in Facilities
      BY <1>1, <1>2, <2>2
    <3>2. stg'[f] = stg[f]
      BY <1>1, <2>2, <3>1
    <3> QED
      BY <1>1, <3>1, <3>2 DEF IInv, GotHasRows
  <2> QED
    BY <2>1, <2>2
<1>4. ASSUME NEW c \in (done \cup saved) \ doubtful, ~moved PROVE Few(c)'
  <2>1. c \in Code /\ c # NoCode
    BY <1>2 DEF IInv, PostTypeOK
  <2>2. up[c] \subseteq Facilities
    BY <2>1 DEF IInv, PostTypeOK
  <2>3. \A f \in Facilities : stg[f] = c => stg'[f] = c
    BY <1>1, <2>1
  <2>4. Lacking(c)' \subseteq Lacking(c)
    BY <1>1, <2>2, <2>3 DEF Lacking
  <2>5. Few(c)
    BY <1>4 DEF IInv, DoneHasRows
  <2>6. UNCHANGED up
    BY <1>1
  <2> QED
    BY <2>1, <2>4, <2>5, <2>6, FewerLacking DEF IInv
<1>5. DoneHasRows'
  BY <1>1, <1>4 DEF DoneHasRows
<1> QED
  BY <1>3, <1>5

LEMMA EndCodeRows ==
    ASSUME IInv, NEW save \in BOOLEAN, EndCode(save)
    PROVE  GotHasRows' /\ DoneHasRows'
<1>1. GotHasRows'
  BY DEF EndCode, GotHasRows
<1>2. /\ UNCHANGED <<up, moved, stg, dropped>> /\ step = "pages"
      /\ done' \cup saved' \subseteq done \cup saved \cup (IF Complete THEN {at} ELSE {})
      /\ doubtful' = IF Complete /\ Doubt THEN doubtful \cup {at} ELSE doubtful
  BY DEF EndCode
<1>3. ASSUME ~moved, NEW c \in (done' \cup saved') \ doubtful' PROVE Few(c)
  <2>1. CASE c \in done \cup saved
    BY <1>2, <1>3, <2>1 DEF IInv, DoneHasRows
  <2>2. CASE c \notin done \cup saved
    <3>1. Complete /\ c = at /\ ~Doubt
      BY <1>2, <1>3, <2>2
    <3> QED
      BY <1>2, <1>3, <3>1, CompleteLacksFew DEF IInv
  <2> QED
    BY <2>1, <2>2
<1>4. \A c : Few(c)' <=> Few(c)
  BY <1>2 DEF Few, Lacking, MayLack
<1>5. DoneHasRows'
  BY <1>2, <1>3, <1>4 DEF DoneHasRows
<1> QED
  BY <1>1, <1>5

LEMMA NextRows == IInv /\ [PNext]_pvars => GotHasRows' /\ DoneHasRows'
<1> SUFFICES ASSUME IInv, [PNext]_pvars PROVE GotHasRows' /\ DoneHasRows'
  OBVIOUS
<1>1. ASSUME NEW c \in Code, NEW f \in Facilities, Upstream(c, f)
      PROVE  GotHasRows' /\ DoneHasRows'
  BY <1>1 DEF Upstream, GotHasRows, DoneHasRows
<1>2. CASE StartRun
  BY <1>2 DEF StartRun, GotHasRows, DoneHasRows
<1>3. CASE Resume
  BY <1>3, RowsStay DEF Resume
<1>4. CASE BeginCode
  BY <1>4, BeginCodeRows
<1>5. ASSUME NEW items \in SUBSET Facilities, NEW noCoord \in SUBSET items, Page(items, noCoord)
      PROVE  GotHasRows' /\ DoneHasRows'
  BY <1>5, PageRows
<1>6. ASSUME NEW save \in BOOLEAN, EndCode(save)
      PROVE  GotHasRows' /\ DoneHasRows'
  BY <1>6, EndCodeRows
<1>7. CASE BeginMerge
  BY <1>7, RowsStay DEF BeginMerge
<1>8. ASSUME NEW found \in SUBSET bad, Merge(found) PROVE GotHasRows' /\ DoneHasRows'
  BY <1>8, RowsStay DEF Merge
<1>9. CASE Finish
  BY <1>9, RowsStay DEF Finish, Ended
<1>10. ASSUME NEW save \in BOOLEAN, Stop(save) PROVE GotHasRows' /\ DoneHasRows'
  BY <1>10, RowsStay DEF Stop, Ended
<1>11. CASE UNCHANGED pvars
  BY <1>11, RowsStay DEF pvars
<1> QED
  BY <1>1, <1>2, <1>3, <1>4, <1>5, <1>6, <1>7, <1>8, <1>9, <1>10, <1>11 DEF PNext

-----------------------------------------------------------------------------
\* The inductive invariant holds in every reachable state.
THEOREM HistoryInvariance == PSpec => []IInv
<1>1. IInv /\ [PNext]_pvars => IInv'
  BY NextType, NextRows DEF IInv
<1> QED
  BY InitIInv, <1>1, PTL DEF PSpec

\* The shape of the state, for any facilities and codes.
THEOREM HistoryTypes == PSpec => []PostTypeOK
<1>1. IInv => PostTypeOK
  BY DEF IInv
<1> QED
  BY <1>1, HistoryInvariance, PTL

\* A merge closes, of the facilities that a code still lists, at most as many
\* as a complete answer may lack, but for those dropped and the codes that are
\* doubtful (mart_post_hist.sql:4-5, pipeline.py:121-131).
THEOREM ShortfallCloses == PSpec => OnlyShortfallCloses
<1> DEFINE Closing(c) == {f \in up[c] \ dropped : hist[f] = c /\ Closes(f)}
<1>1. ASSUME IInv, [PNext]_pvars, ~moved, NEW c \in Code \ doubtful
      PROVE  Cardinality(Closing(c)) <= MayLack(Cardinality(up[c]))
  <2>0. MayLack(Cardinality(up[c])) \in Nat
    <3>1. up[c] \in SUBSET Facilities
      BY <1>1 DEF IInv, PostTypeOK
    <3> QED
      BY <3>1, HistoryAssumption, FS_Subset, FS_CardinalityType, MayLackType
  <2>1. CASE \E found \in SUBSET bad : Merge(found)
    <3>1. PICK found \in SUBSET bad : Merge(found)
      BY <2>1
    <3>2. ASSUME NEW f \in Closing(c) PROVE f \in Gone
      <4>1. f \in Facilities /\ hist[f] # NoCode /\ hist'[f] = NoCode
        BY <1>1, <3>2 DEF Closes, IInv, PostTypeOK
      <4>2. hist' = Merged(bad')
        BY <3>1 DEF Merge
      <4> QED
        BY <4>1, <4>2 DEF Merged
    <3>3. Closing(c) \in SUBSET Lacking(c)
      BY <3>2 DEF Gone, Lacking, NoCode, Code
    <3>4. CASE Closing(c) = {}
      BY <2>0, <3>4, FS_EmptySet
    <3>5. CASE Closing(c) # {}
      <4>1. c \in done
        BY <3>2, <3>5 DEF Gone, Closable
      <4>2. Few(c)
        BY <1>1, <4>1 DEF IInv, DoneHasRows
      <4>3. Lacking(c) \in SUBSET Facilities
        BY <1>1 DEF IInv, PostTypeOK, Lacking
      <4>4. IsFiniteSet(Lacking(c))
        BY <4>3, HistoryAssumption, FS_Subset
      <4>5. IsFiniteSet(Closing(c)) /\ Cardinality(Closing(c)) <= Cardinality(Lacking(c))
        BY <3>3, <4>4, FS_Subset
      <4>6. Cardinality(Closing(c)) \in Nat /\ Cardinality(Lacking(c)) \in Nat
        BY <4>4, <4>5, FS_CardinalityType
      <4> QED
        BY <2>0, <4>2, <4>5, <4>6 DEF Few
    <3> QED
      BY <3>4, <3>5
  <2>2. CASE UNCHANGED hist
    <3>1. Closing(c) = {}
      BY <2>2 DEF Closes
    <3> QED
      BY <2>0, <3>1, FS_EmptySet
  <2>3. (\E found \in SUBSET bad : Merge(found)) \/ UNCHANGED hist
    <3>1. CASE \E k \in Code, f \in Facilities : Upstream(k, f)
      BY <3>1 DEF Upstream
    <3>2. CASE StartRun \/ Resume \/ BeginCode \/ BeginMerge \/ Finish
      BY <3>2 DEF StartRun, Resume, BeginCode, BeginMerge, Finish
    <3>3. CASE \E items \in SUBSET Facilities : \E noCoord \in SUBSET items :
                 Page(items, noCoord)
      BY <3>3 DEF Page
    <3>4. CASE \E save \in BOOLEAN : EndCode(save)
      BY <3>4 DEF EndCode
    <3>5. CASE \E save \in BOOLEAN : Stop(save)
      BY <3>5 DEF Stop
    <3>6. CASE UNCHANGED pvars
      BY <3>6 DEF pvars
    <3> QED
      BY <1>1, <3>1, <3>2, <3>3, <3>4, <3>5, <3>6 DEF PNext
  <2> QED
    BY <2>1, <2>2, <2>3
<1>2. IInv /\ [PNext]_pvars =>
        [~moved => \A c \in Code \ doubtful :
             Cardinality(Closing(c)) <= MayLack(Cardinality(up[c]))]_pvars
  BY <1>1
<1> QED
  BY <1>2, HistoryInvariance, PTL DEF PSpec, OnlyShortfallCloses

-----------------------------------------------------------------------------
(* The history after a run *)

LEMMA NextListed == IInv /\ RowsListed /\ [PNext]_pvars => RowsListed'
<1> SUFFICES ASSUME IInv, RowsListed, [PNext]_pvars PROVE RowsListed'
  OBVIOUS
<1> USE DEF RowsListed
<1>1. ASSUME NEW c \in Code, NEW f \in Facilities, Upstream(c, f) PROVE RowsListed'
  BY <1>1 DEF Upstream
<1>2. CASE StartRun
  BY <1>2 DEF StartRun, NoRows
<1>3. CASE BeginCode
  BY <1>3 DEF BeginCode
<1>4. ASSUME NEW items \in SUBSET Facilities, NEW noCoord \in SUBSET items, Page(items, noCoord)
      PROVE  RowsListed'
  BY <1>4 DEF Page
<1>5. CASE UNCHANGED <<moved, stg, up>>
  BY <1>5
<1>6. ASSUME NEW save \in BOOLEAN, EndCode(save) PROVE RowsListed'
  BY <1>5, <1>6 DEF EndCode
<1>7. ASSUME NEW found \in SUBSET bad, Merge(found) PROVE RowsListed'
  BY <1>5, <1>7 DEF Merge
<1>8. ASSUME NEW save \in BOOLEAN, Stop(save) PROVE RowsListed'
  BY <1>5, <1>8 DEF Stop
<1>9. CASE Resume \/ BeginMerge \/ Finish \/ UNCHANGED pvars
  BY <1>5, <1>9 DEF Resume, BeginMerge, Finish, pvars
<1> QED
  BY <1>1, <1>2, <1>3, <1>4, <1>6, <1>7, <1>8, <1>9 DEF PNext

\* The merge makes the history follow the rows, and the end of the run keeps it so.
LEMMA NextFollows == IInv /\ HistFollows /\ [PNext]_pvars => HistFollows'
<1> SUFFICES ASSUME IInv, HistFollows, [PNext]_pvars PROVE HistFollows'
  OBVIOUS
<1> USE DEF HistFollows, Covered
<1>1. ASSUME NEW c \in Code, NEW f \in Facilities, Upstream(c, f) PROVE HistFollows'
  BY <1>1 DEF Upstream, runVars
<1>2. CASE StartRun \/ Resume \/ BeginCode \/ BeginMerge
  BY <1>2 DEF StartRun, Resume, BeginCode, BeginMerge, IInv, PostTypeOK
<1>3. ASSUME NEW items \in SUBSET Facilities, NEW noCoord \in SUBSET items, Page(items, noCoord)
      PROVE  HistFollows'
  BY <1>3 DEF Page, IInv, PostTypeOK
<1>4. ASSUME NEW save \in BOOLEAN, EndCode(save) PROVE HistFollows'
  BY <1>4 DEF EndCode, IInv, PostTypeOK
<1>5. ASSUME NEW found \in SUBSET bad, Merge(found) PROVE HistFollows'
  <2>1. step' = "finish" /\ UNCHANGED <<stg, done>>
    BY <1>5 DEF Merge
  <2>2. hist' = Merged(bad')
    BY <1>5 DEF Merge
  <2>3. ASSUME NEW f \in Facilities
        PROVE  /\ stg[f] # NoCode /\ f \notin bad' => hist'[f] = stg[f]
               /\ stg[f] = NoCode => hist'[f] = NoCode \/ hist'[f] \notin Closable
    BY <2>2 DEF Merged, Gone
  <2> QED
    BY <2>1, <2>3 DEF Closable
<1>6. CASE Finish
  <2>1. step = "finish" /\ step' = "none" /\ UNCHANGED <<stg, bad, hist>>
    BY <1>6 DEF Finish, Ended
  <2>2. run' = "DONE" => done = Code
    BY <1>6 DEF Finish
  <2>3. \A f \in Facilities : hist[f] \in Code \cup {NoCode}
    BY DEF IInv, PostTypeOK, Rows
  <2> QED
    BY <2>1, <2>2, <2>3
<1>7. ASSUME NEW save \in BOOLEAN, Stop(save) PROVE HistFollows'
  BY <1>7 DEF Stop, Ended
<1>8. CASE UNCHANGED pvars
  BY <1>8 DEF pvars
<1> QED
  BY <1>1, <1>2, <1>3, <1>4, <1>5, <1>6, <1>7, <1>8 DEF PNext

\* A run that ends DONE has brought the history in line with a service that stood
\* still, for any facilities, codes, tolerance and limit of the merge, after any
\* interruptions and resumptions (pipeline.py:121-131, mart_post_hist.sql).
THEOREM DoneMatches == PSpec => []DoneMatchesService
<1>1. PInit => RowsListed /\ HistFollows
  BY DEF PInit, NoRows, RowsListed, HistFollows
<1>2. ASSUME IInv, RowsListed, HistFollows, run = "DONE", ~moved
      PROVE  DoneMatchesService
  <2>1. step # "finish" /\ saved = Code /\ hist \in Rows
    BY <1>2 DEF IInv, PostTypeOK
  <2>2. ASSUME NEW f \in Facilities, hist[f] # NoCode
        PROVE  f \in Listed \/ \A g \in Facilities : stg[g] # hist[f]
    <3>1. CASE stg[f] # NoCode
      BY <1>2, <3>1 DEF RowsListed, Listed, IInv, PostTypeOK, Rows
    <3>2. CASE stg[f] = NoCode
      BY <1>2, <2>1, <2>2, <3>2 DEF HistFollows, Covered
    <3> QED
      BY <3>1, <3>2
  <2>3. ASSUME NEW c \in Code \ doubtful
        PROVE  Cardinality({f \in up[c] \ (bad \cup dropped) : hist[f] = NoCode})
                   <= MayLack(Cardinality(up[c]))
    <3> DEFINE Closed == {f \in up[c] \ (bad \cup dropped) : hist[f] = NoCode}
    <3>1. Lacking(c) \in SUBSET Facilities /\ c # NoCode
      BY <1>2 DEF IInv, PostTypeOK, Lacking, Code, NoCode
    <3>2. Closed \in SUBSET Lacking(c)
      BY <1>2, <3>1 DEF HistFollows, Lacking, IInv, PostTypeOK
    <3>3. IsFiniteSet(Lacking(c))
      BY <3>1, HistoryAssumption, FS_Subset
    <3>4. IsFiniteSet(Closed) /\ Cardinality(Closed) <= Cardinality(Lacking(c))
      BY <3>2, <3>3, FS_Subset
    <3>5. Cardinality(Closed) \in Nat /\ Cardinality(Lacking(c)) \in Nat
      BY <3>3, <3>4, FS_CardinalityType
    <3>6. Few(c)
      BY <1>2, <2>1 DEF IInv, DoneHasRows
    <3>7. MayLack(Cardinality(up[c])) \in Nat
      <4>1. up[c] \in SUBSET Facilities
        BY <1>2 DEF IInv, PostTypeOK
      <4> QED
        BY <4>1, HistoryAssumption, FS_Subset, FS_CardinalityType, MayLackType
    <3> QED
      BY <3>4, <3>5, <3>6, <3>7 DEF Few
  <2> QED
    BY <2>2, <2>3 DEF DoneMatchesService
<1>3. IInv /\ RowsListed /\ HistFollows => DoneMatchesService
  BY <1>2 DEF DoneMatchesService
<1> QED
  BY <1>1, <1>3, HistoryInvariance, NextListed, NextFollows, PTL DEF PSpec

-----------------------------------------------------------------------------
(* Units that change their codes *)

Units == [code : (DOMAIN SidoName) \X Int, name : Int, places : SUBSET Land]
Sidos == {SidoName[u.code[1]] : u \in World}
\* A number says which piece of land it is, and a name in a province that was there
\* at first says the number.
Fresh(u) == u.code[2] < 0 /\ u.name = u.code[2]
Original(u) == \E w \in World : u.code[2] = w.code[2] /\ u.name = w.name /\ u.places = w.places
UnitsFit(E) ==
  /\ \A u \in E : Original(u) \/ Fresh(u)
  /\ \A u, v \in E : u.code[2] = v.code[2] => u.name = v.name /\ u.places = v.places
  /\ \A u, v \in E : SidoName[u.code[1]] = SidoName[v.code[1]] /\ SidoName[u.code[1]] \in Sidos /\ u.name = v.name
                     => u.code[2] = v.code[2]
\* Where a province appears in the same month as another is gone, it has its units.
Carries(A, B) ==
  \A old, new : (\E u \in B : u.code[1] = new) /\ (\A u \in A : u.code[1] # new) /\ (\A u \in B : u.code[1] # old)
                => \A c \in A : c.code[1] = old => \E d \in B : d.code[1] = new /\ d.code[2] = c.code[2]
HistoryFits ==
  /\ history \in Seq(SUBSET Units) /\ Len(history) > 0 /\ history[1] = World
  /\ IsFiniteSet(Ever) /\ UnitsFit(Ever)
  /\ \A k \in 1 .. Len(history) - 1 : Carries(history[k], history[k + 1])
StoredFits ==
  /\ stored \subseteq (1 .. Len(history)) \X Units
  /\ \A r \in stored : r[2] \in history[r[1]] /\ \A u \in history[r[1]] : <<r[1], u>> \in stored
  /\ seen \subseteq Got
AliasTrue == OneAtATime(seen) => \A c \in DOMAIN alias : alias[c][2] = c[2]
MapTrue ==
  OneAtATime(seen) => \A i \in DOMAIN areaMap : \E u \in World :
    /\ areaMap[i][1][2] = u.code[2] /\ Drawn(i).land \subseteq u.places
    /\ areaMap[i][2] # "CITY" => Drawn(i).land = u.places
RecInv == HistoryFits /\ StoredFits /\ AliasTrue /\ MapTrue

LEMMA RecConstants ==
  /\ World \in SUBSET Units /\ IsFiniteSet(World) /\ DOMAIN SidoName \in SUBSET Nat /\ Window \in Nat /\ Window > 0
  /\ \A u \in World : u.code \in (DOMAIN SidoName) \X Nat /\ u.name \in Nat
  /\ \A u, v \in World : u.code[2] = v.code[2] \/ (SidoName[u.code[1]] = SidoName[v.code[1]] /\ u.name = v.name) => u = v
BY RecodesAssumption DEF Units

LEMMA EverIs ==
  ASSUME history \in Seq(SUBSET Units)
  PROVE  /\ Len(history) \in Nat /\ DOMAIN history = 1 .. Len(history)
         /\ \A m \in 1 .. Len(history) : history[m] \in SUBSET Units /\ history[m] \subseteq Ever
         /\ Ever \in SUBSET Units
         /\ \A u \in Ever : \E m \in 1 .. Len(history) : u \in history[m]
<1>1. Len(history) \in Nat /\ DOMAIN history = 1 .. Len(history) /\ \A m \in 1 .. Len(history) : history[m] \in SUBSET Units
  OBVIOUS
<1>2. \A u : u \in Ever <=> \E m \in DOMAIN history : u \in history[m]
  BY DEF Ever
<1> QED
  BY <1>1, <1>2

LEMMA WorldFits == UnitsFit(World)
BY RecConstants DEF UnitsFit, Original

LEMMA InitRec == RecInit => RecInv
<1> SUFFICES ASSUME RecInit PROVE RecInv
  OBVIOUS
<1>1. history = <<World>> /\ stored = {} /\ alias = <<>> /\ areaMap = <<>> /\ seen = {}
  BY DEF RecInit
<1>2. PICK S : S = SUBSET Units
  OBVIOUS
<1>3. PICK w \in S : w = World
  BY <1>2, RecConstants
<1>4. <<w>> \in Seq(S) /\ Len(<<w>>) = 1 /\ <<w>>[1] = w
  OBVIOUS
<1>5. history \in Seq(SUBSET Units) /\ Len(history) = 1 /\ history[1] = World
  BY <1>1, <1>2, <1>3, <1>4
<1>6. Ever = World
  <2>1. \A u : u \in Ever <=> u \in World
    BY <1>5, EverIs
  <2> QED
    BY <2>1
<1>7. HistoryFits
  BY <1>5, <1>6, WorldFits, RecConstants DEF HistoryFits
<1>8. StoredFits
  BY <1>1 DEF StoredFits
<1>9. DOMAIN alias = {} /\ DOMAIN areaMap = {}
  BY <1>1
<1>10. AliasTrue /\ MapTrue
  BY <1>9 DEF AliasTrue, MapTrue
<1> QED
  BY <1>7, <1>8, <1>10 DEF RecInv

-----------------------------------------------------------------------------
(* A month more, and what happens to provinces in it *)
LEMMA MonthsGot ==
  ASSUME HistoryFits, StoredFits
  PROVE  /\ Len(history) \in Nat /\ Got \subseteq 1 .. Len(history) /\ Got \subseteq Nat
         /\ \A m \in Got : \A u \in history[m] : <<m, u>> \in stored
         /\ \A r \in stored : r[1] \in Got /\ r[2] \in history[r[1]] /\ r[2] \in Ever /\ r[2] \in Units /\ r = <<r[1], r[2]>>
<1>1. Len(history) \in Nat /\ \A m \in 1 .. Len(history) : history[m] \subseteq Ever
  BY EverIs DEF HistoryFits
<1>2. \A r \in stored : r[1] \in 1 .. Len(history) /\ r[2] \in Units /\ r = <<r[1], r[2]>>
  BY DEF StoredFits
<1>3. \A m \in Got : \E r \in stored : m = r[1]
  BY DEF Got
<1>4. \A r \in stored : r[1] \in Got
  BY DEF Got
<1> QED
  BY <1>1, <1>2, <1>3, <1>4 DEF StoredFits

\* What a month may bring.
LEMMA AppendKept ==
  ASSUME RecInv, NEW B \in SUBSET Units, NextMonth(B), IsFiniteSet(B), UnitsFit(Ever \cup B), Carries(Now, B)
  PROVE  RecInv'
<1> USE DEF RecInv
<1>0. /\ history \in Seq(SUBSET Units) /\ Len(history) > 0 /\ history[1] = World /\ IsFiniteSet(Ever)
      /\ \A k \in 1 .. Len(history) - 1 : Carries(history[k], history[k + 1])
  BY DEF HistoryFits
<1>1. history' = Append(history, B) /\ UNCHANGED <<stored, alias, areaMap, seen>>
  BY DEF NextMonth
<1>2. PICK n \in Nat : n = Len(history)
  BY <1>0
<1>3. /\ history' \in Seq(SUBSET Units) /\ Len(history') = n + 1 /\ history'[n + 1] = B
      /\ \A k \in 1 .. n : history'[k] = history[k]
  BY <1>0, <1>1, <1>2
<1>4. Ever' = Ever \cup B
  <2>1. \A u : u \in Ever' <=> \E m \in DOMAIN history' : u \in history'[m]
    BY DEF Ever
  <2>2. \A u : u \in Ever <=> \E m \in DOMAIN history : u \in history[m]
    BY DEF Ever
  <2>3. DOMAIN history' = 1 .. n + 1 /\ DOMAIN history = 1 .. n
    BY <1>0, <1>2, <1>3
  <2>4. \A u : u \in Ever' <=> u \in Ever \/ u \in B
    <3>1. n + 1 \in 1 .. n + 1 /\ \A m \in 1 .. n + 1 : m \in 1 .. n \/ m = n + 1
      OBVIOUS
    <3>2. \A m \in 1 .. n : m \in 1 .. n + 1
      OBVIOUS
    <3> QED
      BY <1>3, <2>1, <2>2, <2>3, <3>1, <3>2
  <2> QED
    BY <2>4
<1>5. Now = history[n]
  BY <1>2 DEF Now
<1>6. \A k \in 1 .. n : Carries(history'[k], history'[k + 1])
  <2> TAKE k \in 1 .. n
  <2>1. CASE k = n
    BY <1>3, <1>5, <2>1
  <2>2. CASE k # n
    <3>1. k \in 1 .. n - 1 /\ k + 1 \in 1 .. n
      BY <2>2
    <3> QED
      BY <1>0, <1>2, <1>3, <3>1
  <2> QED
    BY <2>1, <2>2
<1>7. HistoryFits'
  <2>1. IsFiniteSet(Ever')
    BY <1>0, <1>4, FS_Union
  <2>2. UnitsFit(Ever)'
    BY <1>4 DEF UnitsFit, Original, Fresh
  <2>3. \A k \in 1 .. Len(history') - 1 : Carries(history[k], history[k + 1])'
    <3>1. Len(history') - 1 = n
      BY <1>3
    <3> QED
      BY <1>6, <3>1
  <2>4. history'[1] = World /\ Len(history') > 0
    BY <1>0, <1>2, <1>3
  <2> QED
    BY <1>3, <2>1, <2>2, <2>3, <2>4 DEF HistoryFits
<1>8. Got' = Got /\ Got \subseteq 1 .. n
  BY <1>1, <1>2, MonthsGot DEF Got
<1>9. StoredFits'
  <2>1. \A r \in stored : r[1] \in 1 .. n /\ r[1] \in 1 .. n + 1 /\ r[2] \in Units /\ r = <<r[1], r[2]>>
    BY <1>2 DEF StoredFits
  <2>2. stored' \subseteq (1 .. Len(history')) \X Units
    BY <1>1, <1>3, <2>1
  <2>3. \A r \in stored : history'[r[1]] = history[r[1]]
    BY <1>3, <2>1
  <2> QED
    BY <1>1, <1>8, <2>2, <2>3 DEF StoredFits
<1>10. OneAtATime(seen)' => OneAtATime(seen)
  <2>1. seen \subseteq 1 .. n
    BY <1>8 DEF StoredFits
  <2>2. ASSUME NEW a \in seen, NEW b \in seen PROVE ChangesBetween(a, b)' = ChangesBetween(a, b)
    <3>1. \A k \in a .. b - 1 : k \in 1 .. n /\ k + 1 \in 1 .. n
      BY <2>1
    <3> QED
      BY <1>3, <3>1 DEF ChangesBetween
  <2>3. seen' = seen
    BY <1>1
  <2> QED
    BY <2>2, <2>3 DEF OneAtATime
<1>11. AliasTrue' /\ MapTrue'
  BY <1>1, <1>10 DEF AliasTrue, MapTrue, Drawn
<1> QED
  BY <1>7, <1>9, <1>11

LEMMA SameKept == ASSUME RecInv, Same PROVE RecInv'
<1>1. history \in Seq(SUBSET Units) /\ Len(history) \in Nat /\ Len(history) > 0 /\ IsFiniteSet(Ever) /\ UnitsFit(Ever)
  BY DEF RecInv, HistoryFits
<1>2. Now \in SUBSET Units /\ Now \in SUBSET Ever
  BY <1>1, EverIs DEF Now
<1>3. IsFiniteSet(Now) /\ Ever \cup Now = Ever
  BY <1>1, <1>2, FS_Subset
<1>4. Carries(Now, Now)
  BY DEF Carries
<1> QED
  BY <1>1, <1>2, <1>3, <1>4, AppendKept DEF Same

LEMMA WorldEver == ASSUME HistoryFits PROVE World \subseteq Ever /\ Now \in SUBSET Ever /\ Ever \in SUBSET Units /\ IsFiniteSet(Now)
<1>1. /\ history \in Seq(SUBSET Units) /\ Len(history) \in Nat /\ Len(history) > 0 /\ history[1] = World /\ IsFiniteSet(Ever)
  BY DEF HistoryFits
<1>2. 1 \in 1 .. Len(history) /\ Len(history) \in 1 .. Len(history)
  BY <1>1
<1>3. Now \in SUBSET Ever /\ World \subseteq Ever
  BY <1>1, <1>2, EverIs DEF Now
<1>4. IsFiniteSet(Now)
  BY <1>1, <1>3, FS_Subset
<1> QED
  BY <1>1, <1>3, <1>4, EverIs

LEMMA MovedIs ==
  ASSUME NEW u \in Units, NEW p \in DOMAIN SidoName
  PROVE  Moved(u, p) \in Units /\ Moved(u, p).code = <<p, u.code[2]>> /\ Moved(u, p).code[1] = p
         /\ Moved(u, p).code[2] = u.code[2] /\ Moved(u, p).name = u.name /\ Moved(u, p).places = u.places
BY DEF Moved, Units

\* Units that go to a province have no name that another one has there.
LEMMA MovedFit ==
  ASSUME NEW E \in SUBSET Units, UnitsFit(E), NEW M \in SUBSET E, NEW p \in DOMAIN SidoName, NEW F,
         \A x \in F : x \in E \/ \E u \in M : x = Moved(u, p),
         SidoName[p] \in Sidos => \A u \in M, v \in E \cup M :
           u.name = v.name /\ (v \in M \/ SidoName[v.code[1]] = SidoName[p]) => v.code[2] = u.code[2]
  PROVE  UnitsFit(E \cup F)
<1>0. PICK G : G = E \cup F
  OBVIOUS
<1>1. \A x \in G : \E u \in E :
        /\ x.code[2] = u.code[2]
        /\ x.name = u.name
        /\ x.places = u.places
        /\ (x = u \/ (u \in M /\ x.code[1] = p))
  BY <1>0, MovedIs
<1>2. ASSUME NEW x \in G PROVE Original(x) \/ Fresh(x)
  BY <1>1 DEF UnitsFit, Original, Fresh
<1>3. ASSUME NEW x \in G, NEW y \in G, x.code[2] = y.code[2]
      PROVE  x.name = y.name /\ x.places = y.places
  BY <1>1, <1>3 DEF UnitsFit
<1>4. ASSUME NEW x \in G, NEW y \in G, SidoName[x.code[1]] = SidoName[y.code[1]],
             SidoName[x.code[1]] \in Sidos, x.name = y.name
      PROVE  x.code[2] = y.code[2]
  <2>1. PICK u \in E : x.code[2] = u.code[2] /\ x.name = u.name /\ (x = u \/ (u \in M /\ x.code[1] = p))
    BY <1>1
  <2>2. PICK v \in E : y.code[2] = v.code[2] /\ y.name = v.name /\ (y = v \/ (v \in M /\ y.code[1] = p))
    BY <1>1
  <2>3. CASE x = u /\ y = v
    BY <1>4, <2>3 DEF UnitsFit
  <2>4. CASE u \in M /\ x.code[1] = p
    <3>1. SidoName[p] \in Sidos /\ u.name = v.name
      BY <1>4, <2>1, <2>2, <2>4
    <3>2. v \in E \cup M /\ (v \in M \/ SidoName[v.code[1]] = SidoName[p])
      BY <1>4, <2>2, <2>4
    <3>3. v.code[2] = u.code[2]
      BY <2>4, <3>1, <3>2
    <3> QED
      BY <2>1, <2>2, <3>3
  <2>5. CASE v \in M /\ y.code[1] = p
    <3>1. SidoName[p] \in Sidos /\ v.name = u.name
      BY <1>4, <2>1, <2>2, <2>5
    <3>2. u \in E \cup M /\ (u \in M \/ SidoName[u.code[1]] = SidoName[p])
      BY <1>4, <2>1, <2>5
    <3>3. u.code[2] = v.code[2]
      BY <2>5, <3>1, <3>2
    <3> QED
      BY <2>1, <2>2, <3>3
  <2> QED
    BY <2>1, <2>2, <2>3, <2>4, <2>5
<1> QED
  BY <1>0, <1>2, <1>3, <1>4 DEF UnitsFit

LEMMA RecodedKept ==
  ASSUME RecInv, NEW new \in DOMAIN SidoName, NEW olds \in SUBSET Provinces(Now), Recoded(olds, new)
  PROVE  RecInv'
<1> DEFINE f == [u \in Now |-> IF u.code[1] \in olds THEN Moved(u, new) ELSE u]
           B == {f[u] : u \in Now}
<1>1. World \subseteq Ever /\ Now \in SUBSET Ever /\ Ever \in SUBSET Units /\ IsFiniteSet(Now) /\ UnitsFit(Ever)
  BY WorldEver DEF RecInv, HistoryFits
<1>2. NextMonth({IF u.code[1] \in olds THEN Moved(u, new) ELSE u : u \in Now}) /\ IsNew(new, olds)
  BY DEF Recoded
<1>3. B = {IF u.code[1] \in olds THEN Moved(u, new) ELSE u : u \in Now}
  OBVIOUS
<1>4. \A u \in Now : f[u] = IF u.code[1] \in olds THEN Moved(u, new) ELSE u
  OBVIOUS
<1>5. (\A x \in B : \E u \in Now : x = f[u]) /\ (\A u \in Now : f[u] \in B) /\ f \in Surjection(Now, B)
  BY DEF Surjection
<1> HIDE DEF f, B
<1>6. IsFiniteSet(B)
  BY <1>1, <1>5, FS_Surjection
<1>7. B \in SUBSET Units
  BY <1>1, <1>4, <1>5, MovedIs
<1>8. PICK M : M = {u \in Now : u.code[1] \in olds}
  OBVIOUS
<1>9. UnitsFit(Ever \cup B)
  <2>1. \A x \in B : x \in Ever \/ \E u \in M : x = Moved(u, new)
    BY <1>1, <1>4, <1>5, <1>8
  <2>2. M \in SUBSET Ever
    BY <1>1, <1>8
  <2>3. ASSUME SidoName[new] \in Sidos PROVE \E q : olds = {q} /\ \A v \in Ever : SidoName[v.code[1]] = SidoName[new] => v.code[1] = q
    <3>1. PICK w \in World : SidoName[w.code[1]] = SidoName[new]
      BY <2>3 DEF Sidos
    <3>2. \A v \in Ever : v.code[1] \in Provinces(Ever)
      BY DEF Provinces
    <3>3. \A v \in Ever : SidoName[v.code[1]] = SidoName[new] => olds = {v.code[1]}
      BY <1>2, <3>2 DEF IsNew
    <3>4. olds = {w.code[1]}
      BY <1>1, <3>1, <3>3
    <3>5. \A v \in Ever : SidoName[v.code[1]] = SidoName[new] => v.code[1] = w.code[1]
      BY <3>3, <3>4
    <3> QED
      BY <3>4, <3>5
  <2>4. ASSUME SidoName[new] \in Sidos, NEW u \in M, NEW v \in Ever \cup M, u.name = v.name,
               v \in M \/ SidoName[v.code[1]] = SidoName[new]
        PROVE  v.code[2] = u.code[2]
    <3>1. PICK q : olds = {q} /\ \A x \in Ever : SidoName[x.code[1]] = SidoName[new] => x.code[1] = q
      BY <2>3, <2>4
    <3>2. u.code[1] = q /\ v.code[1] = q /\ u \in Ever /\ v \in Ever
      BY <1>1, <1>8, <2>2, <2>4, <3>1
    <3>3. SidoName[q] \in Sidos
      <4>1. PICK w \in World : SidoName[w.code[1]] = SidoName[new]
        BY <2>4 DEF Sidos
      <4> QED
        BY <1>1, <3>1, <4>1 DEF Sidos
    <3> QED
      BY <1>1, <2>4, <3>2, <3>3 DEF UnitsFit
  <2> QED
    BY <1>1, <2>1, <2>2, <2>4, MovedFit
<1>10. Carries(Now, B)
  <2> SUFFICES ASSUME NEW old, NEW p, \E u \in B : u.code[1] = p, \A u \in Now : u.code[1] # p,
                      \A u \in B : u.code[1] # old, NEW c \in Now, c.code[1] = old
               PROVE  \E d \in B : d.code[1] = p /\ d.code[2] = c.code[2]
    BY DEF Carries
  <2>1. p = new
    BY <1>1, <1>4, <1>5, MovedIs
  <2>2. f[c] \in B /\ f[c].code[1] # old
    BY <1>5
  <2>3. c.code[1] \in olds
    BY <1>4, <2>2
  <2>4. f[c].code[1] = new /\ f[c].code[2] = c.code[2]
    BY <1>1, <1>4, <2>3, MovedIs
  <2> QED
    BY <2>1, <2>2, <2>4
<1> QED
  BY <1>2, <1>3, <1>6, <1>7, <1>9, <1>10, AppendKept

LEMMA CededKept ==
  ASSUME RecInv, NEW u \in Now, NEW p \in DOMAIN SidoName, Ceded(u, p)
  PROVE  RecInv'
<1>1. World \subseteq Ever /\ Now \in SUBSET Ever /\ Ever \in SUBSET Units /\ IsFiniteSet(Now) /\ UnitsFit(Ever)
  BY WorldEver DEF RecInv, HistoryFits
<1>2. /\ p # u.code[1] /\ NextMonth((Now \ {u}) \cup {Moved(u, p)})
      /\ \A v \in Ever : SidoName[v.code[1]] = SidoName[p] => v.name # u.name
  BY DEF Ceded
<1>3. PICK x : x = Moved(u, p)
  OBVIOUS
<1>4. PICK B : B = (Now \ {u}) \cup {x}
  OBVIOUS
<1>5. x \in Units /\ x.code[1] = p /\ x.code[2] = u.code[2]
  BY <1>1, <1>3, MovedIs
<1>6. B \in SUBSET Units
  BY <1>1, <1>4, <1>5
<1>7. IsFiniteSet(B)
  <2>1. Now \ {u} \in SUBSET Now
    OBVIOUS
  <2>2. IsFiniteSet(Now \ {u}) /\ IsFiniteSet({x})
    BY <1>1, <2>1, FS_Subset, FS_Singleton
  <2> QED
    BY <1>4, <2>2, FS_Union
<1>8. UnitsFit(Ever \cup B)
  <2>1. PICK M : M = {u}
    OBVIOUS
  <2>2. M \in SUBSET Ever /\ \A y \in B : y \in Ever \/ \E v \in M : y = Moved(v, p)
    BY <1>1, <1>3, <1>4, <2>1
  <2>3. \A y \in M, v \in Ever \cup M : y.name = v.name /\ (v \in M \/ SidoName[v.code[1]] = SidoName[p]) => v.code[2] = y.code[2]
    BY <1>2, <2>1, <2>2
  <2> QED
    BY <1>1, <2>2, <2>3, MovedFit
<1>9. Carries(Now, B)
  <2> SUFFICES ASSUME NEW old, NEW new, \E v \in B : v.code[1] = new, \A v \in Now : v.code[1] # new,
                      \A v \in B : v.code[1] # old
               PROVE  \A c \in Now : c.code[1] = old => \E d \in B : d.code[1] = new /\ d.code[2] = c.code[2]
    BY DEF Carries
  <2> SUFFICES ASSUME NEW c \in Now, c.code[1] = old
               PROVE  \E d \in B : d.code[1] = new /\ d.code[2] = c.code[2]
    OBVIOUS
  <2>1. x.code[1] = new /\ x \in B
    BY <1>4
  <2>2. c = u
    BY <1>4
  <2> QED
    BY <1>5, <2>1, <2>2
<1> QED
  BY <1>2, <1>3, <1>4, <1>6, <1>7, <1>8, <1>9, AppendKept

LEMMA CutUpKept ==
  ASSUME RecInv, NEW u \in Now, CutUp(u)
  PROVE  RecInv'
<1>1. /\ World \subseteq Ever /\ Now \in SUBSET Ever /\ Ever \in SUBSET Units /\ IsFiniteSet(Now) /\ UnitsFit(Ever)
      /\ IsFiniteSet(Ever)
  BY WorldEver DEF RecInv, HistoryFits
<1> DEFINE f == [v \in Ever |-> v.code[2]]
           R == {f[v] : v \in Ever}
           I == {0} \cup R
<1>2. I = {0} \cup {v.code[2] : v \in Ever}
  OBVIOUS
<1>3. I \in SUBSET Int /\ 0 \in I /\ \A v \in Ever : v.code[2] \in I
  BY <1>1 DEF Units
<1>4. f \in Surjection(Ever, R)
  BY DEF Surjection
<1>5. IsFiniteSet(I)
  <2> HIDE DEF f, R
  <2>1. IsFiniteSet(R) /\ IsFiniteSet({0})
    BY <1>1, <1>4, FS_Surjection, FS_Singleton
  <2> QED
    BY <2>1, FS_Union
<1> HIDE DEF I, R, f
<1>6. PICK n : n = Min(I)
  OBVIOUS
<1>7. n \in Int /\ n <= 0 /\ \A v \in Ever : n <= v.code[2]
  <2>1. \E m \in I : \A i \in I : m <= i
    BY <1>3, <1>5, Extremes
  <2>2. n \in I /\ \A i \in I : n <= i
    BY <1>6, <2>1 DEF Min
  <2> QED
    BY <1>3, <2>2
<1>8. PICK ps \in SUBSET u.places : NextMonth((Now \ {u}) \cup {[code |-> <<u.code[1], n - 1>>, name |-> n - 1, places |-> ps],
                                                             [code |-> <<u.code[1], n - 2>>, name |-> n - 2, places |-> u.places \ ps]})
  BY <1>2, <1>6 DEF CutUp
<1>9. PICK x : x = [code |-> <<u.code[1], n - 1>>, name |-> n - 1, places |-> ps]
  OBVIOUS
<1>10. PICK y : y = [code |-> <<u.code[1], n - 2>>, name |-> n - 2, places |-> u.places \ ps]
  OBVIOUS
<1>11. PICK B : B = (Now \ {u}) \cup {x, y}
  OBVIOUS
<1>12. /\ x.code[1] = u.code[1] /\ x.code[2] = n - 1 /\ x.name = n - 1
       /\ y.code[1] = u.code[1] /\ y.code[2] = n - 2 /\ y.name = n - 2
  BY <1>9, <1>10
<1>13. x \in Units /\ y \in Units
  <2>1. u \in Units /\ u.places \in SUBSET Land /\ u.code[1] \in DOMAIN SidoName
    BY <1>1 DEF Units
  <2>2. n - 1 \in Int /\ n - 2 \in Int /\ ps \in SUBSET Land /\ u.places \ ps \in SUBSET Land
    BY <1>7, <2>1
  <2> QED
    BY <1>9, <1>10, <2>1, <2>2 DEF Units
<1>14. B \in SUBSET Units
  BY <1>1, <1>11, <1>13
<1>15. IsFiniteSet(B)
  <2>1. Now \ {u} \in SUBSET Now
    OBVIOUS
  <2>2. IsFiniteSet(Now \ {u}) /\ IsFiniteSet({x, y})
    <3>1. {x, y} = {x} \cup {y}
      OBVIOUS
    <3>2. IsFiniteSet({x}) /\ IsFiniteSet({y})
      BY FS_Singleton
    <3> QED
      BY <1>1, <2>1, <3>1, <3>2, FS_Subset, FS_Union
  <2> QED
    BY <1>11, <2>2, FS_Union
<1>16. UnitsFit(Ever \cup B)
  <2>1. \A v \in Ever \cup B : v \in Ever \/ v = x \/ v = y
    BY <1>1, <1>11
  <2>2. Fresh(x) /\ Fresh(y) /\ x.code[2] # y.code[2] /\ x.name # y.name
    BY <1>7, <1>12 DEF Fresh
  <2>3. ASSUME NEW v \in Ever PROVE v.code[2] # x.code[2] /\ v.code[2] # y.code[2] /\ v.name # x.name /\ v.name # y.name
    <3>1. v.code[2] \in Int /\ n <= v.code[2]
      BY <1>1, <1>7 DEF Units
    <3>2. v.name \in Nat \/ v.name = v.code[2]
      <4>1. Original(v) => v.name \in Nat
        BY RecConstants DEF Original
      <4> QED
        BY <1>1, <4>1 DEF UnitsFit, Fresh
    <3> QED
      BY <1>7, <1>12, <3>1, <3>2
  <2> QED
    BY <1>1, <2>1, <2>2, <2>3 DEF UnitsFit
<1>17. Carries(Now, B)
  <2> SUFFICES ASSUME NEW new, \E v \in B : v.code[1] = new, \A v \in Now : v.code[1] # new PROVE FALSE
    BY DEF Carries
  <2> QED
    BY <1>11, <1>12
<1> QED
  BY <1>8, <1>9, <1>10, <1>11, <1>14, <1>15, <1>16, <1>17, AppendKept

LEMMA CollectedKept ==
  ASSUME RecInv, NEW months \in SUBSET (DOMAIN history \ Got), Collected(months)
  PROVE  RecInv'
<1>1. /\ stored' = stored \cup UNION {{<<m, u>> : u \in history[m]} : m \in months}
      /\ UNCHANGED <<history, alias, areaMap, seen>>
  BY DEF Collected
<1>2. history \in Seq(SUBSET Units) /\ HistoryFits /\ StoredFits
  BY DEF RecInv, HistoryFits
<1>3. \A m \in months : m \in 1 .. Len(history) /\ history[m] \in SUBSET Units
  BY <1>2
<1>4. \A r : r \in stored' <=> r \in stored \/ \E m \in months : \E u \in history[m] : r = <<m, u>>
  BY <1>1
<1>5. HistoryFits'
  <2>1. Ever' = Ever
    BY <1>1 DEF Ever
  <2>2. UnitsFit(Ever)'
    BY <1>1, <1>2, <2>1 DEF HistoryFits, UnitsFit, Original, Fresh
  <2>3. \A k \in 1 .. Len(history') - 1 : Carries(history'[k], history'[k + 1])
    BY <1>1, <1>2 DEF HistoryFits
  <2> QED
    BY <1>1, <1>2, <2>1, <2>2, <2>3 DEF HistoryFits
<1>6. stored' \subseteq (1 .. Len(history)) \X Units
  BY <1>2, <1>3, <1>4 DEF StoredFits
<1>7. ASSUME NEW r \in stored'
      PROVE  r[2] \in history[r[1]] /\ \A u \in history[r[1]] : <<r[1], u>> \in stored'
  <2>1. CASE r \in stored
    BY <1>2, <1>4, <2>1 DEF StoredFits
  <2>2. CASE \E m \in months : \E u \in history[m] : r = <<m, u>>
    <3>1. PICK m \in months : \E u \in history[m] : r = <<m, u>>
      BY <2>2
    <3>2. r[1] = m /\ r[2] \in history[m]
      BY <3>1
    <3> QED
      BY <1>4, <3>1, <3>2
  <2> QED
    BY <1>4, <2>1, <2>2
<1>8. seen \subseteq Got'
  BY <1>2, <1>4 DEF StoredFits, Got
<1>9. StoredFits'
  BY <1>1, <1>6, <1>7, <1>8 DEF StoredFits
<1>10. OneAtATime(seen)' <=> OneAtATime(seen)
  BY <1>1 DEF OneAtATime, ChangesBetween
<1>11. AliasTrue' /\ MapTrue'
  BY <1>1, <1>10 DEF AliasTrue, MapTrue, RecInv, Drawn
<1> QED
  BY <1>5, <1>9, <1>11 DEF RecInv

-----------------------------------------------------------------------------
(* The aliases of codes *)
\* What the table says of a code.
LEMMA CodeIs ==
  ASSUME HistoryFits, StoredFits, NEW c \in Codes
  PROVE  /\ c \in (DOMAIN SidoName) \X Int
         /\ MonthsOf(c) \in SUBSET Got /\ Max(MonthsOf(c)) \in MonthsOf(c)
         /\ \A m \in MonthsOf(c) : m <= Max(MonthsOf(c)) /\ \E u \in history[m] : u.code = c
         /\ \E u \in Ever : u.code = c
         /\ \A u \in Ever : u.code[2] = c[2] => u.name = NameOf(c)
<1>0. UnitsFit(Ever) /\ Ever \in SUBSET Units
  BY WorldEver DEF HistoryFits
<1>1. PICK r \in stored : r[2].code = c
  BY DEF Codes
<1>2. PICK M : M = MonthsOf(c)
  OBVIOUS
<1>3. \A m \in M : \E s \in stored : s[2].code = c /\ m = s[1]
  BY <1>2 DEF MonthsOf
<1>4. \A s \in stored : s[2].code = c => s[1] \in M
  BY <1>2 DEF MonthsOf
<1>5. M \in SUBSET Got /\ M # {}
  BY <1>1, <1>3, <1>4, MonthsGot
<1>6. Len(history) \in Nat /\ M \in SUBSET (1 .. Len(history)) /\ M \in SUBSET Int
  BY <1>5, MonthsGot
<1>7. IsFiniteSet(M)
  <2>1. IsFiniteSet(1 .. Len(history))
    BY <1>6, FS_Interval
  <2> QED
    BY <1>6, <2>1, FS_Subset
<1>8. PICK g \in M : \A m \in M : g >= m
  BY <1>5, <1>6, <1>7, Extremes
<1>9. Max(M) \in M /\ \A m \in M : Max(M) >= m
  BY <1>8 DEF Max
<1>10. \A m \in M : m <= Max(M)
  <2> TAKE m \in M
  <2>1. m \in Int /\ Max(M) \in Int
    BY <1>6, <1>9
  <2> QED
    BY <1>9, <2>1
<1>11. \A m \in M : \E u \in history[m] : u.code = c
  BY <1>3, MonthsGot
<1>12. r[2] \in Ever /\ r[2].code = c /\ c \in (DOMAIN SidoName) \X Int
  BY <1>0, <1>1, MonthsGot DEF Units
<1>13. PICK q : q = CHOOSE x \in stored : x[2].code = c /\ x[1] = Max(MonthsOf(c))
  OBVIOUS
<1>14. q \in stored /\ q[2].code = c /\ NameOf(c) = q[2].name
  <2>1. \E s \in stored : s[2].code = c /\ s[1] = Max(MonthsOf(c))
    BY <1>2, <1>3, <1>9
  <2>2. q \in stored /\ q[2].code = c
    BY <1>13, <2>1
  <2> QED
    BY <1>13, <2>2 DEF NameOf
<1>15. q[2] \in Ever
  BY <1>14, MonthsGot
<1>16. \A u \in Ever : u.code[2] = c[2] => u.name = NameOf(c)
  BY <1>0, <1>14, <1>15 DEF UnitsFit
<1> QED
  BY <1>2, <1>5, <1>9, <1>10, <1>11, <1>12, <1>16

LEMMA StoredCode ==
  ASSUME HistoryFits, StoredFits, NEW m \in Got, NEW u \in history[m]
  PROVE  u.code \in Codes /\ m \in MonthsOf(u.code) /\ u \in Ever /\ u \in Units
<1>1. <<m, u>> \in stored
  BY MonthsGot
<1>2. <<m, u>>[1] = m /\ <<m, u>>[2] = u
  OBVIOUS
<1> QED
  BY <1>1, <1>2, MonthsGot DEF Codes, MonthsOf

LEMMA CodesFinite ==
  ASSUME HistoryFits, StoredFits
  PROVE  IsFiniteSet(Codes)
<1> DEFINE f == [u \in Ever |-> u.code]
           R == {f[u] : u \in Ever}
<1>1. f \in Surjection(Ever, R)
  BY DEF Surjection
<1>2. \A u \in Ever : u.code \in R
  OBVIOUS
<1> HIDE DEF f, R
<1>3. IsFiniteSet(R)
  BY <1>1, FS_Surjection DEF HistoryFits
<1>4. Codes \in SUBSET R
  <2>1. \A r \in stored : r[2] \in Ever
    BY MonthsGot
  <2> QED
    BY <1>2, <2>1 DEF Codes
<1> QED
  BY <1>3, <1>4, FS_Subset

\* Months without a change are alike.
LEMMA Still ==
  ASSUME NEW a \in Nat, NEW b \in Nat, a <= b, \A k \in a .. b - 1 : history[k + 1] = history[k]
  PROVE  \A j \in a .. b : history[j] = history[a]
<1> DEFINE S == {j \in a .. b : history[j] # history[a]}
<1>1. SUFFICES ASSUME S # {} PROVE FALSE
  OBVIOUS
<1>2. S \in SUBSET Nat
  OBVIOUS
<1>3. PICK j : j = Min(S)
  OBVIOUS
<1>4. j \in S /\ \A i \in S : j <= i
  <2> HIDE DEF S
  <2> QED
    BY <1>1, <1>2, <1>3, LeastNat
<1>5. j \in a .. b /\ history[j] # history[a]
  BY <1>4
<1>6. j # a
  BY <1>5
<1>7. PICK i : i = j - 1
  OBVIOUS
<1>8. i \in a .. b - 1 /\ i \in a .. b /\ i + 1 = j /\ ~(j <= i)
  BY <1>5, <1>6, <1>7
<1>9. history[i] = history[a]
  BY <1>4, <1>8
<1>10. history[i + 1] = history[i]
  BY <1>8
<1> QED
  BY <1>5, <1>8, <1>9, <1>10

\* If at most one change lies between, what appears after it carries what is gone.
LEMMA Gap ==
  ASSUME HistoryFits, NEW m \in 1 .. Len(history), NEW n \in 1 .. Len(history), m < n, Cardinality(ChangesBetween(m, n)) <= 1
  PROVE  Carries(history[m], history[n])
<1>1. Len(history) \in Nat /\ m \in Nat /\ n \in Nat
  BY DEF HistoryFits
<1>2. PICK C : C = ChangesBetween(m, n)
  OBVIOUS
<1>3. C \in SUBSET (m .. n - 1) /\ \A k \in m .. n - 1 : k \in C \/ history[k + 1] = history[k]
  BY <1>2 DEF ChangesBetween
<1>4. IsFiniteSet(C) /\ Cardinality(C) \in Nat
  <2>1. IsFiniteSet(m .. n - 1)
    BY <1>1, FS_Interval
  <2>2. IsFiniteSet(C)
    BY <1>3, <2>1, FS_Subset
  <2> QED
    BY <2>2, FS_CardinalityType
<1>5. CASE C = {}
  <2>1. \A k \in m .. n - 1 : history[k + 1] = history[k]
    BY <1>3, <1>5
  <2>2. history[n] = history[m]
    <3>1. n \in m .. n /\ m <= n
      BY <1>1
    <3> QED
      BY <1>1, <2>1, <3>1, Still
  <2> QED
    BY <2>2 DEF Carries
<1>6. CASE C # {}
  <2>1. Cardinality(C) = 1
    <3>1. Cardinality(C) # 0
      BY <1>4, <1>6, FS_EmptySet
    <3>2. Cardinality(C) <= 1
      BY <1>2
    <3> QED
      BY <1>4, <3>1, <3>2
  <2>2. PICK k : C = {k}
    BY <1>4, <2>1, FS_Singleton
  <2>3. k \in m .. n - 1 /\ k \in Nat /\ k + 1 \in Nat /\ k \in m .. k /\ n \in k + 1 .. n
        /\ k \in 1 .. Len(history) - 1 /\ m <= k /\ k + 1 <= n
    BY <1>1, <1>3, <2>2
  <2>4. \A j \in m .. k - 1 : history[j + 1] = history[j]
    <3>1. \A j \in m .. k - 1 : j \in m .. n - 1 /\ j # k
      BY <1>1, <2>3
    <3> QED
      BY <1>3, <2>2, <3>1
  <2>5. \A j \in k + 1 .. n - 1 : history[j + 1] = history[j]
    <3>1. \A j \in k + 1 .. n - 1 : j \in m .. n - 1 /\ j # k
      BY <1>1, <2>3
    <3> QED
      BY <1>3, <2>2, <3>1
  <2>6. history[k] = history[m]
    BY <1>1, <2>3, <2>4, Still
  <2>7. history[n] = history[k + 1]
    <3>1. PICK i \in Nat : i = k + 1
      BY <2>3
    <3>2. history[n] = history[i]
      <4>1. /\ n \in Nat /\ i <= n /\ n \in i .. n
            /\ \A j \in i .. n - 1 : history[j + 1] = history[j]
        BY <1>1, <2>3, <2>5, <3>1
      <4>2. \A j \in i .. n : history[j] = history[i]
        BY <4>1, Still
      <4> QED
        BY <4>1, <4>2
    <3> QED
      BY <3>1, <3>2
  <2>8. Carries(history[k], history[k + 1])
    BY <2>3 DEF HistoryFits
  <2> QED
    BY <2>6, <2>7, <2>8
<1> QED
  BY <1>5, <1>6

\* Where one change lies between what is compared, the unit that is joined is the
\* one of the same number.
LEMMA Joined ==
  ASSUME HistoryFits, StoredFits, OneAtATime(Got), NEW c \in Codes, NEW p \in Successors(c[1])
  PROVE  \E d : Named(c, p) = {d} /\ d[2] = c[2]
<1>0. PICK old : old = c[1]
  OBVIOUS
<1>1. Cardinality(Ends(old)) = 1 /\ Later(old) # {} /\ p \in {b[1] : b \in Codes} /\ Follows(old, p)
  BY <1>0 DEF Successors
<1>2. Got \subseteq Nat /\ Got \subseteq 1 .. Len(history) /\ Len(history) \in Nat
  BY MonthsGot
<1>3. PICK g : Ends(old) = {g}
  <2>1. Ends(old) \in SUBSET Got
    <3>1. \A b \in UnitsOf(old) : Max(MonthsOf(b)) \in Got
      BY CodeIs DEF UnitsOf
    <3> QED
      BY <3>1 DEF Ends
  <2>2. PICK E : E = Ends(old)
    OBVIOUS
  <2>3. E \in SUBSET (1 .. Len(history))
    BY <1>2, <2>1, <2>2
  <2>5. IsFiniteSet(1 .. Len(history))
    BY <1>2, FS_Interval
  <2>4. IsFiniteSet(E)
    BY <2>3, <2>5, FS_Subset
  <2> QED
    BY <1>1, <2>2, <2>4, FS_Singleton
<1>4. \A b \in UnitsOf(old) : Max(MonthsOf(b)) = g
  <2>1. \A b \in UnitsOf(old) : Max(MonthsOf(b)) \in Ends(old)
    BY DEF Ends
  <2> QED
    BY <1>3, <2>1
<1>5. c \in UnitsOf(old)
  BY <1>0 DEF UnitsOf
<1>6. g \in MonthsOf(c) /\ g \in Got /\ g \in Nat
  <2>1. Max(MonthsOf(c)) \in MonthsOf(c) /\ MonthsOf(c) \in SUBSET Got
    BY CodeIs
  <2> QED
    BY <1>2, <1>4, <1>5, <2>1
<1>7. Max(Ends(old)) = g
  <2>1. \A x \in {g} : x = g
    OBVIOUS
  <2>2. g \in {g} /\ \A y \in {g} : g >= y
    BY <1>6
  <2> QED
    BY <1>3, <2>1, <2>2 DEF Max
<1>8. PICK h : h = Min(Later(old))
  OBVIOUS
<1>9. h \in Got /\ h > g /\ \A m \in Got : m > g => h <= m
  <2>1. Later(old) \in SUBSET Nat /\ \A m : m \in Later(old) <=> m \in Got /\ m > g
    BY <1>2, <1>7 DEF Later
  <2>2. h \in Later(old) /\ \A y \in Later(old) : h <= y
    BY <1>1, <1>8, <2>1, LeastNat
  <2> QED
    BY <2>1, <2>2
<1>10. PICK P : P = UNION {MonthsOf(d) : d \in UnitsOf(p)}
  OBVIOUS
<1>11. \A m : m \in P <=> \E d \in UnitsOf(p) : m \in MonthsOf(d)
  BY <1>10
<1>12. h \in P /\ \A m \in P : h <= m
  <2>1. P \in SUBSET Nat
    <3>1. \A d \in UnitsOf(p) : MonthsOf(d) \in SUBSET Nat
      BY <1>2, CodeIs DEF UnitsOf
    <3> QED
      BY <1>11, <3>1
  <2>2. PICK b \in Codes : b[1] = p
    BY <1>1
  <2>3. P # {}
    <3>1. b \in UnitsOf(p) /\ Max(MonthsOf(b)) \in MonthsOf(b)
      BY <2>2, CodeIs DEF UnitsOf
    <3> QED
      BY <1>11, <3>1
  <2>4. Min(P) = h
    BY <1>1, <1>8, <1>10 DEF Follows
  <2> QED
    BY <2>1, <2>3, <2>4, LeastNat
<1>13. \E u \in history[h] : u.code[1] = p
  <2>1. PICK d \in UnitsOf(p) : h \in MonthsOf(d)
    BY <1>11, <1>12
  <2>2. d \in Codes /\ d[1] = p
    BY DEF UnitsOf
  <2>3. \E u \in history[h] : u.code = d
    BY <2>1, <2>2, CodeIs
  <2> QED
    BY <2>2, <2>3
<1>14. h \in Nat /\ ~(h <= g)
  BY <1>2, <1>6, <1>9
<1>15. \A u \in history[g] : u.code[1] # p
  <2> SUFFICES ASSUME NEW u \in history[g], u.code[1] = p PROVE FALSE
    OBVIOUS
  <2>1. u.code \in UnitsOf(p) /\ g \in MonthsOf(u.code)
    BY <1>6, StoredCode DEF UnitsOf
  <2> QED
    BY <1>11, <1>12, <1>14, <2>1
<1>16. \A u \in history[h] : u.code[1] # old
  <2> SUFFICES ASSUME NEW u \in history[h], u.code[1] = old PROVE FALSE
    OBVIOUS
  <2>1. u.code \in UnitsOf(old) /\ h \in MonthsOf(u.code) /\ u.code \in Codes
    BY <1>9, StoredCode DEF UnitsOf
  <2>2. h <= Max(MonthsOf(u.code))
    BY <2>1, CodeIs
  <2> QED
    BY <1>4, <1>14, <2>1, <2>2
<1>17. Carries(history[g], history[h])
  <2>1. g < h
    BY <1>6, <1>14
  <2>2. \A k \in Got : k <= g \/ k >= h
    <3> TAKE k \in Got
    <3>1. k \in Nat /\ (k > g => h <= k)
      BY <1>2, <1>9
    <3> QED
      BY <1>6, <1>14, <3>1
  <2>3. Cardinality(ChangesBetween(g, h)) <= 1
    BY <1>6, <1>9, <2>1, <2>2 DEF OneAtATime
  <2>4. g \in 1 .. Len(history) /\ h \in 1 .. Len(history)
    BY <1>2, <1>6, <1>9
  <2> QED
    BY <2>1, <2>3, <2>4, Gap
<1>18. PICK u \in history[g] : u.code = c
  BY <1>6, CodeIs
<1>19. PICK d \in history[h] : d.code[1] = p /\ d.code[2] = c[2]
  <2>1. u.code[1] = old
    BY <1>0, <1>18
  <2> QED
    BY <1>13, <1>15, <1>16, <1>17, <1>18, <2>1 DEF Carries
<1>20. d.code \in Codes /\ d \in Ever
  BY <1>9, StoredCode
<1>21. NameOf(d.code) = NameOf(c)
  <2>1. d.name = NameOf(c)
    BY <1>19, <1>20, CodeIs
  <2>2. \A v \in Ever : v.code[2] = d.code[2] => v.name = NameOf(d.code)
    BY <1>20, CodeIs
  <2> QED
    BY <1>20, <2>1, <2>2
<1>22. d.code \in Named(c, p)
  BY <1>19, <1>20, <1>21 DEF Named, UnitsOf
<1>23. PICK N : N = Named(c, p)
  OBVIOUS
<1>24. N \in SUBSET Codes
  BY <1>23 DEF Named, UnitsOf
<1>25. IsFiniteSet(N)
  BY <1>24, CodesFinite, FS_Subset
<1>26. Cardinality(N) = 1
  BY <1>1, <1>5, <1>23 DEF Follows
<1>27. PICK x : N = {x}
  BY <1>25, <1>26, FS_Singleton
<1> QED
  BY <1>19, <1>22, <1>23, <1>27

\* An alias is of the same number as the code it stands for.
LEMMA AliasOnce ==
  ASSUME HistoryFits, StoredFits, OneAtATime(Got)
  PROVE  \A c \in DOMAIN SidoRecodes : SidoRecodes[c][2] = c[2]
<1>1. ASSUME NEW l \in Linked PROVE l[2][2] = l[1][2]
  <2>1. PICK c \in Codes : Successors(c[1]) # {} /\ l = <<c, CHOOSE d \in Named(c, Min(Successors(c[1]))) : TRUE>>
    BY DEF Linked
  <2>2. PICK S : S = Successors(c[1])
    OBVIOUS
  <2>3. S \in SUBSET Nat
    <3>1. \A b \in Codes : b[1] \in Nat
      BY CodeIs, RecConstants
    <3>2. S \in SUBSET {b[1] : b \in Codes}
      BY <2>2 DEF Successors
    <3> QED
      BY <3>1, <3>2
  <2>4. Min(S) \in S
    BY <2>1, <2>2, <2>3, LeastNat
  <2>5. PICK q : q = Min(S)
    OBVIOUS
  <2>6. \E d : Named(c, q) = {d} /\ d[2] = c[2]
    BY <2>2, <2>4, <2>5, Joined
  <2>7. PICK e : e = CHOOSE d \in Named(c, q) : TRUE
    OBVIOUS
  <2>8. e[2] = c[2]
    BY <2>6, <2>7
  <2>9. l = <<c, e>>
    BY <2>1, <2>2, <2>5, <2>7
  <2> QED
    BY <2>8, <2>9
<1> DEFINE kept == {p \in Linked : \A q \in Linked : q[2] = p[2] => q = p}
<1>2. SidoRecodes = [c \in {p[1] : p \in kept} |-> (CHOOSE p \in kept : p[1] = c)[2]]
  BY DEF SidoRecodes
<1>3. kept \subseteq Linked
  OBVIOUS
<1> HIDE DEF kept
<1>4. ASSUME NEW c \in {p[1] : p \in kept} PROVE SidoRecodes[c][2] = c[2]
  <2>1. PICK p : p = CHOOSE q \in kept : q[1] = c
    OBVIOUS
  <2>2. p \in kept /\ p[1] = c
    BY <1>4, <2>1
  <2>3. SidoRecodes[c] = p[2]
    BY <1>2, <1>4, <2>1
  <2> QED
    BY <1>1, <1>3, <2>2, <2>3
<1> QED
  BY <1>2, <1>4

-----------------------------------------------------------------------------
(* The map of areas *)
\* Of finitely many codes one is the highest.
LEMMA LastIn ==
  ASSUME NEW S, IsFiniteSet(S), S # {}, \A c \in S : c[1] \in Int /\ c[2] \in Int
  PROVE  LastCode(S) \in S
<1> DEFINE f == [c \in S |-> c[1]]
           g == [c \in S |-> c[2]]
<1>1. \A c \in S : f[c] = c[1] /\ f[c] \in Int /\ g[c] = c[2] /\ g[c] \in Int
  OBVIOUS
<1> HIDE DEF f, g
<1>2. PICK a \in S : \A c \in S : f[c] <= f[a]
  BY <1>1, Greatest
<1>3. PICK T : T = {c \in S : f[c] = f[a]}
  OBVIOUS
<1>4. T \in SUBSET S /\ T # {} /\ \A c \in T : g[c] \in Int
  BY <1>1, <1>3
<1>5. IsFiniteSet(T)
  BY <1>4, FS_Subset
<1>6. PICK b \in T : \A c \in T : g[c] <= g[b]
  BY <1>4, <1>5, Greatest
<1>7. b \in S /\ f[b] = f[a]
  BY <1>3
<1>8. ASSUME NEW d \in S PROVE d[1] < b[1] \/ (d[1] = b[1] /\ d[2] <= b[2])
  <2>1. f[d] <= f[b] /\ f[d] \in Int /\ f[b] \in Int
    BY <1>1, <1>2, <1>7
  <2>2. f[d] = f[b] => g[d] <= g[b]
    BY <1>3, <1>6, <1>7
  <2>3. f[d] < f[b] \/ (f[d] = f[b] /\ g[d] <= g[b])
    BY <2>1, <2>2
  <2> QED
    BY <1>1, <1>7, <2>3
<1>9. \E c \in S : \A d \in S : d[1] < c[1] \/ (d[1] = c[1] /\ d[2] <= c[2])
  BY <1>7, <1>8
<1> QED
  BY <1>9, Zenon DEF LastCode

\* An area is matched to the piece of land that it is or lies in.
LEMMA MatchedTrue ==
  ASSUME HistoryFits, StoredFits, NEW a \in Areas, NEW m \in Matched(a)
  PROVE  \E w \in World : m[1][2] = w.code[2] /\ a.land \subseteq w.places /\ (m[2] # "CITY" => a.land = w.places)
<1>1. PICK w \in World : DrawnOf(a, w)
  BY RecodesAssumption
<1>2. a.name \in Nat /\ None \notin Nat \X Int /\ DOMAIN SidoName \subseteq Nat
  BY RecodesAssumption
<1>3. UnitsFit(Ever) /\ w \in Ever
  BY WorldEver DEF HistoryFits
<1>4. a.sido = SidoName[w.code[1]] /\ a.sido \in Sidos
  BY <1>1 DEF DrawnOf, Sidos
<1>5. a.city = None => a.code \in {None, w.code} /\ a.name = w.name /\ a.land = w.places
  BY <1>1 DEF DrawnOf
<1>6. a.city # None =>
        /\ a.city = w.name /\ a.land \subseteq w.places /\ \A v \in World : v.name # a.name
        /\ a.code # None => /\ a.code[2] \in Nat \ Numbers /\ SidoName[a.code[1]] = a.sido /\ CityCode[a.code][1] = a.code[1]
  BY <1>1 DEF DrawnOf
\* A unit that has the name of an original one in its province is that one.
<1>7. ASSUME NEW c \in Codes, SidoName[c[1]] = a.sido, NameOf(c) = w.name PROVE c[2] = w.code[2]
  <2>1. PICK u \in Ever : u.code = c
    BY CodeIs
  <2>2. u.name = NameOf(c)
    BY <2>1, CodeIs
  <2> QED
    BY <1>3, <1>4, <1>7, <2>1, <2>2 DEF UnitsFit
<1>8. ASSUME NEW n, ByName(a.sido, n) # {}
      PROVE  LET c == LastCode(ByName(a.sido, n)) IN c \in Codes /\ SidoName[c[1]] = a.sido /\ NameOf(c) = n
  <2>1. PICK S : S = ByName(a.sido, n)
    OBVIOUS
  <2>2. S \in SUBSET Codes
    BY <2>1 DEF ByName
  <2>3. IsFiniteSet(S) /\ \A c \in S : c[1] \in Int /\ c[2] \in Int
    BY <1>2, <2>2, CodesFinite, CodeIs, FS_Subset
  <2>4. LastCode(S) \in S
    BY <1>8, <2>1, <2>3, LastIn
  <2>5. PICK c : c = LastCode(S)
    OBVIOUS
  <2>6. c \in Codes /\ SidoName[c[1]] = a.sido /\ NameOf(c) = n
    BY <2>1, <2>4, <2>5 DEF ByName
  <2> QED
    BY <2>1, <2>5, <2>6
<1>9. CASE a.code \in Codes
  <2>1. m = <<a.code, "KOSIS_CD">>
    BY <1>9 DEF Matched
  <2>2. a.code \in Nat \X Int
    BY <1>2, <1>9, CodeIs
  <2>3. a.city = None
    <3> SUFFICES ASSUME a.city # None PROVE FALSE
      OBVIOUS
    <3>1. a.code[2] \in Nat \ Numbers
      BY <1>2, <1>6, <2>2
    <3>2. PICK u \in Ever : u.code = a.code
      BY <1>9, CodeIs
    <3>3. Original(u) => u.code[2] \in Numbers
      BY DEF Original, Numbers
    <3>4. Fresh(u) => ~(u.code[2] \in Nat)
      BY DEF Fresh
    <3> QED
      BY <1>3, <3>1, <3>2, <3>3, <3>4 DEF UnitsFit
  <2>4. m[1] = w.code /\ a.land = w.places
    BY <1>2, <1>5, <2>1, <2>2, <2>3
  <2> QED
    BY <2>4
<1>10. CASE a.code \notin Codes /\ ByName(a.sido, a.name) # {}
  <2>1. PICK c : c = LastCode(ByName(a.sido, a.name))
    OBVIOUS
  <2>2. m = <<c, "NAME">>
    BY <1>10, <2>1 DEF Matched
  <2>3. c \in Codes /\ SidoName[c[1]] = a.sido /\ NameOf(c) = a.name
    BY <1>8, <1>10, <2>1
  <2>4. a.city = None
    <3> SUFFICES ASSUME a.city # None PROVE FALSE
      OBVIOUS
    <3>1. PICK u \in Ever : u.code = c
      BY <2>3, CodeIs
    <3>2. u.name = a.name
      BY <2>3, <3>1, CodeIs
    <3>3. Original(u) => \E v \in World : v.name = a.name
      BY <3>2 DEF Original
    <3>4. Fresh(u) => ~(a.name \in Nat)
      BY <3>2 DEF Fresh
    <3> QED
      BY <1>2, <1>3, <1>6, <3>3, <3>4 DEF UnitsFit
  <2>5. c[2] = w.code[2] /\ a.land = w.places
    BY <1>5, <1>7, <2>3, <2>4
  <2> QED
    BY <2>2, <2>5
<1>11. CASE a.code \notin Codes /\ ByName(a.sido, a.name) = {}
  <2>1. a.city # None
    BY <1>11 DEF Matched
  <2>2. CASE a.code # None /\ CityCode[a.code] \in Codes /\ NameOf(CityCode[a.code]) = a.city
    <3>1. PICK c : c = CityCode[a.code]
      OBVIOUS
    <3>2. m = <<c, "CITY">>
      BY <1>11, <2>1, <2>2, <3>1 DEF Matched
    <3>3. c \in Codes /\ SidoName[c[1]] = a.sido /\ NameOf(c) = w.name
      BY <1>6, <2>1, <2>2, <3>1
    <3> QED
      BY <1>6, <1>7, <2>1, <3>2, <3>3
  <2>3. CASE ~(a.code # None /\ CityCode[a.code] \in Codes /\ NameOf(CityCode[a.code]) = a.city)
    <3>1. ByName(a.sido, a.city) # {}
      BY <1>11, <2>1, <2>3 DEF Matched
    <3>2. PICK c : c = LastCode(ByName(a.sido, a.city))
      OBVIOUS
    <3>3. m = <<c, "CITY">>
      BY <1>11, <2>1, <2>3, <3>1, <3>2 DEF Matched
    <3>4. c \in Codes /\ SidoName[c[1]] = a.sido /\ NameOf(c) = w.name
      BY <1>6, <1>8, <2>1, <3>1, <3>2
    <3> QED
      BY <1>6, <1>7, <2>1, <3>3, <3>4
  <2> QED
    BY <2>2, <2>3
<1> QED
  BY <1>9, <1>10, <1>11

LEMMA DrawnIs == ASSUME NEW a \in Areas PROVE Drawn(a.id) = a
BY RecodesAssumption DEF Drawn

LEMMA RebuildKept == ASSUME RecInv, Rebuild PROVE RecInv'
<1>1. alias' = SidoRecodes /\ seen' = Got /\ UNCHANGED <<history, stored>>
  BY DEF Rebuild
<1>2. HistoryFits /\ StoredFits
  BY DEF RecInv
<1>3. HistoryFits'
  <2>1. Ever' = Ever
    BY <1>1 DEF Ever
  <2>2. UnitsFit(Ever)'
    BY <1>1, <1>2, <2>1 DEF HistoryFits, UnitsFit, Original, Fresh
  <2>3. \A k \in 1 .. Len(history') - 1 : Carries(history'[k], history'[k + 1])
    BY <1>1, <1>2 DEF HistoryFits
  <2> QED
    BY <1>1, <1>2, <2>1, <2>2, <2>3 DEF HistoryFits
<1>4. StoredFits'
  BY <1>1, <1>2 DEF StoredFits, Got
<1>5. OneAtATime(seen)' => OneAtATime(Got)
  BY <1>1 DEF OneAtATime, ChangesBetween
<1>6. OneAtATime(Got) => \A c \in DOMAIN alias' : alias'[c][2] = c[2]
  BY <1>1, <1>2, AliasOnce
<1>7. AliasTrue'
  BY <1>5, <1>6 DEF AliasTrue
<1> DEFINE matched == [a \in Areas |-> Matched(a)]
           Found == {b \in Areas : matched[b] # {}}
           first(i) == CHOOSE m \in matched[Drawn(i)] : TRUE
<1>8. areaMap' = [i \in {a.id : a \in Found} |-> <<Follow(alias', first(i)[1]), first(i)[2]>>]
  BY DEF Rebuild
<1>9. \A a \in Found : a \in Areas /\ Matched(a) # {} /\ matched[a] = Matched(a)
  OBVIOUS
<1> HIDE DEF matched, Found
<1>10. ASSUME OneAtATime(Got), NEW i \in DOMAIN areaMap'
       PROVE  \E w \in World : /\ areaMap'[i][1][2] = w.code[2] /\ Drawn(i).land \subseteq w.places
                               /\ areaMap'[i][2] # "CITY" => Drawn(i).land = w.places
  <2>1. PICK a \in Found : i = a.id
    BY <1>8, <1>10
  <2>2. a \in Areas /\ Matched(a) # {} /\ matched[a] = Matched(a)
    BY <1>9
  <2>3. Drawn(i) = a
    BY <2>1, <2>2, DrawnIs
  <2>4. PICK m : m = first(i)
    OBVIOUS
  <2>5. m \in Matched(a)
    BY <2>2, <2>3, <2>4
  <2>6. areaMap'[i] = <<Follow(alias', m[1]), m[2]>>
    BY <1>8, <1>10, <2>4
  <2>7. Follow(alias', m[1])[2] = m[1][2]
    BY <1>6, <1>10 DEF Follow
  <2>8. PICK w \in World : m[1][2] = w.code[2] /\ a.land \subseteq w.places /\ (m[2] # "CITY" => a.land = w.places)
    BY <1>2, <2>2, <2>5, MatchedTrue
  <2>9. areaMap'[i][1][2] = w.code[2] /\ areaMap'[i][2] = m[2]
    BY <2>6, <2>7, <2>8
  <2> QED
    BY <2>3, <2>8, <2>9
<1>11. MapTrue'
  BY <1>5, <1>10 DEF MapTrue, Drawn
<1> QED
  BY <1>3, <1>4, <1>7, <1>11 DEF RecInv

-----------------------------------------------------------------------------
(* The sums *)
LEMMA RecStep == ASSUME RecInv, [RecNext]_recVars PROVE RecInv'
<1>1. CASE Same
  BY <1>1, SameKept
<1>2. CASE Rebuild
  BY <1>2, RebuildKept
<1>3. ASSUME NEW months \in SUBSET (DOMAIN history \ Got), Collected(months) PROVE RecInv'
  BY <1>3, CollectedKept
<1>4. ASSUME NEW u \in Now, CutUp(u) PROVE RecInv'
  BY <1>4, CutUpKept
<1>5. ASSUME NEW u \in Now, NEW p \in DOMAIN SidoName, Ceded(u, p) PROVE RecInv'
  BY <1>5, CededKept
<1>6. ASSUME NEW new \in DOMAIN SidoName, NEW olds \in SUBSET Provinces(Now), Recoded(olds, new) PROVE RecInv'
  BY <1>6, RecodedKept
<1>7. CASE UNCHANGED recVars
  <2>1. UNCHANGED <<history, stored, alias, areaMap, seen>>
    BY <1>7 DEF recVars
  <2>2. Ever' = Ever /\ Got' = Got /\ (OneAtATime(seen)' <=> OneAtATime(seen))
    BY <2>1 DEF Ever, Got, OneAtATime, ChangesBetween
  <2>3. HistoryFits' /\ StoredFits'
    <3>1. HistoryFits /\ StoredFits
      BY DEF RecInv
    <3>2. UnitsFit(Ever)'
      BY <2>1, <2>2, <3>1 DEF HistoryFits, UnitsFit, Original, Fresh
    <3>3. \A k \in 1 .. Len(history') - 1 : Carries(history'[k], history'[k + 1])
      BY <2>1, <3>1 DEF HistoryFits
    <3>4. HistoryFits'
      BY <2>1, <2>2, <3>1, <3>2, <3>3 DEF HistoryFits
    <3>5. StoredFits'
      BY <2>1, <2>2, <3>1 DEF StoredFits
    <3> QED
      BY <3>4, <3>5
  <2>4. AliasTrue' /\ MapTrue'
    BY <2>1, <2>2 DEF RecInv, AliasTrue, MapTrue, Drawn
  <2> QED
    BY <2>3, <2>4 DEF RecInv
<1> QED
  BY <1>1, <1>2, <1>3, <1>4, <1>5, <1>6, <1>7 DEF RecNext

\* Whatever becomes of provinces and whichever months come when: a code, its
\* alias and the area it is matched to are of one piece of land, unless two
\* changes lay in one gap of the months that were there.
THEOREM RecInvariance == RecSpec => []RecInv
<1>1. RecInv /\ [RecNext]_recVars => RecInv'
  BY RecStep
<1> QED
  BY InitRec, <1>1, PTL DEF RecSpec

\* The least and the greatest of the months summed are those of the window.
LEMMA MonthsAreLast ==
  ASSUME HistoryFits, StoredFits, WindowOk, NEW unit, HasAll(unit)
  PROVE  {r[1] : r \in Summed(unit)} = LastMonths
<1>1. PICK A : A = {r[1] : r \in Summed(unit)}
  OBVIOUS
<1>2. PICK L : L = LastMonths
  OBVIOUS
<1>3. A \in SUBSET L
  <2>1. \A r \in Summed(unit) : r[1] \in LastMonths
    BY DEF Summed
  <2> QED
    BY <1>1, <1>2, <2>1
<1>4. IsFiniteSet(L)
  <2>1. Got \subseteq 1 .. Len(history) /\ Len(history) \in Nat
    BY MonthsGot
  <2>2. L \in SUBSET (1 .. Len(history))
    BY <1>2, <2>1 DEF LastMonths
  <2>3. IsFiniteSet(1 .. Len(history))
    BY <2>1, FS_Interval
  <2> QED
    BY <2>2, <2>3, FS_Subset
<1>5. Cardinality(A) = Window /\ Cardinality(L) = Window
  BY <1>1, <1>2 DEF WindowOk, HasAll
<1>6. A = L
  BY <1>3, <1>4, <1>5, FS_Subset
<1> QED
  BY <1>1, <1>2, <1>6

LEMMA SumTrue == RecInv => SummedOnce
<1> SUFFICES ASSUME RecInv, OneAtATime(seen), NEW i \in DOMAIN areaMap, Metric(i) # {}
             PROVE  LET rows == Metric(i)  months == {r[1] : r \in rows} IN
                      /\ Cardinality(months) = Window /\ Cardinality(rows) = Window
                      /\ Max(months) = Min(months) + Window - 1
                      /\ \E u \in World : /\ {r[2].places : r \in rows} = {u.places} /\ Drawn(i).land \subseteq u.places
                                          /\ areaMap[i][2] # "CITY" => Drawn(i).land = u.places
  BY Zenon DEF SummedOnce
<1>1. HistoryFits /\ StoredFits /\ UnitsFit(Ever)
  BY DEF RecInv, HistoryFits
<1>2. PICK unit : unit = areaMap[i][1]
  OBVIOUS
<1>3. PICK rows : rows = Summed(unit)
  OBVIOUS
<1>4. WindowOk /\ HasAll(unit) /\ Metric(i) = rows /\ rows # {}
  BY <1>2, <1>3 DEF Metric
<1>5. PICK months : months = {r[1] : r \in rows}
  OBVIOUS
<1>6. months = LastMonths
  BY <1>1, <1>3, <1>4, <1>5, MonthsAreLast
<1>7. Cardinality(months) = Window /\ Cardinality(rows) = Window
  BY <1>3, <1>4, <1>5 DEF HasAll
<1>8. Max(months) = Min(months) + Window - 1
  BY <1>4, <1>6 DEF WindowOk
<1>9. PICK w \in World : /\ unit[2] = w.code[2] /\ Drawn(i).land \subseteq w.places
                         /\ areaMap[i][2] # "CITY" => Drawn(i).land = w.places
  BY <1>2 DEF RecInv, MapTrue
<1>10. ASSUME NEW r \in rows PROVE r[2].places = w.places
  <2>1. r \in stored /\ Follow(alias, r[2].code) = unit
    BY <1>3 DEF Summed
  <2>2. unit[2] = r[2].code[2]
    BY <2>1 DEF Follow, RecInv, AliasTrue
  <2>3. r[2] \in Ever /\ w \in Ever
    BY <1>1, <2>1, MonthsGot, WorldEver
  <2> QED
    BY <1>1, <1>9, <2>2, <2>3 DEF UnitsFit
<1>11. {r[2].places : r \in rows} = {w.places}
  BY <1>4, <1>10
<1>12. months = {r[1] : r \in Metric(i)}
  BY <1>4, <1>5
<1>13. {r[2].places : r \in Metric(i)} = {w.places}
  BY <1>4, <1>11
<1> QED
  BY <1>4, <1>7, <1>8, <1>9, <1>12, <1>13, Zenon

\* What is summed for an area is a row for each month, all of the piece of land
\* that the area is or the city it lies in: for any units, names, changes and
\* months received, while no two changes lay in one gap (migration.py:170-223,
\* 12_migration.sql:14-34).
THEOREM RowsSummedOnce == RecSpec => []SummedOnce
  BY RecInvariance, SumTrue, PTL
=============================================================================
