-------------------------------- MODULE Care --------------------------------
(***************************************************************************)
(* collector/datago/care.py: pharmacies and clinics, page by page, while   *)
(* the list of the service grows and shrinks; what was not seen is removed *)
(* only after a complete answer.                                           *)
(***************************************************************************)
EXTENDS Collect, SequencesExt

CONSTANTS
  Place,       \* hpid
  Unusable,    \* those to_row drops: no coordinates, another kind of clinic
  Kinds,       \* SOURCES, in order
  PageRows,    \* PAGE_ROWS
  MaxRemoved,  \* the larger of MAX_REMOVE_RATIO and MIN_REMOVE_GUARD
  FirstList,   \* what the service lists when the model begins
  MaxChanges   \* bound on the changes of the service

ASSUME CareAssumption ==
  /\ PageRows \in Nat \ {0} /\ MaxRemoved \in Nat /\ MaxChanges \in Nat
  /\ Kinds \in Seq(ToSet(Kinds)) /\ FirstList \in [ToSet(Kinds) -> Seq(Place)]

VARIABLES
  listed,      \* [kind -> the list FullData would give now]
  care,        \* [kind -> mart.care_place]
  page,        \* the page collect_kind asks for next; 0 outside of it
  count,       \* st["rows"] + st["skipped"]
  touched,     \* rows whose last_seen is not before started
  rows,        \* stats["rows"] > 0: some kind has returned with rows
  changes,     \* how often the service has changed
  always,      \* what the service has listed ever since collect_kind began
  shrunk       \* it has dropped something since then

careVars == <<listed, care, page, count, touched, rows, changes, always, shrunk>>
kindVars == <<page, count, touched>>
Kind == ToSet(Kinds)

CareInit ==
  /\ listed = FirstList
  /\ care = [k \in Kind |-> ToSet(FirstList[k]) \ Unusable]   \* an earlier collection's
  /\ page = 0 /\ count = 0 /\ touched = {} /\ rows = FALSE
  /\ changes = 0 /\ always = {} /\ shrunk = FALSE

\* The service: a place is added at some position of its list or taken out.
Listed == UNION {ToSet(listed[k]) : k \in Kind}
Open(k, p) ==
  /\ changes < MaxChanges /\ changes' = changes + 1 /\ p \notin Listed
  /\ \E i \in 1 .. Len(listed[k]) + 1 : listed' = [listed EXCEPT ![k] = InsertAt(@, i, p)]
  /\ UNCHANGED <<runVars, care, kindVars, rows, always, shrunk>>
Close(k, p) ==
  /\ changes < MaxChanges /\ changes' = changes + 1 /\ p \in ToSet(listed[k])
  /\ listed' = [listed EXCEPT ![k] = Only(@, Place \ {p})]
  /\ always' = always \ {p} /\ shrunk' = TRUE
  /\ UNCHANGED <<runVars, care, kindVars, rows>>

CareBegin ==
  /\ Begin(Kinds) /\ rows' = FALSE
  /\ UNCHANGED <<listed, care, kindVars, changes, always, shrunk>>

KindBegin ==
  /\ Held /\ page = 0
  /\ page' = 1 /\ count' = 0 /\ touched' = {}
  /\ always' = ToSet(listed[Unit]) /\ shrunk' = FALSE
  /\ UNCHANGED <<listed, care, rows, changes>>

OnPage(k) == SubSeq(listed[k], (page - 1) * PageRows + 1, Min({page * PageRows, Len(listed[k])}))
LastPage(items, t) == items = <<>> \/ page * PageRows >= t

\* One page stored by a transaction of its own.  The service may leave out the
\* items, or the count of all of them.
Page ==
  /\ Held /\ page > 0
  /\ \E t \in {0, Len(listed[Unit])} : \E items \in {<<>>, OnPage(Unit)} :
       LET usable == ToSet(items) \ Unusable IN
       /\ count' = count + Len(items)
       /\ touched' = touched \cup usable
       /\ care' = [care EXCEPT ![Unit] = @ \cup usable]
       /\ ~LastPage(items, t) /\ page' = page + 1
  /\ UNCHANGED <<listed, rows, changes, always, shrunk>>

\* A kind returns: its rows count from then on.
Return == page' = 0 /\ rows' = (rows \/ touched' # {})

AllOf(t, n) == n > 0
\* Everything received: as many items as the service has counted.
Received(t, n) == t # 0 /\ n >= t

\* The last page, and after it the removal of what was not seen.
LastOfKind ==
  /\ Busy /\ page > 0
  /\ \E t \in {0, Len(listed[Unit])} : \E items \in {<<>>, OnPage(Unit)} :
       LET usable == ToSet(items) \ Unusable
           rest   == care[Unit] \cup usable
           unseen == rest \ (touched \cup usable)
           whole  == Received(t, count + Len(items)) /\ Cardinality(unseen) <= MaxRemoved
       IN
       /\ LastPage(items, t)
       /\ count' = count + Len(items) /\ touched' = touched \cup usable
       /\ \/ whole /\ Success /\ care' = [care EXCEPT ![Unit] = rest \ unseen]
          \/ ~whole /\ Failure /\ care' = [care EXCEPT ![Unit] = rest]
  /\ Return
  /\ UNCHANGED <<listed, changes, always, shrunk>>

PageFailed ==
  /\ Failure /\ page > 0
  /\ UNCHANGED <<listed, care, count, touched, changes, always, shrunk>> /\ Return

CareStop ==
  /\ Break /\ page > 0 /\ page' = 0
  /\ UNCHANGED <<listed, care, count, touched, rows, changes, always, shrunk>>

CareEnd ==
  /\ Finish(Outcome(done # {} \/ rows))
  /\ UNCHANGED careVars
CareInterrupted ==
  /\ Interrupted /\ page' = 0
  /\ UNCHANGED <<listed, care, count, touched, rows, changes, always, shrunk>>

CareNext ==
  \/ \E k \in Kind, p \in Place : Open(k, p) \/ Close(k, p)
  \/ CareBegin \/ KindBegin \/ Page \/ LastOfKind \/ PageFailed \/ CareStop \/ CareEnd \/ CareInterrupted

-----------------------------------------------------------------------------
\* A place that the service has listed all the time of a collection is not
\* removed by it, whatever pages are lost, come empty or without a count, and
\* whatever is added to the list meanwhile: only a list that shrinks between two
\* pages can hide it (care.py, "received everything").  And a kind that counts as
\* done has stored all such places.
ListedIsKept ==
  [][\A k \in Kind :
       /\ \A p \in care[k] \ care'[k] : p \in always => shrunk
       /\ \A p \in always \ Unusable : k \in done' \ done /\ ~shrunk => p \in care'[k]]_careVars
=============================================================================
