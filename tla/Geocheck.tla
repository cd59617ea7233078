------------------------------ MODULE Geocheck ------------------------------
(***************************************************************************)
(* collector/kakao/geocheck.py: the coordinates of facilities are compared *)
(* with those of their addresses.  Addresses are looked up once, through   *)
(* mart.geocode_cache, which the collection of facilities fills as well    *)
(* (fill_missing_coords): the two read, ask and write without a lock.      *)
(***************************************************************************)
EXTENDS Collect, SequencesExt

CONSTANTS
  Facilities,  \* the current facilities of CHECK_DIVS, in order
  AddrOf,      \* [facility -> its cleaned address]
  NoAddr,      \* the empty one
  Known,       \* addresses the service finds at once
  KnownShort,  \* those it finds without the name of the province
  Long,        \* addresses of three words or more
  MaxChecks    \* max_checks

\* The service finds no place for an empty text.
ASSUME GeocheckAssumption == NoAddr \notin Known \cup KnownShort

VARIABLES
  cache,    \* [address -> status of mart.geocode_cache, or "none"]
  check,    \* [Facility -> status of mart.facility_geocheck for its present row, or "none"]
  filling,  \* the address fill_missing_coords has found uncached and asks for, or NoAddr
  asking,   \* the same of run_geocheck
  renewed   \* facilities whose row has changed since the run began

geoVars == <<cache, check, filling, asking, renewed>>
Facility == ToSet(Facilities)
Addresses == {AddrOf[f] : f \in Facility}

GeoInit ==
  /\ cache = [a \in Addresses |-> "none"] /\ check = [f \in Facility |-> "none"]
  /\ filling = NoAddr /\ asking = NoAddr /\ renewed = {}

\* What geocode makes of the service's answers: found, not found, or an error at
\* either question.  The second one leaves out the province.
Answer(a) ==
  {"ERROR"} \cup
  IF a \in Known \/ (a \in Long /\ a \in KnownShort) THEN {"OK"} ELSE {"NOT_FOUND"}

AnyRow(st) == st # "none"
\* An error is not an answer: it is asked for again.
Hit(st) == st \notin {"none", "ERROR"}

Due(f) == check[f] \in {"none", "NOT_FOUND"}
GeoBegin ==
  /\ LET due == SelectSeq(Facilities, Due) IN Begin(SubSeq(due, 1, Min({MaxChecks, Len(due)})))
  /\ renewed' = {} /\ UNCHANGED <<cache, check, filling, asking>>
\* The collection of facilities brings another row: no check is of it.
Renew(f) ==
  /\ check' = [check EXCEPT ![f] = "none"] /\ renewed' = renewed \cup {f}
  /\ UNCHANGED <<runVars, cache, filling, asking>>

\* The check is stored for the row that the run has read.
Checked(st) == check' = [check EXCEPT ![Unit] = IF Unit \in renewed THEN @ ELSE st] /\ UNCHANGED renewed
Compared(st) == IF st = "OK" THEN {"OK", "MISMATCH"} ELSE {"NOT_FOUND"}

NoAddress ==
  /\ Passed /\ AddrOf[Unit] = NoAddr
  /\ Checked("NO_ADDR") /\ UNCHANGED <<cache, filling, asking>>
FromCache ==
  /\ Passed /\ asking = NoAddr /\ AddrOf[Unit] # NoAddr /\ Hit(cache[AddrOf[Unit]])
  /\ \E st \in Compared(cache[AddrOf[Unit]]) : Checked(st)
  /\ UNCHANGED <<cache, filling, asking>>
Ask ==
  /\ Held /\ asking = NoAddr /\ AddrOf[Unit] # NoAddr /\ ~Hit(cache[AddrOf[Unit]])
  /\ asking' = AddrOf[Unit] /\ UNCHANGED <<cache, check, filling, renewed>>
Answered ==
  /\ Passed /\ asking # NoAddr /\ asking' = NoAddr
  /\ \E st \in Answer(asking) :
       /\ cache' = [cache EXCEPT ![asking] = st]
       /\ \E r \in Compared(st) : Checked(r)
  /\ UNCHANGED filling
GeoStop == Break /\ asking # NoAddr /\ asking' = NoAddr /\ UNCHANGED <<cache, check, filling, renewed>>

\* remaining: facilities never checked, those not found excepted.
GeoEnd ==
  /\ Finish(IF stopped \/ \E f \in Facility : check[f] = "none" THEN "PARTIAL" ELSE "DONE")
  /\ UNCHANGED geoVars
GeoInterrupted == Interrupted /\ asking' = NoAddr /\ UNCHANGED <<cache, check, filling, renewed>>

\* fill_missing_coords, in the transaction of another collection; its writes to
\* the cache are committed by themselves.
FillAsk(a) ==
  /\ filling = NoAddr /\ a # NoAddr /\ ~Hit(cache[a]) /\ filling' = a
  /\ UNCHANGED <<runVars, cache, check, asking, renewed>>
FillAnswered ==
  /\ filling # NoAddr /\ filling' = NoAddr
  /\ \/ \E st \in Answer(filling) : cache' = [cache EXCEPT ![filling] = st]
     \/ UNCHANGED cache   \* KakaoStop, or the process dies
  /\ UNCHANGED <<runVars, check, asking, renewed>>

GeoNext ==
  \/ GeoBegin \/ NoAddress \/ FromCache \/ Ask \/ Answered \/ GeoStop \/ GeoEnd \/ GeoInterrupted
  \/ \E f \in Facility : Renew(f)
  \/ \E a \in Addresses : FillAsk(a)
  \/ FillAnswered
GeoSpec == CollectInit /\ GeoInit /\ [][GeoNext]_<<runVars, geoVars>>

-----------------------------------------------------------------------------
\* An address the service knows is never given up: a facility that has it is
\* compared, or the next run takes it up and asks the service or finds the answer
\* in the cache.  No error of either collection, nor one that overwrites the
\* other's answer, is taken for "not found" (the comment at line 37).
KnownIsNotGivenUp ==
  \A f \in Facility :
    LET a == AddrOf[f] IN
    a \in Known \cup (KnownShort \cap Long) =>
      check[f] \in {"OK", "MISMATCH"} \/ (Due(f) /\ (cache[a] = "OK" \/ ~Hit(cache[a])))
=============================================================================
