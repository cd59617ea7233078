------------------------------ MODULE Holidays ------------------------------
(***************************************************************************)
(* collector/datago/holiday.py and collector/weather/air.py: two small     *)
(* collections that must not lose what they have when a call brings        *)
(* nothing.  Holidays are stored year by year; the air forecast is kept in *)
(* memory until its calls are over, of each day the newest announcement.   *)
(***************************************************************************)
EXTENDS Collect

CONSTANTS
  Years,           \* the years asked for
  AirCalls,        \* (day, code) of the calls for the air forecast
  Announcements    \* times of announcement, a set of numbers

ASSUME DayAssumption == Announcements \subseteq Nat /\ IsFiniteSet(Announcements)

VARIABLES
  holiday,    \* [year -> the run whose rows mart.holiday has, or 0]
  air,        \* [call -> announced_at in mart.air_forecast, or 0]
  best,       \* [call -> the newest announcement received in this run, or 0]
  airRun,     \* the run in hand is of the air forecast
  rowsOf      \* years whose answer has had rows in this run

dayVars == <<holiday, air, best, airRun, rowsOf>>
SeqSet(s) == {s[i] : i \in DOMAIN s}

DayInit ==
  /\ holiday = [y \in SeqSet(Years) |-> 0] /\ air = [d \in SeqSet(AirCalls) |-> 0]
  /\ best = [d \in SeqSet(AirCalls) |-> 0] /\ airRun = FALSE /\ rowsOf = {}

HolidaysBegin ==
  /\ Begin(Years) /\ airRun' = FALSE /\ rowsOf' = {}
  /\ UNCHANGED <<holiday, air, best>>
\* A year without rows may not be published yet: it keeps what it has.
Replaces(rows) == rows
Year ==
  /\ ~airRun
  /\ \E rows \in BOOLEAN :
       /\ IF rows THEN Success /\ rowsOf' = rowsOf \cup {Unit} ELSE Passed /\ UNCHANGED rowsOf
       /\ holiday' = IF Replaces(rows) THEN [holiday EXCEPT ![Unit] = IF rows THEN run ELSE 0] ELSE holiday
  /\ UNCHANGED <<air, best, airRun>>

AirBegin ==
  /\ Begin(AirCalls) /\ airRun' = TRUE /\ best' = [d \in SeqSet(AirCalls) |-> 0] /\ rowsOf' = {}
  /\ UNCHANGED <<holiday, air>>
\* latest_by_day over the items of a call, which have several announcements.
AirAnswer ==
  /\ airRun /\ Success
  /\ \E items \in SUBSET Announcements :
       best' = [best EXCEPT ![Unit] = IF items = {} THEN @ ELSE CHOOSE t \in items : \A u \in items : t >= u]
  /\ UNCHANGED <<holiday, air, airRun, rowsOf>>
AirStore ==
  /\ airRun /\ status = "RUNNING" /\ todo = <<>>
  /\ air' = [d \in DOMAIN air |-> IF best[d] >= air[d] THEN best[d] ELSE air[d]]
  /\ UNCHANGED <<runVars, holiday, best, airRun, rowsOf>>

DayFailed == Failure /\ UNCHANGED dayVars
DayStop == Break /\ UNCHANGED dayVars
Some == IF airRun THEN \E d \in DOMAIN best : best[d] > 0 ELSE rowsOf # {}
DayEnd ==
  /\ airRun => \A d \in DOMAIN air : air[d] >= best[d]   \* AirStore has been
  /\ Finish(IF ~Some THEN "FAILED" ELSE IF failed # {} \/ stopped THEN "PARTIAL" ELSE "DONE")
  /\ UNCHANGED dayVars
DayInterrupted == Interrupted /\ UNCHANGED dayVars

DayNext ==
  \/ HolidaysBegin \/ Year \/ AirBegin \/ AirAnswer \/ AirStore
  \/ DayFailed \/ DayStop \/ DayEnd \/ DayInterrupted

-----------------------------------------------------------------------------
\* A year keeps its holidays through runs that fail, stop or bring none of it,
\* and an air forecast gives way only to one announced later (line 52).
DaysAreKept ==
  [][/\ \A y \in DOMAIN holiday : holiday[y] > 0 => holiday'[y] >= holiday[y]
     /\ \A d \in DOMAIN air : air'[d] >= air[d]]_dayVars
=============================================================================
