-------------------------------- MODULE Kosis --------------------------------
(***************************************************************************)
(* collector/kosis/pipeline.py: the residents of areas, province by        *)
(* province, kept in memory until all have been asked and then stored in   *)
(* one transaction that replaces what the answers cover.                   *)
(***************************************************************************)
EXTENDS Collect

CONSTANTS
  KosisSidos,   \* the provinces of the table's metadata, sorted
  Active,       \* those of them whose name SGIS has in the stat year
  Below         \* [province -> function from its districts to the areas below each]

ASSUME KosisAssumption ==
  KosisSidos \in Seq(DOMAIN Below) /\ Active \subseteq {KosisSidos[i] : i \in DOMAIN KosisSidos}

VARIABLES
  values,    \* areas with a value in this run
  resident,  \* [area -> the run that stored its mart.area_resident_pop row, or 0]
  written    \* the transaction of this run has been committed

kosisVars == <<values, resident, written>>

Within(s) == DOMAIN Below[s] \cup UNION {Below[s][d] : d \in DOMAIN Below[s]}
Resident == UNION {Within(s) : s \in DOMAIN Below}

KosisInit == values = {} /\ resident = [a \in Resident |-> 0] /\ written = FALSE

KosisBegin ==
  /\ Begin(KosisSidos) /\ values' = {} /\ written' = FALSE
  /\ UNCHANGED resident

\* A province that SGIS knows must answer with rows; one that it does not know
\* may not exist at the time.
Empty(s, got) == FALSE
MustHave(s, got) == s \in Active /\ got = {}
SidoAnswers ==
  /\ Busy
  /\ \E got \in SUBSET Within(Unit) :
       IF MustHave(Unit, got) THEN Failure /\ UNCHANGED values
       ELSE Success /\ values' = values \cup got
  /\ UNCHANGED <<resident, written>>
\* Error 30, no data.
SidoHasNone ==
  /\ Busy /\ IF Unit \in Active THEN Failure ELSE Passed
  /\ UNCHANGED kosisVars
SidoFailed == Failure /\ UNCHANGED kosisVars

\* match: a district of a province SGIS knows by its value, and what lies below
\* it only with the district.
Matched ==
  (UNION {UNION {{d} \cup Below[s][d] : d \in DOMAIN Below[s] \cap values} : s \in Active}) \cap values

\* With a province missing, only areas matched now are replaced; otherwise the
\* whole year is.  (CHILD_SUM rows, sums of areas below a district that has no
\* row, are deleted and made again each time; the boundaries being as they are,
\* every row below a district came with the district's own.)
KosisStore ==
  /\ status = "RUNNING" /\ todo = <<>> /\ ~written /\ values # {}
  /\ written' = TRUE
  /\ resident' = [a \in Resident |-> IF a \in Matched THEN run ELSE IF failed # {} THEN resident[a] ELSE 0]
  /\ UNCHANGED <<runVars, values>>
KosisEnd == written /\ Finish(Outcome(done # {})) /\ UNCHANGED kosisVars
\* No value at all is an error that leaves everything as it was.
KosisInterrupted == Interrupted /\ UNCHANGED kosisVars

KosisNext ==
  \/ KosisBegin \/ SidoAnswers \/ SidoHasNone \/ SidoFailed
  \/ KosisStore \/ KosisEnd \/ KosisInterrupted
KosisSpec == CollectInit /\ KosisInit /\ [][KosisNext]_<<runVars, kosisVars>>

-----------------------------------------------------------------------------
\* An area loses its residents only if its province has answered in the same run
\* and left the area out: provinces that fail, come empty or answer "no data"
\* keep what they had, and so do all if nothing has come (lines 136, 144, 155).
UnansweredIsKept ==
  [][\A s \in Active : \A a \in Within(s) :
       resident[a] > 0 /\ resident'[a] = 0 => s \in done /\ Within(s) \cap values # {}]_kosisVars

\* After a run that is DONE there are the residents of that run and no others, and
\* each province that SGIS knows has brought some: none was taken for one that did
\* not exist at the time (the comment at line 136).
DoneHasResidents ==
  status = "DONE" =>
    /\ \A s \in Active : s \in done /\ Within(s) \cap values # {}
    /\ \A a \in Resident : resident[a] = IF a \in Matched THEN run ELSE 0
=============================================================================
