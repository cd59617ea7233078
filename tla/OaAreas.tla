------------------------------ MODULE OaAreas ------------------------------
(***************************************************************************)
(* collector/sgis/oa.py: small statistical areas, their populations        *)
(* district by district and their boundaries subdistrict by subdistrict.   *)
(* What has rows already is skipped, so an interrupted run goes on where   *)
(* it was.                                                                 *)
(***************************************************************************)
EXTENDS Collect, SequencesExt

CONSTANTS
  Sggs,      \* districts of the stat year, in order
  Emds,      \* subdistricts, in order
  SggOf      \* [subdistrict -> its district]

\* The codes of districts and of subdistricts differ in length.
ASSUME OaAssumption ==
  /\ Sggs \in Seq(ToSet(Sggs)) /\ Emds \in Seq(ToSet(Emds))
  /\ ToSet(Sggs) \cap ToSet(Emds) = {}

VARIABLES
  people,   \* subdistricts with rows that have a population
  geom,     \* subdistricts with rows that have a boundary
  none      \* units that SGIS has answered with nothing in this run

oaVars == <<people, geom, none>>
OaInit == people = {} /\ geom = {} /\ none = {}

\* refresh asks for everything again.
OaBegin ==
  /\ \E refresh \in BOOLEAN :
       LET have    == IF refresh THEN {} ELSE geom
           havePop == IF refresh THEN {} ELSE {SggOf[e] : e \in people}
       IN  Begin(Only(Sggs, ToSet(Sggs) \ havePop) \o Only(Emds, ToSet(Emds) \ have))
  /\ none' = {} /\ UNCHANGED <<people, geom>>

IsSgg == Unit \in ToSet(Sggs)
EmdsIn(s) == {e \in DOMAIN SggOf : SggOf[e] = s}

\* The rows of a district come in one answer and one transaction; a subdistrict
\* may be without any.
PopAnswer ==
  /\ Success /\ IsSgg
  /\ \E got \in SUBSET EmdsIn(Unit) :
       /\ people' = people \cup got
       /\ none' = IF got = {} THEN none \cup {Unit} ELSE none
  /\ UNCHANGED geom
BoundaryAnswer ==
  /\ Success /\ ~IsSgg
  /\ \/ geom' = geom \cup {Unit} /\ UNCHANGED none
     \/ none' = none \cup {Unit} /\ UNCHANGED geom
  /\ UNCHANGED people

FailedAsNone(code) == TRUE
\* -100, nothing there, for a boundary; any other error is a failure.
NoData(code) == code = "-100"
OaError ==
  /\ Busy
  /\ \E code \in {"-100", "other"} :
       IF ~IsSgg /\ NoData(code)
       THEN Passed /\ none' = IF code = "-100" THEN none \cup {Unit} ELSE none
       ELSE Failure /\ UNCHANGED none
  /\ UNCHANGED <<people, geom>>
OaEnd ==
  /\ Finish(IF failed = {} THEN "DONE" ELSE "PARTIAL")
  /\ UNCHANGED oaVars
OaInterrupted == Interrupted /\ UNCHANGED oaVars

OaNext == OaBegin \/ PopAnswer \/ BoundaryAnswer \/ OaError \/ OaEnd \/ OaInterrupted

-----------------------------------------------------------------------------
\* Once a run ends DONE, however many broken runs it has taken up, every district
\* and subdistrict has rows, or SGIS has answered this run that it has none.
DoneHasAll ==
  status = "DONE" =>
    /\ \A s \in ToSet(Sggs) : s \in none \/ \E e \in EmdsIn(s) : e \in people
    /\ \A e \in ToSet(Emds) : e \in none \/ e \in geom
=============================================================================
