------------------------------ MODULE CalcAsked ------------------------------
(***************************************************************************)
(* RecalcChain with the parameters of calc jobs: an administrator or the   *)
(* command line may ask for a stat year or levels of its own, and only one *)
(* calc waits, whoever has asked for it.  Collected data of the present    *)
(* year are not in the metrics of another.                                 *)
(***************************************************************************)
EXTENDS RecalcChain

VARIABLES
    asked,     \* "own" if the waiting calc has parameters of its own
    going,     \* the same of the calc in execution
    missed,    \* sources whose data only a calc of its own has taken in
    stood      \* sources for which a calc of its own stood since then, or one
               \* failed or was withdrawn, which an administrator sees

askedVars == <<cvars, asked, going, missed, stood>>

AskedInit == CInit /\ asked = "default" /\ going = "default" /\ missed = {} /\ stood = {}

\* post_job and cmd_enqueue check the parameters when they are asked for; a calc
\* that waits already is a conflict, whatever its parameters.
CallOwn ==
    /\ Call(Calc)
    /\ asked' = "own"
    /\ UNCHANGED <<going, missed, stood>>

\* A job has its parameters from its row, and one that is sent back keeps them.
Params ==
    /\ going' = IF Calc \in active' \ active THEN asked
                ELSE IF Calc \in active' THEN going ELSE "default"
    /\ asked' = IF Calc \in waiting \cap waiting' THEN asked
                ELSE IF Calc \in waiting' /\ Calc \in active \ active' THEN going ELSE "default"

\* execute_calc_run takes in the areas and people of the run's year and levels.
TakesIn ==
    /\ CalcRead /\ Params /\ UNCHANGED stood
    /\ missed' = IF going = "own" THEN missed \cup unread ELSE missed
Takes ==
    /\ CalcDone /\ Params
    /\ IF going = "own" THEN UNCHANGED <<missed, stood>> ELSE missed' = {} /\ stood' = stood \cap unread
\* A calc is withdrawn, or ends without a result, and none without parameters waits.
GivenUp == /\ CancelWaiting(Calc) \/ Calc \in active \ active'
           /\ Calc \in waiting' => asked' = "own"
\* A request that finds a calc waiting, whatever it was asked for, is content.
Other ==
    /\ BesidesCalc /\ Params
    /\ missed' = missed \ unread'
    /\ stood' = stood \cup (IF asked = "own" THEN {s \in Sources : ChainCalc(s)} ELSE {})
                     \cup (IF GivenUp THEN missed \cup unread' ELSE {})

AskedNext ==
    \/ CallOwn \/ TakesIn \/ Takes \/ Other
AskedSpec == AskedInit /\ [][AskedNext]_askedVars

-----------------------------------------------------------------------------
\* "The waiting calc takes in these data too" (worker.py:63) holds of every calc
\* but those with parameters of their own: data of a collection that ended well
\* miss from the metrics, with no calc due that takes them in, only where such a
\* one was waiting when the collection asked, or an administrator was told.
OnlyOwnStandsIn ==
  (missed \cap settled) \ stood # {} =>
    (Calc \in waiting /\ asked = "default") \/ (phase[Calc] \in {"work", "read"} /\ going = "default")
=============================================================================
