----------------------------- MODULE MCAnswers -----------------------------
(* One part plays in a behaviour, in variables of its own.                 *)
EXTENDS TLC, Upstream, Nearest, Planning, Scenarios, Served, Limits, Recodes, Visit, Impacts, Assess

CONSTANT Playing   \* the parts of this instance
VARIABLE which     \* the one that plays

answersVars == <<which, upVars, nearVars, planVars, scenVars, servedVars, limVars, recVars, visitVars, impVars, assessVars>>
AnswersInit ==
  /\ which \in Playing
  /\ UpInit /\ NearInit /\ PlanInit /\ ScenInit /\ ServedInit /\ LimInit /\ RecInit /\ VisitInit /\ ImpInit /\ AssessInit
  \* what is asked for in Served, counted in Limits or collected for Impacts matters only there
  /\ which = "served" \/ kind = "map"
  /\ which = "limits" \/ path = "requests"
  /\ which = "impacts" \/ (hasCare /\ onRecord = {1, 2, 3})
AnswersNext ==
  /\ UNCHANGED which
  /\ \/ which = "upstream" /\ UpNext /\ UNCHANGED <<nearVars, planVars, scenVars, servedVars, limVars, recVars, visitVars, impVars, assessVars>>
     \/ which = "nearest" /\ NearNext /\ UNCHANGED <<upVars, planVars, scenVars, servedVars, limVars, recVars, visitVars, impVars, assessVars>>
     \/ which = "planning" /\ PlanNext /\ UNCHANGED <<upVars, nearVars, scenVars, servedVars, limVars, recVars, visitVars, impVars, assessVars>>
     \/ which = "scenarios" /\ ScenNext /\ UNCHANGED <<upVars, nearVars, planVars, servedVars, limVars, recVars, visitVars, impVars, assessVars>>
     \/ which = "served" /\ ServedNext /\ UNCHANGED <<upVars, nearVars, planVars, scenVars, limVars, recVars, visitVars, impVars, assessVars>>
     \/ which = "limits" /\ LimNext /\ UNCHANGED <<upVars, nearVars, planVars, scenVars, servedVars, recVars, visitVars, impVars, assessVars>>
     \/ which = "recodes" /\ RecNext /\ UNCHANGED <<upVars, nearVars, planVars, scenVars, servedVars, limVars, visitVars, impVars, assessVars>>
     \/ which = "visit" /\ VisitNext /\ UNCHANGED <<upVars, nearVars, planVars, scenVars, servedVars, limVars, recVars, impVars, assessVars>>
     \/ which = "impacts" /\ ImpNext /\ UNCHANGED <<upVars, nearVars, planVars, scenVars, servedVars, limVars, recVars, visitVars, assessVars>>
     \/ which = "assess" /\ AssessNext /\ UNCHANGED <<upVars, nearVars, planVars, scenVars, servedVars, limVars, recVars, visitVars, impVars>>
AnswersSpec == AnswersInit /\ [][AnswersNext]_answersVars

\* A square of streets with its diagonals, and a vertex with a short way there
\* and a longer one back; facilities at three of the vertices, one too far off.
MCStreets == {{<<1, 2, a>>, <<2, 3, b>>, <<1, 3, c>>, <<3, 4, 1>>, <<4, 3, 2>>} : a \in 1 .. 2, b \in 1 .. 2, c \in {1, 4}}
MCPlacings == [1 .. 3 -> {<<1, 0>>, <<1, 1>>, <<2, 0>>, <<4, 3>>}]

\* Five facilities and four areas on a line.
MCPositions == {[f \in 1 .. 5 |-> CASE f = 1 -> 0 [] f = 2 -> a [] f = 3 -> b [] f = 4 -> 8 [] OTHER -> 9] : a \in {1, 3}, b \in {1, 5}}
MCPlaceAt == [a \in {"p", "q", "r", "s"} |-> CASE a = "p" -> 0 [] a = "q" -> 2 [] a = "r" -> 6 [] OTHER -> 9]
MCApart(x, y) == IF x > y THEN x - y ELSE y - x
MCTables == {[a \in {"p", "q", "r", "s"} |-> [f \in 1 .. 5 |-> MCApart(at5[f], MCPlaceAt[a])]] : at5 \in MCPositions}
MCWeights ==   \* every pair of areas differs in weight in half of them
  {w \in [{"p", "q", "r", "s"} -> {1, 3}] : (w["p"] + w["q"] + w["r"] + w["s"]) % 4 = 0}
MCBank == [a \in {"p", "q", "r", "s"} |-> IF a = "q" THEN 0 ELSE 99]
MCSites == [s \in {1, 2, 3} |-> [a \in {"p", "q"} |-> CASE s = 1 -> IF a = "p" THEN 0 ELSE 2 [] s = 2 -> IF a = "p" THEN 2 ELSE 0 [] OTHER -> 1]]

\* Two threads of one process of the API.
MCProcessOf == ("x" :> "p") @@ ("y" :> "p")
\* Two provinces and what they may become, the first an only unit that has the
\* name of one of the other's; "e" is a district of the city 103.
MCWorld == {[code |-> <<1, 1>>, name |-> 101, places |-> {"a"}],
            [code |-> <<2, 3>>, name |-> 101, places |-> {"d"}], [code |-> <<2, 4>>, name |-> 103, places |-> {"e", "f"}]}
MCAreas == {[id |-> "a", code |-> <<1, 1>>, sido |-> "x", name |-> 101, city |-> None, land |-> {"a"}],
            [id |-> "d", code |-> None, sido |-> "y", name |-> 101, city |-> None, land |-> {"d"}],
            [id |-> "e", code |-> <<2, 41>>, sido |-> "y", name |-> 104, city |-> 103, land |-> {"e"}]}
MCSido == <<"x", "y", "z", "x">>
MCCity == (<<1, 1>> :> <<1, 0>>) @@ (<<2, 3>> :> <<2, 0>>) @@ (<<2, 41>> :> <<2, 4>>)
\* Offices, branches and blocks on a line, at some places in one ground and at
\* others in the next, some a little beyond a limit (at 24, stored as 20); on
\* foot a block may be further off than reach.
MCLine(block, spots) == [b \in {"b1", "b2", "b3"} |-> [i \in DOMAIN spots |-> MCApart(block[b], spots[i])]]
MCBlockAt == ("b1" :> 0) @@ ("b2" :> 30) @@ ("b3" :> 60)
MCGround == {[post |-> MCLine(MCBlockAt, <<10, q, r>>), bank |-> MCLine(MCBlockAt, <<x, 40, y, z>>)] :
               q \in {10, 24, 54}, r \in {10, 84}, x \in {10, 70}, y \in {40, 84}, z \in {0, 90}}
MCGraphs == {[post |-> MCLine(MCBlockAt, <<10, q, 84>>), bank |-> MCLine(MCBlockAt, <<x, 40, y, 90>>)] :
               q \in {10, 44}, x \in {10, 44, 94}, y \in {40, 84}}
\* All of the offices, those of before a change that puts the third in the
\* first one's place, and those of after.
MCRecords == {{1, 2, 3}, {1, 2}, {2, 3}}
MCPeople == ("b1" :> 1) @@ ("b2" :> 2) @@ ("b3" :> 4)
MCAged == ("b1" :> 1) @@ ("b2" :> 0) @@ ("b3" :> 0)
MCPharmacy == ("b1" :> 50) @@ ("b2" :> 30) @@ ("b3" :> 30)
MCClinic == ("b1" :> 40) @@ ("b2" :> 10) @@ ("b3" :> 40)
MCHour(tmp, pty, pcp, sno, wsd) == [tmp |-> tmp, pty |-> pty, pcp |-> pcp, sno |-> sno, wsd |-> wsd]
\* Fair; light and heavy rain; sleet, snow, and a flake; heat, frost and a gale,
\* each at the least that counts; and nothing told.
MCForecasts ==
  { MCHour(20, 0, 0, 0, 3), MCHour(20, 1, 9, Untold, 3), MCHour(12, 4, 10, 0, 3), MCHour(1, 2, 12, 1, 3),
    MCHour(-4, 3, Untold, 1, 8), MCHour(0, 0, 0, 1, 9), MCHour(33, 0, 0, 0, 14), MCHour(-10, 0, 0, 0, 3),
    MCHour(Untold, Untold, Untold, Untold, Untold) }
=============================================================================
