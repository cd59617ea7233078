------------------------------- MODULE Served -------------------------------
(***************************************************************************)
(* Answers of the API that are cached by data version: the map of          *)
(* features/areas (with an ETag) and the overview.  Every statement of a   *)
(* request sees what is committed when it runs; calculations end and walks *)
(* of one calculation are done again meanwhile (calc/runs.py).             *)
(***************************************************************************)
EXTENDS Naturals, Sequences, FiniteSets, FiniteSetsExt, Functions

CONSTANTS
  Readers,     \* browsers, one request at a time
  MaxCalc, MaxChanges, MaxSecond, MaxRequests   \* bounds

ASSUME ServedAssumption == {MaxCalc, MaxChanges, MaxSecond, MaxRequests} \subseteq Nat /\ MaxCalc > 0

VARIABLES
  latest,    \* the newest calculation that is DONE
  walks,     \* [calc -> the seconds at which its walks committed began to commit]
  cached,    \* [bodies, tags |-> {<<version, content>>}]
  at,        \* [reader -> where its request is]
  req,       \* [reader -> its request]
  has,       \* [reader -> what its browser holds: <<body, tag>>]
  last,      \* the answer just given: [status, body, tag, floor, held], or {}
  kind,      \* "map" or "overview": what is asked for
  requests   \* requests so far

servedVars == <<latest, walks, cached, at, req, has, last, kind, requests>>

\* What the tables give for a calculation; a body and its tag are named after it.
Content(calc) == <<calc, Len(walks[calc])>>
\* data_version: the calculation and the whole second of its walk.
CalcOnly(calc) == <<calc, 0>>
DataVersion(calc) == <<calc, IF walks[calc] = <<>> THEN 0 ELSE walks[calc][Len(walks[calc])]>>

Nothing == <<0, 0>>
NoRequest == [calc |-> 0, inm |-> FALSE, ver |-> Nothing, floor |-> Nothing, tag |-> {}, body |-> Nothing]
ServedInit ==
  /\ latest = 1 /\ walks = [r \in 1 .. MaxCalc |-> <<>>]
  /\ cached = [bodies |-> {}, tags |-> {}] /\ last = {} /\ requests = 0 /\ kind \in {"map", "overview"}
  /\ at = [x \in Readers |-> "idle"] /\ req = [x \in Readers |-> NoRequest] /\ has = [x \in Readers |-> <<Nothing, Nothing>>]

-----------------------------------------------------------------------------
dataVars == <<latest, walks>>
readVars == <<cached, at, req, has, requests>>
Changes == latest + MapThenSumSet(LAMBDA r : Len(walks[r]), 1 .. MaxCalc)
CalcDone == latest < MaxCalc /\ Changes <= MaxChanges /\ latest' = latest + 1 /\ UNCHANGED <<walks, readVars>>
\* walk/compute.py: finished_at is the time at which the transaction began, and
\* of two the later may be the first to commit; the results replace those of
\* the walk before.
WalkCommits(r, second) ==
  /\ r <= latest /\ Changes <= MaxChanges
  /\ walks' = [walks EXCEPT ![r] = Append(@, second)] /\ UNCHANGED <<latest, readVars>>
-----------------------------------------------------------------------------
Found(part, x) == {e[2] : e \in {f \in cached[part] : f[1] = req[x].ver}}
\* Redis may not take it; that it forgets an entry is in Compute.
Store(part, x, content) ==
  \/ UNCHANGED cached
  \/ cached' = [cached EXCEPT ![part] = {e \in @ : e[1] # req[x].ver} \cup {<<req[x].ver, content>>}]
Turn(x, place) == at' = [at EXCEPT ![x] = place]
Reply(x, status, body, tag) ==
  /\ Turn(x, "idle") /\ req' = [req EXCEPT ![x] = NoRequest]
  /\ last' = {[status |-> status, body |-> body, tag |-> tag, floor |-> req[x].floor, held |-> has[x]]}
  /\ has' = IF status = 200 /\ kind = "map" THEN [has EXCEPT ![x] = <<body, tag>>] ELSE has
  /\ UNCHANGED requests

\* resolve_calc_run: the newest.
Ask(x, inm) ==
  /\ at[x] = "idle" /\ requests < MaxRequests /\ requests' = requests + 1
  /\ inm => has[x][2] # Nothing
  /\ req' = [req EXCEPT ![x] = [NoRequest EXCEPT !.calc = latest, !.inm = inm, !.floor = Content(latest)]]
  /\ Turn(x, "resolved") /\ UNCHANGED <<dataVars, cached, has>>
ReadVersion(x) ==
  /\ at[x] = "resolved" /\ req' = [req EXCEPT ![x].ver = DataVersion(req[x].calc)]
  /\ Turn(x, IF kind = "map" THEN "tag" ELSE "body") /\ UNCHANGED <<dataVars, cached, has, requests>>
\* geojson_payload with etag_only and without: the tag, then the body.
Tag(x) == IF at[x] = "tag" THEN Found("tags", x) ELSE {}
NotModified(x) ==
  /\ req[x].inm /\ has[x][2] \in Tag(x) /\ Reply(x, 304, Nothing, has[x][2])
  /\ UNCHANGED <<dataVars, cached>>
\* Another tag than the browser's: once more, for the body.
LookAgain(x) ==
  /\ req[x].inm /\ Tag(x) \ {has[x][2]} # {}
  /\ req' = [req EXCEPT ![x].inm = FALSE, ![x].calc = latest]
  /\ Turn(x, "resolved") /\ UNCHANGED <<dataVars, cached, has, requests>>
TakeTag(x) ==
  /\ ~req[x].inm /\ Tag(x) # {} /\ req' = [req EXCEPT ![x].tag = Tag(x)]
  /\ Turn(x, "body") /\ UNCHANGED <<dataVars, cached, has, requests>>
TakeBody(x) ==
  /\ at[x] = "body"
  /\ \E b \in Found("bodies", x) : Reply(x, 200, b, IF kind = "map" THEN CHOOSE t \in req[x].tag : TRUE ELSE Nothing)
  /\ UNCHANGED <<dataVars, cached>>
\* Not in the cache (any more), or Redis does not answer: the tables are read.
Compute(x) ==
  /\ at[x] \in {"tag", "body"}
  /\ req' = [req EXCEPT ![x].body = Content(req[x].calc)] /\ Turn(x, "computed")
  /\ UNCHANGED <<dataVars, cached, has, requests>>
KeepBody(x) ==
  /\ at[x] = "computed" /\ kind = "map" /\ Store("bodies", x, req[x].body) /\ Turn(x, "kept")
  /\ UNCHANGED <<dataVars, req, has, requests>>
\* The last thing kept; the router compares with If-None-Match once more.
KeepLast(x) ==
  /\ at[x] = IF kind = "map" THEN "kept" ELSE "computed"
  /\ Store(IF kind = "map" THEN "tags" ELSE "bodies", x, req[x].body)
  /\ IF req[x].inm /\ req[x].body = has[x][2]
     THEN Reply(x, 304, Nothing, req[x].body) ELSE Reply(x, 200, req[x].body, req[x].body)
  /\ UNCHANGED dataVars

Works ==
  \/ CalcDone
  \/ \E r \in 1 .. MaxCalc, second \in 1 .. MaxSecond : WalkCommits(r, second)
  \/ \E x \in Readers, inm \in BOOLEAN : Ask(x, inm)
  \/ \E x \in Readers : ReadVersion(x) \/ LookAgain(x) \/ TakeTag(x) \/ Compute(x) \/ KeepBody(x)
Replies == \E x \in Readers : NotModified(x) \/ TakeBody(x) \/ KeepLast(x)
ServedNext == UNCHANGED kind /\ (Replies \/ (Works /\ last' = {}))
ServedSpec == ServedInit /\ [][ServedNext]_servedVars

-----------------------------------------------------------------------------
AsCurrent(body, floor) == body[1] > floor[1] \/ (body[1] = floor[1] /\ body[2] >= floor[2])
\* No walk of a calculation shares its second with another (calc/runs.py:45).
Apart == \A r \in 1 .. MaxCalc : IsInjective(walks[r])

\* What a reader is shown is at least as current as the newest calculation and
\* its walk were when the request began, whether it came from the tables, from
\* the cache or (304) from the browser: nothing is ever deleted from the cache,
\* and readers that are slower than a commit still write to it (R4,
\* calc/runs.py:40-44, areas/service.py:86-88).  Excepted are walks of one
\* calculation within a second, and a body that came with the tag of another.
ServedIsCurrent ==
  Apart => \A a \in last :
    /\ a.status = 200 => AsCurrent(a.body, a.floor)
    /\ a.status = 304 => a.held[1] # a.held[2] \/ AsCurrent(a.held[1], a.floor)
=============================================================================
