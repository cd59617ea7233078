----------------------------- MODULE PostHistory ------------------------------
(***************************************************************************)
(* The collection of postal facilities and their history.  collect_post    *)
(* (collector/post/pipeline.py) asks for the facilities of one area code   *)
(* after the other, page by page, stores them under the run (stg) and      *)
(* merges them into the history of facilities: facilities that are new or  *)
(* changed get a row, and those that a complete code no longer brings are  *)
(* closed.  A run that did not get everything may be resumed: it fetches   *)
(* the codes again that are not done.                                      *)
(*                                                                         *)
(* Of the service is assumed that an answer tells the true numbers of the  *)
(* moment or none, and brings an item once on a page; a page may come      *)
(* short, come empty or bring again what an earlier one brought.           *)
(*                                                                         *)
(* A row of stg and of the history is told by its area code, which is one  *)
(* of the hashed fields (rules.row_hash): a facility that comes under      *)
(* another code is a changed facility.                                     *)
(***************************************************************************)
EXTENDS Naturals, FiniteSets

CONSTANTS Facilities,
          NCodes,       \* area codes, in the order of seed/area_codes.csv
          PageSize,     \* items on a page (PAGE_SIZE)
          Tolerance,    \* items a complete code may lack (SHORT_TOLERANCE), ...
          Share,        \* ... or one in so many of them (SHORT_RATIO is 1 in 50)
          MaxClosed     \* facilities one merge may close (MIN_CLOSE_GUARD)

ASSUME HistoryAssumption ==
    /\ IsFiniteSet(Facilities)
    /\ NCodes \in Nat
    /\ PageSize \in Nat \ {0}
    /\ Tolerance \in Nat
    /\ Share \in Nat \ {0}
    /\ MaxClosed \in Nat

Code   == 1 .. NCodes
NoCode == 0                   \* no row

VARIABLES
    \* the service
    up,         \* facilities it lists under a code; one may be listed twice
    moved,      \* whether that changed since the run was started
    \* the newest run
    run,        \* its status
    step,       \* how far its execution has come; none: nobody executes it
    resumed,
    at,         \* the code being fetched, or the next one
    got,        \* the facilities received under that code
    pages,      \* what was counted of its pages
    done,       \* stats.doneCodes of the execution
    saved,      \* the same in the database
    stg,        \* area code of the run's row of a facility
    bad,        \* facilities whose row has no valid coordinates
    dropped,    \* facilities that came under a second code, which stored no row
    doubtful,   \* codes that became done on an answer without a count or with
                \* an item twice (a history variable: the code keeps no such set)
    \* the history
    hist        \* area code of the current row of a facility

runVars == <<run, step, resumed, at, got, pages, done, saved, stg, bad, dropped, doubtful>>
pvars   == <<up, moved, run, step, resumed, at, got, pages, done, saved, stg, bad,
             dropped, doubtful, hist>>

Rows == [Facilities -> Code \cup {NoCode}]

\* page - 1 and total_page; total_count of the latest page, 0 if it told none;
\* received; empty_pages.
Counts  == [no : Nat, last : Nat, told : Nat, count : Nat, empty : SUBSET Nat]
NoPages == [no |-> 0, last |-> 1, told |-> 0, count |-> 0, empty |-> {}]

PostTypeOK ==
    /\ up \in [Code -> SUBSET Facilities]
    /\ moved \in BOOLEAN
    /\ run \in {"none", "RUNNING", "DONE", "PARTIAL", "FAILED"}
    /\ step \in {"none", "code", "pages", "merge", "finish"}
    /\ step # "none" => run = "RUNNING"
    /\ resumed \in BOOLEAN
    /\ at \in 1 .. NCodes + 1
    /\ step = "pages" => at \in Code \ done
    /\ got \in SUBSET Facilities
    /\ got \subseteq {f \in Facilities : stg[f] # NoCode}
    /\ pages \in Counts
    /\ done \in SUBSET Code
    /\ saved \in SUBSET Code
    /\ step # "none" => saved \subseteq done
    /\ run = "DONE" => saved = Code
    /\ stg \in Rows
    /\ bad \in SUBSET {f \in Facilities : stg[f] # NoCode}
    /\ dropped \in SUBSET Facilities
    /\ doubtful \in SUBSET Code
    /\ hist \in Rows

-----------------------------------------------------------------------------
NoRows == [f \in Facilities |-> NoCode]

PInit ==
    /\ up \in [Code -> SUBSET Facilities]
    /\ moved = FALSE
    /\ run = "none" /\ step = "none" /\ resumed = FALSE
    /\ at = 1 /\ got = {} /\ pages = NoPages
    /\ done = {} /\ saved = {} /\ doubtful = {}
    /\ stg = NoRows /\ bad = {} /\ dropped = {}
    /\ hist = NoRows

\* The service begins or ceases to list a facility under a code.
Upstream(c, f) ==
    /\ up' = [up EXCEPT ![c] = IF f \in @ THEN @ \ {f} ELSE @ \cup {f}]
    /\ moved' = TRUE
    /\ UNCHANGED <<runVars, hist>>

-----------------------------------------------------------------------------
(* Fetching *)

\* start_run, and the state of a new execution.
StartRun ==
    /\ run # "RUNNING"
    /\ run' = "RUNNING" /\ step' = "code" /\ resumed' = FALSE
    /\ at' = 1 /\ got' = {} /\ pages' = NoPages
    /\ done' = {} /\ saved' = {} /\ doubtful' = {}
    /\ stg' = NoRows /\ bad' = {} /\ dropped' = {}
    /\ moved' = FALSE
    /\ UNCHANGED <<up, hist>>

\* reopen_run: the stats of the run are those saved, its rows those stored.
Resume ==
    /\ run \in {"PARTIAL", "FAILED"}
    /\ run' = "RUNNING" /\ step' = "code" /\ resumed' = TRUE
    /\ at' = 1 /\ got' = {} /\ pages' = NoPages
    /\ done' = saved
    /\ UNCHANGED <<up, moved, saved, stg, bad, dropped, doubtful, hist>>

\* The codes still to be fetched.  First, done or not.
EveryCodeLeft == {c \in Code : at <= c}
Left == {c \in Code \ done : at <= c}

\* The next code that is not done.  A resumed run deletes the rows that it
\* stored under this code before.
BeginCode ==
    /\ step = "code"
    /\ Left # {}
    /\ at' = CHOOSE c \in Left : \A d \in Left : c <= d
    /\ step' = "pages"
    /\ got' = {} /\ pages' = NoPages
    /\ doubtful' = doubtful \ {at'}
    /\ LET old == IF resumed THEN {f \in Facilities : stg[f] = at'} ELSE {} IN
        /\ stg' = [f \in Facilities |-> IF f \in old THEN NoCode ELSE stg[f]]
        /\ bad' = bad \ old
    /\ UNCHANGED <<up, moved, run, resumed, done, saved, dropped, hist>>

\* The number of pages of so many items.
PagesOf(n) == IF n <= PageSize THEN 1 ELSE (n + PageSize - 1) \div PageSize

\* One page: its items get a row unless there is one of the facility already
\* (ON CONFLICT DO NOTHING).  The answer tells the true totalCount or none, and
\* the true totalPage or none: then the pages are counted from totalCount.
Page(items, noCoord) ==
    /\ step = "pages"
    /\ pages.no < pages.last
    /\ items \subseteq up[at]
    /\ Cardinality(items) <= PageSize
    /\ LET new == {f \in items : stg[f] = NoCode} IN
        /\ noCoord \subseteq new
        /\ stg' = [f \in Facilities |-> IF f \in new THEN at ELSE stg[f]]
        /\ dropped' = dropped \cup {f \in items : stg[f] \notin {NoCode, at}}
    /\ bad' = bad \cup noCoord
    /\ got' = got \cup items
    /\ \E told \in {0, Cardinality(up[at])} :
         \E last \in {PagesOf(told), PagesOf(Cardinality(up[at]))} :
           pages' = [no    |-> pages.no + 1,
                     last  |-> last,
                     told  |-> told,
                     count |-> pages.count + Cardinality(items),
                     empty |-> pages.empty \cup IF items = {} /\ told > 0
                                                THEN {pages.no + 1} ELSE {}]
    /\ UNCHANGED <<up, moved, run, step, resumed, at, done, saved, doubtful, hist>>

\* What a complete answer may lack of so many items.
MayLack(n) == IF Tolerance < n \div Share THEN n \div Share ELSE Tolerance

\* Whether the code may count as done: all pages came, none in the middle
\* empty, and hardly less than the latest one told, where no count is none at
\* all and what came twice counts twice.  First, every answer without an error.
NoError == TRUE
Complete ==
    /\ pages.last <= pages.no
    /\ \A p \in pages.empty : pages.last <= p
    /\ pages.told <= pages.count + MayLack(pages.told)

\* What the code does not notice.
Doubt == pages.told = 0 \/ Cardinality(got) < pages.count

\* The end of a code, after its last page or one that failed; the stats are
\* saved after every tenth code.
EndCode(save) ==
    /\ step = "pages"
    /\ done' = IF Complete THEN done \cup {at} ELSE done
    /\ doubtful' = IF Complete /\ Doubt THEN doubtful \cup {at} ELSE doubtful
    /\ saved' = IF save THEN done' ELSE saved
    /\ at' = at + 1
    /\ step' = "code"
    /\ got' = {} /\ pages' = NoPages
    /\ UNCHANGED <<up, moved, run, resumed, stg, bad, dropped, hist>>

-----------------------------------------------------------------------------
(* Merging *)

\* The transaction of the merge begins: now() of all its rows is this moment.
BeginMerge ==
    /\ step = "code"
    /\ Left = {}
    /\ step' = "merge"
    /\ UNCHANGED <<up, moved, run, resumed, at, got, pages, done, saved, stg, bad, dropped,
                   doubtful, hist>>

\* The codes whose facilities may be closed: done, and with a row in stg.
\* First, all of them; then those that are done.
EveryCode == Code
Closable == {c \in done : \E f \in Facilities : stg[f] = c}

Gone == {f \in Facilities : hist[f] \in Closable /\ stg[f] = NoCode}

\* mart_post_hist.sql.
Merged(b) == [f \in Facilities |-> IF f \in Gone THEN NoCode
                                   ELSE IF stg[f] # NoCode /\ f \notin b THEN stg[f]
                                   ELSE hist[f]]

\* fill_missing_coords finds some of the missing coordinates, and the merge
\* is committed.
Merge(found) ==
    /\ step = "merge"
    /\ found \subseteq bad
    /\ Cardinality(Gone) <= MaxClosed
    /\ bad' = bad \ found
    /\ hist' = Merged(bad')
    /\ step' = "finish"
    /\ UNCHANGED <<up, moved, run, resumed, at, got, pages, done, saved, stg, dropped,
                   doubtful>>

\* What an execution keeps to itself is gone with it.
Ended == step' = "none" /\ at' = 1 /\ got' = {} /\ pages' = NoPages /\ done' = {}

\* finish_run.
Finish ==
    /\ step = "finish"
    /\ run' = IF done = Code THEN "DONE" ELSE IF done # {} THEN "PARTIAL" ELSE "FAILED"
    /\ saved' = done
    /\ Ended
    /\ UNCHANGED <<up, moved, resumed, stg, bad, dropped, doubtful, hist>>

\* An exception, MergeGuardError among them: the merge is rolled back, the
\* run is FAILED and its stats are saved; or the process is killed, and reap
\* closes the run.
Stop(save) ==
    /\ step # "none"
    /\ run' = "FAILED"
    /\ saved' = IF save THEN done ELSE saved
    /\ Ended
    /\ UNCHANGED <<up, moved, resumed, stg, bad, dropped, doubtful, hist>>

-----------------------------------------------------------------------------
PNext ==
    \/ \E c \in Code, f \in Facilities : Upstream(c, f)
    \/ StartRun \/ Resume \/ BeginCode
    \/ \E items \in SUBSET Facilities : \E noCoord \in SUBSET items : Page(items, noCoord)
    \/ \E save \in BOOLEAN : EndCode(save)
    \/ BeginMerge
    \/ \E found \in SUBSET bad : Merge(found)
    \/ Finish
    \/ \E save \in BOOLEAN : Stop(save)

PSpec == PInit /\ [][PNext]_pvars
-----------------------------------------------------------------------------
(* Safety *)

\* Listed at all.
Listed == UNION {up[c] : c \in Code}

\* The facilities a step closes without another row.
Closes(f) == hist[f] # NoCode /\ hist'[f] = NoCode

\* While the service lists the same facilities, a merge closes, of every code
\* that still lists them, no more than the items a complete answer may lack:
\* failed codes, incomplete pages, resumption and a lost run close nothing
\* (mart_post_hist.sql:4-5, pipeline.py:121-131, ADR-023).  The exceptions are
\* a facility whose row under a second code was dropped, and a doubtful code: an
\* answer with neither totalPage nor totalCount is complete after its first
\* page (pipeline.py:103), short of nothing (line 121), so that the merge
\* closes what further pages would have brought; and with A on both of the two
\* pages that hold A and B, two of two items came, and B is closed.
OnlyShortfallCloses ==
    [][~moved => \A c \in Code \ doubtful :
         Cardinality({f \in up[c] \ dropped : hist[f] = c /\ Closes(f)})
             <= MayLack(Cardinality(up[c]))]_pvars

\* A run that is DONE has brought the history in line with the service, if
\* that stood still: what is open is listed, but for the facilities of a code
\* that brought nothing; and of what a code lists no more is closed than the
\* items it may lack, rows without coordinates, dropped ones and doubtful codes
\* (see above) aside.
DoneMatchesService ==
    run = "DONE" /\ ~moved =>
        /\ \A f \in Facilities :
             hist[f] # NoCode => f \in Listed \/ \A g \in Facilities : stg[g] # hist[f]
        /\ \A c \in Code \ doubtful :
             Cardinality({f \in up[c] \ (bad \cup dropped) : hist[f] = NoCode})
                 <= MayLack(Cardinality(up[c]))

\* What the merge says of itself (mart_post_hist.sql:5), without the first of
\* the exceptions: errors that pass do not close a facility that is listed all
\* the time.
ErrorsCloseNothing ==
    [][~moved => \A f \in Facilities :
         Closes(f) /\ hist[f] \notin doubtful => f \notin up[hist[f]]]_pvars
=============================================================================
