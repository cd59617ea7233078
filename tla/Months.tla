------------------------------- MODULE Months -------------------------------
(***************************************************************************)
(* collector/mois/migration.py: the moves between all pairs of districts   *)
(* in a month come in some 290 pages, asked for by three threads.  The     *)
(* service may order or revise its rows between two pages, so the rows     *)
(* received are counted and compared before the month is replaced.         *)
(***************************************************************************)
EXTENDS Collect, Functions, SequencesExt

CONSTANTS
  Window,        \* settings.migration_months
  FirstMonth,    \* the calendar month at the start, as a number
  LastMonth,     \* bound on the calendar
  RowsOf(_),     \* the rows of a month at first, in order, one a page
  NewRow,        \* a row that a revision adds
  Strange,       \* rows that add_rows skips: another month or a strange code
  MaxShifts      \* bound on the changes of the service

VARIABLES
  now,       \* the calendar month
  newest,    \* cands[0] of the run: the month before it began
  list,      \* [month -> its rows in the order the service pages them]
  shifts,    \* how often the service has changed
  month,     \* [month -> [row -> how often its sums contain it]], mart.migration_month
  loaded,    \* [month -> calendar month of its rows' load], 0: none
  total,     \* totalCount of page 1 of the month in hand, 0: not asked for yet
  pages,     \* pages that the pool has still to answer
  again,     \* pages that failed
  acc,       \* [row -> how often it was added up]
  skipped,   \* st.skipped
  drift     \* since page 1 the list is the "same", "shifted" or "revised"

monthVars == <<now, newest, list, shifts, month, loaded, total, pages, again, acc, skipped, drift>>
fetchVars == <<total, pages, again, acc, skipped, drift>>

Ms == FirstMonth - Window .. LastMonth - 1
Rows == {NewRow} \cup UNION {Range(RowsOf(m)) : m \in Ms}
NoRows == [r \in Rows |-> 0]

\* A pair of districts is in a month once.
ASSUME MonthsAssumption ==
  /\ Window \in Nat /\ FirstMonth \in Nat /\ LastMonth \in Nat /\ MaxShifts \in Nat
  /\ Window <= FirstMonth /\ FirstMonth <= LastMonth
  /\ \A m \in Ms : /\ RowsOf(m) \in Seq(Rows) /\ ~Contains(RowsOf(m), NewRow)
                   /\ \A i, j \in DOMAIN RowsOf(m) : RowsOf(m)[i] = RowsOf(m)[j] => i = j

MonthsInit ==
  /\ now = FirstMonth /\ newest = 0 /\ list = [m \in Ms |-> RowsOf(m)] /\ shifts = 0
  /\ month = [m \in Ms |-> NoRows] /\ loaded = [m \in Ms |-> 0]
  /\ total = 0 /\ pages = {} /\ again = {} /\ acc = NoRows /\ skipped = 0 /\ drift = "same"

-----------------------------------------------------------------------------
\* The service, at any time: two rows change places, or the month is revised
\* (a row comes or goes, which is also how a month is published).
Shift(m) ==
  /\ shifts < MaxShifts /\ shifts' = shifts + 1
  /\ \E i, j \in DOMAIN list[m] :
       i < j /\ list' = [list EXCEPT ![m] = [@ EXCEPT ![i] = list[m][j], ![j] = list[m][i]]]
  /\ drift' = IF drift = "same" THEN "shifted" ELSE drift
  /\ UNCHANGED <<runVars, now, newest, month, loaded, total, pages, again, acc, skipped>>
Revise(m) ==
  /\ shifts < MaxShifts /\ shifts' = shifts + 1
  /\ list' = [list EXCEPT ![m] = IF Contains(@, NewRow) THEN Only(@, Rows \ {NewRow}) ELSE <<NewRow>> \o @]
  /\ drift' = "revised"
  /\ UNCHANGED <<runVars, now, newest, month, loaded, total, pages, again, acc, skipped>>
MonthPasses ==
  /\ now < LastMonth /\ now' = now + 1
  /\ UNCHANGED <<runVars, newest, list, shifts, month, loaded, total, pages, again, acc, skipped, drift>>

-----------------------------------------------------------------------------
\* recent_months, newest first.
Candidates == [i \in 1 .. Window |-> now - i]
\* A month loaded before the month after next began is loaded once more.
NeedsRecheck(m) == loaded[m] < m + 2 /\ m + 2 <= now
ToLoad(m) == loaded[m] = 0 \/ NeedsRecheck(m)

MonthsBegin ==
  /\ Begin(Only(Candidates, {m \in Ms : ToLoad(m)}))
  /\ newest' = now - 1 /\ total' = 0
  /\ UNCHANGED <<now, list, shifts, month, loaded, pages, again, acc, skipped, drift>>

\* What a page adds to the sums: a pair counts each time it comes.
Adds(rows) == /\ acc' = [r \in Rows |-> IF r \in rows \ Strange THEN acc[r] + 1 ELSE acc[r]]
              /\ skipped' = skipped + Cardinality(rows \cap Strange)
\* Rows may have gone since page 1 was counted: the last page is then empty.
RowsOn(p) == IF p \in DOMAIN list[Unit] THEN {list[Unit][p]} ELSE {}

Page1 ==
  /\ Held /\ total = 0 /\ list[Unit] # <<>>
  /\ total' = Len(list[Unit]) /\ pages' = 2 .. Len(list[Unit]) /\ again' = {} /\ drift' = "same"
  /\ LET rows == RowsOn(1) IN
     /\ acc' = [r \in Rows |-> IF r \in rows \ Strange THEN 1 ELSE 0]
     /\ skipped' = Cardinality(rows \cap Strange)
  /\ UNCHANGED <<now, newest, list, shifts, month, loaded>>
\* No rows: the newest month is not published yet, another one is incomplete.
NotYet ==
  /\ Busy /\ total = 0 /\ list[Unit] = <<>>
  /\ IF Unit = newest THEN Passed ELSE Failure
  /\ UNCHANGED monthVars
PageIn(p) ==
  /\ Held /\ p \in pages /\ pages' = pages \ {p}
  /\ \/ Adds(RowsOn(p)) /\ UNCHANGED again
     \/ again' = again \cup {p} /\ UNCHANGED <<acc, skipped>>
  /\ UNCHANGED <<now, newest, list, shifts, month, loaded, total, drift>>
PageAgain ==
  /\ Held /\ total > 0 /\ pages = {} /\ again # {}
  /\ LET p == CHOOSE q \in again : \A r \in again : q <= r IN again' = again \ {p} /\ Adds(RowsOn(p))
  /\ UNCHANGED <<now, newest, list, shifts, month, loaded, total, pages, drift>>

Forget == total' = 0 /\ pages' = {} /\ again' = {} /\ acc' = NoRows /\ skipped' = 0 /\ drift' = "same"
\* Page 1 has no answer, or a page fails again.
MonthFailed ==
  /\ Busy /\ (total = 0 \/ (pages = {} /\ again # {}))
  /\ Failure /\ Forget /\ UNCHANGED <<now, newest, list, shifts, month, loaded>>
MonthsStop == Break /\ Forget /\ UNCHANGED <<now, newest, list, shifts, month, loaded>>

Got == skipped + SumFunction(acc)
AnyCount == TRUE
\* No pair came twice, and the rows are as many as page 1 announced.
Whole == (\A r \in Rows : acc[r] <= 1) /\ Got = total

\* write_month, one transaction.
MonthStored ==
  /\ Busy /\ total > 0 /\ pages = {} /\ again = {} /\ Whole
  /\ Success /\ month' = [month EXCEPT ![Unit] = acc] /\ loaded' = [loaded EXCEPT ![Unit] = now]
  /\ Forget /\ UNCHANGED <<now, newest, list, shifts>>
MonthIncomplete ==
  /\ Busy /\ total > 0 /\ pages = {} /\ again = {} /\ ~Whole
  /\ Failure /\ Forget /\ UNCHANGED <<now, newest, list, shifts, month, loaded>>

\* The aliases and the map of districts are built anew from all months.
MonthsEnd == Finish(Outcome(done # {})) /\ UNCHANGED monthVars
MonthsInterrupted == Interrupted /\ Forget /\ UNCHANGED <<now, newest, list, shifts, month, loaded>>

MonthsNext ==
  \/ MonthPasses \/ \E m \in Ms : Shift(m) \/ Revise(m)
  \/ MonthsBegin \/ Page1 \/ NotYet \/ PageAgain \/ MonthFailed \/ MonthsStop
  \/ MonthStored \/ MonthIncomplete \/ MonthsEnd \/ MonthsInterrupted
  \/ \E p \in pages : PageIn(p)

-----------------------------------------------------------------------------
\* A run that ends DONE leaves no month of its window without rows, or with rows
\* loaded before the second month after it had begun, but the newest month, which
\* may not be published yet (migration.py:281-318, domain/migration.py needs_recheck).
DoneHasMonths == status = "DONE" => \A m \in newest - Window + 1 .. newest - 1 : loaded[m] >= m + 2

\* A month is replaced only by all of its rows, each added up once, whatever
\* the order the pages come in and are retried in, as long as the set of rows
\* stays while they are fetched; only rows may change places that carry a pair,
\* since a row without one is not recognised when it comes twice (line 106).
MonthStoredWhole ==
  [][\A m \in Ms :
       month'[m] # month[m] /\ (drift = "same" \/ (drift = "shifted" /\ Range(list[m]) \cap Strange = {}))
         => \A r \in Rows : month'[m][r] = IF r \in Range(list[m]) \ Strange THEN 1 ELSE 0]_monthVars
=============================================================================
