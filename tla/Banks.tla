------------------------------- MODULE Banks -------------------------------
(***************************************************************************)
(* collector/kakao/banks.py: bank branches by two collections.  The full   *)
(* one divides the country into tiles until a tile's branches fit into     *)
(* the pages of a search; the newest full run that ended DONE is the base  *)
(* of mart.bank_branch_current, so what it did not see counts as closed.   *)
(* The other asks for the nearest branches of each area's point.           *)
(*                                                                         *)
(* A tile is the sequence of quarters that leads to it and a place has the *)
(* smallest tile it lies in.  The pages of a tile come one by one, and     *)
(* branches come and go between them.  Of the search is assumed that it    *)
(* tells the true number of a tile's branches or none, and that a page     *)
(* brings the next of them in one order, or fewer.  A point of an area is  *)
(* asked about in one step.                                                *)
(***************************************************************************)
EXTENDS Collect, SequencesExt

CONSTANTS
  Branch,       \* place ids with a kind
  TileOf,       \* [Branch -> the tile of side MIN_SIDE it lies in]
  MinDepth,     \* the depth of those tiles
  StartTiles,   \* _tiles(KOREA_BBOX, START_STEP)
  Points,       \* the areas with a representative point, in order
  Near,         \* [point -> its branches within RADIUS_M, nearest first]
  SearchPage,   \* 15: documents on a page of the search
  SearchMax,    \* 3: pages of a search
  MinBranches,  \* min_branches
  MaxMoves      \* bound on branches that open or close

\* The tiles at the start cover KOREA_BBOX, in which the branches lie.
ASSUME BanksAssumption ==
  /\ SearchPage \in Nat \ {0} /\ SearchMax \in Nat /\ MinDepth \in Nat /\ IsFiniteSet(Branch)
  /\ StartTiles \in Seq(Seq(1 .. 4)) /\ TileOf \in [Branch -> Seq(1 .. 4)]
  /\ \A b \in Branch : Len(TileOf[b]) = MinDepth /\ \E i \in DOMAIN StartTiles : IsPrefix(StartTiles[i], TileOf[b])

VARIABLES
  open,      \* the branches the service knows
  lastSeen,  \* [Branch -> the run that last saw it, or 0] of mart.bank_place
  full,      \* the run in hand is a full one
  base,      \* the newest full run that ended DONE, or 0
  moves,     \* how many branches have opened or closed
  pageNo,    \* pages of the tile in hand that have been saved
  stated,    \* the total of its first page
  since,     \* branches open ever since the run in hand began, without those
             \* that its answers have left out (see OpenBranchIsCurrent)
  steady     \* the same of the run base
             \* (since and steady are history variables)

banksVars == <<open, lastSeen, full, base, moves, pageNo, stated, since, steady>>
Quarters == 1 .. 4

BanksInit ==
  /\ open = Branch /\ lastSeen = [b \in Branch |-> 0] /\ full = FALSE /\ base = 0
  /\ moves = 0 /\ pageNo = 0 /\ stated = 0 /\ since = {} /\ steady = {}

InTile(t) == {b \in open : IsPrefix(t, TileOf[b])}
\* The branches among whose pages b lies, if some of those have come.
Reordered(b) == IF pageNo > 0 /\ IsPrefix(Unit, TileOf[b]) THEN InTile(Unit) ELSE {}

Moves(b) ==
  /\ moves < MaxMoves /\ moves' = moves + 1
  /\ open' = IF b \in open THEN open \ {b} ELSE open \cup {b}
  /\ since' = since \ ({b} \cup Reordered(b)) /\ steady' = steady \ {b}
  /\ UNCHANGED <<runVars, lastSeen, full, base, pageNo, stated>>

\* The upsert of one page after another: last_seen is the time of the run.
Save(found) == lastSeen' = [b \in Branch |-> IF b \in found THEN run ELSE lastSeen[b]]
Untouched == UNCHANGED <<open, full, base, moves, steady>>
NoPage    == pageNo' = 0 /\ stated' = 0

BanksBegin ==
  /\ \/ full' = TRUE /\ Begin(Reverse(StartTiles))
     \/ full' = FALSE /\ Begin(Points)
  /\ since' = open
  /\ UNCHANGED <<open, lastSeen, base, moves, pageNo, stated, steady>>

Total(t) == Cardinality(InTile(t))
TooMany(total) == total > SearchMax * SearchPage
OnPages(s, n) == ToSet(SubSeq(s, 1, Min({n * SearchPage, Len(s)})))

\* What page n of a tile should bring, and the last page that is asked for.
SliceOf(t, n) == OnPages(SetToSeq(InTile(t)), n) \ OnPages(SetToSeq(InTile(t)), n - 1)
PagesOfTile(total) == Min({SearchMax, (total + SearchPage - 1) \div SearchPage})

\* An answer without total_count, or with 0: nothing of the tile is saved, and
\* the tile does not count as failed.
EmptyTile ==
  /\ full /\ pageNo = 0 /\ Passed
  /\ since' = since \ InTile(Unit)
  /\ UNCHANGED <<lastSeen, pageNo, stated>> /\ Untouched

\* split4; the stack is popped from its end.
Divide ==
  /\ Busy /\ full /\ pageNo = 0
  /\ TooMany(Total(Unit)) /\ Len(Unit) < MinDepth
  /\ todo' = Reverse([q \in Quarters |-> Append(Unit, q)]) \o Tail(todo)
  /\ UNCHANGED <<run, status, stopped, done, failed, lastSeen, pageNo, stated, since>> /\ Untouched

\* Page n of a tile that is not divided; what it brings is not compared with the
\* total.  Nothing of a tile at the smallest side says what its pages leave out,
\* so it counts as failed.
TilePage(n, total) ==
  /\ \E docs \in SUBSET SliceOf(Unit, n) :
       Save(docs) /\ since' = since \ (SliceOf(Unit, n) \ docs)
  /\ IF n < PagesOfTile(total)
     THEN pageNo' = n /\ stated' = total /\ Held
     ELSE NoPage /\ (IF TooMany(total) THEN Failure ELSE Success)
  /\ Untouched

FirstPage ==
  /\ Busy /\ full /\ pageNo = 0
  /\ Total(Unit) > 0
  /\ TooMany(Total(Unit)) => Len(Unit) >= MinDepth
  /\ TilePage(1, Total(Unit))
NextPage == Busy /\ full /\ pageNo > 0 /\ TilePage(pageNo + 1, stated)

\* A page that could not be had, the first or a later one.
TilePageFailed == full /\ Failure /\ NoPage /\ UNCHANGED <<lastSeen, since>> /\ Untouched

\* A point of an area: pages by distance until enough branches were found; a
\* page that fails ends the point in silence.
Around(p) == SelectSeq(Near[p], LAMBDA b : b \in open)
Enough(p, n) == n * SearchPage >= MinBranches \/ n * SearchPage >= Len(Around(p))
Point ==
  /\ ~full /\ Passed
  /\ \E n \in 0 .. SearchMax :
       /\ \A k \in 1 .. n - 1 : ~Enough(Unit, k)
       /\ Save(OnPages(Around(Unit), n))
  /\ UNCHANGED <<pageNo, stated, since>> /\ Untouched

\* KakaoStop at a page: of a tile its earlier pages are saved.
BanksStop ==
  /\ Break
  /\ \E n \in 0 .. SearchMax : Save(IF full THEN {} ELSE OnPages(Around(Unit), n))
  /\ NoPage /\ UNCHANGED since /\ Untouched

DoneUnlessStopped == IF stopped THEN "PARTIAL" ELSE "DONE"
\* A full run with a gap anywhere is not a base.
BanksOutcome == IF failed = {} /\ ~stopped THEN "DONE" ELSE "PARTIAL"
BanksEnd ==
  /\ Finish(BanksOutcome)
  /\ LET whole == full /\ status' = "DONE" IN
       /\ base' = IF whole THEN run ELSE base
       /\ steady' = IF whole THEN since ELSE steady
  /\ UNCHANGED <<open, lastSeen, full, moves, pageNo, stated, since>>
BanksInterrupted == Interrupted /\ NoPage /\ UNCHANGED <<lastSeen, since>> /\ Untouched

BanksNext ==
  \/ \E b \in Branch : Moves(b)
  \/ BanksBegin \/ EmptyTile \/ Divide \/ FirstPage \/ NextPage \/ TilePageFailed \/ Point \/ BanksStop \/ BanksEnd \/ BanksInterrupted

-----------------------------------------------------------------------------
\* mart.bank_branch_current, once there is a full run.
Current == {b \in Branch : lastSeen[b] >= base}

\* A branch that has been open ever since the newest base run began is in the
\* current list, whatever runs failed, stopped or were cut short by the pages of
\* a search since then: no gap that the collection can see closes a branch.  The
\* exceptions, which since and steady leave out, are gaps it does not see
\* (banks.py:171-187), so that the run ends DONE and the branch counts as closed:
\* an answer without total_count passes for an empty tile, a page that brings
\* fewer branches than the total announced is not noticed, and when a branch of
\* the tile closes after page 1, the first of page 2 moves up to page 1.
OpenBranchIsCurrent == base > 0 => steady \subseteq Current
=============================================================================
