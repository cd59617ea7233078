------------------------------- MODULE Impacts -------------------------------
(***************************************************************************)
(* Who loses what: a calculation adds up, over the census blocks, whom an  *)
(* office or a branch serves and who would have nothing left within 2 km   *)
(* (sql/calc 06, 09 and 11), walk adds the same for 30 minutes on foot, as *)
(* often as the graph changes (walk/compute.py), and a what-if works out   *)
(* anew what is lost with some offices closed (domain/whatif.py).  What is *)
(* stored of a distance is rounded to 0.1 m, what is compared at once is   *)
(* not: distances are numbers of centimetres here.                         *)
(***************************************************************************)
EXTENDS Naturals, FiniteSets, FiniteSetsExt

CONSTANTS
  Blocks,                \* census blocks (oa)
  Offices, Branches,     \* ids, as numbers
  Records,               \* sets of offices of a calc run that may be on record
  Assessed, Agents,      \* branches of banks proper; those post offices stand in for
  Ground,                \* tables of distances tried: [post, bank: [block -> [id -> number]]]
  Graphs,                \* the same, on foot
  People, Aged,          \* [block -> number]
  PharmacyM, ClinicM,    \* [block -> number]
  Lonely,                \* assessed branches with no other of their bank within 10 km
  TwoKm, Walk30, Reach,  \* far_m, 30 minutes, walk_limit_m
  Many,                  \* 1000: people lost that make an impact HIGH
  Nowhere,               \* no distance at all: beyond all others
  MaxWalks

ASSUME ImpactsAssumption ==
  /\ Offices \cup Branches \subseteq Nat /\ Offices # {} /\ Agents \subseteq Assessed
  /\ Assessed \subseteq Branches /\ Lonely \subseteq Assessed /\ Assessed # {}
  /\ {TwoKm, Walk30, Reach, Many, Nowhere, MaxWalks} \subseteq Nat
  /\ Walk30 < Reach /\ Reach < Nowhere /\ TwoKm < Nowhere
  /\ (\A d \in {TwoKm, Walk30, Reach, Nowhere} : d % 10 = 0) /\ Records \subseteq SUBSET Offices
  /\ IsFiniteSet(Blocks) /\ IsFiniteSet(Offices) /\ IsFiniteSet(Branches)
  /\ Ground \cup Graphs \subseteq [post : [Blocks -> [Offices -> 0 .. Nowhere]], bank : [Blocks -> [Branches -> 0 .. Nowhere]]]
  /\ {People, Aged} \subseteq [Blocks -> Nat]

VARIABLES
  onRecord,       \* the offices recorded as open when calc began, as far as committed
  ground, foot,   \* the distances and offices calc had, and those of the last walk
  hasCare,        \* pharmacies and clinics have been collected
  near,           \* mart.oa_nearest: [block -> office]
  hub,            \* mart.facility_hub: [office -> people]
  impact,         \* mart.bank_impact: [branch -> row]
  noCash,         \* people of WALK30_NO_FIN and WALK30_NO_CASH
  walkCount       \* how often walk has ended

impVars == <<onRecord, ground, foot, hasCare, near, hub, impact, noCash, walkCount>>

NoRows == [x \in {} |-> 0]
ImpInit ==
  /\ onRecord \in Records /\ ground = NoRows /\ foot = NoRows /\ hasCare \in BOOLEAN /\ near = NoRows /\ hub = NoRows
  /\ impact = NoRows /\ noCash = <<0, 0>> /\ walkCount = 0

PeopleOf(blocks) == MapThenSumSet(LAMBDA b : People[b], blocks)
\* The least distance of a block to one of ids; of equal ones that of the lower id.
Least(row, ids) == Min({Nowhere} \cup {row[i] : i \in ids})
FirstOf(row, ids) == Min({i \in ids : row[i] = Least(row, ids)})
\* What is stored of a distance, and how far beyond a limit one may be and be stored as at it.
Rounded(d) == 10 * ((d + 5) \div 10)
Slack == 4
\* The distances g to the offices that can be read.
Seen(g) == [post |-> g.post, bank |-> g.bank, offices |-> onRecord]

-----------------------------------------------------------------------------
\* The index brings the two nearest, the lower id of equal ones is taken; which
\* two, when three are as near, it leaves open.
NearestOffice(row, those) ==
  {FirstOf(row, two) : two \in {s \in SUBSET those : /\ Cardinality(s) = Min({2, Cardinality(those)})
                                                     /\ \A f \in s, g \in those \ s : row[f] <= row[g]}}
DistM(b) == Rounded(ground.post[b][near[b]])
Post2M(b) == Rounded(Least(ground.post[b], ground.offices \ {near[b]}))
BankM(b) == Rounded(Least(ground.bank[b], Branches))
NoCareNear(b) == PharmacyM[b] > TwoKm /\ ClinicM[b] > TwoKm

\* POST_SOLE_HUB and LIFE_DESERT: nothing but a post office within 2 km, not even that.
PostSoleHub == PeopleOf({b \in Blocks : DistM(b) <= TwoKm /\ BankM(b) > TwoKm /\ NoCareNear(b)})
LifeDesert == PeopleOf({b \in Blocks : DistM(b) > TwoKm /\ BankM(b) > TwoKm /\ NoCareNear(b)})

OfHub(o) == {b \in Blocks : near[b] = o /\ DistM(b) <= TwoKm}
SoleFin(b) == Post2M(b) > TwoKm /\ BankM(b) > TwoKm
FacilityHub ==
  [o \in {f \in ground.offices : hasCare /\ Branches # {} /\ OfHub(f) # {}} |->
    [served  |-> PeopleOf(OfHub(o)),
     soleFin |-> PeopleOf({b \in OfHub(o) : SoleFin(b)}),
     soleHub |-> PeopleOf({b \in OfHub(o) : SoleFin(b) /\ NoCareNear(b)})]]

\* What is left when the branch x, the nearest of a block, closes: another
\* branch of a bank or, for the banks they stand in for, a post office, whose
\* distance has been stored by then.
B1(b) == FirstOf(ground.bank[b], Assessed)
Alt(b, x) == Min({Least(ground.bank[b], Assessed \ {x})} \cup (IF x \in Agents THEN {DistM(b)} ELSE {}))

Reasons(people, catch, walkLost, x) ==
  (IF people > 0 THEN {"NO_ALT_2KM"} ELSE {}) \cup (IF walkLost > 0 THEN {"NO_ALT_WALK30"} ELSE {})
  \cup (IF x \in Lonely THEN {"SAME_BANK_10KM"} ELSE {})
  \cup (IF PeopleOf(catch) > 0 /\ 5 * MapThenSumSet(LAMBDA b : Aged[b], catch) >= PeopleOf(catch)
        THEN {"AGED_20"} ELSE {})
Grade(people, reasons) ==
  IF people >= Many \/ (people > 0 /\ reasons \cap {"SAME_BANK_10KM", "AGED_20"} # {}) THEN "HIGH"
  ELSE IF reasons # {} THEN "MID" ELSE "LOW"
BankImpact ==
  [x \in Assessed |->
    LET catch == {b \in Blocks : B1(b) = x}
        people == PeopleOf({b \in catch : ground.bank[b][x] <= TwoKm /\ Alt(b, x) > TwoKm})
        reasons == Reasons(people, catch, 0, x)
    IN [catch |-> catch, lost |-> people, walkLost |-> Nowhere, reasons |-> reasons, grade |-> Grade(people, reasons)]]

\* The nearest of a block come with the distances, then all that is added up.
ImpCalc(g) ==
  /\ near = NoRows /\ onRecord # {} /\ ground' = Seen(g)
  /\ near' \in {n \in [Blocks -> onRecord] : \A b \in Blocks : n[b] \in NearestOffice(g.post[b], onRecord)}
  /\ UNCHANGED <<onRecord, foot, hasCare, noCash, walkCount>>
  /\ hub' = FacilityHub' /\ impact' = BankImpact'

\* A merge that was under way when calc began is committed: its rows carry the
\* time its transaction began, so that offices of the calc run come and go.
ImpMerge(s) ==
  /\ near # NoRows /\ onRecord = ground.offices /\ onRecord' = s
  /\ UNCHANGED <<ground, foot, hasCare, near, hub, impact, noCash, walkCount>>

-----------------------------------------------------------------------------
\* oa_walk keeps what is within reach, in order of the distances, and rounded.
InReach(row, ids) == {i \in ids : row[i] <= Reach}
WalkCatch(g, x) == {b \in Blocks : InReach(g.bank[b], Assessed) # {} /\ FirstOf(g.bank[b], InReach(g.bank[b], Assessed)) = x}
WalkAlt(g, b, x) ==
  Min({Rounded(Least(g.bank[b], InReach(g.bank[b], Assessed) \ {x}))}
      \cup (IF x \in Agents THEN {Rounded(Least(g.post[b], InReach(g.post[b], g.offices)))} ELSE {}))
KeptFrom(old) == IF old = Nowhere THEN 0 ELSE old
\* All columns of walk are emptied first: a branch that is no block's nearest any more has none.
EmptiedFrom(old) == 0
WalkLost(g, x) ==
  IF WalkCatch(g, x) = {} THEN EmptiedFrom(impact[x].walkLost)
  ELSE PeopleOf({b \in WalkCatch(g, x) : Rounded(g.bank[b][x]) <= Walk30 /\ WalkAlt(g, b, x) > Walk30})
\* _metrics: a block that nothing reaches counts as at the limit.
PostOnFoot(g, b) == Min({Reach} \cup {Rounded(g.post[b][o]) : o \in InReach(g.post[b], g.offices)})
BankOnFoot(g, b) == Min({Reach} \cup {Rounded(g.bank[b][x]) : x \in InReach(g.bank[b], Assessed)})
WalkMetrics(g) ==
  <<PeopleOf({b \in Blocks : PostOnFoot(g, b) > Walk30}),
    PeopleOf({b \in Blocks : Min({PostOnFoot(g, b), BankOnFoot(g, b)}) > Walk30})>>

ImpWalk(g) ==
  /\ near # NoRows /\ walkCount < MaxWalks /\ walkCount' = walkCount + 1 /\ foot' = g
  /\ noCash' = WalkMetrics(g)
  /\ impact' = [x \in Assessed |->
       LET row == impact[x]
           reasons == Reasons(row.lost, row.catch, WalkLost(g, x), x)
       IN [row EXCEPT !.walkLost = WalkLost(g, x), !.reasons = reasons, !.grade = Grade(row.lost, reasons)]]
  /\ UNCHANGED <<onRecord, ground, hasCare, near, hub>>

-----------------------------------------------------------------------------
\* oa_impact: the blocks whose nearest closes, with what is nearest then, of the
\* offices that are stored now and by the distance as it is.
OaRows(ids) == {b \in Blocks : near[b] \in ids}
AfterM(b, ids) == Least(ground.post[b], onRecord \ ids)
NewlyOut(b, ids) == DistM(b) <= TwoKm /\ AfterM(b, ids) > TwoKm
OaNewlyFar(ids) == PeopleOf({b \in OaRows(ids) : NewlyOut(b, ids)})
LifeHubLost(ids) == PeopleOf({b \in OaRows(ids) : NewlyOut(b, ids) /\ BankM(b) > TwoKm /\ NoCareNear(b)})

ImpNext ==
  \/ \E g \in Ground : ImpCalc(g)
  \/ \E g \in Graphs : ImpWalk(Seen(g))
  \/ \E s \in Records : ImpMerge(s)
ImpSpec == ImpInit /\ [][ImpNext]_impVars

-----------------------------------------------------------------------------
\* Blocks with none of those within 2 km; those that have nothing else there either;
\* and people of whose offices one is so little beyond 2 km that it is stored as at it.
FarFrom(those) == {b \in Blocks : Least(ground.post[b], those) > TwoKm}
Bare == {b \in Blocks : BankM(b) > TwoKm /\ NoCareNear(b)}
Edge == PeopleOf({b \in Blocks : \E o \in ground.offices : ground.post[b][o] \in TwoKm + 1 .. TwoKm + Slack})
\* People who have x within d, and nothing else that would do.
HasOnly(table, x, d) ==
  PeopleOf({b \in Blocks : /\ table.bank[b][x] <= d
                           /\ \A y \in Assessed \ {x} : table.bank[b][y] > d
                           /\ x \in Agents => \A o \in table.offices : table.post[b][o] > d})

\* A what-if loses those who are far without the offices it closes and were not
\* when calc ran, and of their life hubs those who have nothing else; what
\* facility_hub says of an office is the what-if of closing it alone
\* (09_life.sql:96-97, domain/whatif.py:49).  Two exceptions.  Calc compares what
\* it stored, which is rounded, and the what-if measures anew: those with an
\* office at the edge (2000.04 m, stored as 2000.0) may be near for the one and
\* far for the other, and then the what-if counts more; where there are none
\* all is equal.  And an office that a late merge took from the record is closed
\* already for the what-if, which still leaves out the blocks it was the nearest
\* of: it counts no more than is lost then, but may count less, and more than
\* facility_hub.
OfficesAgree ==
  LET Kept == ground.offices \subseteq onRecord
      Lost(ids) == FarFrom(onRecord \ ids) \ FarFrom(ground.offices)
      Tells(told, is) == told <= is + Edge /\ (Kept => is <= told)
  IN /\ \A ids \in SUBSET onRecord : Tells(OaNewlyFar(ids), PeopleOf(Lost(ids)))
     /\ hasCare =>
          /\ \A ids \in SUBSET onRecord : Tells(LifeHubLost(ids), PeopleOf(Lost(ids) \cap Bare))
          /\ \A o \in onRecord : LET sole == IF o \in DOMAIN hub THEN hub[o].soleHub ELSE 0 IN
               /\ Kept => LifeHubLost({o}) <= sole + Edge
               /\ onRecord \subseteq ground.offices => sole <= LifeHubLost({o})
          /\ Kept => PostSoleHub = LifeHubLost(onRecord)

\* A branch loses those who have it and nothing that would do instead, within
\* 2 km (but for those at the edge, with an office for an alternative), and
\* after a walk within 30 minutes, as rounded, by that walk's graph, whatever an
\* earlier one said; its reasons go with both (11_bank_impact.sql:4, compute.py:219).
BranchesAgree ==
  \A x \in Assessed :
    /\ impact[x].lost <= HasOnly(ground, x, TwoKm)
    /\ HasOnly(ground, x, TwoKm) <= impact[x].lost + (IF x \in Agents THEN Edge ELSE 0)
    /\ walkCount > 0 => impact[x].walkLost = HasOnly(foot, x, Walk30 + Slack)
    /\ walkCount > 0 => ("NO_ALT_WALK30" \in impact[x].reasons <=> HasOnly(foot, x, Walk30 + Slack) > 0)

\* Sums that different statements make of the same blocks agree, with the
\* exceptions named above.
ImpactsAgree ==
  near # NoRows =>
    /\ OfficesAgree /\ BranchesAgree
    /\ walkCount > 0 =>
         LET NoneIn(b, row, ids) == \A i \in ids : row[b][i] > Walk30 + Slack
         IN noCash = <<PeopleOf({b \in Blocks : NoneIn(b, foot.post, foot.offices)}),
                       PeopleOf({b \in Blocks : NoneIn(b, foot.post, foot.offices) /\ NoneIn(b, foot.bank, Assessed)})>>
=============================================================================
