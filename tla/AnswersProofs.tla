---------------------------- MODULE AnswersProofs ----------------------------
(***************************************************************************)
(* What the system answers, and what it takes from others for an answer,   *)
(* for any number of requests and of whatever they are about: what-if      *)
(* scenarios, the calls of upstream services, the conditions of a day and  *)
(* its worst hour, answers cached by the calculation they are of, limits   *)
(* of requests, what a facility reaches, and plans to close or to open.    *)
(***************************************************************************)
EXTENDS Scenarios, Upstream, Visit, Served, Limits, Impacts, Assess, Planning, FiniteLemmas, TLAPS

-----------------------------------------------------------------------------
(* Scenarios.  That answers stand for stored scenarios is inductive only   *)
(* with what clients have in hand: what one is about to answer is stored,  *)
(* or is its own and will be with its COMMIT (Held), and no two scenarios  *)
(* of the same key exist anywhere, committed or not (Unique).  Both rest   *)
(* on numbers of calculations that are never given again (Bounded).        *)
Wishes == [run : Nat, ids : Removals \cup {{}}]
Rows   == [run : Nat, ids : Removals \cup {{}}, id : Nat, rows : BOOLEAN]
Where  == {"idle", "resolved", "missed", "computing", "inserted", "made", "committed"}

Types ==
  /\ runs \subseteq Nat /\ ids \in Nat
  /\ scenarios \subseteq Rows /\ cache \subseteq Rows /\ given \subseteq Rows
  /\ open \in [Clients -> SUBSET Rows] /\ out \in [Clients -> SUBSET Rows]
  /\ place \in [Clients -> Where] /\ wanted \in [Clients -> Wishes]

\* Told or to be told, and all that exist.
Answers == given \cup cache
InHand  == UNION {open[c] : c \in Clients}
InReply == UNION {out[c] : c \in Clients}
All     == Answers \cup scenarios \cup InHand \cup InReply

\* The latest calculation is never pruned, and no number is above its own.
IsTop(t)  == t \in runs /\ \A r \in runs : r <= t
Bounded   == \E t \in runs : IsTop(t) /\ \A s \in All : s.run <= t

\* What a client has inserted and not committed, and what it will answer.
Held ==
  \A c \in Clients :
    /\ place[c] \notin {"inserted", "made"} => open[c] = {}
    /\ place[c] \notin {"made", "committed"} => out[c] = {}
    /\ place[c] = "made" => open[c] \subseteq out[c]
    /\ \A s \in open[c] : Key(s) = wanted[c] /\ (s.rows <=> place[c] = "made")
    /\ \A s \in out[c] : Key(s) = wanted[c] /\ s.rows /\ (s.run \in runs => s \in scenarios \cup open[c])

Stored == \A s \in Answers \cup scenarios : s.rows /\ (s.run \in runs => s \in scenarios)
OpenApart  == \A c, d \in Clients : \A s \in open[c], t \in open[d] : Key(s) = Key(t) => c = d
Unique == \A s, t \in All : Key(s) = Key(t) => s = t

\* What InsertRows makes of a scenario in hand.
Filled(t) == [t EXCEPT !.rows = TRUE]

ScenInv == Types /\ Bounded /\ Held /\ Stored /\ OpenApart /\ Unique
-----------------------------------------------------------------------------
LEMMA InAll ==
  \A s : s \in All <=> \/ s \in given \cup cache \cup scenarios
                      \/ \E c \in Clients : s \in open[c] \cup out[c]
BY DEF All, Answers, InHand, InReply

\* Nothing new: what a step leaves of the scenarios is as unique and as bounded.
LEMMA FewerAreUnique == ASSUME Unique, All' \subseteq All PROVE Unique'
BY DEF Unique, Key

LEMMA FewerAreBounded == ASSUME Bounded, All' \subseteq All, runs' = runs PROVE Bounded'
BY DEF Bounded, IsTop

\* A client that leaves takes what it had not committed with it.
LEMMA Leaving ==
  ASSUME Types, Held, OpenApart, NEW c \in Clients, Leave(c)
  PROVE  /\ open' \in [Clients -> SUBSET Rows] /\ out' \in [Clients -> SUBSET Rows]
         /\ place' \in [Clients -> Where] /\ wanted' \in [Clients -> Wishes]
         /\ open'[c] = {} /\ out'[c] = {} /\ place'[c] = "idle"
         /\ \A d \in Clients \ {c} : open'[d] = open[d] /\ out'[d] = out[d] /\ place'[d] = place[d] /\ wanted'[d] = wanted[d]
BY DEF Types, Leave, Become, Where, Wishes, NoWish

LEMMA LeavingHolds ==
  ASSUME Types, Held, OpenApart, NEW c \in Clients, Leave(c), UNCHANGED <<runs, scenarios>>
  PROVE  Held' /\ OpenApart'
<1>1. /\ open'[c] = {} /\ out'[c] = {} /\ place'[c] = "idle"
      /\ \A d \in Clients \ {c} : open'[d] = open[d] /\ out'[d] = out[d] /\ place'[d] = place[d] /\ wanted'[d] = wanted[d]
  BY Leaving
<1>2. ASSUME NEW d \in Clients
      PROVE  /\ place'[d] \notin {"inserted", "made"} => open'[d] = {}
             /\ place'[d] \notin {"made", "committed"} => out'[d] = {}
             /\ place'[d] = "made" => open'[d] \subseteq out'[d]
             /\ \A s \in open'[d] : Key(s) = wanted'[d] /\ (s.rows <=> place'[d] = "made")
             /\ \A s \in out'[d] : Key(s) = wanted'[d] /\ s.rows /\ (s.run \in runs => s \in scenarios \cup open'[d])
  <2>1. CASE d = c
    BY <1>1, <2>1
  <2>2. CASE d # c
    BY <1>1, <2>2 DEF Held
  <2> QED
    BY <2>1, <2>2
<1>3. Held'
  BY <1>2 DEF Held, Key
<1>4. \A d \in Clients : open'[d] \subseteq open[d]
  BY <1>1
<1>5. OpenApart'
  BY <1>4 DEF OpenApart, Key
<1> QED
  BY <1>3, <1>5

-----------------------------------------------------------------------------
LEMMA InitScenInv == ScenInit => ScenInv
<1> SUFFICES ASSUME ScenInit PROVE ScenInv
  OBVIOUS
<1> USE DEF ScenInit
<1>1. Types
  BY DEF Types, Where, Wishes, NoWish
<1>2. All = {}
  BY InAll
<1>3. Bounded
  BY <1>2 DEF Bounded, IsTop
<1> QED
  BY <1>1, <1>2, <1>3 DEF ScenInv, Held, Stored, OpenApart, Unique, Answers

LEMMA RequestStep ==
  ASSUME ScenInv, NEW c \in Clients, NEW run \in runs, NEW r \in Removals, Request(c, run, r)
  PROVE  ScenInv'
<1> USE DEF ScenInv
<1>1. out[c] = {} /\ open[c] = {}
  BY DEF Request, Held
<1>2. out' = out
  BY <1>1 DEF Request, Become, Types
<1>3. Types'
  BY DEF Types, Request, Become, Where, Wishes
<1>4. All' = All
  BY <1>2 DEF All, Answers, InHand, InReply, Request
<1>5. Unique' /\ Bounded'
  BY <1>4, FewerAreUnique, FewerAreBounded DEF Request
<1>6. Held'
  BY <1>1, <1>2 DEF Types, Held, Request, Become
<1>7. Stored' /\ OpenApart'
  BY DEF Stored, OpenApart, Request, Answers, Key
<1> QED
  BY <1>3, <1>5, <1>6, <1>7

LEMMA CacheStep == ASSUME ScenInv, NEW c \in Clients, LookInCache(c) PROVE ScenInv'
<1> USE DEF ScenInv
<1>1. out[c] = {} /\ open[c] = {}
  BY DEF LookInCache, Held
<1>2. CASE Of(cache, wanted[c]) # {} /\ given' = given \cup Of(cache, wanted[c]) /\ Leave(c)
  <2>1. Types'
    BY <1>2, Leaving DEF Types, LookInCache, Of
  <2>2. All' \subseteq All
    BY <1>2, <2>1, InAll, Leaving, <1>1 DEF All, Answers, InHand, InReply, LookInCache, Of, Types
  <2>3. Unique' /\ Bounded'
    BY <2>2, FewerAreUnique, FewerAreBounded DEF LookInCache
  <2>4. Held' /\ OpenApart'
    BY <1>2, Leaving DEF Held, OpenApart, LookInCache, Key
  <2>5. Stored'
    BY <1>2 DEF Stored, Answers, LookInCache, Of
  <2> QED
    BY <2>1, <2>3, <2>4, <2>5
<1>3. CASE Become(c, "missed", {}) /\ UNCHANGED <<given, open, wanted>>
  <2>1. out' = out
    BY <1>1, <1>3 DEF Become, Types
  <2>2. Types'
    BY <1>3 DEF Types, LookInCache, Become, Where
  <2>3. All' = All
    BY <1>3, <2>1 DEF All, Answers, InHand, InReply, LookInCache
  <2>4. Unique' /\ Bounded'
    BY <2>3, FewerAreUnique, FewerAreBounded DEF LookInCache
  <2>5. Held' /\ OpenApart' /\ Stored'
    BY <1>1, <1>3, <2>1 DEF Types, Held, OpenApart, Stored, Answers, LookInCache, Become, Key
  <2> QED
    BY <2>2, <2>4, <2>5
<1> QED
  BY <1>2, <1>3 DEF LookInCache

LEMMA LookUpStep == ASSUME ScenInv, NEW c \in Clients, LookUp(c) PROVE ScenInv'
<1> USE DEF ScenInv
<1>1. out[c] = {} /\ open[c] = {}
  BY DEF LookUp, Held
<1>2. out' = [out EXCEPT ![c] = Of(scenarios, wanted[c])]
  BY DEF LookUp, Become
<1>3. Types'
  BY <1>2 DEF Types, LookUp, Become, Where, Of
<1>4. All' \subseteq All
  BY <1>2 DEF All, Answers, InHand, InReply, LookUp, Of, Types
<1>5. Unique' /\ Bounded'
  BY <1>4, FewerAreUnique, FewerAreBounded DEF LookUp
<1>6. Held'
  BY <1>1, <1>2 DEF Types, Held, Stored, LookUp, Become, Of, Key
<1>7. Stored' /\ OpenApart'
  BY DEF Stored, OpenApart, LookUp, Answers, Key
<1> QED
  BY <1>3, <1>5, <1>6, <1>7

\* A new scenario has a key that none has: one of a calculation that is there
\* would be stored, or in the hand of a client that this one waits for.
LEMMA InsertStep == ASSUME ScenInv, NEW c \in Clients, Insert(c) PROVE ScenInv'
<1> USE DEF ScenInv
<1>1. out[c] = {} /\ open[c] = {}
  BY DEF Insert, Held
<1>2. CASE Of(scenarios, wanted[c]) # {} /\ Become(c, "made", Of(scenarios, wanted[c])) /\ UNCHANGED <<open, ids>>
  <2>1. out' = [out EXCEPT ![c] = Of(scenarios, wanted[c])]
    BY <1>2 DEF Become
  <2>2. Types'
    BY <1>2, <2>1 DEF Types, Insert, Become, Where, Of
  <2>3. All' \subseteq All
    BY <1>2, <2>1 DEF All, Answers, InHand, InReply, Insert, Of, Types
  <2>4. Unique' /\ Bounded'
    BY <2>3, FewerAreUnique, FewerAreBounded DEF Insert
  <2>5. Held' /\ Stored' /\ OpenApart'
    BY <1>1, <1>2, <2>1 DEF Types, Held, Stored, OpenApart, Answers, Insert, Become, Of, Key
  <2> QED
    BY <2>2, <2>4, <2>5
<1>3. CASE Of(scenarios, wanted[c]) = {}
  <2> DEFINE new == [run |-> wanted[c].run, ids |-> wanted[c].ids, id |-> ids + 1, rows |-> FALSE]
  <2>1. /\ open' = [open EXCEPT ![c] = {new}] /\ ids' = ids + 1
        /\ place' = [place EXCEPT ![c] = "inserted"] /\ out' = [out EXCEPT ![c] = {}]
    BY <1>3 DEF Insert, Become
  <2>2. new \in Rows /\ Key(new) = wanted[c] /\ new.run \in runs /\ new.rows = FALSE
    BY DEF Types, Insert, Rows, Wishes, Key
  <2>3. Types'
    BY <2>1, <2>2 DEF Types, Insert, Where
  <2>4. \A s \in All : Key(s) # wanted[c]
    <3> SUFFICES ASSUME NEW s \in All, Key(s) = wanted[c] PROVE FALSE
      OBVIOUS
    <3>1. s.run \in runs
      BY <2>2 DEF Key
    <3>2. s \notin scenarios
      BY <1>3 DEF Of
    <3>3. \A d \in Clients : s \notin open[d]
      BY <1>1 DEF Insert, Waits, Of
    <3> QED
      BY <3>1, <3>2, <3>3, InAll DEF Held, Stored, Answers
  <2>5. All' \subseteq All \cup {new}
    BY <2>1 DEF All, Answers, InHand, InReply, Insert, Types
  <2>6. Unique'
    BY <2>2, <2>4, <2>5 DEF Unique, Key
  <2>7. Bounded'
    BY <2>2, <2>5 DEF Bounded, IsTop, Insert
  <2>8. Held'
    <3>1. /\ open'[c] = {new} /\ out'[c] = {} /\ place'[c] = "inserted" /\ wanted' = wanted
          /\ \A d \in Clients \ {c} : open'[d] = open[d] /\ out'[d] = out[d] /\ place'[d] = place[d]
      BY <2>1 DEF Types, Insert
    <3>2. runs' = runs /\ scenarios' = scenarios
      BY DEF Insert
    <3> QED
      BY <3>1, <3>2, <2>2 DEF Held, Key
  <2>9. Stored'
    BY DEF Stored, Insert, Answers
  <2>10. OpenApart'
    <3> SUFFICES ASSUME NEW d \in Clients, NEW e \in Clients, NEW s \in open'[d], NEW t \in open'[e], Key(s) = Key(t)
                 PROVE  d = e
      BY DEF OpenApart, Key
    <3>1. \A f \in Clients \ {c} : open'[f] = open[f] /\ open[f] \subseteq All
      BY <2>1, InAll DEF Types
    <3>2. open'[c] = {new}
      BY <2>1 DEF Types
    <3> QED
      BY <3>1, <3>2, <2>2, <2>4 DEF OpenApart
  <2> QED
    BY <2>3, <2>6, <2>7, <2>8, <2>9, <2>10
<1> QED
  BY <1>2, <1>3 DEF Insert

\* The scenario gets its rows while it is in one client's hand, and none but its.
LEMMA RowsStep == ASSUME ScenInv, NEW c \in Clients, InsertRows(c) PROVE ScenInv'
<1> USE DEF ScenInv
<1> DEFINE full == {Filled(t) : t \in open[c]}
<1>1. /\ open' = [open EXCEPT ![c] = full] /\ out' = [out EXCEPT ![c] = full]
      /\ place' = [place EXCEPT ![c] = "made"]
  BY DEF InsertRows, Become, Filled
<1>2. /\ open'[c] = full /\ out'[c] = full /\ place'[c] = "made" /\ wanted' = wanted
      /\ \A d \in Clients \ {c} : open'[d] = open[d] /\ out'[d] = out[d] /\ place'[d] = place[d]
      /\ runs' = runs /\ scenarios' = scenarios /\ given' = given /\ cache' = cache
  BY <1>1 DEF Types, InsertRows
<1>3. \A t \in open[c] : /\ Filled(t) \in Rows /\ Filled(t).rows = TRUE
                         /\ Key(Filled(t)) = Key(t) /\ Filled(t).run = t.run
  <2> SUFFICES ASSUME NEW t \in open[c]
               PROVE  /\ Filled(t) \in Rows /\ Filled(t).rows = TRUE
                      /\ Key(Filled(t)) = Key(t) /\ Filled(t).run = t.run
    OBVIOUS
  <2>1. t \in Rows
    BY DEF Types
  <2>2. Filled(t) \in Rows
    BY <2>1 DEF Rows, Filled
  <2>3. Filled(t).rows = TRUE /\ Filled(t).run = t.run /\ Filled(t).ids = t.ids
    BY <2>1 DEF Rows, Filled
  <2> QED
    BY <2>2, <2>3 DEF Key
<1>4. Types'
  <2>1. full \subseteq Rows
    BY <1>3
  <2> QED
    BY <1>1, <2>1 DEF Types, InsertRows, Where
<1>5. \A s \in full : \E t \in open[c] : s = Filled(t)
  OBVIOUS
<1>6. \A s \in full : s.rows /\ \E t \in All : Key(t) = Key(s) /\ t.run = s.run
  BY <1>3, <1>5, InAll
<1>7. Held'
  <2>1. \A s \in full : Key(s) = wanted[c] /\ s.rows
    BY <1>3, <1>5, \A t \in open[c] : Key(t) = wanted[c] DEF Held
  <2> QED
    BY <1>2, <2>1 DEF Held, Key
<1>8. Stored'
  BY <1>2 DEF Stored, Answers
\* Whatever else has the key of what the client holds: it was the same, without rows.
<1>9. \A s \in All : Key(s) = wanted[c] /\ open[c] # {} => s \in open[c]
  <2> SUFFICES ASSUME NEW s \in All, Key(s) = wanted[c], NEW t \in open[c] PROVE s \in open[c]
    OBVIOUS
  <2>1. Key(t) = wanted[c] /\ t \in All
    BY InAll DEF Held
  <2> QED
    BY <2>1 DEF Unique
<1>10. \A s \in All' \ full : s \in All /\ (open[c] # {} => Key(s) # wanted[c])
  <2> SUFFICES ASSUME NEW s \in All', s \notin full PROVE s \in All /\ (open[c] # {} => Key(s) # wanted[c])
    OBVIOUS
  <2>1. s \in given \cup cache \cup scenarios \/ \E d \in Clients \ {c} : s \in open[d] \cup out[d]
    BY <1>2 DEF All, Answers, InHand, InReply
  <2>2. s \in All
    BY <2>1, InAll
  <2>3. s \notin open[c]
    <3> SUFFICES ASSUME s \in open[c] PROVE FALSE
      OBVIOUS
    <3>1. place[c] = "inserted" /\ ~s.rows
      BY DEF InsertRows, Held
    <3>2. CASE \E d \in Clients \ {c} : s \in open[d]
      BY <3>2 DEF OpenApart
    <3> QED
      BY <2>1, <3>1, <3>2 DEF Stored, Answers, Held
  <2> QED
    BY <2>2, <2>3, <1>9
<1>11. \A s, t \in full : Key(s) = Key(t) => s = t
  <2> SUFFICES ASSUME NEW s \in full, NEW t \in full, Key(s) = Key(t) PROVE s = t
    OBVIOUS
  <2>1. PICK u \in open[c] : s = Filled(u)
    OBVIOUS
  <2>2. PICK v \in open[c] : t = Filled(v)
    OBVIOUS
  <2>3. Key(u) = Key(v)
    BY <1>3, <2>1, <2>2
  <2>4. u = v
    BY <2>3, InAll DEF Unique, Key
  <2> QED
    BY <2>1, <2>2, <2>4
<1>12. Unique'
  <2>1. \A s \in full : Key(s) = wanted[c] /\ open[c] # {}
    BY <1>3, <1>5, \A t \in open[c] : Key(t) = wanted[c] DEF Held
  <2>2. \A s, t \in All' : Key(s) = Key(t) => s = t
    BY <1>10, <1>11, <2>1 DEF Unique, Key
  <2> QED
    BY <2>2 DEF Unique, Key
<1>13. Bounded'
  BY <1>2, <1>6, <1>10 DEF Bounded, IsTop
<1>14. OpenApart'
  <2> SUFFICES ASSUME NEW d \in Clients, NEW e \in Clients, NEW s \in open'[d], NEW t \in open'[e], Key(s) = Key(t)
               PROVE  d = e
    BY DEF OpenApart, Key
  <2>1. \A f \in Clients : \A x \in open'[f] : \E y \in open[f] : Key(y) = Key(x)
    BY <1>2, <1>3, <1>5
  <2> QED
    BY <2>1 DEF OpenApart
<1> QED
  BY <1>4, <1>7, <1>8, <1>12, <1>13, <1>14

LEMMA CommitStep == ASSUME ScenInv, NEW c \in Clients, Commit(c) PROVE ScenInv'
<1> USE DEF ScenInv
<1>1. /\ open' = [open EXCEPT ![c] = {}] /\ scenarios' = scenarios \cup open[c]
      /\ place' = [place EXCEPT ![c] = "committed"] /\ out' = out
  BY DEF Commit, Become, Types
<1>2. Types'
  BY <1>1 DEF Types, Commit, Where
<1>3. All' \subseteq All
  BY <1>1 DEF All, Answers, InHand, InReply, Commit, Types
<1>4. Unique' /\ Bounded'
  BY <1>3, FewerAreUnique, FewerAreBounded DEF Commit
<1>5. Held'
  BY <1>1 DEF Types, Held, Commit, Key
<1>6. Stored'
  BY <1>1 DEF Stored, Held, Answers, Commit
<1>7. OpenApart'
  BY <1>1 DEF Types, OpenApart, Key
<1> QED
  BY <1>2, <1>4, <1>5, <1>6, <1>7

LEMMA RememberStep == ASSUME ScenInv, NEW c \in Clients, Remember(c) PROVE ScenInv'
<1> USE DEF ScenInv
<1>1. open[c] = {} /\ out[c] \subseteq Rows /\ \A s \in out[c] : s.rows /\ (s.run \in runs => s \in scenarios)
  BY DEF Remember, MayRemember, Held, Types
<1>2. /\ given' = given \cup out[c] /\ cache' \subseteq cache \cup out[c] /\ Leave(c)
      /\ UNCHANGED <<runs, scenarios, ids>>
  BY DEF Remember
<1>3. Types'
  BY <1>1, <1>2, Leaving DEF Types
<1>4. All' \subseteq All
  BY <1>2, Leaving DEF All, Answers, InHand, InReply
<1>5. Unique' /\ Bounded'
  BY <1>2, <1>4, FewerAreUnique, FewerAreBounded
<1>6. Held' /\ OpenApart'
  BY <1>2, LeavingHolds
<1>7. Stored'
  BY <1>1, <1>2 DEF Stored, Answers
<1> QED
  BY <1>3, <1>5, <1>6, <1>7

LEMMA FailStep == ASSUME ScenInv, NEW c \in Clients, Fail(c) PROVE ScenInv'
<1> USE DEF ScenInv
<1>1. Types'
  BY Leaving DEF Types, Fail
<1>2. All' \subseteq All
  BY Leaving DEF All, Answers, InHand, InReply, Fail
<1>3. Unique' /\ Bounded'
  BY <1>2, FewerAreUnique, FewerAreBounded DEF Fail
<1>4. Held' /\ OpenApart' /\ Stored'
  <2>1. Leave(c) /\ UNCHANGED <<runs, scenarios, cache, given>>
    BY DEF Fail
  <2>2. Stored'
    BY <2>1 DEF Stored, Answers
  <2> QED
    BY <2>1, <2>2, LeavingHolds
<1> QED
  BY <1>1, <1>3, <1>4
LEMMA ForgottenStep == ASSUME ScenInv, NEW s \in cache, Forgotten(s) PROVE ScenInv'
<1> USE DEF ScenInv, Forgotten
<1>1. Types' /\ Held' /\ Stored' /\ OpenApart'
  BY DEF Types, Held, Stored, OpenApart, Answers, Key
<1>2. All' \subseteq All
  BY DEF All, Answers, InHand, InReply
<1> QED
  BY <1>1, <1>2, FewerAreUnique, FewerAreBounded

\* Of calculations with a greatest number, Max gives that number.
LEMMA LatestIsMax == ASSUME runs \subseteq Nat, NEW t, IsTop(t) PROVE Max(runs) = t
<1>1. t \in runs /\ \A r \in runs : t >= r
  BY DEF IsTop
<1>2. Max(runs) \in runs /\ \A r \in runs : Max(runs) >= r
  BY <1>1 DEF Max
<1> DEFINE m == Max(runs)
<1>3. m \in Nat /\ t \in Nat /\ m <= t /\ m >= t
  BY <1>1, <1>2 DEF IsTop
<1> HIDE DEF m
<1>4. m = t
  BY <1>3
<1> QED
  BY <1>4 DEF m

\* A calculation has a number that no scenario, not even of a pruned one, has.
LEMMA CalculatedStep == ASSUME ScenInv, Calculated PROVE ScenInv'
<1> USE DEF ScenInv
<1>1. PICK t \in runs : IsTop(t) /\ \A s \in All : s.run <= t
  BY DEF Bounded
<1>2. t \in Nat /\ runs' = runs \cup {t + 1}
  BY <1>1, LatestIsMax DEF Types, Calculated
<1>3. UNCHANGED <<scenarios, open, place, wanted, out, cache, given, ids>>
  BY DEF Calculated
<1>4. All' = All
  BY <1>3 DEF All, Answers, InHand, InReply
<1>5. \A s \in All : s \in Rows
  BY InAll DEF Types
<1>6. \A s \in All : s.run # t + 1
  BY <1>1, <1>2, <1>5 DEF Rows
<1>7. Types' /\ Unique' /\ OpenApart'
  BY <1>2, <1>3, <1>4 DEF Types, Unique, OpenApart, Key
<1>8. Bounded'
  <2>1. IsTop(t + 1)'
    BY <1>1, <1>2 DEF IsTop, Types
  <2>2. \A s \in All' : s.run <= t + 1
    BY <1>1, <1>2, <1>4, <1>5 DEF Rows
  <2> QED
    BY <1>2, <2>1, <2>2 DEF Bounded
<1>9. Held'
  <2>1. \A d \in Clients : \A s \in out[d] : s.run \in runs' => s.run \in runs
    BY <1>2, <1>6, InAll
  <2> QED
    BY <1>3, <2>1 DEF Held, Key
<1>10. Stored'
  <2>1. \A s \in Answers \cup scenarios : s.run \in runs' => s.run \in runs
    BY <1>2, <1>6, InAll DEF Answers
  <2> QED
    BY <1>3, <2>1 DEF Stored, Answers
<1> QED
  BY <1>7, <1>8, <1>9, <1>10

\* prune keeps the latest calculation, and those of scenarios in hand.
LEMMA PruneStep == ASSUME ScenInv, Prune PROVE ScenInv'
<1> USE DEF ScenInv
<1>1. PICK t \in runs : IsTop(t) /\ \A s \in All : s.run <= t
  BY DEF Bounded
<1>2. t \notin Old
  BY <1>1, LatestIsMax DEF Types, Old
<1>3. /\ runs' = runs \ Old /\ scenarios' = {s \in scenarios : s.run \notin Old}
      /\ UNCHANGED <<open, place, wanted, out, cache, given, ids>>
  BY DEF Prune
<1>4. Types'
  BY <1>3 DEF Types
<1>5. All' \subseteq All
  BY <1>3 DEF All, Answers, InHand, InReply
<1>6. Unique' /\ OpenApart'
  BY <1>3, <1>5, FewerAreUnique DEF OpenApart, Key
<1>7. Bounded'
  <2>1. IsTop(t)' /\ t \in runs'
    BY <1>1, <1>2, <1>3 DEF IsTop
  <2> QED
    BY <1>1, <1>5, <2>1 DEF Bounded
<1>8. \A s \in scenarios : s.run \in runs' => s \in scenarios'
  BY <1>3
<1>9. Held' /\ Stored'
  BY <1>3, <1>8 DEF Held, Stored, Answers, Key
<1> QED
  BY <1>4, <1>6, <1>7, <1>9

LEMMA StutterStep == ASSUME ScenInv, UNCHANGED scenVars PROVE ScenInv'
BY DEF ScenInv, Types, Bounded, IsTop, Held, Stored, OpenApart, Unique, All, Answers, InHand, InReply, Key, scenVars

-----------------------------------------------------------------------------
\* Whatever clients, calculations, prunes, failures and lost cache entries
\* interleave (service.py:60-115, whatif.py, cli.py's prune), what each client
\* has in hand or is about to answer is one scenario of a key, stored or its own.
THEOREM ScenInvariance == ScenSpec => []ScenInv
<1>1. ScenInit => ScenInv
  BY InitScenInv
<1>2. ScenInv /\ [ScenNext]_scenVars => ScenInv'
  <2> SUFFICES ASSUME ScenInv, [ScenNext]_scenVars PROVE ScenInv'
    OBVIOUS
  <2>1. CASE Calculated
    BY <2>1, CalculatedStep
  <2>2. CASE Prune
    BY <2>2, PruneStep
  <2>3. CASE \E s \in cache : Forgotten(s)
    BY <2>3, ForgottenStep
  <2>4. ASSUME NEW c \in Clients, LookInCache(c) \/ LookUp(c) \/ Insert(c) \/ InsertRows(c) PROVE ScenInv'
    BY <2>4, CacheStep, LookUpStep, InsertStep, RowsStep
  <2>5. ASSUME NEW c \in Clients, Commit(c) \/ Remember(c) \/ Fail(c) PROVE ScenInv'
    BY <2>5, CommitStep, RememberStep, FailStep
  <2>6. ASSUME NEW c \in Clients, NEW run \in runs, NEW r \in Removals, Request(c, run, r) PROVE ScenInv'
    BY <2>6, RequestStep
  <2>7. CASE UNCHANGED scenVars
    BY <2>7, StutterStep
  <2> QED
    BY <2>1, <2>2, <2>3, <2>4, <2>5, <2>6, <2>7 DEF ScenNext
<1> QED
  BY <1>1, <1>2, PTL DEF ScenSpec

\* An answer given or cached of a calculation that is kept is a stored scenario
\* with its rows, and no request is answered by two (service.py:79-90), for any
\* number of clients, calculations and sets of facilities.
THEOREM AnswersStored == ScenSpec => []AnsweredIsStored
<1>1. ScenInv => AnsweredIsStored
  BY InAll DEF ScenInv, Stored, Unique, Answers, AnsweredIsStored
<1> QED
  BY <1>1, ScenInvariance, PTL

-----------------------------------------------------------------------------
(* Upstream *)
Services == {"datago", "kakao", "sgis"}
UpTypes ==
  /\ client \in Services /\ step \in {"idle", "data", "token"} /\ second \in BOOLEAN
  /\ heard \in NotOk \cup Bodies \cup {"blank"}
  /\ result \in {"none", "rows", "empty", "stop", "failed", "refused", "unanswered"}
  /\ tries \in Nat /\ entries \in Nat /\ errors \in Nat /\ fetches \in Nat /\ now \in Nat /\ token \in Nat /\ expires \in Nat

\* A fetch in progress is the one that has no row yet.
OneInProgress == fetches = entries + (IF step = "idle" THEN 0 ELSE 1) /\ errors <= entries
Attempts == tries <= 1 + Retries
\* What may have been heard, and what follows the refusal of a token: the token
\* in hand was then issued within this get.
HeardIsPossible ==
  step # "idle" /\ tries > 0 =>
    /\ client = "kakao" => heard \in NotOk \cup {"rows", "garbage"}
    /\ client = "sgis" => heard \in NotOk \cup {"rows", "refused", "garbage", "blank", "expired"}
    /\ step = "token" => heard # "expired"
SecondIsFresh == (step = "token" => client = "sgis") /\ (second /\ step = "data" => token \in fresh)
\* What the collector is told is what was heard last.
ToldIsHeard ==
  step = "idle" /\ heard # "blank" =>
    /\ result = "rows" => heard = "rows"
    /\ result = "empty" => heard = "none"
    /\ result = "refused" => heard = "refused" \/ (heard = "expired" /\ token \in fresh)
    /\ result \in {"failed", "unanswered"} => heard \notin {"rows", "none", "refused", "over"} \/ (client = "datago" /\ heard = "refused")
UpInv == UpTypes /\ OneInProgress /\ Attempts /\ HeardIsPossible /\ SecondIsFresh /\ ToldIsHeard

LEMMA CallsStep == ASSUME UpInv, NEW cl \in Services, Calls(cl) PROVE UpInv'
<1>1. /\ step = "idle" /\ step' \in {"token", "data"} /\ (step' = "token" => cl = "sgis")
      /\ client' = cl /\ second' = FALSE /\ result' = "none" /\ tries' = 0 /\ fetches' = fetches + 1
      /\ UNCHANGED <<heard, entries, errors, now, token, expires>>
  BY DEF Calls, Fetch
<1>2. UpTypes'
  <2>1. client' \in Services /\ step' \in {"idle", "data", "token"} /\ second' \in BOOLEAN
    BY <1>1
  <2> QED
    BY <1>1, <2>1 DEF UpInv, UpTypes
<1> QED
  BY <1>1, <1>2, UpstreamAssumption DEF UpInv, UpTypes, OneInProgress, Attempts, HeardIsPossible, SecondIsFresh, ToldIsHeard

LEMMA TryStep == ASSUME UpInv, Try PROVE UpInv'
<1>1. /\ heard' \in Possible /\ step # "idle" /\ tries' = tries + 1 /\ (tries = 0 \/ tries <= Retries)
      /\ UNCHANGED <<client, asks, step, entries, errors, fetches, now, token, expires, second, fresh, result>>
  BY DEF Try, sgisTokenVars
<1>2. /\ Possible \subseteq NotOk \cup Bodies \cup {"blank"}
      /\ client = "kakao" => Possible \subseteq NotOk \cup {"rows", "garbage"}
      /\ client = "sgis" => Possible \subseteq NotOk \cup {"rows", "refused", "garbage", "blank", "expired"}
      /\ step = "token" => Possible \subseteq NotOk \cup {"rows", "refused", "garbage", "blank"}
  <2>1. CASE step = "token" /\ client = "sgis"
    <3>1. Possible = NotOk \cup {"rows", "refused", "garbage", "blank"}
      BY <2>1 DEF Possible
    <3> QED
      BY <2>1, <3>1 DEF Bodies
  <2>2. CASE step = "data" /\ client = "sgis"
    BY <2>2 DEF Possible, Bodies, NotOk, Again
  <2>3. CASE step = "data" /\ client = "kakao"
    BY <2>3 DEF Possible, Bodies
  <2>4. CASE step = "data" /\ client = "datago"
    BY <2>4 DEF Possible, Bodies
  <2> QED
    BY <1>1, <2>1, <2>2, <2>3, <2>4 DEF UpInv, UpTypes, Services, SecondIsFresh
<1>3. HeardIsPossible'
  BY <1>1, <1>2 DEF UpInv, SecondIsFresh, HeardIsPossible, NotOk, Again
<1> QED
  BY <1>1, <1>2, <1>3, UpstreamAssumption DEF UpInv, UpTypes, OneInProgress, Attempts, SecondIsFresh, ToldIsHeard

\* Reading an answer for datago and kakao, which have no tokens.
LEMMA PlainReads == ASSUME UpInv, DataGoReads \/ KakaoReads PROVE UpInv'
<1>1. /\ step # "idle" /\ tries > 0 /\ step' = "idle" /\ entries' = entries + 1 /\ errors' \in {errors, errors + 1}
      /\ UNCHANGED <<client, now, token, expires, second, fresh, heard, tries, fetches>>
  BY DEF DataGoReads, KakaoReads, Answered, Keep, Tell, sgisTokenVars, UpInv, UpTypes
<1>2. ToldIsHeard' /\ result' \in {"rows", "empty", "stop", "failed"}
  <2>1. CASE DataGoReads
    BY <1>1, <2>1 DEF DataGoReads, Tell, ToldIsHeard
  <2>2. CASE KakaoReads
    BY <1>1, <2>2 DEF KakaoReads, Tell, ToldIsHeard, UpInv, HeardIsPossible, NotOk, Again
  <2> QED
    BY <2>1, <2>2
<1> QED
  BY <1>1, <1>2 DEF UpInv, UpTypes, OneInProgress, Attempts, HeardIsPossible, SecondIsFresh

LEMMA TokenStep == ASSUME UpInv, TokenReads PROVE UpInv'
<1>1. /\ step = "token" /\ tries > 0 /\ client = "sgis" /\ entries' = entries + 1 /\ errors' \in {errors, errors + 1}
      /\ UNCHANGED <<client, now, heard, second>> /\ heard \in NotOk \cup {"rows", "refused", "garbage", "blank"}
  BY DEF TokenReads, Answered, Keep, Fetch, Tell, sgisTokenVars, UpInv, UpTypes, HeardIsPossible, SecondIsFresh
<1>2. CASE heard = "rows"
  <2>1. /\ token' = fetches /\ fresh' = fresh \cup {fetches} /\ expires' = now + Life /\ UNCHANGED result
        /\ step' = "data" /\ tries' = 0 /\ fetches' = fetches + 1
    BY <1>2 DEF TokenReads, Fetch
  <2> QED
    BY <1>1, <2>1, UpstreamAssumption DEF UpInv, UpTypes, OneInProgress, Attempts, HeardIsPossible, SecondIsFresh, ToldIsHeard
<1>3. CASE heard # "rows"
  <2>1. /\ result' = (IF heard \in {"refused", "blank"} THEN "refused" ELSE "unanswered")
        /\ step' = "idle" /\ UNCHANGED <<tries, fetches, token, expires, fresh>>
    BY <1>3 DEF TokenReads, Tell, sgisTokenVars
  <2> QED
    BY <1>1, <1>3, <2>1 DEF UpInv, UpTypes, OneInProgress, Attempts, HeardIsPossible, SecondIsFresh, ToldIsHeard, NotOk, Again
<1> QED
  BY <1>2, <1>3

LEMMA SgisStep == ASSUME UpInv, SgisReads PROVE UpInv'
<1>1. /\ step = "data" /\ tries > 0 /\ client = "sgis" /\ entries' = entries + 1 /\ errors' \in {errors, errors + 1}
      /\ UNCHANGED <<client, now, heard, token, expires, fresh>>
      /\ heard \in NotOk \cup {"rows", "refused", "garbage", "blank", "expired"}
  BY DEF SgisReads, Answered, Keep, Fetch, Tell, sgisTokenVars, UpInv, UpTypes, HeardIsPossible
<1>2. CASE heard = "expired" /\ ~second
  <2>1. second' = TRUE /\ UNCHANGED result /\ step' = "token" /\ tries' = 0 /\ fetches' = fetches + 1
    BY <1>2 DEF SgisReads, Fetch, NeedsToken, Forced
  <2>2. UpTypes'
    BY <1>1, <2>1 DEF UpInv, UpTypes
  <2> QED
    BY <1>1, <2>1, <2>2, UpstreamAssumption
    DEF UpInv, UpTypes, OneInProgress, Attempts, HeardIsPossible, SecondIsFresh, ToldIsHeard
<1>3. CASE ~(heard = "expired" /\ ~second)
  <2>1. /\ result' = (CASE heard \in {"rows", "blank"} -> "rows" [] heard \in {"refused", "expired"} -> "refused" [] OTHER -> "unanswered")
        /\ step' = "idle" /\ UNCHANGED <<tries, fetches, second>>
    BY <1>3 DEF SgisReads, Tell, sgisTokenVars
  <2>2. ToldIsHeard' /\ result' \in {"rows", "refused", "unanswered"}
    BY <1>1, <1>3, <2>1 DEF UpInv, SecondIsFresh, ToldIsHeard, NotOk, Again
  <2> QED
    BY <1>1, <2>1, <2>2 DEF UpInv, UpTypes, OneInProgress, Attempts, HeardIsPossible, SecondIsFresh
<1> QED
  BY <1>2, <1>3

\* No upstream that did not answer is taken for one that said no, and each fetch
\* leaves its row in raw.api_response (http.py:61, sgis/client.py:60-77), for any
\* number of retries and whatever becomes of tokens.
THEOREM SaidAnswered == UpSpec => []SaidIsAnswered
<1>1. UpInit => UpInv
  <2> SUFFICES ASSUME UpInit PROVE UpInv
    OBVIOUS
  <2> USE DEF UpInit
  <2>1. UpTypes
    BY DEF UpTypes, Services, Bodies
  <2> QED
    BY <2>1, UpstreamAssumption DEF UpInv, OneInProgress, Attempts, HeardIsPossible, SecondIsFresh, ToldIsHeard
<1>2. UpInv /\ [UpNext]_upVars => UpInv'
  <2> SUFFICES ASSUME UpInv, [UpNext]_upVars PROVE UpInv'
    OBVIOUS
  <2>1. CASE Passes
    BY <2>1 DEF Passes, sgisTokenVars, UpInv, UpTypes, OneInProgress, Attempts, HeardIsPossible, SecondIsFresh, ToldIsHeard
  <2>2. ASSUME NEW t \in alive, Revoke(t) PROVE UpInv'
    BY <2>2 DEF Revoke, UpInv, UpTypes, OneInProgress, Attempts, HeardIsPossible, SecondIsFresh, ToldIsHeard
  <2>3. CASE UNCHANGED upVars
    BY <2>3 DEF upVars, UpInv, UpTypes, OneInProgress, Attempts, HeardIsPossible, SecondIsFresh, ToldIsHeard
  <2> QED
    BY <2>1, <2>2, <2>3, CallsStep, TryStep, PlainReads, TokenStep, SgisStep DEF UpNext, Services
<1>3. UpInv => SaidIsAnswered
  BY DEF UpInv, UpTypes, OneInProgress, Attempts, ToldIsHeard, SaidIsAnswered
<1> QED
  BY <1>1, <1>2, <1>3, PTL DEF UpSpec

-----------------------------------------------------------------------------
(* Visit.  What is kept under a version, or will be once whoever is about  *)
(* it has read the rest, is as new as that version says (Sound), and as    *)
(* new as what was there for whoever asks with the same version (Serves).  *)
Versions    == Nat \X Nat \X Nat \X Nat
VisitBodies == [hours : [Cells -> Nat], air : [AirCodes -> Nat], calc : Nat]
Flight      == {"cache", "hours", "air", "keep"}

HasNewest(f, D) == \E m \in D : \A x \in D : f[x] <= f[m]
VisitTypes ==
  /\ hours \in [Cells -> Nat] /\ airAt \in [AirCodes -> Nat] /\ calcRun \in Nat
  /\ HasNewest(hours, Cells) /\ HasNewest(airAt, AirCodes)
  /\ visit \in [Visitors -> Flight \cup {"idle", "said", "404"}]
  /\ from \in [Visitors -> VisitBodies] /\ body \in [Visitors -> VisitBodies]
  /\ version \in [Visitors -> Versions \cup {<<>>}] /\ kept \subseteq Versions \X VisitBodies

\* What a request has read, with what it has still to read as it is now.
NowOf(v) ==
  [hours |-> IF visit[v] \in {"air", "keep"} THEN body[v].hours ELSE hours,
   air   |-> IF visit[v] = "keep" THEN body[v].air ELSE airAt,
   calc  |-> IF visit[v] \in {"hours", "air", "keep"} THEN body[v].calc ELSE calcRun]
MayServe(V, b) ==
  \/ <<V, b>> \in kept
  \/ \E v \in Visitors : visit[v] \in Flight /\ V = version[v] /\ b = NowOf(v)

\* What a version says of a body: as many cells as it counts are of its base, and
\* while it is the version, the others that it has not missed are in the body.
HoursSound(V, h) ==
  /\ V[1] <= Newest(hours)
  /\ \E S \in SUBSET Cells : Cardinality(S) = V[2] /\ \A g \in S : h[g] >= V[1] /\ hours[g] >= V[1]
  /\ V[1] = Newest(hours) => \A g \in Cells : g \notin unseen /\ hours[g] < V[1] => h[g] >= hours[g]
AirSound(V, a) ==
  /\ V[3] <= Newest(airAt)
  /\ V[3] = Newest(airAt) => \A x \in AirCodes : x \notin unseen => a[x] >= airAt[x]
Sound(V, b) == HoursSound(V, b.hours) /\ AirSound(V, b.air) /\ b.calc >= V[4] /\ V[4] <= calcRun

IsAsNew(b, c) ==
  /\ \A g \in Cells : b.hours[g] >= c.hours[g]
  /\ \A x \in AirCodes : b.air[x] >= c.air[x]
  /\ b.calc >= c.calc
Inputs == [hours |-> hours, air |-> airAt, calc |-> calcRun]

AllSound == \A V \in Versions, b \in VisitBodies : MayServe(V, b) => Sound(V, b)
Serves   ==
  \A v \in Visitors : visit[v] \in Flight =>
    version[v] \in Versions /\ \A b \in VisitBodies : MayServe(version[v], b) => IsAsNew(b, from[v])
Past     == \A v \in Visitors : IsAsNew(Inputs, from[v])
SaidIsCurrent == \A v \in Visitors : visit[v] = "said" => IsAsNew(body[v], from[v])
VisitInv == VisitTypes /\ AllSound /\ Serves /\ Past /\ SaidIsCurrent

\* The newest of values of which one is above all is that one.
LEMMA NewestIsTop ==
  ASSUME NEW D, NEW f \in [D -> Nat], NEW m \in D, \A x \in D : f[x] <= f[m]
  PROVE  Newest(f) = f[m]
<1> DEFINE S == {f[x] : x \in DOMAIN f}
<1>1. f[m] \in S /\ S \subseteq Nat /\ \A y \in S : f[m] >= y
  OBVIOUS
<1> HIDE DEF S
<1>2. Max(S) \in S /\ \A y \in S : Max(S) >= y
  BY <1>1 DEF Max
<1> DEFINE n == Max(S)
<1>3. n \in Nat /\ f[m] \in Nat /\ n <= f[m] /\ n >= f[m]
  BY <1>1, <1>2
<1> HIDE DEF n
<1>4. n = f[m]
  BY <1>3
<1> QED
  BY <1>4 DEF n, S, Newest

LEMMA NewestIs ==
  ASSUME NEW D, NEW f \in [D -> Nat], HasNewest(f, D)
  PROVE  /\ Newest(f) \in Nat /\ (\A x \in D : f[x] <= Newest(f)) /\ (\E x \in D : f[x] = Newest(f))
<1>1. PICK m \in D : \A x \in D : f[x] <= f[m]
  BY DEF HasNewest
<1>2. Newest(f) = f[m]
  BY <1>1, NewestIsTop
<1> QED
  BY <1>1, <1>2

LEMMA NowOfType == ASSUME VisitTypes, NEW v \in Visitors PROVE NowOf(v) \in VisitBodies
BY DEF VisitTypes, NowOf, VisitBodies

\* A version that is read now is sound of what is there now.
LEMMA VersionIsSound ==
  ASSUME VisitTypes
  PROVE  Version \in Versions /\ Inputs \in VisitBodies /\ Sound(Version, Inputs)
<1>1. /\ Newest(hours) \in Nat /\ \A g \in Cells : hours[g] <= Newest(hours)
      /\ Newest(airAt) \in Nat /\ \A x \in AirCodes : airAt[x] <= Newest(airAt)
  BY NewestIs DEF VisitTypes
<1>2. AtNewest(hours) \in SUBSET Cells /\ \A g \in AtNewest(hours) : hours[g] = Newest(hours)
  BY DEF VisitTypes, AtNewest
<1>3. Cardinality(AtNewest(hours)) \in Nat
  BY <1>2, VisitAssumption, FS_Subset, FS_CardinalityType
<1>4. Version \in Versions /\ Inputs \in VisitBodies
  BY <1>1, <1>3 DEF Version, Versions, Inputs, VisitBodies, VisitTypes
<1>5. Version[1] = Newest(hours) /\ Version[2] = Cardinality(AtNewest(hours)) /\ Version[3] = Newest(airAt) /\ Version[4] = calcRun
  BY DEF Version
<1>6. Inputs.hours = hours /\ Inputs.air = airAt /\ Inputs.calc = calcRun
  BY DEF Inputs
<1>7. HoursSound(Version, hours)
  BY <1>1, <1>2, <1>5 DEF HoursSound, VisitTypes
<1>8. AirSound(Version, airAt)
  BY <1>1, <1>5 DEF AirSound, VisitTypes
<1> QED
  BY <1>4, <1>5, <1>6, <1>7, <1>8 DEF Sound, VisitTypes

\* What is sound of the version that is read now has all that the reader may ask for.
LEMMA SoundServes ==
  ASSUME VisitTypes, NEW b \in VisitBodies, Sound(Version, b)
  PROVE  /\ \A g \in Cells : g \notin unseen => b.hours[g] >= hours[g]
         /\ \A x \in AirCodes : x \notin unseen => b.air[x] >= airAt[x]
         /\ b.calc >= calcRun
<1>1. Version[1] = Newest(hours) /\ Version[2] = Cardinality(AtNewest(hours)) /\ Version[3] = Newest(airAt) /\ Version[4] = calcRun
  BY DEF Version
<1>2. Newest(hours) \in Nat /\ \A g \in Cells : hours[g] <= Newest(hours)
  BY NewestIs DEF VisitTypes
<1>3. PICK S \in SUBSET Cells :
        Cardinality(S) = Cardinality(AtNewest(hours)) /\ \A g \in S : b.hours[g] >= Newest(hours) /\ hours[g] >= Newest(hours)
  BY <1>1 DEF Sound, HoursSound
<1>4. AtNewest(hours) \subseteq Cells /\ \A g \in Cells : g \in AtNewest(hours) <=> hours[g] = Newest(hours)
  BY DEF VisitTypes, AtNewest
<1>5. S \subseteq AtNewest(hours)
  BY <1>2, <1>3, <1>4 DEF VisitTypes
<1>6. S = AtNewest(hours)
  BY <1>3, <1>4, <1>5, VisitAssumption, FS_Subset
<1>7. \A g \in Cells : g \notin unseen => b.hours[g] >= hours[g]
  <2> SUFFICES ASSUME NEW g \in Cells, g \notin unseen PROVE b.hours[g] >= hours[g]
    OBVIOUS
  <2>1. CASE hours[g] = Newest(hours)
    BY <1>3, <1>4, <1>6, <2>1
  <2>2. CASE hours[g] # Newest(hours)
    <3>1. hours[g] < Newest(hours)
      BY <1>2, <2>2 DEF VisitTypes
    <3> QED
      BY <1>1, <3>1 DEF Sound, HoursSound
  <2> QED
    BY <2>1, <2>2
<1> QED
  BY <1>1, <1>7 DEF Sound, AirSound

\* However the inputs change, what has been read keeps what it promises.
LEMMA InputsMove ==
  ASSUME VisitInv, VisitTypes', UNCHANGED <<kept, visit, from, version, body>>,
         \A g \in Cells : hours[g] <= hours'[g], \A x \in AirCodes : airAt[x] <= airAt'[x], calcRun <= calcRun',
         Newest(hours') = Newest(hours) =>
           \A g \in Cells : g \notin unseen' /\ hours'[g] < Newest(hours) => g \notin unseen /\ hours'[g] = hours[g],
         Newest(airAt') = Newest(airAt) =>
           \A x \in AirCodes : x \notin unseen' => x \notin unseen /\ airAt'[x] = airAt[x]
  PROVE  VisitInv'
<1> USE DEF VisitInv
<1>1. /\ Newest(hours) \in Nat /\ \A g \in Cells : hours[g] <= Newest(hours)
      /\ Newest(airAt) \in Nat /\ \A x \in AirCodes : airAt[x] <= Newest(airAt)
      /\ \E g \in Cells : hours[g] = Newest(hours)
      /\ \E x \in AirCodes : airAt[x] = Newest(airAt)
  BY NewestIs DEF VisitTypes
<1>2. /\ Newest(hours') \in Nat /\ \A g \in Cells : hours'[g] <= Newest(hours')
      /\ Newest(airAt') \in Nat /\ \A x \in AirCodes : airAt'[x] <= Newest(airAt')
  BY NewestIs DEF VisitTypes
<1>3. /\ \A g \in Cells : hours[g] \in Nat /\ hours'[g] \in Nat
      /\ \A x \in AirCodes : airAt[x] \in Nat /\ airAt'[x] \in Nat
      /\ calcRun \in Nat /\ calcRun' \in Nat
  BY DEF VisitTypes
<1>4. Newest(hours) <= Newest(hours') /\ Newest(airAt) <= Newest(airAt')
  BY <1>1, <1>2, <1>3
<1>5. \A V \in Versions, h, k \in [Cells -> Nat] : HoursSound(V, h) /\ (k = h \/ k = hours') => HoursSound(V, k)'
  <2> SUFFICES ASSUME NEW V \in Versions, NEW h \in [Cells -> Nat], HoursSound(V, h),
                      NEW k \in [Cells -> Nat], k = h \/ k = hours'
               PROVE  HoursSound(V, k)'
    OBVIOUS
  <2>1. V[1] \in Nat /\ V[2] \in Nat /\ V[1] <= Newest(hours)
    BY DEF Versions, HoursSound
  <2>2. PICK S \in SUBSET Cells : Cardinality(S) = V[2] /\ \A g \in S : h[g] >= V[1] /\ hours[g] >= V[1]
    BY DEF HoursSound
  <2>3. \A g \in S : k[g] >= V[1] /\ hours'[g] >= V[1]
    BY <2>1, <2>2, <1>3
  <2>4. V[1] <= Newest(hours')
    BY <2>1, <1>1, <1>2, <1>4
  <2>5. ASSUME V[1] = Newest(hours'), NEW g \in Cells, g \notin unseen', hours'[g] < V[1] PROVE k[g] >= hours'[g]
    <3>1. V[1] = Newest(hours) /\ Newest(hours') = Newest(hours)
      BY <2>1, <2>5, <1>1, <1>2, <1>4
    <3>2. g \notin unseen /\ hours'[g] = hours[g]
      BY <2>5, <3>1
    <3>3. h[g] >= hours[g]
      BY <2>5, <3>1, <3>2 DEF HoursSound
    <3> QED
      BY <3>2, <3>3, <1>3
  <2> QED
    BY <2>2, <2>3, <2>4, <2>5 DEF HoursSound
<1>6. \A V \in Versions, a, k \in [AirCodes -> Nat] : AirSound(V, a) /\ (k = a \/ k = airAt') => AirSound(V, k)'
  <2> SUFFICES ASSUME NEW V \in Versions, NEW a \in [AirCodes -> Nat], AirSound(V, a),
                      NEW k \in [AirCodes -> Nat], k = a \/ k = airAt'
               PROVE  AirSound(V, k)'
    OBVIOUS
  <2>1. V[3] \in Nat /\ V[3] <= Newest(airAt)
    BY DEF Versions, AirSound
  <2>2. V[3] <= Newest(airAt')
    BY <2>1, <1>1, <1>2, <1>4
  <2>3. ASSUME V[3] = Newest(airAt'), NEW x \in AirCodes, x \notin unseen' PROVE k[x] >= airAt'[x]
    <3>1. V[3] = Newest(airAt) /\ Newest(airAt') = Newest(airAt)
      BY <2>1, <2>3, <1>1, <1>2, <1>4
    <3>2. x \notin unseen /\ airAt'[x] = airAt[x]
      BY <2>3, <3>1
    <3>3. a[x] >= airAt[x]
      BY <3>1, <3>2 DEF AirSound
    <3> QED
      BY <3>2, <3>3, <1>3
  <2> QED
    BY <2>2, <2>3 DEF AirSound
<1>7. Past'
  <2> SUFFICES ASSUME NEW v \in Visitors PROVE IsAsNew(Inputs', from[v])
    BY DEF Past, IsAsNew
  <2>1. from[v] \in VisitBodies /\ IsAsNew(Inputs, from[v])
    BY DEF VisitTypes, Past
  <2> QED
    BY <2>1, <1>3 DEF IsAsNew, Inputs, VisitBodies
\* What may serve: what was kept, or what a request has read so far with the rest as it is now.
<1>8. ASSUME NEW V \in Versions, NEW b \in VisitBodies, MayServe(V, b)'
      PROVE  \E c \in VisitBodies :
               /\ MayServe(V, c)
               /\ b.hours = c.hours \/ b.hours = hours'
               /\ b.air = c.air \/ b.air = airAt'
               /\ b.calc = c.calc \/ b.calc = calcRun'
  <2>1. CASE <<V, b>> \in kept
    BY <2>1 DEF MayServe
  <2>2. CASE \E v \in Visitors : visit'[v] \in Flight /\ V = version'[v] /\ b = NowOf(v)'
    <3>1. PICK v \in Visitors : visit[v] \in Flight /\ V = version[v] /\ b = NowOf(v)'
      BY <2>2
    <3>2. NowOf(v) \in VisitBodies /\ MayServe(V, NowOf(v))
      BY <3>1, NowOfType DEF MayServe
    <3> QED
      BY <3>1, <3>2 DEF NowOf
  <2> QED
    BY <1>8, <2>1, <2>2 DEF MayServe
<1>9. AllSound'
  <2> SUFFICES ASSUME NEW V \in Versions, NEW b \in VisitBodies, MayServe(V, b)' PROVE Sound(V, b)'
    BY DEF AllSound
  <2>1. PICK c \in VisitBodies :
          /\ MayServe(V, c)
          /\ b.hours = c.hours \/ b.hours = hours'
          /\ b.air = c.air \/ b.air = airAt'
          /\ b.calc = c.calc \/ b.calc = calcRun'
    BY <1>8
  <2>2. HoursSound(V, c.hours) /\ AirSound(V, c.air) /\ c.calc >= V[4] /\ V[4] \in Nat /\ V[4] <= calcRun
    BY <2>1 DEF AllSound, Sound, VisitBodies, Versions
  <2>3. HoursSound(V, b.hours)' /\ AirSound(V, b.air)'
    BY <2>1, <2>2, <1>5, <1>6 DEF VisitBodies
  <2> QED
    BY <2>1, <2>2, <2>3, <1>3 DEF Sound, VisitBodies
<1>10. Serves'
  <2> SUFFICES ASSUME NEW v \in Visitors, visit[v] \in Flight, NEW b \in VisitBodies, MayServe(version[v], b)'
               PROVE  IsAsNew(b, from[v])
    BY DEF Serves
  <2>1. version[v] \in Versions
    BY DEF Serves
  <2>2. PICK c \in VisitBodies :
          /\ MayServe(version[v], c)
          /\ b.hours = c.hours \/ b.hours = hours'
          /\ b.air = c.air \/ b.air = airAt'
          /\ b.calc = c.calc \/ b.calc = calcRun'
    BY <2>1, <1>8
  <2>3. IsAsNew(c, from[v]) /\ IsAsNew(Inputs', from[v])
    BY <2>2, <1>7 DEF Serves, Past
  <2> QED
    BY <2>2, <2>3 DEF IsAsNew, Inputs
<1>11. SaidIsCurrent'
  BY DEF SaidIsCurrent
<1> QED
  BY <1>7, <1>9, <1>10, <1>11

\* A cell that is stored: the newest base is still the newest, or the stored one is.
LEMMA HoursMove == ASSUME VisitInv, NEW g \in Cells, NEW base \in 1 .. LastBase, HoursStored(g, base) PROVE VisitInv'
<1> USE DEF VisitInv
<1>1. /\ base \in Nat /\ hours \in [Cells -> Nat] /\ hours[g] <= base /\ hours' = [hours EXCEPT ![g] = base]
      /\ UNCHANGED <<airAt, calcRun, kept, visit, from, version, body>>
      /\ unseen' = IF base < Newest(hours) THEN unseen \cup {g} ELSE unseen \ {g}
  BY DEF HoursStored, InputChanges, VisitTypes
<1>2. Newest(hours) \in Nat /\ \A x \in Cells : hours[x] <= Newest(hours)
  BY NewestIs DEF VisitTypes
<1>3. HasNewest(hours', Cells)
  <2>1. PICK m \in Cells : \A x \in Cells : hours[x] <= hours[m]
    BY DEF VisitTypes, HasNewest
  <2>2. CASE base >= hours[m]
    <3>1. \A x \in Cells : hours'[x] <= hours'[g]
      BY <1>1, <2>1, <2>2
    <3> QED
      BY <3>1 DEF HasNewest
  <2>3. CASE ~(base >= hours[m])
    <3>1. \A x \in Cells : hours'[x] <= hours'[m]
      BY <1>1, <2>1, <2>3
    <3> QED
      BY <3>1 DEF HasNewest
  <2> QED
    BY <2>2, <2>3
<1>4. VisitTypes'
  BY <1>1, <1>3 DEF VisitTypes
<1>5. \A x \in Cells : hours[x] <= hours'[x]
  BY <1>1
<1>6. Newest(hours') = Newest(hours) =>
        \A x \in Cells : x \notin unseen' /\ hours'[x] < Newest(hours) => x \notin unseen /\ hours'[x] = hours[x]
  BY <1>1, <1>2
<1>7. \A x \in AirCodes : x \notin unseen' => x \notin unseen /\ airAt'[x] = airAt[x]
  BY <1>1, VisitAssumption
<1>8. calcRun <= calcRun' /\ \A x \in AirCodes : airAt[x] <= airAt'[x]
  BY <1>1 DEF VisitTypes
<1> QED
  BY <1>1, <1>4, <1>5, <1>6, <1>7, <1>8, InputsMove

\* The codes that one collection stores.
LEMMA AirMove ==
  ASSUME VisitInv, NEW codes \in SUBSET AirCodes, codes # {}, NEW t \in 1 .. LastAir, AirStored(codes, t)
  PROVE  VisitInv'
<1> USE DEF VisitInv
<1>1. /\ t \in Nat /\ airAt \in [AirCodes -> Nat]
      /\ airAt' = [a \in AirCodes |-> IF a \in codes /\ airAt[a] <= t THEN t ELSE airAt[a]]
      /\ UNCHANGED <<hours, calcRun, kept, visit, from, version, body>>
      /\ unseen' = IF t <= Newest(airAt) THEN unseen \cup {a \in codes : airAt[a] < t} ELSE unseen \ codes
  BY DEF AirStored, InputChanges, VisitTypes
<1>2. Newest(airAt) \in Nat /\ \A x \in AirCodes : airAt[x] <= Newest(airAt)
  BY NewestIs DEF VisitTypes
<1>3. HasNewest(airAt', AirCodes)
  <2>1. PICK m \in AirCodes : \A x \in AirCodes : airAt[x] <= airAt[m]
    BY DEF VisitTypes, HasNewest
  <2>2. PICK c \in codes : c \in AirCodes
    OBVIOUS
  <2>3. CASE t >= airAt[m]
    <3>1. airAt'[c] = t /\ \A x \in AirCodes : airAt'[x] <= t
      BY <1>1, <2>1, <2>2, <2>3
    <3> QED
      BY <2>2, <3>1 DEF HasNewest
  <2>4. CASE ~(t >= airAt[m])
    <3>1. \A x \in AirCodes : airAt'[x] <= airAt'[m]
      BY <1>1, <2>1, <2>4
    <3> QED
      BY <3>1 DEF HasNewest
  <2> QED
    BY <2>3, <2>4
<1>4. VisitTypes'
  BY <1>1, <1>3 DEF VisitTypes
<1>5. \A x \in AirCodes : airAt[x] <= airAt'[x]
  BY <1>1
<1>6. ASSUME Newest(airAt') = Newest(airAt), NEW x \in AirCodes, x \notin unseen'
      PROVE  x \notin unseen /\ airAt'[x] = airAt[x]
  <2>1. CASE t <= Newest(airAt)
    BY <1>1, <1>6, <2>1
  <2>2. CASE ~(t <= Newest(airAt))
    <3>1. PICK c \in codes : c \in AirCodes
      OBVIOUS
    <3>2. airAt'[c] = t
      BY <1>1, <1>2, <2>2, <3>1
    <3>3. Newest(airAt') \in Nat /\ airAt'[c] <= Newest(airAt')
      BY <1>4, <3>1, NewestIs DEF VisitTypes
    <3> QED
      BY <1>1, <1>2, <1>6, <2>2, <3>2, <3>3
  <2> QED
    BY <2>1, <2>2
<1>7. \A x \in Cells : x \notin unseen' => x \notin unseen /\ hours'[x] = hours[x]
  BY <1>1, VisitAssumption
<1>8. calcRun <= calcRun' /\ \A x \in Cells : hours[x] <= hours'[x]
  BY <1>1 DEF VisitTypes
<1> QED
  BY <1>1, <1>4, <1>5, <1>6, <1>7, <1>8, InputsMove

LEMMA CalcMove == ASSUME VisitInv, Calculates PROVE VisitInv'
<1> USE DEF VisitInv
<1>1. calcRun' = calcRun + 1 /\ UNCHANGED <<hours, airAt, unseen, kept, visit, from, version, body>>
  BY DEF Calculates, InputChanges
<1>2. VisitTypes'
  BY <1>1 DEF VisitTypes
<1>3. /\ calcRun <= calcRun'
      /\ \A g \in Cells : hours[g] <= hours'[g]
      /\ \A x \in AirCodes : airAt[x] <= airAt'[x]
  BY <1>1 DEF VisitTypes
<1> QED
  BY <1>1, <1>2, <1>3, InputsMove

\* A step of a request after which nothing may serve that might not before.
LEMMA NothingNewServes ==
  ASSUME VisitInv, VisitTypes', UNCHANGED <<inputVars, from, version>>, SaidIsCurrent',
         \A v \in Visitors : visit'[v] \in Flight => visit[v] \in Flight,
         \A V \in Versions, b \in VisitBodies : MayServe(V, b)' => MayServe(V, b)
  PROVE  VisitInv'
<1> USE DEF VisitInv
<1>1. UNCHANGED <<hours, airAt, calcRun, unseen>>
  BY DEF inputVars
<1>2. Past'
  BY <1>1 DEF Past, Inputs
<1>3. AllSound'
  BY <1>1 DEF AllSound, Sound, HoursSound, AirSound
<1>4. Serves'
  BY DEF Serves
<1> QED
  BY <1>2, <1>3, <1>4

\* To hit, to miss and to read the hours leaves a body as it was or will be.
LEMMA NowOfKeeps ==
  ASSUME VisitInv, NEW u \in Visitors, UNCHANGED <<inputVars, from, version, kept>>, VisitTypes', SaidIsCurrent',
         \A v \in Visitors \ {u} : visit'[v] = visit[v] /\ body'[v] = body[v],
         visit[u] \in Flight, visit'[u] \in Flight => NowOf(u)' = NowOf(u)
  PROVE  VisitInv'
<1>1. \A v \in Visitors : visit'[v] \in Flight => visit[v] \in Flight
  OBVIOUS
<1>2. \A v \in Visitors : visit'[v] \in Flight => NowOf(v)' = NowOf(v)
  BY DEF NowOf, inputVars
<1>3. \A V \in Versions, b \in VisitBodies : MayServe(V, b)' => MayServe(V, b)
  BY <1>1, <1>2 DEF MayServe
<1> QED
  BY <1>1, <1>3, NothingNewServes

LEMMA ReadsMove ==
  ASSUME VisitInv, NEW u \in Visitors, Misses(u) \/ ReadsHours(u) \/ ReadsAir(u)
  PROVE  VisitInv'
<1> USE DEF VisitInv
<1>1. /\ UNCHANGED <<inputVars, from, version, kept>>
      /\ UNCHANGED <<hours, airAt, calcRun, unseen>>
      /\ visit' = [visit EXCEPT ![u] = visit'[u]] /\ body' = [body EXCEPT ![u] = body'[u]]
      /\ visit[u] \in Flight /\ visit'[u] \in {"hours", "air", "keep", "404"} /\ body'[u] \in VisitBodies
  <2>1. hours \in [Cells -> Nat] /\ airAt \in [AirCodes -> Nat] /\ calcRun \in Nat /\ body[u] \in VisitBodies
    BY DEF VisitTypes
  <2>2. visit \in [Visitors -> Flight \cup {"idle", "said", "404"}] /\ body \in [Visitors -> VisitBodies]
    BY DEF VisitTypes
  <2>3. CASE Misses(u)
    BY <2>1, <2>2, <2>3 DEF Misses, Goes, VisitBodies, Flight, inputVars
  <2>4. CASE ReadsHours(u)
    BY <2>1, <2>2, <2>4 DEF ReadsHours, Goes, VisitBodies, Flight, inputVars
  <2>5. CASE ReadsAir(u)
    BY <2>1, <2>2, <2>5 DEF ReadsAir, Goes, VisitBodies, Flight, inputVars
  <2> QED
    BY <2>3, <2>4, <2>5
<1>2. VisitTypes'
  BY <1>1 DEF VisitTypes, Flight
<1>3. SaidIsCurrent'
  BY <1>1 DEF SaidIsCurrent, VisitTypes
<1>4. \A v \in Visitors \ {u} : visit'[v] = visit[v] /\ body'[v] = body[v]
  BY <1>1 DEF VisitTypes
<1>5. visit'[u] \in Flight => NowOf(u)' = NowOf(u)
  <2>1. visit[u] \in Flight \cup {"idle", "said", "404"} /\ DOMAIN visit = Visitors
    BY DEF VisitTypes
  <2>2. DOMAIN body = Visitors
    BY DEF VisitTypes
  <2>3. PICK b : b = body[u]
    OBVIOUS
  <2>4. b \in VisitBodies
    BY <2>3 DEF VisitTypes
  <2>5. CASE Misses(u)
    <3>1. visit[u] = "cache" /\ visit'[u] = "hours" /\ body'[u] = [b EXCEPT !.calc = calcRun]
      BY <2>1, <2>2, <2>3, <2>5 DEF Misses, Goes
    <3>2. body'[u].calc = calcRun
      BY <2>4, <3>1 DEF VisitBodies
    <3> QED
      BY <1>1, <3>1, <3>2 DEF NowOf
  <2>6. CASE ReadsHours(u)
    <3>1. visit[u] = "hours" /\ visit'[u] = "air" /\ body'[u] = [b EXCEPT !.hours = hours]
      BY <2>1, <2>2, <2>3, <2>6 DEF ReadsHours, Goes
    <3>2. body'[u].hours = hours /\ body'[u].calc = body[u].calc
      BY <2>3, <2>4, <3>1 DEF VisitBodies
    <3> QED
      BY <1>1, <3>1, <3>2 DEF NowOf
  <2>7. CASE ReadsAir(u)
    <3>1. visit[u] = "air" /\ visit'[u] \in {"404", "keep"} /\ body'[u] = [b EXCEPT !.air = airAt]
      BY <2>1, <2>2, <2>3, <2>7 DEF ReadsAir, Goes
    <3>2. body'[u].air = airAt /\ body'[u].calc = body[u].calc /\ body'[u].hours = body[u].hours
      BY <2>3, <2>4, <3>1 DEF VisitBodies
    <3> QED
      BY <1>1, <3>1, <3>2 DEF NowOf, Flight
  <2> QED
    BY <2>5, <2>6, <2>7
<1> QED
  BY <1>1, <1>2, <1>3, <1>4, <1>5, NowOfKeeps

LEMMA HitsMove == ASSUME VisitInv, NEW u \in Visitors, Hits(u) PROVE VisitInv'
<1> USE DEF VisitInv
<1>1. PICK k \in kept : k[1] = version[u] /\ body' = [body EXCEPT ![u] = k[2]]
  BY DEF Hits
<1>2. visit[u] = "cache" /\ visit' = [visit EXCEPT ![u] = "said"] /\ UNCHANGED <<inputVars, kept, from, version>>
  BY DEF Hits, Goes
<1>3. k[1] \in Versions /\ k[2] \in VisitBodies /\ k = <<k[1], k[2]>>
  BY DEF VisitTypes
<1>4. VisitTypes'
  BY <1>1, <1>2, <1>3 DEF VisitTypes, inputVars
<1>5. MayServe(version[u], k[2])
  BY <1>1, <1>3 DEF MayServe
<1>6. IsAsNew(k[2], from[u])
  BY <1>2, <1>3, <1>5 DEF Serves, Flight
<1>7. \A v \in Visitors \ {u} : visit'[v] = visit[v] /\ body'[v] = body[v]
  BY <1>1, <1>2 DEF VisitTypes
<1>8. visit'[u] = "said" /\ body'[u] = k[2]
  BY <1>1, <1>2 DEF VisitTypes
<1>9. SaidIsCurrent'
  BY <1>2, <1>6, <1>7, <1>8 DEF SaidIsCurrent
<1> QED
  BY <1>2, <1>4, <1>7, <1>8, <1>9, NowOfKeeps DEF Flight

LEMMA KeepsMove == ASSUME VisitInv, NEW u \in Visitors, Keeps(u) PROVE VisitInv'
<1> USE DEF VisitInv
<1>1. /\ visit[u] = "keep" /\ visit' = [visit EXCEPT ![u] = "said"]
      /\ UNCHANGED <<inputVars, from, version, body>> /\ kept' \subseteq kept \cup {<<version[u], body[u]>>}
  BY DEF Keeps, Goes
<1>2. version[u] \in Versions /\ body[u] \in VisitBodies
  BY <1>1 DEF Serves, Flight, VisitTypes
<1>3. VisitTypes'
  BY <1>1, <1>2 DEF VisitTypes, inputVars
<1>4. NowOf(u) = body[u]
  BY <1>1, <1>2 DEF NowOf, VisitBodies
<1>5. MayServe(version[u], body[u])
  BY <1>1, <1>4 DEF MayServe, Flight
<1>6. IsAsNew(body[u], from[u])
  BY <1>1, <1>2, <1>5 DEF Serves, Flight
<1>7. \A v \in Visitors \ {u} : visit'[v] = visit[v]
  BY <1>1 DEF VisitTypes
<1>8. SaidIsCurrent'
  BY <1>1, <1>6, <1>7 DEF SaidIsCurrent
<1>9. \A v \in Visitors : visit'[v] \in Flight => v # u /\ visit[v] \in Flight /\ NowOf(v)' = NowOf(v)
  BY <1>1, <1>7 DEF VisitTypes, Flight, NowOf, inputVars
<1>10. \A V \in Versions, b \in VisitBodies : MayServe(V, b)' => MayServe(V, b)
  <2> SUFFICES ASSUME NEW V \in Versions, NEW b \in VisitBodies, MayServe(V, b)' PROVE MayServe(V, b)
    OBVIOUS
  <2>1. CASE <<V, b>> \in kept'
    BY <1>1, <1>5, <2>1 DEF MayServe
  <2>2. CASE \E v \in Visitors : visit'[v] \in Flight /\ V = version'[v] /\ b = NowOf(v)'
    BY <1>1, <1>9, <2>2 DEF MayServe
  <2> QED
    BY <2>1, <2>2 DEF MayServe
<1> QED
  BY <1>1, <1>3, <1>8, <1>9, <1>10, NothingNewServes

\* A new request: its version is sound of what is there now, and whatever else may
\* serve under the same version has all that this request may ask for.
LEMMA AsksMove == ASSUME VisitInv, NEW u \in Visitors, ReadsVersion(u) PROVE VisitInv'
<1> USE DEF VisitInv
<1> DEFINE sought == [hours |-> [g \in Cells |-> IF g \in unseen THEN 0 ELSE hours[g]],
                     air |-> [a \in AirCodes |-> IF a \in unseen THEN 0 ELSE airAt[a]], calc |-> calcRun]
<1>1. /\ visit[u] = "idle" /\ visit' = [visit EXCEPT ![u] = "cache"] /\ version' = [version EXCEPT ![u] = Version]
      /\ from' = [from EXCEPT ![u] = sought] /\ UNCHANGED <<inputVars, kept, body>>
      /\ UNCHANGED <<hours, airAt, calcRun, unseen>>
  BY DEF ReadsVersion, Goes, inputVars
<1>2. Version \in Versions /\ Inputs \in VisitBodies /\ Sound(Version, Inputs)
  BY VersionIsSound
<1>3. sought \in VisitBodies
  BY DEF VisitTypes, VisitBodies
<1>4. VisitTypes'
  BY <1>1, <1>2, <1>3 DEF VisitTypes, Flight
<1>5. /\ visit'[u] = "cache" /\ version'[u] = Version /\ from'[u] = sought
      /\ \A v \in Visitors \ {u} : visit'[v] = visit[v] /\ version'[v] = version[v] /\ from'[v] = from[v]
  BY <1>1 DEF VisitTypes
<1>6. IsAsNew(Inputs, sought)
  BY DEF IsAsNew, Inputs, VisitTypes
<1>7. Past'
  BY <1>1, <1>5, <1>6 DEF Past, Inputs
<1>8. NowOf(u)' = Inputs /\ \A v \in Visitors \ {u} : NowOf(v)' = NowOf(v)
  BY <1>1, <1>5 DEF NowOf, Inputs
<1>9. \A V \in Versions, b \in VisitBodies : MayServe(V, b)' => MayServe(V, b) \/ (V = Version /\ b = Inputs)
  BY <1>1, <1>5, <1>8 DEF MayServe
<1>10. AllSound'
  <2>1. \A V \in Versions, b \in VisitBodies : Sound(V, b) => Sound(V, b)'
    BY <1>1 DEF Sound, HoursSound, AirSound
  <2> QED
    BY <1>2, <1>9, <2>1 DEF AllSound
<1>11. Serves'
  <2>1. \A v \in Visitors : visit'[v] \in Flight => version'[v] \in Versions
    BY <1>2, <1>5 DEF Serves
  <2>2. ASSUME NEW v \in Visitors, visit'[v] \in Flight, NEW V \in Versions, V = version'[v],
               NEW b \in VisitBodies, MayServe(V, b)'
        PROVE  IsAsNew(b, from'[v])
    <3>1. CASE v = u
      <4>1. Sound(Version, b)
        BY <1>2, <1>5, <1>9, <2>2, <3>1 DEF AllSound
      <4>2. /\ \A g \in Cells : g \notin unseen => b.hours[g] >= hours[g]
            /\ \A x \in AirCodes : x \notin unseen => b.air[x] >= airAt[x]
            /\ b.calc >= calcRun
        BY <4>1, SoundServes
      <4>3. /\ \A g \in Cells : b.hours[g] \in Nat
            /\ \A x \in AirCodes : b.air[x] \in Nat
        BY DEF VisitBodies
      <4> QED
        BY <1>5, <3>1, <4>2, <4>3 DEF IsAsNew
    <3>2. CASE v # u
      <4>1. visit[v] \in Flight /\ V = version[v] /\ from'[v] = from[v]
        BY <1>5, <2>2, <3>2
      <4>2. MayServe(V, b) \/ b = Inputs
        BY <1>9, <2>2
      <4> QED
        BY <4>1, <4>2 DEF Serves, Past
    <3> QED
      BY <3>1, <3>2
  <2>3. \A v \in Visitors, V \in Versions, b \in VisitBodies :
          visit'[v] \in Flight /\ V = version'[v] /\ MayServe(V, b)' => IsAsNew(b, from'[v])
    BY <2>2
  <2> QED
    BY <2>1, <2>3 DEF Serves
<1>12. SaidIsCurrent'
  BY <1>1, <1>5 DEF SaidIsCurrent
<1> QED
  BY <1>4, <1>7, <1>10, <1>11, <1>12

\* At first nothing is there, and nobody has asked.
LEMMA VisitStarts == VisitInit => VisitInv
<1> SUFFICES ASSUME VisitInit PROVE VisitInv
  OBVIOUS
<1>1. /\ hours = [g \in Cells |-> 0] /\ airAt = [a \in AirCodes |-> 0] /\ calcRun = 0 /\ kept = {}
      /\ visit = [v \in Visitors |-> "idle"] /\ version = [v \in Visitors |-> <<>>]
      /\ from = [v \in Visitors |-> [hours |-> hours, air |-> airAt, calc |-> 0]] /\ body = from
  BY DEF VisitInit
<1>2. HasNewest(hours, Cells) /\ HasNewest(airAt, AirCodes)
  BY <1>1, VisitAssumption DEF HasNewest
<1>3. VisitTypes
  BY <1>1, <1>2 DEF VisitTypes, VisitBodies
<1>4. Past
  BY <1>1 DEF Past, IsAsNew, Inputs
<1> QED
  BY <1>1, <1>3, <1>4 DEF VisitInv, AllSound, Serves, SaidIsCurrent, MayServe, Flight

\* An answer about a day is not older, in any cell or code that its version does not
\* miss, than what was committed when it was asked for, whoever read or kept it
\* (features/visit.py:144).
THEOREM VisitCurrent == VisitSpec => []VisitIsCurrent
<1>1. VisitInit => VisitInv
  BY VisitStarts
<1>2. VisitInv /\ [VisitNext]_visitVars => VisitInv'
  <2> SUFFICES ASSUME VisitInv, [VisitNext]_visitVars PROVE VisitInv'
    OBVIOUS
  <2>1. CASE UNCHANGED visitVars
    <3>1. UNCHANGED <<hours, airAt, calcRun, unseen, kept, visit, from, version, body>>
      BY <2>1 DEF visitVars
    <3>2. VisitTypes'
      BY <3>1 DEF VisitInv, VisitTypes
    <3>3. SaidIsCurrent'
      BY <3>1 DEF VisitInv, SaidIsCurrent
    <3>4. \A V \in Versions, b \in VisitBodies : MayServe(V, b)' => MayServe(V, b)
      BY <3>1 DEF MayServe, NowOf
    <3>5. \A V \in Versions, b \in VisitBodies : Sound(V, b) => Sound(V, b)'
      BY <3>1 DEF Sound, HoursSound, AirSound
    <3>6. AllSound' /\ Serves' /\ Past'
      BY <3>1, <3>4, <3>5 DEF VisitInv, AllSound, Serves, Past, Inputs
    <3> QED
      BY <3>2, <3>3, <3>6 DEF VisitInv
  <2>2. CASE VisitNext
    BY <2>2, HoursMove, AirMove, CalcMove, AsksMove, HitsMove, ReadsMove, KeepsMove DEF VisitNext
  <2> QED
    BY <2>1, <2>2
<1>3. VisitInv => VisitIsCurrent
  BY DEF VisitInv, SaidIsCurrent, IsAsNew, VisitIsCurrent
<1> QED
  BY <1>1, <1>2, <1>3, PTL DEF VisitSpec

-----------------------------------------------------------------------------
(* Served.  What is kept for a version is at least as current as the walk  *)
(* that gave the version its second (NoOlder), since a reader reads the    *)
(* version before the tables; and the version a request has read is that   *)
(* of a calculation and a walk no older than when the request began.       *)
Pairs == Nat \X Nat
CalcVersions == (1 .. MaxCalc) \X Nat
Asked == [calc : Nat, inm : BOOLEAN, ver : Pairs, floor : Pairs, tag : SUBSET Pairs, body : Pairs]
ServedTypes ==
  /\ latest \in 1 .. MaxCalc /\ walks \in [1 .. MaxCalc -> Seq(1 .. MaxSecond)]
  /\ cached \in [{"bodies", "tags"} -> SUBSET (CalcVersions \X Pairs)]
  /\ at \in [Readers -> {"idle", "resolved", "tag", "body", "computed", "kept"}]
  /\ req \in [Readers -> Asked] /\ DOMAIN has = Readers /\ kind \in {"map", "overview"}

\* The walk in position i of a calculation began in that sec.
WalkIn(r, i, sec) == i \in DOMAIN walks[r] /\ walks[r][i] = sec
NoOlder(ver, content) ==
  content[1] = ver[1] /\ (ver[2] = 0 \/ \E i \in Nat : WalkIn(ver[1], i, ver[2]) /\ i <= content[2])
CacheSound == \A part \in {"bodies", "tags"} : \A e \in cached[part] : NoOlder(e[1], e[2])
\* n walks, or what a version said when there were as many or more.
Told(ver, n) == (ver[2] = 0 /\ n = 0) \/ \E j \in Nat : WalkIn(ver[1], j, ver[2]) /\ j >= n
RequestSound(x) ==
  LET r == req[x] IN
  /\ at[x] # "idle" => /\ r.calc \in 1 .. MaxCalc /\ r.calc <= latest /\ r.calc >= r.floor[1]
                       /\ r.calc = r.floor[1] => Len(walks[r.calc]) >= r.floor[2]
  /\ at[x] \notin {"idle", "resolved"} => r.ver[1] = r.calc /\ Told(r.ver, 0) /\ (r.calc = r.floor[1] => Told(r.ver, r.floor[2]))
  /\ at[x] \in {"computed", "kept"} => NoOlder(r.ver, r.body)
ServedInv == ServedTypes /\ CacheSound /\ (\A x \in Readers : RequestSound(x)) /\ ServedIsCurrent

\* Walks are only added.
Added == \A r \in 1 .. MaxCalc : \A i \in Nat : \A s : WalkIn(r, i, s) => WalkIn(r, i, s)'
LEMMA SoundStays == ASSUME Added, NEW v \in CalcVersions, NEW c, NoOlder(v, c) PROVE NoOlder(v, c)'
BY DEF NoOlder, Added, CalcVersions
LEMMA ToldStays == ASSUME Added, NEW v, v[1] \in 1 .. MaxCalc, NEW n, Told(v, n) PROVE Told(v, n)'
BY DEF Told, Added

LEMMA SeqElements ==
  ASSUME NEW S, NEW s \in Seq(S)
  PROVE  Len(s) \in Nat /\ (\A i \in DOMAIN s : s[i] \in S) /\ (s # <<>> => Len(s) \in DOMAIN s)
OBVIOUS

\* What is sound for the version a request has read is as current as asked.
LEMMA SoundIsCurrent ==
  ASSUME ServedTypes, Apart, NEW x \in Readers, RequestSound(x), at[x] \notin {"idle", "resolved"},
         NEW c \in Pairs, NoOlder(req[x].ver, c)
  PROVE  AsCurrent(c, req[x].floor)
<1> DEFINE r == req[x]
<1>1. /\ r.calc \in 1 .. MaxCalc /\ r.calc >= r.floor[1] /\ r.ver[1] = r.calc /\ c[1] = r.calc
      /\ r.calc = r.floor[1] => Told(r.ver, r.floor[2])
      /\ r.floor[1] \in Nat /\ r.floor[2] \in Nat /\ c[2] \in Nat /\ r.calc \in Nat
  BY DEF RequestSound, NoOlder, ServedTypes, Asked, Pairs
<1>2. r.ver[2] = 0 \/ \E i \in Nat : WalkIn(r.calc, i, r.ver[2]) /\ i <= c[2]
  BY <1>1 DEF NoOlder
<1> HIDE DEF r
<1>3. CASE r.calc # r.floor[1]
  BY <1>1, <1>3 DEF AsCurrent, r
<1>4. CASE r.calc = r.floor[1]
  <2>1. walks[r.calc] \in Seq(1 .. MaxSecond) /\ IsInjective(walks[r.calc])
    BY <1>1 DEF ServedTypes, Apart
  <2>2. \A i, j \in Nat : WalkIn(r.calc, i, r.ver[2]) /\ WalkIn(r.calc, j, r.ver[2]) => i = j
    BY <2>1 DEF WalkIn, IsInjective
  <2>3. \A i \in Nat : ~WalkIn(r.calc, i, 0)
    <3>1. \A i \in DOMAIN walks[r.calc] : walks[r.calc][i] \in 1 .. MaxSecond
      BY <2>1, SeqElements
    <3>2. 0 \notin 1 .. MaxSecond
      BY ServedAssumption
    <3> QED
      BY <3>1, <3>2 DEF WalkIn
  <2>4. c[2] >= r.floor[2]
    BY <1>1, <1>2, <1>4, <2>2, <2>3 DEF Told
  <2> QED
    BY <1>1, <1>4, <2>4 DEF AsCurrent, r
<1> QED
  BY <1>3, <1>4

LEMMA RequestStays ==
  ASSUME ServedTypes, ServedTypes', Added, NEW x \in Readers, RequestSound(x), req'[x] = req[x], at'[x] = at[x],
         latest' >= latest, \A r \in 1 .. MaxCalc : Len(walks'[r]) >= Len(walks[r])
  PROVE  RequestSound(x)'
<1>1. at[x] # "idle" => /\ req[x].calc \in 1 .. MaxCalc /\ req[x].calc <= latest' /\ Len(walks[req[x].calc]) \in Nat /\ Len(walks'[req[x].calc]) \in Nat
                        /\ req[x].floor[2] \in Nat
  <2>1. latest \in Int /\ latest' \in Int /\ (at[x] # "idle" => req[x].calc \in Int)
    BY DEF ServedTypes, RequestSound
  <2>2. \A a, b, c \in Int : a <= b /\ c >= b => a <= c
    OBVIOUS
  <2>3. at[x] # "idle" => req[x].calc <= latest'
    BY <2>1, <2>2 DEF RequestSound
  <2>4. at[x] # "idle" => req[x].calc \in 1 .. MaxCalc
    BY DEF RequestSound
  <2>5. \A r \in 1 .. MaxCalc : Len(walks[r]) \in Nat /\ Len(walks'[r]) \in Nat
    BY DEF ServedTypes
  <2>6. req[x].floor[2] \in Nat
    BY DEF ServedTypes, Asked, Pairs
  <2> QED
    BY <2>3, <2>4, <2>5, <2>6
<1>2. at[x] \notin {"idle", "resolved"} => req[x].ver \in CalcVersions
  <2>1. req[x].ver \in Nat \X Nat
    BY DEF ServedTypes, Asked, Pairs
  <2> QED
    BY <1>1, <2>1 DEF RequestSound, CalcVersions
<1>3. at[x] \notin {"idle", "resolved"} /\ req[x].calc = req[x].floor[1] => Told(req[x].ver, req[x].floor[2])'
  <2> HAVE at[x] \notin {"idle", "resolved"} /\ req[x].calc = req[x].floor[1]
  <2>1. Told(req[x].ver, req[x].floor[2]) /\ req[x].ver[1] \in 1 .. MaxCalc
    BY <1>2 DEF RequestSound, CalcVersions
  <2> DEFINE v == req[x].ver
             n == req[x].floor[2]
  <2> QED
    BY <2>1 DEF Told, Added
<1>5. at[x] \notin {"idle", "resolved"} => Told(req[x].ver, 0)'
  BY <1>2 DEF RequestSound, CalcVersions, Told, Added
<1>4. at[x] \in {"computed", "kept"} => NoOlder(req[x].ver, req[x].body)'
  BY <1>2 DEF RequestSound, NoOlder, Added, CalcVersions
<1> QED
  BY <1>1, <1>3, <1>4, <1>5 DEF RequestSound

\* What is kept is put there for the version of its request.
LEMMA StoreSound ==
  ASSUME ServedTypes, CacheSound, NEW x \in Readers, req[x].ver \in CalcVersions, NEW part \in {"bodies", "tags"},
         NEW c \in Pairs, NoOlder(req[x].ver, c), Store(part, x, c)
  PROVE  cached' \in [{"bodies", "tags"} -> SUBSET (CalcVersions \X Pairs)]
         /\ \A p \in {"bodies", "tags"} : \A e \in cached'[p] : NoOlder(e[1], e[2])
<1>1. CASE UNCHANGED cached
  BY <1>1 DEF ServedTypes, CacheSound
<1>2. CASE cached' = [cached EXCEPT ![part] = {e \in @ : e[1] # req[x].ver} \cup {<<req[x].ver, c>>}]
  <2>1. <<req[x].ver, c>> \in CalcVersions \X Pairs
    OBVIOUS
  <2>2. \A p \in {"bodies", "tags"} : cached'[p] \subseteq cached[p] \cup {<<req[x].ver, c>>}
    BY <1>2 DEF ServedTypes
  <2>3. cached' \in [{"bodies", "tags"} -> SUBSET (CalcVersions \X Pairs)]
    BY <1>2, <2>1 DEF ServedTypes
  <2>4. \A e \in {<<req[x].ver, c>>} : NoOlder(e[1], e[2])
    OBVIOUS
  <2> QED
    BY <2>2, <2>3, <2>4 DEF CacheSound
<1> QED
  BY <1>1, <1>2 DEF Store

LEMMA FoundSound ==
  ASSUME ServedTypes, CacheSound, NEW x \in Readers, NEW part \in {"bodies", "tags"}, NEW c \in Found(part, x)
  PROVE  c \in Pairs /\ NoOlder(req[x].ver, c)
<1>1. PICK e \in cached[part] : e[1] = req[x].ver /\ c = e[2]
  BY DEF Found
<1>2. e \in CalcVersions \X Pairs
  BY <1>1 DEF ServedTypes
<1> QED
  BY <1>1, <1>2 DEF CacheSound

\* A request, and what it becomes.
LEMMA AskedFields ==
  ASSUME ServedTypes, NEW x \in Readers
  PROVE  /\ req[x] \in Asked /\ req[x].calc \in Nat /\ req[x].floor[1] \in Nat /\ req[x].floor[2] \in Nat
         /\ \A v \in Pairs : [req[x] EXCEPT !.ver = v] \in Asked
         /\ \A n \in Nat : [req[x] EXCEPT !.inm = FALSE, !.calc = n] \in Asked
         /\ \A T \in SUBSET Pairs : [req[x] EXCEPT !.tag = T] \in Asked
<1>1. PICK q : q = req[x]
  OBVIOUS
<1>2. q \in Asked
  BY <1>1 DEF ServedTypes
<1>3. q.calc \in Nat /\ q.floor[1] \in Nat /\ q.floor[2] \in Nat
  BY <1>2 DEF Asked, Pairs
<1>4. \A v \in Pairs : [q EXCEPT !.ver = v] \in Asked
  BY <1>2 DEF Asked
<1>5. \A n \in Nat : [q EXCEPT !.inm = FALSE, !.calc = n] \in Asked
  BY <1>2 DEF Asked
<1>6. \A T \in SUBSET Pairs : [q EXCEPT !.tag = T] \in Asked
  BY <1>2 DEF Asked
<1> QED
  BY <1>1, <1>2, <1>3, <1>4, <1>5, <1>6

\* The walks and all other requests stay: what is left is the request at hand.
LEMMA OneMoves ==
  ASSUME ServedInv, ServedTypes', NEW x \in Readers, UNCHANGED <<latest, walks>>,
         \A y \in Readers : y # x => req'[y] = req[y] /\ at'[y] = at[y],
         UNCHANGED cached \/ \A p \in {"bodies", "tags"} : \A e \in cached'[p] : NoOlder(e[1], e[2]),
         RequestSound(x)', last' = {} \/ ServedIsCurrent'
  PROVE  ServedInv'
<1>1. Added /\ latest' >= latest /\ \A r \in 1 .. MaxCalc : Len(walks'[r]) >= Len(walks[r])
  <2>1. latest \in Int /\ \A r \in 1 .. MaxCalc : Len(walks[r]) \in Nat
    BY DEF ServedInv, ServedTypes
  <2>2. latest' >= latest /\ \A r \in 1 .. MaxCalc : Len(walks'[r]) >= Len(walks[r])
    BY <2>1
  <2>3. Added
    BY DEF Added, WalkIn
  <2> QED
    BY <2>2, <2>3
<1>2. \A y \in Readers : y # x => RequestSound(y)'
  BY <1>1, RequestStays DEF ServedInv
<1>3. CacheSound'
  <2>1. \A v, c : NoOlder(v, c)' <=> NoOlder(v, c)
    BY DEF NoOlder, WalkIn
  <2> QED
    BY <2>1 DEF ServedInv, CacheSound
<1>4. ServedIsCurrent'
  BY DEF ServedIsCurrent
<1> QED
  BY <1>2, <1>3, <1>4 DEF ServedInv

LEMMA AskMoves == ASSUME ServedInv, NEW x \in Readers, NEW inm \in BOOLEAN, Ask(x, inm), UNCHANGED kind, last' = {} PROVE ServedInv'
<1>1. Content(latest) \in Pairs /\ latest \in Nat /\ Content(latest)[1] = latest /\ Content(latest)[2] = Len(walks[latest])
  BY DEF ServedInv, ServedTypes, Content, Pairs
<1>2. [NoRequest EXCEPT !.calc = latest, !.inm = inm, !.floor = Content(latest)] \in Asked
  BY <1>1 DEF NoRequest, Asked, Pairs, Nothing
<1>3. ServedTypes'
  BY <1>2 DEF ServedInv, ServedTypes, Ask, Turn, dataVars
<1>4. /\ at'[x] = "resolved" /\ req'[x].calc = latest /\ req'[x].floor = Content(latest)
      /\ UNCHANGED <<latest, walks, cached>>
  BY DEF ServedInv, ServedTypes, Ask, Turn, NoRequest, dataVars
<1>5. RequestSound(x)'
  BY <1>1, <1>4 DEF RequestSound, ServedInv, ServedTypes
<1>6. \A y \in Readers : y # x => req'[y] = req[y] /\ at'[y] = at[y]
  BY DEF Ask, Turn, ServedInv, ServedTypes
<1> QED
  BY <1>3, <1>4, <1>5, <1>6, OneMoves

LEMMA VersionIsTold ==
  ASSUME ServedTypes, NEW r \in 1 .. MaxCalc
  PROVE  DataVersion(r) \in CalcVersions \cap Pairs /\ DataVersion(r)[1] = r /\ Told(DataVersion(r), Len(walks[r]))
<1> DEFINE w == walks[r]
<1>1. w \in Seq(1 .. MaxSecond) /\ Len(w) \in Nat /\ (w # <<>> => Len(w) \in DOMAIN w /\ w[Len(w)] \in Nat)
  <2>1. w \in Seq(1 .. MaxSecond)
    BY DEF ServedTypes
  <2> HIDE DEF w
  <2>2. Len(w) \in Nat /\ (\A i \in DOMAIN w : w[i] \in 1 .. MaxSecond) /\ (w # <<>> => Len(w) \in DOMAIN w)
    BY <2>1, SeqElements
  <2> QED
    BY <2>1, <2>2
<1>2. w = <<>> => Len(w) = 0
  OBVIOUS
<1>3. w # <<>> => WalkIn(r, Len(w), w[Len(w)])
  BY <1>1 DEF WalkIn
<1> HIDE DEF w
<1>4. DataVersion(r) = <<r, IF w = <<>> THEN 0 ELSE w[Len(w)]>>
  BY DEF DataVersion, w
<1>5. Told(DataVersion(r), Len(w))
  BY <1>1, <1>2, <1>3, <1>4 DEF Told
<1> QED
  BY <1>1, <1>4, <1>5 DEF CalcVersions, Pairs, w

LEMMA VersionMoves == ASSUME ServedInv, NEW x \in Readers, ReadVersion(x), UNCHANGED kind, last' = {} PROVE ServedInv'
<1> DEFINE r == req[x].calc
           v == DataVersion(r)
<1>1. r \in 1 .. MaxCalc /\ r <= latest /\ r >= req[x].floor[1] /\ (r = req[x].floor[1] => Len(walks[r]) >= req[x].floor[2])
      /\ req[x].floor[2] \in Nat /\ Len(walks[r]) \in Nat
  <2>1. at[x] = "resolved"
    BY DEF ReadVersion
  <2>2. r \in 1 .. MaxCalc /\ r <= latest /\ r >= req[x].floor[1] /\ (r = req[x].floor[1] => Len(walks[r]) >= req[x].floor[2])
    BY <2>1 DEF ServedInv, RequestSound
  <2>3. \A k \in 1 .. MaxCalc : Len(walks[k]) \in Nat
    BY DEF ServedInv, ServedTypes
  <2>4. req[x].floor[2] \in Nat
    BY AskedFields DEF ServedInv
  <2> QED
    BY <2>2, <2>3, <2>4
<1>2. v \in Pairs /\ v[1] = r /\ Told(v, Len(walks[r]))
  BY <1>1, VersionIsTold DEF ServedInv
<1> HIDE DEF v
<1>3. Told(v, 0) /\ (r = req[x].floor[1] => Told(v, req[x].floor[2]))
  BY <1>1, <1>2 DEF Told
<1>4. req'[x] = [req[x] EXCEPT !.ver = v] /\ req'[x] \in Asked
  <2>1. req' = [req EXCEPT ![x].ver = v]
    BY DEF ReadVersion, v
  <2>2. req'[x] = [req[x] EXCEPT !.ver = v]
    BY <2>1 DEF ServedInv, ServedTypes
  <2>3. [req[x] EXCEPT !.ver = v] \in Asked
    BY <1>2, AskedFields DEF ServedInv
  <2> QED
    BY <2>2, <2>3
<1>5. ServedTypes'
  BY <1>4 DEF ServedInv, ServedTypes, ReadVersion, Turn, dataVars
<1>6. at'[x] \in {"tag", "body"} /\ UNCHANGED <<latest, walks, cached>>
  BY DEF ServedInv, ServedTypes, ReadVersion, Turn, dataVars
<1>7. req'[x].calc = r /\ req'[x].ver = v /\ req'[x].floor = req[x].floor
  BY <1>4 DEF ServedInv, ServedTypes, Asked
<1>8. \A u, n : Told(u, n)' <=> Told(u, n)
  BY <1>6 DEF Told, WalkIn
<1>9. RequestSound(x)'
  BY <1>1, <1>2, <1>3, <1>6, <1>7, <1>8 DEF RequestSound
<1>10. \A y \in Readers : y # x => req'[y] = req[y] /\ at'[y] = at[y]
  BY DEF ReadVersion, Turn, ServedInv, ServedTypes
<1> QED
  BY <1>5, <1>6, <1>9, <1>10, OneMoves

LEMMA AgainMoves == ASSUME ServedInv, NEW x \in Readers, LookAgain(x), UNCHANGED kind, last' = {} PROVE ServedInv'
<1>1. at[x] = "tag"
  BY DEF LookAgain, Tag
<1>2. latest \in 1 .. MaxCalc /\ latest \in Nat /\ 1 <= latest
  BY DEF ServedInv, ServedTypes
<1>3. /\ req[x].calc \in Nat /\ req[x].calc <= latest /\ req[x].calc >= req[x].floor[1] /\ req[x].floor[1] \in Nat
      /\ req[x].calc = req[x].floor[1] => Len(walks[req[x].calc]) >= req[x].floor[2]
  BY <1>1 DEF ServedInv, RequestSound, ServedTypes, Asked, Pairs
<1>4. req' = [req EXCEPT ![x] = [req[x] EXCEPT !.inm = FALSE, !.calc = latest]]
  BY DEF LookAgain, ServedInv, ServedTypes
<1>5. [req[x] EXCEPT !.inm = FALSE, !.calc = latest] \in Asked
  BY <1>2, AskedFields DEF ServedInv
<1>6. ServedTypes'
  BY <1>4, <1>5 DEF ServedInv, ServedTypes, LookAgain, Turn, dataVars
<1>7. /\ at'[x] = "resolved" /\ req'[x].calc = latest /\ req'[x].floor = req[x].floor
      /\ UNCHANGED <<latest, walks, cached>>
  BY <1>4 DEF ServedInv, ServedTypes, LookAgain, Turn, dataVars, Asked
<1>8. latest = req[x].floor[1] => Len(walks[latest]) >= req[x].floor[2]
  BY <1>2, <1>3
<1>9. RequestSound(x)'
  BY <1>2, <1>3, <1>7, <1>8 DEF RequestSound
<1>10. \A y \in Readers : y # x => req'[y] = req[y] /\ at'[y] = at[y]
  BY <1>4 DEF LookAgain, Turn, ServedInv, ServedTypes
<1> QED
  BY <1>6, <1>7, <1>9, <1>10, OneMoves

LEMMA TakeTagMoves == ASSUME ServedInv, NEW x \in Readers, TakeTag(x), UNCHANGED kind, last' = {} PROVE ServedInv'
<1>1. at[x] = "tag" /\ Tag(x) \subseteq Pairs
  BY FoundSound DEF TakeTag, Tag, ServedInv
<1>2. [req[x] EXCEPT !.tag = Tag(x)] \in Asked
  BY <1>1, AskedFields DEF ServedInv
<1>3. ServedTypes'
  BY <1>2 DEF ServedInv, ServedTypes, TakeTag, Turn, dataVars
<1>4. /\ at'[x] = "body" /\ req'[x].calc = req[x].calc /\ req'[x].floor = req[x].floor /\ req'[x].ver = req[x].ver
      /\ UNCHANGED <<latest, walks, cached>>
  BY DEF ServedInv, ServedTypes, TakeTag, Turn, dataVars, Asked
<1>5. \A u, n : Told(u, n)' <=> Told(u, n)
  BY <1>4 DEF Told, WalkIn
<1>6. RequestSound(x)'
  BY <1>1, <1>4, <1>5 DEF RequestSound, ServedInv
<1>7. \A y \in Readers : y # x => req'[y] = req[y] /\ at'[y] = at[y]
  BY DEF TakeTag, Turn, ServedInv, ServedTypes
<1> QED
  BY <1>3, <1>4, <1>6, <1>7, OneMoves

\* The tables are as new as the version that was read before.
LEMMA ComputeMoves == ASSUME ServedInv, NEW x \in Readers, Compute(x), UNCHANGED kind, last' = {} PROVE ServedInv'
<1> DEFINE r == req[x]
           c == Content(r.calc)
<1>1. /\ at[x] \in {"tag", "body"} /\ r \in Asked
      /\ r.calc \in 1 .. MaxCalc /\ r.calc <= latest /\ r.calc >= r.floor[1] /\ r.ver[1] = r.calc
      /\ r.calc = r.floor[1] => Len(walks[r.calc]) >= r.floor[2] /\ Told(r.ver, r.floor[2])
      /\ Told(r.ver, 0)
  <2>1. at[x] \in {"tag", "body"} /\ RequestSound(x)
    BY DEF Compute, ServedInv
  <2>2. r \in Asked
    BY AskedFields DEF ServedInv
  <2> QED
    BY <2>1, <2>2 DEF RequestSound
<1>2. c \in Pairs /\ c[1] = r.calc /\ c[2] = Len(walks[r.calc])
  BY <1>1 DEF Content, Pairs, ServedInv, ServedTypes
<1>3. NoOlder(r.ver, c)
  <2>1. Len(walks[r.calc]) \in Nat /\ \A i \in DOMAIN walks[r.calc] : i <= Len(walks[r.calc])
    BY <1>1 DEF ServedInv, ServedTypes
  <2> QED
    BY <1>1, <1>2, <2>1 DEF NoOlder, Told, WalkIn
<1> HIDE DEF c
<1>4. req'[x] = [r EXCEPT !.body = c] /\ req'[x] \in Asked
  BY <1>1, <1>2 DEF Compute, ServedInv, ServedTypes, Asked, c
<1>5. ServedTypes'
  BY <1>4 DEF ServedInv, ServedTypes, Compute, Turn, dataVars
<1>6. /\ at'[x] = "computed" /\ req'[x].calc = r.calc /\ req'[x].floor = r.floor /\ req'[x].ver = r.ver
      /\ req'[x].body = c /\ UNCHANGED <<latest, walks, cached>>
  BY <1>1, <1>4 DEF ServedInv, ServedTypes, Compute, Turn, dataVars, Asked
<1>7. \A u, n : (Told(u, n)' <=> Told(u, n)) /\ (NoOlder(u, n)' <=> NoOlder(u, n))
  BY <1>6 DEF Told, NoOlder, WalkIn
<1> HIDE DEF r
<1>8. RequestSound(x)'
  BY <1>1, <1>3, <1>6, <1>7 DEF RequestSound
<1>9. \A y \in Readers : y # x => req'[y] = req[y] /\ at'[y] = at[y]
  BY DEF Compute, Turn, ServedInv, ServedTypes
<1> QED
  BY <1>5, <1>6, <1>8, <1>9, OneMoves

\* The request is answered.
LEMMA ReplyEnds ==
  ASSUME ServedInv, NEW x \in Readers, NEW status, NEW shown, NEW tag, Reply(x, status, shown, tag),
         UNCHANGED <<latest, walks, kind>>,
         /\ cached' \in [{"bodies", "tags"} -> SUBSET (CalcVersions \X Pairs)]
         /\ \A p \in {"bodies", "tags"} : \A e \in cached'[p] : NoOlder(e[1], e[2]),
         Apart => /\ status = 200 => AsCurrent(shown, req[x].floor)
                  /\ status = 304 => has[x][1] # has[x][2] \/ AsCurrent(has[x][1], req[x].floor)
  PROVE  ServedInv'
<1>1. ServedTypes'
  BY DEF ServedInv, ServedTypes, Reply, Turn, NoRequest, Asked, Pairs, Nothing
<1>2. RequestSound(x)'
  BY DEF RequestSound, Reply, Turn, ServedInv, ServedTypes
<1>3. ServedIsCurrent'
  BY DEF ServedIsCurrent, Reply, Apart, IsInjective
<1>4. \A y \in Readers : y # x => req'[y] = req[y] /\ at'[y] = at[y]
  BY DEF Reply, Turn, ServedInv, ServedTypes
<1> QED
  BY <1>1, <1>2, <1>3, <1>4, OneMoves

LEMMA CacheStays == ASSUME ServedInv, UNCHANGED cached
  PROVE /\ cached' \in [{"bodies", "tags"} -> SUBSET (CalcVersions \X Pairs)]
        /\ \A p \in {"bodies", "tags"} : \A e \in cached'[p] : NoOlder(e[1], e[2])
BY DEF ServedInv, ServedTypes, CacheSound

LEMMA NotModifiedEnds == ASSUME ServedInv, NEW x \in Readers, NotModified(x), UNCHANGED kind PROVE ServedInv'
<1>1. at[x] = "tag" /\ has[x][2] \in Pairs /\ NoOlder(req[x].ver, has[x][2])
  BY FoundSound DEF NotModified, Tag, ServedInv
<1>2. Apart => AsCurrent(has[x][2], req[x].floor)
  BY <1>1, SoundIsCurrent DEF ServedInv
<1>3. Reply(x, 304, Nothing, has[x][2]) /\ UNCHANGED <<latest, walks, kind, cached>>
  BY DEF NotModified, dataVars
<1> QED
  BY <1>2, <1>3, ReplyEnds, CacheStays

LEMMA TakeBodyEnds == ASSUME ServedInv, NEW x \in Readers, TakeBody(x), UNCHANGED kind PROVE ServedInv'
<1>1. PICK b \in Found("bodies", x) : \E t : Reply(x, 200, b, t)
  BY DEF TakeBody
<1>2. at[x] = "body" /\ b \in Pairs /\ NoOlder(req[x].ver, b)
  BY FoundSound DEF TakeBody, ServedInv
<1>3. Apart => AsCurrent(b, req[x].floor)
  BY <1>2, SoundIsCurrent DEF ServedInv
<1>4. UNCHANGED <<latest, walks, kind, cached>>
  BY DEF TakeBody, dataVars
<1> QED
  BY <1>1, <1>3, <1>4, ReplyEnds, CacheStays

\* A request that has computed keeps it for the version it read first.
LEMMA ComputedIsSound ==
  ASSUME ServedInv, NEW x \in Readers, at[x] \in {"computed", "kept"}
  PROVE  req[x].ver \in CalcVersions /\ req[x].body \in Pairs /\ NoOlder(req[x].ver, req[x].body)
BY DEF ServedInv, RequestSound, ServedTypes, Asked, Pairs, CalcVersions

LEMMA KeepBodyMoves == ASSUME ServedInv, NEW x \in Readers, KeepBody(x), UNCHANGED kind, last' = {} PROVE ServedInv'
<1>1. at[x] = "computed" /\ Store("bodies", x, req[x].body) /\ UNCHANGED <<latest, walks, req, has>>
      /\ at' = [at EXCEPT ![x] = "kept"]
  BY DEF KeepBody, Turn, dataVars
<1>2. /\ cached' \in [{"bodies", "tags"} -> SUBSET (CalcVersions \X Pairs)]
      /\ \A p \in {"bodies", "tags"} : \A e \in cached'[p] : NoOlder(e[1], e[2])
  BY <1>1, ComputedIsSound, StoreSound DEF ServedInv
<1>3. ServedTypes'
  BY <1>1, <1>2 DEF ServedInv, ServedTypes
<1>4. \A u, n : (Told(u, n)' <=> Told(u, n)) /\ (NoOlder(u, n)' <=> NoOlder(u, n))
  BY <1>1 DEF Told, NoOlder, WalkIn
<1>5. RequestSound(x)'
  BY <1>1, <1>4 DEF RequestSound, ServedInv, ServedTypes
<1>6. \A y \in Readers : y # x => req'[y] = req[y] /\ at'[y] = at[y]
  BY <1>1 DEF ServedInv, ServedTypes
<1> QED
  BY <1>1, <1>2, <1>3, <1>5, <1>6, OneMoves

LEMMA KeepLastEnds == ASSUME ServedInv, NEW x \in Readers, KeepLast(x), UNCHANGED kind PROVE ServedInv'
<1>1. at[x] \in {"computed", "kept"} /\ UNCHANGED <<latest, walks, kind>>
  BY DEF KeepLast, dataVars
<1>2. /\ cached' \in [{"bodies", "tags"} -> SUBSET (CalcVersions \X Pairs)]
      /\ \A p \in {"bodies", "tags"} : \A e \in cached'[p] : NoOlder(e[1], e[2])
  BY <1>1, ComputedIsSound, StoreSound DEF KeepLast, ServedInv
<1>3. Apart => AsCurrent(req[x].body, req[x].floor)
  BY <1>1, ComputedIsSound, SoundIsCurrent DEF ServedInv
<1>4. CASE req[x].inm /\ req[x].body = has[x][2]
  <2>1. Reply(x, 304, Nothing, req[x].body)
    BY <1>4 DEF KeepLast
  <2> QED
    BY <1>1, <1>2, <1>3, <1>4, <2>1, ReplyEnds
<1>5. CASE ~(req[x].inm /\ req[x].body = has[x][2])
  <2>1. Reply(x, 200, req[x].body, req[x].body)
    BY <1>5 DEF KeepLast
  <2> QED
    BY <1>1, <1>2, <1>3, <2>1, ReplyEnds
<1> QED
  BY <1>4, <1>5

\* What the calculations and walks do meanwhile.
LEMMA DataMoves ==
  ASSUME ServedInv, ServedTypes', Added, latest' >= latest, \A r \in 1 .. MaxCalc : Len(walks'[r]) >= Len(walks[r]),
         UNCHANGED readVars, last' = {}
  PROVE  ServedInv'
<1>1. \A y \in Readers : RequestSound(y)'
  BY RequestStays DEF ServedInv, readVars
<1>2. CacheSound'
  <2>1. ASSUME NEW p \in {"bodies", "tags"}, NEW e \in cached[p] PROVE NoOlder(e[1], e[2])'
    <3>1. e[1] \in CalcVersions /\ NoOlder(e[1], e[2])
      BY DEF ServedInv, ServedTypes, CacheSound
    <3> QED
      BY <3>1 DEF NoOlder, Added, CalcVersions
  <2> QED
    BY <2>1 DEF CacheSound, readVars
<1> QED
  BY <1>1, <1>2 DEF ServedInv, ServedIsCurrent

LEMMA CalcDoneMoves == ASSUME ServedInv, CalcDone, UNCHANGED kind, last' = {} PROVE ServedInv'
<1>1. latest' \in 1 .. MaxCalc /\ latest' >= latest /\ UNCHANGED <<walks, readVars>>
  BY ServedAssumption DEF CalcDone, ServedInv, ServedTypes
<1>2. ServedTypes'
  BY <1>1 DEF ServedInv, ServedTypes, readVars
<1>3. Added /\ \A r \in 1 .. MaxCalc : Len(walks'[r]) >= Len(walks[r])
  <2>1. \A r \in 1 .. MaxCalc : Len(walks[r]) \in Nat
    BY DEF ServedInv, ServedTypes
  <2>2. \A n \in Nat : n >= n
    OBVIOUS
  <2> QED
    BY <1>1, <2>1, <2>2 DEF Added, WalkIn
<1> QED
  BY <1>1, <1>2, <1>3, DataMoves

LEMMA AppendAdds ==
  ASSUME NEW S, NEW s \in Seq(S), NEW e \in S
  PROVE  /\ Append(s, e) \in Seq(S) /\ Len(Append(s, e)) >= Len(s)
         /\ \A i \in Nat : i \in DOMAIN s => i \in DOMAIN Append(s, e) /\ Append(s, e)[i] = s[i]
OBVIOUS

LEMMA WalkCommitsMoves ==
  ASSUME ServedInv, NEW r \in 1 .. MaxCalc, NEW sec \in 1 .. MaxSecond, WalkCommits(r, sec), UNCHANGED kind, last' = {}
  PROVE ServedInv'
<1> DEFINE w == Append(walks[r], sec)
<1>1. walks[r] \in Seq(1 .. MaxSecond) /\ walks' = [walks EXCEPT ![r] = w]
  BY DEF ServedInv, ServedTypes, WalkCommits
<1>2. /\ w \in Seq(1 .. MaxSecond) /\ Len(w) >= Len(walks[r])
      /\ \A i \in Nat : i \in DOMAIN walks[r] => i \in DOMAIN w /\ w[i] = walks[r][i]
  BY <1>1, AppendAdds
<1> HIDE DEF w
<1>3. latest' = latest /\ latest' >= latest /\ UNCHANGED readVars
  BY DEF ServedInv, ServedTypes, WalkCommits
<1>4. walks' \in [1 .. MaxCalc -> Seq(1 .. MaxSecond)] /\ \A q \in 1 .. MaxCalc : q # r => walks'[q] = walks[q]
  BY <1>1, <1>2 DEF ServedInv, ServedTypes
<1>5. walks'[r] = w
  BY <1>1 DEF ServedInv, ServedTypes
<1>6. ServedTypes'
  BY <1>3, <1>4 DEF ServedInv, ServedTypes, readVars
<1>7. \A q \in 1 .. MaxCalc : Len(walks'[q]) >= Len(walks[q])
  <2>1. \A q \in 1 .. MaxCalc : Len(walks[q]) \in Nat
    BY DEF ServedInv, ServedTypes
  <2>2. \A n \in Nat : n >= n
    OBVIOUS
  <2> QED
    BY <1>2, <1>4, <1>5, <2>1, <2>2
<1>8. Added
  BY <1>2, <1>4, <1>5 DEF Added, WalkIn
<1> QED
  BY <1>3, <1>6, <1>7, <1>8, DataMoves

LEMMA ServedStarts == ServedInit => ServedInv
<1> SUFFICES ASSUME ServedInit PROVE ServedInv
  OBVIOUS
<1>1. <<>> \in Seq(1 .. MaxSecond) /\ 1 \in 1 .. MaxCalc /\ NoRequest \in Asked
  <2>1. <<>> \in Seq(1 .. MaxSecond)
    OBVIOUS
  <2> QED
    BY <2>1, ServedAssumption DEF NoRequest, Asked, Pairs, Nothing
<1>2. cached \in [{"bodies", "tags"} -> SUBSET (CalcVersions \X Pairs)] /\ CacheSound
  BY DEF ServedInit, CacheSound
<1>3. ServedTypes
  BY <1>1, <1>2 DEF ServedInit, ServedTypes
<1>4. \A x \in Readers : at[x] = "idle"
  BY DEF ServedInit
<1> QED
  BY <1>2, <1>3, <1>4 DEF ServedInv, RequestSound, ServedIsCurrent, ServedInit

LEMMA ServedStays == ServedInv /\ UNCHANGED servedVars => ServedInv'
BY DEF ServedInv, ServedTypes, CacheSound, NoOlder, RequestSound, Told, WalkIn, ServedIsCurrent, Apart, AsCurrent, servedVars

\* A reader is shown what is at least as current as the newest calculation and
\* its walk were when the request began, for any number of readers, of
\* calculations, of walks and of what the cache loses (areas/service.py:86-88).
THEOREM ServedCurrent == ServedSpec => []ServedIsCurrent
<1>1. ServedInv /\ [ServedNext]_servedVars => ServedInv'
  <2> SUFFICES ASSUME ServedInv, [ServedNext]_servedVars PROVE ServedInv'
    OBVIOUS
  <2>1. CASE UNCHANGED servedVars
    BY <2>1, ServedStays
  <2>2. CASE ServedNext /\ Replies
    <3>1. UNCHANGED kind /\ \E x \in Readers : NotModified(x) \/ TakeBody(x) \/ KeepLast(x)
      BY <2>2 DEF ServedNext, Replies
    <3> QED
      BY <3>1, NotModifiedEnds, TakeBodyEnds, KeepLastEnds
  <2>3. CASE ServedNext /\ Works /\ last' = {}
    <3>1. UNCHANGED kind /\ last' = {}
      BY <2>3 DEF ServedNext
    <3>2. CASE CalcDone
      BY <3>1, <3>2, CalcDoneMoves
    <3>3. CASE \E r \in 1 .. MaxCalc, sec \in 1 .. MaxSecond : WalkCommits(r, sec)
      BY <3>1, <3>3, WalkCommitsMoves
    <3>4. CASE \E x \in Readers, inm \in BOOLEAN : Ask(x, inm)
      BY <3>1, <3>4, AskMoves
    <3>5. CASE \E x \in Readers : ReadVersion(x) \/ LookAgain(x) \/ TakeTag(x) \/ Compute(x) \/ KeepBody(x)
      BY <3>1, <3>5, VersionMoves, AgainMoves, TakeTagMoves, ComputeMoves, KeepBodyMoves
    <3> QED
      BY <2>3, <3>2, <3>3, <3>4, <3>5 DEF Works
  <2> QED
    BY <2>1, <2>2, <2>3 DEF ServedNext
<1>2. ServedInv => ServedIsCurrent
  BY DEF ServedInv
<1> QED
  BY <1>1, <1>2, ServedStarts, PTL DEF ServedSpec

-----------------------------------------------------------------------------
(* Limits.  Every request let through has been counted in Redis before it  *)
(* was last lost, or since, or had no answer of it (PassedCounted); every  *)
(* row of this hour too, together with those still to be written           *)
(* (RowsCounted), or is one of what its process still had left, which each *)
(* thread late with its hour may give back once (AloneCounted).  The key   *)
(* of a window outlives it (Lives), and a mark is there for its hour       *)
(* (MarkKept).                                                             *)
Kept(k) == k \in DOMAIN redis
Lives(what, len) == \A h \in Nat : Kept(<<what, h>>) => redis[<<what, h>>].until >= (h + 1) * len
Capped(n, max) == IF n <= max THEN n ELSE max

\* Threads that are about to write, and those whose hour is over.
Ready(t) == request[t].step = "write" /\ request[t].hour = HourNow
ThreadsOf(p) == {t \in Threads : ProcessOf[t] = p}
ReadyCounted == {t \in Threads : Ready(t) /\ ~request[t].alone}
ReadyAlone(p) == {t \in ThreadsOf(p) : Ready(t) /\ request[t].alone}
Stale(p) == {t \in ThreadsOf(p) : request[t].step \in {"count", "alone"} /\ request[t].hour # HourNow}
Late == {t \in Threads : request[t].step # "idle" /\ request[t].hour # HourNow}
\* What a process would still count in this hour.
Room(p) == IF local[p].hour = HourNow THEN HourlyMax - Capped(local[p].n, HourlyMax) ELSE HourlyMax

PassedCounted == passed <= Limit * losses + Capped(Count(<<"rl", MinuteNow>>), Limit) + free
RowsCounted == rows + Cardinality(ReadyCounted) <= HourlyMax * losses + Capped(Count(RowKey(HourNow)), HourlyMax)
AloneOf(p) ==
  alone[p] + Cardinality(ReadyAlone(p)) + HourlyMax * Cardinality(Stale(p)) + Room(p) <= HourlyMax * (1 + Cardinality(ThreadsOf(p)))
AloneCounted == \A p \in Processes : AloneOf(p)
LateCounted == overdue + Cardinality(Late) <= Cardinality(Threads)

Marks == reported \cup UNION {request[t].mark : t \in Threads}
MarkKept(m) == m[3] = losses /\ clock < m[2] + Hour => Kept(<<"csp", m[1]>>) /\ redis[<<"csp", m[1]>>].until >= m[2] + Hour
Same(r, q) == r[1] = q[1] /\ r[3] = q[3] /\ r[2] <= q[2] /\ q[2] < r[2] + Hour => r = q
MarksHold ==
  /\ \A m \in Marks : m[2] <= clock /\ m[3] <= losses /\ MarkKept(m)
  /\ \A r, q \in Marks : Same(r, q)

Requests == [step : {"idle", "count", "alone", "write"}, hour : Nat, alone : BOOLEAN, mark : SUBSET (Violations \X Nat \X Nat)]
LimTypes ==
  /\ path \in {"requests", "reports", "errors"}
  /\ clock \in Nat /\ losses \in Nat /\ passed \in Nat /\ free \in Nat /\ rows \in Nat /\ overdue \in Nat
  /\ alone \in [Processes -> Nat] /\ local \in [Processes -> [hour : Nat, n : Nat]]
  /\ request \in [Threads -> Requests] /\ reported \subseteq Violations \X Nat \X Nat
  /\ \A k \in DOMAIN redis : redis[k].n \in Nat \ {0} /\ redis[k].until \in Nat
Hours ==
  /\ \A t \in Threads : request[t].hour <= HourNow /\ (request[t].alone => request[t].step = "write")
  /\ \A p \in Processes : local[p].hour <= HourNow
Windows == Lives("rl", Minute) /\ Lives(path, Hour)
LimInv == LimTypes /\ Hours /\ Windows /\ PassedCounted /\ RowsCounted /\ AloneCounted /\ LateCounted /\ MarksHold

-----------------------------------------------------------------------------
LEMMA Within ==
  ASSUME NEW c \in Nat, NEW len \in Nat \ {0}
  PROVE  c \div len \in Nat /\ (c \div len) * len <= c /\ c < (c \div len + 1) * len
OBVIOUS

LEMMA Times ==
  ASSUME NEW a \in Nat, NEW n \in Nat
  PROVE  a * n \in Nat /\ a * (n + 1) = a * n + a /\ a * (1 + n) = a * n + a
OBVIOUS

LEMMA TimesLess ==
  ASSUME NEW a \in Nat, NEW m \in Nat, NEW n \in Nat
  PROVE  /\ a * m \in Nat /\ a * n \in Nat
         /\ m <= n => a * m <= a * n
         /\ m + 1 <= n => a * m + a <= a * n
OBVIOUS

LEMMA InOrder ==
  ASSUME NEW a \in Nat, NEW m \in Nat, NEW n \in Nat, m <= n
  PROVE  m * a \in Nat /\ n * a \in Nat /\ m * a <= n * a /\ (m + 1) * a = m * a + a
OBVIOUS

LEMMA NothingYet == \A a, b, c \in Nat : 0 <= a + b /\ 0 <= a + b + c
OBVIOUS

LEMMA Lengths == Minute \in Nat \ {0} /\ Hour \in Nat \ {0} /\ Limit \in Nat /\ HourlyMax \in Nat
BY LimitsAssumption DEF Hour

LEMMA NowTypes == ASSUME clock \in Nat PROVE HourNow \in Nat /\ MinuteNow \in Nat
BY Within, Lengths DEF HourNow, MinuteNow

LEMMA Caps ==
  ASSUME NEW n \in Nat, NEW max \in Nat
  PROVE  /\ Capped(n, max) \in Nat /\ Capped(n, max) <= max
         /\ n + 1 <= max => Capped(n + 1, max) = Capped(n, max) + 1
         /\ Capped(n + 1, max) >= Capped(n, max)
         /\ Capped(0, max) = 0
BY DEF Capped

\* What one thread more or less makes of a number of threads.
LEMMA OneThread ==
  ASSUME NEW t \in Threads, NEW S \in SUBSET Threads, NEW R \in SUBSET Threads, R \ {t} = S \ {t}
  PROVE  /\ Cardinality(R) \in Nat /\ Cardinality(S) \in Nat
         /\ Cardinality(R) <= Cardinality(S) + 1
         /\ t \notin R \/ t \in S => Cardinality(R) <= Cardinality(S)
         /\ t \notin R /\ t \in S => Cardinality(R) + 1 <= Cardinality(S)
<1> DEFINE B == S \ {t}
<1>1. IsFiniteSet(B)
  BY LimitsAssumption, FS_Subset
<1>2. t \notin B /\ (t \in S => S = B \cup {t}) /\ (t \notin S => S = B) /\ (t \in R => R = B \cup {t}) /\ (t \notin R => R = B)
  OBVIOUS
<1> HIDE DEF B
<1>3. Cardinality(B) \in Nat /\ Cardinality(B \cup {t}) = Cardinality(B) + 1
  BY <1>1, <1>2, FS_CardinalityType, FS_AddElement
<1>4. Cardinality(S) = (IF t \in S THEN Cardinality(B) + 1 ELSE Cardinality(B))
  BY <1>2, <1>3
<1>5. Cardinality(R) = (IF t \in R THEN Cardinality(B) + 1 ELSE Cardinality(B))
  BY <1>2, <1>3
<1> QED
  BY <1>3, <1>4, <1>5

LEMMA OfThreads ==
  ASSUME NEW S \in SUBSET Threads, NEW R \in SUBSET S
  PROVE  Cardinality(S) \in Nat /\ Cardinality(R) \in Nat /\ Cardinality(R) <= Cardinality(S)
<1>1. IsFiniteSet(S) /\ IsFiniteSet(R)
  BY LimitsAssumption, FS_Subset
<1> QED
  BY <1>1, FS_Subset, FS_CardinalityType

LEMMA InThreads ==
  \A p : /\ ThreadsOf(p) \in SUBSET Threads /\ ReadyAlone(p) \in SUBSET ThreadsOf(p) /\ Stale(p) \in SUBSET ThreadsOf(p)
         /\ ReadyCounted \in SUBSET Threads /\ Late \in SUBSET Threads
BY DEF ThreadsOf, ReadyAlone, Stale, ReadyCounted, Late

LEMMA CountType == ASSUME LimTypes, NEW k PROVE Count(k) \in Nat
BY DEF LimTypes, Count

LEMMA RoomType == ASSUME LimTypes, NEW p \in Processes PROVE Room(p) \in Nat /\ Room(p) <= HourlyMax
<1>1. local[p].n \in Nat
  BY DEF LimTypes
<1>2. Capped(local[p].n, HourlyMax) \in Nat /\ Capped(local[p].n, HourlyMax) <= HourlyMax
  BY <1>1, Caps, Lengths
<1> QED
  BY <1>2, Lengths DEF Room

LEMMA SetOne ==
  ASSUME NEW key, NEW n, NEW until, Set(key, n, until)
  PROVE  /\ key \in DOMAIN redis' /\ redis'[key].n = n /\ redis'[key].until = until
         /\ \A k : k = key => Count(k)' = n
         /\ \A k : k # key => Count(k)' = Count(k) /\ (k \in DOMAIN redis' <=> k \in DOMAIN redis)
         /\ \A k \in DOMAIN redis : k # key => redis'[k] = redis[k]
<1>1. redis' = [k \in DOMAIN redis \cup {key} |-> IF k = key THEN [n |-> n, until |-> until] ELSE redis[k]]
  BY DEF Set
<1>2. DOMAIN redis' = DOMAIN redis \cup {key}
  BY <1>1
<1> QED
  BY <1>1, <1>2 DEF Count

LEMMA SetKeeps ==
  ASSUME LimTypes, NEW key, NEW n \in Nat \ {0}, NEW until \in Nat, Set(key, n, until)
  PROVE  /\ \A k \in DOMAIN redis' : redis'[k].n \in Nat \ {0} /\ redis'[k].until \in Nat
         /\ \A k \in DOMAIN redis : k \in DOMAIN redis'
         /\ \A what, len : Lives(what, len) /\ (\A h \in Nat : key = <<what, h>> => until >= (h + 1) * len)
                             => \A h \in Nat : <<what, h>> \in DOMAIN redis' => redis'[<<what, h>>].until >= (h + 1) * len
BY SetOne DEF LimTypes, Lives, Kept

\* A key of another name, or of one that has no window.
LEMMA OtherKey ==
  \A h, g, v : /\ <<"rl", h>> # <<"csp", v>>
               /\ \A what \in {"requests", "reports", "errors"} : <<what, h>> # <<"csp", v>> /\ <<"rl", h>> # <<what, g>>
OBVIOUS

LEMMA InitLim == LimInit => LimInv
<1> SUFFICES ASSUME LimInit PROVE LimInv
  OBVIOUS
<1>1. DOMAIN redis = {} /\ HourNow \in Nat /\ clock = 0
  BY NowTypes DEF LimInit
<1>2. LimTypes
  BY <1>1 DEF LimInit, LimTypes, Idle, Requests
<1>3. Windows /\ Marks = {}
  BY <1>1 DEF Windows, Lives, Kept, Marks, LimInit, Idle
<1>4. Hours
  BY <1>1 DEF LimInit, Hours, Idle
<1>5. ReadyCounted = {} /\ Late = {} /\ \A p : ReadyAlone(p) = {} /\ Stale(p) = {}
  BY DEF LimInit, Idle, ReadyCounted, ReadyAlone, Stale, Late, Ready, ThreadsOf
<1>6. \A k : Count(k) = 0
  BY <1>1 DEF Count
<1>7. Capped(0, Limit) = 0 /\ Capped(0, HourlyMax) = 0 /\ Limit * 0 = 0 /\ HourlyMax * 0 = 0
  BY Caps, Lengths
<1>8. Cardinality({}) = 0 /\ Cardinality(Threads) \in Nat
  BY FS_EmptySet, LimitsAssumption, FS_CardinalityType
<1>9. PassedCounted /\ RowsCounted /\ LateCounted
  BY <1>5, <1>6, <1>7, <1>8 DEF PassedCounted, RowsCounted, LateCounted, LimInit
<1>10. ASSUME NEW p \in Processes PROVE AloneOf(p)
  <2>1. alone[p] = 0 /\ Room(p) \in Nat /\ Room(p) <= HourlyMax
    BY <1>2, RoomType DEF LimInit
  <2>2. Cardinality(ThreadsOf(p)) \in Nat
    BY InThreads, OfThreads
  <2>3. HourlyMax * (1 + Cardinality(ThreadsOf(p))) = HourlyMax * Cardinality(ThreadsOf(p)) + HourlyMax
        /\ HourlyMax * Cardinality(ThreadsOf(p)) \in Nat
    BY <2>2, Times, Lengths
  <2>4. Cardinality(ReadyAlone(p)) = 0 /\ HourlyMax * Cardinality(Stale(p)) = 0
    BY <1>5, <1>7, <1>8
  <2> QED
    BY <2>1, <2>3, <2>4, Lengths DEF AloneOf
<1> QED
  BY <1>2, <1>3, <1>4, <1>9, <1>10 DEF LimInv, MarksHold, AloneCounted

LEMMA TickKeeps ==
  ASSUME LimTypes, Tick, NEW what, NEW len \in Nat \ {0}, Lives(what, len)
  PROVE  /\ \A h \in Nat : <<what, h>> \in DOMAIN redis' => redis'[<<what, h>>].until >= (h + 1) * len
         /\ clock' \div len = clock \div len => \A k : k = <<what, clock \div len>> => Count(k)' = Count(k)
<1>1. clock' \in Nat /\ redis' = [k \in {j \in DOMAIN redis : redis[j].until > clock'} |-> redis[k]]
  BY DEF Tick, LimTypes, Restrict
<1>2. /\ \A k \in DOMAIN redis' : k \in DOMAIN redis /\ redis'[k] = redis[k]
      /\ \A k \in DOMAIN redis : redis[k].until > clock' => k \in DOMAIN redis'
  BY <1>1
<1>3. \A h \in Nat : <<what, h>> \in DOMAIN redis' => redis'[<<what, h>>].until >= (h + 1) * len
  BY <1>2 DEF Lives, Kept
<1>4. ASSUME clock' \div len = clock \div len, NEW k, k = <<what, clock \div len>> PROVE Count(k)' = Count(k)
  <2> DEFINE h == clock' \div len
             e == (h + 1) * len
  <2>1. h \in Nat /\ clock' < e
    BY <1>1, Within
  <2>2. k = <<what, h>> /\ e \in Nat
    BY <1>4, <2>1
  <2>3. k \in DOMAIN redis => redis[k].until >= e
    BY <2>1, <2>2 DEF Lives, Kept
  <2> HIDE DEF e, h
  <2>4. k \in DOMAIN redis => redis[k].until > clock'
    <3>1. k \in DOMAIN redis => redis[k].until \in Nat
      BY DEF LimTypes
    <3> QED
      BY <1>1, <2>1, <2>2, <2>3, <3>1
  <2>5. k \in DOMAIN redis' <=> k \in DOMAIN redis
    BY <1>2, <2>4
  <2> QED
    BY <1>2, <2>5 DEF Count
<1> QED
  BY <1>3, <1>4

\* Hours only go on.
LEMMA TickHours == ASSUME LimTypes, Hours, Tick PROVE HourNow' \in Nat /\ HourNow \in Nat /\ HourNow <= HourNow' /\ Hours'
<1> DEFINE c == clock
           n == clock'
<1>1. c \in Nat /\ n \in Nat /\ c <= n /\ Hour \in Nat \ {0}
  BY Lengths DEF LimTypes, Tick
<1>2. \A a, b \in Nat, l \in Nat \ {0} : a <= b => a \div l <= b \div l
  OBVIOUS
<1>3. HourNow \in Nat /\ HourNow' \in Nat /\ HourNow <= HourNow'
  BY <1>1, <1>2, Within DEF HourNow
<1>4. (\A t \in Threads : request[t].hour \in Nat) /\ \A p \in Processes : local[p].hour \in Nat
  BY DEF LimTypes, Requests
<1> QED
  BY <1>3, <1>4 DEF Hours, Tick

LEMMA TickLim == ASSUME LimInv, Tick, UNCHANGED path PROVE LimInv'
<1>1. /\ LimTypes /\ Hours /\ Windows /\ PassedCounted /\ RowsCounted /\ AloneCounted /\ LateCounted /\ MarksHold
      /\ clock' = clock + 1 /\ clock' \in Nat /\ UNCHANGED <<path, losses, request, local>>
  BY DEF LimInv, Tick, LimTypes
<1>2. redis' = [k \in {j \in DOMAIN redis : redis[j].until > clock'} |-> redis[k]]
  BY DEF Tick, Restrict
<1>3. LimTypes'
  <2>1. /\ passed' \in Nat /\ free' \in Nat /\ rows' \in Nat /\ overdue' \in Nat
        /\ alone' \in [Processes -> Nat] /\ reported' \subseteq Violations \X Nat \X Nat
    BY <1>1 DEF LimTypes, Tick
  <2>2. \A k \in DOMAIN redis' : redis'[k].n \in Nat \ {0} /\ redis'[k].until \in Nat
    BY <1>1, <1>2 DEF LimTypes
  <2> QED
    BY <1>1, <2>1, <2>2 DEF LimTypes, Processes
<1>4. Windows'
  BY <1>1, TickKeeps, Lengths DEF Windows, Lives, Kept
<1>5. HourNow' \in Nat /\ HourNow \in Nat /\ HourNow <= HourNow' /\ Hours'
  BY <1>1, TickHours
<1>6. MinuteNow' = MinuteNow => Count(<<"rl", MinuteNow>>)' = Count(<<"rl", MinuteNow>>)
  BY <1>1, TickKeeps, Lengths DEF Windows, MinuteNow
<1>7. HourNow' = HourNow => Count(RowKey(HourNow))' = Count(RowKey(HourNow))
  BY <1>1, TickKeeps, Lengths DEF Windows, HourNow, RowKey
<1>8. \A k : Count(k)' \in Nat
  BY <1>3 DEF LimTypes, Count
<1>9. Limit * losses \in Nat /\ HourlyMax * losses \in Nat
  BY <1>1, Times, Lengths DEF LimTypes
<1>10. PassedCounted'
  <2>1. CASE MinuteNow' = MinuteNow
    BY <1>1, <1>6, <2>1 DEF PassedCounted, Tick, Capped
  <2>2. CASE MinuteNow' # MinuteNow
    <3>1. Count(<<"rl", MinuteNow>>)' \in Nat
      BY <1>8
    <3>2. passed' = 0 /\ free' = 0 /\ Capped(Count(<<"rl", MinuteNow>>)', Limit) \in Nat
      BY <2>2, <3>1, Caps, Lengths DEF Tick
    <3> QED
      BY <1>1, <1>9, <3>2, NothingYet DEF PassedCounted, Capped
  <2> QED
    BY <2>1, <2>2
<1>11. (\A t \in Threads : request[t].hour \in Nat) /\ \A p \in Processes : local[p].hour \in Nat
  BY <1>1 DEF LimTypes, Requests
<1>12. RowsCounted' /\ LateCounted' /\ AloneCounted'
  <2>1. CASE HourNow' = HourNow
    <3>1. /\ rows' = rows /\ alone' = alone /\ overdue' = overdue
          /\ ReadyCounted' = ReadyCounted /\ Late' = Late
      BY <1>1, <2>1 DEF Tick, ReadyCounted, Late, Ready
    <3>2. \A p : /\ ReadyAlone(p)' = ReadyAlone(p) /\ Stale(p)' = Stale(p) /\ Room(p)' = Room(p)
                 /\ ThreadsOf(p)' = ThreadsOf(p)
      BY <1>1, <2>1 DEF ReadyAlone, Stale, Ready, Room, ThreadsOf, Capped
    <3>3. RowsCounted' /\ LateCounted'
      BY <1>1, <1>7, <2>1, <3>1 DEF RowsCounted, LateCounted, Capped
    <3>4. AloneCounted'
      BY <1>1, <3>1, <3>2 DEF AloneCounted, AloneOf, Processes
    <3> QED
      BY <3>3, <3>4
  <2>2. CASE HourNow' # HourNow
    <3>1. \A t \in Threads : request'[t].hour # HourNow'
      BY <1>1, <1>5, <1>11, <2>2 DEF Hours
    <3>2. \A p \in Processes : local'[p].hour # HourNow'
      BY <1>1, <1>5, <1>11, <2>2 DEF Hours
    <3>3. /\ rows' = 0 /\ overdue' = 0 /\ \A p \in Processes : alone'[p] = 0
      BY <2>2 DEF Tick
    <3>4. ReadyCounted' = {} /\ \A p : ReadyAlone(p)' = {}
      BY <3>1 DEF ReadyCounted, ReadyAlone, Ready, ThreadsOf
    <3>5. RowsCounted'
      <4>1. Count(RowKey(HourNow))' \in Nat
        BY <1>8
      <4>2. Capped(Count(RowKey(HourNow))', HourlyMax) \in Nat
        BY <4>1, Caps, Lengths
      <4>3. Cardinality(ReadyCounted') = 0
        BY <3>4, FS_EmptySet
      <4> QED
        BY <1>1, <1>9, <3>3, <4>2, <4>3, NothingYet DEF RowsCounted, Capped
    <3>6. LateCounted'
      <4>1. Late' \in SUBSET Threads
        BY DEF Late
      <4>2. Cardinality(Late') \in Nat /\ Cardinality(Late') <= Cardinality(Threads)
        BY <4>1, OfThreads
      <4> QED
        BY <3>3, <4>2 DEF LateCounted
    <3>7. ASSUME NEW p \in Processes PROVE AloneOf(p)'
      <4>1. Stale(p)' \in SUBSET ThreadsOf(p) /\ ThreadsOf(p)' = ThreadsOf(p)
        BY DEF Stale, ThreadsOf
      <4>2. /\ Cardinality(Stale(p)') \in Nat /\ Cardinality(ThreadsOf(p)) \in Nat
            /\ Cardinality(Stale(p)') <= Cardinality(ThreadsOf(p))
        BY <4>1, InThreads, OfThreads
      <4> DEFINE s == Cardinality(Stale(p)')
                 n == Cardinality(ThreadsOf(p))
      <4>3. s \in Nat /\ n \in Nat /\ HourlyMax * s <= HourlyMax * n /\ HourlyMax * s \in Nat /\ HourlyMax * n \in Nat
            /\ HourlyMax * (1 + n) = HourlyMax * n + HourlyMax
        BY <4>2, Times, TimesLess, Lengths
      <4>4. Cardinality(ReadyAlone(p)') = 0
        BY <3>4, FS_EmptySet
      <4>5. alone'[p] = 0 /\ Room(p)' = HourlyMax
        BY <3>2, <3>3 DEF Room
      <4> HIDE DEF s, n
      <4>6. alone'[p] + Cardinality(ReadyAlone(p)') + HourlyMax * s + Room(p)' <= HourlyMax * (1 + n)
        BY <4>3, <4>4, <4>5, Lengths
      <4> QED
        BY <4>1, <4>6 DEF AloneOf, s, n
    <3> QED
      BY <3>5, <3>6, <3>7 DEF AloneCounted, Processes
  <2> QED
    BY <2>1, <2>2
<1>13. Marks' \subseteq Marks
  BY <1>1 DEF Marks, Tick
<1>14. ASSUME NEW m \in Marks' PROVE m[2] <= clock' /\ m[3] <= losses' /\ MarkKept(m)'
  <2>1. m \in Marks /\ m[2] \in Nat /\ m[2] <= clock /\ m[3] <= losses /\ MarkKept(m) /\ Hour \in Nat
    BY <1>1, <1>13, <1>14, Lengths DEF MarksHold, LimTypes, Requests, Marks
  <2>2. ASSUME m[3] = losses', clock' < m[2] + Hour PROVE Kept(<<"csp", m[1]>>)' /\ redis'[<<"csp", m[1]>>].until >= m[2] + Hour
    <3>1. Kept(<<"csp", m[1]>>) /\ redis[<<"csp", m[1]>>].until >= m[2] + Hour
      BY <1>1, <2>1, <2>2 DEF MarkKept, LimTypes
    <3>2. redis[<<"csp", m[1]>>].until > clock'
      BY <1>1, <2>1, <2>2, <3>1 DEF LimTypes, Kept
    <3> QED
      BY <1>2, <3>1, <3>2 DEF Kept
  <2> QED
    BY <1>1, <2>1, <2>2 DEF MarkKept, LimTypes
<1>15. MarksHold'
  BY <1>1, <1>13, <1>14 DEF MarksHold, Same
<1> QED
  BY <1>3, <1>4, <1>5, <1>10, <1>12, <1>15 DEF LimInv

LEMMA LostLim == ASSUME LimInv, Lost, UNCHANGED path PROVE LimInv'
<1>1. /\ LimTypes /\ Hours /\ Windows /\ PassedCounted /\ RowsCounted /\ AloneCounted /\ LateCounted /\ MarksHold
      /\ losses' = losses + 1 /\ DOMAIN redis' = {}
      /\ UNCHANGED <<path, clock, request, local, passed, free, rows, alone, overdue, reported>>
  BY DEF LimInv, Lost
<1>2. LimTypes' /\ Windows'
  BY <1>1 DEF LimTypes, Windows, Lives, Kept, Processes
<1>3. Hours' /\ LateCounted' /\ AloneCounted' /\ ReadyCounted' = ReadyCounted /\ Cardinality(ReadyCounted) \in Nat
  <2>1. Hours' /\ LateCounted' /\ ReadyCounted' = ReadyCounted
    BY <1>1 DEF Hours, HourNow, Processes, LateCounted, Late, ReadyCounted, Ready
  <2>2. AloneCounted'
    BY <1>1 DEF AloneCounted, AloneOf, ReadyAlone, Ready, Stale, Room, Capped, ThreadsOf, HourNow, Processes
  <2> QED
    BY <2>1, <2>2, InThreads, OfThreads
<1>4. \A k : Count(k)' = 0
  BY <1>1 DEF Count
<1>5. Count(<<"rl", MinuteNow>>) \in Nat /\ Count(RowKey(HourNow)) \in Nat
      /\ losses \in Nat /\ passed \in Nat /\ free \in Nat /\ rows \in Nat
  BY <1>1, CountType DEF LimTypes
<1>6. /\ Limit * losses \in Nat /\ Limit * (losses + 1) = Limit * losses + Limit
      /\ HourlyMax * losses \in Nat /\ HourlyMax * (losses + 1) = HourlyMax * losses + HourlyMax
  BY <1>5, Times, Lengths
<1>7. ASSUME NEW n \in Nat, NEW l \in Nat, NEW c \in Nat, NEW m \in Nat, NEW x \in Nat, n <= l + Capped(c, m) + x
      PROVE  n <= l + m + Capped(0, m) + x
  <2>1. Capped(c, m) \in Nat /\ Capped(c, m) <= m /\ Capped(0, m) = 0
    BY Caps
  <2> QED
    BY <1>7, <2>1
<1>8. passed <= Limit * losses + Limit + Capped(0, Limit) + free
  BY <1>1, <1>5, <1>6, <1>7, Lengths DEF PassedCounted
<1>9. PassedCounted'
  BY <1>1, <1>4, <1>6, <1>8 DEF PassedCounted, Capped
<1>10. RowsCounted'
  <2> DEFINE n == rows + Cardinality(ReadyCounted)
             l == HourlyMax * losses
             c == Count(RowKey(HourNow))
  <2>1. n \in Nat /\ l \in Nat /\ c \in Nat /\ n <= l + Capped(c, HourlyMax)
    BY <1>1, <1>3, <1>5, <1>6 DEF RowsCounted
  <2> HIDE DEF n, l, c
  <2>2. n <= l + HourlyMax + Capped(0, HourlyMax)
    <3>1. Capped(c, HourlyMax) \in Nat /\ Capped(c, HourlyMax) <= HourlyMax /\ Capped(0, HourlyMax) = 0
      BY <2>1, Caps, Lengths
    <3> QED
      BY <2>1, <3>1, Lengths
  <2>3. rows' + Cardinality(ReadyCounted)' = n /\ HourlyMax * losses' = l + HourlyMax
    BY <1>1, <1>3, <1>6 DEF n, l
  <2>4. Count(RowKey(HourNow))' = 0
    BY <1>4
  <2> QED
    BY <2>2, <2>3, <2>4 DEF RowsCounted, Capped
<1>11. MarksHold'
  <2>1. Marks' = Marks /\ \A m \in Marks : m[3] \in Nat /\ m[3] <= losses
    BY <1>1 DEF Marks, MarksHold, LimTypes, Requests
  <2>2. \A m \in Marks : m[3] <= losses' /\ m[3] # losses'
    BY <1>1, <1>5, <2>1
  <2> QED
    BY <1>1, <2>1, <2>2 DEF MarksHold, MarkKept, Same
<1> QED
  BY <1>2, <1>3, <1>9, <1>10, <1>11 DEF LimInv

\* Marks stay while keys of other names are set.
LEMMA MarksStay ==
  ASSUME LimInv, UNCHANGED <<clock, losses>>, Marks' \subseteq Marks,
         \A m \in Marks : Kept(<<"csp", m[1]>>) => <<"csp", m[1]>> \in DOMAIN redis' /\ redis'[<<"csp", m[1]>>] = redis[<<"csp", m[1]>>]
  PROVE  MarksHold'
<1>1. \A m \in Marks : MarkKept(m)'
  BY DEF LimInv, MarksHold, MarkKept, Kept
<1> QED
  BY <1>1 DEF LimInv, MarksHold, Same

\* A request counts itself in the key of its window, heard or unheard.
LEMMA HitLim == ASSUME LimInv, Hit, UNCHANGED path PROVE LimInv'
<1> DEFINE key == <<"rl", MinuteNow>>
           n == Count(key)
<1>1. /\ LimTypes /\ Hours /\ Windows /\ PassedCounted /\ RowsCounted /\ AloneCounted /\ LateCounted /\ MarksHold /\ n \in Nat
      /\ UNCHANGED <<path, clock, losses, request, local, rows, alone, overdue, reported>>
  BY CountType DEF LimInv, Hit
<1>2. /\ Set(key, n + 1, clock + KeyLife) \/ UNCHANGED redis
      /\ \/ passed' = passed /\ free' = free /\ ~(n + 1 <= Limit) /\ Set(key, n + 1, clock + KeyLife)
         \/ passed' = passed + 1 /\ free' = free /\ n + 1 <= Limit /\ Set(key, n + 1, clock + KeyLife)
         \/ passed' = passed + 1 /\ free' = free + 1
  BY DEF Hit, Incr, Unheard
<1>3. n + 1 \in Nat \ {0} /\ clock + KeyLife \in Nat /\ clock \in Nat
  BY <1>1, Lengths DEF LimTypes, KeyLife
<1>4. Count(key)' \in {n, n + 1} /\ (Set(key, n + 1, clock + KeyLife) => Count(key)' = n + 1)
  <2>1. Set(key, n + 1, clock + KeyLife) => Count(key)' = n + 1
    BY <1>1, SetOne DEF MinuteNow
  <2>2. UNCHANGED redis => Count(key)' = n
    BY <1>1 DEF Count, MinuteNow
  <2> QED
    BY <1>2, <2>1, <2>2
<1>5. clock + KeyLife >= (MinuteNow + 1) * Minute
  <2>1. MinuteNow \in Nat /\ MinuteNow * Minute <= clock /\ MinuteNow * Minute \in Nat /\ (MinuteNow + 1) * Minute = MinuteNow * Minute + Minute
    BY <1>3, Within, Times, Lengths DEF MinuteNow
  <2> QED
    BY <1>3, <2>1, Lengths DEF KeyLife
<1> HIDE DEF n
<1>6. \A h \in Nat : key = <<"rl", h>> => clock + KeyLife >= (h + 1) * Minute
  BY <1>5
<1>7. Windows' /\ \A k \in DOMAIN redis' : redis'[k].n \in Nat \ {0} /\ redis'[k].until \in Nat
  <2>1. CASE UNCHANGED redis
    BY <1>1, <2>1 DEF Windows, Lives, Kept, LimTypes
  <2>2. CASE Set(key, n + 1, clock + KeyLife)
    <3>1. \A h \in Nat : key # <<path, h>>
      BY <1>1, OtherKey DEF LimTypes
    <3> QED
      BY <1>1, <1>3, <1>6, <2>2, <3>1, SetKeeps DEF Windows, Lives, Kept
  <2> QED
    BY <1>2, <2>1, <2>2
<1>8. Count(RowKey(HourNow))' = Count(RowKey(HourNow))
      /\ \A v : Kept(<<"csp", v>>) => <<"csp", v>> \in DOMAIN redis' /\ redis'[<<"csp", v>>] = redis[<<"csp", v>>]
  <2>1. CASE UNCHANGED redis
    BY <1>1, <2>1 DEF Count, RowKey, HourNow, Kept
  <2>2. CASE Set(key, n + 1, clock + KeyLife)
    <3>1. key # <<path, HourNow>> /\ \A v : key # <<"csp", v>>
      BY <1>1, OtherKey DEF LimTypes
    <3>2. \A k : k # key => Count(k)' = Count(k) /\ (k \in DOMAIN redis => k \in DOMAIN redis' /\ redis'[k] = redis[k])
      BY <2>2, SetOne
    <3>3. RowKey(HourNow)' = RowKey(HourNow) /\ RowKey(HourNow) = <<path, HourNow>>
      BY <1>1 DEF RowKey, HourNow
    <3> HIDE DEF key
    <3> QED
      BY <1>1, <3>1, <3>2, <3>3 DEF Kept, RowKey, HourNow
  <2> QED
    BY <1>2, <2>1, <2>2
<1> HIDE DEF key
<1>9. LimTypes'
  <2>1. passed' \in Nat /\ free' \in Nat
    BY <1>1, <1>2 DEF LimTypes
  <2> QED
    BY <1>1, <1>7, <2>1 DEF LimTypes, Processes
<1>10. PassedCounted'
  <2>1. passed <= Limit * losses + Capped(n, Limit) + free /\ passed \in Nat /\ losses \in Nat /\ free \in Nat
    BY <1>1 DEF PassedCounted, n, key, LimTypes
  <2>2. /\ Limit * losses \in Nat /\ Capped(n, Limit) \in Nat /\ Capped(n + 1, Limit) \in Nat
        /\ Capped(n + 1, Limit) >= Capped(n, Limit) /\ (n + 1 <= Limit => Capped(n + 1, Limit) = Capped(n, Limit) + 1)
    BY <1>1, <2>1, Times, Caps, Lengths
  <2>3. passed' <= Limit * losses + Capped(Count(key)', Limit) + free'
    BY <1>2, <1>4, <2>1, <2>2
  <2> QED
    BY <1>1, <2>3 DEF PassedCounted, key, Capped
<1>11. Hours' /\ LateCounted' /\ RowsCounted' /\ AloneCounted'
  <2>1. HourNow' = HourNow
    BY <1>1 DEF HourNow
  <2>2. ReadyCounted' = ReadyCounted /\ Late' = Late
    BY <1>1, <2>1 DEF ReadyCounted, Ready, Late
  <2>3. Hours' /\ LateCounted' /\ RowsCounted'
    BY <1>1, <1>8, <2>1, <2>2 DEF Hours, Processes, LateCounted, RowsCounted, Capped
  <2>4. AloneCounted'
    BY <1>1, <2>1 DEF AloneCounted, AloneOf, ReadyAlone, Ready, Stale, Room, Capped, ThreadsOf, Processes
  <2> QED
    BY <2>3, <2>4
<1>12. MarksHold'
  BY <1>1, <1>8, MarksStay DEF Marks
<1> QED
  BY <1>7, <1>9, <1>10, <1>11, <1>12 DEF LimInv

-----------------------------------------------------------------------------
\* The steps of a thread t, which ends as r.
LEMMA Becoming ==
  ASSUME LimTypes, NEW t \in Threads, NEW r \in Requests, Becomes(t, r), UNCHANGED clock
  PROVE  /\ request' \in [Threads -> Requests] /\ request'[t] = r /\ \A u \in Threads : u # t => request'[u] = request[u]
         /\ HourNow' = HourNow
         /\ ReadyCounted' \in SUBSET Threads /\ ReadyCounted' \ {t} = ReadyCounted \ {t}
         /\ t \in ReadyCounted' <=> r.step = "write" /\ r.hour = HourNow /\ ~r.alone
         /\ Late' \in SUBSET Threads /\ Late' \ {t} = Late \ {t}
         /\ t \in Late' <=> r.step # "idle" /\ r.hour # HourNow
<1>1. request' \in [Threads -> Requests] /\ request'[t] = r /\ \A u \in Threads : u # t => request'[u] = request[u]
  BY DEF LimTypes, Becomes
<1>2. HourNow' = HourNow
  BY DEF HourNow
<1>3. ReadyCounted' = {u \in Threads : request'[u].step = "write" /\ request'[u].hour = HourNow /\ ~request'[u].alone}
  BY <1>2 DEF ReadyCounted, Ready
<1>4. Late' = {u \in Threads : request'[u].step # "idle" /\ request'[u].hour # HourNow}
  BY <1>2 DEF Late
<1> QED
  BY <1>1, <1>2, <1>3, <1>4 DEF ReadyCounted, Late, Ready

LEMMA BecomingAlone ==
  ASSUME LimTypes, NEW t \in Threads, NEW r \in Requests, Becomes(t, r), UNCHANGED clock, NEW p
  PROVE  /\ ThreadsOf(p)' = ThreadsOf(p)
         /\ ReadyAlone(p)' \in SUBSET Threads /\ ReadyAlone(p)' \ {t} = ReadyAlone(p) \ {t}
         /\ t \in ReadyAlone(p)' <=> ProcessOf[t] = p /\ r.step = "write" /\ r.hour = HourNow /\ r.alone
         /\ Stale(p)' \in SUBSET Threads /\ Stale(p)' \ {t} = Stale(p) \ {t}
         /\ t \in Stale(p)' <=> ProcessOf[t] = p /\ r.step \in {"count", "alone"} /\ r.hour # HourNow
<1>1. request'[t] = r /\ HourNow' = HourNow /\ \A u \in Threads : u # t => request'[u] = request[u]
  BY Becoming
<1>2. ThreadsOf(p)' = ThreadsOf(p) /\ ThreadsOf(p) \in SUBSET Threads /\ (t \in ThreadsOf(p) <=> ProcessOf[t] = p)
  BY DEF ThreadsOf
<1>3. ReadyAlone(p)' = {u \in ThreadsOf(p) : request'[u].step = "write" /\ request'[u].hour = HourNow /\ request'[u].alone}
  BY <1>1, <1>2 DEF ReadyAlone, Ready
<1>4. Stale(p)' = {u \in ThreadsOf(p) : request'[u].step \in {"count", "alone"} /\ request'[u].hour # HourNow}
  BY <1>1, <1>2 DEF Stale
<1>5. ReadyAlone(p)' \in SUBSET Threads /\ ReadyAlone(p)' \ {t} = ReadyAlone(p) \ {t}
  BY <1>1, <1>2, <1>3 DEF ReadyAlone, Ready
<1>6. Stale(p)' \in SUBSET Threads /\ Stale(p)' \ {t} = Stale(p) \ {t}
  BY <1>1, <1>2, <1>4 DEF Stale
<1> QED
  BY <1>1, <1>2, <1>3, <1>4, <1>5, <1>6

\* Nothing is late that was not before.
LEMMA LateStays ==
  ASSUME LimInv, NEW t \in Threads, NEW r \in Requests, Becomes(t, r), UNCHANGED <<clock, overdue>>,
         r.step # "idle" /\ r.hour # HourNow => t \in Late
  PROVE  LateCounted'
<1>1. Late' \in SUBSET Threads /\ Late \in SUBSET Threads /\ Late' \ {t} = Late \ {t} /\ (t \notin Late' \/ t \in Late)
  BY Becoming, InThreads DEF LimInv
<1>2. Cardinality(Late') \in Nat /\ Cardinality(Late) \in Nat /\ Cardinality(Late') <= Cardinality(Late)
  BY <1>1, OneThread
<1>3. overdue \in Nat /\ overdue + Cardinality(Late) <= Cardinality(Threads) /\ Cardinality(Threads) \in Nat
  BY LimitsAssumption, FS_CardinalityType DEF LimInv, LimTypes, LateCounted
<1> QED
  BY <1>2, <1>3 DEF LateCounted

\* A thread that begins to write what is counted has counted it.
LEMMA RowsStay ==
  ASSUME LimInv, NEW t \in Threads, NEW r \in Requests, Becomes(t, r), UNCHANGED <<path, clock, losses, rows>>,
         NEW c \in Nat, c = Count(RowKey(HourNow)), NEW d \in {c, c + 1}, d = Count(RowKey(HourNow))',
         r.step = "write" /\ r.hour = HourNow /\ ~r.alone => t \in ReadyCounted \/ (d = c + 1 /\ d <= HourlyMax)
  PROVE  RowsCounted'
<1> DEFINE x == Cardinality(ReadyCounted)
           y == Cardinality(ReadyCounted')
           l == HourlyMax * losses
<1>1. /\ ReadyCounted' \in SUBSET Threads /\ ReadyCounted \in SUBSET Threads /\ ReadyCounted' \ {t} = ReadyCounted \ {t}
      /\ (t \notin ReadyCounted' \/ t \in ReadyCounted) \/ (d = c + 1 /\ d <= HourlyMax)
  BY Becoming, InThreads DEF LimInv
<1>2. x \in Nat /\ y \in Nat /\ (y <= x \/ (y <= x + 1 /\ d = c + 1 /\ d <= HourlyMax))
  BY <1>1, OneThread
<1>3. rows \in Nat /\ l \in Nat /\ rows + x <= l + Capped(c, HourlyMax)
  BY Times, Lengths DEF LimInv, LimTypes, RowsCounted
<1>4. /\ Capped(c, HourlyMax) \in Nat /\ Capped(c + 1, HourlyMax) \in Nat /\ Capped(c + 1, HourlyMax) >= Capped(c, HourlyMax)
      /\ (c + 1 <= HourlyMax => Capped(c + 1, HourlyMax) = Capped(c, HourlyMax) + 1)
  <2>1. HourlyMax \in Nat /\ c + 1 \in Nat
    BY Lengths
  <2> QED
    BY <2>1, Caps
<1>5. Capped(d, HourlyMax) \in Nat /\ Capped(d, HourlyMax) >= Capped(c, HourlyMax)
      /\ (d = c + 1 /\ d <= HourlyMax => Capped(d, HourlyMax) = Capped(c, HourlyMax) + 1)
  BY <1>4
<1> HIDE DEF x, y, l
<1>6. rows + y <= l + Capped(d, HourlyMax)
  BY <1>2, <1>3, <1>4, <1>5
<1> QED
  BY <1>6 DEF RowsCounted, x, y, l, Capped

\* A process that counts nothing by itself gives no thread more to write, and
\* no thread becomes late with its hour.
LEMMA AloneStays ==
  ASSUME LimInv, NEW t \in Threads, NEW r \in Requests, Becomes(t, r), UNCHANGED <<clock, alone, local>>,
         r.step = "write" /\ r.hour = HourNow /\ r.alone => t \in ReadyAlone(ProcessOf[t]),
         r.step \in {"count", "alone"} /\ r.hour # HourNow => t \in Stale(ProcessOf[t])
  PROVE  AloneCounted'
<1> SUFFICES ASSUME NEW p \in Processes PROVE AloneOf(p)'
  BY DEF AloneCounted, Processes
<1> DEFINE x == Cardinality(ReadyAlone(p))
           y == Cardinality(ReadyAlone(p)')
           s == Cardinality(Stale(p))
           u == Cardinality(Stale(p)')
           a == alone[p]
           m == HourlyMax * (1 + Cardinality(ThreadsOf(p)))
<1>1. /\ ReadyAlone(p)' \in SUBSET Threads /\ ReadyAlone(p) \in SUBSET Threads /\ ReadyAlone(p)' \ {t} = ReadyAlone(p) \ {t}
      /\ t \notin ReadyAlone(p)' \/ t \in ReadyAlone(p)
      /\ Stale(p)' \in SUBSET Threads /\ Stale(p) \in SUBSET Threads /\ Stale(p)' \ {t} = Stale(p) \ {t}
      /\ t \notin Stale(p)' \/ t \in Stale(p)
      /\ ThreadsOf(p)' = ThreadsOf(p)
  BY BecomingAlone, InThreads DEF LimInv
<1>2. x \in Nat /\ y \in Nat /\ y <= x /\ s \in Nat /\ u \in Nat /\ u <= s
  BY <1>1, OneThread
<1>3. Room(p)' = Room(p) /\ Room(p) \in Nat /\ a \in Nat
  BY RoomType DEF LimInv, LimTypes, Room, HourNow, Capped
<1>4. a + x + HourlyMax * s + Room(p) <= m /\ m \in Nat
  BY InThreads, OfThreads, Times, Lengths DEF LimInv, AloneCounted, AloneOf
<1>5. HourlyMax * u \in Nat /\ HourlyMax * s \in Nat /\ HourlyMax * u <= HourlyMax * s
  BY <1>2, TimesLess, Lengths
<1>6. m' = m /\ a' = a
  BY <1>1
<1> HIDE DEF x, y, s, u, a, m
<1>7. a + y + HourlyMax * u + Room(p) <= m
  BY <1>2, <1>3, <1>4, <1>5
<1> QED
  BY <1>1, <1>3, <1>7 DEF AloneOf, x, y, s, u, a, m

\* The requests that no step of a thread counts.
LEMMA PassedStays ==
  ASSUME LimInv, UNCHANGED <<clock, losses, passed, free>>, \A h : Count(<<"rl", h>>)' = Count(<<"rl", h>>)
  PROVE  PassedCounted'
BY DEF LimInv, PassedCounted, MinuteNow, Capped

\* What INCR leaves as it was, of the key of a row's hour.
LEMMA IncrKeeps ==
  ASSUME LimInv, NEW hour \in Nat, hour <= HourNow, UNCHANGED <<path, clock>>,
         Incr(RowKey(hour), HourLife(RowKey(hour))) \/ UNCHANGED redis
  PROVE  /\ Windows'
         /\ \A k \in DOMAIN redis' : redis'[k].n \in Nat \ {0} /\ redis'[k].until \in Nat
         /\ Incr(RowKey(hour), HourLife(RowKey(hour))) => Count(RowKey(hour))' = Count(RowKey(hour)) + 1
         /\ Count(RowKey(hour))' \in {Count(RowKey(hour)), Count(RowKey(hour)) + 1}
         /\ \A h : h # hour => Count(RowKey(h))' = Count(RowKey(h))
         /\ \A h : Count(<<"rl", h>>)' = Count(<<"rl", h>>)
         /\ \A v : Kept(<<"csp", v>>) => <<"csp", v>> \in DOMAIN redis' /\ redis'[<<"csp", v>>] = redis[<<"csp", v>>]
<1> DEFINE key == <<path, hour>>
           until == IF Count(key) > 0 THEN redis[key].until ELSE clock + Hour
           n == Count(key)
<1>1. LimTypes /\ Windows /\ n \in Nat /\ RowKey(hour) = key /\ (Incr(RowKey(hour), HourLife(RowKey(hour))) <=> Set(key, n + 1, until))
  BY CountType DEF LimInv, Incr, HourLife, RowKey
<1>2. Count(key) > 0 => key \in DOMAIN redis
  BY DEF Count
<1>3. until \in Nat /\ clock \in Nat
  BY <1>1, <1>2, Lengths DEF LimTypes
<1>4. (\A h, v : key # <<"rl", h>> /\ key # <<"csp", v>>) /\ \A h : h # hour => <<path, h>> # key
  BY <1>1, OtherKey DEF LimTypes
<1>5. \A h : RowKey(h)' = <<path, h>> /\ RowKey(h) = <<path, h>>
  BY DEF RowKey
<1>6. CASE UNCHANGED redis
  <2>1. (\A k : Count(k)' = Count(k)) /\ Windows' /\ \A k \in DOMAIN redis' : redis'[k].n \in Nat \ {0} /\ redis'[k].until \in Nat
    BY <1>1, <1>6 DEF Count, Windows, Lives, Kept, LimTypes
  <2>2. ~Set(key, n + 1, until)
    <3>1. Set(key, n + 1, until) => n = n + 1
      BY <2>1, SetOne
    <3> QED
      BY <1>1, <3>1
  <2> QED
    BY <1>1, <1>5, <1>6, <2>1, <2>2 DEF Kept, RowKey
<1>7. CASE Set(key, n + 1, until)
  <2>1. until >= (hour + 1) * Hour
    <3>1. CASE Count(key) > 0
      BY <1>1, <1>2, <3>1 DEF Windows, Lives, Kept
    <3>2. CASE ~(Count(key) > 0)
      <4>1. HourNow \in Nat /\ HourNow * Hour <= clock /\ Hour \in Nat
        BY <1>3, Within, Lengths DEF HourNow
      <4>2. hour * Hour \in Nat /\ HourNow * Hour \in Nat /\ hour * Hour <= HourNow * Hour /\ (hour + 1) * Hour = hour * Hour + Hour
        BY <4>1, InOrder
      <4> QED
        BY <1>3, <3>2, <4>1, <4>2
    <3> QED
      BY <3>1, <3>2
  <2>2. n + 1 \in Nat \ {0}
    BY <1>1
  <2> HIDE DEF until, n
  <2>3. \A h \in Nat : key = <<path, h>> => until >= (h + 1) * Hour
    BY <2>1
  <2>4. Windows' /\ \A k \in DOMAIN redis' : redis'[k].n \in Nat \ {0} /\ redis'[k].until \in Nat
    BY <1>1, <1>3, <1>4, <1>7, <2>2, <2>3, SetKeeps DEF Windows, Lives, Kept
  <2>5. /\ \A k : k = key => Count(k)' = n + 1
        /\ \A k : k # key => Count(k)' = Count(k) /\ (k \in DOMAIN redis => k \in DOMAIN redis' /\ redis'[k] = redis[k])
    BY <1>7, SetOne
  <2>6. Count(RowKey(hour))' = n + 1
    BY <1>1, <1>5, <2>5
  <2>7. \A h : h # hour => Count(RowKey(h))' = Count(RowKey(h))
    BY <1>4, <1>5, <2>5
  <2>8. (\A h : Count(<<"rl", h>>)' = Count(<<"rl", h>>))
        /\ \A v : Kept(<<"csp", v>>) => <<"csp", v>> \in DOMAIN redis' /\ redis'[<<"csp", v>>] = redis[<<"csp", v>>]
    BY <1>4, <2>5 DEF Kept
  <2> QED
    BY <1>1, <2>4, <2>6, <2>7, <2>8 DEF n
<1> QED
  BY <1>1, <1>6, <1>7

LEMMA StartErrorLim == ASSUME LimInv, NEW t \in Threads, StartError(t), UNCHANGED path PROVE LimInv'
<1> DEFINE r == [Idle EXCEPT !.step = "count", !.hour = HourNow]
<1>1. /\ LimTypes /\ Hours /\ Windows /\ MarksHold /\ Becomes(t, r)
      /\ UNCHANGED <<path, redis, local, clock, losses, passed, free, rows, alone, overdue, reported>>
  BY DEF LimInv, StartError, Unwritten
<1>2. HourNow \in Nat
  BY <1>1, NowTypes DEF LimTypes
<1>3. r \in Requests /\ r.step = "count" /\ r.hour = HourNow /\ r.mark = {} /\ ~r.alone
  BY <1>2 DEF Requests, Idle
<1> HIDE DEF r
<1>4. HourNow' = HourNow /\ request' \in [Threads -> Requests] /\ request'[t] = r /\ \A u \in Threads : u # t => request'[u] = request[u]
  BY <1>1, <1>3, Becoming
<1>5. LimTypes' /\ Windows' /\ Hours'
  BY <1>1, <1>2, <1>3, <1>4 DEF LimTypes, Windows, Lives, Kept, Hours, Processes
<1>6. \A k : Count(k)' = Count(k)
  BY <1>1 DEF Count
<1>7. Count(RowKey(HourNow))' = Count(RowKey(HourNow)) /\ Count(RowKey(HourNow)) \in Nat
  BY <1>1, <1>4, <1>6, CountType DEF RowKey
<1>8. PassedCounted' /\ LateCounted' /\ AloneCounted'
  BY <1>1, <1>3, <1>6, PassedStays, LateStays, AloneStays
<1>9. RowsCounted'
  BY <1>1, <1>3, <1>7, RowsStay
<1>10. Marks' \subseteq Marks
  BY <1>1, <1>3, <1>4 DEF Marks
<1>11. MarksHold'
  BY <1>1, <1>10, MarksStay DEF Kept
<1> QED
  BY <1>5, <1>8, <1>9, <1>11 DEF LimInv

\* Heard or unheard, what is counted is counted in the key of the hour read.
LEMMA CountRowLim == ASSUME LimInv, NEW t \in Threads, CountRow(t), UNCHANGED path PROVE LimInv'
<1>0. PICK h \in Nat : h = request[t].hour
  BY DEF LimInv, LimTypes, Requests
<1> DEFINE key == RowKey(h)
           counts == Incr(key, HourLife(key))
           w == [request[t] EXCEPT !.step = "write"]
           a == [request[t] EXCEPT !.step = "alone"]
<1>1. /\ LimTypes /\ Hours /\ MarksHold /\ request[t] \in Requests /\ request[t].step = "count"
      /\ h <= HourNow /\ ~request[t].alone
      /\ UNCHANGED <<path, local, clock, losses, passed, free, rows, alone, overdue, reported>>
  BY <1>0 DEF LimInv, LimTypes, Hours, CountRow, Unwritten
<1>2. \E r \in {w, a, Idle} : /\ Becomes(t, r) /\ (counts \/ UNCHANGED redis)
                              /\ r = w => counts /\ Count(key) + 1 <= HourlyMax
  <2>1. w.step # "alone" /\ w.step = "write" /\ a.step = "alone" /\ Idle.step = "idle"
    BY <1>1 DEF Requests, Idle
  <2>2. w # a /\ w # Idle
    BY <2>1
  <2> HIDE DEF w, a, counts
  <2> QED
    BY <1>0, <2>2 DEF CountRow, Unheard, w, a, counts
<1>3. PICK r \in {w, a, Idle} : /\ Becomes(t, r) /\ (counts \/ UNCHANGED redis)
                                /\ r = w => counts /\ Count(key) + 1 <= HourlyMax
  BY <1>2
<1>4. /\ r \in Requests /\ r.mark \subseteq request[t].mark /\ ~r.alone
      /\ \/ r.step = "idle" /\ r.hour = 0
         \/ r.step = "alone" /\ r.hour = h
         \/ r.step = "write" /\ r.hour = h /\ counts /\ Count(key) + 1 <= HourlyMax
  <2>1. CASE r = w
    BY <1>0, <1>1, <1>3, <2>1 DEF Requests
  <2>2. CASE r = a
    BY <1>0, <1>1, <2>2 DEF Requests
  <2>3. CASE r = Idle
    BY <2>3 DEF Requests, Idle
  <2> QED
    BY <2>1, <2>2, <2>3
<1> HIDE DEF w, a
<1>5. HourNow' = HourNow /\ HourNow \in Nat /\ request' \in [Threads -> Requests] /\ request'[t] = r
      /\ \A u \in Threads : u # t => request'[u] = request[u]
  BY <1>1, <1>3, <1>4, Becoming, NowTypes DEF LimTypes
<1>6. RowKey(h)' = RowKey(h) /\ RowKey(HourNow)' = RowKey(HourNow) /\ (h # HourNow => HourNow # h)
  BY <1>1, <1>5 DEF RowKey
<1>7. /\ Windows'
      /\ \A k \in DOMAIN redis' : redis'[k].n \in Nat \ {0} /\ redis'[k].until \in Nat
      /\ counts => Count(RowKey(h))' = Count(RowKey(h)) + 1
      /\ Count(RowKey(h))' \in {Count(RowKey(h)), Count(RowKey(h)) + 1}
      /\ \A g : g # h => Count(RowKey(g))' = Count(RowKey(g))
      /\ \A g : Count(<<"rl", g>>)' = Count(<<"rl", g>>)
      /\ \A v : Kept(<<"csp", v>>) => <<"csp", v>> \in DOMAIN redis' /\ redis'[<<"csp", v>>] = redis[<<"csp", v>>]
  BY <1>1, <1>3, IncrKeeps
<1>8. LimTypes' /\ Hours'
  <2>1. LimTypes'
    BY <1>1, <1>5, <1>7 DEF LimTypes, Processes
  <2>2. Hours'
    BY <1>1, <1>4, <1>5 DEF Hours, Processes
  <2> QED
    BY <2>1, <2>2
<1>9. PassedCounted'
  BY <1>1, <1>7, PassedStays
<1>10. LateCounted'
  <2>1. r.step # "idle" /\ r.hour # HourNow => t \in Late
    BY <1>0, <1>1, <1>4 DEF Late
  <2> QED
    BY <1>1, <1>3, <1>4, <2>1, LateStays
<1>11. AloneCounted'
  <2>1. r.step \in {"count", "alone"} /\ r.hour # HourNow => t \in Stale(ProcessOf[t])
    BY <1>0, <1>1, <1>4 DEF Stale, ThreadsOf
  <2> QED
    BY <1>1, <1>3, <1>4, <2>1, AloneStays
<1>12. RowsCounted'
  <2> DEFINE c == Count(RowKey(HourNow))
             d == Count(RowKey(HourNow))'
  <2>1. c \in Nat
    BY <1>1, CountType
  <2>2. d \in {c, c + 1} /\ (r.step = "write" /\ r.hour = HourNow => d = c + 1 /\ d <= HourlyMax)
    <3>1. CASE h = HourNow
      <4>1. c = Count(RowKey(h)) /\ d = Count(RowKey(h))'
        BY <1>5, <3>1
      <4> QED
        BY <1>4, <1>7, <4>1
    <3>2. CASE h # HourNow
      <4>1. d = c
        BY <1>5, <1>7, <3>2
      <4> QED
        BY <1>4, <3>2, <4>1
    <3> QED
      BY <3>1, <3>2
  <2> HIDE DEF c, d
  <2> QED
    BY <1>1, <1>3, <1>4, <2>1, <2>2, RowsStay DEF c, d
<1>13. Marks' \subseteq Marks
  BY <1>1, <1>4, <1>5 DEF Marks
<1>14. MarksHold'
  BY <1>1, <1>7, <1>13, MarksStay
<1> QED
  BY <1>7, <1>8, <1>9, <1>10, <1>11, <1>12, <1>14 DEF LimInv

\* A process counts one more of this hour, or, with the hour before it, begins anew.
LEMMA RoomTaken ==
  ASSUME LimInv, NEW t \in Threads, CountAlone(t),
         NEW p \in Processes, p = ProcessOf[t], NEW h \in Nat, h = request[t].hour
  PROVE  /\ local' \in [Processes -> [hour : Nat, n : Nat]] /\ local'[p].hour = h
         /\ \A o \in Processes : o # p => local'[o] = local[o] /\ Room(o)' = Room(o)
         /\ Room(p)' \in Nat /\ Room(p)' <= HourlyMax
         /\ h = HourNow => (request'[t] = Idle /\ Room(p)' <= Room(p)) \/ Room(p)' + 1 <= Room(p)
         /\ h # HourNow => Room(p)' = HourlyMax
<1> DEFINE n == IF local[p].hour = h THEN local[p].n + 1 ELSE 1
<1>1. /\ LimTypes /\ clock' = clock
      /\ local' = [local EXCEPT ![p] = [hour |-> h, n |-> n]]
      /\ request' = [request EXCEPT ![t] = IF n <= HourlyMax THEN [request[t] EXCEPT !.step = "write", !.alone = TRUE] ELSE Idle]
  BY DEF LimInv, CountAlone, Becomes, Unwritten
<1>2. local[p].n \in Nat /\ n \in Nat \ {0} /\ HourlyMax \in Nat /\ HourNow' = HourNow
  BY <1>1, Lengths DEF LimTypes, HourNow
<1>3. /\ local' \in [Processes -> [hour : Nat, n : Nat]] /\ local'[p].hour = h /\ local'[p].n = n
      /\ \A o \in Processes : o # p => local'[o] = local[o]
  <2>1. [hour |-> h, n |-> n] \in [hour : Nat, n : Nat]
    BY <1>2
  <2> HIDE DEF n
  <2> QED
    BY <1>1, <2>1 DEF LimTypes
<1>4. \A o \in Processes : o # p => Room(o)' = Room(o)
  BY <1>2, <1>3 DEF Room, Capped
<1>5. h # HourNow => Room(p)' = HourlyMax
  BY <1>2, <1>3 DEF Room
<1>6. h = HourNow => Room(p)' = HourlyMax - Capped(n, HourlyMax)
  BY <1>2, <1>3 DEF Room, Capped
<1>7. Capped(n, HourlyMax) \in Nat /\ Capped(n, HourlyMax) <= HourlyMax
  <2> HIDE DEF n
  <2> QED
    BY <1>2, Caps
<1>8. h = HourNow => (n <= HourlyMax => Room(p)' + 1 <= Room(p)) /\ Room(p)' <= Room(p)
  <2>1. CASE local[p].hour = h /\ h = HourNow
    <3>1. Room(p) = HourlyMax - Capped(local[p].n, HourlyMax) /\ n = local[p].n + 1
      BY <2>1 DEF Room
    <3>2. /\ Capped(local[p].n, HourlyMax) \in Nat /\ Capped(local[p].n + 1, HourlyMax) >= Capped(local[p].n, HourlyMax)
          /\ local[p].n + 1 <= HourlyMax => Capped(local[p].n + 1, HourlyMax) = Capped(local[p].n, HourlyMax) + 1
      BY <1>2, Caps
    <3> QED
      BY <1>2, <1>6, <1>7, <2>1, <3>1, <3>2
  <2>2. CASE local[p].hour # h /\ h = HourNow
    <3>1. Room(p) = HourlyMax /\ n = 1
      BY <2>2 DEF Room
    <3> QED
      BY <1>2, <1>6, <1>7, <2>2, <3>1 DEF Capped
  <2> QED
    BY <2>1, <2>2
<1>9. n <= HourlyMax \/ request'[t] = Idle
  BY <1>1 DEF LimTypes
<1> HIDE DEF n
<1>10. Room(p)' \in Nat /\ Room(p)' <= HourlyMax
  BY <1>2, <1>5, <1>6, <1>7
<1> QED
  BY <1>3, <1>4, <1>5, <1>8, <1>9, <1>10

LEMMA CountAloneLim == ASSUME LimInv, NEW t \in Threads, CountAlone(t), UNCHANGED path PROVE LimInv'
<1>0. PICK h \in Nat, p \in Processes : h = request[t].hour /\ p = ProcessOf[t]
  BY DEF LimInv, LimTypes, Requests, Processes
<1> DEFINE w == [request[t] EXCEPT !.step = "write", !.alone = TRUE]
<1>1. /\ LimTypes /\ Hours /\ Windows /\ MarksHold /\ request[t] \in Requests /\ request[t].step = "alone" /\ h <= HourNow
      /\ UNCHANGED <<path, redis, clock, losses, passed, free, rows, alone, overdue, reported>>
  BY <1>0 DEF LimInv, LimTypes, Hours, CountAlone, Unwritten
<1>2. PICK r \in {w, Idle} : Becomes(t, r)
  BY DEF CountAlone
<1>3. /\ r \in Requests /\ r.mark \subseteq request[t].mark /\ (r.alone => r.step = "write")
      /\ (r.step = "write" /\ r.hour = h /\ r.alone) \/ (r.step = "idle" /\ r.hour = 0)
  <2>1. CASE r = w
    BY <1>0, <1>1, <2>1 DEF Requests
  <2>2. CASE r = Idle
    BY <2>2 DEF Requests, Idle
  <2> QED
    BY <1>2, <2>1, <2>2
<1>4. w.step = "write" /\ Idle.step = "idle"
  BY <1>1 DEF Requests, Idle
<1> HIDE DEF w
<1>5. HourNow' = HourNow /\ HourNow \in Nat /\ request' \in [Threads -> Requests] /\ request'[t] = r
      /\ \A u \in Threads : u # t => request'[u] = request[u]
  BY <1>1, <1>2, <1>3, Becoming, NowTypes DEF LimTypes
<1>6. /\ local' \in [Processes -> [hour : Nat, n : Nat]] /\ local'[p].hour = h
      /\ \A o \in Processes : o # p => local'[o] = local[o] /\ Room(o)' = Room(o)
      /\ Room(p)' \in Nat /\ Room(p)' <= HourlyMax
      /\ h = HourNow => (request'[t] = Idle /\ Room(p)' <= Room(p)) \/ Room(p)' + 1 <= Room(p)
      /\ h # HourNow => Room(p)' = HourlyMax
  BY <1>0, RoomTaken
<1>7. h = HourNow => (r.step = "idle" /\ Room(p)' <= Room(p)) \/ Room(p)' + 1 <= Room(p)
  BY <1>4, <1>5, <1>6
<1>8. LimTypes' /\ Hours' /\ Windows'
  <2>1. LimTypes'
    BY <1>1, <1>5, <1>6 DEF LimTypes, Processes
  <2>2. Hours'
    BY <1>1, <1>3, <1>5, <1>6 DEF Hours, Processes
  <2> QED
    BY <1>1, <2>1, <2>2 DEF Windows, Lives, Kept
<1>9. \A k : Count(k)' = Count(k)
  BY <1>1 DEF Count
<1>10. PassedCounted' /\ LateCounted' /\ RowsCounted'
  <2>1. r.step # "idle" /\ r.hour # HourNow => t \in Late
    BY <1>0, <1>1, <1>3 DEF Late
  <2>2. LateCounted'
    BY <1>1, <1>2, <1>3, <2>1, LateStays
  <2>3. Count(RowKey(HourNow))' = Count(RowKey(HourNow)) /\ Count(RowKey(HourNow)) \in Nat
    BY <1>1, <1>5, <1>9, CountType DEF RowKey
  <2>4. RowsCounted'
    BY <1>1, <1>2, <1>3, <2>3, RowsStay
  <2> QED
    BY <1>1, <1>9, <2>2, <2>4, PassedStays
<1>11. ASSUME NEW o \in Processes PROVE AloneOf(o)'
  <2> DEFINE x == Cardinality(ReadyAlone(o))
             y == Cardinality(ReadyAlone(o)')
             s == Cardinality(Stale(o))
             u == Cardinality(Stale(o)')
             a == alone[o]
             b == Room(o)
             c == Room(o)'
             m == HourlyMax * (1 + Cardinality(ThreadsOf(o)))
  <2>1. /\ ReadyAlone(o)' \in SUBSET Threads /\ ReadyAlone(o) \in SUBSET Threads /\ ReadyAlone(o)' \ {t} = ReadyAlone(o) \ {t}
        /\ t \in ReadyAlone(o)' <=> p = o /\ r.step = "write" /\ r.hour = HourNow /\ r.alone
        /\ Stale(o)' \in SUBSET Threads /\ Stale(o) \in SUBSET Threads /\ Stale(o)' \ {t} = Stale(o) \ {t}
        /\ t \notin Stale(o)'
        /\ ThreadsOf(o)' = ThreadsOf(o)
    BY <1>0, <1>1, <1>2, <1>3, BecomingAlone, InThreads
  <2>2. t \in Stale(o) <=> p = o /\ h # HourNow
    BY <1>0, <1>1 DEF Stale, ThreadsOf
  <2>3. a \in Nat /\ b \in Nat /\ c \in Nat /\ b <= HourlyMax /\ c <= HourlyMax /\ HourlyMax \in Nat
    BY <1>1, <1>6, RoomType, Lengths DEF LimTypes
  <2>4. a + x + HourlyMax * s + b <= m /\ m \in Nat
    BY InThreads, OfThreads, Times, Lengths DEF LimInv, AloneCounted, AloneOf
  <2>5. x \in Nat /\ y \in Nat /\ s \in Nat /\ u \in Nat /\ u <= s /\ y <= x + 1
        /\ (t \notin ReadyAlone(o)' => y <= x) /\ (t \in Stale(o) => u + 1 <= s)
    BY <2>1, OneThread
  <2>6. HourlyMax * u \in Nat /\ HourlyMax * s \in Nat /\ HourlyMax * u <= HourlyMax * s
        /\ (t \in Stale(o) => HourlyMax * u + HourlyMax <= HourlyMax * s)
    BY <2>3, <2>5, TimesLess
  <2>7. \/ o = p /\ h # HourNow /\ t \in Stale(o) /\ y <= x
        \/ o = p /\ h = HourNow /\ ((y <= x /\ c <= b) \/ c + 1 <= b)
        \/ o # p /\ y <= x /\ c = b
    BY <1>3, <1>6, <1>7, <2>1, <2>2, <2>5
  <2> HIDE DEF x, y, s, u, a, b, c, m
  <2>8. a + y + HourlyMax * u + c <= m
    BY <2>3, <2>4, <2>5, <2>6, <2>7
  <2> QED
    BY <1>1, <2>1, <2>8 DEF AloneOf, x, y, s, u, a, c, m
<1>12. Marks' \subseteq Marks
  BY <1>1, <1>3, <1>5 DEF Marks
<1>13. MarksHold'
  BY <1>1, <1>12, MarksStay DEF Kept
<1> QED
  BY <1>8, <1>10, <1>11, <1>13 DEF LimInv, AloneCounted, Processes

\* A mark is set only when no mark of this violation has its hour to go.
LEMMA StartReportLim == ASSUME LimInv, NEW t \in Threads, NEW v \in Violations, StartReport(t, v), UNCHANGED path PROVE LimInv'
<1> DEFINE key == <<"csp", v>>
           new == <<v, clock, losses>>
           q == [step |-> "count", hour |-> HourNow, alone |-> FALSE, mark |-> {new}]
<1>1. /\ LimTypes /\ Hours /\ Windows /\ MarksHold /\ request[t] \in Requests /\ request[t].step = "idle"
      /\ Count(key) = 0 /\ Set(key, 1, clock + Hour) /\ (Becomes(t, q) \/ UNCHANGED request)
      /\ UNCHANGED <<path, local, clock, losses, passed, free, rows, alone, overdue, reported>>
  BY DEF LimInv, LimTypes, StartReport, Unwritten
<1>2. clock \in Nat /\ losses \in Nat /\ Hour \in Nat \ {0} /\ clock + Hour \in Nat /\ 1 \in Nat \ {0} /\ clock < clock + Hour
  BY <1>1, Lengths DEF LimTypes
<1>3. HourNow \in Nat /\ new \in Violations \X Nat \X Nat
  BY <1>2, NowTypes
<1>4. \E r \in {q, request[t]} : Becomes(t, r)
  <2>1. UNCHANGED request => Becomes(t, request[t])
    BY <1>1 DEF Becomes, LimTypes
  <2> HIDE DEF q
  <2> QED
    BY <1>1, <2>1
<1>5. PICK r \in {q, request[t]} : Becomes(t, r)
  BY <1>4
<1> HIDE DEF new
<1>6. /\ r \in Requests /\ (r.alone => r.step = "write") /\ r.mark \subseteq request[t].mark \cup {new} /\ r.hour <= HourNow
      /\ r.step = "idle" \/ (r.step = "count" /\ r.hour = HourNow)
  <2>1. CASE r = q
    BY <1>3, <2>1 DEF Requests
  <2>2. CASE r = request[t]
    BY <1>1, <2>2 DEF Hours
  <2> QED
    BY <1>5, <2>1, <2>2
<1> HIDE DEF q, key
<1>7. HourNow' = HourNow /\ request' \in [Threads -> Requests] /\ request'[t] = r /\ \A u \in Threads : u # t => request'[u] = request[u]
  BY <1>1, <1>5, <1>6, Becoming
<1>8. /\ \A h : key # <<"rl", h>> /\ key # <<path, h>>
      /\ \A k : k # key => Count(k)' = Count(k) /\ (k \in DOMAIN redis => k \in DOMAIN redis' /\ redis'[k] = redis[k])
      /\ key \in DOMAIN redis' /\ redis'[key].until = clock + Hour
  <2>1. \A h : key # <<"rl", h>> /\ key # <<path, h>>
    BY <1>1, OtherKey DEF key, LimTypes
  <2> QED
    BY <1>1, <2>1, SetOne
<1>9. Windows' /\ \A k \in DOMAIN redis' : redis'[k].n \in Nat \ {0} /\ redis'[k].until \in Nat
  <2>1. /\ \A h \in Nat : key = <<"rl", h>> => clock + Hour >= (h + 1) * Minute
        /\ \A h \in Nat : key = <<path, h>> => clock + Hour >= (h + 1) * Hour
    BY <1>8
  <2>2. /\ \A k \in DOMAIN redis' : redis'[k].n \in Nat \ {0} /\ redis'[k].until \in Nat
        /\ \A what, len : Lives(what, len) /\ (\A h \in Nat : key = <<what, h>> => clock + Hour >= (h + 1) * len)
                            => \A h \in Nat : <<what, h>> \in DOMAIN redis' => redis'[<<what, h>>].until >= (h + 1) * len
    BY <1>1, <1>2, SetKeeps
  <2>3. Windows'
    BY <1>1, <2>1, <2>2 DEF Windows, Lives, Kept
  <2> QED
    BY <2>2, <2>3
<1>10. LimTypes' /\ Hours'
  <2>1. LimTypes'
    BY <1>1, <1>7, <1>9 DEF LimTypes, Processes
  <2>2. Hours'
    BY <1>1, <1>6, <1>7 DEF Hours, Processes
  <2> QED
    BY <2>1, <2>2
<1>11. Count(RowKey(HourNow))' = Count(RowKey(HourNow)) /\ Count(RowKey(HourNow)) \in Nat
  BY <1>1, <1>7, <1>8, CountType DEF RowKey
<1>12. PassedCounted' /\ LateCounted' /\ AloneCounted' /\ RowsCounted'
  <2>1. PassedCounted' /\ LateCounted' /\ AloneCounted'
    BY <1>1, <1>5, <1>6, <1>8, PassedStays, LateStays, AloneStays
  <2>2. RowsCounted'
    BY <1>1, <1>5, <1>6, <1>11, RowsStay
  <2> QED
    BY <2>1, <2>2
<1>13. Marks' \subseteq Marks \cup {new}
  BY <1>1, <1>6, <1>7 DEF Marks
<1>14. \A m \in Marks : m[2] \in Nat /\ m[3] \in Nat /\ m[2] <= clock /\ m[3] <= losses /\ MarkKept(m)
  BY <1>1 DEF MarksHold, Marks, LimTypes, Requests
<1>15. \A m \in Marks : m[1] = v /\ m[3] = losses => m[2] + Hour <= clock
  <2>1. ~Kept(key)
    BY <1>1 DEF Count, Kept, LimTypes
  <2>2. \A m \in Marks : m[1] = v /\ m[3] = losses => ~(clock < m[2] + Hour)
    BY <1>14, <2>1 DEF MarkKept, key
  <2> QED
    BY <1>2, <1>14, <2>2
<1>16. new[1] = v /\ new[2] = clock /\ new[3] = losses
  BY DEF new
<1>17. ASSUME NEW m \in Marks' PROVE m[2] <= clock' /\ m[3] <= losses' /\ MarkKept(m)'
  <2>1. CASE m \in Marks
    <3>1. m[1] # v => <<"csp", m[1]>> # key
      BY DEF key
    <3>2. CASE m[1] # v
      <4>1. Kept(<<"csp", m[1]>>) => Kept(<<"csp", m[1]>>)' /\ redis'[<<"csp", m[1]>>] = redis[<<"csp", m[1]>>]
        BY <1>8, <3>1, <3>2 DEF Kept
      <4> QED
        BY <1>1, <1>14, <2>1, <4>1 DEF MarkKept
    <3>3. CASE m[1] = v
      BY <1>1, <1>2, <1>14, <1>15, <2>1, <3>3 DEF MarkKept
    <3> QED
      BY <3>2, <3>3
  <2>2. CASE m = new
    BY <1>1, <1>2, <1>8, <1>16, <2>2 DEF MarkKept, Kept, key
  <2> QED
    BY <1>13, <2>1, <2>2
<1>18. ASSUME NEW r1 \in Marks', NEW r2 \in Marks' PROVE Same(r1, r2)
  <2>1. CASE r1 \in Marks /\ r2 \in Marks
    BY <1>1, <2>1 DEF MarksHold
  <2>2. CASE r1 \in Marks /\ r2 = new
    BY <1>2, <1>14, <1>15, <1>16, <2>2 DEF Same
  <2>3. CASE r1 = new /\ r2 \in Marks
    BY <1>2, <1>14, <1>15, <1>16, <2>3 DEF Same
  <2>4. CASE r1 = new /\ r2 = new
    BY <2>4 DEF Same
  <2> QED
    BY <1>13, <2>1, <2>2, <2>3, <2>4
<1>19. MarksHold'
  BY <1>17, <1>18 DEF MarksHold, Same
<1> QED
  BY <1>9, <1>10, <1>12, <1>19 DEF LimInv

\* What was about to be written is a row, of this hour or late, or nothing.
LEMMA WriteRowLim == ASSUME LimInv, NEW t \in Threads, WriteRow(t), UNCHANGED path PROVE LimInv'
<1>0. PICK p \in Processes : p = ProcessOf[t]
  BY DEF Processes
<1>1. /\ LimTypes /\ Hours /\ Windows /\ MarksHold /\ RowsCounted /\ AloneCounted /\ LateCounted
      /\ request[t] \in Requests /\ request[t].step = "write" /\ Becomes(t, Idle)
      /\ UNCHANGED <<path, redis, local, clock, losses, passed, free>>
  BY DEF LimInv, LimTypes, WriteRow
<1>2. /\ rows \in Nat /\ overdue \in Nat /\ alone \in [Processes -> Nat]
      /\ HourNow \in Nat /\ 0 <= HourNow
  BY <1>1, NowTypes DEF LimTypes
<1>3. /\ rows' = rows \/ (rows' = rows + 1 /\ t \in ReadyCounted)
      /\ overdue' = overdue \/ (overdue' = overdue + 1 /\ t \in Late)
      /\ alone' = alone \/ (alone' = [alone EXCEPT ![p] = @ + 1] /\ t \in ReadyAlone(p))
      /\ reported' \subseteq reported \cup request[t].mark
  BY <1>0, <1>1 DEF WriteRow, Written, ReadyCounted, ReadyAlone, Late, Ready, ThreadsOf
<1>4. Idle \in Requests /\ Idle.step = "idle" /\ Idle.hour = 0 /\ Idle.mark = {} /\ ~Idle.alone
  BY DEF Idle, Requests
<1>5. /\ HourNow' = HourNow /\ request' \in [Threads -> Requests] /\ request'[t] = Idle
      /\ \A u \in Threads : u # t => request'[u] = request[u]
      /\ ReadyCounted' \in SUBSET Threads /\ ReadyCounted' \ {t} = ReadyCounted \ {t} /\ t \notin ReadyCounted'
      /\ Late' \in SUBSET Threads /\ Late' \ {t} = Late \ {t} /\ t \notin Late'
  BY <1>1, <1>4, Becoming
<1>6. reported' \subseteq Violations \X Nat \X Nat
  BY <1>1, <1>3 DEF LimTypes, Requests
<1>7. alone' \in [Processes -> Nat] /\ \A o \in Processes : alone'[o] = alone[o] \/ (o = p /\ alone'[o] = alone[o] + 1 /\ t \in ReadyAlone(o))
  BY <1>2, <1>3
<1>8. LimTypes' /\ Hours' /\ Windows'
  <2>1. rows' \in Nat /\ overdue' \in Nat
    BY <1>2, <1>3
  <2>2. LimTypes'
    BY <1>1, <1>5, <1>6, <1>7, <2>1 DEF LimTypes, Processes
  <2>3. Hours'
    BY <1>1, <1>2, <1>4, <1>5 DEF Hours, Processes
  <2> QED
    BY <1>1, <2>2, <2>3 DEF Windows, Lives, Kept
<1>9. \A k : Count(k)' = Count(k)
  BY <1>1 DEF Count
<1>10. PassedCounted'
  BY <1>1, <1>9, PassedStays
<1>11. RowsCounted'
  <2> DEFINE x == Cardinality(ReadyCounted)
             y == Cardinality(ReadyCounted')
             m == HourlyMax * losses + Capped(Count(RowKey(HourNow)), HourlyMax)
  <2>1. ReadyCounted \in SUBSET Threads
    BY InThreads
  <2>2. x \in Nat /\ y \in Nat /\ y <= x /\ (t \in ReadyCounted => y + 1 <= x)
    BY <1>5, <2>1, OneThread
  <2>3. Capped(Count(RowKey(HourNow)), HourlyMax) \in Nat /\ HourlyMax * losses \in Nat
    <3>1. Count(RowKey(HourNow)) \in Nat /\ losses \in Nat
      BY <1>1, CountType DEF LimTypes
    <3> QED
      BY <3>1, Caps, Times, Lengths
  <2>4. m \in Nat /\ rows + x <= m
    BY <1>1, <2>3 DEF RowsCounted
  <2>5. m' = m
    BY <1>1, <1>5, <1>9 DEF RowKey, Capped
  <2> HIDE DEF x, y, m
  <2>6. rows' + y <= m
    BY <1>2, <1>3, <2>2, <2>4
  <2> QED
    BY <2>5, <2>6 DEF RowsCounted, y, m
<1>12. LateCounted'
  <2>1. Late \in SUBSET Threads
    BY InThreads
  <2>2. Cardinality(Late) \in Nat /\ Cardinality(Late') \in Nat /\ Cardinality(Late') <= Cardinality(Late)
        /\ (t \in Late => Cardinality(Late') + 1 <= Cardinality(Late))
    BY <1>5, <2>1, OneThread
  <2>3. Cardinality(Threads) \in Nat /\ overdue + Cardinality(Late) <= Cardinality(Threads)
    BY <1>1, LimitsAssumption, FS_CardinalityType DEF LateCounted
  <2> QED
    BY <1>2, <1>3, <2>2, <2>3 DEF LateCounted
<1>13. ASSUME NEW o \in Processes PROVE AloneOf(o)'
  <2> DEFINE x == Cardinality(ReadyAlone(o))
             y == Cardinality(ReadyAlone(o)')
             s == Cardinality(Stale(o))
             u == Cardinality(Stale(o)')
             a == alone[o]
             b == alone'[o]
             m == HourlyMax * (1 + Cardinality(ThreadsOf(o)))
  <2>1. /\ ReadyAlone(o)' \in SUBSET Threads /\ ReadyAlone(o) \in SUBSET Threads /\ ReadyAlone(o)' \ {t} = ReadyAlone(o) \ {t}
        /\ t \notin ReadyAlone(o)' /\ t \notin Stale(o)'
        /\ Stale(o)' \in SUBSET Threads /\ Stale(o) \in SUBSET Threads /\ Stale(o)' \ {t} = Stale(o) \ {t}
        /\ ThreadsOf(o)' = ThreadsOf(o)
    BY <1>1, <1>4, BecomingAlone, InThreads
  <2>2. x \in Nat /\ y \in Nat /\ y <= x /\ (t \in ReadyAlone(o) => y + 1 <= x) /\ s \in Nat /\ u \in Nat /\ u <= s
    BY <2>1, OneThread
  <2>3. HourlyMax * u \in Nat /\ HourlyMax * s \in Nat /\ HourlyMax * u <= HourlyMax * s
    BY <2>2, TimesLess, Lengths
  <2>4. a + x + HourlyMax * s + Room(o) <= m /\ m \in Nat
    BY <1>1, InThreads, OfThreads, Times, Lengths DEF AloneCounted, AloneOf
  <2>5. Room(o)' = Room(o) /\ Room(o) \in Nat /\ a \in Nat /\ b \in Nat
    BY <1>1, <1>2, <1>5, <1>7, RoomType DEF Room, Capped
  <2>6. b = a \/ (b = a + 1 /\ t \in ReadyAlone(o))
    BY <1>7
  <2> HIDE DEF x, y, s, u, a, b, m
  <2>7. b + y + HourlyMax * u + Room(o) <= m
    BY <2>2, <2>3, <2>4, <2>5, <2>6
  <2> QED
    BY <2>1, <2>5, <2>7 DEF AloneOf, y, u, b, m
<1>14. Marks' \subseteq Marks
  BY <1>1, <1>3, <1>4, <1>5 DEF Marks
<1>15. MarksHold'
  BY <1>1, <1>14, MarksStay DEF Kept
<1> QED
  BY <1>8, <1>10, <1>11, <1>12, <1>13, <1>15 DEF LimInv, AloneCounted, Processes

LEMMA LimStays == ASSUME LimInv, UNCHANGED limVars PROVE LimInv'
<1>1. UNCHANGED <<path, clock, redis, losses, request, local, passed, free, rows, alone, overdue, reported>>
  BY DEF limVars
<1>2. LimTypes' /\ Hours' /\ Windows' /\ MarksHold'
  BY <1>1 DEF LimInv, LimTypes, Hours, HourNow, Processes, Windows, Lives, Kept, MarksHold, Marks, MarkKept, Same
<1>3. PassedCounted' /\ RowsCounted' /\ LateCounted'
  BY <1>1 DEF LimInv, PassedCounted, RowsCounted, LateCounted, Capped, Count, RowKey, MinuteNow, HourNow, ReadyCounted, Ready, Late
<1>4. AloneCounted'
  BY <1>1 DEF LimInv, AloneCounted, AloneOf, ReadyAlone, Ready, Stale, Room, Capped, ThreadsOf, HourNow, Processes
<1> QED
  BY <1>2, <1>3, <1>4 DEF LimInv

LEMMA LimInvHolds == LimInv => LimitsHold
<1> SUFFICES ASSUME LimInv PROVE LimitsHold
  OBVIOUS
<1>1. LimTypes /\ PassedCounted /\ RowsCounted /\ AloneCounted /\ LateCounted /\ MarksHold
  BY DEF LimInv
<1>2. losses \in Nat /\ passed \in Nat /\ free \in Nat /\ rows \in Nat /\ overdue \in Nat /\ Limit \in Nat /\ HourlyMax \in Nat
  BY <1>1, Lengths DEF LimTypes
<1>3. \A k : Capped(Count(k), Limit) \in Nat /\ Capped(Count(k), Limit) <= Limit
          /\ Capped(Count(k), HourlyMax) \in Nat /\ Capped(Count(k), HourlyMax) <= HourlyMax
  BY <1>1, <1>2, CountType, Caps
<1>4. /\ Limit * losses \in Nat /\ Limit * (1 + losses) = Limit * losses + Limit
      /\ HourlyMax * losses \in Nat /\ HourlyMax * (1 + losses) = HourlyMax * losses + HourlyMax
  BY <1>2, Times
<1>5. passed <= Limit * (1 + losses) + free
  BY <1>1, <1>2, <1>3, <1>4 DEF PassedCounted
<1>6. Cardinality(ReadyCounted) \in Nat /\ Cardinality(Late) \in Nat /\ Cardinality(Threads) \in Nat
  BY InThreads, OfThreads
<1>7. rows <= HourlyMax * (1 + losses) /\ overdue <= Cardinality(Threads)
  BY <1>1, <1>2, <1>3, <1>4, <1>6 DEF RowsCounted, LateCounted
<1>8. ASSUME NEW p \in Processes PROVE alone[p] <= HourlyMax * (1 + Cardinality(ThreadsOf(p)))
  <2> DEFINE x == Cardinality(ReadyAlone(p))
             s == HourlyMax * Cardinality(Stale(p))
             m == HourlyMax * (1 + Cardinality(ThreadsOf(p)))
  <2>1. /\ Cardinality(ReadyAlone(p)) \in Nat /\ Cardinality(Stale(p)) \in Nat /\ Cardinality(ThreadsOf(p)) \in Nat
        /\ Room(p) \in Nat /\ alone[p] \in Nat
    BY <1>1, InThreads, OfThreads, RoomType DEF LimTypes
  <2>2. x \in Nat /\ s \in Nat /\ m \in Nat
    BY <1>2, <2>1, Times
  <2>3. alone[p] + x + s + Room(p) <= m
    BY <1>1 DEF AloneCounted, AloneOf
  <2> HIDE DEF x, s, m
  <2>4. alone[p] <= m
    BY <2>1, <2>2, <2>3
  <2> QED
    BY <2>4 DEF m
<1> QED
  BY <1>1, <1>5, <1>7, <1>8 DEF LimitsHold, MarksHold, Same, Marks, ThreadsOf

\* No window lets more through than its limit, but for what Redis gave no answer
\* for; no hour writes more rows than its own, counted in Redis or by a process,
\* but for one late row of each thread; and a violation is written once in an
\* hour: for any limits and any number of threads and processes, however often
\* a call of Redis fails or it comes back empty (security.py:96,
\* csp_reports.py:75-78, errors.py:75).
THEOREM LimitsKept == LimSpec => []LimitsHold
<1>1. LimInv /\ [LimNext]_limVars => LimInv'
  <2> SUFFICES ASSUME LimInv, [LimNext]_limVars PROVE LimInv'
    OBVIOUS
  <2>1. CASE UNCHANGED limVars
    BY <2>1, LimStays
  <2>2. CASE UNCHANGED path /\ Tick
    BY <2>2, TickLim
  <2>3. CASE UNCHANGED path /\ Lost
    BY <2>3, LostLim
  <2>4. CASE UNCHANGED path /\ Hit
    BY <2>4, HitLim
  <2>5. CASE UNCHANGED path /\ \E t \in Threads, v \in Violations : StartReport(t, v)
    BY <2>5, StartReportLim
  <2>6. CASE UNCHANGED path /\ \E t \in Threads : StartError(t)
    BY <2>6, StartErrorLim
  <2>7. CASE UNCHANGED path /\ \E t \in Threads : CountRow(t) \/ CountAlone(t) \/ WriteRow(t)
    BY <2>7, CountRowLim, CountAloneLim, WriteRowLim
  <2> QED
    BY <2>1, <2>2, <2>3, <2>4, <2>5, <2>6, <2>7 DEF LimNext
<1> QED
  BY <1>1, InitLim, LimInvHolds, PTL DEF LimSpec

-----------------------------------------------------------------------------
(* Impacts.  What statements add up agrees because they add up the same    *)
(* blocks.  That is shown block by block, from what the least of a row of  *)
(* distances says of each of them; the nearest office is the least of the  *)
(* row whichever two the index brings; what is rounded is beyond a limit    *)
(* exactly if the distance is beyond it by more than Slack, so that two     *)
(* sums differ by people at the edge at most.  Inductive with it is what   *)
(* the tables of a calculation were made from, which no step changes again.*)
Distances == [post : [Blocks -> [Offices -> 0 .. Nowhere]], bank : [Blocks -> [Branches -> 0 .. Nowhere]]]
Table == [post : [Blocks -> [Offices -> 0 .. Nowhere]], bank : [Blocks -> [Branches -> 0 .. Nowhere]],
          offices : SUBSET Offices]

\* The blocks with an office at the edge, and those a closed branch loses, on the
\* ground and on foot.
AtEdge(b) == \E o \in ground.offices : ground.post[b][o] \in TwoKm + 1 .. TwoKm + Slack
LosesByCar(x) == {b \in Blocks : B1(b) = x /\ ground.bank[b][x] <= TwoKm /\ Alt(b, x) > TwoKm}
LosesOnFoot(g, x) == {b \in WalkCatch(g, x) : Rounded(g.bank[b][x]) <= Walk30 /\ WalkAlt(g, b, x) > Walk30}

IsRow(r) == r = [catch |-> r.catch, lost |-> r.lost, walkLost |-> r.walkLost, reasons |-> r.reasons, grade |-> r.grade]
NearMade ==
  /\ ground \in Table /\ ground.offices # {} /\ near \in [Blocks -> ground.offices]
  /\ \A b \in Blocks : near[b] \in NearestOffice(ground.post[b], ground.offices)
CalcMade ==
  /\ NearMade
  /\ hub = FacilityHub
  /\ DOMAIN impact = Assessed /\ \A x \in Assessed : IsRow(impact[x])
  /\ \A x \in Assessed : impact[x].lost = PeopleOf(LosesByCar(x))
WalkedWith ==
  /\ foot \in Table /\ noCash = WalkMetrics(foot)
  /\ \A x \in Assessed : /\ impact[x].walkLost = PeopleOf(LosesOnFoot(foot, x))
                         /\ "NO_ALT_WALK30" \in impact[x].reasons <=> impact[x].walkLost > 0
ImpInv ==
  /\ walkCount \in Nat /\ onRecord \in SUBSET Offices
  /\ walkCount > 0 => near # NoRows
  /\ near # NoRows => CalcMade
  /\ walkCount > 0 => WalkedWith
-----------------------------------------------------------------------------
LEMMA ImpConstants ==
  /\ Nowhere \in Nat /\ TwoKm \in Nat /\ Walk30 \in Nat /\ Reach \in Nat /\ Many \in Nat
  /\ Walk30 < Reach /\ Reach < Nowhere /\ TwoKm < Nowhere
  /\ IsFiniteSet(Blocks) /\ IsFiniteSet(Offices) /\ IsFiniteSet(Branches) /\ IsFiniteSet(Assessed)
  /\ Offices \subseteq Nat /\ Branches \subseteq Nat /\ Assessed \subseteq Branches /\ Offices # {} /\ Assessed # {}
  /\ People \in [Blocks -> Nat] /\ Aged \in [Blocks -> Nat] /\ Ground \subseteq Distances /\ Graphs \subseteq Distances
<1>1. IsFiniteSet(Assessed)
  BY FS_Subset, ImpactsAssumption
<1> QED
  BY <1>1, ImpactsAssumption DEF Distances

\* What is rounded is beyond a limit if it is so by more than what rounds to it.
LEMMA RoundedAbove ==
  ASSUME NEW L \in Nat, L % 10 = 0, NEW d \in Nat
  PROVE  /\ Rounded(d) \in Nat /\ (Rounded(d) > L <=> d > L + Slack) /\ (Rounded(d) <= L <=> d <= L + Slack)
<1>1. PICK q \in Nat : q = (d + 5) \div 10 /\ 10 * q <= d + 5 /\ d + 5 < 10 * q + 10
  OBVIOUS
<1>2. PICK k \in Nat : L = 10 * k
  <2>1. L \div 10 \in Nat /\ L = 10 * (L \div 10)
    OBVIOUS
  <2> QED
    BY <2>1
<1>3. Rounded(d) = 10 * q
  BY <1>1 DEF Rounded
<1>4. 10 * q > 10 * k <=> d > 10 * k + 4
  BY <1>1
<1> QED
  BY <1>1, <1>2, <1>3, <1>4 DEF Slack
LEMMA Limits10 ==
  /\ TwoKm % 10 = 0 /\ Walk30 % 10 = 0
  /\ TwoKm + Slack \in Nat /\ TwoKm + Slack < Nowhere /\ Walk30 + Slack \in Nat /\ Walk30 + Slack < Reach
<1>1. ASSUME NEW c \in Nat, NEW d \in Nat, c < d, c % 10 = 0, d % 10 = 0 PROVE c + Slack \in Nat /\ c + Slack < d
  BY <1>1 DEF Slack
<1>2. TwoKm % 10 = 0 /\ Walk30 % 10 = 0 /\ Reach % 10 = 0 /\ Nowhere % 10 = 0
  BY ImpactsAssumption
<1> QED
  BY <1>1, <1>2, ImpConstants

\* The least of finitely many numbers.
LEMMA MinOf ==
  ASSUME NEW I \in SUBSET Int, IsFiniteSet(I), I # {}
  PROVE  Min(I) \in I /\ \A i \in I : Min(I) <= i
<1>1. \E m \in I : \A i \in I : m <= i
  BY Extremes
<1> QED
  BY <1>1 DEF Min

\* What the least distance of a row says of each of them.
LEMMA LeastOf ==
  ASSUME NEW those, IsFiniteSet(those), NEW row, \A i \in those : row[i] \in 0 .. Nowhere
  PROVE  /\ Least(row, those) \in 0 .. Nowhere
         /\ \A i \in those : Least(row, those) <= row[i]
         /\ those # {} => \E i \in those : row[i] = Least(row, those)
         /\ \A d \in Nat : d < Nowhere => (Least(row, those) > d <=> \A i \in those : row[i] > d)
<1> DEFINE R == {row[i] : i \in those}
           I == {Nowhere} \cup R
<1>1. IsFiniteSet(R)
  <2>1. R \in SUBSET (0 .. Nowhere) /\ Nowhere \in Int
    BY ImpConstants
  <2>2. IsFiniteSet(0 .. Nowhere)
    BY <2>1, FS_Interval
  <2> HIDE DEF R
  <2> QED
    BY <2>1, <2>2, FS_Subset
<1>2. IsFiniteSet(I) /\ I # {}
  BY <1>1, FS_AddElement, FS_Singleton, FS_Union
<1>3. Nowhere \in Nat /\ I \in SUBSET Int /\ I \in SUBSET (0 .. Nowhere)
  BY ImpConstants
<1>4. \A m : m \in I <=> m = Nowhere \/ \E i \in those : m = row[i]
  OBVIOUS
<1>5. Least(row, those) = Min(I)
  BY DEF Least
<1> HIDE DEF I, R
<1>6. Min(I) \in I /\ \A i \in I : Min(I) <= i
  BY <1>2, <1>3, MinOf
<1>7. PICK m : m = Least(row, those)
  OBVIOUS
<1>8. m \in I /\ m \in 0 .. Nowhere /\ \A i \in those : m <= row[i]
  BY <1>3, <1>4, <1>5, <1>6, <1>7
<1>9. those # {} => \E i \in those : row[i] = m
  <2>1. CASE m = Nowhere
    BY <1>3, <1>8, <2>1
  <2>2. CASE m # Nowhere
    BY <1>4, <1>8, <2>2
  <2> QED
    BY <2>1, <2>2
<1>10. ASSUME NEW d \in Nat, d < Nowhere PROVE m > d <=> \A i \in those : row[i] > d
  <2>1. ASSUME m > d, NEW i \in those PROVE row[i] > d
    BY <1>3, <1>8, <1>10, <2>1
  <2>2. ASSUME \A i \in those : row[i] > d PROVE m > d
    BY <1>3, <1>4, <1>8, <1>10, <2>2
  <2> QED
    BY <2>1, <2>2
<1> QED
  BY <1>7, <1>8, <1>9, <1>10

\* The first of those that are least is one of them.
LEMMA FirstOfOf ==
  ASSUME NEW those \in SUBSET Nat, IsFiniteSet(those), those # {}, NEW row, \A i \in those : row[i] \in 0 .. Nowhere
  PROVE  FirstOf(row, those) \in those /\ row[FirstOf(row, those)] = Least(row, those)
<1> DEFINE I == {i \in those : row[i] = Least(row, those)}
<1>1. \E i \in those : row[i] = Least(row, those)
  BY LeastOf
<1>2. I \in SUBSET those /\ I \in SUBSET Int /\ I # {}
  <2>0. those \subseteq Int
    OBVIOUS
  <2>1. I \subseteq those
    OBVIOUS
  <2>2. PICK i \in those : row[i] = Least(row, those)
    BY <1>1
  <2>3. i \in I
    BY <2>2
  <2> HIDE DEF I
  <2> QED
    BY <2>0, <2>1, <2>3
<1>5. FirstOf(row, those) = Min(I)
  BY DEF FirstOf
<1>3. IsFiniteSet(I)
  <2> HIDE DEF I
  <2> QED
    BY <1>2, FS_Subset
<1>4. Min(I) \in I
  <2> HIDE DEF I
  <2> QED
    BY <1>2, <1>3, MinOf
<1> QED
  BY <1>2, <1>4, <1>5

\* Whichever two the index brings, an office that is least of all is taken.
LEMMA NearestIsLeast ==
  ASSUME NEW row \in [Offices -> 0 .. Nowhere], NEW those \in SUBSET Offices, those # {}, NEW n \in NearestOffice(row, those)
  PROVE  n \in those /\ row[n] = Least(row, those)
<1>0. IsFiniteSet(those)
  BY ImpConstants, FS_Subset
<1>1. PICK two \in SUBSET those : /\ Cardinality(two) = Min({2, Cardinality(those)})
                                  /\ \A f \in two, g \in those \ two : row[f] <= row[g]
                                  /\ n = FirstOf(row, two)
  BY DEF NearestOffice
<1>2. Cardinality(those) \in Nat /\ Cardinality(those) # 0
  BY <1>0, FS_CardinalityType, FS_EmptySet
<1>3. Min({2, Cardinality(those)}) # 0
  <2>1. PICK c \in Nat : c = Cardinality(those) /\ c # 0
    BY <1>2
  <2>2. Min({2, c}) = IF 2 <= c THEN 2 ELSE c
    BY MinOfTwo
  <2>3. Min({2, c}) # 0
    BY <2>1, <2>2
  <2> QED
    BY <2>1, <2>3
<1>4. two # {} /\ IsFiniteSet(two) /\ two \in SUBSET Nat /\ \A i \in two : row[i] \in 0 .. Nowhere
  BY <1>0, <1>1, <1>3, ImpConstants, FS_EmptySet, FS_Subset
<1>5. n \in two /\ row[n] = Least(row, two) /\ \A i \in two : Least(row, two) <= row[i]
  BY <1>1, <1>4, FirstOfOf, LeastOf
<1>6. \A i \in those : row[n] <= row[i]
  BY <1>1, <1>5
<1>7. /\ \A i \in those : Least(row, those) <= row[i]
      /\ \E i \in those : row[i] = Least(row, those)
      /\ Least(row, those) \in 0 .. Nowhere
  BY <1>0, LeastOf
<1>8. n \in those /\ row[n] \in 0 .. Nowhere
  BY <1>1, <1>5
<1>9. row[n] <= Least(row, those) /\ Least(row, those) <= row[n]
  BY <1>6, <1>7, <1>8
<1>10. Nowhere \in Nat
  BY ImpConstants
<1> QED
  BY <1>7, <1>8, <1>9, <1>10

\* What the sum of f over the finite subsets of S satisfies, as one fact.
Additive(f, S) ==
  /\ SumOver(f, {}) = 0
  /\ \A s \in SUBSET S : SumOver(f, s) \in Nat
  /\ \A s, t \in SUBSET S : s \cap t = {} => SumOver(f, s \cup t) = SumOver(f, s) + SumOver(f, t)
LEMMA SumsAdd ==
  ASSUME NEW S, IsFiniteSet(S), NEW f, \A x \in S : f[x] \in Nat
  PROVE  Additive(f, S)
<1>1. SumOver(f, {}) = 0
  BY Sums
<1>2. \A s \in SUBSET S : SumOver(f, s) \in Nat
  BY Sums
<1>3. \A s, t \in SUBSET S : s \cap t = {} => SumOver(f, s \cup t) = SumOver(f, s) + SumOver(f, t)
  BY Sums
<1> QED
  BY <1>1, <1>2, <1>3 DEF Additive

\* Sums over people.
LEMMA PeopleSums ==
  /\ PeopleOf({}) = 0
  /\ \A s \in SUBSET Blocks : PeopleOf(s) \in Nat
  /\ \A s, t \in SUBSET Blocks : s \cap t = {} => PeopleOf(s \cup t) = PeopleOf(s) + PeopleOf(t)
<1>1. \A s : PeopleOf(s) = SumOver(People, s)
  BY DEF PeopleOf, SumOver
<1>2. IsFiniteSet(Blocks) /\ \A b \in Blocks : People[b] \in Nat
  BY ImpConstants
<1>7. Additive(People, Blocks)
  BY <1>2, SumsAdd
<1>3. /\ SumOver(People, {}) = 0
      /\ \A s \in SUBSET Blocks : SumOver(People, s) \in Nat
      /\ \A s, t \in SUBSET Blocks : s \cap t = {} => SumOver(People, s \cup t) = SumOver(People, s) + SumOver(People, t)
  BY <1>7 DEF Additive
<1>4. ASSUME NEW s \in SUBSET Blocks, NEW t \in SUBSET Blocks, s \cap t = {}
      PROVE  PeopleOf(s \cup t) = PeopleOf(s) + PeopleOf(t)
  <2>1. PICK u : u = s \cup t
    OBVIOUS
  <2>2. SumOver(People, u) = SumOver(People, s) + SumOver(People, t)
    BY <1>3, <1>4, <2>1
  <2>3. PeopleOf(u) = PeopleOf(s) + PeopleOf(t)
    BY <1>1, <2>2
  <2> QED
    BY <2>1, <2>3
<1>5. PeopleOf({}) = 0
  BY <1>1, <1>3
<1>6. \A s \in SUBSET Blocks : PeopleOf(s) \in Nat
  BY <1>1, <1>3
<1> QED
  BY <1>4, <1>5, <1>6

\* Of more blocks are more people, and no more than of both of what they are among.
LEMMA PeopleLess ==
  ASSUME NEW s \in SUBSET Blocks, NEW t \in SUBSET Blocks, NEW e \in SUBSET Blocks, s \subseteq t \cup e
  PROVE  PeopleOf(s) <= PeopleOf(t) + PeopleOf(e)
<1> DEFINE u == s \cap t
           v == s \ t
           w == t \ s
           z == e \ v
<1>1. /\ u \in SUBSET Blocks /\ v \in SUBSET Blocks /\ w \in SUBSET Blocks /\ z \in SUBSET Blocks
      /\ s = u \cup v /\ t = u \cup w /\ e = v \cup z /\ u \cap v = {} /\ u \cap w = {} /\ v \cap z = {}
  OBVIOUS
<1> HIDE DEF u, v, w, z
<1>2. PeopleOf(u) \in Nat /\ PeopleOf(v) \in Nat /\ PeopleOf(w) \in Nat /\ PeopleOf(z) \in Nat
  BY <1>1, PeopleSums
<1>3. PeopleOf(s) = PeopleOf(u) + PeopleOf(v)
  BY <1>1, PeopleSums
<1>4. PeopleOf(t) = PeopleOf(u) + PeopleOf(w)
  BY <1>1, PeopleSums
<1>5. PeopleOf(e) = PeopleOf(v) + PeopleOf(z)
  BY <1>1, PeopleSums
<1> QED
  BY <1>2, <1>3, <1>4, <1>5
\* So of blocks among others, and with none besides.
LEMMA PeopleAmong ==
  ASSUME NEW t \in SUBSET Blocks, NEW s \in SUBSET t
  PROVE  PeopleOf(s) <= PeopleOf(t)
<1>1. s \in SUBSET Blocks /\ s \subseteq t \cup {} /\ {} \in SUBSET Blocks
  OBVIOUS
<1>2. PeopleOf(s) <= PeopleOf(t) + PeopleOf({})
  BY <1>1, PeopleLess
<1> QED
  BY <1>2, PeopleSums

LEMMA EitherAbove ==
  ASSUME NEW L \in Nat, NEW D \in Nat, NEW x, NEW A, NEW d \in Nat
  PROVE  Min({L} \cup (IF x \in A THEN {D} ELSE {})) > d <=> L > d /\ (x \in A => D > d)
<1>1. Min({L, D}) = IF L <= D THEN L ELSE D
  BY MinOfTwo
<1>2. Min({L, L}) = L
  BY MinOfTwo
<1>3. x \in A => {L} \cup (IF x \in A THEN {D} ELSE {}) = {L, D}
  OBVIOUS
<1>4. x \notin A => {L} \cup (IF x \in A THEN {D} ELSE {}) = {L, L}
  OBVIOUS
<1>5. PICK m : m = Min({L} \cup (IF x \in A THEN {D} ELSE {}))
  OBVIOUS
<1>6. (x \in A => m = IF L <= D THEN L ELSE D) /\ (x \notin A => m = L)
  BY <1>1, <1>2, <1>3, <1>4, <1>5
<1>7. m > d <=> L > d /\ (x \in A => D > d)
  BY <1>6
<1> QED
  BY <1>5, <1>7

\* What alone is near is the first.
LEMMA AloneIsFirst ==
  ASSUME NEW those \in SUBSET Nat, IsFiniteSet(those), NEW row, \A i \in those : row[i] \in 0 .. Nowhere,
         NEW x \in those, NEW d \in Nat, row[x] <= d, \A y \in those \ {x} : row[y] > d
  PROVE  FirstOf(row, those) = x
<1>1. PICK f \in those : f = FirstOf(row, those) /\ row[f] = Least(row, those)
  BY FirstOfOf
<1>2. Least(row, those) <= row[x]
  BY LeastOf
<1>3. Nowhere \in Nat
  BY ImpConstants
<1>4. ~(row[f] > d)
  BY <1>1, <1>2, <1>3
<1> QED
  BY <1>1, <1>4

LEMMA NearestHave ==
  ASSUME NearMade, NEW b \in Blocks
  PROVE  /\ near[b] \in ground.offices /\ ground.post[b][near[b]] = Least(ground.post[b], ground.offices)
         /\ DistM(b) \in Nat /\ (DistM(b) > TwoKm <=> \A o \in ground.offices : ground.post[b][o] > TwoKm + Slack)
         /\ ground.post[b] \in [Offices -> 0 .. Nowhere] /\ ground.bank[b] \in [Branches -> 0 .. Nowhere]
<1>1. /\ ground.post[b] \in [Offices -> 0 .. Nowhere] /\ ground.bank[b] \in [Branches -> 0 .. Nowhere]
      /\ ground.offices \in SUBSET Offices /\ ground.offices # {}
  BY DEF Table, NearMade
<1>2. near[b] \in ground.offices /\ ground.post[b][near[b]] = Least(ground.post[b], ground.offices)
  BY <1>1, NearestIsLeast DEF NearMade
<1>3. IsFiniteSet(ground.offices) /\ \A o \in ground.offices : ground.post[b][o] \in 0 .. Nowhere
  BY <1>1, ImpConstants, FS_Subset
<1>4. PICK d \in 0 .. Nowhere : /\ d = Least(ground.post[b], ground.offices)
                                /\ d > TwoKm + Slack <=> \A o \in ground.offices : ground.post[b][o] > TwoKm + Slack
  BY <1>3, LeastOf, Limits10
<1>5. DistM(b) = Rounded(Least(ground.post[b], ground.offices))
  BY <1>2, Zenon DEF DistM
<1>6. Least(ground.post[b], ground.offices) \in Nat
  BY <1>4, ImpConstants
<1>7. /\ Rounded(Least(ground.post[b], ground.offices)) \in Nat
      /\ Rounded(Least(ground.post[b], ground.offices)) > TwoKm <=> Least(ground.post[b], ground.offices) > TwoKm + Slack
  BY <1>6, RoundedAbove, Limits10, ImpConstants
<1> QED
  BY <1>1, <1>2, <1>4, <1>5, <1>7

\* A block loses the branch it has within d and nothing else that would do.
LEMMA ByCar ==
  ASSUME NearMade, NEW x \in Assessed
  PROVE  /\ PeopleOf(LosesByCar(x)) <= HasOnly(ground, x, TwoKm)
         /\ HasOnly(ground, x, TwoKm) <= PeopleOf(LosesByCar(x)) + (IF x \in Agents THEN Edge ELSE 0)
<1> DEFINE One(b) == /\ ground.bank[b][x] <= TwoKm
                     /\ \A y \in Assessed \ {x} : ground.bank[b][y] > TwoKm
                     /\ x \in Agents => \A o \in ground.offices : ground.post[b][o] > TwoKm
           Loses(b) == B1(b) = x /\ ground.bank[b][x] <= TwoKm /\ Alt(b, x) > TwoKm
<1>1. ASSUME NEW b \in Blocks
      PROVE  /\ Loses(b) => One(b)
             /\ One(b) => Loses(b) \/ (x \in Agents /\ AtEdge(b))
  <2> DEFINE rest == Assessed \ {x}
  <2>1. PICK row \in [Branches -> 0 .. Nowhere], post \in [Offices -> 0 .. Nowhere] :
          row = ground.bank[b] /\ post = ground.post[b]
    BY DEF Table, NearMade
  <2>2. DistM(b) \in Nat /\ (DistM(b) > TwoKm <=> \A o \in ground.offices : post[o] > TwoKm + Slack)
    BY <2>1, NearestHave
  <2>3. /\ IsFiniteSet(Assessed) /\ Assessed \in SUBSET Nat /\ Assessed # {}
        /\ TwoKm \in Nat /\ Nowhere \in Nat /\ TwoKm < Nowhere /\ Assessed \subseteq Branches
    BY ImpConstants
  <2>4. IsFiniteSet(rest) /\ rest \subseteq Branches
    BY <2>3, FS_RemoveElement
  <2> HIDE DEF rest
  <2>5. Least(row, rest) \in Nat /\ (Least(row, rest) > TwoKm <=> \A y \in rest : row[y] > TwoKm)
    <3>1. \A i \in rest : row[i] \in 0 .. Nowhere
      BY <2>4
    <3>2. /\ Least(row, rest) \in 0 .. Nowhere
          /\ \A d \in Nat : d < Nowhere => (Least(row, rest) > d <=> \A i \in rest : row[i] > d)
      BY <2>4, <3>1, LeastOf
    <3> QED
      BY <2>3, <3>2
  <2>6. /\ DistM(b) > TwoKm => \A o \in ground.offices : post[o] > TwoKm
        /\ (\A o \in ground.offices : post[o] > TwoKm) => DistM(b) > TwoKm \/ AtEdge(b)
    <3>1. ground.offices \subseteq Offices
      BY DEF NearMade, Table
    <3>2. \A o \in ground.offices : post[o] \in Nat
      BY <2>3, <3>1
    <3>3. ASSUME DistM(b) > TwoKm, NEW o \in ground.offices PROVE post[o] > TwoKm
      BY <2>2, <2>3, <3>2, <3>3 DEF Slack
    <3>4. ASSUME \A o \in ground.offices : post[o] > TwoKm, ~(DistM(b) > TwoKm) PROVE AtEdge(b)
      <4>1. PICK o \in ground.offices : ~(post[o] > TwoKm + Slack)
        BY <2>2, <3>4
      <4>2. post[o] \in TwoKm + 1 .. TwoKm + Slack
        BY <2>3, <3>2, <3>4, <4>1 DEF Slack
      <4> QED
        BY <2>1, <4>2 DEF AtEdge
    <3> QED
      BY <3>3, <3>4
  <2>7. Alt(b, x) > TwoKm <=> Least(row, rest) > TwoKm /\ (x \in Agents => DistM(b) > TwoKm)
    <3>4. PICK L \in Nat : L = Least(row, rest)
      BY <2>5
    <3>5. PICK D \in Nat : D = DistM(b)
      BY <2>2
    <3>2. Alt(b, x) = Min({L} \cup (IF x \in Agents THEN {D} ELSE {}))
      BY <2>1, <3>4, <3>5 DEF Alt, rest
    <3>3. Min({L} \cup (IF x \in Agents THEN {D} ELSE {})) > TwoKm <=> L > TwoKm /\ (x \in Agents => D > TwoKm)
      BY <2>3, EitherAbove
    <3> QED
      BY <3>2, <3>3, <3>4, <3>5
  <2>8. row[x] <= TwoKm /\ (\A y \in rest : row[y] > TwoKm) => B1(b) = x
    <3>1. \A i \in Assessed : row[i] \in 0 .. Nowhere
      BY <2>3
    <3> QED
      BY <2>1, <2>3, <3>1, AloneIsFirst DEF B1, rest
  <2> QED
    BY <2>1, <2>5, <2>6, <2>7, <2>8 DEF rest
<1> DEFINE Ones == {b \in Blocks : One(b)}
           Edges == {b \in Blocks : AtEdge(b)}
<1>2. /\ LosesByCar(x) \in SUBSET Blocks /\ Ones \in SUBSET Blocks /\ Edges \in SUBSET Blocks
      /\ LosesByCar(x) \subseteq Ones
      /\ x \in Agents => Ones \subseteq LosesByCar(x) \cup Edges
      /\ x \notin Agents => Ones \subseteq LosesByCar(x)
  BY <1>1 DEF LosesByCar
<1>3. HasOnly(ground, x, TwoKm) = PeopleOf(Ones) /\ Edge = PeopleOf(Edges)
  BY DEF HasOnly, Edge, AtEdge
<1> HIDE DEF Ones, Edges
<1>4. PeopleOf(LosesByCar(x)) <= PeopleOf(Ones)
  BY <1>2, PeopleAmong
<1>5. x \in Agents => PeopleOf(Ones) <= PeopleOf(LosesByCar(x)) + PeopleOf(Edges)
  BY <1>2, PeopleLess
<1>6. x \notin Agents => PeopleOf(Ones) <= PeopleOf(LosesByCar(x)) + 0
  <2>1. PeopleOf(LosesByCar(x)) \in Nat
    BY <1>2, PeopleSums
  <2> QED
    BY <1>2, <2>1, PeopleAmong
<1> QED
  BY <1>3, <1>4, <1>5, <1>6

\* What is not in reach is further off than a walk.
LEMMA ReachAbove ==
  ASSUME NEW those, IsFiniteSet(those), NEW row, \A i \in those : row[i] \in 0 .. Nowhere, NEW less \in SUBSET those
  PROVE  /\ InReach(row, those) \subseteq those /\ IsFiniteSet(InReach(row, those)) /\ IsFiniteSet(InReach(row, those) \cap less)
         /\ Least(row, InReach(row, those) \cap less) \in Nat
         /\ Least(row, InReach(row, those) \cap less) > Walk30 + Slack <=> \A i \in less : row[i] > Walk30 + Slack
<1> DEFINE N == InReach(row, those)
           M == N \cap less
<1>1. \A i : i \in N <=> i \in those /\ row[i] <= Reach
  BY DEF InReach
<1>2. N \in SUBSET those
  BY <1>1
<1>3. \A i : i \in M <=> i \in less /\ row[i] <= Reach
  BY <1>1
<1>4. M \in SUBSET those /\ \A i \in M : row[i] \in 0 .. Nowhere
  BY <1>1
<1> HIDE DEF N, M
<1>5. IsFiniteSet(N) /\ IsFiniteSet(M)
  BY <1>2, <1>4, FS_Subset
<1>6. /\ Least(row, M) \in 0 .. Nowhere
      /\ \A d \in Nat : d < Nowhere => (Least(row, M) > d <=> \A i \in M : row[i] > d)
  BY <1>4, <1>5, LeastOf
<1>7. Walk30 + Slack \in Nat /\ Reach \in Nat /\ Nowhere \in Nat /\ Walk30 + Slack < Reach /\ Reach < Nowhere
  BY ImpConstants, Limits10
<1>8. Least(row, M) \in Nat /\ (Least(row, M) > Walk30 + Slack <=> \A i \in M : row[i] > Walk30 + Slack)
  BY <1>6, <1>7
<1>9. (\A i \in M : row[i] > Walk30 + Slack) <=> \A i \in less : row[i] > Walk30 + Slack
  <2>1. ASSUME NEW i \in less PROVE row[i] \in Nat /\ (i \notin M => row[i] > Walk30 + Slack)
    <3>1. row[i] \in 0 .. Nowhere
      OBVIOUS
    <3>2. row[i] \in Nat
      BY <1>7, <3>1
    <3> QED
      BY <1>3, <1>7, <3>2
  <2> QED
    BY <1>3, <2>1
<1> QED
  BY <1>2, <1>5, <1>8, <1>9 DEF N, M

\* The same on foot, by any graph.
LEMMA OnFoot ==
  ASSUME NEW g \in Table, NEW x \in Assessed
  PROVE  PeopleOf(LosesOnFoot(g, x)) = HasOnly(g, x, Walk30 + Slack) /\ PeopleOf(LosesOnFoot(g, x)) \in Nat
<1> DEFINE One(b) == /\ g.bank[b][x] <= Walk30 + Slack
                     /\ \A y \in Assessed \ {x} : g.bank[b][y] > Walk30 + Slack
                     /\ x \in Agents => \A o \in g.offices : g.post[b][o] > Walk30 + Slack
<1>1. ASSUME NEW b \in Blocks
      PROVE  b \in WalkCatch(g, x) /\ Rounded(g.bank[b][x]) <= Walk30 /\ WalkAlt(g, b, x) > Walk30 <=> One(b)
  <2> DEFINE rest == Assessed \ {x}
             N == InReach(g.bank[b], Assessed)
             P == InReach(g.post[b], g.offices)
  <2>1. PICK row \in [Branches -> 0 .. Nowhere], post \in [Offices -> 0 .. Nowhere] :
          row = g.bank[b] /\ post = g.post[b]
    BY DEF Table
  <2> DEFINE seen == g.offices
  <2>2. /\ IsFiniteSet(Assessed) /\ seen \in SUBSET Offices /\ IsFiniteSet(seen) /\ Assessed \in SUBSET Nat
        /\ Walk30 \in Nat /\ Reach \in Nat /\ Nowhere \in Nat /\ Walk30 + Slack \in Nat /\ Walk30 + Slack < Reach
        /\ Assessed \subseteq Branches
    <3>1. seen \in SUBSET Offices
      BY DEF Table
    <3> HIDE DEF seen
    <3> QED
      BY <3>1, ImpConstants, Limits10, FS_Subset
  <2> HIDE DEF seen
  <2>3. (\A i \in Assessed : row[i] \in 0 .. Nowhere) /\ (\A o \in seen : post[o] \in 0 .. Nowhere)
    BY <2>2
  <2>10. Rounded(row[x]) <= Walk30 <=> row[x] <= Walk30 + Slack
    <3>1. row[x] \in Nat
      BY <2>2, <2>3
    <3> QED
      BY <2>2, <3>1, RoundedAbove, Limits10
  <2>4. /\ N \subseteq Assessed /\ IsFiniteSet(N) /\ Least(row, N \cap rest) \in Nat
        /\ Least(row, N \cap rest) > Walk30 + Slack <=> \A y \in rest : row[y] > Walk30 + Slack
    <3>1. rest \in SUBSET Assessed /\ N = InReach(row, Assessed)
      BY <2>1
    <3> HIDE DEF rest, N
    <3>2. LET M == InReach(row, Assessed)
          IN  /\ M \subseteq Assessed /\ IsFiniteSet(M) /\ Least(row, M \cap rest) \in Nat
              /\ Least(row, M \cap rest) > Walk30 + Slack <=> \A y \in rest : row[y] > Walk30 + Slack
      BY <2>2, <2>3, <3>1, ReachAbove
    <3> QED
      BY <3>1, <3>2
  <2>5. /\ P \subseteq seen /\ Least(post, P \cap seen) \in Nat
        /\ Least(post, P \cap seen) > Walk30 + Slack <=> \A o \in seen : post[o] > Walk30 + Slack
    <3>1. P = InReach(post, seen)
      BY <2>1 DEF seen
    <3> HIDE DEF P
    <3>2. LET M == InReach(post, seen)
          IN  /\ M \subseteq seen /\ Least(post, M \cap seen) \in Nat
              /\ Least(post, M \cap seen) > Walk30 + Slack <=> \A y \in seen : post[y] > Walk30 + Slack
      BY <2>2, <2>3, ReachAbove
    <3> QED
      BY <3>1, <3>2
  <2>6. N \cap rest = N \ {x} /\ P \cap seen = P
    BY <2>4, <2>5
  <2>7. x \in N <=> row[x] <= Reach
    BY <2>1 DEF InReach
  <2>8. WalkAlt(g, b, x) > Walk30
          <=> Least(row, N \ {x}) > Walk30 + Slack /\ (x \in Agents => Least(post, P) > Walk30 + Slack)
    <3>6. Least(row, N \ {x}) \in Nat /\ Least(post, P) \in Nat
      BY <2>4, <2>5, <2>6
    <3> HIDE DEF N, P
    <3>7. /\ Rounded(Least(row, N \ {x})) \in Nat
          /\ Rounded(Least(row, N \ {x})) > Walk30 <=> Least(row, N \ {x}) > Walk30 + Slack
      BY <2>2, <3>6, RoundedAbove, Limits10
    <3>8. /\ Rounded(Least(post, P)) \in Nat
          /\ Rounded(Least(post, P)) > Walk30 <=> Least(post, P) > Walk30 + Slack
      BY <2>2, <3>6, RoundedAbove, Limits10
    <3>1. PICK L \in Nat : L = Rounded(Least(row, N \ {x})) /\ (L > Walk30 <=> Least(row, N \ {x}) > Walk30 + Slack)
      BY <3>7
    <3>2. PICK D \in Nat : D = Rounded(Least(post, P)) /\ (D > Walk30 <=> Least(post, P) > Walk30 + Slack)
      BY <3>8
    <3>3. WalkAlt(g, b, x) = Min({L} \cup (IF x \in Agents THEN {D} ELSE {}))
      BY <2>1, <3>1, <3>2 DEF WalkAlt, N, P
    <3>5. Walk30 \in Nat
      BY <2>2
    <3>4. Min({L} \cup (IF x \in Agents THEN {D} ELSE {})) > Walk30 <=> L > Walk30 /\ (x \in Agents => D > Walk30)
      BY ONLY <3>5, L \in Nat, D \in Nat, EitherAbove
    <3> QED
      BY <3>1, <3>2, <3>3, <3>4
  <2>9. row[x] <= Walk30 + Slack /\ (\A y \in rest : row[y] > Walk30 + Slack) => b \in WalkCatch(g, x)
    <3> SUFFICES ASSUME row[x] <= Walk30 + Slack, \A y \in rest : row[y] > Walk30 + Slack PROVE N # {} /\ FirstOf(row, N) = x
      BY <2>1 DEF WalkCatch
    <3>1. row[x] \in 0 .. Nowhere
      BY <2>3
    <3>2. x \in N
      BY <2>2, <2>7, <3>1
    <3>3. (\A i \in N : row[i] \in 0 .. Nowhere) /\ N \in SUBSET Nat /\ \A y \in N \ {x} : row[y] > Walk30 + Slack
      BY <2>2, <2>3, <2>4
    <3> HIDE DEF N
    <3> QED
      BY <2>2, <2>4, <3>2, <3>3, AloneIsFirst
  <2> HIDE DEF N, P
  <2> QED
    BY <2>1, <2>4, <2>5, <2>6, <2>8, <2>9, <2>10 DEF rest, seen
<1>2. LosesOnFoot(g, x) = {b \in Blocks : One(b)}
  BY <1>1 DEF LosesOnFoot, WalkCatch
<1>3. HasOnly(g, x, Walk30 + Slack) = PeopleOf({b \in Blocks : One(b)})
  BY DEF HasOnly
<1>4. LosesOnFoot(g, x) \in SUBSET Blocks
  BY DEF LosesOnFoot, WalkCatch
<1> QED
  BY <1>2, <1>3, <1>4, PeopleSums

\* What the columns of walk say is what the blocks add up to, none that none lose.
LEMMA LostOnFoot ==
  ASSUME NEW g, NEW x
  PROVE  WalkLost(g, x) = PeopleOf(LosesOnFoot(g, x))
<1>1. WalkCatch(g, x) = {} => LosesOnFoot(g, x) = {}
  BY DEF LosesOnFoot
<1> QED
  BY <1>1, PeopleSums DEF WalkLost, LosesOnFoot, EmptiedFrom

LEMMA Metrics ==
  ASSUME NEW g \in Table
  PROVE  LET NoneIn(b, row, those) == \A i \in those : row[b][i] > Walk30 + Slack
         IN  WalkMetrics(g) =
               <<PeopleOf({b \in Blocks : NoneIn(b, g.post, g.offices)}),
                 PeopleOf({b \in Blocks : NoneIn(b, g.post, g.offices) /\ NoneIn(b, g.bank, Assessed)})>>
<1>1. ASSUME NEW those, IsFiniteSet(those), NEW row, \A i \in those : row[i] \in 0 .. Nowhere
      PROVE  /\ Min({Reach} \cup {Rounded(row[i]) : i \in InReach(row, those)}) \in Nat
             /\ Min({Reach} \cup {Rounded(row[i]) : i \in InReach(row, those)}) > Walk30
                  <=> \A i \in those : row[i] > Walk30 + Slack
  <2> DEFINE R == {Rounded(row[i]) : i \in InReach(row, those)}
             I == {Reach} \cup R
  <2>1. Reach \in Nat /\ Walk30 \in Nat /\ Nowhere \in Nat /\ Walk30 < Reach /\ Walk30 + Slack < Reach
    BY ImpConstants, Limits10
  <2>2. \A i \in those : row[i] \in Nat
    BY <1>1, <2>1
  <2>9. \A i \in those : /\ Rounded(row[i]) \in Nat /\ (Rounded(row[i]) > Walk30 <=> row[i] > Walk30 + Slack)
                         /\ row[i] <= Reach => Rounded(row[i]) <= Reach
    <3>1. ASSUME NEW i \in those, row[i] <= Reach PROVE row[i] <= Reach + Slack
      BY <2>1, <2>2, <3>1 DEF Slack
    <3>2. Reach % 10 = 0
      BY ImpactsAssumption
    <3> QED
      BY <2>1, <2>2, <3>1, <3>2, RoundedAbove, Limits10
  <2>3. \A m : m \in I <=> m = Reach \/ \E i \in those : row[i] <= Reach /\ m = Rounded(row[i])
    BY DEF InReach
  <2> HIDE DEF R, I
  <2>4. I \in SUBSET (0 .. Reach) /\ I \in SUBSET Int /\ I # {}
    BY <2>1, <2>3, <2>9
  <2>5. IsFiniteSet(I)
    <3>1. IsFiniteSet(0 .. Reach)
      BY <2>1, FS_Interval
    <3> QED
      BY <2>4, <3>1, FS_Subset
  <2>6. Min(I) \in I /\ \A i \in I : Min(I) <= i
    BY <2>4, <2>5, MinOf
  <2>7. Min(I) \in Nat
    <3>1. PICK m : m = Min(I)
      OBVIOUS
    <3>2. m \in 0 .. Reach
      BY <2>4, <2>6, <3>1
    <3> QED
      BY <2>1, <3>1, <3>2
  <2>8. Min(I) > Walk30 <=> \A i \in those : row[i] > Walk30 + Slack
    <3>1. ASSUME Min(I) > Walk30, NEW i \in those PROVE row[i] > Walk30 + Slack
      <4>1. CASE row[i] <= Reach
        <5>1. Min(I) <= Rounded(row[i])
          BY <2>3, <2>6, <4>1
        <5>2. Rounded(row[i]) > Walk30
          BY <2>1, <2>7, <2>9, <3>1, <5>1
        <5> QED
          BY <2>9, <5>2
      <4>2. CASE row[i] > Reach
        BY <2>1, <2>2, <4>2, Limits10
      <4> QED
        BY <2>1, <2>2, <4>1, <4>2
    <3> QED
      BY <2>1, <2>3, <2>6, <2>9, <3>1
  <2> QED
    BY <2>7, <2>8 DEF I, R
<1>2. /\ IsFiniteSet(Assessed) /\ g.offices \in SUBSET Offices /\ IsFiniteSet(g.offices)
      /\ Walk30 \in Nat /\ Assessed \subseteq Branches
  <2>1. g.offices \in SUBSET Offices
    BY DEF Table
  <2> QED
    BY <2>1, ImpConstants, FS_Subset
<1> DEFINE None(b, row, those) == \A i \in those : row[b][i] > Walk30 + Slack
<1>3. ASSUME NEW b \in Blocks
      PROVE  /\ PostOnFoot(g, b) > Walk30 <=> None(b, g.post, g.offices)
             /\ Min({PostOnFoot(g, b), BankOnFoot(g, b)}) > Walk30 <=> None(b, g.post, g.offices) /\ None(b, g.bank, Assessed)
  <2>1. (\A i \in g.offices : g.post[b][i] \in 0 .. Nowhere) /\ (\A x \in Assessed : g.bank[b][x] \in 0 .. Nowhere)
    BY <1>2 DEF Table
  <2>2. PICK p \in Nat : p = PostOnFoot(g, b) /\ (p > Walk30 <=> None(b, g.post, g.offices))
    <3>1. PICK p \in Nat : /\ p = Min({Reach} \cup {Rounded(g.post[b][i]) : i \in InReach(g.post[b], g.offices)})
                           /\ p > Walk30 <=> \A i \in g.offices : g.post[b][i] > Walk30 + Slack
      BY <1>1, <1>2, <2>1
    <3> QED
      BY <3>1 DEF PostOnFoot
  <2>3. PICK q \in Nat : q = BankOnFoot(g, b) /\ (q > Walk30 <=> None(b, g.bank, Assessed))
    <3>1. PICK q \in Nat : /\ q = Min({Reach} \cup {Rounded(g.bank[b][i]) : i \in InReach(g.bank[b], Assessed)})
                           /\ q > Walk30 <=> \A i \in Assessed : g.bank[b][i] > Walk30 + Slack
      BY <1>1, <1>2, <2>1
    <3> QED
      BY <3>1 DEF BankOnFoot
  <2>4. Min({p, q}) = IF p <= q THEN p ELSE q
    BY MinOfTwo
  <2>5. Min({p, q}) > Walk30 <=> p > Walk30 /\ q > Walk30
    BY <1>2, <2>4
  <2> QED
    BY <2>2, <2>3, <2>5
<1>4. {b \in Blocks : PostOnFoot(g, b) > Walk30} = {b \in Blocks : None(b, g.post, g.offices)}
  BY <1>3
<1>5. {b \in Blocks : Min({PostOnFoot(g, b), BankOnFoot(g, b)}) > Walk30}
        = {b \in Blocks : None(b, g.post, g.offices) /\ None(b, g.bank, Assessed)}
  BY <1>3
<1> QED
  BY <1>4, <1>5 DEF WalkMetrics

-----------------------------------------------------------------------------
\* What the least of some of the offices says.
LEMMA LeastPost ==
  ASSUME NearMade, NEW b \in Blocks, NEW those \in SUBSET Offices, NEW d \in Nat, d < Nowhere
  PROVE  /\ Least(ground.post[b], those) \in Nat
         /\ Least(ground.post[b], those) > d <=> \A o \in those : ground.post[b][o] > d
<1>1. ground.post[b] \in [Offices -> 0 .. Nowhere]
  BY DEF NearMade, Table
<1>2. IsFiniteSet(those) /\ \A o \in those : ground.post[b][o] \in 0 .. Nowhere
  BY <1>1, ImpConstants, FS_Subset
<1>3. Nowhere \in Nat
  BY ImpConstants
<1> QED
  BY <1>2, <1>3, LeastOf

\* A block newly out is far without what closes, and was not, unless its nearest
\* is at the edge; where no office of calc has gone, a block that gets far had
\* its nearest among those that close.
LEMMA ClosedFar ==
  ASSUME NearMade, onRecord \in SUBSET Offices, NEW b \in Blocks, NEW those \in SUBSET onRecord
  PROVE  /\ NewlyOut(b, those) => b \in FarFrom(onRecord \ those) /\ (b \notin FarFrom(ground.offices) \/ AtEdge(b))
         /\ ground.offices \subseteq onRecord /\ b \in FarFrom(onRecord \ those) \ FarFrom(ground.offices)
              => NewlyOut(b, those) /\ near[b] \in those
<1> DEFINE post == ground.post[b]
           G == ground.offices
<1>1. /\ near[b] \in G /\ DistM(b) \in Nat /\ (DistM(b) > TwoKm <=> \A o \in G : post[o] > TwoKm + Slack)
      /\ G \in SUBSET Offices /\ \A o \in Offices : post[o] \in 0 .. Nowhere
  BY NearestHave DEF NearMade, Table
<1>2. post[near[b]] = Least(post, G)
  BY NearestHave
<1>3. TwoKm \in Nat /\ TwoKm < Nowhere /\ Nowhere \in Nat
  BY ImpConstants
<1>4. b \in FarFrom(onRecord \ those) <=> \A o \in onRecord \ those : post[o] > TwoKm
  BY <1>3, LeastPost DEF FarFrom
<1>5. /\ b \in FarFrom(G) <=> \A o \in G : post[o] > TwoKm
      /\ b \in FarFrom(G) <=> Least(post, G) > TwoKm
  BY <1>1, <1>3, LeastPost DEF FarFrom
<1>6. NewlyOut(b, those) <=> DistM(b) <= TwoKm /\ b \in FarFrom(onRecord \ those)
  BY DEF NewlyOut, AfterM, FarFrom
<1>7. \A o \in G : post[o] \in Nat
  BY <1>1, <1>3
<1> HIDE DEF post, G
<1>8. ASSUME DistM(b) <= TwoKm, b \in FarFrom(G) PROVE AtEdge(b)
  <2>1. PICK o \in G : ~(post[o] > TwoKm + Slack)
    BY <1>1, <1>3, <1>8
  <2>2. post[o] > TwoKm /\ post[o] \in Nat
    BY <1>5, <1>7, <1>8
  <2>3. post[o] \in TwoKm + 1 .. TwoKm + Slack
    BY <1>3, <2>1, <2>2 DEF Slack
  <2> QED
    BY <2>3 DEF AtEdge, post, G
<1>9. ASSUME b \notin FarFrom(G) PROVE DistM(b) <= TwoKm
  <2>1. PICK o \in G : ~(post[o] > TwoKm)
    BY <1>5, <1>9
  <2>2. ~(post[o] > TwoKm + Slack)
    BY <1>3, <1>7, <2>1 DEF Slack
  <2> QED
    BY <1>1, <1>3, <2>2
<1>10. ASSUME G \subseteq onRecord, b \in FarFrom(onRecord \ those), b \notin FarFrom(G) PROVE near[b] \in those
  <2>1. ~(post[near[b]] > TwoKm)
    BY <1>2, <1>5, <1>10
  <2> QED
    BY <1>1, <1>4, <1>10, <2>1
<1> QED
  BY <1>6, <1>8, <1>9, <1>10 DEF G

\* What a what-if counts of some blocks, and those of them that get far.
LEMMA CountedFar ==
  ASSUME NearMade, onRecord \in SUBSET Offices, NEW those \in SUBSET onRecord, NEW kin \in SUBSET Blocks
  PROVE  LET said == PeopleOf({b \in OaRows(those) : NewlyOut(b, those) /\ b \in kin})
             is == PeopleOf((FarFrom(onRecord \ those) \ FarFrom(ground.offices)) \cap kin)
         IN  said <= is + Edge /\ (ground.offices \subseteq onRecord => is <= said)
<1> DEFINE New == {b \in OaRows(those) : NewlyOut(b, those) /\ b \in kin}
           Far == (FarFrom(onRecord \ those) \ FarFrom(ground.offices)) \cap kin
           Edges == {b \in Blocks : AtEdge(b)}
<1>1. ASSUME NEW b \in Blocks
      PROVE  /\ NewlyOut(b, those) => b \in FarFrom(onRecord \ those) /\ (b \notin FarFrom(ground.offices) \/ AtEdge(b))
             /\ ground.offices \subseteq onRecord /\ b \in FarFrom(onRecord \ those) \ FarFrom(ground.offices)
                  => NewlyOut(b, those) /\ near[b] \in those
  BY ClosedFar
<1>2. /\ New \in SUBSET Blocks /\ Far \in SUBSET Blocks /\ Edges \in SUBSET Blocks
      /\ New \subseteq Far \cup Edges
      /\ ground.offices \subseteq onRecord => Far \subseteq New
  BY <1>1 DEF OaRows
<1>3. Edge = PeopleOf(Edges)
  BY DEF Edge, AtEdge
<1> HIDE DEF New, Far, Edges
<1>4. PeopleOf(New) <= PeopleOf(Far) + PeopleOf(Edges)
  BY <1>2, PeopleLess
<1>5. ground.offices \subseteq onRecord => PeopleOf(Far) <= PeopleOf(New)
  BY <1>2, PeopleAmong
<1> QED
  BY <1>3, <1>4, <1>5 DEF New, Far

\* Of the blocks an office is the nearest of, facility_hub has those that are out
\* without it, but for the edge, unless offices came or went.
LEMMA HubFar ==
  ASSUME NearMade, onRecord \in SUBSET Offices, NEW o \in onRecord, NEW b \in Blocks, near[b] = o, DistM(b) <= TwoKm
  PROVE  /\ ground.offices \subseteq onRecord /\ AfterM(b, {o}) > TwoKm => Post2M(b) > TwoKm \/ AtEdge(b)
         /\ onRecord \subseteq ground.offices /\ Post2M(b) > TwoKm => AfterM(b, {o}) > TwoKm
<1> DEFINE post == ground.post[b]
           rest == ground.offices \ {o}
<1>1. TwoKm \in Nat /\ TwoKm < Nowhere /\ Nowhere \in Nat /\ TwoKm + Slack \in Nat /\ TwoKm + Slack < Nowhere
  BY ImpConstants, Limits10
<1>2. ground.offices \in SUBSET Offices /\ \A i \in Offices : post[i] \in 0 .. Nowhere
  BY DEF NearMade, Table
<1>3. AfterM(b, {o}) > TwoKm <=> \A i \in onRecord \ {o} : post[i] > TwoKm
  <2>1. PICK left \in SUBSET Offices : left = onRecord \ {o}
    OBVIOUS
  <2>2. AfterM(b, {o}) = Least(post, left)
    BY <2>1 DEF AfterM
  <2>3. Least(post, left) > TwoKm <=> \A i \in left : post[i] > TwoKm
    BY <1>1, LeastPost
  <2> QED
    BY <2>1, <2>2, <2>3
<1>4. Least(post, rest) \in Nat /\ (Least(post, rest) > TwoKm + Slack <=> \A i \in rest : post[i] > TwoKm + Slack)
  <2>1. rest \in SUBSET Offices
    BY <1>2
  <2> HIDE DEF rest
  <2> QED
    BY <1>1, <2>1, LeastPost
<1>5. Post2M(b) = Rounded(Least(post, rest))
  BY DEF Post2M
<1>6. \A i \in Offices : post[i] \in Nat
  BY <1>1, <1>2
<1> HIDE DEF post, rest
<1>7. Post2M(b) > TwoKm <=> \A i \in rest : post[i] > TwoKm + Slack
  BY <1>1, <1>4, <1>5, RoundedAbove, Limits10
<1>8. ASSUME ground.offices \subseteq onRecord, AfterM(b, {o}) > TwoKm, ~(Post2M(b) > TwoKm) PROVE AtEdge(b)
  <2>1. PICK i \in rest : ~(post[i] > TwoKm + Slack)
    BY <1>7, <1>8
  <2>2. i \in onRecord \ {o} /\ i \in ground.offices
    BY <1>8, <2>1 DEF rest
  <2>3. post[i] > TwoKm /\ post[i] \in Nat
    BY <1>2, <1>3, <1>6, <1>8, <2>2
  <2>4. post[i] \in TwoKm + 1 .. TwoKm + Slack
    BY <1>1, <2>1, <2>3 DEF Slack
  <2> QED
    BY <2>2, <2>4 DEF AtEdge, post
<1>9. ASSUME onRecord \subseteq ground.offices, Post2M(b) > TwoKm PROVE AfterM(b, {o}) > TwoKm
  <2>1. ASSUME NEW i \in onRecord \ {o} PROVE post[i] > TwoKm
    <3>1. i \in rest /\ i \in Offices
      BY <1>9 DEF rest
    <3>2. post[i] > TwoKm + Slack /\ post[i] \in Nat
      BY <1>6, <1>7, <1>9, <3>1
    <3> QED
      BY <1>1, <3>2 DEF Slack
  <2> QED
    BY <1>3, <2>1
<1> QED
  BY <1>8, <1>9

LEMMA OfficesDo ==
  ASSUME CalcMade, onRecord \in SUBSET Offices
  PROVE  OfficesAgree
<1> DEFINE AllKept == ground.offices \subseteq onRecord
           Gone(those) == FarFrom(onRecord \ those) \ FarFrom(ground.offices)
           Tells(said, is) == said <= is + Edge /\ (AllKept => is <= said)
           Sole(o) == IF o \in DOMAIN hub THEN hub[o].soleHub ELSE 0
           Edges == {b \in Blocks : AtEdge(b)}
<1>1. NearMade /\ hub = FacilityHub
  BY DEF CalcMade
<1>2. ASSUME NEW those \in SUBSET onRecord PROVE Tells(OaNewlyFar(those), PeopleOf(Gone(those)))
  <2>1. {b \in OaRows(those) : NewlyOut(b, those) /\ b \in Blocks} = {b \in OaRows(those) : NewlyOut(b, those)}
    BY DEF OaRows
  <2>2. Gone(those) \cap Blocks = Gone(those)
    BY DEF FarFrom
  <2>3. Blocks \in SUBSET Blocks
    OBVIOUS
  <2> HIDE DEF Gone
  <2>4. LET said == PeopleOf({b \in OaRows(those) : NewlyOut(b, those) /\ b \in Blocks})
            is == PeopleOf(Gone(those) \cap Blocks)
        IN  said <= is + Edge /\ (ground.offices \subseteq onRecord => is <= said)
    BY <1>1, <2>3, CountedFar DEF Gone
  <2> QED
    BY <2>1, <2>2, <2>4 DEF OaNewlyFar
<1>3. ASSUME NEW those \in SUBSET onRecord PROVE Tells(LifeHubLost(those), PeopleOf(Gone(those) \cap Bare))
  <2>1. Bare \in SUBSET Blocks
    BY DEF Bare
  <2>2. {b \in OaRows(those) : NewlyOut(b, those) /\ b \in Bare}
          = {b \in OaRows(those) : NewlyOut(b, those) /\ BankM(b) > TwoKm /\ NoCareNear(b)}
    BY DEF OaRows, Bare
  <2>3. LET said == PeopleOf({b \in OaRows(those) : NewlyOut(b, those) /\ b \in Bare})
            is == PeopleOf(Gone(those) \cap Bare)
        IN  said <= is + Edge /\ (ground.offices \subseteq onRecord => is <= said)
    BY <1>1, <2>1, CountedFar
  <2> HIDE DEF Gone
  <2> QED
    BY <2>2, <2>3 DEF LifeHubLost
<1>4. ASSUME hasCare, NEW o \in onRecord
      PROVE  (AllKept => LifeHubLost({o}) <= Sole(o) + Edge) /\ (onRecord \subseteq ground.offices => Sole(o) <= LifeHubLost({o}))
  <2> DEFINE Soles == {b \in OfHub(o) : SoleFin(b) /\ NoCareNear(b)}
             Losts == {b \in OaRows({o}) : NewlyOut(b, {o}) /\ BankM(b) > TwoKm /\ NoCareNear(b)}
  <2>1. ASSUME NEW b \in Blocks, near[b] = o, DistM(b) <= TwoKm
        PROVE  /\ AllKept /\ AfterM(b, {o}) > TwoKm => Post2M(b) > TwoKm \/ AtEdge(b)
               /\ onRecord \subseteq ground.offices /\ Post2M(b) > TwoKm => AfterM(b, {o}) > TwoKm
    BY <1>1, <2>1, HubFar
  <2>2. /\ Soles \in SUBSET Blocks /\ Losts \in SUBSET Blocks /\ Edges \in SUBSET Blocks
        /\ AllKept => Losts \subseteq Soles \cup Edges
        /\ onRecord \subseteq ground.offices => Soles \subseteq Losts
    BY <2>1 DEF OaRows, OfHub, SoleFin, NewlyOut
  <2>3. OfHub(o) = {} => Soles = {}
    OBVIOUS
  <2>4. LifeHubLost({o}) = PeopleOf(Losts) /\ Edge = PeopleOf(Edges)
    BY DEF LifeHubLost, Edge, AtEdge
  <2>5. OfHub(o) # {} => o \in ground.offices
    BY <1>1, NearestHave DEF OfHub
  <2>6. o \in DOMAIN hub <=> OfHub(o) # {}
    <3>1. Branches # {}
      BY ImpConstants
    <3> QED
      BY <1>1, <1>4, <2>5, <3>1 DEF FacilityHub
  <2>7. o \in DOMAIN hub => hub[o].soleHub = PeopleOf(Soles)
    BY <1>1 DEF FacilityHub
  <2> HIDE DEF Soles, Losts, Edges
  <2>8. Sole(o) = PeopleOf(Soles)
    BY <2>3, <2>6, <2>7, PeopleSums
  <2>9. AllKept => PeopleOf(Losts) <= PeopleOf(Soles) + PeopleOf(Edges)
    BY <2>2, PeopleLess
  <2>10. onRecord \subseteq ground.offices => PeopleOf(Soles) <= PeopleOf(Losts)
    BY <2>2, PeopleAmong
  <2> HIDE DEF Sole
  <2> QED
    BY <2>4, <2>8, <2>9, <2>10
<1>5. AllKept => PostSoleHub = LifeHubLost(onRecord)
  <2> SUFFICES ASSUME AllKept PROVE PostSoleHub = LifeHubLost(onRecord)
    OBVIOUS
  <2>1. ASSUME NEW b \in Blocks PROVE b \in OaRows(onRecord) /\ (NewlyOut(b, onRecord) <=> DistM(b) <= TwoKm)
    <3>1. near[b] \in onRecord
      BY <1>1, NearestHave
    <3>2. onRecord \ onRecord = {} /\ {} \in SUBSET Offices
      OBVIOUS
    <3>3. TwoKm \in Nat /\ TwoKm < Nowhere
      BY ImpConstants
    <3>4. Least(ground.post[b], {}) > TwoKm
      BY <1>1, <3>2, <3>3, LeastPost
    <3> QED
      BY <3>1, <3>2, <3>4 DEF OaRows, NewlyOut, AfterM
  <2>2. {b \in OaRows(onRecord) : NewlyOut(b, onRecord) /\ BankM(b) > TwoKm /\ NoCareNear(b)}
          = {b \in Blocks : DistM(b) <= TwoKm /\ BankM(b) > TwoKm /\ NoCareNear(b)}
    BY <2>1 DEF OaRows
  <2> QED
    BY <2>2 DEF LifeHubLost, PostSoleHub
<1> QED
  BY <1>2, <1>3, <1>4, <1>5 DEF OfficesAgree

LEMMA InvAgrees ==
  ASSUME ImpInv
  PROVE  ImpactsAgree
<1> SUFFICES ASSUME near # NoRows PROVE ImpactsAgree
  BY DEF ImpactsAgree
<1>1. CalcMade /\ NearMade /\ (walkCount > 0 => WalkedWith) /\ onRecord \in SUBSET Offices
  BY DEF ImpInv, CalcMade
<1>2. OfficesAgree
  BY <1>1, OfficesDo
<1>3. ASSUME NEW x \in Assessed
      PROVE  /\ impact[x].lost <= HasOnly(ground, x, TwoKm)
             /\ HasOnly(ground, x, TwoKm) <= impact[x].lost + (IF x \in Agents THEN Edge ELSE 0)
             /\ walkCount > 0 => impact[x].walkLost = HasOnly(foot, x, Walk30 + Slack)
             /\ walkCount > 0 => ("NO_ALT_WALK30" \in impact[x].reasons <=> HasOnly(foot, x, Walk30 + Slack) > 0)
  <2>1. /\ impact[x].lost <= HasOnly(ground, x, TwoKm)
        /\ HasOnly(ground, x, TwoKm) <= impact[x].lost + (IF x \in Agents THEN Edge ELSE 0)
    BY <1>1, ByCar DEF CalcMade
  <2>2. walkCount > 0 => PeopleOf(LosesOnFoot(foot, x)) = HasOnly(foot, x, Walk30 + Slack)
    BY <1>1, OnFoot DEF WalkedWith
  <2> QED
    BY <1>1, <2>1, <2>2 DEF WalkedWith
<1>4. BranchesAgree
  BY <1>3 DEF BranchesAgree
<1> QED
  BY <1>1, <1>2, <1>4, Metrics DEF ImpactsAgree, WalkedWith

-----------------------------------------------------------------------------
\* What is read of the distances is a table of the offices on record.
LEMMA SeenTable ==
  ASSUME onRecord \in SUBSET Offices, NEW g \in Distances
  PROVE  Seen(g) \in Table
BY DEF Seen, Table, Distances
LEMMA ReasonsAre ==
  ASSUME NEW people, NEW catch, NEW walkLost, NEW x
  PROVE  "NO_ALT_WALK30" \in Reasons(people, catch, walkLost, x) <=> walkLost > 0
BY DEF Reasons

LEMMA CalcKeeps ==
  ASSUME ImpInv, NEW g \in Ground, ImpCalc(g)
  PROVE  ImpInv'
<1>1. Seen(g) \in Table
  BY ImpConstants, SeenTable DEF ImpInv
<1>2. walkCount' = walkCount /\ walkCount \in Nat /\ ~(walkCount > 0) /\ onRecord' = onRecord /\ onRecord \in SUBSET Offices
  BY DEF ImpInv, ImpCalc
<1>3. NearMade' /\ hub' = FacilityHub' /\ impact' = BankImpact'
  BY <1>1 DEF ImpCalc, NearMade, Seen
<1>4. ASSUME NEW x \in Assessed
      PROVE  IsRow(impact'[x]) /\ impact'[x].lost = PeopleOf(LosesByCar(x)')
  <2> DEFINE catch == {b \in Blocks : B1(b)' = x}
             lost == {b \in catch : ground'.bank[b][x] <= TwoKm /\ Alt(b, x)' > TwoKm}
             reasons == Reasons(PeopleOf(lost), catch, 0, x)
  <2>1. impact'[x] = [catch |-> catch, lost |-> PeopleOf(lost), walkLost |-> Nowhere, reasons |-> reasons,
                      grade |-> Grade(PeopleOf(lost), reasons)]
    BY <1>3 DEF BankImpact
  <2>2. lost = LosesByCar(x)'
    BY DEF LosesByCar
  <2> HIDE DEF catch, lost
  <2> HIDE DEF reasons
  <2> QED
    BY <2>1, <2>2 DEF IsRow
<1>5. DOMAIN impact' = Assessed
  BY <1>3 DEF BankImpact
<1>6. CalcMade'
  BY <1>3, <1>4, <1>5 DEF CalcMade
<1> QED
  BY <1>2, <1>6 DEF ImpInv

LEMMA WalkKeeps ==
  ASSUME ImpInv, NEW g \in Table, ImpWalk(g)
  PROVE  ImpInv'
<1>1. /\ g \in Table /\ CalcMade /\ walkCount \in Nat /\ near # NoRows
      /\ walkCount' = walkCount + 1 /\ foot' = g /\ noCash' = WalkMetrics(g)
      /\ ground' = ground /\ hasCare' = hasCare /\ near' = near /\ hub' = hub
      /\ onRecord' = onRecord /\ onRecord \in SUBSET Offices
  BY DEF ImpInv, ImpWalk
<1>2. ASSUME NEW x \in Assessed
      PROVE  /\ IsRow(impact'[x]) /\ impact'[x].lost = impact[x].lost
             /\ impact'[x].walkLost = PeopleOf(LosesOnFoot(g, x))
             /\ "NO_ALT_WALK30" \in impact'[x].reasons <=> impact'[x].walkLost > 0
  <2>1. PICK row : row = impact[x] /\ IsRow(row)
    BY <1>1 DEF CalcMade
  <2>2. PICK n \in Nat : n = WalkLost(g, x) /\ n = PeopleOf(LosesOnFoot(g, x))
    BY <1>1, OnFoot, LostOnFoot
  <2>3. PICK reasons : reasons = Reasons(row.lost, row.catch, n, x)
    OBVIOUS
  <2>4. "NO_ALT_WALK30" \in reasons <=> n > 0
    BY <2>3, ReasonsAre
  <2>5. impact'[x] = [impact[x] EXCEPT !.walkLost = WalkLost(g, x),
                       !.reasons = Reasons(impact[x].lost, impact[x].catch, WalkLost(g, x), x),
                       !.grade = Grade(impact[x].lost, Reasons(impact[x].lost, impact[x].catch, WalkLost(g, x), x))]
    BY DEF ImpWalk
  <2>6. PICK grade : grade = Grade(row.lost, reasons)
    OBVIOUS
  <2>7. impact'[x] = [row EXCEPT !.walkLost = n, !.reasons = reasons, !.grade = grade]
    BY <2>1, <2>2, <2>3, <2>5, <2>6
  <2>8. impact'[x] = [catch |-> row.catch, lost |-> row.lost, walkLost |-> n, reasons |-> reasons, grade |-> grade]
    BY <2>1, <2>7 DEF IsRow
  <2> QED
    BY <2>1, <2>2, <2>4, <2>8 DEF IsRow
<1>3. DOMAIN impact' = Assessed
  BY DEF ImpWalk
<1>4. \A x : LosesByCar(x)' = LosesByCar(x)
  BY <1>1 DEF LosesByCar, B1, Alt, DistM
<1>5. FacilityHub' = FacilityHub
  BY <1>1 DEF FacilityHub, OfHub, SoleFin, Post2M, BankM, DistM
<1>6. CalcMade'
  BY <1>1, <1>2, <1>3, <1>4, <1>5 DEF CalcMade, NearMade
<1>7. WalkedWith'
  BY <1>1, <1>2 DEF WalkedWith
<1>8. walkCount' \in Nat
  BY <1>1
<1> QED
  BY <1>1, <1>6, <1>7, <1>8 DEF ImpInv

\* A late merge changes what is on record and nothing that was made from it.
LEMMA MergeKeeps ==
  ASSUME ImpInv, onRecord' \in SUBSET Offices,
         UNCHANGED <<ground, foot, hasCare, near, hub, impact, noCash, walkCount>>
  PROVE  ImpInv'
<1>1. /\ ground' = ground /\ foot' = foot /\ hasCare' = hasCare /\ near' = near /\ hub' = hub
      /\ impact' = impact /\ noCash' = noCash /\ walkCount' = walkCount
  OBVIOUS
<1>2. \A x : LosesByCar(x)' = LosesByCar(x)
  BY <1>1 DEF LosesByCar, B1, Alt, DistM
<1>3. FacilityHub' = FacilityHub
  BY <1>1 DEF FacilityHub, OfHub, SoleFin, Post2M, BankM, DistM
<1>4. CalcMade => CalcMade'
  BY <1>1, <1>2, <1>3 DEF CalcMade, NearMade
<1>5. WalkedWith => WalkedWith'
  BY <1>1 DEF WalkedWith
<1> QED
  BY <1>1, <1>4, <1>5 DEF ImpInv

\* Sums that different statements make of the same blocks agree: the what-if of
\* any offices with the calculation's count of deserts and hubs, a branch's
\* losses and its reasons with what each block has, after every walk by that
\* walk's graph, but for people at the edge of 2 km and for offices that a late
\* merge took away (06_oa.sql, 09_life.sql, 11_bank_impact.sql, walk/compute.py,
\* domain/whatif.py).
THEOREM ImpactsDoAgree == ImpSpec => []ImpactsAgree
<1>1. ImpInit => ImpInv
  BY ImpactsAssumption DEF ImpInit, ImpInv
<1>2. ImpInv /\ [ImpNext]_impVars => ImpInv'
  <2> SUFFICES ASSUME ImpInv, [ImpNext]_impVars PROVE ImpInv'
    OBVIOUS
  <2>1. CASE UNCHANGED impVars
    <3>1. onRecord' \in SUBSET Offices /\ UNCHANGED <<ground, foot, hasCare, near, hub, impact, noCash, walkCount>>
      BY <2>1 DEF impVars, ImpInv
    <3> QED
      BY <3>1, MergeKeeps
  <2>2. ASSUME NEW g \in Ground, ImpCalc(g) PROVE ImpInv'
    BY <2>2, CalcKeeps
  <2>3. ASSUME NEW g \in Graphs, ImpWalk(Seen(g)) PROVE ImpInv'
    <3>1. Seen(g) \in Table
      BY ImpConstants, SeenTable DEF ImpInv
    <3> QED
      BY <2>3, <3>1, WalkKeeps
  <2>4. ASSUME NEW s \in Records, ImpMerge(s) PROVE ImpInv'
    <3>1. onRecord' \in SUBSET Offices /\ UNCHANGED <<ground, foot, hasCare, near, hub, impact, noCash, walkCount>>
      BY <2>4, ImpactsAssumption DEF ImpMerge
    <3> QED
      BY <3>1, MergeKeeps
  <2> QED
    BY <2>1, <2>2, <2>3, <2>4 DEF ImpNext
<1>3. ImpInv => ImpactsAgree
  BY InvAgrees
<1> QED
  BY <1>1, <1>2, <1>3, PTL DEF ImpSpec
-----------------------------------------------------------------------------
(* The conditions of a day.  Whatever an hour alone is judged by is there  *)
(* in the day with it, to the same degree or a worse one.                  *)
AnHour == [tmp : Int \cup {Untold}, pty : Int \cup {Untold}, pcp : Nat \cup {Untold}, sno : Nat \cup {Untold},
           wsd : Int \cup {Untold}]
IsDay(d) == IsFiniteSet(InWindow(d)) /\ \A h \in DOMAIN d : h \in Nat /\ d[h] \in AnHour
-----------------------------------------------------------------------------
LEMMA AmountGrows ==
  ASSUME NEW d, IsDay(d), NEW h \in InWindow(d), NEW field \in {"pcp", "sno"}
  PROVE  /\ Amount(d, field) \in Nat /\ Amount(Alone(h, d[h]), field) \in Nat
         /\ Amount(Alone(h, d[h]), field) <= Amount(d, field)
<1> DEFINE s == Alone(h, d[h])
           f == [k \in InWindow(d) |-> IF d[k][field] = Untold THEN 0 ELSE d[k][field]]
           g == [k \in InWindow(s) |-> IF s[k][field] = Untold THEN 0 ELSE s[k][field]]
<1>1. InWindow(s) = {h} /\ s[h] = d[h]
  BY DEF InWindow, Alone
<1>2. \A k \in InWindow(d) : f[k] \in Nat
  <2> TAKE k \in InWindow(d)
  <2>1. d[k] \in AnHour
    BY DEF InWindow, IsDay
  <2>2. d[k][field] \in Nat \cup {Untold}
    BY <2>1 DEF AnHour
  <2> QED
    BY <2>2
<1>3. DOMAIN f = InWindow(d) /\ DOMAIN g = {h} /\ g[h] = f[h]
  BY <1>1
<1>4. Amount(d, field) = SumOver(f, InWindow(d))
  BY <1>3 DEF Amount, SumFunction, SumFunctionOnSet, FoldFunctionOnSet, SumOver, MapThenSumSet
<1>5. Amount(s, field) = SumOver(g, {h})
  BY <1>3 DEF Amount, SumFunction, SumFunctionOnSet, FoldFunctionOnSet, SumOver, MapThenSumSet
<1> HIDE DEF f, g, s
<1>6. SumOver(g, {h}) = f[h]
  BY <1>2, <1>3, SumOne
<1>7. SumOver(f, InWindow(d)) \in Nat /\ f[h] <= SumOver(f, InWindow(d))
  BY <1>2, SumIncludes DEF IsDay
<1> QED
  BY <1>2, <1>4, <1>5, <1>6, <1>7 DEF s

LEMMA HoursGrow ==
  ASSUME NEW d, IsDay(d), NEW h \in InWindow(d), NEW types
  PROVE  /\ Cardinality(HoursOf(d, types)) \in Nat /\ Cardinality(HoursOf(Alone(h, d[h]), types)) \in Nat
         /\ Cardinality(HoursOf(Alone(h, d[h]), types)) > 0 => Cardinality(HoursOf(d, types)) > 0
<1> DEFINE A == HoursOf(Alone(h, d[h]), types)
           B == HoursOf(d, types)
<1>1. InWindow(Alone(h, d[h])) = {h} /\ Alone(h, d[h])[h] = d[h]
  BY DEF InWindow, Alone
<1>2. A \in SUBSET B /\ B \in SUBSET InWindow(d)
  BY <1>1 DEF HoursOf
<1> HIDE DEF A, B
<1>3. IsFiniteSet(B) /\ IsFiniteSet(A) /\ Cardinality(A) <= Cardinality(B)
  BY <1>2, FS_Subset DEF IsDay
<1>4. Cardinality(A) \in Nat /\ Cardinality(B) \in Nat
  BY <1>3, FS_CardinalityType
<1> QED
  BY <1>3, <1>4 DEF A, B

LEMMA ValuesGrow ==
  ASSUME NEW d, NEW h \in InWindow(d), NEW field
  PROVE  Values(Alone(h, d[h]), field) \subseteq Values(d, field)
<1>1. InWindow(Alone(h, d[h])) = {h} /\ Alone(h, d[h])[h] = d[h]
  BY DEF InWindow, Alone
<1> QED
  BY <1>1 DEF Values

\* The greatest of a set of levels.
LEMMA MaxOfLevels ==
  ASSUME NEW L \in SUBSET {0, 1, 2}, L # {}
  PROVE  Max(L) \in L /\ \A l \in L : Max(L) >= l
<1>1. \E m \in L : \A l \in L : m >= l
  <2>1. CASE 2 \in L
    BY <2>1
  <2>2. CASE 2 \notin L /\ 1 \in L
    BY <2>2
  <2>3. CASE 2 \notin L /\ 1 \notin L
    <3>1. L = {0}
      BY <2>3
    <3> QED
      BY <3>1
  <2> QED
    BY <2>1, <2>2, <2>3
<1> QED
  BY <1>1 DEF Max

LEMMA LevelsGrow ==
  ASSUME NEW d, IsDay(d), NEW h \in InWindow(d), ~AllSleet(d), NEW a
  PROVE  /\ Levels(d, a) \subseteq {1, 2} /\ Levels(Alone(h, d[h]), a) \subseteq {1, 2}
         /\ \A v \in Levels(Alone(h, d[h]), a) : \E w \in Levels(d, a) : w >= v
<1> DEFINE s == Alone(h, d[h])
           Grow(V, W) == V \subseteq {1, 2} /\ W \subseteq {1, 2} /\ \A v \in V : \E w \in W : w >= v
<1>1. InWindow(s) # {} /\ InWindow(d) # {}
  BY DEF InWindow, Alone
<1>2. Levels(d, a) = Dust(a) \cup Snow(d) \cup Rain(d) \cup Heat(d) \cup Cold(d) \cup Wind(d)
  BY <1>1 DEF Levels
<1>3. Levels(s, a) = Dust(a) \cup Snow(s) \cup Rain(s) \cup Heat(s) \cup Cold(s) \cup Wind(s)
  BY <1>1 DEF Levels
<1>4. \A field, bound : (AtLeast(s, field, bound) => AtLeast(d, field, bound)) /\ (AtMost(s, field, bound) => AtMost(d, field, bound))
  BY ValuesGrow DEF AtLeast, AtMost
<1>5. /\ Amount(d, "sno") \in Nat /\ Amount(s, "sno") \in Nat /\ Amount(s, "sno") <= Amount(d, "sno")
      /\ Amount(d, "pcp") \in Nat /\ Amount(s, "pcp") \in Nat /\ Amount(s, "pcp") <= Amount(d, "pcp")
  BY AmountGrows
<1>6. (Snowy(s) > 0 => Snowy(d) > 0) /\ (Rainy(s) # 0 => Rainy(d) # 0)
  <2>1. /\ Rainy(s) \in Nat /\ Rainy(d) \in Nat /\ (Rainy(s) > 0 => Rainy(d) > 0)
        /\ Snowy(s) > 0 => Snowy(d) > 0
    BY HoursGrow DEF Snowy, Rainy
  <2> QED
    BY <2>1
<1> HIDE DEF s
<1>7. Grow(Snow(s), Snow(d))
  <2>1. /\ Snowy(s) > 0 \/ Amount(s, "sno") > 0 => Snowy(d) > 0 \/ Amount(d, "sno") > 0
        /\ Amount(s, "sno") >= 2 => Amount(d, "sno") >= 2
    BY <1>5, <1>6
  <2> QED
    BY <2>1 DEF Snow, Either
<1>8. Grow(Rain(s), Rain(d))
  <2>1. Amount(s, "pcp") >= 30 \/ AtLeast(s, "pcp", 10) => Amount(d, "pcp") >= 30 \/ AtLeast(d, "pcp", 10)
    BY <1>4, <1>5
  <2> QED
    BY <1>6, <2>1 DEF Rain, Either
<1>9. Grow(Heat(s), Heat(d))
  BY <1>4 DEF Heat, Either
<1>10. Grow(Cold(s), Cold(d))
  BY <1>4 DEF Cold, Either
<1>11. Grow(Wind(s), Wind(d))
  BY <1>4 DEF Wind, Either
<1>12. Grow(Dust(a), Dust(a))
  <2>1. \A v \in {1, 2} : v >= v
    OBVIOUS
  <2>2. Dust(a) \subseteq {1, 2}
    BY DEF Dust, Either
  <2> QED
    BY <2>1, <2>2
<1> QED
  BY <1>2, <1>3, <1>7, <1>8, <1>9, <1>10, <1>11, <1>12 DEF s

LEMMA DayIsWorst ==
  ASSUME NEW d, IsDay(d), NEW h \in InWindow(d), ~AllSleet(d), NEW a
  PROVE  Level(d, a) >= Level(Alone(h, d[h]), a)
<1> DEFINE L == Levels(d, a) \cup {0}
           S == Levels(Alone(h, d[h]), a) \cup {0}
<1>1. InWindow(Alone(h, d[h])) # {} /\ InWindow(d) # {}
  BY DEF InWindow, Alone
<1>2. Level(d, a) = Max(L) /\ Level(Alone(h, d[h]), a) = Max(S)
  BY <1>1 DEF Level
<1>3. L \in SUBSET {0, 1, 2} /\ S \in SUBSET {0, 1, 2} /\ L # {} /\ S # {} /\ \A v \in S : \E w \in L : w >= v
  BY LevelsGrow
<1> HIDE DEF L, S
<1>4. Max(L) \in L /\ (\A l \in L : Max(L) >= l) /\ Max(S) \in S
  BY <1>3, MaxOfLevels
<1>5. PICK w \in L : w >= Max(S)
  BY <1>3, <1>4
<1>6. \A x, y, z \in {0, 1, 2} : x >= y /\ y >= z => x >= z
  OBVIOUS
<1>7. Max(L) \in {0, 1, 2} /\ w \in {0, 1, 2} /\ Max(S) \in {0, 1, 2} /\ Max(L) >= w
  BY <1>3, <1>4
<1> QED
  BY <1>2, <1>5, <1>6, <1>7

DayInv == \A h \in DOMAIN day : h \in Nat /\ day[h] \in AnHour

\* A day is as bad as the worst of its hours is alone, whatever the hours are
\* and in whatever order and how often they are announced (visit.py:116).
THEOREM WorstDoesShow == AssessSpec => []WorstHourShows
<1>1. AssessInit => DayInv
  BY DEF AssessInit, DayInv
<1>2. DayInv /\ [AssessNext]_assessVars => DayInv'
  <2> SUFFICES ASSUME DayInv, [AssessNext]_assessVars PROVE DayInv'
    OBVIOUS
  <2>1. CASE day' = day
    BY <2>1 DEF DayInv
  <2>2. ASSUME NEW h \in DayHours, NEW f \in Forecasts, HourComes(h, f) PROVE DayInv'
    <3>1. h \in Nat /\ f \in AnHour
      BY AssessAssumption DEF AnHour
    <3> QED
      BY <2>2, <3>1 DEF DayInv, HourComes
  <2> QED
    BY <2>1, <2>2 DEF AssessNext, AirComes, assessVars
<1>3. DayInv => WorstHourShows
  <2> SUFFICES ASSUME DayInv, NEW h \in InWindow(day), ~AllSleet(day) PROVE Level(day, air) >= Level(Alone(h, day[h]), air)
    BY DEF WorstHourShows
  <2>3. 9 \in Int /\ 18 \in Int /\ InWindow(day) \in SUBSET (9 .. 18)
    BY DEF InWindow
  <2>1. IsFiniteSet(9 .. 18) /\ InWindow(day) \in SUBSET (9 .. 18)
    BY <2>3, FS_Interval
  <2>2. IsDay(day)
    BY <2>1, FS_Subset DEF DayInv, IsDay
  <2> QED
    BY <2>2, DayIsWorst
<1> QED
  BY <1>1, <1>2, <1>3, PTL DEF AssessSpec

-----------------------------------------------------------------------------
(* Plans.  The few nearest facilities of an area are numbered by their     *)
(* order, so the first of them that is left is the nearest of all that are *)
(* left, if one of them is: of more than can be closed one always is.      *)
PlanTable == table \in [Places -> [Facs -> 0 .. NoDist - 1]] /\ weight \in [Places -> Nat]

LEMMA PlanConstants ==
  /\ IsFiniteSet(Places) /\ IsFiniteSet(Facs) /\ IsFiniteSet(Sites) /\ IsFiniteSet(Candidates) /\ IsFiniteSet(InScope)
  /\ Facs \in SUBSET Nat /\ 0 \notin Facs /\ Sites \in SUBSET Nat /\ InScope \in SUBSET Places /\ Candidates \in SUBSET Facs
  /\ Radius \in Nat /\ FarM \in Nat /\ Ranks \in Nat /\ Ranks > 0 /\ TopN \in Nat /\ MaxK \in Nat /\ NoDist \in Nat
  /\ MaxK > 0 /\ MaxK < TopN /\ MaxK < Cardinality(Facs) /\ Cardinality(Facs) \in Nat /\ Facs # {}
  /\ BankDist \in [Places -> Nat] /\ \A s \in Sites : SiteDist[s] \in [InScope -> Nat]
<1>1. Candidates \in SUBSET Facs /\ InScope \in SUBSET Places /\ IsFiniteSet(Facs) /\ IsFiniteSet(Places)
  BY PlanningAssumption
<1>2. IsFiniteSet(Candidates) /\ IsFiniteSet(InScope) /\ Cardinality(Facs) \in Nat
  BY <1>1, FS_Subset, FS_CardinalityType
<1>3. Facs # {}
  <2>1. Facs = {} => Cardinality(Facs) = 0
    BY FS_EmptySet
  <2> QED
    BY <1>2, <2>1, PlanningAssumption
<1> QED
  BY <1>1, <1>2, <1>3, PlanningAssumption

\* What the order of distances and shut is.
LEMMA NearerOrders ==
  ASSUME PlanTable, NEW a \in Places
  PROVE  /\ \A f \in Facs : ~Nearer(a, f, f) /\ table[a][f] \in Nat /\ table[a][f] < NoDist
         /\ \A f, g \in Facs : f # g => Nearer(a, f, g) \/ Nearer(a, g, f)
         /\ \A f, g \in Facs : Nearer(a, f, g) => table[a][f] <= table[a][g] /\ ~Nearer(a, g, f)
         /\ \A f, g, h \in Facs : Nearer(a, f, g) /\ Nearer(a, g, h) => Nearer(a, f, h)
<1>1. PICK t \in [Facs -> 0 .. NoDist - 1] : t = table[a]
  BY DEF PlanTable
<1>2. Facs \in SUBSET Nat /\ NoDist \in Nat
  BY PlanConstants
<1>3. \A f \in Facs : t[f] \in Nat /\ t[f] < NoDist /\ f \in Nat
  BY <1>2
<1> QED
  BY <1>1, <1>3 DEF Nearer

LEMMA RankedIn ==
  ASSUME PlanTable, NEW a \in Places, NEW fs \in SUBSET Facs, NEW n \in Nat, NEW s, s = NearestOf(a, fs, n)
  PROVE  /\ s \in Seq(fs) /\ Len(s) <= n /\ Len(s) <= Cardinality(fs) /\ (Len(s) = n \/ Len(s) = Cardinality(fs))
         /\ \A i, j \in DOMAIN s : i < j => Nearer(a, s[i], s[j])
         /\ \A f \in fs : (\E i \in DOMAIN s : s[i] = f) \/ (\A i \in DOMAIN s : Nearer(a, s[i], f))
<1>1. IsFiniteSet(fs) /\ Cardinality(fs) \in Nat
  BY PlanConstants, FS_Subset, FS_CardinalityType
<1> DEFINE B == [f \in fs |-> {g \in fs : Nearer(a, g, f)}]
           c == Cardinality(fs)
<1>2. /\ \A f \in fs : B[f] \in SUBSET fs /\ f \notin B[f]
      /\ \A f, g \in fs : g \in B[f] <=> Nearer(a, g, f)
  BY NearerOrders
<1>3. \A f, g \in fs : f # g => f \in B[g] \/ g \in B[f]
  BY <1>2, NearerOrders
<1>4. \A f, g \in fs : f \in B[g] => B[f] \subseteq B[g]
  BY <1>2, NearerOrders
<1>5. s = [i \in 1 .. Min({n, c}) |-> Ranked(a, fs, i)]
  BY DEF NearestOf
<1>14. \A f \in fs : {g \in fs : Nearer(a, g, f)} = B[f]
  OBVIOUS
<1> HIDE DEF B
<1>6. /\ \A x \in fs : Cardinality(B[x]) \in 0 .. c - 1
      /\ \A x, y \in fs : x \in B[y] => Cardinality(B[x]) < Cardinality(B[y])
      /\ \A r \in 0 .. c - 1 : \E x \in fs : Cardinality(B[x]) = r
  BY <1>1, <1>2, <1>3, <1>4, Numbered
<1>7. PICK m : m = Min({n, c})
  OBVIOUS
<1>8. m \in Nat /\ m <= n /\ m <= c /\ (m = n \/ m = c)
  BY <1>1, <1>7, MinOfTwo
<1> HIDE DEF c
<1>9. DOMAIN s = 1 .. m /\ \A i \in 1 .. m : s[i] = Ranked(a, fs, i)
  BY <1>5, <1>7
<1>10. \A i \in 1 .. m : s[i] \in fs /\ Cardinality(B[s[i]]) = i - 1
  <2> TAKE i \in 1 .. m
  <2>1. i - 1 \in 0 .. c - 1
    BY <1>1, <1>8 DEF c
  <2>2. \E f \in fs : Cardinality({g \in fs : Nearer(a, g, f)}) = i - 1
    BY <1>6, <1>14, <2>1
  <2>3. s[i] \in fs /\ Cardinality({g \in fs : Nearer(a, g, s[i])}) = i - 1
    BY <1>9, <2>2 DEF Ranked
  <2> QED
    BY <1>14, <2>3
<1>11. \A i, j \in 1 .. m : i < j => Nearer(a, s[i], s[j])
  <2> TAKE i, j \in 1 .. m
  <2> HAVE i < j
  <2>1. s[i] # s[j]
    BY <1>10
  <2>2. ~(s[j] \in B[s[i]])
    BY <1>6, <1>10
  <2> QED
    BY <1>2, <1>3, <1>10, <2>1, <2>2
<1>12. ASSUME NEW f \in fs, \A i \in 1 .. m : s[i] # f PROVE \A i \in 1 .. m : Nearer(a, s[i], f)
  <2>1. PICK r \in 0 .. c - 1 : r = Cardinality(B[f])
    BY <1>6
  <2>2. ~(r < m)
    <3> SUFFICES ASSUME r < m PROVE FALSE
      OBVIOUS
    <3>1. r + 1 \in 1 .. m /\ r + 1 - 1 = r
      BY <1>8, <2>1
    <3>2. PICK g \in fs : g = s[r + 1] /\ Cardinality(B[g]) = r
      BY <1>10, <3>1
    <3>3. g # f
      BY <1>12, <3>1, <3>2
    <3>4. f \in B[g] \/ g \in B[f]
      BY <1>3, <3>3
    <3>5. r < r
      BY <1>6, <2>1, <3>2, <3>4
    <3> QED
      BY <3>5
  <2>4. ASSUME NEW i \in 1 .. m PROVE Nearer(a, s[i], f)
    <3>1. s[i] \in fs /\ Cardinality(B[s[i]]) = i - 1 /\ s[i] # f
      BY <1>10, <1>12
    <3>2. ~(r < i - 1)
      BY <1>8, <2>1, <2>2
    <3>3. ~(f \in B[s[i]])
      BY <1>6, <2>1, <3>1, <3>2
    <3> QED
      BY <1>2, <1>3, <3>1, <3>3
  <2> QED
    BY <2>4
<1>13. s \in Seq(fs) /\ Len(s) = m
  <2>1. s = [i \in 1 .. m |-> Ranked(a, fs, i)]
    BY <1>5, <1>7
  <2>2. s \in [1 .. m -> fs]
    BY <1>9, <1>10, <2>1
  <2> QED
    BY <1>8, <2>2, FunctionIsSeq
<1> QED
  BY <1>8, <1>9, <1>10, <1>11, <1>12, <1>13 DEF c

\* The search finds the nearest of those that are left.
LEMMA KnnIs ==
  ASSUME PlanTable, NEW a \in Places, NEW shut, NEW k, k = KnnExcluding(a, shut)
  PROVE  /\ k \in Nat /\ k <= NoDist /\ \A f \in Facs \ shut : k <= table[a][f]
         /\ k = NoDist \/ \E f \in Facs \ shut : k = table[a][f]
<1>1. PICK t : t = table[a] /\ \A f \in Facs : t[f] \in Nat
  BY NearerOrders
<1>2. PICK S : S = Facs \ shut
  OBVIOUS
<1>3. S \in SUBSET Facs /\ IsFiniteSet(Facs) /\ NoDist \in Nat
  BY <1>2, PlanConstants
<1>4. IsFiniteSet(S) /\ \A f \in S : t[f] \in Nat
  BY <1>1, <1>3, FS_Subset
<1>5. k = LeastIn(t, S, NoDist)
  BY <1>1, <1>2 DEF KnnExcluding, LeastIn
<1>6. k \in Nat /\ k <= NoDist /\ (\A f \in S : k <= t[f]) /\ (k = NoDist \/ \E f \in S : k = t[f])
  BY <1>3, <1>4, <1>5, LeastValue
<1> QED
  BY <1>1, <1>2, <1>6

\* The first that is left of the n nearest is what the search finds.
LEMMA FirstIsNearest ==
  ASSUME PlanTable, NEW a \in Places, NEW n \in Nat, NEW shut, NEW s, s = NearestOf(a, Facs, n)
  PROVE  /\ (\A i \in DOMAIN s : s[i] \in shut) => FirstNotIn(a, s, shut) = NoDist
         /\ (\E i \in DOMAIN s : s[i] \notin shut)
              => FirstNotIn(a, s, shut) = KnnExcluding(a, shut) /\ FirstNotIn(a, s, shut) < NoDist
         /\ s # <<>> => s[1] \in Facs /\ (s[1] \notin shut => KnnExcluding(a, shut) = table[a][s[1]])
         /\ \A i \in DOMAIN s : s[i] \notin shut /\ (\A j \in DOMAIN s : j < i => s[j] \in shut)
                                => KnnExcluding(a, shut) = table[a][s[i]]
<1>1. Facs \in SUBSET Facs /\ NoDist \in Nat /\ Facs \in SUBSET Nat
  BY PlanConstants
<1>12. /\ s \in Seq(Facs)
       /\ \A i, j \in DOMAIN s : i < j => Nearer(a, s[i], s[j])
       /\ \A f \in Facs : (\E i \in DOMAIN s : s[i] = f) \/ (\A i \in DOMAIN s : Nearer(a, s[i], f))
  BY <1>1, RankedIn
<1>11. PICK m \in Nat : m = Len(s) /\ DOMAIN s = 1 .. m
  BY <1>12
<1>2. /\ DOMAIN s = 1 .. m
      /\ \A i \in 1 .. m : s[i] \in Facs
      /\ \A i, j \in 1 .. m : i < j => Nearer(a, s[i], s[j])
      /\ \A f \in Facs : (\E i \in 1 .. m : s[i] = f) \/ (\A i \in 1 .. m : Nearer(a, s[i], f))
  BY <1>11, <1>12
<1>3. PICK left : left = {i \in DOMAIN s : s[i] \notin shut}
  OBVIOUS
<1>4. FirstNotIn(a, s, shut) = IF left = {} THEN NoDist ELSE table[a][s[Min(left)]]
  BY <1>3 DEF FirstNotIn
<1>5. \A f, g \in Facs : Nearer(a, f, g) => table[a][f] <= table[a][g]
  BY NearerOrders
<1>6. \A f \in Facs : table[a][f] \in Nat /\ table[a][f] < NoDist
  BY NearerOrders
<1>7. ASSUME NEW i \in 1 .. m, s[i] \notin shut, \A j \in 1 .. m : j < i => s[j] \in shut
      PROVE  KnnExcluding(a, shut) = table[a][s[i]]
  <2>1. PICK k : k = KnnExcluding(a, shut)
    OBVIOUS
  <2>2. /\ k \in Nat /\ k <= NoDist /\ \A f \in Facs \ shut : k <= table[a][f]
        /\ k = NoDist \/ \E f \in Facs \ shut : k = table[a][f]
    BY <2>1, KnnIs
  <2>3. s[i] \in Facs \ shut /\ k <= table[a][s[i]] /\ table[a][s[i]] < NoDist /\ table[a][s[i]] \in Nat
    BY <1>2, <1>6, <1>7, <2>2
  <2>4. PICK f \in Facs \ shut : k = table[a][f]
    BY <1>1, <2>2, <2>3
  <2>5. table[a][s[i]] <= table[a][f]
    <3>1. CASE \E j \in 1 .. m : s[j] = f
      <4>1. PICK j \in 1 .. m : s[j] = f
        BY <3>1
      <4>2. ~(j < i)
        BY <1>7, <2>4, <4>1
      <4>3. CASE j = i
        BY <1>6, <4>1, <4>3
      <4>4. CASE i < j
        BY <1>2, <1>5, <4>1, <4>4
      <4> QED
        BY <4>2, <4>3, <4>4
    <3>2. CASE \A j \in 1 .. m : Nearer(a, s[j], f)
      BY <1>2, <1>5, <3>2
    <3> QED
      BY <1>2, <3>1, <3>2
  <2> QED
    BY <1>6, <2>1, <2>3, <2>4, <2>5
<1>8. ASSUME NEW j \in DOMAIN s, s[j] \notin shut
      PROVE FirstNotIn(a, s, shut) = KnnExcluding(a, shut) /\ FirstNotIn(a, s, shut) < NoDist
  <2>9. left \subseteq 1 .. m /\ j \in left
    BY <1>2, <1>3, <1>8
  <2>10. IsFiniteSet(1 .. m)
    BY <1>11, FS_Interval
  <2>1. left \in SUBSET (1 .. m) /\ left # {} /\ IsFiniteSet(1 .. m) /\ left \in SUBSET Int
    BY <2>9, <2>10
  <2>2. IsFiniteSet(left)
    BY <2>1, FS_Subset
  <2>3. PICK i : i = Min(left)
    OBVIOUS
  <2>4. i \in left /\ \A y \in left : i <= y
    <3>1. \E l \in left : \A y \in left : l <= y
      BY <2>1, <2>2, Extremes
    <3> QED
      BY <2>3, <3>1 DEF Min
  <2>5. i \in 1 .. m /\ s[i] \notin shut
    BY <1>2, <1>3, <2>4
  <2>6. \A y \in 1 .. m : y < i => s[y] \in shut
    BY <1>2, <1>3, <2>4, <2>5
  <2>7. KnnExcluding(a, shut) = table[a][s[i]]
    BY <1>7, <2>5, <2>6
  <2>8. FirstNotIn(a, s, shut) = table[a][s[i]]
    BY <1>4, <2>1, <2>3
  <2> QED
    BY <1>2, <1>6, <2>5, <2>7, <2>8
<1>9. ASSUME s # <<>> PROVE s[1] \in Facs /\ (s[1] \notin shut => KnnExcluding(a, shut) = table[a][s[1]])
  <2>1. 1 \in 1 .. m
    BY <1>11, <1>12, <1>9
  <2> QED
    BY <1>2, <1>7, <2>1
<1>10. (\A i \in DOMAIN s : s[i] \in shut) => FirstNotIn(a, s, shut) = NoDist
  BY <1>3, <1>4
<1> QED
  BY <1>2, <1>7, <1>8, <1>9, <1>10

-----------------------------------------------------------------------------
\* Of the TopN nearest to a point one is left.
LEMMA SomeLeft ==
  ASSUME PlanTable, NEW a \in Places, NEW closed \in SUBSET Facs, Cardinality(closed) <= MaxK
  PROVE  PointDist(a, closed) = KnnExcluding(a, closed) /\ PointDist(a, closed) < NoDist /\ Len(Cands(a)) > MaxK
<1>0. TopN \in Nat /\ MaxK \in Nat /\ MaxK < TopN /\ MaxK < Cardinality(Facs) /\ Cardinality(Facs) \in Nat /\ Facs \in SUBSET Facs
  BY PlanConstants
<1>1. PICK s : s = Cands(a) /\ s = NearestOf(a, Facs, TopN)
  BY DEF Cands
<1>2. /\ s \in Seq(Facs) /\ (Len(s) = TopN \/ Len(s) = Cardinality(Facs))
      /\ \A i, j \in DOMAIN s : i < j => Nearer(a, s[i], s[j])
  BY <1>0, <1>1, RankedIn
<1>3. Len(s) \in Nat /\ Len(s) > MaxK /\ DOMAIN s = 1 .. Len(s) /\ \A i \in DOMAIN s : s[i] \in Facs
  BY <1>0, <1>2
<1>4. Different(s)
  <2> SUFFICES ASSUME NEW i \in DOMAIN s, NEW j \in DOMAIN s, s[i] = s[j], i # j PROVE FALSE
    BY DEF Different
  <2>1. i < j \/ j < i
    BY <1>3
  <2>2. Nearer(a, s[i], s[j]) \/ Nearer(a, s[j], s[i])
    BY <1>2, <2>1
  <2> QED
    BY <1>3, <2>2, NearerOrders
<1>5. IsFiniteSet(Range(s)) /\ Cardinality(Range(s)) = Len(s)
  BY <1>2, <1>4, DifferentCount
<1>6. IsFiniteSet(closed) /\ Cardinality(closed) \in Nat
  BY PlanConstants, FS_Subset, FS_CardinalityType
<1>7. \E i \in DOMAIN s : s[i] \notin closed
  <2> SUFFICES ASSUME \A i \in DOMAIN s : s[i] \in closed PROVE FALSE
    OBVIOUS
  <2>1. Range(s) \in SUBSET closed
    BY DEF Range
  <2>2. Cardinality(Range(s)) <= Cardinality(closed)
    BY <1>6, <2>1, FS_Subset
  <2> QED
    BY <1>0, <1>3, <1>5, <1>6, <2>2
<1> QED
  BY <1>0, <1>1, <1>3, <1>7, FirstIsNearest DEF PointDist

\* What calc left of an area.
LEMMA NearestOne ==
  ASSUME PlanTable, late = 0, NEW a \in Places
  PROVE  AreaNearest(a) = NearestOf(a, Facs, Ranks) /\ AreaNearest(a) # <<>> /\ AreaNearest(a)[1] \in Facs
<1>0. Ranks \in Nat /\ Ranks > 0 /\ Cardinality(Facs) \in Nat /\ Cardinality(Facs) > 0 /\ Facs \in SUBSET Facs /\ Facs \in SUBSET Nat /\ 0 \notin Facs
  BY PlanConstants
<1>1. PICK s : s = AreaNearest(a)
  OBVIOUS
<1>2. s = NearestOf(a, Facs, Ranks)
  <2>1. FacsOfCalc = Facs
    BY <1>0 DEF FacsOfCalc
  <2> QED
    BY <1>1, <2>1 DEF AreaNearest
<1>3. s \in Seq(Facs) /\ (Len(s) = Ranks \/ Len(s) = Cardinality(Facs))
  BY <1>0, <1>2, RankedIn
<1>4. s # <<>> /\ s[1] \in Facs
  BY <1>0, <1>3
<1> QED
  BY <1>1, <1>2, <1>4

\* To others than the points no candidate matters.
LEMMA OffPoints ==
  ASSUME PlanTable, late = 0, NEW a \in Places, a \notin Points, NEW closed \in SUBSET Candidates
  PROVE  KnnExcluding(a, closed) = KnnExcluding(a, {})
<1>1. PICK s : s = AreaNearest(a)
  OBVIOUS
<1>2. s = NearestOf(a, Facs, Ranks) /\ s # <<>> /\ s[1] \notin Candidates /\ Ranks \in Nat
  BY <1>1, NearestOne, PlanConstants DEF Points
<1>3. s[1] \notin closed /\ s[1] \notin {}
  BY <1>2
<1>4. KnnExcluding(a, closed) = table[a][s[1]]
  BY <1>2, <1>3, FirstIsNearest
<1>5. KnnExcluding(a, {}) = table[a][s[1]]
  BY <1>2, <1>3, FirstIsNearest
<1> QED
  BY <1>4, <1>5

LEMMA KnnGrows ==
  ASSUME PlanTable, NEW a \in Places, NEW shut, NEW more, shut \subseteq more
  PROVE  KnnExcluding(a, shut) <= KnnExcluding(a, more)
<1>1. PICK j : j = KnnExcluding(a, shut)
  OBVIOUS
<1>2. PICK k : k = KnnExcluding(a, more)
  OBVIOUS
<1>3. j \in Nat /\ j <= NoDist /\ \A f \in Facs \ shut : j <= table[a][f]
  BY <1>1, KnnIs
<1>4. k \in Nat /\ (k = NoDist \/ \E f \in Facs \ more : k = table[a][f])
  BY <1>2, KnnIs
<1> QED
  BY <1>1, <1>2, <1>3, <1>4

LEMMA Distributes ==
  ASSUME NEW w \in Nat, NEW x \in Nat, NEW y \in Nat, x <= y
  PROVE  w * x \in Nat /\ w * y \in Nat /\ w * (y - x) \in Nat /\ w * y = w * x + w * (y - x) /\ (x = y => w * (y - x) = 0)
<1>1. PICK d \in Nat : d = y - x
  OBVIOUS
<1>2. y = x + d
  BY <1>1
<1>3. w * (x + d) = w * x + w * d /\ w * d \in Nat /\ w * x \in Nat
  OBVIOUS
<1>4. x = y => d = 0
  BY <1>1
<1>5. w * 0 = 0
  OBVIOUS
<1> QED
  BY <1>1, <1>2, <1>3, <1>4, <1>5

\* A candidate that is not among those nearest to a point does not matter to it.
LEMMA Untouched ==
  ASSUME NEW a, NEW s, NEW closed, NEW c, ~Contains(s, c)
  PROVE  FirstNotIn(a, s, closed \cup {c}) = FirstNotIn(a, s, closed)
<1>0. \A i \in DOMAIN s : s[i] # c
  BY DEF Contains
<1>1. {i \in DOMAIN s : s[i] \notin closed \cup {c}} = {i \in DOMAIN s : s[i] \notin closed}
  BY <1>0
<1> QED
  BY <1>1 DEF FirstNotIn

\* Beside those that a candidate touches, closing it leaves the distances as they are.
LEMMA TouchedOnly ==
  ASSUME PlanTable, late = 0, NEW closed \in SUBSET Candidates, NEW c \in Candidates, Cardinality(closed \cup {c}) <= MaxK,
         Cardinality(closed) <= MaxK, NEW a \in Places
  PROVE  /\ a \in Points => /\ PointDist(a, closed) = KnnExcluding(a, closed)
                            /\ PointDist(a, closed \cup {c}) = KnnExcluding(a, closed \cup {c})
         /\ a \notin Touched(c, closed) => KnnExcluding(a, closed \cup {c}) = KnnExcluding(a, closed)
<1>1. closed \in SUBSET Facs /\ closed \cup {c} \in SUBSET Facs /\ closed \cup {c} \in SUBSET Candidates
  BY PlanConstants
<1>2. CASE a \notin Points
  <2>1. KnnExcluding(a, closed \cup {c}) = KnnExcluding(a, {})
    BY <1>1, <1>2, OffPoints
  <2>2. KnnExcluding(a, closed) = KnnExcluding(a, {})
    BY <1>1, <1>2, OffPoints
  <2> QED
    BY <1>2, <2>1, <2>2
<1>3. CASE a \in Points
  <2>1. PointDist(a, closed) = KnnExcluding(a, closed)
    BY <1>1, SomeLeft
  <2>2. PointDist(a, closed \cup {c}) = KnnExcluding(a, closed \cup {c}) /\ PointDist(a, closed \cup {c}) < NoDist
    BY <1>1, SomeLeft
  <2>3. ASSUME a \notin Touched(c, closed) PROVE PointDist(a, closed \cup {c}) = PointDist(a, closed)
    <3>1. CASE ~Contains(Cands(a), c)
      <4>1. FirstNotIn(a, Cands(a), closed \cup {c}) = FirstNotIn(a, Cands(a), closed)
        BY <3>1, Untouched
      <4> QED
        BY <4>1 DEF PointDist
    <3>2. CASE Contains(Cands(a), c)
      BY <1>3, <2>2, <2>3, <3>2 DEF Touched
    <3> QED
      BY <3>1, <3>2
  <2> QED
    BY <2>1, <2>2, <2>3
<1> QED
  BY <1>2, <1>3

\* What is added to the weighted distance is added where distances change.
Lengthens(T, e, closed, more) ==
  /\ closed \subseteq more /\ T \in SUBSET Places
  /\ \A a \in Places \ T : KnnExcluding(a, more) = KnnExcluding(a, closed)
  /\ \A a \in T : e[a] = weight[a] * (KnnExcluding(a, more) - KnnExcluding(a, closed))
LEMMA TotalAdds ==
  ASSUME PlanTable, NEW closed, NEW more, NEW T, NEW e, Lengthens(T, e, closed, more)
  PROVE  Total(closed) \in Nat /\ SumOver(e, T) \in Nat /\ Total(more) = Total(closed) + SumOver(e, T)
<1> USE DEF Lengthens
<1> DEFINE K == [a \in Places |-> KnnExcluding(a, closed)]
           L == [a \in Places |-> KnnExcluding(a, more)]
           f == [a \in Places |-> weight[a] * KnnExcluding(a, closed)]
           h == [a \in Places |-> weight[a] * KnnExcluding(a, more)]
           g == [a \in Places |-> weight[a] * (L[a] - K[a])]
<1>1. \A a \in Places : K[a] \in Nat /\ L[a] \in Nat /\ K[a] <= L[a] /\ weight[a] \in Nat
  <2> TAKE a \in Places
  <2>1. K[a] \in Nat /\ L[a] \in Nat
    BY KnnIs
  <2>2. K[a] <= L[a]
    BY KnnGrows
  <2> QED
    BY <2>1, <2>2 DEF PlanTable
<1>3. \A a \in Places : a \notin T => L[a] = K[a]
  OBVIOUS
<1>5. /\ \A a \in Places : f[a] = weight[a] * K[a] /\ h[a] = weight[a] * L[a] /\ g[a] = weight[a] * (L[a] - K[a])
      /\ \A a \in T : e[a] = weight[a] * (L[a] - K[a])
  OBVIOUS
<1>6. Total(closed) = SumOver(f, Places) /\ Total(more) = SumOver(h, Places)
  <2>1. DOMAIN f = Places /\ DOMAIN h = Places
    OBVIOUS
  <2>2. Total(closed) = SumFunction(f) /\ Total(more) = SumFunction(h)
    BY DEF Total
  <2> HIDE DEF f, h
  <2> QED
    BY <2>1, <2>2 DEF SumFunction, SumFunctionOnSet, FoldFunctionOnSet, SumOver, MapThenSumSet
<1>9. IsFiniteSet(Places) /\ IsFiniteSet(T)
  BY PlanConstants, FS_Subset
<1> HIDE DEF f, h, g, K, L
<1>10. \A a \in Places : f[a] \in Nat /\ g[a] \in Nat /\ h[a] \in Nat /\ h[a] = f[a] + g[a] /\ (a \notin T => g[a] = 0)
  <2> TAKE a \in Places
  <2>1. PICK w \in Nat, x \in Nat, y \in Nat : w = weight[a] /\ x = K[a] /\ y = L[a] /\ x <= y
    BY <1>1
  <2>2. w * x \in Nat /\ w * y \in Nat /\ w * (y - x) \in Nat /\ w * y = w * x + w * (y - x) /\ (x = y => w * (y - x) = 0)
    <3>1. x <= y
      BY <2>1
    <3>2. /\ w * x \in Nat /\ w * y \in Nat /\ w * (y - x) \in Nat
          /\ w * y = w * x + w * (y - x)
          /\ x = y => w * (y - x) = 0
      BY <3>1, Distributes
    <3> QED
      BY <3>2
  <2>3. f[a] = w * x /\ h[a] = w * y /\ g[a] = w * (y - x)
    BY <1>5, <2>1
  <2>4. a \notin T => x = y
    BY <1>3, <2>1
  <2> QED
    BY <2>2, <2>3, <2>4
<1>11. SumOver(h, Places) = SumOver(f, Places) + SumOver(g, Places)
  BY <1>9, <1>10, SumPlus
<1>12. SumOver(g, Places) = SumOver(g, T)
  BY <1>9, <1>10, SumZero
<1>13. \A a \in T : g[a] \in Nat /\ e[a] = g[a]
  BY <1>5, <1>10
<1>14. SumOver(e, T) = SumOver(g, T)
  BY <1>9, <1>13, SumAgree
<1>15. SumOver(f, Places) \in Nat /\ SumOver(g, T) \in Nat
  <2>1. Places \in SUBSET Places /\ (\A a \in Places : f[a] \in Nat) /\ (\A a \in Places : g[a] \in Nat)
    BY <1>10
  <2> QED
    BY <1>9, <2>1, Sums
<1> QED
  BY <1>6, <1>11, <1>12, <1>14, <1>15

\* What closing a candidate adds for its points is what it adds for the country.
LEMMA StepAdds ==
  ASSUME PlanTable, late = 0, NEW closed \in SUBSET Candidates, NEW c \in Candidates, Cardinality(closed \cup {c}) <= MaxK,
         Cardinality(closed) <= MaxK
  PROVE  /\ Total(closed) \in Nat /\ AddedCost(c, closed) \in Nat
         /\ Total(closed \cup {c}) = Total(closed) + AddedCost(c, closed)
         /\ Beyond(closed) \in Nat /\ NewlyFar(c, closed) \in Nat
         /\ Beyond(closed \cup {c}) = Beyond(closed) + NewlyFar(c, closed)
<1> DEFINE K == [a \in Places |-> KnnExcluding(a, closed)]
           L == [a \in Places |-> KnnExcluding(a, closed \cup {c})]
           T == Touched(c, closed)
           e == [a \in T |-> weight[a] * (PointDist(a, closed \cup {c}) - PointDist(a, closed))]
<1>1. \A a \in Places : K[a] \in Nat /\ L[a] \in Nat /\ K[a] <= L[a] /\ weight[a] \in Nat
  <2> TAKE a \in Places
  <2>1. K[a] \in Nat /\ L[a] \in Nat
    BY KnnIs
  <2>2. K[a] <= L[a]
    BY KnnGrows
  <2> QED
    BY <2>1, <2>2 DEF PlanTable
<1>2. T \in SUBSET Places /\ T \subseteq Points
  <2>1. Points \subseteq Places
    BY PlanConstants DEF Points
  <2> QED
    BY <2>1 DEF Touched
<1>3. \A a \in Places : a \notin T => L[a] = K[a]
  BY TouchedOnly
<1>4. \A a \in T : PointDist(a, closed) = K[a] /\ PointDist(a, closed \cup {c}) = L[a]
  BY <1>2, TouchedOnly
<1>5. \A a \in T : e[a] = weight[a] * (KnnExcluding(a, closed \cup {c}) - KnnExcluding(a, closed))
  BY <1>2, <1>4
<1>6. AddedCost(c, closed) = SumOver(e, T)
  <2>1. DOMAIN e = T
    OBVIOUS
  <2>2. AddedCost(c, closed) = SumFunction(e)
    BY DEF AddedCost
  <2> HIDE DEF e, T
  <2> QED
    BY <2>1, <2>2 DEF SumFunction, SumFunctionOnSet, FoldFunctionOnSet, SumOver, MapThenSumSet
<1>7. Beyond(closed) = SumOver(weight, {a \in Places : K[a] > FarM}) /\ Beyond(closed \cup {c}) = SumOver(weight, {a \in Places : L[a] > FarM})
  <2>1. {a \in Places : KnnExcluding(a, closed) > FarM} = {a \in Places : K[a] > FarM}
    OBVIOUS
  <2>2. {a \in Places : KnnExcluding(a, closed \cup {c}) > FarM} = {a \in Places : L[a] > FarM}
    OBVIOUS
  <2> HIDE DEF K, L
  <2> QED
    BY <2>1, <2>2 DEF Beyond, SumFunctionOnSet, FoldFunctionOnSet, SumOver, MapThenSumSet
<1>8. NewlyFar(c, closed) = SumOver(weight, {a \in Places : K[a] <= FarM /\ FarM < L[a]})
  <2>1. {a \in T : PointDist(a, closed) <= FarM /\ FarM < PointDist(a, closed \cup {c})} = {a \in Places : K[a] <= FarM /\ FarM < L[a]}
    <3>1. \A a \in T : PointDist(a, closed) = K[a] /\ PointDist(a, closed \cup {c}) = L[a] /\ a \in Places
      BY <1>2, <1>4
    <3>2. \A a \in Places : K[a] <= FarM /\ FarM < L[a] => a \in T
      <4> TAKE a \in Places
      <4>1. K[a] \in Nat /\ FarM \in Nat
        BY <1>1, PlanConstants
      <4>2. ~(K[a] <= FarM /\ FarM < K[a])
        BY <4>1
      <4> QED
        BY <1>3, <4>2
    <3> HIDE DEF K, L, T
    <3> QED
      BY <3>1, <3>2
  <2> HIDE DEF K, L
  <2> QED
    BY <2>1 DEF NewlyFar, T, SumFunctionOnSet, FoldFunctionOnSet, SumOver, MapThenSumSet
<1>9. IsFiniteSet(Places) /\ FarM \in Nat /\ IsFiniteSet(T)
  BY <1>2, PlanConstants, FS_Subset
<1> HIDE DEF e, T
<1>15. \A a \in Places \ T : KnnExcluding(a, closed \cup {c}) = KnnExcluding(a, closed)
  BY <1>3
<1> HIDE DEF K, L
<1>16. Total(closed) \in Nat /\ AddedCost(c, closed) \in Nat /\ Total(closed \cup {c}) = Total(closed) + AddedCost(c, closed)
  <2>1. PICK more : more = closed \cup {c}
    OBVIOUS
  <2>2. closed \subseteq more /\ T \in SUBSET Places
    BY <1>2, <2>1
  <2>3. Total(closed) \in Nat /\ SumOver(e, T) \in Nat /\ Total(more) = Total(closed) + SumOver(e, T)
    <3>1. \A a \in Places \ T : KnnExcluding(a, more) = KnnExcluding(a, closed)
      BY <1>15, <2>1
    <3>2. \A a \in T : e[a] = weight[a] * (KnnExcluding(a, more) - KnnExcluding(a, closed))
      BY <1>5, <2>1
    <3>3. Lengthens(T, e, closed, more)
      BY <2>2, <3>1, <3>2 DEF Lengthens
    <3> QED
      BY <3>3, TotalAdds
  <2> QED
    BY <1>6, <2>1, <2>3
<1>17. PICK X : X = {a \in Places : K[a] > FarM}
  OBVIOUS
<1>18. PICK Y : Y = {a \in Places : L[a] > FarM}
  OBVIOUS
<1>19. PICK N : N = {a \in Places : K[a] <= FarM /\ FarM < L[a]}
  OBVIOUS
<1>20. X \in SUBSET Places /\ N \in SUBSET Places /\ Y = X \cup N /\ X \cap N = {}
  <2>1. \A a \in Places : (L[a] > FarM <=> K[a] > FarM \/ (K[a] <= FarM /\ FarM < L[a])) /\ ~(K[a] > FarM /\ K[a] <= FarM)
    <3> TAKE a \in Places
    <3>1. PICK x \in Nat, y \in Nat : x = K[a] /\ y = L[a] /\ x <= y
      BY <1>1
    <3> QED
      BY <1>9, <3>1
  <2> QED
    BY <1>17, <1>18, <1>19, <2>1
<1>21. SumOver(weight, X \cup N) = SumOver(weight, X) + SumOver(weight, N) /\ SumOver(weight, X) \in Nat /\ SumOver(weight, N) \in Nat
  <2>1. \A a \in Places : weight[a] \in Nat
    BY <1>1
  <2> QED
    BY <1>9, <1>20, <2>1, Sums
<1>22. /\ Beyond(closed) \in Nat /\ NewlyFar(c, closed) \in Nat
       /\ Beyond(closed \cup {c}) = Beyond(closed) + NewlyFar(c, closed)
  BY <1>7, <1>8, <1>17, <1>18, <1>19, <1>20, <1>21
<1> QED
  BY <1>16, <1>22

-----------------------------------------------------------------------------
\* What-ifs.
LEMMA PartialExact ==
  ASSUME PlanTable, late = 0, NEW shut \in SUBSET Facs, NEW r, r = PartialRecompute(shut)
  PROVE  /\ \A a \in Places : KnnExcluding(a, shut) = IF a \in DOMAIN r THEN r[a] ELSE KnnExcluding(a, {})
         /\ LostFinance(r) = SumFunctionOnSet(weight,
              {a \in Places : KnnExcluding(a, {}) <= FarM /\ KnnExcluding(a, shut) > FarM /\ BankDist[a] > FarM})
<1>1. DOMAIN r = Affected(shut) /\ \A a \in Affected(shut) : r[a] = After(a, shut)
  BY DEF PartialRecompute
<1>2. ASSUME NEW a \in Places
      PROVE  /\ After(a, shut) = KnnExcluding(a, shut) /\ KnnExcluding(a, {}) = table[a][AreaNearest(a)[1]]
             /\ a \notin Affected(shut) => KnnExcluding(a, shut) = KnnExcluding(a, {})
  <2>1. PICK s : s = AreaNearest(a)
    OBVIOUS
  <2>2. s = NearestOf(a, Facs, Ranks) /\ s # <<>> /\ Ranks \in Nat /\ NoDist \in Nat
    BY <2>1, NearestOne, PlanConstants
  <2>3. /\ (\A i \in DOMAIN s : s[i] \in shut) => FirstNotIn(a, s, shut) = NoDist
        /\ (\E i \in DOMAIN s : s[i] \notin shut)
              => FirstNotIn(a, s, shut) = KnnExcluding(a, shut) /\ FirstNotIn(a, s, shut) < NoDist
        /\ s[1] \notin shut => KnnExcluding(a, shut) = table[a][s[1]]
    BY <2>2, FirstIsNearest
  <2>4. KnnExcluding(a, {}) = table[a][s[1]]
    <3>1. s[1] \notin {}
      OBVIOUS
    <3> QED
      BY <2>2, <3>1, FirstIsNearest
  <2>5. After(a, shut) = IF FirstNotIn(a, s, shut) < NoDist THEN FirstNotIn(a, s, shut) ELSE KnnExcluding(a, shut)
    BY <2>1 DEF After, Search
  <2>6. ~(NoDist < NoDist)
    BY <2>2
  <2>7. After(a, shut) = KnnExcluding(a, shut)
    BY <2>3, <2>5, <2>6
  <2>8. a \notin Affected(shut) => s[1] \notin shut
    BY <2>1, <2>2 DEF Affected
  <2> QED
    BY <2>1, <2>3, <2>4, <2>7, <2>8
<1>3. Affected(shut) \subseteq Places
  BY DEF Affected
<1>4. \A a \in Places : KnnExcluding(a, shut) = IF a \in DOMAIN r THEN r[a] ELSE KnnExcluding(a, {})
  BY <1>1, <1>2, <1>3
<1>5. \A a \in Places : KnnExcluding(a, shut) \in Nat /\ KnnExcluding(a, {}) \in Nat /\ FarM \in Nat
  BY KnnIs, PlanConstants
<1>6. {a \in DOMAIN r : table[a][AreaNearest(a)[1]] <= FarM /\ r[a] > FarM /\ BankDist[a] > FarM}
        = {a \in Places : KnnExcluding(a, {}) <= FarM /\ KnnExcluding(a, shut) > FarM /\ BankDist[a] > FarM}
  <2> DEFINE X == {a \in DOMAIN r : table[a][AreaNearest(a)[1]] <= FarM /\ r[a] > FarM /\ BankDist[a] > FarM}
             Y == {a \in Places : KnnExcluding(a, {}) <= FarM /\ KnnExcluding(a, shut) > FarM /\ BankDist[a] > FarM}
  <2>1. ASSUME NEW a \in X PROVE a \in Y
    <3>1. a \in DOMAIN r /\ a \in Places /\ table[a][AreaNearest(a)[1]] <= FarM /\ r[a] > FarM /\ BankDist[a] > FarM
      BY <1>1, <1>3
    <3>2. KnnExcluding(a, {}) = table[a][AreaNearest(a)[1]] /\ KnnExcluding(a, shut) = r[a]
      BY <1>2, <1>4, <3>1
    <3> QED
      BY <3>1, <3>2
  <2>2. ASSUME NEW a \in Y PROVE a \in X
    <3>1. a \in Places /\ KnnExcluding(a, {}) <= FarM /\ KnnExcluding(a, shut) > FarM /\ BankDist[a] > FarM
      OBVIOUS
    <3>2. PICK j \in Nat, k \in Nat : j = KnnExcluding(a, {}) /\ k = KnnExcluding(a, shut)
      BY <1>5, <3>1
    <3>3. j # k
      BY <1>5, <3>1, <3>2
    <3>4. a \in Affected(shut)
      BY <1>2, <3>1, <3>2, <3>3
    <3>5. table[a][AreaNearest(a)[1]] = j /\ r[a] = k /\ a \in DOMAIN r
      BY <1>1, <1>2, <3>1, <3>2, <3>4
    <3> QED
      BY <3>1, <3>2, <3>5
  <2> HIDE DEF X, Y
  <2>3. X = Y
    BY <2>1, <2>2
  <2> QED
    BY <2>3 DEF X, Y
<1>7. LostFinance(r) = SumFunctionOnSet(weight,
        {a \in Places : KnnExcluding(a, {}) <= FarM /\ KnnExcluding(a, shut) > FarM /\ BankDist[a] > FarM})
  BY <1>6 DEF LostFinance
<1> QED
  BY <1>4, <1>7

\* A step closes the one that adds least.
Adds(c, closed) == Total(closed \cup {c}) - Total(closed)
Strands(c, closed) == Beyond(closed \cup {c}) - Beyond(closed)
LEMMA BestStep ==
  ASSUME PlanTable, late = 0, gone \in SUBSET Candidates, Cardinality(gone) < Min({MaxK, Cardinality(Candidates)}),
         NEW best,
         best = CHOOSE c \in Candidates \ gone :
                  \A d \in Candidates \ gone : StepCost(c) < StepCost(d) \/ (StepCost(c) = StepCost(d) /\ c <= d)
  PROVE  /\ best \in Candidates \ gone /\ Cardinality(gone \cup {best}) <= MaxK
         /\ StepCost(best) \in Nat /\ NewlyFar(best, gone) \in Nat
         /\ StepCost(best) = Adds(best, gone) /\ NewlyFar(best, gone) = Strands(best, gone)
         /\ \A c \in Candidates \ gone : StepCost(best) <= Adds(c, gone)
<1>1. IsFiniteSet(Candidates) /\ Candidates \in SUBSET Facs /\ Facs \in SUBSET Nat /\ MaxK \in Nat
  BY PlanConstants
<1>2. IsFiniteSet(gone) /\ Cardinality(gone) \in Nat /\ Cardinality(Candidates) \in Nat
  BY <1>1, FS_Subset, FS_CardinalityType
<1>3. Cardinality(gone) < MaxK /\ Cardinality(gone) < Cardinality(Candidates)
  <2>1. PICK m, n : m = Cardinality(gone) /\ n = Cardinality(Candidates)
    OBVIOUS
  <2>2. m < Min({MaxK, n})
    BY <2>1
  <2>3. Min({MaxK, n}) = IF MaxK <= n THEN MaxK ELSE n
    BY <1>1, <1>2, <2>1, MinOfTwo
  <2> QED
    BY <1>1, <1>2, <2>1, <2>2, <2>3
<1>4. PICK left : left = Candidates \ gone
  OBVIOUS
<1>5. left # {} /\ left \in SUBSET Candidates /\ left \in SUBSET Int
  <2>1. left = {} => gone = Candidates
    BY <1>4
  <2>2. gone # Candidates
    BY <1>2, <1>3
  <2> QED
    BY <1>1, <1>4, <2>1, <2>2
<1>6. IsFiniteSet(left)
  BY <1>1, <1>5, FS_Subset
<1>7. ASSUME NEW c \in left
      PROVE  /\ Cardinality(gone \cup {c}) <= MaxK /\ StepCost(c) \in Nat /\ StepCost(c) = Adds(c, gone)
             /\ NewlyFar(c, gone) \in Nat /\ NewlyFar(c, gone) = Strands(c, gone)
  <2>1. c \in Candidates /\ c \notin gone
    BY <1>4
  <2>2. Cardinality(gone \cup {c}) = Cardinality(gone) + 1
    BY <1>2, <2>1, FS_AddElement
  <2>3. Cardinality(gone \cup {c}) <= MaxK /\ Cardinality(gone) <= MaxK
    BY <1>1, <1>2, <1>3, <2>2
  <2>4. /\ Total(gone) \in Nat /\ AddedCost(c, gone) \in Nat
        /\ Total(gone \cup {c}) = Total(gone) + AddedCost(c, gone)
        /\ Beyond(gone) \in Nat /\ NewlyFar(c, gone) \in Nat
        /\ Beyond(gone \cup {c}) = Beyond(gone) + NewlyFar(c, gone)
    BY <2>1, <2>3, StepAdds
  <2> QED
    BY <2>3, <2>4 DEF StepCost, Adds, Strands
<1>8. \E c \in left : \A d \in left : StepCost(c) < StepCost(d) \/ (StepCost(c) = StepCost(d) /\ c <= d)
  <2> DEFINE f == [c \in left |-> 0 - StepCost(c)]
             g == [c \in left |-> 0 - c]
  <2>1. \A c \in left : f[c] = 0 - StepCost(c) /\ g[c] = 0 - c /\ f[c] \in Int /\ g[c] \in Int /\ StepCost(c) \in Int /\ c \in Int
    <3> TAKE c \in left
    <3>1. PICK n \in Nat : n = StepCost(c)
      BY <1>7
    <3>2. c \in Int
      BY <1>5
    <3> QED
      BY <3>1, <3>2
  <2> HIDE DEF f, g
  <2>2. PICK c \in left : \A d \in left : f[c] > f[d] \/ (f[c] = f[d] /\ (g[c] > g[d] \/ (g[c] = g[d] /\ c >= d)))
    BY <1>5, <1>6, <2>1, BestOf
  <2>3. ASSUME NEW d \in left PROVE StepCost(c) < StepCost(d) \/ (StepCost(c) = StepCost(d) /\ c <= d)
    <3>1. f[c] > f[d] \/ (f[c] = f[d] /\ (g[c] > g[d] \/ (g[c] = g[d] /\ c >= d)))
      BY <2>2
    <3>2. PICK x \in Int, y \in Int : x = StepCost(c) /\ y = StepCost(d)
      BY <2>1
    <3>3. f[c] = 0 - x /\ f[d] = 0 - y /\ g[c] = 0 - c /\ g[d] = 0 - d /\ c \in Int /\ d \in Int
      BY <2>1, <3>2
    <3>4. x < y \/ (x = y /\ c <= d)
      BY <3>1, <3>2, <3>3
    <3> QED
      BY <3>2, <3>4
  <2> QED
    BY <2>3
<1>9. best \in left /\ \A d \in left : StepCost(best) < StepCost(d) \/ (StepCost(best) = StepCost(d) /\ best <= d)
  BY <1>4, <1>8
<1>10. ASSUME NEW c \in left PROVE StepCost(best) <= Adds(c, gone)
  <2>1. PICK n \in Nat : n = StepCost(c) /\ n = Adds(c, gone)
    BY <1>7
  <2>2. PICK m \in Nat : m = StepCost(best)
    BY <1>7, <1>9
  <2>3. m < n \/ m = n
    <3>1. StepCost(best) < StepCost(c) \/ StepCost(best) = StepCost(c)
      BY <1>9, Zenon
    <3> QED
      BY <2>1, <2>2, <3>1, Zenon
  <2>4. m <= n
    BY <2>3
  <2> QED
    BY <2>1, <2>2, <2>4
<1> QED
  BY <1>4, <1>7, <1>9, <1>10

\* What a facility takes with it alone is the way to the second nearest.
LEMMA SingleAdds ==
  ASSUME PlanTable, late = 0, NEW c \in Candidates
  PROVE  SingleImpact(c) = Adds(c, {})
<1> DEFINE E == {b \in Points : Len(Cands(b)) >= 2 /\ Cands(b)[1] = c}
           e == [a \in E |-> weight[a] * (table[a][Cands(a)[2]] - table[a][Cands(a)[1]])]
<1>1. MaxK \in Nat /\ MaxK > 0 /\ Candidates \in SUBSET Facs /\ TopN \in Nat /\ Facs \in SUBSET Facs
  BY PlanConstants
<1>2. Points \subseteq Places
  BY PlanConstants DEF Points
<1>3. ASSUME NEW a \in Points
      PROVE  /\ a \notin E => KnnExcluding(a, {c}) = KnnExcluding(a, {})
             /\ a \in E => /\ KnnExcluding(a, {}) = table[a][Cands(a)[1]]
                           /\ KnnExcluding(a, {c}) = table[a][Cands(a)[2]]
  <2>1. a \in Places
    BY <1>2
  <2>2. {} \in SUBSET Facs /\ Cardinality({}) <= MaxK
    BY <1>1, FS_EmptySet
  <2>3. PICK s : s = Cands(a)
    OBVIOUS
  <2>4. Len(s) > MaxK
    BY <2>1, <2>2, <2>3, SomeLeft
  <2>5. s = NearestOf(a, Facs, TopN)
    BY <2>3 DEF Cands
  <2>6. s \in Seq(Facs) /\ \A i, j \in DOMAIN s : i < j => Nearer(a, s[i], s[j])
    BY <1>1, <2>1, <2>5, RankedIn
  <2>7. Len(s) >= 2 /\ 1 \in DOMAIN s /\ 2 \in DOMAIN s /\ s # <<>>
    BY <1>1, <2>4, <2>6
  <2>8. s[1] \in Facs /\ s[2] \in Facs /\ s[1] # s[2]
    <3>1. Nearer(a, s[1], s[2])
      BY <2>6, <2>7
    <3> QED
      BY <2>1, <2>6, <2>7, <3>1, NearerOrders
  <2>9. KnnExcluding(a, {}) = table[a][s[1]]
    <3>1. s[1] \notin {}
      OBVIOUS
    <3> QED
      BY <1>1, <2>1, <2>5, <2>7, <3>1, FirstIsNearest
  <2>10. ASSUME s[1] # c PROVE KnnExcluding(a, {c}) = table[a][s[1]]
    <3>1. s[1] \notin {c}
      BY <2>10
    <3> QED
      BY <1>1, <2>1, <2>5, <2>7, <3>1, FirstIsNearest
  <2>11. ASSUME s[1] = c PROVE KnnExcluding(a, {c}) = table[a][s[2]]
    <3>1. s[2] \notin {c}
      BY <2>8, <2>11
    <3>2. \A j \in DOMAIN s : j < 2 => s[j] \in {c}
      BY <2>6, <2>11
    <3>3. \A i \in DOMAIN s : s[i] \notin {c} /\ (\A j \in DOMAIN s : j < i => s[j] \in {c})
                                => KnnExcluding(a, {c}) = table[a][s[i]]
      BY <1>1, <2>1, <2>5, FirstIsNearest
    <3> QED
      BY <2>7, <3>1, <3>2, <3>3
  <2>12. a \in E <=> s[1] = c
    BY <2>3, <2>7
  <2> QED
    BY <2>3, <2>9, <2>10, <2>11, <2>12
<1>4. E \in SUBSET Places
  BY <1>2
<1>5. SingleImpact(c) = SumOver(e, E)
  <2>1. DOMAIN e = E /\ SingleImpact(c) = SumFunction(e)
    BY DEF SingleImpact
  <2> HIDE DEF e, E
  <2> QED
    BY <2>1 DEF SumFunction, SumFunctionOnSet, FoldFunctionOnSet, SumOver, MapThenSumSet
<1>6. PICK z : z = {}
  OBVIOUS
<1>7. PICK m : m = {c}
  OBVIOUS
<1>8. \A a \in E : e[a] = weight[a] * (KnnExcluding(a, m) - KnnExcluding(a, z))
  <2>1. \A a \in E : a \in Points
    OBVIOUS
  <2>2. \A a \in E : e[a] = weight[a] * (table[a][Cands(a)[2]] - table[a][Cands(a)[1]])
    OBVIOUS
  <2> HIDE DEF e, E
  <2> QED
    BY <1>3, <1>6, <1>7, <2>1, <2>2
<1> HIDE DEF e, E
<1>9. \A a \in Places \ E : KnnExcluding(a, m) = KnnExcluding(a, z)
  <2> TAKE a \in Places \ E
  <2>1. CASE a \in Points
    BY <1>3, <1>6, <1>7, <2>1
  <2>2. CASE a \notin Points
    <3>1. m \in SUBSET Candidates
      BY <1>7
    <3> QED
      BY <1>6, <2>2, <3>1, OffPoints
  <2> QED
    BY <2>1, <2>2
<1>10. z \subseteq m
  BY <1>6
<1>13. z \cup {c} = m
  BY <1>6, <1>7
<1>11. Total(z) \in Nat /\ SumOver(e, E) \in Nat /\ Total(m) = Total(z) + SumOver(e, E)
  <2>1. Lengthens(E, e, z, m)
    BY <1>4, <1>8, <1>9, <1>10 DEF Lengthens
  <2> QED
    BY <2>1, TotalAdds
<1>14. Total(z \cup {c}) = Total(m)
  BY <1>13, Zenon
<1>12. Adds(c, z) = SumOver(e, E)
  <2>1. PICK t, u, v : t = Total(z \cup {c}) /\ u = Total(z) /\ v = SumOver(e, E)
    OBVIOUS
  <2>2. t = u + v /\ u \in Nat /\ v \in Nat
    BY <1>11, <1>14, <2>1
  <2>3. t - u = v
    BY <2>2
  <2> QED
    BY <2>1, <2>3 DEF Adds
<1> QED
  BY <1>5, <1>6, <1>12

-----------------------------------------------------------------------------
\* Sites to open.
GainFor(c, s) ==
  SumFunction([a \in Near(s) |-> IF SiteDist[s][a] < c[a] THEN weight[a] * (c[a] - SiteDist[s][a]) ELSE 0])
Saved(c) == SumFunction([a \in InScope |-> weight[a] * (KnnExcluding(a, {}) - c[a])])
Gains(t) == SumFunction([i \in DOMAIN t |-> t[i].gain])
OpenWith(c, s) == [a \in InScope |-> IF a \in Near(s) THEN Min({c[a], SiteDist[s][a]}) ELSE c[a]]

LEMMA LeastOne ==
  ASSUME NEW x \in Int, NEW y, y = Min({x})
  PROVE  y = x
BY DEF Min

\* All facilities being open, the nearest is that of the table.
LEMMA KnnAll ==
  ASSUME NEW d, \A f \in Facs : d[f] \in Nat /\ d[f] < NoDist, NEW k, k = LeastIn(d, Facs, NoDist)
  PROVE  k = Min({d[f] : f \in Facs}) /\ k \in Nat
<1>1. NoDist \in Nat /\ Facs # {} /\ IsFiniteSet(Facs)
  BY PlanConstants
<1>2. k \in Nat /\ k <= NoDist /\ (\A f \in Facs : k <= d[f]) /\ (k = NoDist \/ \E f \in Facs : k = d[f])
  <2>2. \A f \in Facs : d[f] \in Nat
    OBVIOUS
  <2> QED
    BY <1>1, <2>2, LeastValue
<1>5. \E f \in Facs : k = d[f]
  BY <1>1, <1>2
<1>6. PICK I : I = {d[f] : f \in Facs}
  OBVIOUS
<1>7. k \in I /\ \A y \in I : k <= y
  BY <1>2, <1>5, <1>6
<1>8. \A y \in I : y \in Nat
  BY <1>1, <1>6
<1>9. \A x \in I : (\A y \in I : x <= y) => x = k
  BY <1>2, <1>7, <1>8
<1>10. Min(I) = k
  BY <1>7, <1>9 DEF Min
<1> QED
  BY <1>2, <1>6, <1>10

\* The distance with new sites is a number, and no longer than without them.
LEMMA NearestIs ==
  ASSUME PlanTable, NEW P \in SUBSET Sites, NEW a \in InScope
  PROVE  NearestWith(a, P) \in Nat /\ NearestWith(a, P) <= KnnExcluding(a, {})
<1>1. a \in Places /\ IsFiniteSet(Sites) /\ \A p \in Sites : SiteDist[p][a] \in Nat
  BY PlanConstants
<1> DEFINE D == [p \in Sites |-> SiteDist[p][a]]
           X == {p \in P : SiteDist[p][a] <= Radius}
<1>2. PICK k : k = KnnExcluding(a, {})
  OBVIOUS
<1>3. k \in Nat
  BY <1>1, <1>2, KnnIs
<1>4. X \in SUBSET Sites
  OBVIOUS
<1>5. \A p \in Sites : D[p] \in Nat
  BY <1>1
<1>6. {SiteDist[p][a] : p \in X} = {D[p] : p \in X}
  BY <1>4
<1>7. NearestWith(a, P) = Min({k} \cup {SiteDist[p][a] : p \in X})
  BY <1>2 DEF NearestWith
<1> HIDE DEF D, X
<1>8. NearestWith(a, P) = LeastIn(D, X, k)
  BY <1>6, <1>7 DEF LeastIn
<1>9. IsFiniteSet(X)
  BY <1>1, <1>4, FS_Subset
<1>10. \A p \in X : D[p] \in Nat
  BY <1>4, <1>5
<1>11. LeastIn(D, X, k) \in Nat /\ LeastIn(D, X, k) <= k
  BY <1>3, <1>9, <1>10, LeastValue
<1> QED
  BY <1>2, <1>8, <1>11

\* One more site brings nearer whom it is near to.
LEMMA WithOneMore ==
  ASSUME PlanTable, NEW P \in SUBSET Sites, NEW s \in Sites, NEW a \in InScope,
         NEW c, c = NearestWith(a, P), NEW n, n = NearestWith(a, P \cup {s})
  PROVE  /\ c \in Nat /\ c <= KnnExcluding(a, {})
         /\ n = IF SiteDist[s][a] <= Radius /\ SiteDist[s][a] < c THEN SiteDist[s][a] ELSE c
<1>1. a \in Places /\ IsFiniteSet(Sites) /\ \A p \in Sites : SiteDist[p][a] \in Nat
  BY PlanConstants
<1> DEFINE D == [p \in Sites |-> SiteDist[p][a]]
           X == {p \in P : SiteDist[p][a] <= Radius}
           Y == {p \in P \cup {s} : SiteDist[p][a] <= Radius}
<1>2. PICK k : k = KnnExcluding(a, {})
  OBVIOUS
<1>3. k \in Nat
  BY <1>1, <1>2, KnnIs
<1>4. X \in SUBSET Sites /\ Y \in SUBSET Sites /\ Y = IF SiteDist[s][a] <= Radius THEN X \cup {s} ELSE X
  OBVIOUS
<1>5. \A p \in Sites : D[p] = SiteDist[p][a] /\ D[p] \in Nat
  BY <1>1
<1>6. {SiteDist[p][a] : p \in X} = {D[p] : p \in X} /\ {SiteDist[p][a] : p \in Y} = {D[p] : p \in Y}
  BY <1>4
<1>7. c = Min({k} \cup {SiteDist[p][a] : p \in X}) /\ n = Min({k} \cup {SiteDist[p][a] : p \in Y})
  BY <1>2 DEF NearestWith
<1> HIDE DEF D, X, Y
<1>8. c = LeastIn(D, X, k) /\ n = LeastIn(D, Y, k)
  BY <1>6, <1>7 DEF LeastIn
<1>9. IsFiniteSet(X)
  BY <1>1, <1>4, FS_Subset
<1>11. c \in Nat /\ c <= k
  BY <1>2, NearestIs
<1>12. CASE SiteDist[s][a] <= Radius
  <2>1. Y = X \cup {s} /\ \A p \in X \cup {s} : D[p] \in Nat
    BY <1>4, <1>5, <1>12
  <2>5. NatValued(D, X, s)
    BY <2>1 DEF NatValued
  <2>2. LeastIn(D, X \cup {s}, k) = IF LeastIn(D, X, k) <= D[s] THEN LeastIn(D, X, k) ELSE D[s]
    BY <1>3, <1>9, <2>5, LeastMore
  <2>3. LeastIn(D, X \cup {s}, k) = n
    BY <1>8, <2>1, Zenon
  <2>4. n = IF c <= D[s] THEN c ELSE D[s]
    BY <1>8, <2>2, <2>3
  <2> QED
    BY <1>2, <1>5, <1>11, <1>12, <2>4
<1>13. CASE ~(SiteDist[s][a] <= Radius)
  <2>1. n = c
    BY <1>4, <1>8, <1>13
  <2> QED
    BY <1>2, <1>11, <1>13, <2>1
<1> QED
  BY <1>12, <1>13

LEMMA InParts ==
  ASSUME NEW w \in Nat, NEW k \in Nat, NEW p \in Nat, NEW q \in Nat, q <= p, p <= k
  PROVE  /\ w * (k - p) \in Nat /\ w * (k - q) \in Nat /\ w * (p - q) \in Nat /\ w * (p - q) <= w * (k - q)
         /\ w * (k - q) = w * (k - p) + w * (p - q) /\ (p = q => w * (p - q) = 0)
<1>1. PICK i \in Nat, j \in Nat : i = k - p /\ j = p - q
  OBVIOUS
<1>2. k - q = i + j /\ (p = q => j = 0)
  BY <1>1
<1>3. w * (i + j) = w * i + w * j /\ w * i \in Nat /\ w * j \in Nat /\ w * 0 = 0
  OBVIOUS
<1> QED
  BY <1>1, <1>2, <1>3

\* What a site gains, area by area.
LEMMA GainValue ==
  ASSUME PlanTable, NEW c \in [InScope -> Nat], NEW s \in Sites,
         NEW e, e = [a \in Near(s) |-> IF SiteDist[s][a] < c[a] THEN weight[a] * (c[a] - SiteDist[s][a]) ELSE 0]
  PROVE  GainFor(c, s) = SumOver(e, Near(s)) /\ GainFor(c, s) \in Nat /\ \A a \in Near(s) : e[a] \in Nat
<1>1. Near(s) \in SUBSET InScope /\ IsFiniteSet(InScope) /\ InScope \in SUBSET Places
  BY PlanConstants DEF Near
<1>2. IsFiniteSet(Near(s))
  BY <1>1, FS_Subset
<1>3. ASSUME NEW a \in Near(s) PROVE e[a] \in Nat
  <2>1. PICK w \in Nat, x \in Nat, y \in Nat : w = weight[a] /\ x = c[a] /\ y = SiteDist[s][a]
    BY <1>1, PlanConstants DEF PlanTable
  <2>2. e[a] = IF y < x THEN w * (x - y) ELSE 0
    BY <2>1
  <2>3. y < x => w * (x - y) \in Nat
    <3>1. y < x => y <= x
      BY <2>1
    <3> QED
      BY <2>1, <3>1, Distributes, Zenon
  <2> QED
    BY <2>2, <2>3
<1>4. GainFor(c, s) = SumOver(e, Near(s))
  <2>1. DOMAIN e = Near(s) /\ GainFor(c, s) = SumFunction(e)
    BY DEF GainFor
  <2> QED
    BY <2>1 DEF SumFunction, SumFunctionOnSet, FoldFunctionOnSet, SumOver, MapThenSumSet
<1>5. PICK S : S = Near(s)
  OBVIOUS
<1>6. S \in SUBSET S /\ IsFiniteSet(S) /\ \A a \in S : e[a] \in Nat
  BY <1>2, <1>3, <1>5
<1>7. SumOver(e, S) \in Nat
  BY <1>6, Sums
<1> QED
  BY <1>3, <1>4, <1>5, <1>7

\* The nearer all are already, the less a site gains.
LEMMA GainFalls ==
  ASSUME PlanTable, NEW c \in [InScope -> Nat], NEW n \in [InScope -> Nat], \A a \in InScope : n[a] <= c[a], NEW s \in Sites
  PROVE  GainFor(n, s) <= GainFor(c, s) /\ GainFor(n, s) \in Nat /\ GainFor(c, s) \in Nat
<1> DEFINE e == [a \in Near(s) |-> IF SiteDist[s][a] < c[a] THEN weight[a] * (c[a] - SiteDist[s][a]) ELSE 0]
           d == [a \in Near(s) |-> IF SiteDist[s][a] < n[a] THEN weight[a] * (n[a] - SiteDist[s][a]) ELSE 0]
<1>1. Near(s) \in SUBSET InScope /\ IsFiniteSet(InScope) /\ InScope \in SUBSET Places
  BY PlanConstants DEF Near
<1>2. IsFiniteSet(Near(s))
  BY <1>1, FS_Subset
<1>3. GainFor(c, s) = SumOver(e, Near(s)) /\ GainFor(c, s) \in Nat /\ \A a \in Near(s) : e[a] \in Nat
  BY GainValue
<1>4. GainFor(n, s) = SumOver(d, Near(s)) /\ GainFor(n, s) \in Nat /\ \A a \in Near(s) : d[a] \in Nat
  BY GainValue
<1>5. ASSUME NEW a \in Near(s) PROVE d[a] <= e[a]
  <2>1. PICK w \in Nat, x \in Nat, y \in Nat, z \in Nat : w = weight[a] /\ x = c[a] /\ y = SiteDist[s][a] /\ z = n[a] /\ z <= x
    BY <1>1, PlanConstants DEF PlanTable
  <2>2. e[a] = (IF y < x THEN w * (x - y) ELSE 0) /\ d[a] = (IF y < z THEN w * (z - y) ELSE 0)
    BY <2>1
  <2>3. e[a] \in Nat
    BY <1>3
  <2>4. CASE y < z
    <3>1. y <= z /\ z <= x /\ y < x
      BY <2>1, <2>4
    <3>2. w * (z - y) <= w * (x - y)
      BY <3>1, InParts
    <3>3. e[a] = w * (x - y) /\ d[a] = w * (z - y)
      BY <2>2, <2>4, <3>1
    <3> QED
      BY <3>2, <3>3
  <2>5. CASE ~(y < z)
    BY <2>2, <2>3, <2>5
  <2> QED
    BY <2>4, <2>5
<1> HIDE DEF d, e
<1>6. PICK S : S = Near(s)
  OBVIOUS
<1>7. IsFiniteSet(S) /\ \A a \in S : d[a] \in Nat /\ e[a] \in Nat /\ d[a] <= e[a]
  BY <1>2, <1>3, <1>4, <1>5, <1>6
<1>8. SumOver(d, S) <= SumOver(e, S)
  BY <1>7, SumLess
<1> QED
  BY <1>3, <1>4, <1>6, <1>8

\* What a site gains is what it saves.
LEMMA GainSaves ==
  ASSUME PlanTable, NEW c \in [InScope -> Nat], \A a \in InScope : c[a] <= KnnExcluding(a, {}), NEW s \in Sites,
         NEW n, n = OpenWith(c, s)
  PROVE  /\ n \in [InScope -> Nat] /\ \A a \in InScope : n[a] <= c[a]
         /\ \A a \in InScope : n[a] = IF SiteDist[s][a] <= Radius /\ SiteDist[s][a] < c[a] THEN SiteDist[s][a] ELSE c[a]
         /\ Saved(n) = Saved(c) + GainFor(c, s)
<1> DEFINE e == [a \in Near(s) |-> IF SiteDist[s][a] < c[a] THEN weight[a] * (c[a] - SiteDist[s][a]) ELSE 0]
           g == [a \in InScope |-> weight[a] * (c[a] - n[a])]
           x == [a \in InScope |-> weight[a] * (KnnExcluding(a, {}) - c[a])]
           y == [a \in InScope |-> weight[a] * (KnnExcluding(a, {}) - n[a])]
<1>1. Near(s) \in SUBSET InScope /\ IsFiniteSet(InScope) /\ InScope \in SUBSET Places
  BY PlanConstants DEF Near
<1>2. IsFiniteSet(Near(s))
  BY <1>1, FS_Subset
<1>3. GainFor(c, s) = SumOver(e, Near(s)) /\ \A a \in Near(s) : e[a] \in Nat
  BY GainValue
<1>4. \A a \in InScope : SiteDist[s][a] \in Nat /\ c[a] \in Nat /\ (a \in Near(s) <=> SiteDist[s][a] <= Radius)
  BY PlanConstants DEF Near
<1>5. \A a \in InScope : n[a] = IF SiteDist[s][a] <= Radius /\ SiteDist[s][a] < c[a] THEN SiteDist[s][a] ELSE c[a]
  <2> TAKE a \in InScope
  <2>1. PICK u \in Nat, v \in Nat : u = c[a] /\ v = SiteDist[s][a]
    BY <1>4
  <2>2. n[a] = IF a \in Near(s) THEN Min({u, v}) ELSE u
    BY <2>1 DEF OpenWith
  <2>3. Min({u, v}) = IF u <= v THEN u ELSE v
    BY <2>1, MinOfTwo
  <2> QED
    BY <1>4, <2>1, <2>2, <2>3
<1>6. n \in [InScope -> Nat] /\ \A a \in InScope : n[a] <= c[a]
  <2>1. \A a \in InScope : n[a] \in Nat /\ n[a] <= c[a]
    BY <1>4, <1>5
  <2>2. n = [a \in InScope |-> n[a]]
    BY DEF OpenWith
  <2> QED
    BY <2>1, <2>2
<1>7. ASSUME NEW a \in InScope
      PROVE  /\ x[a] \in Nat /\ g[a] \in Nat /\ y[a] = x[a] + g[a]
             /\ (a \in Near(s) => e[a] = g[a]) /\ (a \notin Near(s) => g[a] = 0)
  <2>1. KnnExcluding(a, {}) \in Nat
    BY <1>1, KnnIs
  <2>2. PICK w \in Nat, k \in Nat, p \in Nat, q \in Nat, v \in Nat :
          w = weight[a] /\ k = KnnExcluding(a, {}) /\ p = c[a] /\ q = n[a] /\ v = SiteDist[s][a] /\ q <= p /\ p <= k
    BY <1>1, <1>4, <1>6, <2>1 DEF PlanTable
  <2>3. q <= p /\ p <= k
    BY <2>2
  <2>4. /\ w * (k - p) \in Nat /\ w * (k - q) \in Nat /\ w * (p - q) \in Nat /\ w * (p - q) <= w * (k - q)
        /\ w * (k - q) = w * (k - p) + w * (p - q) /\ (p = q => w * (p - q) = 0)
    BY <2>3, InParts
  <2>5. x[a] = w * (k - p) /\ y[a] = w * (k - q) /\ g[a] = w * (p - q)
    BY <2>2
  <2>7. a \notin Near(s) => p = q
    BY <1>4, <1>5, <2>2
  <2>8. a \in Near(s) => e[a] = g[a]
    <3>1. CASE a \in Near(s) /\ v < p
      <4>1. e[a] = w * (p - v) /\ q = v
        BY <1>4, <1>5, <2>2, <3>1
      <4> QED
        BY <2>5, <4>1
    <3>2. CASE a \in Near(s) /\ ~(v < p)
      <4>1. e[a] = 0 /\ q = p
        BY <1>4, <1>5, <2>2, <3>2
      <4> QED
        BY <2>4, <2>5, <4>1
    <3> QED
      BY <3>1, <3>2
  <2> HIDE DEF x, y, g, e
  <2> QED
    BY <2>4, <2>5, <2>7, <2>8
<1>8. Saved(c) = SumOver(x, InScope) /\ Saved(n) = SumOver(y, InScope)
  <2>1. DOMAIN x = InScope /\ DOMAIN y = InScope /\ Saved(c) = SumFunction(x) /\ Saved(n) = SumFunction(y)
    BY DEF Saved
  <2> HIDE DEF x, y
  <2> QED
    BY <2>1 DEF SumFunction, SumFunctionOnSet, FoldFunctionOnSet, SumOver, MapThenSumSet
<1> HIDE DEF x, y, g, e
<1>9. SumOver(y, InScope) = SumOver(x, InScope) + SumOver(g, InScope)
  <2>1. \A a \in InScope : x[a] \in Nat /\ g[a] \in Nat /\ y[a] = x[a] + g[a]
    BY <1>7
  <2> QED
    BY <1>1, <2>1, SumPlus
<1>10. PICK S : S = Near(s)
  OBVIOUS
<1>11. SumOver(g, InScope) = SumOver(g, S)
  <2>1. S \in SUBSET InScope /\ (\A a \in InScope : g[a] \in Nat) /\ \A a \in InScope \ S : g[a] = 0
    BY <1>1, <1>7, <1>10
  <2> QED
    BY <1>1, <2>1, SumZero
<1>12. SumOver(e, S) = SumOver(g, S)
  <2>1. IsFiniteSet(S) /\ \A a \in S : g[a] \in Nat /\ e[a] = g[a]
    BY <1>1, <1>2, <1>7, <1>10
  <2> QED
    BY <2>1, SumAgree
<1> QED
  BY <1>3, <1>5, <1>6, <1>8, <1>9, <1>10, <1>11, <1>12

\* The site taken gains as much as any.
LEMMA BestSite ==
  ASSUME PlanTable, cur \in [InScope -> Nat], NEW left \in SUBSET Sites, left # {},
         NEW best, best = CHOOSE s \in left : \A t \in left : Better(s, t)
  PROVE  best \in left /\ \A t \in left : Gain(t) \in Nat /\ Gain(best) \in Nat /\ Gain(t) <= Gain(best)
<1>1. IsFiniteSet(left) /\ left \in SUBSET Int
  <2>1. IsFiniteSet(Sites) /\ Sites \in SUBSET Nat
    BY PlanConstants
  <2>2. left \in SUBSET Nat
    BY <2>1
  <2>3. left \in SUBSET Sites
    OBVIOUS
  <2>4. IsFiniteSet(left)
    BY <2>1, <2>3, FS_Subset
  <2> QED
    BY <2>2, <2>4
<1>2. \A s \in left : Gain(s) \in Nat
  <2> TAKE s \in left
  <2>1. Gain(s) = GainFor(cur, s)
    BY DEF Gain, GainFor
  <2> DEFINE e == [a \in Near(s) |-> IF SiteDist[s][a] < cur[a] THEN weight[a] * (cur[a] - SiteDist[s][a]) ELSE 0]
  <2>2. s \in Sites
    OBVIOUS
  <2>3. PICK d : d = e
    OBVIOUS
  <2>4. GainFor(cur, s) \in Nat
    BY <2>2, <2>3, GainValue
  <2> QED
    BY <2>1, <2>4
<1>3. \A s \in left : NewlyNear(s) \in Nat
  <2> TAKE s \in left
  <2>1. PICK X : X = {a \in Near(s) : SiteDist[s][a] < cur[a] /\ cur[a] > FarM /\ FarM >= SiteDist[s][a]}
    OBVIOUS
  <2>2. X \in SUBSET Places /\ IsFiniteSet(Places) /\ \A a \in Places : weight[a] \in Nat
    <3>1. Near(s) \subseteq Places
      BY PlanConstants DEF Near
    <3> QED
      BY <2>1, <3>1, PlanConstants DEF PlanTable
  <2>3. NewlyNear(s) = SumOver(weight, X)
    BY <2>1 DEF NewlyNear, SumFunctionOnSet, FoldFunctionOnSet, SumOver, MapThenSumSet
  <2>4. SumOver(weight, X) \in Nat
    BY <2>2, Sums
  <2> QED
    BY <2>3, <2>4
<1> DEFINE f == [s \in left |-> Gain(s)]
           g == [s \in left |-> NewlyNear(s)]
<1>4. \A s \in left : f[s] = Gain(s) /\ g[s] = NewlyNear(s) /\ f[s] \in Int /\ g[s] \in Int
  BY <1>2, <1>3
<1> HIDE DEF f, g
<1>5. \E s \in left : \A t \in left : f[s] > f[t] \/ (f[s] = f[t] /\ (g[s] > g[t] \/ (g[s] = g[t] /\ s >= t)))
  BY <1>1, <1>4, BestOf
<1>6. \E s \in left : \A t \in left : Better(s, t)
  <2>1. PICK s \in left : \A t \in left : f[s] > f[t] \/ (f[s] = f[t] /\ (g[s] > g[t] \/ (g[s] = g[t] /\ s >= t)))
    BY <1>5
  <2>2. \A t \in left : Better(s, t)
    BY <1>4, <2>1 DEF Better
  <2> QED
    BY <2>2
<1>7. best \in left /\ \A t \in left : Better(best, t)
  BY <1>6
<1>8. ASSUME NEW t \in left PROVE Gain(t) <= Gain(best)
  <2>1. PICK x \in Nat, y \in Nat : x = Gain(best) /\ y = Gain(t)
    BY <1>2, <1>7
  <2>2. Gain(best) > Gain(t) \/ Gain(best) = Gain(t)
    BY <1>7 DEF Better
  <2>3. x > y \/ x = y
    BY <2>1, <2>2, Zenon
  <2>4. y <= x
    BY <2>3
  <2> QED
    BY <2>1, <2>4
<1> QED
  BY <1>2, <1>7, <1>8

Opening == [site : Sites, gain : Nat]
\* What has been gained, when one more is told.
LEMMA GainsNext ==
  ASSUME NEW t, t \in Seq(Opening), NEW e, e \in Opening, NEW u, u = Append(t, e), NEW d, d = e.gain
  PROVE  Gains(u) = Gains(t) + d
<1>1. /\ u \in Seq(Opening) /\ DOMAIN u = DOMAIN t \cup {Len(t) + 1}
      /\ u[Len(t) + 1] = e /\ \A i \in DOMAIN t : u[i] = t[i] /\ i < Len(t) + 1
      /\ Len(t) \in Nat /\ DOMAIN t = 1 .. Len(t)
  OBVIOUS
<1>2. PICK n \in Nat : n = Len(t) + 1
  BY <1>1
<1> DEFINE f == [i \in DOMAIN t |-> t[i].gain]
           g == [i \in DOMAIN u |-> u[i].gain]
<1>3. PICK S : S = DOMAIN t
  OBVIOUS
<1>4. PICK R : R = DOMAIN u
  OBVIOUS
<1>5. IsFiniteSet(S) /\ n \notin S /\ R = S \cup {n} /\ R \ {n} = S
  <2>1. S = 1 .. Len(t) /\ Len(t) \in Nat
    BY <1>1, <1>3
  <2>2. IsFiniteSet(S) /\ n \notin S
    BY <1>2, <2>1, FS_Interval
  <2> QED
    BY <1>1, <1>2, <1>3, <1>4, <2>2
<1>6. IsFiniteSet(R)
  BY <1>5, FS_AddElement
<1>7. (\A i \in S : f[i] \in Nat /\ g[i] = f[i]) /\ g[n] = e.gain /\ e.gain \in Nat /\ \A i \in R : g[i] \in Nat
  <2>1. \A i \in S : t[i] \in Opening
    BY <1>1, <1>3, ElementOfSeq
  <2>2. \A i \in S : f[i] = t[i].gain /\ f[i] \in Nat
    BY <1>3, <2>1 DEF Opening
  <2>3. \A i \in R : g[i] = u[i].gain
    BY <1>4
  <2>4. e.gain \in Nat
    BY DEF Opening
  <2> HIDE DEF f, g
  <2> QED
    BY <1>1, <1>2, <1>3, <1>5, <2>2, <2>3, <2>4
<1>8. Gains(t) = SumOver(f, S) /\ Gains(u) = SumOver(g, R)
  <2>1. DOMAIN f = S /\ DOMAIN g = R /\ Gains(t) = SumFunction(f) /\ Gains(u) = SumFunction(g)
    BY <1>3, <1>4 DEF Gains
  <2> HIDE DEF f, g
  <2> QED
    BY <2>1 DEF SumFunction, SumFunctionOnSet, FoldFunctionOnSet, SumOver, MapThenSumSet
<1> HIDE DEF f, g
<1>9. SumOver(g, R) = g[n] + SumOver(g, R \ {n})
  <2>1. PICK G : G = g
    OBVIOUS
  <2>2. PICK Z : Z = R
    OBVIOUS
  <2>5. PICK m : m = n
    OBVIOUS
  <2>3. IsFiniteSet(R) /\ Z \in SUBSET R /\ m \in Z /\ \A i \in R : G[i] \in Nat
    BY <1>5, <1>6, <1>7, <2>1, <2>2, <2>5
  <2>4. SumOver(G, Z) = G[m] + SumOver(G, Z \ {m})
    BY <2>3, SumNext
  <2> QED
    BY <2>1, <2>2, <2>4, <2>5
<1>10. SumOver(g, S) = SumOver(f, S)
  BY <1>5, <1>7, SumAgree
<1>11. SumOver(f, S) \in Nat
  <2>1. S \in SUBSET S /\ \A i \in S : f[i] \in Nat
    BY <1>7
  <2> QED
    BY <1>5, <2>1, Sums
<1>12. SumOver(g, R \ {n}) = SumOver(g, S)
  BY <1>5, Zenon
<1> QED
  BY <1>1, <1>7, <1>8, <1>9, <1>10, <1>11, <1>12

-----------------------------------------------------------------------------
\* What an answer says, after every step.
Steps == Seq([fac : Candidates, cost : Nat, far : Nat])
Openings == Seq(Opening)
Exact(e, before) ==
  /\ e.cost = Adds(e.fac, before) /\ e.far = Strands(e.fac, before)
  /\ \A c \in Candidates \ before : e.cost <= Adds(c, before)
NotAsked == late = 0 /\ gone = {} /\ told = <<>> /\ picked = {}
Recomputed == gone \in SUBSET Facs /\ (told = <<>> \/ told = <<PartialRecompute(gone)>>)
Closed ==
  /\ late = 0 /\ gone \in SUBSET Candidates /\ Cardinality(gone) <= MaxK
  /\ told \in Steps /\ gone = UpTo(Len(told)) /\ \A i \in DOMAIN told : Exact(told[i], UpTo(i - 1))
Opened ==
  /\ picked \in SUBSET Sites /\ cur = [a \in InScope |-> NearestWith(a, picked)]
  /\ told \in Openings /\ Gains(told) = Saved(cur)
  /\ \A i, j \in DOMAIN told : i < j => told[i].gain >= told[j].gain
  /\ \A i \in DOMAIN told, s \in Sites \ picked : Gain(s) <= told[i].gain
PlanInv ==
  /\ asked \in {"none", "whatif", "close", "open"}
  /\ asked # "none" => PlanTable
  /\ asked = "none" => NotAsked
  /\ asked = "whatif" => Recomputed
  /\ asked = "close" => Closed
  /\ asked = "open" => Opened

LEMMA PlanInvExact == PlanInv => ShortcutsAreExact
<1> SUFFICES ASSUME PlanInv PROVE PartialIsFull /\ CloseIsExact /\ OpenAddsUp
  BY DEF ShortcutsAreExact
<1>1. PartialIsFull
  <2> SUFFICES ASSUME asked = "whatif", told # <<>>, late = 0
               PROVE  /\ \A a \in Places : KnnExcluding(a, gone) = IF a \in DOMAIN told[1] THEN told[1][a] ELSE KnnExcluding(a, {})
                      /\ LostFinance(told[1]) = SumFunctionOnSet(weight,
                           {a \in Places : KnnExcluding(a, {}) <= FarM /\ KnnExcluding(a, gone) > FarM /\ BankDist[a] > FarM})
    BY DEF PartialIsFull
  <2>1. PlanTable /\ gone \in SUBSET Facs /\ told[1] = PartialRecompute(gone)
    BY DEF PlanInv, Recomputed
  <2>2. PICK r : r = told[1]
    OBVIOUS
  <2>3. /\ \A a \in Places : KnnExcluding(a, gone) = IF a \in DOMAIN r THEN r[a] ELSE KnnExcluding(a, {})
        /\ LostFinance(r) = SumFunctionOnSet(weight,
             {a \in Places : KnnExcluding(a, {}) <= FarM /\ KnnExcluding(a, gone) > FarM /\ BankDist[a] > FarM})
    BY <2>1, <2>2, PartialExact
  <2> QED
    BY <2>2, <2>3
<1>2. CloseIsExact
  <2> SUFFICES ASSUME asked = "close"
               PROVE  /\ \A i \in DOMAIN told : Exact(told[i], UpTo(i - 1))
                      /\ \A c \in Candidates : SingleImpact(c) = Adds(c, {})
    BY DEF CloseIsExact, Exact, Adds, Strands
  <2>1. PlanTable /\ late = 0 /\ \A i \in DOMAIN told : Exact(told[i], UpTo(i - 1))
    BY DEF PlanInv, Closed
  <2> QED
    BY <2>1, SingleAdds
<1>3. OpenAddsUp
  <2> SUFFICES ASSUME asked = "open"
               PROVE  /\ \A i, j \in DOMAIN told : i < j => told[i].gain >= told[j].gain
                      /\ Gains(told) =
                           SumFunction([a \in InScope |-> weight[a] * (KnnExcluding(a, {}) - NearestWith(a, picked))])
    BY DEF OpenAddsUp, Gains
  <2>1. Opened
    BY DEF PlanInv
  <2>2. \A a \in InScope : cur[a] = NearestWith(a, picked)
    BY <2>1 DEF Opened
  <2>3. [a \in InScope |-> weight[a] * (KnnExcluding(a, {}) - cur[a])]
          = [a \in InScope |-> weight[a] * (KnnExcluding(a, {}) - NearestWith(a, picked))]
    BY <2>2
  <2> QED
    BY <2>1, <2>3 DEF Opened, Saved
<1> QED
  BY <1>1, <1>2, <1>3

\* What a partial recompute answers depends on the distances and on which
\* facility came late alone.
LEMMA SameRecompute ==
  ASSUME table' = table, late' = late
  PROVE  \A rem : PartialRecompute(rem)' = PartialRecompute(rem)
<1>1. \A a, fs, i : Ranked(a, fs, i)' = Ranked(a, fs, i)
  BY DEF Ranked, Nearer
<1>2. \A a, fs, n : NearestOf(a, fs, n)' = NearestOf(a, fs, n)
  BY <1>1 DEF NearestOf
<1>3. \A a : AreaNearest(a)' = AreaNearest(a)
  <2> TAKE a
  <2>1. PICK fs : fs = FacsOfCalc
    OBVIOUS
  <2>2. fs = FacsOfCalc'
    BY <2>1 DEF FacsOfCalc
  <2>3. AreaNearest(a) = NearestOf(a, fs, Ranks)
    BY <2>1 DEF AreaNearest
  <2>4. AreaNearest(a)' = NearestOf(a, fs, Ranks)'
    BY <2>2 DEF AreaNearest, NearestOf, Ranked, Nearer
  <2> QED
    BY <1>2, <2>3, <2>4
<1>4. \A a, s, rem : FirstNotIn(a, s, rem)' = FirstNotIn(a, s, rem)
  BY DEF FirstNotIn
<1>5. \A a, rem : Search(a, rem)' = Search(a, rem)
  BY DEF Search, KnnExcluding
<1>6. \A a, rem : After(a, rem)' = After(a, rem)
  <2> TAKE a, rem
  <2>1. PICK s : s = AreaNearest(a)
    OBVIOUS
  <2>2. s = AreaNearest(a)'
    BY <1>3, <2>1
  <2>3. PICK d : d = FirstNotIn(a, s, rem)
    OBVIOUS
  <2>4. d = FirstNotIn(a, s, rem)'
    BY <1>4, <2>3
  <2>5. After(a, rem) = IF d < NoDist THEN d ELSE Search(a, rem)
    BY <2>1, <2>3 DEF After
  <2>6. After(a, rem)' = IF d < NoDist THEN d ELSE Search(a, rem)'
    BY <2>2, <2>4 DEF After, FirstNotIn
  <2> QED
    BY <1>5, <2>5, <2>6
<1>7. \A rem : Affected(rem)' = Affected(rem)
  BY <1>3 DEF Affected
<1> QED
  BY <1>6, <1>7 DEF PartialRecompute

\* What is found depends on the distances and the weights alone.
LEMMA SameDistances ==
  ASSUME table' = table, weight' = weight
  PROVE  /\ \A a, shut : KnnExcluding(a, shut)' = KnnExcluding(a, shut)
         /\ \A closed : Total(closed)' = Total(closed) /\ Beyond(closed)' = Beyond(closed)
         /\ \A e, before : Exact(e, before)' = Exact(e, before)
         /\ \A a, sites : NearestWith(a, sites)' = NearestWith(a, sites)
         /\ \A c : Saved(c)' = Saved(c)
         /\ \A c, s : GainFor(c, s)' = GainFor(c, s)
<1>1. \A a, shut : KnnExcluding(a, shut)' = KnnExcluding(a, shut)
  BY DEF KnnExcluding
<1>2. \A closed : Total(closed)' = Total(closed)
  BY <1>1 DEF Total
<1>3. \A closed : Beyond(closed)' = Beyond(closed)
  BY <1>1 DEF Beyond
<1>4. \A e, before : Exact(e, before)' = Exact(e, before)
  BY <1>2, <1>3 DEF Exact, Adds, Strands
<1>5. \A a, sites : NearestWith(a, sites)' = NearestWith(a, sites)
  BY <1>1 DEF NearestWith
<1>6. \A c : Saved(c)' = Saved(c)
  BY <1>1 DEF Saved
<1>7. \A c, s : GainFor(c, s)' = GainFor(c, s)
  BY DEF GainFor
<1> QED
  BY <1>1, <1>2, <1>3, <1>4, <1>5, <1>6, <1>7

LEMMA AskedInv ==
  ASSUME PlanInv, NEW t \in Tables, NEW w \in Weights,
         CloseAsked(t, w) \/ OpenAsked(t, w) \/ \E l \in {0} \cup Facs, shut \in SUBSET Facs : WhatIfAsked(t, w, l, shut)
  PROVE  PlanInv'
<1>1. PlanTable' /\ NotAsked
  <2>1. table' = t /\ weight' = w /\ asked = "none"
    BY DEF CloseAsked, OpenAsked, WhatIfAsked
  <2>2. t \in [Places -> [Facs -> 0 .. NoDist - 1]] /\ w \in [Places -> Nat]
    BY PlanningAssumption
  <2> QED
    BY <2>1, <2>2 DEF PlanTable, PlanInv
<1>2. ASSUME NEW l \in {0} \cup Facs, NEW shut \in SUBSET Facs, WhatIfAsked(t, w, l, shut) PROVE PlanInv'
  <2>1. asked' = "whatif" /\ Recomputed'
    BY <1>1, <1>2 DEF WhatIfAsked, NotAsked, Recomputed
  <2> QED
    BY <1>1, <2>1 DEF PlanInv
<1>3. ASSUME CloseAsked(t, w) PROVE PlanInv'
  <2>1. asked' = "close" /\ late' = 0 /\ gone' = {} /\ told' = <<>>
    BY <1>1, <1>3 DEF CloseAsked, NotAsked
  <2>2. Cardinality({}) <= MaxK
    BY PlanConstants, FS_EmptySet
  <2>3. <<>> \in Steps /\ Len(<<>>) = 0 /\ DOMAIN <<>> = {}
    BY DEF Steps
  <2>4. UpTo(0)' = {}
    BY DEF UpTo
  <2>5. Closed'
    <3>1. told' \in Steps /\ DOMAIN told' = {} /\ Len(told') = 0
      BY <2>1, <2>3
    <3>2. gone' = UpTo(Len(told))'
      BY <2>1, <3>1 DEF UpTo
    <3> QED
      BY <2>1, <2>2, <3>1, <3>2 DEF Closed, Steps
  <2> QED
    BY <1>1, <2>1, <2>5 DEF PlanInv
<1>4. ASSUME OpenAsked(t, w) PROVE PlanInv'
  <2>1. /\ asked' = "open" /\ table' = t /\ weight' = w /\ picked' = {} /\ told' = <<>>
        /\ cur' = [a \in InScope |-> Min({t[a][f] : f \in Facs})]
    BY <1>1, <1>4 DEF OpenAsked, NotAsked
  <2>2. <<>> \in Openings /\ DOMAIN <<>> = {}
    BY DEF Openings
  <2>3. told' \in Openings /\ DOMAIN told' = {}
    BY <2>1, <2>2
  <2>4. ASSUME NEW a \in InScope
        PROVE  cur'[a] = NearestWith(a, picked)' /\ cur'[a] = KnnExcluding(a, {})' /\ cur'[a] \in Nat
    <3>1. PICK d : d = t[a]
      OBVIOUS
    <3>2. \A f \in Facs : d[f] \in Nat /\ d[f] < NoDist
      <4>1. d \in [Facs -> 0 .. NoDist - 1] /\ NoDist \in Nat
        BY <3>1, PlanningAssumption, PlanConstants
      <4> QED
        BY <4>1
    <3>3. PICK k : k = LeastIn(d, Facs, NoDist)
      OBVIOUS
    <3>4. k = Min({d[f] : f \in Facs}) /\ k \in Nat
      BY <3>2, <3>3, KnnAll
    <3>5. cur'[a] = k
      BY <2>1, <3>1, <3>4
    <3>6. KnnExcluding(a, {})' = k
      <4>1. Facs \ {} = Facs
        OBVIOUS
      <4> QED
        BY <2>1, <3>1, <3>3, <4>1 DEF KnnExcluding, LeastIn
    <3>7. NearestWith(a, picked)' = Min({k})
      <4>1. {SiteDist[s][a] : s \in {p \in picked' : SiteDist[p][a] <= Radius}} = {}
        BY <2>1
      <4>2. {k} \cup {} = {k}
        OBVIOUS
      <4> QED
        BY <3>6, <4>1, <4>2 DEF NearestWith
    <3>8. Min({k}) = k
      BY <3>4, LeastOne
    <3> QED
      BY <3>4, <3>5, <3>6, <3>7, <3>8
  <2>5. Gains(told)' = 0
    <3>1. PICK f : f = [i \in DOMAIN told' |-> told'[i].gain]
      OBVIOUS
    <3>2. DOMAIN f = {} /\ Gains(told)' = SumFunction(f)
      BY <2>3, <3>1 DEF Gains
    <3>3. Gains(told)' = SumOver(f, {})
      BY <3>2 DEF SumFunction, SumFunctionOnSet, FoldFunctionOnSet, SumOver, MapThenSumSet
    <3>4. PICK S : S = {}
      OBVIOUS
    <3>5. IsFiniteSet(S) /\ \A i \in S : f[i] \in Nat
      BY <3>4, FS_EmptySet
    <3> QED
      BY <3>3, <3>5, Sums
  <2>6. Saved(cur)' = 0
    <3>1. PICK f : f = [a \in InScope |-> weight'[a] * (KnnExcluding(a, {})' - cur'[a])]
      OBVIOUS
    <3>2. \A a \in InScope : f[a] = 0
      <4> TAKE a \in InScope
      <4>1. PICK k \in Nat, v \in Nat : k = cur'[a] /\ v = weight'[a]
        BY <1>1, <2>4, PlanConstants DEF PlanTable
      <4>2. f[a] = v * (k - k)
        BY <2>4, <3>1, <4>1
      <4>3. k - k = 0 /\ v * 0 = 0
        OBVIOUS
      <4> QED
        BY <4>2, <4>3
    <3>3. DOMAIN f = InScope /\ Saved(cur)' = SumFunction(f)
      BY <3>1 DEF Saved
    <3>4. Saved(cur)' = SumOver(f, InScope)
      BY <3>3 DEF SumFunction, SumFunctionOnSet, FoldFunctionOnSet, SumOver, MapThenSumSet
    <3>5. PICK T : T = {}
      OBVIOUS
    <3>6. IsFiniteSet(InScope) /\ (\A a \in InScope : f[a] \in Nat) /\ T \in SUBSET InScope /\ \A a \in InScope \ T : f[a] = 0
      BY <3>2, <3>5, PlanConstants
    <3>7. SumOver(f, InScope) = SumOver(f, T)
      BY <3>6, SumZero
    <3>8. SumOver(f, T) = 0
      BY <3>5, <3>6, Sums
    <3> QED
      BY <3>4, <3>7, <3>8
  <2>7. Opened'
    <3>1. cur' = [a \in InScope |-> NearestWith(a, picked)']
      <4>1. cur' = [a \in InScope |-> cur'[a]]
        BY <2>1
      <4>2. \A a \in InScope : cur'[a] = NearestWith(a, picked)'
        BY <2>4
      <4> QED
        BY <4>1, <4>2
    <3> QED
      BY <2>1, <2>3, <2>5, <2>6, <3>1 DEF Opened
  <2> QED
    BY <1>1, <2>1, <2>7 DEF PlanInv
<1> QED
  BY <1>2, <1>3, <1>4

LEMMA WhatIfInv ==
  ASSUME PlanInv, WhatIf
  PROVE  PlanInv'
<1>1. PlanTable' /\ asked' = "whatif" /\ gone' = gone /\ gone \in SUBSET Facs /\ table' = table /\ late' = late
      /\ told' = <<PartialRecompute(gone)>>
  BY DEF WhatIf, PlanInv, PlanTable, Recomputed
<1>2. PartialRecompute(gone)' = PartialRecompute(gone)
  <2>1. PICK rem : rem = gone
    OBVIOUS
  <2>2. rem = gone'
    BY <1>1, <2>1
  <2>3. PartialRecompute(rem)' = PartialRecompute(rem)
    BY <1>1, SameRecompute
  <2> QED
    BY <2>1, <2>2, <2>3 DEF PartialRecompute, Affected
<1> QED
  BY <1>1, <1>2 DEF PlanInv, Recomputed

LEMMA CloseInv ==
  ASSUME PlanInv, CloseStep
  PROVE  PlanInv'
<1>1. /\ PlanTable /\ Closed /\ PlanTable' /\ asked' = "close" /\ table' = table /\ weight' = weight /\ late' = late
      /\ Cardinality(gone) < Min({MaxK, Cardinality(Candidates)})
  BY DEF CloseStep, PlanInv, PlanTable
<1>2. /\ late = 0 /\ gone \in SUBSET Candidates /\ told \in Steps /\ gone = UpTo(Len(told))
      /\ \A i \in DOMAIN told : Exact(told[i], UpTo(i - 1))
  BY <1>1 DEF Closed
<1>3. PICK best : best = CHOOSE c \in Candidates \ gone :
                    \A d \in Candidates \ gone : StepCost(c) < StepCost(d) \/ (StepCost(c) = StepCost(d) /\ c <= d)
  OBVIOUS
<1>4. PICK e : e = [fac |-> best, cost |-> StepCost(best), far |-> NewlyFar(best, gone)]
  OBVIOUS
<1>5. gone' = gone \cup {best} /\ told' = Append(told, e)
  BY <1>3, <1>4 DEF CloseStep
<1>6. /\ best \in Candidates \ gone /\ Cardinality(gone \cup {best}) <= MaxK
      /\ StepCost(best) \in Nat /\ NewlyFar(best, gone) \in Nat
      /\ StepCost(best) = Adds(best, gone) /\ NewlyFar(best, gone) = Strands(best, gone)
      /\ \A c \in Candidates \ gone : StepCost(best) <= Adds(c, gone)
  BY <1>1, <1>2, <1>3, BestStep
<1>7. e \in [fac : Candidates, cost : Nat, far : Nat] /\ e.fac = best /\ Exact(e, gone)
  BY <1>4, <1>6 DEF Exact
<1>8. PICK n \in Nat : n = Len(told) /\ DOMAIN told = 1 .. n
  BY <1>2 DEF Steps
<1>9. /\ told' \in Steps /\ Len(told') = n + 1 /\ DOMAIN told' = 1 .. n + 1
      /\ told'[n + 1] = e /\ \A i \in 1 .. n : told'[i] = told[i]
  <2>1. PICK t : t = told /\ t \in Seq([fac : Candidates, cost : Nat, far : Nat]) /\ Len(t) = n
    BY <1>2, <1>8 DEF Steps
  <2>2. PICK u : u = Append(t, e)
    OBVIOUS
  <2>3. /\ u \in Seq([fac : Candidates, cost : Nat, far : Nat]) /\ Len(u) = n + 1 /\ DOMAIN u = 1 .. n + 1
        /\ u[n + 1] = e /\ \A i \in 1 .. n : u[i] = t[i]
    BY <1>7, <2>1, <2>2
  <2> QED
    BY <1>5, <2>1, <2>2, <2>3 DEF Steps
<1>10. ASSUME NEW m \in 0 .. n PROVE UpTo(m)' = UpTo(m)
  <2>1. \A i \in 1 .. m : told'[i].fac = told[i].fac
    BY <1>9
  <2>2. {told'[i].fac : i \in 1 .. m} = {told[i].fac : i \in 1 .. m}
    BY <2>1
  <2> QED
    BY <2>2 DEF UpTo
<1>11. UpTo(n + 1)' = gone \cup {best}
  <2>1. PICK F : F = [i \in 1 .. n |-> told[i].fac]
    OBVIOUS
  <2>2. \A i \in 1 .. n : told'[i].fac = F[i]
    BY <1>9, <2>1
  <2>3. told'[n + 1].fac = best
    BY <1>7, <1>9
  <2>4. gone = {F[i] : i \in 1 .. n}
    BY <1>2, <1>8, <2>1 DEF UpTo
  <2>5. {told'[i].fac : i \in 1 .. n + 1} = {F[i] : i \in 1 .. n} \cup {best}
    <3>1. 1 .. n + 1 = (1 .. n) \cup {n + 1}
      BY <1>8
    <3> QED
      BY <2>2, <2>3, <3>1
  <2> QED
    BY <2>4, <2>5 DEF UpTo
<1>12. ASSUME NEW i \in DOMAIN told' PROVE Exact(told[i], UpTo(i - 1))'
  <2>1. i - 1 \in 0 .. n
    BY <1>9
  <2>2. PICK b : b = UpTo(i - 1)
    OBVIOUS
  <2>3. UpTo(i - 1)' = b
    <3>1. PICK m \in 0 .. n : m = i - 1
      BY <2>1
    <3> QED
      BY <1>10, <2>2, <3>1
  <2>4. PICK x : x = told'[i]
    OBVIOUS
  <2>5. Exact(x, b)
    <3>1. CASE i \in 1 .. n
      <4>1. x = told[i] /\ Exact(told[i], UpTo(i - 1))
        BY <1>2, <1>8, <1>9, <2>4, <3>1
      <4> QED
        BY <2>2, <4>1
    <3>2. CASE i = n + 1
      <4>1. x = e /\ i - 1 = n /\ b = UpTo(Len(told))
        BY <1>8, <1>9, <2>2, <2>4, <3>2
      <4>2. b = gone
        BY <1>2, <4>1
      <4> QED
        BY <1>7, <4>1, <4>2
    <3> QED
      BY <1>9, <3>1, <3>2
  <2>6. Exact(x, b)'
    BY <1>1, <2>5, SameDistances
  <2> QED
    BY <2>3, <2>4, <2>6 DEF Exact
<1>13. Closed'
  <2>1. gone' \in SUBSET Candidates /\ Cardinality(gone') <= MaxK
    BY <1>2, <1>5, <1>6
  <2>2. gone' = UpTo(Len(told))'
    BY <1>5, <1>9, <1>11 DEF UpTo
  <2> QED
    BY <1>1, <1>2, <1>9, <1>12, <2>1, <2>2 DEF Closed, Steps
<1> QED
  BY <1>1, <1>13 DEF PlanInv

LEMMA OpenInv ==
  ASSUME PlanInv, OpenStep
  PROVE  PlanInv'
<1>1. /\ PlanTable /\ Opened /\ PlanTable' /\ asked' = "open" /\ table' = table /\ weight' = weight
  BY DEF OpenStep, PlanInv, PlanTable
<1>2. /\ picked \in SUBSET Sites /\ cur = [a \in InScope |-> NearestWith(a, picked)]
      /\ told \in Openings /\ Gains(told) = Saved(cur)
      /\ \A i, j \in DOMAIN told : i < j => told[i].gain >= told[j].gain
      /\ \A i \in DOMAIN told, s \in Sites \ picked : Gain(s) <= told[i].gain
  BY <1>1 DEF Opened
<1>3. PICK left : left = Sites \ picked
  OBVIOUS
<1>4. PICK best : best = CHOOSE s \in left : \A t \in left : Better(s, t)
  OBVIOUS
<1>5. PICK e : e = [site |-> best, gain |-> Gain(best)]
  OBVIOUS
<1>6. PICK c : c = cur
  OBVIOUS
<1>7. PICK n : n = OpenWith(c, best)
  OBVIOUS
<1>8. left # {} /\ picked' = picked \cup {best} /\ told' = Append(told, e) /\ cur' = n
  BY <1>3, <1>4, <1>5, <1>6, <1>7 DEF OpenStep, OpenWith
<1>9. c \in [InScope -> Nat] /\ \A a \in InScope : c[a] <= KnnExcluding(a, {}) /\ c[a] = NearestWith(a, picked)
  <2>2. \A a \in InScope : NearestWith(a, picked) \in Nat /\ NearestWith(a, picked) <= KnnExcluding(a, {})
    <3> TAKE a \in InScope
    <3> QED
      BY <1>1, <1>2, NearestIs
  <2> QED
    BY <1>2, <1>6, <2>2
<1>10. best \in left /\ \A t \in left : Gain(t) \in Nat /\ Gain(best) \in Nat /\ Gain(t) <= Gain(best)
  <2>1. cur \in [InScope -> Nat] /\ left \in SUBSET Sites
    BY <1>3, <1>6, <1>9
  <2> QED
    BY <1>1, <1>4, <1>8, <2>1, BestSite
<1>11. best \in Sites /\ best \notin picked /\ Gain(best) \in Nat
  BY <1>3, <1>10
<1>12. /\ n \in [InScope -> Nat] /\ \A a \in InScope : n[a] <= c[a]
       /\ \A a \in InScope : n[a] = IF SiteDist[best][a] <= Radius /\ SiteDist[best][a] < c[a] THEN SiteDist[best][a] ELSE c[a]
       /\ Saved(n) = Saved(c) + GainFor(c, best)
  BY <1>1, <1>7, <1>9, <1>11, GainSaves
<1>13. e \in Opening /\ e.gain = Gain(best)
  BY <1>5, <1>11 DEF Opening
<1>14. PICK t : t = told
  OBVIOUS
<1>15. PICK u : u = Append(t, e)
  OBVIOUS
<1>16. /\ u \in Seq(Opening) /\ DOMAIN u = DOMAIN t \cup {Len(t) + 1}
       /\ u[Len(t) + 1] = e /\ \A i \in DOMAIN t : u[i] = t[i] /\ i < Len(t) + 1
       /\ Gains(u) = Gains(t) + e.gain
  <2>1. t \in Seq(Opening)
    BY <1>2, <1>14 DEF Openings
  <2> QED
    <3>1. e \in Opening
      BY <1>13
    <3>2. u = Append(t, e)
      BY <1>15
    <3>3. PICK d : d = e.gain
      OBVIOUS
    <3>4. Gains(u) = Gains(t) + d
      BY <2>1, <3>1, <3>2, <3>3, GainsNext
    <3>5. /\ u \in Seq(Opening) /\ DOMAIN u = DOMAIN t \cup {Len(t) + 1}
          /\ u[Len(t) + 1] = e /\ \A i \in DOMAIN t : u[i] = t[i] /\ i < Len(t) + 1
      BY <2>1, <3>1, <3>2
    <3> QED
      BY <3>3, <3>4, <3>5
<1>17. told' = u
  BY <1>8, <1>14, <1>15
<1>18. \A s : Gain(s) = GainFor(c, s)
  BY <1>6 DEF Gain, GainFor
<1>19. \A s : Gain(s)' = GainFor(n, s)
  BY <1>1, <1>8 DEF Gain, GainFor
<1>20. \A i \in DOMAIN t : t[i].gain \in Nat
  <2>1. \A i \in DOMAIN t : t[i] \in Opening
    <3>1. t \in Seq(Opening)
      BY <1>2, <1>14 DEF Openings
    <3>2. DOMAIN t = 1 .. Len(t)
      BY <3>1
    <3> QED
      BY <3>1, <3>2, ElementOfSeq
  <2> QED
    BY <2>1 DEF Opening
<1>21. cur' = [a \in InScope |-> NearestWith(a, picked)']
  <2>1. \A a \in InScope : n[a] = NearestWith(a, picked \cup {best})
    <3> TAKE a \in InScope
    <3>1. PICK k : k = NearestWith(a, picked)
      OBVIOUS
    <3>2. PICK m : m = NearestWith(a, picked \cup {best})
      OBVIOUS
    <3>3. m = IF SiteDist[best][a] <= Radius /\ SiteDist[best][a] < k THEN SiteDist[best][a] ELSE k
      BY <1>1, <1>2, <1>11, <3>1, <3>2, WithOneMore
    <3>4. c[a] = k
      BY <1>9, <3>1
    <3> QED
      BY <1>12, <3>2, <3>3, <3>4
  <2>2. PICK P : P = picked \cup {best}
    OBVIOUS
  <2>3. \A a \in InScope : n[a] = NearestWith(a, P)
    BY <2>1, <2>2
  <2>4. \A a \in InScope : NearestWith(a, P)' = NearestWith(a, P)
    BY <1>1, SameDistances
  <2>5. \A a \in InScope : NearestWith(a, picked)' = NearestWith(a, P)'
    BY <1>8, <2>2 DEF NearestWith
  <2>6. \A a \in InScope : n[a] = NearestWith(a, picked)'
    BY <2>3, <2>4, <2>5
  <2>7. n = [a \in InScope |-> n[a]]
    BY <1>12
  <2> QED
    BY <1>8, <2>6, <2>7
<1>22. Gains(told)' = Saved(cur)'
  <2>1. Gains(t) = Saved(c)
    BY <1>2, <1>6, <1>14
  <2>2. Gains(u) = Saved(n)
    BY <1>12, <1>13, <1>16, <1>18, <2>1
  <2>3. Saved(n)' = Saved(n)
    BY <1>1, SameDistances
  <2>4. Saved(cur)' = Saved(n)' /\ Gains(told)' = Gains(u)
    BY <1>8, <1>17 DEF Saved, Gains
  <2> QED
    BY <2>2, <2>3, <2>4
<1>23. ASSUME NEW i \in DOMAIN u, NEW j \in DOMAIN u, i < j PROVE u[i].gain >= u[j].gain
  <2>1. Len(t) \in Nat /\ DOMAIN t = 1 .. Len(t)
    BY <1>2, <1>14 DEF Openings
  <2>2. i \in DOMAIN t
    BY <1>16, <1>23, <2>1
  <2>3. CASE j \in DOMAIN t
    BY <1>2, <1>14, <1>16, <1>23, <2>2, <2>3
  <2>4. CASE j = Len(t) + 1
    <3>1. u[j].gain = Gain(best) /\ u[i] = t[i]
      BY <1>13, <1>16, <2>2, <2>4
    <3>2. Gain(best) <= t[i].gain
      BY <1>2, <1>11, <1>14, <2>2
    <3> QED
      BY <1>11, <1>20, <2>2, <3>1, <3>2
  <2> QED
    BY <1>16, <2>3, <2>4
<1>24. ASSUME NEW i \in DOMAIN u, NEW s \in Sites \ (picked \cup {best}) PROVE GainFor(n, s) <= u[i].gain
  <2>1. s \in left /\ s \in Sites /\ s \notin picked
    BY <1>3, <1>24
  <2>2. GainFor(n, s) <= GainFor(c, s) /\ GainFor(n, s) \in Nat /\ GainFor(c, s) \in Nat
    BY <1>1, <1>9, <1>12, <2>1, GainFalls
  <2>3. GainFor(c, s) <= u[i].gain /\ u[i].gain \in Nat
    <3>1. CASE i \in DOMAIN t
      <4>1. u[i] = t[i] /\ t[i].gain \in Nat
        BY <1>16, <1>20, <3>1
      <4>2. Gain(s) <= t[i].gain
        BY <1>2, <1>14, <2>1, <3>1
      <4> QED
        BY <1>18, <4>1, <4>2
    <3>2. CASE i = Len(t) + 1
      <4>1. u[i].gain = Gain(best)
        BY <1>13, <1>16, <3>2
      <4> QED
        BY <1>10, <1>18, <2>1, <4>1
    <3> QED
      BY <1>16, <3>1, <3>2
  <2> QED
    BY <2>2, <2>3
<1>25. Opened'
  <2>1. picked' \in SUBSET Sites
    BY <1>2, <1>8, <1>11
  <2>2. told' \in Openings
    BY <1>16, <1>17 DEF Openings
  <2>3. \A i, j \in DOMAIN told' : i < j => told'[i].gain >= told'[j].gain
    BY <1>17, <1>23
  <2>4. \A i \in DOMAIN told', s \in Sites \ picked' : Gain(s)' <= told'[i].gain
    BY <1>8, <1>17, <1>19, <1>24
  <2> QED
    BY <1>21, <1>22, <2>1, <2>2, <2>3, <2>4 DEF Opened, Openings
<1> QED
  BY <1>1, <1>25 DEF PlanInv

\* Whatever is asked of the API, the few nearest facilities that calc or a
\* query took lead to the answer that all of them would: of what closing some
\* does, of which to close one after the other, and of where to open.
THEOREM ShortcutsExact == PlanSpec => []ShortcutsAreExact
<1>1. PlanInit => PlanInv
  BY DEF PlanInit, PlanInv, NotAsked
<1>2. PlanInv /\ [PlanNext]_planVars => PlanInv'
  <2> SUFFICES ASSUME PlanInv, [PlanNext]_planVars PROVE PlanInv'
    OBVIOUS
  <2>1. ASSUME NEW t \in Tables, NEW w \in Weights,
               CloseAsked(t, w) \/ OpenAsked(t, w) \/ \E l \in {0} \cup Facs, shut \in SUBSET Facs : WhatIfAsked(t, w, l, shut)
        PROVE  PlanInv'
    BY <2>1, AskedInv
  <2>2. CASE WhatIf
    BY <2>2, WhatIfInv
  <2>3. CASE CloseStep
    BY <2>3, CloseInv
  <2>4. CASE OpenStep
    BY <2>4, OpenInv
  <2>5. CASE UNCHANGED planVars
    <3>1. /\ table' = table /\ weight' = weight /\ late' = late /\ asked' = asked /\ gone' = gone /\ told' = told
          /\ cur' = cur /\ picked' = picked
      BY <2>5 DEF planVars
    <3>2. (PlanTable => PlanTable') /\ (NotAsked => NotAsked')
      BY <3>1 DEF PlanTable, NotAsked
    <3>3. Recomputed => Recomputed'
      <4>1. PartialRecompute(gone)' = PartialRecompute(gone)
        BY <3>1, SameRecompute
      <4> QED
        BY <3>1, <4>1 DEF Recomputed
    <3>4. Closed => Closed'
      <4>1. \A m : UpTo(m)' = UpTo(m)
        BY <3>1 DEF UpTo
      <4>2. \A e, before : Exact(e, before)' = Exact(e, before)
        BY <3>1, SameDistances
      <4>3. \A i : Exact(told[i], UpTo(i - 1))' = Exact(told[i], UpTo(i - 1))
        <5> TAKE i
        <5>1. PICK e, b : e = told[i] /\ b = UpTo(i - 1)
          OBVIOUS
        <5>2. told'[i] = e /\ UpTo(i - 1)' = b
          BY <3>1, <4>1, <5>1
        <5>3. Exact(told[i], UpTo(i - 1))' = Exact(e, b)'
          BY <5>2 DEF Exact
        <5> QED
          BY <4>2, <5>1, <5>3
      <4>4. UpTo(Len(told))' = UpTo(Len(told))
        BY <3>1 DEF UpTo
      <4> QED
        BY <3>1, <4>3, <4>4 DEF Closed, Steps
    <3>5. Opened => Opened'
      <4>1. (\A a : NearestWith(a, picked)' = NearestWith(a, picked)) /\ Saved(cur)' = Saved(cur)
        BY <3>1 DEF NearestWith, Saved, KnnExcluding
      <4>2. Gains(told)' = Gains(told) /\ \A s : Gain(s)' = Gain(s)
        BY <3>1 DEF Gains, Gain
      <4> QED
        BY <3>1, <4>1, <4>2 DEF Opened, Openings
    <3> QED
      BY <3>1, <3>2, <3>3, <3>4, <3>5 DEF PlanInv
  <2> QED
    BY <2>1, <2>2, <2>3, <2>4, <2>5 DEF PlanNext
<1>3. PlanInv => ShortcutsAreExact
  BY PlanInvExact
<1> QED
  BY <1>1, <1>2, <1>3, PTL DEF PlanSpec
=============================================================================
