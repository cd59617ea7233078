----------------------------- MODULE SlotsProofs ------------------------------
(***************************************************************************)
(* What Slots says of any number of schedule threads, kinds and times.     *)
(* DueSlotIsServed speaks of slots whose time is over.  It is kept up by   *)
(* what a pass does to the slots that are due: once a thread has looked    *)
(* (LookedServed), each of them is served or still on the thread's list,   *)
(* and a slot is passed over only where it is served (SlotsServed).        *)
(***************************************************************************)
EXTENDS Slots, FiniteSetTheorems, TLAPS

SlotsServed == \A sl \in slots : Served(sl[1], sl[2])

LookedServed ==
    \A s \in looked : \A sl \in Due : sl \in todo[s] \/ Served(sl[1], sl[2])

\* The jobs made for a kind are as many as its slots that have one.
TimesMade(k) == {t \in Time : <<k, t>> \in slots}
MadeIsCounted == \A k \in Kinds : made[k] = Cardinality(TimesMade(k))

IInv == SlotTypeOK /\ SlotsServed /\ LookedServed /\ DueSlotIsServed /\ MadeIsCounted
-----------------------------------------------------------------------------
LEMMA TimeIsFinite == IsFiniteSet(Time)
<1>1. 0 \in Int /\ MaxTime \in Int
  BY SlotAssumption
<1> QED
  BY <1>1, FS_Interval DEF Time

LEMMA InitIInv == SInit => IInv
<1> SUFFICES ASSUME SInit PROVE IInv
  OBVIOUS
<1> USE SlotAssumption DEF SInit
<1>1. SlotTypeOK
  BY DEF QInit, SlotTypeOK, QTypeOK, Time, Never
<1>2. SlotsServed /\ LookedServed
  BY DEF SlotsServed, LookedServed
<1>3. DueSlotIsServed
  BY DEF DueSlotIsServed, Time
<1>4. MadeIsCounted
  <2>1. \A k \in Kinds : TimesMade(k) = {}
    BY DEF TimesMade
  <2> QED
    BY <2>1, FS_EmptySet DEF MadeIsCounted
<1> QED
  BY <1>1, <1>2, <1>3, <1>4 DEF IInv

\* The types survive every step.
LEMMA NextType == SlotTypeOK /\ [SNext]_svars => SlotTypeOK'
<1> SUFFICES ASSUME SlotTypeOK, [SNext]_svars PROVE SlotTypeOK'
  OBVIOUS
<1> USE SlotAssumption DEF SlotTypeOK, QTypeOK, Time, Never
<1>1. CASE Tick
  BY <1>1 DEF Tick, qvars
<1>2. ASSUME NEW s \in Schedulers, Up(s) PROVE SlotTypeOK'
  BY <1>2 DEF Up, qvars
<1>3. ASSUME NEW s \in Schedulers, Down(s) PROVE SlotTypeOK'
  BY <1>3 DEF Down, qvars
<1>4. ASSUME NEW s \in Schedulers, Look(s) PROVE SlotTypeOK'
  <2>1. Due \in SUBSET (Kinds \X Time) /\ \A sl \in Due : sl[2] \in Occurs[sl[1]] /\ sl[2] <= now
    BY DEF Due
  <2> QED
    BY <1>4, <2>1 DEF Look, qvars
<1>5. ASSUME NEW s \in Schedulers, NEW sl \in todo[s], TrySlot(s, sl)
      PROVE  /\ todo' \in [Schedulers -> SUBSET (Kinds \X Time)]
             /\ \A r \in Schedulers : todo'[r] \in SUBSET todo[r]
             /\ calm' \in [Schedulers -> Time \cup {Never}]
             /\ s \in up
             /\ \A r \in Schedulers : r \notin up => calm'[r] = calm[r]
             /\ UNCHANGED <<now, looked, up, taken>>
  BY <1>5 DEF TrySlot
<1>6. ASSUME NEW s \in Schedulers, NEW sl \in todo[s], InsertSlot(s, sl) PROVE SlotTypeOK'
  <2>1. sl[1] \in Kinds /\ sl \in Kinds \X Time /\ sl[2] \in Occurs[sl[1]] /\ sl[2] <= now
    OBVIOUS
  <2>2. TrySlot(s, sl)
    BY <1>6 DEF InsertSlot
  <2>3. waiting' \in SUBSET Kinds /\ UNCHANGED active
    BY <1>6, <2>1 DEF InsertSlot
  <2>4. slots' = slots \cup {sl} /\ made' \in [Kinds -> Nat]
    BY <1>6, <2>1 DEF InsertSlot
  <2> QED
    BY <1>5, <2>1, <2>2, <2>3, <2>4
<1>7. ASSUME NEW s \in Schedulers, NEW sl \in todo[s], PassOver(s, sl) PROVE SlotTypeOK'
  BY <1>5, <1>7 DEF PassOver, qvars
<1>8. ASSUME NEW k \in Kinds, Call(k) PROVE SlotTypeOK'
  BY <1>8 DEF Call, Request, threadVars
<1>9. ASSUME NEW k \in Kinds, Begin(k) PROVE SlotTypeOK'
  BY <1>9 DEF Begin, Start, threadVars
<1>10. ASSUME NEW k \in Kinds, End(k) PROVE SlotTypeOK'
  BY <1>10 DEF End, Complete, threadVars
<1>11. ASSUME NEW k \in Kinds, CancelWaiting(k) PROVE SlotTypeOK'
  BY <1>11 DEF CancelWaiting, Withdraw, threadVars
<1>12. ASSUME NEW gone \in SUBSET active, NEW retry \in SUBSET gone,
              Interrupt(retry, gone \ retry)
       PROVE  SlotTypeOK'
  BY <1>12 DEF Interrupt, Recover, threadVars
<1>13. CASE UNCHANGED svars
  BY <1>13 DEF svars
<1> QED
  BY <1>1, <1>2, <1>3, <1>4, <1>6, <1>7, <1>8, <1>9, <1>10, <1>11, <1>12, <1>13 DEF SNext

-----------------------------------------------------------------------------
\* What a step of the queue may be for a kind: what was served stays so.
LEMMA ServedStays ==
    ASSUME SlotTypeOK, [SNext]_svars, NEW k \in Kinds, NEW t \in Nat, t <= now, Served(k, t)
    PROVE  Served(k, t)'
<1> USE SlotAssumption DEF SlotTypeOK, QTypeOK, Time, Served
<1>1. ASSUME waiting \subseteq waiting', UNCHANGED taken PROVE Served(k, t)'
  BY <1>1
<1>2. CASE Tick
  BY <1>1, <1>2 DEF Tick, qvars
<1>3. ASSUME NEW s \in Schedulers,
             \/ Up(s) \/ Down(s) \/ Look(s)
             \/ \E sl \in todo[s] : InsertSlot(s, sl) \/ PassOver(s, sl)
      PROVE  Served(k, t)'
  <2>1. waiting \subseteq waiting' /\ UNCHANGED taken
    BY <1>3 DEF Up, Down, Look, InsertSlot, PassOver, TrySlot, qvars
  <2> QED
    BY <1>1, <2>1
<1>4. ASSUME NEW l \in Kinds, Call(l) \/ End(l) PROVE Served(k, t)'
  BY <1>1, <1>4 DEF Call, Request, End, Complete
<1>5. ASSUME NEW l \in Kinds, Begin(l) PROVE Served(k, t)'
  BY <1>5 DEF Begin, Start
<1>6. ASSUME NEW l \in Kinds, CancelWaiting(l) PROVE Served(k, t)'
  BY <1>6 DEF CancelWaiting, Withdraw
<1>7. ASSUME NEW gone \in SUBSET active, NEW retry \in SUBSET gone,
             Interrupt(retry, gone \ retry)
      PROVE  Served(k, t)'
  BY <1>1, <1>7 DEF Interrupt, Recover
<1>8. CASE UNCHANGED svars
  BY <1>1, <1>8 DEF svars
<1> QED
  BY <1>2, <1>3, <1>4, <1>5, <1>6, <1>7, <1>8 DEF SNext

\* Steps other than those of the schedule threads and of time.
QueueStep ==
    \/ \E k \in Kinds : Call(k) \/ Begin(k) \/ End(k) \/ CancelWaiting(k)
    \/ \E gone \in SUBSET active : \E retry \in SUBSET gone : Interrupt(retry, gone \ retry)
    \/ UNCHANGED svars

LEMMA QueueStepKeeps ==
    ASSUME QueueStep PROVE UNCHANGED <<now, slots, todo, looked, calm, up, made>>
  BY DEF QueueStep, Call, Begin, End, CancelWaiting, Interrupt, threadVars, svars

LEMMA NextSlotsServed == IInv /\ [SNext]_svars => SlotsServed'
<1> SUFFICES ASSUME IInv, [SNext]_svars, NEW sl \in slots' PROVE Served(sl[1], sl[2])'
  BY DEF SlotsServed
<1> USE SlotAssumption
<1>1. CASE sl \in slots
  <2>1. sl[1] \in Kinds /\ sl[2] \in Nat /\ sl[2] <= now /\ Served(sl[1], sl[2])
    BY <1>1 DEF IInv, SlotTypeOK, SlotsServed, Time
  <2> QED
    BY <2>1, ServedStays DEF IInv
<1>2. CASE sl \notin slots
  <2>1. PICK s \in Schedulers : \E x \in todo[s] : InsertSlot(s, x)
    <3>1. CASE QueueStep
      BY <1>2, <3>1, QueueStepKeeps
    <3>2. CASE Tick
      BY <1>2, <3>2 DEF Tick
    <3>3. ASSUME NEW s \in Schedulers,
                 Up(s) \/ Down(s) \/ Look(s) \/ \E x \in todo[s] : PassOver(s, x)
          PROVE  FALSE
      BY <1>2, <3>3 DEF Up, Down, Look, PassOver
    <3> QED
      BY <3>1, <3>2, <3>3 DEF SNext, QueueStep
  <2>2. sl[1] \in waiting'
    BY <1>2, <2>1 DEF InsertSlot
  <2> QED
    BY <2>2 DEF Served
<1> QED
  BY <1>1, <1>2

LEMMA NextLookedServed == IInv /\ [SNext]_svars => LookedServed'
<1> SUFFICES ASSUME IInv, [SNext]_svars, NEW s \in looked', NEW sl \in Due', sl \notin todo'[s]
             PROVE  Served(sl[1], sl[2])'
  BY DEF LookedServed
<1> USE SlotAssumption
<1>1. sl[1] \in Kinds /\ sl[2] \in Nat
  BY DEF Due, Time
<1>2. ASSUME s \in looked, UNCHANGED now, sl \notin todo[s] PROVE Served(sl[1], sl[2])'
  <2>1. sl \in Due
    BY <1>2 DEF Due
  <2>2. sl[2] <= now /\ Served(sl[1], sl[2])
    BY <1>2, <2>1 DEF IInv, LookedServed, Due
  <2> QED
    BY <1>1, <2>2, ServedStays DEF IInv
<1>3. CASE QueueStep
  BY <1>2, <1>3, QueueStepKeeps
<1>4. CASE Tick
  BY <1>4 DEF Tick
<1>5. s \in Schedulers \/ QueueStep \/ Tick
  <2>1. looked \subseteq Schedulers
    BY DEF IInv, SlotTypeOK
  <2>2. ASSUME NEW r \in Schedulers,
               \/ Up(r) \/ Down(r) \/ Look(r)
               \/ \E x \in todo[r] : InsertSlot(r, x) \/ PassOver(r, x)
        PROVE  s \in Schedulers
    BY <2>1, <2>2 DEF Up, Down, Look, InsertSlot, PassOver, TrySlot
  <2> QED
    BY <2>2 DEF SNext, QueueStep
<1>6. ASSUME s \in Schedulers, NEW r \in Schedulers, Up(r) PROVE Served(sl[1], sl[2])'
  BY <1>2, <1>6 DEF Up
<1>7. ASSUME s \in Schedulers, NEW r \in Schedulers, Down(r) PROVE Served(sl[1], sl[2])'
  <2>1. s # r /\ s \in looked /\ UNCHANGED now
    BY <1>7 DEF Down
  <2>2. todo'[s] = todo[s]
    BY <1>7, <2>1 DEF Down, IInv, SlotTypeOK
  <2> QED
    BY <1>2, <2>1, <2>2
<1>8. ASSUME s \in Schedulers, NEW r \in Schedulers, Look(r) PROVE Served(sl[1], sl[2])'
  <2>1. CASE s = r
    <3>1. todo'[s] = Due /\ UNCHANGED now
      BY <1>8, <2>1 DEF Look, IInv, SlotTypeOK
    <3> QED
      BY <3>1 DEF Due
  <2>2. CASE s # r
    <3>1. s \in looked /\ UNCHANGED now /\ todo'[s] = todo[s]
      BY <1>8, <2>2 DEF Look, IInv, SlotTypeOK
    <3> QED
      BY <1>2, <3>1
  <2> QED
    BY <2>1, <2>2
<1>9. ASSUME s \in Schedulers, NEW r \in Schedulers, NEW x \in todo[r],
             InsertSlot(r, x) \/ PassOver(r, x)
      PROVE  Served(sl[1], sl[2])'
  <2>1. TrySlot(r, x) /\ s \in looked /\ UNCHANGED now
    BY <1>9 DEF InsertSlot, PassOver, TrySlot
  <2>2. CASE sl \notin todo[s]
    BY <1>2, <2>1, <2>2
  <2>3. CASE sl \in todo[s]
    <3>1. sl = x
      BY <1>9, <2>1, <2>3 DEF TrySlot, IInv, SlotTypeOK
    <3>2. CASE InsertSlot(r, x)
      BY <3>1, <3>2 DEF InsertSlot, Served
    <3>3. CASE PassOver(r, x)
      <4>1. x \in slots \/ x[1] \in waiting
        BY <3>3 DEF PassOver, Insertable
      <4>2. Served(sl[1], sl[2])
        BY <3>1, <4>1 DEF IInv, SlotsServed, Served
      <4>3. sl[2] <= now
        BY <1>9, <2>3 DEF IInv, SlotTypeOK
      <4> QED
        BY <1>1, <4>2, <4>3, ServedStays DEF IInv
    <3> QED
      BY <1>9, <3>2, <3>3
  <2> QED
    BY <2>2, <2>3
<1> QED
  BY <1>3, <1>4, <1>5, <1>6, <1>7, <1>8, <1>9 DEF SNext, QueueStep

LEMMA NextDueIsServed == IInv /\ [SNext]_svars => DueSlotIsServed'
<1> SUFFICES ASSUME IInv, [SNext]_svars,
                    NEW k \in Kinds, NEW t \in Occurs[k] \cap Time, t < now',
                    NEW s \in Schedulers, calm'[s] < now', calm'[s] < t + Window
             PROVE  Served(k, t)'
  BY DEF DueSlotIsServed
<1> USE SlotAssumption
<1>1. t \in Nat /\ now \in Nat /\ now <= MaxTime /\ calm[s] \in Nat
  BY DEF IInv, SlotTypeOK, Time, Never
<1>2. ASSUME t < now, calm[s] < now, calm[s] < t + Window PROVE Served(k, t)'
  <2>1. Served(k, t)
    BY <1>2 DEF IInv, DueSlotIsServed
  <2> QED
    BY <1>1, <1>2, <2>1, ServedStays DEF IInv
<1>3. CASE QueueStep
  BY <1>2, <1>3, QueueStepKeeps
<1>4. ASSUME NEW r \in Schedulers,
             \/ Up(r) \/ Down(r) \/ Look(r)
             \/ \E sl \in todo[r] : InsertSlot(r, sl) \/ PassOver(r, sl)
      PROVE  Served(k, t)'
  <2>1. UNCHANGED now
    BY <1>4 DEF Up, Down, Look, InsertSlot, PassOver, TrySlot
  <2>2. calm'[s] \in {calm[s], now, Never}
    BY <1>4 DEF Up, Down, Look, InsertSlot, PassOver, TrySlot, IInv, SlotTypeOK
  <2>3. calm'[s] = calm[s]
    BY <1>1, <2>1, <2>2 DEF Never
  <2> QED
    BY <1>2, <2>1, <2>3
<1>5. CASE Tick
  <2>1. now' = now + 1 /\ now < MaxTime
    BY <1>5 DEF Tick
  <2>2. calm'[s] = calm[s] /\ todo[s] = {} /\ calm[s] # Never
    BY <1>1, <1>5, <2>1 DEF Tick, Never
  <2>3. s \in looked
    BY <1>5, <2>2 DEF Tick, IInv, SlotTypeOK
  <2>4. CASE t < now /\ calm[s] < now
    BY <1>2, <2>2, <2>4
  <2>5. CASE ~ (t < now /\ calm[s] < now)
    <3>1. t <= now /\ now < t + Window
      BY <1>1, <2>1, <2>2, <2>5
    <3>2. <<k, t>> \in Due
      BY <3>1 DEF Due
    <3>3. Served(k, t)
      BY <2>2, <2>3, <3>2 DEF IInv, LookedServed
    <3> QED
      BY <1>1, <3>1, <3>3, ServedStays DEF IInv
  <2> QED
    BY <2>4, <2>5
<1> QED
  BY <1>3, <1>4, <1>5 DEF SNext, QueueStep

LEMMA NextMade == IInv /\ [SNext]_svars => MadeIsCounted'
<1> SUFFICES ASSUME IInv, [SNext]_svars, NEW k \in Kinds
             PROVE  made'[k] = Cardinality(TimesMade(k)')
  BY DEF MadeIsCounted
<1> USE SlotAssumption
<1>1. ASSUME UNCHANGED <<slots, made>> PROVE made'[k] = Cardinality(TimesMade(k)')
  BY <1>1 DEF IInv, MadeIsCounted, TimesMade
<1>2. CASE QueueStep
  BY <1>1, <1>2, QueueStepKeeps
<1>3. CASE Tick
  BY <1>1, <1>3 DEF Tick
<1>4. ASSUME NEW s \in Schedulers,
             Up(s) \/ Down(s) \/ Look(s) \/ \E x \in todo[s] : PassOver(s, x)
      PROVE  made'[k] = Cardinality(TimesMade(k)')
  BY <1>1, <1>4 DEF Up, Down, Look, PassOver
<1>5. ASSUME NEW s \in Schedulers, NEW sl \in todo[s], InsertSlot(s, sl)
      PROVE  made'[k] = Cardinality(TimesMade(k)')
  <2>1. /\ sl \in Kinds \X Time /\ sl \notin slots /\ slots' = slots \cup {sl}
        /\ made' = [made EXCEPT ![sl[1]] = @ + 1]
    BY <1>5 DEF InsertSlot, Insertable, IInv, SlotTypeOK
  <2>2. made[k] = Cardinality(TimesMade(k)) /\ made \in [Kinds -> Nat]
    BY DEF IInv, MadeIsCounted, SlotTypeOK
  <2>3. CASE sl[1] # k
    <3>1. TimesMade(k)' = TimesMade(k)
      BY <2>1, <2>3 DEF TimesMade
    <3> QED
      BY <2>1, <2>2, <2>3, <3>1
  <2>4. CASE sl[1] = k
    <3>1. sl = <<k, sl[2]>> /\ sl[2] \in Time
      BY <2>1, <2>4
    <3>2. TimesMade(k)' = TimesMade(k) \cup {sl[2]} /\ sl[2] \notin TimesMade(k)
      BY <2>1, <3>1 DEF TimesMade
    <3>3. TimesMade(k) \in SUBSET Time
      BY DEF TimesMade
    <3>4. IsFiniteSet(TimesMade(k))
      BY <3>3, TimeIsFinite, FS_Subset
    <3>5. Cardinality(TimesMade(k)') = Cardinality(TimesMade(k)) + 1
      BY <3>2, <3>4, FS_AddElement
    <3>6. made'[k] = made[k] + 1
      BY <2>1, <2>2, <2>4
    <3> QED
      BY <2>2, <3>5, <3>6
  <2> QED
    BY <2>3, <2>4
<1> QED
  BY <1>2, <1>3, <1>4, <1>5 DEF SNext, QueueStep

-----------------------------------------------------------------------------
\* The inductive invariant holds in every reachable state.
THEOREM SlotInvariance == SSpec => []IInv
<1>1. IInv /\ [SNext]_svars => IInv'
  BY NextType, NextSlotsServed, NextLookedServed, NextDueIsServed, NextMade DEF IInv
<1> QED
  BY InitIInv, <1>1, PTL DEF SSpec

\* The shape of the state, for any schedule and threads.
THEOREM SlotTypes == SSpec => []SlotTypeOK
<1>1. IInv => SlotTypeOK
  BY DEF IInv
<1> QED
  BY <1>1, SlotInvariance, PTL

\* Two workers or twenty: a slot makes one job at most (V11, queue.py:60-70).
THEOREM SlotMakesOneJob == SSpec => []OneJobPerSlot
<1>1. IInv => OneJobPerSlot
  <2> SUFFICES ASSUME IInv, NEW k \in Kinds
               PROVE  made[k] <= Cardinality({t \in Occurs[k] \cap Time : t <= now})
    BY DEF OneJobPerSlot
  <2> DEFINE past == {t \in Occurs[k] \cap Time : t <= now}
  <2>1. TimesMade(k) \in SUBSET past
    BY DEF IInv, SlotTypeOK, TimesMade
  <2>2. IsFiniteSet(past)
    <3>1. past \in SUBSET Time
      OBVIOUS
    <3> QED
      BY <3>1, TimeIsFinite, FS_Subset
  <2>3. Cardinality(TimesMade(k)) <= Cardinality(past)
    BY <2>1, <2>2, FS_Subset
  <2> QED
    BY <2>3 DEF IInv, MadeIsCounted
<1> QED
  BY <1>1, SlotInvariance, PTL

\* No slot is lost while one schedule thread does its work, whatever the kind
\* is doing at that time (R7, V23).
THEOREM SlotIsServed == SSpec => []DueSlotIsServed
<1>1. IInv => DueSlotIsServed
  BY DEF IInv
<1> QED
  BY <1>1, SlotInvariance, PTL
=============================================================================
