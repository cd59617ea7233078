---------------------------- MODULE FiniteLemmas -----------------------------
(***************************************************************************)
(* Lemmas about finite sets and sequences that several proofs rest on.     *)
(***************************************************************************)
EXTENDS Sublists, Integers, SequencesExt, FiniteSetTheorems, SequenceTheorems, WellFoundedInduction, TLAPS

-----------------------------------------------------------------------------
(* Sequences of units *)

\* A unit of the loop is the one in hand or comes later.
LEMMA TailSet ==
  ASSUME NEW S, NEW q \in Seq(S), q # <<>>
  PROVE  /\ Tail(q) \in Seq(S) /\ Head(q) \in ToSet(q)
         /\ ToSet(q) = {Head(q)} \cup ToSet(Tail(q))
<1>1. Len(q) \in Nat /\ Len(q) > 0 /\ DOMAIN q = 1 .. Len(q) /\ Head(q) = q[1]
  BY DEF Head
<1>2. /\ Tail(q) \in Seq(S) /\ Len(Tail(q)) = Len(q) - 1 /\ DOMAIN Tail(q) = 1 .. Len(q) - 1
      /\ \A i \in 1 .. Len(q) - 1 : Tail(q)[i] = q[i + 1]
  BY <1>1
<1>3. ToSet(q) \subseteq {Head(q)} \cup ToSet(Tail(q))
  <2> SUFFICES ASSUME NEW i \in 1 .. Len(q), i # 1 PROVE q[i] \in ToSet(Tail(q))
    BY <1>1 DEF ToSet
  <2>1. i - 1 \in 1 .. Len(q) - 1 /\ Tail(q)[i - 1] = q[i]
    BY <1>1, <1>2
  <2> QED
    BY <1>2, <2>1 DEF ToSet
<1>4. ToSet(Tail(q)) \subseteq ToSet(q)
  <2> SUFFICES ASSUME NEW i \in 1 .. Len(q) - 1 PROVE q[i + 1] \in ToSet(q)
    BY <1>2 DEF ToSet
  <2>1. i + 1 \in 1 .. Len(q)
    BY <1>1
  <2> QED
    BY <1>1, <2>1 DEF ToSet
<1>5. Head(q) \in ToSet(q)
  BY <1>1 DEF ToSet
<1> QED
  BY <1>2, <1>3, <1>4, <1>5

LEMMA ConcatSet ==
  ASSUME NEW S, NEW p \in Seq(S), NEW q \in Seq(S)
  PROVE  p \o q \in Seq(S) /\ ToSet(p \o q) = ToSet(p) \cup ToSet(q)
<1>1. /\ p \o q \in Seq(S) /\ Len(p \o q) = Len(p) + Len(q)
      /\ \A i \in 1 .. Len(p) + Len(q) : (p \o q)[i] = IF i <= Len(p) THEN p[i] ELSE q[i - Len(p)]
  BY ConcatProperties
<1>2. /\ Len(p) \in Nat /\ Len(q) \in Nat /\ DOMAIN p = 1 .. Len(p) /\ DOMAIN q = 1 .. Len(q)
      /\ DOMAIN (p \o q) = 1 .. Len(p) + Len(q)
  BY <1>1
<1>3. ToSet(p \o q) \subseteq ToSet(p) \cup ToSet(q)
  BY <1>1, <1>2 DEF ToSet
<1>4. \A i \in DOMAIN p : i \in 1 .. Len(p) + Len(q) /\ (p \o q)[i] = p[i]
  BY <1>1, <1>2
<1>5. \A i \in DOMAIN q : i + Len(p) \in 1 .. Len(p) + Len(q) /\ (p \o q)[i + Len(p)] = q[i]
  BY <1>1, <1>2
<1>6. ToSet(p) \subseteq ToSet(p \o q)
  BY <1>2, <1>4 DEF ToSet
<1>7. ToSet(q) \subseteq ToSet(p \o q)
  BY <1>2, <1>5 DEF ToSet
<1> QED
  BY <1>1, <1>3, <1>6, <1>7

\* To order the members of a finite set of numbers is to number them.
LEMMA RankNumbers ==
  ASSUME NEW I \in SUBSET Int, IsFiniteSet(I)
  PROVE  /\ Cardinality(I) \in Nat
         /\ \A i \in I : Rank(I)[i] \in 0 .. Cardinality(I) - 1
         /\ \A i, j \in I : Rank(I)[i] = Rank(I)[j] => i = j
         /\ \A r \in 0 .. Cardinality(I) - 1 : \E i \in I : Rank(I)[i] = r
         /\ \A i, j \in I : i < j => Rank(I)[i] < Rank(I)[j]
<1> DEFINE n == Cardinality(I)
<1>1. n \in Nat
  BY FS_CardinalityType
<1>2. \A i \in I : Rank(I)[i] \in 0 .. n - 1
  <2> TAKE i \in I
  <2> DEFINE B == {k \in I : k < i}
  <2>1. B \subseteq I \ {i} /\ Rank(I)[i] = Cardinality(B)
    BY DEF Rank
  <2> HIDE DEF B
  <2>2. IsFiniteSet(I \ {i}) /\ Cardinality(I \ {i}) = n - 1
    BY FS_RemoveElement
  <2>3. B \in SUBSET (I \ {i})
    BY <2>1
  <2>4. IsFiniteSet(B) /\ Cardinality(B) <= n - 1
    BY <2>2, <2>3, FS_Subset
  <2>5. Cardinality(B) \in Nat
    BY <2>4, FS_CardinalityType
  <2> HIDE DEF n
  <2> QED
    BY <1>1, <2>1, <2>4, <2>5
<1>3. \A i, j \in I : i < j => Rank(I)[i] < Rank(I)[j]
  <2> TAKE i, j \in I
  <2> HAVE i < j
  <2> DEFINE B == {k \in I : k < i}
             C == {k \in I : k < j}
  <2>0. \A k : (k \in B <=> k \in I /\ k < i) /\ (k \in C <=> k \in I /\ k < j)
    OBVIOUS
  <2>7. Rank(I)[i] = Cardinality(B) /\ Rank(I)[j] = Cardinality(C)
    BY DEF Rank
  <2> HIDE DEF B, C
  <2>1. i \notin B /\ B \cup {i} \subseteq C /\ C \subseteq I
    <3>1. i \in Int /\ j \in Int /\ ~(i < i)
      OBVIOUS
    <3>2. \A k \in I : k \in Int /\ (k < i => k < j)
      BY <3>1
    <3> QED
      BY <2>0, <3>1, <3>2
  <2>2. C \in SUBSET I /\ B \in SUBSET I /\ B \cup {i} \in SUBSET C
    BY <2>1
  <2>3. IsFiniteSet(C) /\ IsFiniteSet(B)
    BY <2>2, FS_Subset
  <2>4. Cardinality(B \cup {i}) = Cardinality(B) + 1
    BY <2>1, <2>3, FS_AddElement
  <2>5. Cardinality(B \cup {i}) <= Cardinality(C)
    BY <2>2, <2>3, FS_Subset
  <2>6. Cardinality(B) \in Nat /\ Cardinality(C) \in Nat
    BY <2>3, FS_CardinalityType
  <2> QED
    BY <2>4, <2>5, <2>6, <2>7
<1>4. \A i, j \in I : Rank(I)[i] = Rank(I)[j] => i = j
  <2> TAKE i, j \in I
  <2>1. i = j \/ i < j \/ j < i
    OBVIOUS
  <2>2. Rank(I)[i] \in Int /\ Rank(I)[j] \in Int
    BY <1>1, <1>2
  <2> QED
    BY <1>3, <2>1, <2>2
<1>5. Rank(I) \in Injection(I, 0 .. n - 1)
  BY <1>2, <1>4 DEF Injection, IsInjective, Rank
<1>6. IsFiniteSet(0 .. n - 1) /\ Cardinality(0 .. n - 1) = n
  <2> HIDE DEF n
  <2> QED
    BY <1>1, FS_Interval
<1>7. Rank(I) \in Surjection(I, 0 .. n - 1)
  BY <1>5, <1>6, FS_Injection
<1> QED
  BY <1>1, <1>2, <1>3, <1>4, <1>7 DEF Surjection

\* A finite set of numbers has a greatest and a least one.
LEMMA Extremes ==
  ASSUME NEW I \in SUBSET Int, IsFiniteSet(I), I # {}
  PROVE  /\ \E m \in I : \A i \in I : m >= i
         /\ \E m \in I : \A i \in I : m <= i
<1> DEFINE n == Cardinality(I)
<1>1. /\ n \in Nat
      /\ \A i \in I : Rank(I)[i] \in 0 .. n - 1
      /\ \A r \in 0 .. n - 1 : \E i \in I : Rank(I)[i] = r
      /\ \A i, j \in I : i < j => Rank(I)[i] < Rank(I)[j]
  BY RankNumbers
<1> HIDE DEF n
<1>2. 0 \in 0 .. n - 1 /\ n - 1 \in 0 .. n - 1
  <2>1. PICK i \in I : TRUE
    OBVIOUS
  <2> QED
    BY <1>1, <2>1
<1>3. PICK m \in I : Rank(I)[m] = n - 1
  BY <1>1, <1>2
<1>4. PICK l \in I : Rank(I)[l] = 0
  BY <1>1, <1>2
<1>5. ASSUME NEW i \in I PROVE m >= i /\ l <= i
  <2>1. i \in Int /\ m \in Int /\ l \in Int /\ Rank(I)[i] \in 0 .. n - 1
    BY <1>1
  <2>2. ~(m < i) /\ ~(i < l)
    BY <1>1, <1>3, <1>4, <2>1
  <2> QED
    BY <2>1, <2>2
<1> QED
  BY <1>5

\* Only(s, X) is the elements of s in X, each once if s has each once.
LEMMA OnlySet ==
  ASSUME NEW S, NEW s \in Seq(S), NEW X
  PROVE  /\ Only(s, X) \in Seq(S) /\ ToSet(Only(s, X)) = ToSet(s) \cap X
         /\ (\A i, j \in DOMAIN s : s[i] = s[j] => i = j)
              => \A i, j \in DOMAIN Only(s, X) : Only(s, X)[i] = Only(s, X)[j] => i = j
<1> DEFINE I == {i \in DOMAIN s : s[i] \in X}
           n == Cardinality(I)
           At(j) == CHOOSE i \in I : Rank(I)[i] = j - 1
<1>1. Len(s) \in Nat /\ DOMAIN s = 1 .. Len(s) /\ I \in SUBSET (1 .. Len(s)) /\ I \in SUBSET Int
  OBVIOUS
<1>2. IsFiniteSet(I)
  <2>1. IsFiniteSet(1 .. Len(s))
    BY <1>1, FS_Interval
  <2> QED
    BY <1>1, <2>1, FS_Subset
<1>3. Only(s, X) = [j \in 1 .. n |-> s[At(j)]]
  BY DEF Only
<1>4. \A j \in Int, i \in I : Rank(I)[i] = j - 1 => Rank(I)[At(j)] = j - 1 /\ At(j) \in I
  OBVIOUS
<1>6. \A i \in I : i \in 1 .. Len(s) /\ s[i] \in S /\ s[i] \in X
  BY <1>1
<1>7. \A i \in 1 .. Len(s) : s[i] \in X => i \in I
  BY <1>1
<1> HIDE DEF I, n, At
<1>8. /\ Cardinality(I) \in Nat
      /\ \A i \in I : Rank(I)[i] \in 0 .. Cardinality(I) - 1
      /\ \A i, j \in I : Rank(I)[i] = Rank(I)[j] => i = j
      /\ \A r \in 0 .. Cardinality(I) - 1 : \E i \in I : Rank(I)[i] = r
  <2>1. I \in SUBSET Int
    BY <1>1
  <2> QED
    BY ONLY <2>1, <1>2, RankNumbers
<1>9. n \in Nat /\ n = Cardinality(I)
  BY <1>8 DEF n
<1>10. \A j \in 1 .. n : At(j) \in I
  <2> TAKE j \in 1 .. n
  <2>1. j - 1 \in 0 .. n - 1
    BY <1>9
  <2> QED
    BY <1>4, <1>8, <1>9, <2>1
<1>11. \A i \in I : Rank(I)[i] + 1 \in 1 .. n /\ At(Rank(I)[i] + 1) = i
  <2> TAKE i \in I
  <2>1. Rank(I)[i] + 1 \in 1 .. n /\ Rank(I)[i] = Rank(I)[i] + 1 - 1
    BY <1>8, <1>9
  <2>2. Rank(I)[At(Rank(I)[i] + 1)] = Rank(I)[i] /\ At(Rank(I)[i] + 1) \in I
    <3> DEFINE r == Rank(I)[i] + 1
    <3>1. r \in Int /\ Rank(I)[i] = r - 1
      BY <1>8, <1>9
    <3> HIDE DEF r
    <3>2. Rank(I)[At(r)] = r - 1 /\ At(r) \in I
      BY <1>4, <3>1
    <3> QED
      BY <3>1, <3>2 DEF r
  <2> QED
    BY <1>8, <2>1, <2>2
<1>12. \A j \in 1 .. n : Only(s, X)[j] = s[At(j)] /\ Only(s, X)[j] \in S \cap X
  BY <1>3, <1>6, <1>10
<1>13. Only(s, X) \in Seq(S) /\ DOMAIN Only(s, X) = 1 .. n
  <2>1. Only(s, X) \in [1 .. n -> S]
    BY <1>3, <1>12
  <2> QED
    BY <1>9, <2>1
<1>14. ToSet(Only(s, X)) \subseteq ToSet(s) \cap X
  BY <1>1, <1>6, <1>10, <1>12, <1>13 DEF ToSet
<1>15. ToSet(s) \cap X \subseteq ToSet(Only(s, X))
  <2> SUFFICES ASSUME NEW i \in 1 .. Len(s), s[i] \in X PROVE s[i] \in ToSet(Only(s, X))
    BY <1>1 DEF ToSet
  <2>1. Only(s, X)[Rank(I)[i] + 1] = s[i] /\ Rank(I)[i] + 1 \in DOMAIN Only(s, X)
    BY <1>7, <1>11, <1>12, <1>13
  <2> QED
    BY <2>1 DEF ToSet
<1>16. ASSUME \A i, j \in DOMAIN s : s[i] = s[j] => i = j, NEW i \in 1 .. n, NEW j \in 1 .. n,
              Only(s, X)[i] = Only(s, X)[j]
       PROVE  i = j
  <2>1. /\ Rank(I)[At(i)] = i - 1 /\ Rank(I)[At(j)] = j - 1 /\ At(i) \in I /\ At(j) \in I
    <3>1. \A k \in 1 .. n : k \in Int /\ k - 1 \in 0 .. Cardinality(I) - 1
      BY <1>9
    <3> QED
      BY <1>4, <1>8, <1>9, <3>1
  <2>2. At(i) = At(j)
    BY <1>1, <1>6, <1>12, <1>16, <2>1
  <2> QED
    BY <2>1, <2>2
<1> QED
  BY <1>13, <1>14, <1>15, <1>16

LEMMA ReverseSet ==
  ASSUME NEW S, NEW s \in Seq(S)
  PROVE  Reverse(s) \in Seq(S) /\ ToSet(Reverse(s)) = ToSet(s)
<1>1. Len(s) \in Nat /\ DOMAIN s = 1 .. Len(s) /\ \A i \in 1 .. Len(s) : s[i] \in S
  OBVIOUS
<1>2. \A i \in 1 .. Len(s) : Len(s) - i + 1 \in 1 .. Len(s) /\ Len(s) - (Len(s) - i + 1) + 1 = i
  BY <1>1
<1>3. Reverse(s) \in [1 .. Len(s) -> S] /\ \A i \in 1 .. Len(s) : Reverse(s)[i] = s[Len(s) - i + 1]
  BY <1>1, <1>2 DEF Reverse
<1>4. Reverse(s) \in Seq(S) /\ DOMAIN Reverse(s) = 1 .. Len(s)
  BY <1>1, <1>3
<1>5. \A i \in 1 .. Len(s) : Reverse(s)[Len(s) - i + 1] = s[i]
  BY <1>2, <1>3
<1>6. ToSet(s) \subseteq ToSet(Reverse(s))
  BY <1>1, <1>2, <1>4, <1>5 DEF ToSet
<1>7. ToSet(Reverse(s)) \subseteq ToSet(s)
  BY <1>1, <1>2, <1>3, <1>4 DEF ToSet
<1> QED
  BY <1>4, <1>6, <1>7

\* The community modules' sequence of a set has each of its members once.
LEMMA SetSeq ==
  ASSUME NEW S, IsFiniteSet(S)
  PROVE  SetToSeq(S) \in Seq(S) /\ Len(SetToSeq(S)) = Cardinality(S) /\ ToSet(SetToSeq(S)) = S
<1> DEFINE n == Cardinality(S)
           f == SetToSeq(S)
<1>1. n \in Nat /\ ExistsBijection(1 .. n, S)
  BY FS_CardinalityType
<1>2. PICK g : g \in Bijection(1 .. n, S)
  BY <1>1 DEF ExistsBijection
<1>3. g \in [1 .. n -> S] /\ IsInjective(g)
  BY <1>2 DEF Bijection, Injection, IsInjective
<1>4. f \in [1 .. n -> S] /\ IsInjective(f)
  BY <1>3 DEF SetToSeq
<1> HIDE DEF f, n
<1>5. f \in Injection(1 .. n, S)
  BY <1>4 DEF Injection
<1>6. IsFiniteSet(1 .. n) /\ Cardinality(1 .. n) = n
  BY <1>1, FS_Interval
<1>7. f \in Surjection(1 .. n, S)
  BY <1>5, <1>6, FS_Injection DEF n
<1>8. DOMAIN f = 1 .. n /\ f \in Seq(S) /\ Len(f) = n
  BY <1>1, <1>4
<1>9. ToSet(f) = S
  BY <1>4, <1>7, <1>8 DEF ToSet, Surjection
<1> QED
  BY <1>8, <1>9 DEF f, n

\* A set of natural numbers has a least one.
LEMMA LeastNat ==
  ASSUME NEW S \in SUBSET Nat, S # {}
  PROVE  Min(S) \in S /\ \A y \in S : Min(S) <= y
<1>1. PICK x \in S : \A y \in S : ~(<<y, x>> \in OpToRel(<, Nat))
  BY NatLessThanWellFounded, WFMin
<1>2. ASSUME NEW y \in S PROVE x <= y
  <2>1. ~(y < x)
    BY <1>1 DEF OpToRel
  <2> QED
    BY <2>1
<1> QED
  BY <1>2 DEF Min

LEMMA MinOfTwo ==
  ASSUME NEW a \in Int, NEW b \in Int
  PROVE  Min({a, b}) = IF a <= b THEN a ELSE b
<1> DEFINE m == IF a <= b THEN a ELSE b
<1>1. m \in {a, b} /\ \A y \in {a, b} : m =< y
  OBVIOUS
<1>2. \A x \in {a, b} : (\A y \in {a, b} : x =< y) => x = m
  OBVIOUS
<1> HIDE DEF m
<1>3. Min({a, b}) = m
  BY <1>1, <1>2 DEF Min
<1> QED
  BY <1>3 DEF m

LEMMA PrefixAt ==
  ASSUME NEW S, NEW s \in Seq(S), NEW t \in Seq(S)
  PROVE  IsPrefix(s, t) <=> Len(s) <= Len(t) /\ \A i \in 1 .. Len(s) : s[i] = t[i]
<1>1. Len(s) \in Nat /\ Len(t) \in Nat /\ SubSeq(s, 1, Len(s)) = s
  OBVIOUS
<1>2. Len(s) <= Len(t) => /\ SubSeq(t, 1, Len(s)) \in Seq(S) /\ Len(SubSeq(t, 1, Len(s))) = Len(s)
                          /\ \A i \in 1 .. Len(s) : SubSeq(t, 1, Len(s))[i] = t[i]
  BY <1>1
<1>3. ASSUME Len(s) <= Len(t), \A i \in 1 .. Len(s) : s[i] = t[i] PROVE s = SubSeq(t, 1, Len(s))
  BY <1>1, <1>2, <1>3
<1> QED
  BY <1>1, <1>2, <1>3 DEF IsPrefix

LEMMA FunctionIsSeq ==
  ASSUME NEW S, NEW n \in Nat, NEW f \in [1 .. n -> S]
  PROVE  f \in Seq(S) /\ Len(f) = n
OBVIOUS

\* So many pages hold all.
LEMMA PagesSuffice ==
  ASSUME NEW a \in Nat, NEW p \in Nat \ {0}
  PROVE  (a + p - 1) \div p \in Nat /\ ((a + p - 1) \div p) * p >= a
OBVIOUS

\* What is inserted moves others to the right or not at all.
LEMMA Inserted ==
  ASSUME NEW S, NEW s \in Seq(S), NEW i \in 1 .. Len(s) + 1, NEW e \in S
  PROVE  /\ InsertAt(s, i, e) \in Seq(S)
         /\ \A j \in DOMAIN s : \E k \in DOMAIN InsertAt(s, i, e) : k >= j /\ InsertAt(s, i, e)[k] = s[j]
<1> DEFINE a == SubSeq(s, 1, i - 1)
           b == SubSeq(s, i, Len(s))
           t == a \o <<e>> \o b
<1>1. Len(s) \in Nat /\ DOMAIN s = 1 .. Len(s) /\ i \in Int
  OBVIOUS
<1>2. a \in Seq(S) /\ Len(a) = i - 1 /\ \A j \in 1 .. i - 1 : a[j] = s[j]
  BY <1>1
<1>3. b \in Seq(S) /\ Len(b) = Len(s) - i + 1 /\ \A j \in i .. Len(s) : b[j - i + 1] = s[j]
  BY <1>1
<1> HIDE DEF a, b
<1>4. /\ a \o <<e>> \in Seq(S) /\ Len(a \o <<e>>) = i
      /\ \A j \in 1 .. i - 1 : (a \o <<e>>)[j] = a[j]
  BY <1>1, <1>2
<1>5. /\ t \in Seq(S) /\ Len(t) = Len(s) + 1
      /\ \A j \in 1 .. i - 1 : t[j] = a[j]
      /\ \A j \in i .. Len(s) : t[j + 1] = b[j - i + 1]
  <2> DEFINE u == a \o <<e>>
  <2>1. u \in Seq(S) /\ Len(u) = i
    BY <1>4
  <2> HIDE DEF u
  <2>2. /\ u \o b \in Seq(S) /\ Len(u \o b) = Len(s) + 1
        /\ \A j \in 1 .. i - 1 : (u \o b)[j] = u[j]
        /\ \A j \in i .. Len(s) : (u \o b)[j + 1] = b[j - i + 1]
    BY <1>1, <1>3, <2>1
  <2> QED
    BY <1>4, <2>2 DEF u
<1> HIDE DEF t
<1>6. InsertAt(s, i, e) = t
  BY DEF InsertAt, t, a, b
<1>7. DOMAIN t = 1 .. Len(s) + 1
  BY <1>1, <1>5
<1>8. ASSUME NEW j \in DOMAIN s PROVE \E k \in DOMAIN t : k >= j /\ t[k] = s[j]
  <2>1. j \in 1 .. i - 1 \/ j \in i .. Len(s)
    BY <1>1
  <2>2. j \in DOMAIN t /\ j + 1 \in DOMAIN t /\ j \in Int
    BY <1>1, <1>7
  <2>3. CASE j \in 1 .. i - 1
    <3>1. t[j] = a[j] /\ a[j] = s[j]
      BY <1>2, <1>5, <2>3
    <3> QED
      BY <2>2, <3>1
  <2>4. CASE j \in i .. Len(s)
    <3>1. t[j + 1] = b[j - i + 1] /\ b[j - i + 1] = s[j]
      BY <1>3, <1>5, <2>4
    <3>2. j + 1 >= j
      BY <2>2
    <3> QED
      BY <2>2, <3>1, <3>2
  <2> QED
    BY <2>1, <2>3, <2>4
<1> QED
  BY <1>5, <1>6, <1>8

\* A page of a sequence: n elements after the first a, or what there is of them.
LEMMA PageOf ==
  ASSUME NEW S, NEW s \in Seq(S), NEW a \in Nat, NEW n \in Nat
  PROVE  LET o == SubSeq(s, a + 1, Min({a + n, Len(s)}))
         IN  /\ o \in Seq(S)
             /\ \A i \in DOMAIN s : i > a /\ i <= a + n => s[i] \in ToSet(o)
             /\ Len(s) > a + n => Len(o) = n
<1>1. PICK L \in Nat : L = Len(s) /\ DOMAIN s = 1 .. L
  OBVIOUS
<1>2. PICK b \in Nat : b = a + n
  OBVIOUS
<1>8. PICK m : m = Min({b, L})
  OBVIOUS
<1> DEFINE o == SubSeq(s, a + 1, m)
<1> HIDE DEF o
<1>3. /\ m \in Nat /\ m <= L
      /\ \A i \in 1 .. L : i > a /\ i <= a + n => i \in a + 1 .. m /\ a <= m
      /\ L > a + n => a <= m /\ m - a = n
  <2>1. m = IF b <= L THEN b ELSE L
    BY <1>8, MinOfTwo
  <2> QED
    BY <1>2, <2>1
<1>4. o \in Seq(S)
  BY <1>1, <1>3 DEF o
<1>5. a <= m => Len(o) = m - a /\ \A i \in a + 1 .. m : i - a \in DOMAIN o /\ o[i - a] = s[i]
  BY <1>1, <1>3 DEF o
<1>6. ASSUME NEW i \in DOMAIN s, i > a, i <= a + n PROVE s[i] \in ToSet(o)
  <2>1. i \in a + 1 .. m /\ a <= m
    BY <1>1, <1>3, <1>6
  <2> QED
    BY <1>5, <2>1 DEF ToSet
<1>7. L > a + n => Len(o) = n
  BY <1>3, <1>5
<1> QED
  BY <1>1, <1>2, <1>8, <1>4, <1>6, <1>7 DEF o

-----------------------------------------------------------------------------
(* Sums.  The community modules' sum over a set, for which the library has *)
(* no theorems, is the number of the pairs of an element and one of the    *)
(* units it counts for (SumIsTally); what holds of cardinalities holds     *)
(* then of sums.                                                           *)
SumOver(f, S) == MapThenSumSet(LAMBDA x : f[x], S)
Tally(f, S) == UNION {{x} \X (1 .. f[x]) : x \in S}

LEMMA TallyOne ==
  ASSUME NEW x, NEW n \in Nat
  PROVE  IsFiniteSet({x} \X (1 .. n)) /\ Cardinality({x} \X (1 .. n)) = n
<1>1. IsFiniteSet({x}) /\ Cardinality({x}) = 1
  BY FS_Singleton
<1>2. IsFiniteSet(1 .. n) /\ Cardinality(1 .. n) = n
  BY FS_Interval
<1> DEFINE X == {x}
           N == 1 .. n
<1> HIDE DEF X, N
<1>3. IsFiniteSet(X \X N) /\ Cardinality(X \X N) = Cardinality(X) * Cardinality(N)
  BY <1>1, <1>2, FS_Product DEF X, N
<1>4. Cardinality(X) = 1 /\ Cardinality(N) = n
  BY <1>1, <1>2 DEF X, N
<1>5. Cardinality(X \X N) = 1 * n
  BY <1>3, <1>4
<1>6. 1 * n = n
  OBVIOUS
<1> QED
  BY <1>3, <1>5, <1>6 DEF X, N

\* Elements apart from each other count apart from each other.
LEMMA TallyParts ==
  ASSUME NEW f, NEW S, NEW T, S \cap T = {}
  PROVE  Tally(f, S \cup T) = Tally(f, S) \cup Tally(f, T) /\ Tally(f, S) \cap Tally(f, T) = {}
BY DEF Tally

\* The finite subsets of S without property: one has a least counterexample.
LEMMA LeastSubset ==
  ASSUME NEW S, IsFiniteSet(S), NEW B \in SUBSET (SUBSET S), B # {}
  PROVE  \E s \in B : \A t \in B : ~(t \subseteq s /\ t # s)
<1>1. B \subseteq FiniteSubsetsOf(S)
  BY FS_Subset DEF FiniteSubsetsOf
<1>2. PICK s \in B : \A t \in B : ~(<<t, s>> \in StrictSubsetOrdering(S))
  BY <1>1, FS_StrictSubsetOrderingWellFounded, WFMin
<1>3. ASSUME NEW t \in B, t \subseteq s, t # s PROVE <<t, s>> \in StrictSubsetOrdering(S)
  <2>1. t \in SUBSET S /\ s \in SUBSET S
    OBVIOUS
  <2> QED
    BY <1>3, <2>1 DEF StrictSubsetOrdering
<1>4. \A t \in B : ~(t \subseteq s /\ t # s)
  BY <1>2, <1>3
<1> QED
  BY <1>4

LEMMA TallyFinite ==
  ASSUME NEW S, IsFiniteSet(S), NEW f, \A x \in S : f[x] \in Nat
  PROVE  \A s \in SUBSET S : IsFiniteSet(Tally(f, s)) /\ Cardinality(Tally(f, s)) \in Nat
<1> DEFINE B == {s \in SUBSET S : ~IsFiniteSet(Tally(f, s))}
<1>0. B \in SUBSET (SUBSET S) /\ \A s : s \in B <=> s \in SUBSET S /\ ~IsFiniteSet(Tally(f, s))
  OBVIOUS
<1> HIDE DEF B
<1>1. ASSUME B # {} PROVE FALSE
  <2>1. PICK s \in B : \A t \in B : ~(t \subseteq s /\ t # s)
    BY <1>0, <1>1, LeastSubset
  <2>2. s # {}
    <3>1. Tally(f, {}) = {}
      BY DEF Tally
    <3> QED
      BY <1>0, <3>1, FS_EmptySet
  <2>3. PICK x \in s : TRUE
    BY <2>2
  <2>4. IsFiniteSet(Tally(f, s \ {x}))
    BY <1>0, <2>1, <2>3
  <2>5. IsFiniteSet(Tally(f, {x}))
    <3>1. Tally(f, {x}) = {x} \X (1 .. f[x])
      BY DEF Tally
    <3>2. PICK n \in Nat : n = f[x]
      BY <1>0, <2>3
    <3>3. IsFiniteSet({x} \X (1 .. n))
      BY TallyOne
    <3> QED
      BY <3>1, <3>2, <3>3
  <2>6. Tally(f, s) = Tally(f, s \ {x}) \cup Tally(f, {x})
    BY <2>3 DEF Tally
  <2>7. IsFiniteSet(Tally(f, s))
    <3> DEFINE P == Tally(f, s \ {x})
               Q == Tally(f, {x})
    <3>1. IsFiniteSet(P) /\ IsFiniteSet(Q) /\ Tally(f, s) = P \cup Q
      BY <2>4, <2>5, <2>6
    <3> HIDE DEF P, Q
    <3>2. IsFiniteSet(P \cup Q)
      BY <3>1, FS_Union
    <3> QED
      BY <3>1, <3>2
  <2> QED
    BY <1>0, <2>7
<1> QED
  BY <1>0, <1>1, FS_CardinalityType

LEMMA TallyNext ==
  ASSUME NEW S, IsFiniteSet(S), NEW f, \A x \in S : f[x] \in Nat, NEW s \in SUBSET S, NEW x \in s
  PROVE  Cardinality(Tally(f, s)) = f[x] + Cardinality(Tally(f, s \ {x}))
<1> DEFINE A == Tally(f, s \ {x})
           C == Tally(f, {x})
<1>1. IsFiniteSet(A) /\ Cardinality(A) \in Nat
  BY TallyFinite
<1>2. C = {x} \X (1 .. f[x]) /\ f[x] \in Nat
  BY DEF Tally
<1>3. IsFiniteSet(C) /\ Cardinality(C) = f[x]
  <2>1. PICK n \in Nat : n = f[x]
    BY <1>2
  <2>2. IsFiniteSet({x} \X (1 .. n)) /\ Cardinality({x} \X (1 .. n)) = n
    BY TallyOne
  <2> QED
    BY <1>2, <2>1, <2>2
<1>4. Tally(f, s) = A \cup C /\ A \cap C = {}
  BY DEF Tally
<1> HIDE DEF A, C
<1>5. Cardinality(A \cup C) = Cardinality(A) + Cardinality(C) - Cardinality(A \cap C)
  BY <1>1, <1>3, FS_Union
<1>6. Cardinality(A \cap C) = 0
  BY <1>4, FS_EmptySet
<1>7. Cardinality(A \cup C) = f[x] + Cardinality(A)
  BY <1>1, <1>2, <1>3, <1>5, <1>6
<1> QED
  BY <1>4, <1>7 DEF A

LEMMA SumIsTally ==
  ASSUME NEW S, IsFiniteSet(S), NEW f, \A x \in S : f[x] \in Nat
  PROVE  SumOver(f, S) = Cardinality(Tally(f, S))
<1> DEFINE c(s) == CHOOSE x \in s : TRUE
           Step(g) == [s \in SUBSET S |-> IF s = {} THEN 0 ELSE f[c(s)] + g[s \ {c(s)}]]
           G == [s \in SUBSET S |-> Cardinality(Tally(f, s))]
           It == CHOOSE g : g = Step(g)
<1>1. \A s \in SUBSET S : s # {} => c(s) \in s
  OBVIOUS
<1>2. Cardinality(Tally(f, {})) = 0
  BY FS_EmptySet DEF Tally
<1> HIDE DEF c
<1>3. \A s \in SUBSET S : s # {} => Cardinality(Tally(f, s)) = f[c(s)] + Cardinality(Tally(f, s \ {c(s)}))
  BY <1>1, TallyNext
<1>4. G = Step(G)
  BY <1>2, <1>3
<1>5. It = Step(It)
  BY <1>4
<1> HIDE DEF It
<1>6. /\ It[{}] = 0 /\ \A s \in SUBSET S : s # {} => It[s] = f[c(s)] + It[s \ {c(s)}]
  BY <1>5
<1> DEFINE B == {s \in SUBSET S : It[s] # Cardinality(Tally(f, s))}
<1>10. B \in SUBSET (SUBSET S) /\ \A s : s \in B <=> s \in SUBSET S /\ It[s] # Cardinality(Tally(f, s))
  OBVIOUS
<1> HIDE DEF B
<1>7. ASSUME B # {} PROVE FALSE
  <2>1. PICK s \in B : \A t \in B : ~(t \subseteq s /\ t # s)
    BY <1>7, <1>10, LeastSubset
  <2>2. s # {} /\ s \in SUBSET S
    BY <1>2, <1>6, <1>10
  <2>3. It[s \ {c(s)}] = Cardinality(Tally(f, s \ {c(s)}))
    BY <1>1, <1>10, <2>1, <2>2
  <2> QED
    BY <1>3, <1>6, <1>10, <2>1, <2>2, <2>3
<1>8. It[S] = Cardinality(Tally(f, S))
  BY <1>7, <1>10
<1>9. SumOver(f, S) = It[S]
  BY DEF SumOver, MapThenSumSet, MapThenFoldSet, It, c
<1> QED
  BY <1>8, <1>9

\* What is apart adds up; of no elements the sum is zero.
LEMMA Sums ==
  ASSUME NEW S, IsFiniteSet(S), NEW f, \A x \in S : f[x] \in Nat
  PROVE  /\ SumOver(f, {}) = 0
         /\ \A s \in SUBSET S : SumOver(f, s) \in Nat
         /\ \A s, t \in SUBSET S : s \cap t = {} => SumOver(f, s \cup t) = SumOver(f, s) + SumOver(f, t)
<1>1. \A s \in SUBSET S : IsFiniteSet(s)
  BY FS_Subset
<1>2. ASSUME NEW s \in SUBSET S PROVE SumOver(f, s) = Cardinality(Tally(f, s))
  <2>1. IsFiniteSet(s) /\ \A x \in s : f[x] \in Nat
    BY <1>1
  <2> QED
    BY <2>1, SumIsTally
<1>3. \A s \in SUBSET S : IsFiniteSet(Tally(f, s)) /\ Cardinality(Tally(f, s)) \in Nat
  BY TallyFinite
<1>4. SumOver(f, {}) = 0
  <2>1. Tally(f, {}) = {}
    BY DEF Tally
  <2>2. SumOver(f, {}) = Cardinality(Tally(f, {}))
    BY <1>2
  <2> QED
    BY <2>1, <2>2, FS_EmptySet
<1>5. ASSUME NEW s \in SUBSET S, NEW t \in SUBSET S, s \cap t = {}
      PROVE  SumOver(f, s \cup t) = SumOver(f, s) + SumOver(f, t)
  <2>1. PICK P : P = Tally(f, s)
    OBVIOUS
  <2>2. PICK Q : Q = Tally(f, t)
    OBVIOUS
  <2>3. Tally(f, s \cup t) = P \cup Q /\ P \cap Q = {}
    BY <1>5, <2>1, <2>2, TallyParts
  <2>4. IsFiniteSet(P) /\ IsFiniteSet(Q) /\ Cardinality(P) \in Nat /\ Cardinality(Q) \in Nat
    BY <1>3, <2>1, <2>2
  <2>5. Cardinality(P \cup Q) = Cardinality(P) + Cardinality(Q) - Cardinality(P \cap Q)
    BY <2>4, FS_Union
  <2>6. Cardinality(P \cap Q) = 0
    BY <2>3, FS_EmptySet
  <2>7. Cardinality(P \cup Q) = Cardinality(P) + Cardinality(Q)
    BY <2>4, <2>5, <2>6
  <2>8. s \cup t \in SUBSET S
    OBVIOUS
  <2> QED
    BY <1>2, <2>1, <2>2, <2>3, <2>7, <2>8
<1> QED
  BY <1>2, <1>3, <1>4, <1>5

LEMMA SumOne ==
  ASSUME NEW x, NEW f, f[x] \in Nat
  PROVE  SumOver(f, {x}) = f[x]
<1>1. PICK S : S = {x}
  OBVIOUS
<1>2. IsFiniteSet(S) /\ (\A y \in S : f[y] \in Nat) /\ S \in SUBSET S /\ x \in S /\ S \ {x} = {}
  BY <1>1, FS_Singleton
<1>3. SumOver(f, S) = Cardinality(Tally(f, S))
  BY <1>2, SumIsTally
<1>4. Cardinality(Tally(f, S)) = f[x] + Cardinality(Tally(f, S \ {x}))
  BY <1>2, TallyNext
<1>5. Cardinality(Tally(f, S \ {x})) = 0
  BY <1>2, FS_EmptySet DEF Tally
<1>6. SumOver(f, S) = f[x] + 0
  BY <1>3, <1>4, <1>5
<1> QED
  BY <1>1, <1>6

\* None counts for more than all.
LEMMA SumIncludes ==
  ASSUME NEW S, IsFiniteSet(S), NEW f, \A x \in S : f[x] \in Nat, NEW x \in S
  PROVE  SumOver(f, S) \in Nat /\ f[x] <= SumOver(f, S)
<1>1. S = {x} \cup (S \ {x}) /\ {x} \cap (S \ {x}) = {} /\ {x} \in SUBSET S /\ S \ {x} \in SUBSET S
  OBVIOUS
<1>2. PICK a \in Nat, b \in Nat : a = SumOver(f, {x}) /\ b = SumOver(f, S \ {x}) /\ SumOver(f, S) = a + b
  BY <1>1, Sums
<1>3. a = f[x]
  BY <1>2, SumOne
<1> QED
  BY <1>2, <1>3

\* One summand after the other.
LEMMA SumNext ==
  ASSUME NEW S, IsFiniteSet(S), NEW f, \A x \in S : f[x] \in Nat, NEW s \in SUBSET S, NEW x \in s
  PROVE  SumOver(f, s) = f[x] + SumOver(f, s \ {x}) /\ SumOver(f, s \ {x}) \in Nat
<1>1. s = {x} \cup (s \ {x}) /\ {x} \cap (s \ {x}) = {} /\ {x} \in SUBSET S /\ s \ {x} \in SUBSET S /\ x \in S
  OBVIOUS
<1>2. PICK a, b : a = SumOver(f, {x}) /\ b = SumOver(f, s \ {x})
  OBVIOUS
<1>3. SumOver(f, s) = a + b /\ b \in Nat
  BY <1>1, <1>2, Sums
<1>4. f[x] \in Nat
  BY <1>1
<1>5. a = f[x]
  BY <1>2, <1>4, SumOne
<1> QED
  BY <1>2, <1>3, <1>5

\* Sums depend on what is summed.
LEMMA SumAgree ==
  ASSUME NEW S, IsFiniteSet(S), NEW f, NEW g, \A x \in S : f[x] \in Nat /\ g[x] = f[x]
  PROVE  SumOver(g, S) = SumOver(f, S)
<1>1. SumOver(g, S) = Cardinality(Tally(g, S)) /\ SumOver(f, S) = Cardinality(Tally(f, S))
  BY SumIsTally
<1>2. \A z : z \in Tally(g, S) <=> \E x \in S : z \in {x} \X (1 .. g[x])
  BY DEF Tally
<1>3. \A z : z \in Tally(f, S) <=> \E x \in S : z \in {x} \X (1 .. f[x])
  BY DEF Tally
<1>4. \A x \in S : {x} \X (1 .. g[x]) = {x} \X (1 .. f[x])
  OBVIOUS
<1>5. Tally(g, S) = Tally(f, S)
  BY <1>2, <1>3, <1>4
<1> QED
  BY <1>1, <1>5

\* The sum of what is added is added.
LEMMA SumPlus ==
  ASSUME NEW S, IsFiniteSet(S), NEW f, NEW g, NEW h,
         \A x \in S : f[x] \in Nat /\ g[x] \in Nat /\ h[x] = f[x] + g[x]
  PROVE  SumOver(h, S) = SumOver(f, S) + SumOver(g, S)
<1> DEFINE B == {s \in SUBSET S : SumOver(h, s) # SumOver(f, s) + SumOver(g, s)}
<1>0. \A x \in S : f[x] \in Nat /\ g[x] \in Nat /\ h[x] \in Nat
  OBVIOUS
<1>1. SUFFICES ASSUME B # {} PROVE FALSE
  OBVIOUS
<1>2. B \in SUBSET (SUBSET S)
  OBVIOUS
<1>3. PICK s \in B : \A t \in B : ~(t \subseteq s /\ t # s)
  <2> HIDE DEF B
  <2> QED
    BY <1>1, <1>2, LeastSubset
<1>4. s \in SUBSET S /\ SumOver(h, s) # SumOver(f, s) + SumOver(g, s)
  OBVIOUS
<1>5. s # {}
  <2>1. SumOver(f, {}) = 0 /\ SumOver(g, {}) = 0 /\ SumOver(h, {}) = 0
    BY <1>0, Sums
  <2>2. SumOver(h, {}) = SumOver(f, {}) + SumOver(g, {})
    BY <2>1
  <2> HIDE DEF B
  <2> QED
    BY <1>4, <2>2
<1>6. PICK x \in s : TRUE
  BY <1>5
<1>7. PICK t : t = s \ {x}
  OBVIOUS
<1>8. t \in SUBSET S /\ t \subseteq s /\ t # s
  BY <1>4, <1>7
<1>9. SumOver(h, t) = SumOver(f, t) + SumOver(g, t)
  BY <1>3, <1>8
<1> HIDE DEF B
<1>10. SumOver(f, s) = f[x] + SumOver(f, t) /\ SumOver(f, t) \in Nat
  BY <1>0, <1>4, <1>7, SumNext
<1>11. SumOver(g, s) = g[x] + SumOver(g, t) /\ SumOver(g, t) \in Nat
  BY <1>0, <1>4, <1>7, SumNext
<1>12. SumOver(h, s) = h[x] + SumOver(h, t) /\ SumOver(h, t) \in Nat
  BY <1>0, <1>4, <1>7, SumNext
<1>13. f[x] \in Nat /\ g[x] \in Nat /\ h[x] = f[x] + g[x]
  BY <1>4
<1> QED
  BY <1>4, <1>9, <1>10, <1>11, <1>12, <1>13

\* What counts for nothing may be left out.
LEMMA SumZero ==
  ASSUME NEW S, IsFiniteSet(S), NEW f, \A x \in S : f[x] \in Nat, NEW T \in SUBSET S, \A x \in S \ T : f[x] = 0
  PROVE  SumOver(f, S) = SumOver(f, T)
<1>0. PICK U : U = S \ T
  OBVIOUS
<1>1. U = S \ T /\ U \in SUBSET S /\ T \cup U = S /\ T \cap U = {}
  BY <1>0
<1>2. SumOver(f, S) = SumOver(f, T) + SumOver(f, U) /\ SumOver(f, T) \in Nat /\ SumOver(f, U) \in Nat
  BY <1>1, Sums
<1>3. IsFiniteSet(U) /\ \A x \in U : f[x] = 0
  BY <1>1, FS_Subset
<1>4. Tally(f, U) = {}
  BY <1>3 DEF Tally
<1>5. \A x \in U : f[x] \in Nat
  BY <1>3
<1>6. SumOver(f, U) = Cardinality(Tally(f, U))
  BY <1>3, <1>5, SumIsTally
<1>7. SumOver(f, U) = 0
  BY <1>4, <1>6, FS_EmptySet
<1> QED
  BY <1>2, <1>7

LEMMA SumLess ==
  ASSUME NEW S, IsFiniteSet(S), NEW f, NEW g, \A x \in S : f[x] \in Nat /\ g[x] \in Nat /\ f[x] <= g[x]
  PROVE  SumOver(f, S) <= SumOver(g, S)
<1> DEFINE d == [x \in S |-> g[x] - f[x]]
<1>1. \A x \in S : f[x] \in Nat /\ d[x] \in Nat /\ g[x] = f[x] + d[x]
  OBVIOUS
<1> HIDE DEF d
<1>2. SumOver(g, S) = SumOver(f, S) + SumOver(d, S)
  BY <1>1, SumPlus
<1>3. S \in SUBSET S
  OBVIOUS
<1>4. SumOver(f, S) \in Nat /\ SumOver(d, S) \in Nat
  BY <1>1, <1>3, Sums
<1> QED
  BY <1>2, <1>4

\* To order the members of a finite set in any way is to number them: B says
\* which come before each.
LEMMA Numbered ==
  ASSUME NEW S, IsFiniteSet(S), NEW B, \A x \in S : B[x] \in SUBSET S /\ x \notin B[x],
         \A x, y \in S : x # y => x \in B[y] \/ y \in B[x],
         \A x, y \in S : x \in B[y] => B[x] \subseteq B[y]
  PROVE  /\ Cardinality(S) \in Nat
         /\ \A x \in S : Cardinality(B[x]) \in 0 .. Cardinality(S) - 1
         /\ \A x, y \in S : x \in B[y] => Cardinality(B[x]) < Cardinality(B[y])
         /\ \A r \in 0 .. Cardinality(S) - 1 : \E x \in S : Cardinality(B[x]) = r
<1> DEFINE n == Cardinality(S)
           R == [x \in S |-> Cardinality(B[x])]
<1>1. n \in Nat
  BY FS_CardinalityType
<1>2. \A x \in S : Cardinality(B[x]) \in 0 .. n - 1
  <2> TAKE x \in S
  <2>2. IsFiniteSet(S \ {x}) /\ Cardinality(S \ {x}) = n - 1
    BY FS_RemoveElement
  <2>3. B[x] \in SUBSET (S \ {x})
    OBVIOUS
  <2>4. IsFiniteSet(B[x]) /\ Cardinality(B[x]) <= n - 1
    BY <2>2, <2>3, FS_Subset
  <2>5. Cardinality(B[x]) \in Nat
    BY <2>4, FS_CardinalityType
  <2> HIDE DEF n
  <2> QED
    BY <1>1, <2>4, <2>5
<1>3. \A x, y \in S : x \in B[y] => Cardinality(B[x]) < Cardinality(B[y])
  <2> TAKE x, y \in S
  <2> HAVE x \in B[y]
  <2>1. PICK C, D : C = B[x] /\ D = B[y]
    OBVIOUS
  <2>2. C \in SUBSET S /\ D \in SUBSET S /\ C \cup {x} \in SUBSET D /\ x \notin C
    BY <2>1
  <2>3. IsFiniteSet(C) /\ IsFiniteSet(D)
    BY <2>2, FS_Subset
  <2>4. Cardinality(C \cup {x}) = Cardinality(C) + 1
    BY <2>2, <2>3, FS_AddElement
  <2>5. Cardinality(C \cup {x}) <= Cardinality(D)
    BY <2>2, <2>3, FS_Subset
  <2>6. Cardinality(C) \in Nat /\ Cardinality(D) \in Nat
    BY <2>3, FS_CardinalityType
  <2> QED
    BY <2>1, <2>4, <2>5, <2>6
<1> HIDE DEF n
<1>4. \A x, y \in S : Cardinality(B[x]) = Cardinality(B[y]) => x = y
  <2> TAKE x, y \in S
  <2>1. x = y \/ x \in B[y] \/ y \in B[x]
    OBVIOUS
  <2>2. Cardinality(B[x]) \in Int /\ Cardinality(B[y]) \in Int
    BY <1>1, <1>2
  <2>3. (x \in B[y] => Cardinality(B[x]) < Cardinality(B[y])) /\ (y \in B[x] => Cardinality(B[y]) < Cardinality(B[x]))
    BY <1>3
  <2> QED
    BY <2>1, <2>2, <2>3
<1>5. R \in Injection(S, 0 .. n - 1)
  BY <1>2, <1>4 DEF Injection, IsInjective
<1>6. IsFiniteSet(0 .. n - 1) /\ Cardinality(0 .. n - 1) = n
  BY <1>1, FS_Interval
<1>7. R \in Surjection(S, 0 .. n - 1)
  <2> HIDE DEF R
  <2> QED
    BY <1>5, <1>6, FS_Injection DEF n
<1>8. \A r \in 0 .. n - 1 : \E x \in S : Cardinality(B[x]) = r
  BY <1>7 DEF Surjection
<1> QED
  BY <1>1, <1>2, <1>3, <1>8 DEF n

\* Of finitely many one has the greatest value.
LEMMA Greatest ==
  ASSUME NEW S, IsFiniteSet(S), S # {}, NEW f, \A x \in S : f[x] \in Int
  PROVE  \E x \in S : \A y \in S : f[y] <= f[x]
<1> DEFINE g == [x \in S |-> f[x]]
           I == {g[x] : x \in S}
<1>1. g \in Surjection(S, I)
  BY DEF Surjection
<1>2. IsFiniteSet(I)
  <2> HIDE DEF I, g
  <2> QED
    BY <1>1, FS_Surjection
<1>3. I \in SUBSET Int /\ I # {}
  OBVIOUS
<1>4. PICK m \in I : \A i \in I : m >= i
  <2> HIDE DEF I
  <2> QED
    BY <1>2, <1>3, Extremes
<1>5. PICK x \in S : m = f[x]
  OBVIOUS
<1>6. ASSUME NEW y \in S PROVE f[y] <= f[x]
  <2>1. f[y] \in I /\ f[y] \in Int /\ f[x] \in Int
    OBVIOUS
  <2>2. m >= f[y]
    BY <1>4, <2>1
  <2> QED
    BY <1>5, <2>1, <2>2
<1> QED
  BY <1>6

Different(s) == \A i, j \in DOMAIN s : s[i] = s[j] => i = j
\* A sequence of different elements has as many as it is long.
LEMMA DifferentCount ==
  ASSUME NEW S, NEW s \in Seq(S), Different(s)
  PROVE  IsFiniteSet(Range(s)) /\ Cardinality(Range(s)) = Len(s)
<1>1. Len(s) \in Nat /\ DOMAIN s = 1 .. Len(s)
  OBVIOUS
<1>2. IsFiniteSet(1 .. Len(s)) /\ Cardinality(1 .. Len(s)) = Len(s)
  <2>1. PICK n \in Nat : n = Len(s)
    BY <1>1, Zenon
  <2>0. 1 \in Int /\ n \in Int
    OBVIOUS
  <2>2. IsFiniteSet(1 .. n) /\ Cardinality(1 .. n) = IF 1 > n THEN 0 ELSE n - 1 + 1
    BY <2>0, FS_Interval, Zenon
  <2>3. Cardinality(1 .. n) = n
    BY <2>2
  <2> QED
    BY <2>1, <2>2, <2>3, Zenon
<1>3. s \in [1 .. Len(s) -> Range(s)] /\ \A y \in Range(s) : \E x \in 1 .. Len(s) : s[x] = y
  BY <1>1 DEF Range
<1>4. s \in Surjection(1 .. Len(s), Range(s)) /\ s \in Injection(1 .. Len(s), Range(s))
  <2>1. PICK N : N = 1 .. Len(s)
    OBVIOUS
  <2>2. PICK R : R = Range(s)
    OBVIOUS
  <2>3. s \in [N -> R] /\ (\A y \in R : \E x \in N : s[x] = y) /\ \A i, j \in N : s[i] = s[j] => i = j
    BY <1>1, <1>3, <2>1, <2>2 DEF Different
  <2>4. s \in Surjection(N, R)
    BY <2>3 DEF Surjection
  <2>5. s \in Injection(N, R)
    BY <2>3 DEF Injection, IsInjective
  <2> QED
    BY <2>1, <2>2, <2>4, <2>5
<1> QED
  BY <1>2, <1>4, FS_Surjection

\* The least of finitely many values and a bound.
LeastIn(f, S, N) == Min({N} \cup {f[x] : x \in S})
LEMMA LeastValue ==
  ASSUME NEW S, IsFiniteSet(S), NEW f, \A x \in S : f[x] \in Nat, NEW N \in Nat, NEW m, m = LeastIn(f, S, N)
  PROVE  m \in Nat /\ m <= N /\ (\A x \in S : m <= f[x]) /\ (m = N \/ \E x \in S : m = f[x])
<1> DEFINE g == [x \in S |-> f[x]]
           R == {g[x] : x \in S}
           I == {N} \cup R
<1>1. g \in Surjection(S, R)
  BY DEF Surjection
<1>2. IsFiniteSet(R) /\ IsFiniteSet({N})
  <2> HIDE DEF R, g
  <2> QED
    BY <1>1, FS_Surjection, FS_Singleton
<1>3. IsFiniteSet(I) /\ I # {}
  <2> HIDE DEF R
  <2> QED
    BY <1>2, FS_Union
<1>4. I \in SUBSET Int /\ I \in SUBSET Nat /\ N \in I /\ \A x \in S : f[x] \in I
  OBVIOUS
<1>5. \A y \in I : y = N \/ \E x \in S : y = f[x]
  OBVIOUS
<1>6. m = Min(I)
  <2>1. R = {f[x] : x \in S}
    OBVIOUS
  <2> QED
    BY <2>1 DEF LeastIn
<1> HIDE DEF I
<1>7. \E l \in I : \A y \in I : l <= y
  BY <1>3, <1>4, Extremes
<1>8. m \in I /\ \A y \in I : m <= y
  BY <1>6, <1>7 DEF Min
<1> QED
  BY <1>4, <1>5, <1>8

NatValued(f, S, x) == \A y \in S \cup {x} : f[y] \in Nat
\* One more value makes the least of them less, or not.
LEMMA LeastMore ==
  ASSUME NEW S, IsFiniteSet(S), NEW f, NEW x, NatValued(f, S, x), NEW N \in Nat
  PROVE  LeastIn(f, S \cup {x}, N) = IF LeastIn(f, S, N) <= f[x] THEN LeastIn(f, S, N) ELSE f[x]
<1>1. PICK R : R = S \cup {x}
  OBVIOUS
<1>2. IsFiniteSet(R) /\ S \subseteq R /\ x \in R /\ \A y \in R : y \in S \/ y = x
  BY <1>1, FS_AddElement
<1>3. PICK l : l = LeastIn(f, S, N)
  OBVIOUS
<1>4. PICK m : m = LeastIn(f, R, N)
  OBVIOUS
<1>5. (\A y \in S : f[y] \in Nat) /\ (\A y \in R : f[y] \in Nat)
  BY <1>1 DEF NatValued
<1>6. l \in Nat /\ l <= N /\ (\A y \in S : l <= f[y]) /\ (l = N \/ \E y \in S : l = f[y])
  BY <1>3, <1>5, LeastValue
<1>7. m \in Nat /\ m <= N /\ (\A y \in R : m <= f[y]) /\ (m = N \/ \E y \in R : m = f[y])
  BY <1>2, <1>4, <1>5, LeastValue
<1>8. m <= l /\ m <= f[x] /\ f[x] \in Nat
  BY <1>2, <1>5, <1>6, <1>7
<1>9. m = f[x] \/ m >= l
  <2>1. CASE m = N
    BY <1>6, <2>1
  <2>2. CASE \E y \in S : m = f[y]
    BY <1>5, <1>6, <2>2
  <2> QED
    BY <1>2, <1>7, <2>1, <2>2
<1> QED
  BY <1>1, <1>3, <1>4, <1>6, <1>7, <1>8, <1>9

\* Of finitely many one has the greatest value; of those the greatest second
\* one; of those it is the last.
LEMMA BestOf ==
  ASSUME NEW S \in SUBSET Int, IsFiniteSet(S), S # {}, NEW f, NEW g, \A x \in S : f[x] \in Int /\ g[x] \in Int
  PROVE  \E x \in S : \A y \in S : f[x] > f[y] \/ (f[x] = f[y] /\ (g[x] > g[y] \/ (g[x] = g[y] /\ x >= y)))
<1>1. PICK a \in S : \A y \in S : f[y] <= f[a]
  <2>1. \A x \in S : f[x] \in Int
    OBVIOUS
  <2> QED
    BY <2>1, Greatest
<1>2. PICK T : T = {x \in S : f[x] = f[a]}
  OBVIOUS
<1>3. T \in SUBSET S /\ T # {}
  BY <1>2
<1>4. IsFiniteSet(T) /\ \A x \in T : g[x] \in Int
  BY <1>3, FS_Subset
<1>5. PICK b \in T : \A y \in T : g[y] <= g[b]
  BY <1>3, <1>4, Greatest
<1>6. PICK U : U = {x \in T : g[x] = g[b]}
  OBVIOUS
<1>7. U \in SUBSET T /\ U # {} /\ U \in SUBSET Int
  BY <1>3, <1>6
<1>8. IsFiniteSet(U)
  BY <1>4, <1>7, FS_Subset
<1>9. PICK c \in U : \A y \in U : c >= y
  BY <1>7, <1>8, Extremes
<1>10. c \in S /\ f[c] = f[a] /\ g[c] = g[b] /\ c \in T
  BY <1>2, <1>6, <1>7
<1>11. ASSUME NEW y \in S PROVE f[c] > f[y] \/ (f[c] = f[y] /\ (g[c] > g[y] \/ (g[c] = g[y] /\ c >= y)))
  <2>1. f[c] \in Int /\ f[y] \in Int /\ g[c] \in Int /\ g[y] \in Int /\ f[y] <= f[c]
    BY <1>1, <1>10
  <2>2. f[y] = f[c] => y \in T
    BY <1>2, <1>10
  <2>3. y \in T => g[y] <= g[c]
    BY <1>5, <1>10
  <2>4. y \in T /\ g[y] = g[c] => y \in U
    BY <1>6, <1>10
  <2>5. y \in U => c >= y
    BY <1>9
  <2> QED
    BY <2>1, <2>2, <2>3, <2>4, <2>5
<1> QED
  BY <1>10, <1>11
=============================================================================
