------------------------------ MODULE Sublists ------------------------------
(* SelectSeq in a form that can be reasoned about. *)
EXTENDS Naturals, Sequences, FiniteSets

\* [member of I -> how many of I are below it]
Rank(I) == [i \in I |-> Cardinality({k \in I : k < i})]
\* The elements of a sequence that are in X, in their order.
Only(s, X) ==
  LET I == {i \in DOMAIN s : s[i] \in X}
  IN  [j \in 1 .. Cardinality(I) |-> s[CHOOSE i \in I : Rank(I)[i] = j - 1]]
=============================================================================
