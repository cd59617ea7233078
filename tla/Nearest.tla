------------------------------ MODULE Nearest ------------------------------
(***************************************************************************)
(* walk/ksource.py, with the graph of walk/graph.py (to_csr) and the points *)
(* snapped to it by walk/compute.py (nearest_k): one Dijkstra from all     *)
(* facilities at once, which settles at most K different facilities at a   *)
(* vertex and does not go beyond WalkLimit.                                *)
(***************************************************************************)
EXTENDS Naturals, FiniteSets, Functions, FiniteSetsExt, SequencesExt, Sublists

CONSTANTS
  Vertices,      \* a set of numbers
  K,             \* how many facilities a vertex gets
  WalkLimit,         \* walk_limit_m
  SnapMax,       \* walk_snap_max_m
  Streets,       \* the sets of edges tried: <<u, v, length>>, more than one between two points
  Placings       \* the facilities tried: [facility -> <<vertex, distance to it>>]

\* No edge without a length is kept (walk/graph.py:132).
ASSUME NearestAssumption ==
  /\ Vertices \subseteq Nat /\ IsFiniteSet(Vertices) /\ {K, WalkLimit, SnapMax} \subseteq Nat /\ K > 0
  /\ \A edges \in Streets : edges \subseteq Vertices \X Vertices \X (Nat \ {0})
  /\ \A p \in Placings : /\ DOMAIN p \subseteq Nat /\ IsFiniteSet(DOMAIN p)
                         /\ \A f \in DOMAIN p : p[f] \in Vertices \X Nat

VARIABLES
  csr,       \* [u -> [v -> length of the edge, or 0]]
  placed,    \* [facility -> <<vertex, distance>>]
  heap,      \* {<<distance, vertex, facility>>}
  label,     \* [vertex -> <<facility, distance>> settled, nearest first]
  searching  \* "none", "on" or "over"

nearVars == <<csr, placed, heap, label, searching>>

NearInit ==
  /\ csr = [u \in Vertices |-> [v \in Vertices |-> 0]] /\ placed = <<>> /\ heap = {}
  /\ label = [v \in Vertices |-> <<>>] /\ searching = "none"

\* Between two points the shortest edge, and no loops.
Lengths(edges, u, v) == {e[3] : e \in {f \in edges : {f[1], f[2]} = {u, v}}}
ToCsr(edges) ==
  [u \in Vertices |-> [v \in Vertices |-> IF u = v \/ Lengths(edges, u, v) = {} THEN 0 ELSE Min(Lengths(edges, u, v))]]
\* Facilities too far from any street are left out.
Seeds(p) == {<<p[f][2], p[f][1], f>> : f \in {g \in DOMAIN p : p[g][2] <= SnapMax /\ p[g][2] <= WalkLimit}}

SearchBegins(edges, p) ==
  /\ searching = "none" /\ searching' = "on"
  /\ csr' = ToCsr(edges) /\ placed' = p /\ heap' = Seeds(p) /\ UNCHANGED label

\* Tuples are ordered as Python orders them.
Before(a, b) ==
  \/ a[1] < b[1]
  \/ a[1] = b[1] /\ a[2] < b[2]
  \/ a[1] = b[1] /\ a[2] = b[2] /\ a[3] <= b[3]
Top == CHOOSE a \in heap : \A b \in heap : Before(a, b)
Settled(v) == {label[v][i][1] : i \in DOMAIN label[v]}
\* A vertex takes no more labels, or has this facility's.
AnyFull(v, f) == Len(label[v]) >= K
Full(v, f) == Len(label[v]) >= K \/ f \in Settled(v)

Pop ==
  /\ searching = "on" /\ heap # {}
  /\ LET d == Top[1]  v == Top[2]  f == Top[3] IN
     IF Full(v, f)
     THEN heap' = heap \ {Top} /\ UNCHANGED label
     ELSE /\ label' = [label EXCEPT ![v] = Append(@, <<f, d>>)]
          /\ heap' = (heap \ {Top}) \cup
                     {<<d + csr[v][u], u, f>> : u \in {w \in Vertices : csr[v][w] > 0 /\ d + csr[v][w] <= WalkLimit /\ ~Full(w, f)}}
  /\ UNCHANGED <<csr, placed, searching>>
SearchEnds ==
  /\ searching = "on" /\ heap = {} /\ searching' = "over"
  /\ UNCHANGED <<csr, placed, heap, label>>
\* nearest_k: what a point gets that is so far from its vertex.
Reached(v, off) ==
  IF off > SnapMax THEN <<>> ELSE Only(label[v], {l \in Range(label[v]) : l[2] + off <= WalkLimit})

NearNext ==
  \/ Pop \/ SearchEnds
  \/ \E edges \in Streets, p \in Placings : SearchBegins(edges, p)
NearSpec == NearInit /\ [][NearNext]_nearVars

-----------------------------------------------------------------------------
\* The reference: shortest ways by relaxing every edge as often as there are
\* vertices, from each facility by itself.
Far == WalkLimit + 1
Relax(d) == [v \in Vertices |-> Min({d[v]} \cup {d[u] + csr[u][v] : u \in {w \in Vertices : csr[w][v] > 0}})]
Seeded(f) == [v \in Vertices |-> IF v = placed[f][1] /\ placed[f][2] <= SnapMax THEN placed[f][2] ELSE Far]
Rounds(start) == LET r[i \in 0 .. Cardinality(Vertices)] == IF i = 0 THEN start ELSE Relax(r[i - 1]) IN r
Ways(f) == Rounds(Seeded(f))[Cardinality(Vertices)]
Within(v) == {f \in DOMAIN placed : Ways(f)[v] <= WalkLimit}
Precedes(v, f, g) == Ways(f)[v] < Ways(g)[v] \/ (Ways(f)[v] = Ways(g)[v] /\ f < g)
NthNearest(v, i) == CHOOSE f \in Within(v) : Cardinality({g \in Within(v) : Precedes(v, g, f)}) = i - 1

\* Every vertex gets as many different facilities as there are within Limit, at
\* most K, each at its true distance, and none that it was not given is nearer,
\* and a point beside it the first of them: although ways are cut short at a
\* vertex that is full, or that has the facility already (ksource.py:5).
NearestAreNearest ==
  searching = "over" => \A v \in Vertices :
    /\ Len(label[v]) = Min({K, Cardinality(Within(v))}) /\ Cardinality(Settled(v)) = Len(label[v])
    /\ \A i \in DOMAIN label[v] :
         /\ label[v][i][2] = Ways(label[v][i][1])[v]
         /\ label[v][i][2] = Ways(NthNearest(v, i))[v]
    /\ \A off \in 0 .. SnapMax : IsPrefix(Reached(v, off), label[v])
=============================================================================
