----------------------------- MODULE HNSWGraph -----------------------------
(***************************************************************************)
(* The algorithms of src/vector/hnsw_index.cpp on a graph g, a sequence of *)
(* nodes [id, vec, max_layer, deleted, neighbors]; neighbors[l] is the list *)
(* of node indices on layer l.  Vectors are points on a line: the distance  *)
(* function is injected by the caller and the code only compares its values.*)
(***************************************************************************)
EXTENDS Integers, Sequences, FiniteSets

Seqs == INSTANCE SequencesExt

CONSTANTS
  M,               \* Impl::M, at least 2
  EfConstruction   \* Impl::ef_construction

ASSUME HNSWGraphAssumption ==
  /\ M \in Nat \ {0, 1}
  /\ EfConstruction \in Nat \ {0}

Dist(a, b) == IF a > b THEN a - b ELSE b - a

MaxM(l) == IF l = 0 THEN 2 * M ELSE M

\* The layers from hi down to lo.
Layers(hi, lo) == [i \in 1 .. hi - lo + 1 |-> hi - i + 1]

IndexOf(g, id) == {i \in 1 .. Len(g) : g[i].id = id}
Live(g) == {i \in 1 .. Len(g) : ~g[i].deleted}

(***************************************************************************)
(* search_layer()                                                          *)
(***************************************************************************)

\* candidates.top(): which of two equally near ones does not matter.
Nearest(g, q, S) ==
  CHOOSE n \in S : \A m \in S : Dist(g[n].vec, q) <= Dist(g[m].vec, q)

\* result.top(): the largest (distance, index) pair.
Farthest(g, q, S) ==
  CHOOSE n \in S : \A m \in S :
    \/ Dist(g[m].vec, q) < Dist(g[n].vec, q)
    \/ Dist(g[m].vec, q) = Dist(g[n].vec, q) /\ m <= n

\* std::sort by distance to q of a short list: it keeps the order of equally
\* distant nodes.  The nodes of S are taken from the list one by one, each put
\* behind the ones that are not farther than it is.
Place(g, q, S, sorted, n) ==
  LET nearer == {i \in 1 .. Len(sorted) :
                   Dist(g[sorted[i]].vec, q) <= Dist(g[n].vec, q)}
  IN  IF n \in S THEN Seqs!InsertAt(sorted, Cardinality(nearer) + 1, n) ELSE sorted
SortByDistance(g, q, S, list) ==
  Seqs!FoldLeft(LAMBDA sorted, n : Place(g, q, S, sorted, n), <<>>, list)

\* The result: equal ones come out of the heap with the larger index first.
Sorted(g, q, S) == SortByDistance(g, q, S, Layers(Len(g), 1))

OnLayer(n, l) == l <= n.max_layer

\* Tombstones, and stale edges to nodes that left the layer, are passed over.
SkippedOffLayer(n, l) == ~OnLayer(n, l)
Skipped(n, l) == n.deleted \/ ~OnLayer(n, l)

\* One neighbour of the node that is being expanded.  Filter is the set of
\* ids for which filter(id) holds; it guards the result, not the expansion.
Visit(g, q, ef, l, Filter, s, nb) ==
  LET d == Dist(g[nb].vec, q)
      expands == \/ Cardinality(s.cand) < ef
                 \/ d < Dist(g[Nearest(g, q, s.cand)].vec, q)
      enters == \/ Cardinality(s.res) < ef
                \/ d < Dist(g[Farthest(g, q, s.res)].vec, q)
      grown == s.res \cup {nb}
  IN  IF nb \in s.seen THEN s
      ELSE IF Skipped(g[nb], l)
      THEN [s EXCEPT !.seen = @ \cup {nb}]
      ELSE [seen |-> s.seen \cup {nb},
            cand |-> IF expands THEN s.cand \cup {nb} ELSE s.cand,
            res  |-> IF g[nb].id \notin Filter \/ ~enters THEN s.res
                     ELSE IF Cardinality(grown) > ef
                     THEN grown \ {Farthest(g, q, grown)} ELSE grown]

VisitAll(g, q, ef, l, Filter, s, list) ==
  Seqs!FoldLeft(LAMBDA t, nb : Visit(g, q, ef, l, Filter, t, nb), s, list)

\* One round of the loop: expand the nearest candidate, or stop.
Expand(g, q, ef, l, Filter, s) ==
  LET c == Nearest(g, q, s.cand)
      popped == [s EXCEPT !.cand = @ \ {c}]
      enough == /\ Cardinality(s.res) >= ef
                /\ Dist(g[c].vec, q) > Dist(g[Farthest(g, q, s.res)].vec, q)
  IN  IF s.cand = {} THEN s
      ELSE IF enough THEN [s EXCEPT !.cand = {}]
      ELSE IF ~OnLayer(g[c], l) THEN popped
      ELSE VisitAll(g, q, ef, l, Filter, popped, g[c].neighbors[l])

\* The loop.  A node enters the candidates once, so one round for each node
\* empties them.
ExpandAll(g, q, ef, l, Filter, s) ==
  LET rounds[n \in 0 .. Len(g)] ==
        IF n = 0 THEN s ELSE Expand(g, q, ef, l, Filter, rounds[n - 1])
  IN  rounds[Len(g)]

\* The indices found from `entry' on layer l, nearest first.
SearchLayer(g, q, entry, ef, l, Filter) ==
  LET start == [seen |-> {entry}, cand |-> {entry},
                res |-> IF g[entry].id \in Filter THEN {entry} ELSE {}]
  IN  IF Skipped(g[entry], l) THEN <<>>
      ELSE Sorted(g, q, ExpandAll(g, q, ef, l, Filter, start).res)

\* Greedy descent with ef = 1, through one layer and through `layers'.
StepDown(g, q, Filter, ep, l) ==
  LET res == SearchLayer(g, q, ep, 1, l, Filter)
  IN  IF res = <<>> THEN ep ELSE res[1]
Descend(g, q, ep, layers, Filter) ==
  Seqs!FoldLeft(LAMBDA e, l : StepDown(g, q, Filter, e, l), ep, layers)

(***************************************************************************)
(* select_neighbors_heuristic(), prune_neighbors(), connect_bidirectional() *)
(***************************************************************************)

\* c is kept unless a node already kept is nearer to it than the centre is.
Keep(g, center, max_m, sel, c) ==
  LET good == \A i \in 1 .. Len(sel) :
                Dist(g[c].vec, g[sel[i]].vec) >= Dist(g[c].vec, center)
  IN  IF Len(sel) < max_m /\ good THEN Append(sel, c) ELSE sel
Select(g, center, ordered, max_m) ==
  LET trim == IF Len(ordered) > 2 * max_m THEN 2 * max_m ELSE Len(ordered)
  IN  Seqs!FoldLeft(LAMBDA sel, c : Keep(g, center, max_m, sel, c),
                    <<>>, SubSeq(ordered, 1, trim))

Prune(g, c, l, max_m) ==
  LET ordered == SortByDistance(g, g[c].vec, 1 .. Len(g), g[c].neighbors[l])
  IN  [g EXCEPT ![c].neighbors[l] = Select(g, g[c].vec, ordered, max_m)]

PruneIfFullLate(g, c, l, max_m) ==
  IF Len(g[c].neighbors[l]) > max_m + 1 THEN Prune(g, c, l, max_m) ELSE g
PruneIfFull(g, c, l, max_m) ==
  IF Len(g[c].neighbors[l]) > max_m THEN Prune(g, c, l, max_m) ELSE g

AddEdge(g, from, to, l) ==
  IF Seqs!Contains(g[from].neighbors[l], to) THEN g
  ELSE [g EXCEPT ![from].neighbors[l] = Append(@, to)]

ConnectOneWay(g, a, b, l, max_m) ==
  IF a = b \/ ~OnLayer(g[a], l) \/ ~OnLayer(g[b], l) THEN g
  ELSE PruneIfFull(AddEdge(g, a, b, l), a, l, max_m)

ConnectToItself(g, a, b, l, max_m) ==
  IF ~OnLayer(g[a], l) \/ ~OnLayer(g[b], l) THEN g
  ELSE LET joined == AddEdge(AddEdge(g, a, b, l), b, a, l)
       IN  PruneIfFull(PruneIfFull(joined, a, l, max_m), b, l, max_m)

ConnectBidirectional(g, a, b, l, max_m) ==
  IF a = b \/ ~OnLayer(g[a], l) \/ ~OnLayer(g[b], l) THEN g
  ELSE LET joined == AddEdge(AddEdge(g, a, b, l), b, a, l)
       IN  PruneIfFull(PruneIfFull(joined, a, l, max_m), b, l, max_m)

(***************************************************************************)
(* Wiring of node n, whose vector and layer are set and whose lists are    *)
(* empty, into a graph with entry point ep: shared by add_item() and        *)
(* update_item().                                                          *)
(***************************************************************************)
ConnectAll(g, n, l, sel) ==
  Seqs!FoldLeft(LAMBDA h, nb : ConnectBidirectional(h, n, nb, l, MaxM(l)), g, sel)

\* Layer l: s is the graph so far and the entry point into the layer.
Attach(n, s, l) ==
  LET q == s.g[n].vec
      all == {s.g[i].id : i \in 1 .. Len(s.g)}
      sel == Select(s.g, q, SearchLayer(s.g, q, s.ep, EfConstruction, l, all), MaxM(l))
  IN  [g  |-> ConnectAll(s.g, n, l, sel),
       ep |-> IF sel = <<>> THEN s.ep ELSE sel[1]]
AttachAll(n, s, layers) ==
  Seqs!FoldLeft(LAMBDA t, l : Attach(n, t, l), s, layers)

Wire(g, n, ep, max_layer) ==
  LET all == {g[i].id : i \in 1 .. Len(g)}
      lvl == g[n].max_layer
      low == IF lvl < max_layer THEN lvl ELSE max_layer
      ep1 == Descend(g, g[n].vec, ep, Layers(max_layer, lvl + 1), all)
  IN  AttachAll(n, [g |-> g, ep |-> ep1], Layers(low, 0)).g

\* update_item(), step 1: the edges of node n are taken out of the lists of
\* the nodes it points to, layer by layer.  The lists of two layers have
\* nothing in common, so the order of the layers does not matter.
Without(list, n) ==
  Seqs!FoldLeft(LAMBDA s, x : IF x = n THEN s ELSE Append(s, x), <<>>, list)
Cut(g, n, l, nb) ==
  IF OnLayer(g[nb], l)
  THEN [g EXCEPT ![nb].neighbors[l] = Without(@, n)] ELSE g
CutAll(g, n, l, list) ==
  Seqs!FoldLeft(LAMBDA h, nb : Cut(h, n, l, nb), g, list)
Detach(g, n) ==
  Seqs!FoldLeft(LAMBDA h, l : CutAll(h, n, l, g[n].neighbors[l]),
                g, Layers(g[n].max_layer, 0))

NoEdges(lvl) == [l \in 0 .. lvl |-> <<>>]
=============================================================================
