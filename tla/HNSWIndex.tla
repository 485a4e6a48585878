----------------------------- MODULE HNSWIndex -----------------------------
(***************************************************************************)
(* src/vector/hnsw_index.cpp: the index that HNSWGraph's algorithms act on. *)
(* add_item(), remove(), update_item() and load() hold struct_lock          *)
(* exclusively and are one step each; a search checks the entry point       *)
(* before it takes the lock shared, and is two.  Node indices count from 1, *)
(* so that 0 stands for the entry point -1 of an empty index.               *)
(***************************************************************************)
EXTENDS HNSWGraph

CONSTANTS
  Ids,           \* the ids of the caller
  Vecs,          \* the vectors, points of a line
  TopLevel,      \* bound: the highest level random_level() draws
  EfSearch,      \* ef_search
  K,             \* k of the searches
  Searchers,     \* threads that search
  Files,         \* whether save() and load() are called
  MaxSavedNodes, \* bound: nodes of an index that is saved
  Updates,       \* whether update_item() is called
  Removes        \* whether remove() is called

ASSUME HNSWIndexAssumption ==
  /\ IsFiniteSet(Ids)
  /\ Vecs \subseteq Nat
  /\ TopLevel \in Nat
  /\ EfSearch \in Nat
  /\ K \in Nat \ {0}
  /\ MaxSavedNodes \in Nat
  /\ {Files, Updates, Removes} \subseteq BOOLEAN

VARIABLES
  nodes,         \* Impl::nodes (id_to_idx is IndexOf)
  entry_point,   \* Impl::entry_point, 0 for -1
  max_layer,     \* Impl::max_layer
  active_count,  \* Impl::active_count
  saved,         \* the file of save()
  broken,        \* load() failed: the caller may only load() again
  search         \* where each searching thread is

graph == <<nodes, entry_point, max_layer, active_count>>
vars == <<graph, saved, broken, search>>

NoEntry == 0
NoFile == [nodes |-> <<>>, entry_point |-> NoEntry, max_layer |-> -2, whole |-> FALSE]

NodeOK(n) ==
  /\ n.id \in Ids
  /\ n.vec \in Vecs
  /\ n.max_layer \in 0 .. TopLevel
  /\ n.deleted \in BOOLEAN
  /\ DOMAIN n.neighbors = 0 .. n.max_layer

TypeOK ==
  /\ \A i \in 1 .. Len(nodes) : NodeOK(nodes[i])
  /\ entry_point \in 0 .. Cardinality(Ids)
  /\ max_layer \in -1 .. TopLevel
  /\ active_count \in 0 .. Cardinality(Ids)
  /\ broken \in BOOLEAN
  /\ search \in [Searchers -> {"idle", "checked", "out_of_range"}]

Init ==
  /\ nodes = <<>>
  /\ entry_point = NoEntry
  /\ max_layer = -1
  /\ active_count = 0
  /\ saved = NoFile
  /\ broken = FALSE
  /\ search = [s \in Searchers |-> "idle"]

(***************************************************************************)
(* add_item(), remove(), update_item()                                     *)
(***************************************************************************)
NewNode(id, v, lvl) ==
  [id |-> id, vec |-> v, max_layer |-> lvl, deleted |-> FALSE,
   neighbors |-> NoEdges(lvl)]

\* The entry point moves to node n when n is the first or the highest node.
Raise(n, lvl) ==
  IF entry_point = NoEntry \/ lvl > max_layer
  THEN entry_point' = n /\ max_layer' = lvl
  ELSE UNCHANGED <<entry_point, max_layer>>

AddItem(id, v, lvl) ==
  LET g == Append(nodes, NewNode(id, v, lvl))
      n == Len(g)
  IN  /\ ~broken
      /\ IndexOf(nodes, id) = {}      \* else InvalidArgument "duplicate id"
      /\ saved = NoFile \/ n <= MaxSavedNodes
      /\ nodes' = IF entry_point = NoEntry THEN g
                  ELSE Wire(g, n, entry_point, max_layer)
      /\ Raise(n, lvl)
      /\ active_count' = active_count + 1
      /\ UNCHANGED <<saved, broken, search>>

\* The live node with the highest layer, the first of them; 0 if none is left.
FirstNode(g) == IF Live(g) = {} THEN NoEntry ELSE 1
Replacement(g) ==
  IF Live(g) = {} THEN NoEntry
  ELSE CHOOSE i \in Live(g) : \A j \in Live(g) :
         \/ g[j].max_layer < g[i].max_layer
         \/ g[j].max_layer = g[i].max_layer /\ i <= j

Remove(id) ==
  \E n \in IndexOf(nodes, id) :       \* else NotFound
    LET g == [nodes EXCEPT ![n].deleted = TRUE]
        next == Replacement(g)
    IN  /\ Removes
        /\ ~broken
        /\ ~nodes[n].deleted          \* else OK, nothing to do
        /\ nodes' = g
        /\ active_count' = active_count - 1
        /\ IF entry_point = n
           THEN /\ entry_point' = next
                /\ max_layer' = IF next = NoEntry THEN -1 ELSE g[next].max_layer
           ELSE UNCHANGED <<entry_point, max_layer>>
        /\ UNCHANGED <<saved, broken, search>>

\* A tombstone comes back to life.
CountAfterUpdateStale(n) == active_count
CountAfterUpdateAlways(n) == active_count + 1
CountAfterUpdate(n) ==
  IF nodes[n].deleted THEN active_count + 1 ELSE active_count

UpdateItem(id, v, lvl) ==
  \E n \in IndexOf(nodes, id) :       \* else NotFound
    LET g == [Detach(nodes, n) EXCEPT ![n] = NewNode(id, v, lvl)]
    IN  /\ Updates
        /\ ~broken
        /\ nodes' = IF entry_point = NoEntry THEN g
                    ELSE Wire(g, n, entry_point, max_layer)
        /\ Raise(n, lvl)
        /\ active_count' = CountAfterUpdate(n)
        /\ UNCHANGED <<saved, broken, search>>

(***************************************************************************)
(* search_top_k(), search_top_k_filtered()                                 *)
(***************************************************************************)
TopK(s) == SubSeq(s, 1, IF Len(s) > K THEN K ELSE Len(s))

\* The ids returned for query q when Filter are the ids that pass the filter.
Search(q, Filter) ==
  LET ep == Descend(nodes, q, entry_point, Layers(max_layer, 1), Filter)
      ef == IF EfSearch > K THEN EfSearch ELSE K
      hits == TopK(SearchLayer(nodes, q, ep, ef, 0, Filter))
  IN  [i \in 1 .. Len(hits) |-> nodes[hits[i]].id]

\* The first test of the entry point, without the lock.
SearchCheck(s) ==
  /\ ~broken
  /\ search[s] = "idle"
  /\ entry_point # NoEntry            \* else the empty result
  /\ search' = [search EXCEPT ![s] = "checked"]
  /\ UNCHANGED <<graph, saved, broken>>

\* Under the shared lock the entry point is read again and used as an index;
\* the result is Search(q, Filter).
SearchRun(s) ==
  /\ search[s] = "checked"
  /\ entry_point \in 1 .. Len(nodes)
  /\ search' = [search EXCEPT ![s] = "idle"]
  /\ UNCHANGED <<graph, saved, broken>>

SearchOutOfRange(s) ==
  /\ search[s] = "checked"
  /\ entry_point \notin 1 .. Len(nodes)
  /\ search' = [search EXCEPT ![s] = "out_of_range"]
  /\ UNCHANGED <<graph, saved, broken>>

(***************************************************************************)
(* save(), load()                                                          *)
(***************************************************************************)
Save ==
  /\ Files
  /\ ~broken
  /\ Len(nodes) <= MaxSavedNodes
  /\ saved' = [nodes |-> nodes, entry_point |-> entry_point,
               max_layer |-> max_layer, whole |-> TRUE]
  /\ UNCHANGED <<graph, broken, search>>

\* A full disk or a crash: the file ends behind its first n nodes.
Break(n) ==
  /\ saved.whole
  /\ saved' = [saved EXCEPT !.nodes = SubSeq(@, 1, n), !.whole = FALSE]
  /\ UNCHANGED <<graph, broken, search>>

\* load() counts the live nodes again and ignores the count in the file.
LoadedCountAll == Len(saved.nodes)
LoadedCount == Cardinality(Live(saved.nodes))

Load ==
  /\ saved.whole
  /\ nodes' = saved.nodes
  /\ entry_point' = saved.entry_point
  /\ max_layer' = saved.max_layer
  /\ active_count' = LoadedCount
  /\ broken' = FALSE
  /\ UNCHANGED <<saved, search>>

\* load() finds the end of the file too early: it returns Corruption, with
\* the nodes replaced and the rest as it was.
LoadFails ==
  /\ saved # NoFile
  /\ ~saved.whole
  /\ nodes' = saved.nodes
  /\ broken' = TRUE
  /\ UNCHANGED <<entry_point, max_layer, active_count, saved, search>>

Next ==
  \/ \E id \in Ids, v \in Vecs, lvl \in 0 .. TopLevel : AddItem(id, v, lvl)
  \/ \E id \in Ids : Remove(id)
  \/ \E id \in Ids, v \in Vecs, lvl \in 0 .. TopLevel : UpdateItem(id, v, lvl)
  \/ \E s \in Searchers : SearchCheck(s)
  \/ \E s \in Searchers : SearchRun(s)
  \/ \E s \in Searchers : SearchOutOfRange(s)
  \/ Save
  \/ \E n \in 0 .. Len(saved.nodes) - 1 : Break(n)
  \/ Load
  \/ LoadFails

Spec == Init /\ [][Next]_vars

(***************************************************************************)
(* Properties                                                              *)
(***************************************************************************)

\* Every list of neighbours names nodes that exist, each once, never the node
\* itself, and is no longer than max_m: search_layer() indexes nodes and
\* t_visited with its entries unchecked.  A failed load() leaves lists behind
\* that name nodes it did not read, until a load() succeeds.
ListsSound ==
  ~broken =>
    \A i \in 1 .. Len(nodes) : \A l \in 0 .. nodes[i].max_layer :
      LET nbs == nodes[i].neighbors[l]
      IN  /\ Len(nbs) <= MaxM(l)
          /\ \A j \in 1 .. Len(nbs) : nbs[j] \in (1 .. Len(nodes)) \ {i}
          /\ \A j, k \in 1 .. Len(nbs) : nbs[j] = nbs[k] => j = k

\* The entry point is a live node, no live node is above max_layer, and there
\* is no entry point only when nothing is live: remove() of the entry point,
\* update_item() of a tombstone and every load() that returns OK keep it so.
EntryPointSound ==
  ~broken =>
    IF entry_point = NoEntry THEN Live(nodes) = {} /\ max_layer = -1
    ELSE /\ entry_point \in Live(nodes)
         /\ \A i \in Live(nodes) : nodes[i].max_layer <= max_layer

\* size() counts the live entries, through tombstones, revivals, save() and
\* every load() that returns OK, also the one after a load() that failed.
SizeCountsLive == ~broken => active_count = Cardinality(Live(nodes))

\* hnsw_index.h:66 "Number of live (non-deleted) entries.", with no exception.
SizeAlwaysCountsLive == active_count = Cardinality(Live(nodes))

\* What an exhaustive scan would return.
Exhaustive(q, Filter) ==
  LET hits == TopK(Sorted(nodes, q, {i \in Live(nodes) : nodes[i].id \in Filter}))
  IN  [i \in 1 .. Len(hits) |-> nodes[hits[i]].id]

\* With a beam as wide as the index and no list ever full on layer 0, an index
\* built by add_item() alone answers every query, filtered or not, as an
\* exhaustive scan would.
SearchIsExhaustive ==
  \A q \in Vecs, F \in SUBSET Ids :
    entry_point # NoEntry => Search(q, F) = Exhaustive(q, F)

\* What a search returns is live and passes the filter, also when tombstones
\* and updates have cut the graph into pieces.
OnlyLiveFound ==
  (entry_point # NoEntry /\ ~broken) =>
    \A q \in Vecs, F \in SUBSET Ids :
      LET found == Search(q, F)
      IN  \A i \in 1 .. Len(found) :
            \E n \in Live(nodes) : nodes[n].id = found[i] /\ nodes[n].id \in F

\* hnsw_index.h "Replace the vector of an existing id (revives a tombstoned
\* id) and re-attach it to the graph": without tombstones every node of two or
\* more has a neighbour.
NodesAttached ==
  (Len(nodes) > 1 /\ Live(nodes) = 1 .. Len(nodes)) =>
    \A i \in 1 .. Len(nodes) : nodes[i].neighbors[0] # <<>>

\* hnsw_index.h "search is safe against concurrent add/remove/update": no
\* search indexes the nodes outside their range.
SearchInRange == \A s \in Searchers : search[s] # "out_of_range"
=============================================================================
