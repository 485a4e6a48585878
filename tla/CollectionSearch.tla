-------------------------- MODULE CollectionSearch --------------------------
(***************************************************************************)
(* Collection::search_filtered() beside a writing thread.  A filtered      *)
(* search reads two stores that a write changes one after the other.       *)
(* kInFilter asks FilterIndex::matches() id by id in the middle of the     *)
(* traversal, which holds the lock of the HNSW index shared; any other     *)
(* mode searches first, asks afterwards without that lock, and tries again *)
(* with a wider beam when fewer than k hits are left.  What the traversal  *)
(* visits is left open: it is any set of live ids, since HNSW promises no   *)
(* recall.                                                                 *)
(***************************************************************************)
EXTENDS Collection

CONSTANTS
  Filter,      \* FilterExpr: the set of clauses
  SearchK,     \* k
  EfSearch,    \* SearchOptions::ef_search
  Attempts     \* rounds of the post-filter search: 4

ASSUME CollectionSearchAssumption ==
  /\ Filter \subseteq Clauses /\ Filter # {}   \* without clauses it is search()
  /\ SearchK \in Nat \ {0}
  /\ EfSearch \in Nat
  /\ Attempts \in Nat \ {0}

VARIABLE query   \* the running search

Idle == [pc |-> "idle"]

searchVars == <<vars, query>>

(***************************************************************************)
(* What the calls so far, finished or running, let a caller expect.        *)
(***************************************************************************)
Passes(e) == e # NoEntry /\ \A c \in Filter : Satisfies(e.scalars, c)
Writing(i) == op # NoOp /\ op.id = i

\* Ids with an entry that satisfies the filter, if only by a running write.
MayPass ==
  {i \in Ids : i \in doubt \/ Passes(told[i]) \/ (Writing(i) /\ Passes(op.entry))}

\* Ids whose entry satisfies the filter whatever becomes of a running write.
MustPass ==
  {i \in Ids \ doubt : Passes(told[i]) /\ (Writing(i) => Passes(op.entry))}

\* The same, and no write is running.
Settled == {i \in MustPass : ~Writing(i)}

\* Every step is seen by the running search.
Observed(q) ==
  [q EXCEPT !.witness = @ \cup MayPass', !.must = @ \cap MustPass',
            !.settled = @ \cap Settled']
Observe == query' = IF query = Idle THEN Idle ELSE Observed(query)

(***************************************************************************)
(* The search                                                              *)
(***************************************************************************)
LiveIds == {i \in Ids : index[i].st = "live"}
Beam(attempt) ==
  LET first == IF EfSearch > 2 * SearchK THEN EfSearch ELSE 2 * SearchK
  IN  first * 2 ^ attempt

\* search_top_k(): at most ef live ids, under the shared lock.
Hits(attempt) == {H \in SUBSET LiveIds : Cardinality(H) <= Beam(attempt)}

Searching(mode, todo) ==
  [pc |-> mode, attempt |-> 0, todo |-> todo, out |-> {}, rejected |-> {},
   witness |-> MayPass, must |-> MustPass, settled |-> Settled]

\* The entry point is tested, and a traversal takes the shared lock.
StartInFilter ==
  /\ pc \notin {"down", "opening"}
  /\ query = Idle
  /\ LiveIds # {}
  /\ query' = Searching("in_filter", LiveIds)
  /\ UNCHANGED vars

StartPostFilter ==
  /\ pc \notin {"down", "opening"}
  /\ query = Idle
  /\ \E H \in Hits(0) : query' = Searching("post_filter", H)
  /\ UNCHANGED vars

\* One call of matches().
Evaluate(i) ==
  /\ query # Idle
  /\ i \in query.todo
  /\ query' = IF Matches(i, Filter)
              THEN [query EXCEPT !.todo = @ \ {i}, !.out = @ \cup {i}]
              ELSE [query EXCEPT !.todo = @ \ {i}, !.rejected = @ \cup {i}]
  /\ UNCHANGED vars

Enough(n) == n >= SearchK

\* filtered.size() < k: another round with twice the beam.
Retry ==
  /\ query.pc = "post_filter" /\ query.todo = {}
  /\ ~Enough(Cardinality(query.out)) /\ query.attempt < Attempts - 1
  /\ \E H \in Hits(query.attempt + 1) :
       query' = [query EXCEPT !.attempt = @ + 1, !.todo = H, !.out = {}, !.rejected = {}]
  /\ UNCHANGED vars

\* The k nearest of out are returned.  A traversal may end before it has come
\* to every live id.
Finish ==
  /\ \/ query.pc = "in_filter"
     \/ /\ query.pc = "post_filter" /\ query.todo = {}
        /\ Enough(Cardinality(query.out)) \/ query.attempt = Attempts - 1
  /\ query' = Idle
  /\ UNCHANGED vars

SearchInit == Init /\ query = Idle

SharedLockHeld == query.pc = "in_filter"

SearchNext ==
  \/ FreeStep /\ Observe
  \/ LockedStep /\ ~SharedLockHeld /\ Observe
  \/ Crash /\ query' = Idle
  \/ StartInFilter
  \/ StartPostFilter
  \/ \E i \in Ids : Evaluate(i)
  \/ Retry
  \/ Finish

SearchSpec == SearchInit /\ [][SearchNext]_searchVars

(***************************************************************************)
(* Properties                                                              *)
(***************************************************************************)
\* What a filtered search returns had, at some moment of the search, an entry
\* that satisfies the filter: one a call returned OK for, or that of a write
\* that was running (collection.cpp, search_filtered(); query.h "predicate
\* checked when candidates enter the result set").  An id whose last write
\* failed in storage may have either entry and is left out.
ResultsPassFilter == query # Idle => query.out \subseteq query.witness

\* An id is never turned away by the filter when its entry satisfied it
\* throughout the search and nobody wrote it meanwhile, whatever was being
\* done to other ids.
SettledNeverRejected == query # Idle => query.rejected \cap query.settled = {}

\* The same of an id that is being updated from one entry that satisfies the
\* filter to another (collection.cpp:162-163 are two steps).
MatchingNeverRejected == query # Idle => query.rejected \cap query.must = {}
=============================================================================
