----------------------------- MODULE Collection -----------------------------
(***************************************************************************)
(* src/engine/collection.cpp: one collection over three stores that are    *)
(* written one after the other.  The storage engine comes first and is     *)
(* durable; the HNSW index and the filter index live in memory and are     *)
(* rebuilt by open().  Storage is the specification the engine is shown to *)
(* implement (StorageEngineKV), the filter index is FilterIndex, and of    *)
(* the HNSW index only the status and the vector of each id are kept.      *)
(* write_mutex admits one writer; a crash comes between any two steps.     *)
(* Calls that return before they change anything (a null vector, a         *)
(* duplicate id, a rejected append) are no steps.                          *)
(***************************************************************************)
EXTENDS FilterIndex, Sequences

CONSTANTS
  Dims,      \* dimensions the directory may be opened with
  Points,    \* what tells two vectors of one dimension apart
  NoEntry,   \* the id is not stored
  NoOp,      \* no write is running
  FsyncMayFail,
  MaxWrites  \* bound: records in the storage engine

Vecs == [dim : Dims, x : Points]
Entries == [vec : Vecs, scalars : ScalarLists]   \* EntryMeta
Absent == [st |-> "absent", vec |-> NoEntry]
Live(v) == [st |-> "live", vec |-> v]
Items == {Absent} \cup [st : {"live", "dead"}, vec : Vecs]

WriteOps == [kind : {"add", "update"}, id : Ids, entry : Entries]
              \cup [kind : {"remove"}, id : Ids, entry : {NoEntry}]

ASSUME CollectionAssumption ==
  /\ NoEntry \notin Entries \cup Vecs
  /\ NoOp \notin WriteOps
  /\ FsyncMayFail \in BOOLEAN
  /\ MaxWrites \in Nat \ {0}

VARIABLES
  hist, safe, acked, up, view,   \* the storage engine, see DurableKV
  index,     \* of each id: absent, live or a tombstone, and its vector
  dim,       \* Collection::dim_ of this process
  pc,        \* the step of the running write, or of open()
  op,        \* the running write: [kind, id, entry]
  told,      \* history: the entry each id has by the calls that returned OK
  doubt,     \* history: ids whose last write failed or never returned
  apart      \* history: ids whose last write failed in this process

kvVars == <<hist, safe, acked, up, view>>
histVars == <<told, doubt, apart>>
vars == <<kvVars, filterVars, index, dim, pc, op, histVars>>

KV == INSTANCE DurableKV WITH
  Keys <- Ids, Vals <- Entries, NoVal <- NoEntry, Strict <- TRUE,
  MaxHist <- MaxWrites

TypeOK ==
  /\ FilterTypeOK
  /\ hist \in Seq(KV!WritesKV) /\ Len(hist) <= MaxWrites
  /\ safe \in 0 .. Len(hist) /\ acked \in 0 .. Len(hist) /\ up \in BOOLEAN
  /\ view \in KV!Views
  /\ index \in [Ids -> Items]
  /\ dim \in Dims
  /\ pc \in {"down", "opening", "ready", "written", "stored", "indexed",
             "unfiltered"}
  /\ op \in {NoOp} \cup WriteOps
  /\ told \in KV!Views
  /\ doubt \subseteq Ids /\ apart \subseteq doubt

\* A directory that may hold an entry already.
Init ==
  /\ KV!Init
  /\ FilterInit
  /\ index = [i \in Ids |-> Absent]
  /\ dim \in Dims
  /\ pc = "down"
  /\ op = NoOp
  /\ told \in {v \in KV!Views : KV!IsView(v, hist)}
  /\ doubt = {}
  /\ apart = {}

(***************************************************************************)
(* open(): the storage engine recovers, then every live entry is put into  *)
(* both indexes, in the order of a hash table, until one is refused: it    *)
(* has another dimension, or the index holds its id already.               *)
(***************************************************************************)
OpenStorage ==
  /\ pc \in {"down", "ready"}
  /\ KV!Stop /\ hist' = hist
  /\ dim' \in IF pc = "down" THEN Dims ELSE {dim}
  /\ pc' = "opening"
  /\ UNCHANGED <<filterVars, index, op, histVars>>

LiveIn(v) == {i \in Ids : v[i] # NoEntry}
AddItemFails(i, v) == v[i].vec.dim # dim \/ index[i] # Absent
RefusedBy(v) == {i \in LiveIn(v) : AddItemFails(i, v)}

\* The ids that are visited before the first one that is refused.
Visited(v) ==
  IF RefusedBy(v) = {} THEN {LiveIn(v)} ELSE SUBSET (LiveIn(v) \ RefusedBy(v))

OpenVisit ==
  /\ pc = "opening"
  /\ KV!Start
  /\ \E V \in Visited(view') :
       /\ index' = [i \in Ids |-> IF i \in V THEN Live(view'[i].vec) ELSE index[i]]
       /\ fields' = fields \cup UNION {{s.name : s \in view'[i].scalars} : i \in V}
       /\ bits' = [s \in Scalars |-> bits[s] \cup {i \in V : s \in view'[i].scalars}]
       /\ all_ids' = all_ids \cup V
       /\ scalars' = [i \in Ids |-> IF i \in V THEN view'[i].scalars ELSE scalars[i]]
  /\ pc' = "ready"
  /\ UNCHANGED <<dim, op, histVars>>

(***************************************************************************)
(* add(), update() and remove(), up to the return of the storage engine.   *)
(***************************************************************************)
Contains(i) == index[i] # Absent

Begin(kind, i, e) ==
  /\ pc = "ready"
  /\ KV!Write([key |-> i, val |-> e])
  /\ op' = [kind |-> kind, id |-> i, entry |-> e]
  /\ pc' = "written"
  /\ UNCHANGED <<filterVars, index, dim, histVars>>

Add(i, e) == e.vec.dim = dim /\ ~Contains(i) /\ Begin("add", i, e)
Update(i, e) == e.vec.dim = dim /\ Contains(i) /\ Begin("update", i, e)
Remove(i) == Begin("remove", i, NoEntry)

StoredUnsynced == UNCHANGED kvVars
Stored == KV!Acknowledge

StorageReturns ==
  /\ pc = "written"
  /\ Stored
  /\ pc' = "stored"
  /\ UNCHANGED <<filterVars, index, dim, op, histVars>>

\* The record is in the log and its fsync failed: the call returns the error
\* and leaves both indexes as they were.
StorageFails ==
  /\ pc = "written"
  /\ FsyncMayFail
  /\ doubt' = doubt \cup {op.id}
  /\ apart' = apart \cup {op.id}
  /\ op' = NoOp
  /\ pc' = "ready"
  /\ UNCHANGED <<kvVars, filterVars, index, dim, told>>

(***************************************************************************)
(* The rest of the three calls: the HNSW index, then the filter index.     *)
(***************************************************************************)
BuriedAlways(item) == [item EXCEPT !.st = "dead"]
Buried(item) == IF item = Absent THEN item ELSE [item EXCEPT !.st = "dead"]

IndexWritten ==
  /\ pc = "stored"
  /\ index' = [index EXCEPT ![op.id] =
       IF op.kind = "remove" THEN Buried(@) ELSE Live(op.entry.vec)]
  /\ pc' = "indexed"
  /\ UNCHANGED <<kvVars, filterVars, dim, op, histVars>>

Return ==
  /\ told' = [told EXCEPT ![op.id] = op.entry]
  /\ doubt' = doubt \ {op.id}
  /\ apart' = apart \ {op.id}
  /\ op' = NoOp
  /\ pc' = "ready"

AddFilter ==
  /\ \/ pc = "indexed" /\ op.kind = "add"
     \/ pc = "unfiltered"
  /\ FilterAdd(op.id, op.entry.scalars)
  /\ Return
  /\ UNCHANGED <<kvVars, index, dim>>

KeepsOldScalars == UNCHANGED filterVars
DropOldScalars == FilterRemove(op.id)

UpdateFilter ==
  /\ pc = "indexed" /\ op.kind = "update"
  /\ DropOldScalars
  /\ pc' = "unfiltered"
  /\ UNCHANGED <<kvVars, index, dim, op, histVars>>

RemoveFilter ==
  /\ pc = "indexed" /\ op.kind = "remove"
  /\ FilterRemove(op.id)
  /\ Return
  /\ UNCHANGED <<kvVars, index, dim>>

\* snapshot() fsyncs the log and leaves both indexes alone.
Snapshot ==
  /\ pc = "ready"
  /\ KV!Sync
  /\ UNCHANGED <<filterVars, index, dim, pc, op, histVars>>

\* The process dies: memory is gone, and unsynced records may be.
Crash ==
  /\ pc # "down"
  /\ KV!Stop
  /\ fields' = {}
  /\ bits' = [s \in Scalars |-> {}]
  /\ all_ids' = {}
  /\ scalars' = [i \in Ids |-> {}]
  /\ index' = [i \in Ids |-> Absent]
  /\ doubt' = IF op = NoOp THEN doubt ELSE doubt \cup {op.id}
  /\ apart' = {}
  /\ op' = NoOp
  /\ pc' = "down"
  /\ UNCHANGED <<dim, told>>

\* What the lock of the HNSW index does not hold up ...
FreeStep ==
  \/ OpenStorage
  \/ \E i \in Ids, e \in Entries : Add(i, e) \/ Update(i, e)
  \/ \E i \in Ids : Remove(i)
  \/ StorageReturns
  \/ StorageFails
  \/ AddFilter
  \/ UpdateFilter
  \/ RemoveFilter
  \/ Snapshot

\* ... and what takes it exclusively.
LockedStep ==
  \/ OpenVisit
  \/ IndexWritten

Next == FreeStep \/ LockedStep \/ Crash

Spec == Init /\ [][Next]_vars

(***************************************************************************)
(* Properties                                                              *)
(***************************************************************************)
\* Between calls the HNSW index and the filter index hold exactly what the
\* storage engine holds, of every id but those whose last write failed in
\* this process (collection.cpp, "WAL + graph consistency").
InStep ==
  pc = "ready" =>
    \A i \in Ids \ apart :
      IF view[i] = NoEntry
      THEN /\ index[i].st # "live"
           /\ i \notin all_ids
           /\ \A s \in Scalars : i \notin bits[s]
      ELSE /\ index[i] = Live(view[i].vec)
           /\ i \in all_ids
           /\ \A s \in Scalars : i \in bits[s] <=> s \in view[i].scalars

\* What add(), update() and remove() returned OK for is what the collection
\* serves until the next write of the id, through any crash and reopening.
ToldIsServed ==
  pc = "ready" => \A i \in Ids \ doubt : view[i] = told[i]

\* collection.h "rebuild HNSW from live entries": an open() that returns OK
\* has put every live entry into the index.
OpenRebuildsAll ==
  pc = "ready" => \A i \in Ids \ apart : view[i] # NoEntry => index[i].st = "live"

\* collection.h "Replace the vector/payload/scalars of an existing id (revives
\* tombstones)": an id that was stored and then removed can be updated.
TombstonesRevive ==
  pc = "ready" =>
    \A m, n \in 1 .. safe :
      (m < n /\ hist[m].key = hist[n].key /\ hist[n].val = NoEntry
         /\ hist[m].val # NoEntry) => Contains(hist[n].key)
=============================================================================
