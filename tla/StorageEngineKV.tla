-------------------------- MODULE StorageEngineKV --------------------------
(* The storage engine implements the durable key-value store of DurableKV. *)
EXTENDS StorageEngine

\* Items of the file that are not records, and a count of items as records.
HeaderItems == IF HasHeader(file) THEN 1 ELSE 0
AsRecords(n) == IF n > HeaderItems THEN n - HeaderItems ELSE 0

history ==
  [i \in 1 .. Len(Records(file)) |->
     [key |-> Records(file)[i].key, val |-> Records(file)[i].val]]

serving == pc \notin {"down", "replay", "failed"}

\* The value get() finds through the index.
served ==
  [k \in Keys |->
     IF serving /\ index[k] # NoOffset THEN file[index[k] + 1].val ELSE NoVal]

KV == INSTANCE DurableKV WITH
  Strict <- SyncWrites /\ ~GroupCommit,
  MaxHist <- MaxFile,
  hist <- history,
  safe <- AsRecords(durable),
  acked <- AsRecords(acked),
  up <- serving,
  view <- served

\* Through replays, snapshots, rejected appends, failed fsyncs and crashes the
\* engine behaves as a durable map: it loses only an unsynced suffix, and what
\* it serves is the value of the last surviving write (storage_engine.cpp).
ImplementsKV == KV!Spec
=============================================================================
