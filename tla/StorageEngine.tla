--------------------------- MODULE StorageEngine ---------------------------
(***************************************************************************)
(* src/storage/storage_engine.cpp: the key -> WAL offset index, its replay *)
(* at open(), the fsync policy and the snapshot protocol (snapshot.cpp,    *)
(* manifest.cpp), over the log of FrameLog.  Every operation that changes  *)
(* state holds the engine's mutex exclusively, so operations do not        *)
(* interleave with each other; a crash may fall between any two steps of   *)
(* one, and `pc' says which step the holder of the mutex is at.            *)
(***************************************************************************)
EXTENDS FrameLog

CONSTANTS
  SyncWrites,    \* Options::sync_writes
  GroupCommit,   \* Options::group_commit
  SyncEveryN,    \* Options::sync_every_n_appends
  FsyncMayFail,  \* whether fsync() of the WAL may return an error
  Times,         \* what std::time may return: a clock that may step back
  SeqMod,        \* the modulus 1000 of snapshot sequence numbers
  ManifestKeep   \* kManifestKeep

ASSUME StorageEngineAssumption ==
  /\ SyncWrites \in BOOLEAN
  /\ GroupCommit \in BOOLEAN
  /\ SyncEveryN \in Nat
  /\ FsyncMayFail \in BOOLEAN
  /\ Times \subseteq Nat
  /\ SeqMod \in Nat \ {0}
  /\ ManifestKeep \in Nat \ {0}

VARIABLES
  pc,           \* the step the holder of mutex_ is at
  index,        \* IndexManager: offset of the live put of a key
  cursor,       \* `c' of iterate_from() while it replays
  appends_since_group_sync,
  snap_seq_counter,  \* snap_seq_counter_ % 1000
  pending,      \* the snapshot being written, [seq, body]
  snaps,        \* snap-<seq>.snap as open() would read it now
  snapsAlt,     \* the versions of each file a power loss may leave
  manifest,     \* the records of MANIFEST
  manifestAlt,  \* the versions of MANIFEST a power loss may leave
  acked,        \* history: Len(file) at the last write that returned OK
  opened_at     \* history: Len(file) at the last open()

snapVars == <<snaps, snapsAlt, manifest, manifestAlt>>
histVars == <<acked, opened_at>>
vars == <<logVars, pc, index, cursor, appends_since_group_sync,
          snap_seq_counter, pending, snapVars, histVars>>

NoOffset == -1
Offsets == Nat \cup {NoOffset}
EmptyIndex == [k \in Keys |-> NoOffset]

\* A snapshot file as read_snapshot() sees it.  A missing file and one that
\* fails its CRC are alike to the caller.
Snapshots == [ok : BOOLEAN, wm : Nat, index : [Keys -> Offsets]]
Unreadable == [ok |-> FALSE, wm |-> 0, index |-> EmptyIndex]

Seqs == {t * SeqMod + c : t \in Times, c \in 0 .. SeqMod - 1}
BadLine == -1   \* a MANIFEST line that parse_line() rejects
Manifests == Seq(Seqs \cup {BadLine})
NoPending == [seq |-> BadLine, body |-> Unreadable]

Busy == {"replay", "appended", "snap_written", "snap_renamed",
         "manifest_renamed"}

TypeOK ==
  /\ LogTypeOK
  /\ pc \in Busy \cup {"down", "open", "failed"}
  /\ index \in [Keys -> Offsets]
  /\ cursor \in Nat
  /\ appends_since_group_sync \in Nat
  /\ snap_seq_counter \in 0 .. SeqMod - 1
  /\ pending \in [seq : Seqs \cup {BadLine}, body : Snapshots]
  /\ snaps \in [Seqs -> Snapshots]
  /\ snapsAlt \in [Seqs -> SUBSET Snapshots]
  /\ manifest \in Manifests
  /\ manifestAlt \in SUBSET Manifests
  /\ acked \in Nat
  /\ opened_at \in Nat

Init ==
  /\ LogInit
  /\ pc = "down"
  /\ index = EmptyIndex
  /\ cursor = 0
  /\ appends_since_group_sync = 0
  /\ snap_seq_counter = 0
  /\ pending = NoPending
  /\ snaps = [s \in Seqs |-> Unreadable]
  /\ snapsAlt = [s \in Seqs |-> {Unreadable}]
  /\ manifest = <<>>
  /\ manifestAlt = {<<>>}
  /\ acked = Len(file)
  /\ opened_at = 0

(***************************************************************************)
(* open(), recover() and the replay they start                             *)
(***************************************************************************)

\* read_manifest_latest(): the last record, provided every record parses.
ManifestReadable ==
  /\ manifest # <<>>
  /\ \A i \in 1 .. Len(manifest) : manifest[i] # BadLine
LatestSnapshot == snaps[manifest[Len(manifest)]]

\* The snapshot open() trusts: readable, and not ahead of the repaired WAL.
SnapshotUsable ==
  /\ ManifestReadable
  /\ LatestSnapshot.ok
  /\ LatestSnapshot.wm <= Len(file)

\* index_.load(): the snapshot's index replaces the one in memory.
LoadedIndexMerged ==
  [k \in Keys |-> IF LatestSnapshot.index[k] = NoOffset
                  THEN index[k] ELSE LatestSnapshot.index[k]]
LoadedIndex == LatestSnapshot.index

\* iterate_from() starts at the watermark, unless that lies before data_start.
TailStartAtEof == Len(file)
TailStart == LatestSnapshot.wm
WatermarkRefusedAtStart(start) == LatestSnapshot.wm <= start
WatermarkRefused(start) == LatestSnapshot.wm < start

\* open() repairs the WAL when the descriptor is not open yet; a second
\* open() of the same engine keeps the descriptor and replays again.
OpenLog == LogOpen \/ (fd /\ UNCHANGED logVars)

\* Only the window of group commit is counted from here.
SessionStart == IF GroupCommit THEN Len(file) ELSE 0

OpenFromSnapshot ==
  /\ pc \in {"down", "open", "failed"}
  /\ OpenLog
  /\ SnapshotUsable
  /\ ~WatermarkRefused(data_start')
  /\ index' = LoadedIndex
  /\ cursor' = TailStart
  /\ pc' = "replay"
  /\ appends_since_group_sync' = 0
  /\ opened_at' = SessionStart
  /\ UNCHANGED <<snap_seq_counter, pending, snapVars, acked>>

\* iterate_from() refuses a watermark before data_start, and open() returns
\* that error instead of falling back to a full replay.
OpenRefused ==
  /\ pc \in {"down", "open", "failed"}
  /\ OpenLog
  /\ SnapshotUsable
  /\ WatermarkRefused(data_start')
  /\ index' = LoadedIndex
  /\ cursor' = 0
  /\ pc' = "failed"
  /\ appends_since_group_sync' = 0
  /\ opened_at' = SessionStart
  /\ UNCHANGED <<snap_seq_counter, pending, snapVars, acked>>

OpenFullReplay ==
  /\ pc \in {"down", "open", "failed"}
  /\ OpenLog
  /\ ~SnapshotUsable
  /\ index' = EmptyIndex
  /\ cursor' = data_start'
  /\ pc' = "replay"
  /\ appends_since_group_sync' = 0
  /\ opened_at' = SessionStart
  /\ UNCHANGED <<snap_seq_counter, pending, snapVars, acked>>

Recover ==
  /\ pc \in {"open", "failed"}
  /\ index' = EmptyIndex
  /\ cursor' = data_start
  /\ pc' = "replay"
  /\ UNCHANGED <<logVars, appends_since_group_sync, snap_seq_counter, pending,
                 snapVars, histVars>>

\* apply_wal_entry(): what one record does to an index.
ApplyIgnoringDeletes(idx, r, off) ==
  IF r.op = "kDelete" THEN idx ELSE [idx EXCEPT ![r.key] = off]
ApplyWalEntry(idx, r, off) ==
  [idx EXCEPT ![r.key] = IF r.op = "kDelete" THEN NoOffset ELSE off]

\* iterate_from(): the frame at the cursor, then `c += ...'.
NextFrameStuck == cursor
NextFrame == cursor + 1

ReplayFrame ==
  /\ pc = "replay"
  /\ cursor < Len(file)
  /\ index' = ApplyWalEntry(index, file[cursor + 1], cursor)
  /\ cursor' = NextFrame
  /\ UNCHANGED <<logVars, pc, appends_since_group_sync, snap_seq_counter,
                 pending, snapVars, histVars>>

ReplayDone ==
  /\ pc = "replay"
  /\ cursor >= Len(file)
  /\ cursor' = 0
  /\ pc' = "open"
  /\ UNCHANGED <<logVars, index, appends_since_group_sync,
                 snap_seq_counter, pending, snapVars, histVars>>

(***************************************************************************)
(* put(), put_vector(), put_vector_v2() and remove(): append, update the   *)
(* index, then fsync as the options say.                                   *)
(***************************************************************************)
OffsetBeforeHeader == Len(file)
WriteOffset == AppendOffset

Write(r) ==
  /\ pc = "open"
  /\ LogAppend(r)
  /\ index' = ApplyWalEntry(index, r, WriteOffset)
  /\ pc' = "appended"
  /\ UNCHANGED <<cursor, appends_since_group_sync, snap_seq_counter, pending,
                 snapVars, histVars>>

Put(op, k, v) == Write([op |-> op, key |-> k, val |-> v])
Remove(k) == Write([op |-> "kDelete", key |-> k, val |-> NoVal])

\* append() fails before the frame: the error goes to the caller, and only
\* the file header may have reached the file.
WriteRejected ==
  /\ pc = "open"
  /\ LogAppendRejected
  /\ UNCHANGED <<pc, index, cursor, appends_since_group_sync,
                 snap_seq_counter, pending, snapVars, histVars>>

\* maybe_fsync_after_append()
Counts == SyncWrites /\ GroupCommit /\ SyncEveryN # 0
GroupFullLate == appends_since_group_sync >= SyncEveryN
GroupFull == appends_since_group_sync + 1 >= SyncEveryN
SyncsEveryWriteNever == FALSE
SyncsEveryWrite == SyncWrites /\ ~GroupCommit
WantsFsync == SyncsEveryWrite \/ (Counts /\ GroupFull)

WriteUnsynced ==
  /\ pc = "appended"
  /\ ~WantsFsync
  /\ appends_since_group_sync' =
       IF Counts THEN appends_since_group_sync + 1
                 ELSE appends_since_group_sync
  /\ acked' = Len(file)
  /\ pc' = "open"
  /\ UNCHANGED <<logVars, index, cursor, snap_seq_counter, pending, snapVars,
                 opened_at>>

WriteSynced ==
  /\ pc = "appended"
  /\ WantsFsync
  /\ LogSync
  /\ appends_since_group_sync' =
       IF Counts THEN 0 ELSE appends_since_group_sync
  /\ acked' = Len(file)
  /\ pc' = "open"
  /\ UNCHANGED <<index, cursor, snap_seq_counter, pending, snapVars,
                 opened_at>>

\* The caller gets an error, yet the record stays in the log and the index.
WriteSyncFails ==
  /\ pc = "appended"
  /\ WantsFsync
  /\ FsyncMayFail
  /\ appends_since_group_sync' =
       IF Counts THEN 0 ELSE appends_since_group_sync
  /\ pc' = "open"
  /\ UNCHANGED <<logVars, index, cursor, snap_seq_counter, pending, snapVars,
                 histVars>>

\* sync(): the group counter is reset whether or not fsync() succeeds.
Sync ==
  /\ pc = "open"
  /\ \/ LogSync
     \/ FsyncMayFail /\ UNCHANGED logVars
  /\ appends_since_group_sync' = 0
  /\ UNCHANGED <<pc, index, cursor, snap_seq_counter, pending, snapVars,
                 histVars>>

(***************************************************************************)
(* snapshot(): fsync the WAL, write snap-<seq>.snap.tmp, rename it, append *)
(* to MANIFEST (write a new one, rename it), fsync the directory.          *)
(***************************************************************************)
SnapshotWithoutSync == fd /\ UNCHANGED logVars
SnapshotSync == LogSync

Watermark == Len(file)

\* A sequence number may be one that an earlier process used in the same
\* second: the counter starts again at 0.
NewSeq(t) == t * SeqMod + snap_seq_counter
NextSeqCounterUnwrapped == snap_seq_counter + 1
NextSeqCounter == (snap_seq_counter + 1) % SeqMod

SnapshotWrite(t) ==
  /\ pc = "open"
  /\ SnapshotSync
  /\ pending' = [seq |-> NewSeq(t),
                 body |-> [ok |-> TRUE, wm |-> Watermark, index |-> index]]
  /\ snap_seq_counter' = NextSeqCounter
  /\ pc' = "snap_written"
  /\ UNCHANGED <<index, cursor, appends_since_group_sync, snapVars, histVars>>

\* rename() replaces what readers see at once; until the directory is
\* fsynced a power loss may bring an earlier version back.
SnapshotRename ==
  /\ pc = "snap_written"
  /\ snaps' = [snaps EXCEPT ![pending.seq] = pending.body]
  /\ snapsAlt' = [snapsAlt EXCEPT ![pending.seq] = @ \cup {pending.body}]
  /\ pc' = "snap_renamed"
  /\ UNCHANGED <<logVars, index, cursor, appends_since_group_sync,
                 snap_seq_counter, pending, manifest, manifestAlt, histVars>>

\* write_manifest_append(): the last kManifestKeep records, then the new one.
KeptAllLines == manifest
KeptLines ==
  IF Len(manifest) > ManifestKeep
  THEN SubSeq(manifest, Len(manifest) - ManifestKeep + 1, Len(manifest))
  ELSE manifest
NewManifest == Append(KeptLines, pending.seq)

ManifestAppend ==
  /\ pc = "snap_renamed"
  /\ manifest' = NewManifest
  /\ manifestAlt' = manifestAlt \cup {NewManifest}
  /\ pc' = "manifest_renamed"
  /\ UNCHANGED <<logVars, index, cursor, appends_since_group_sync,
                 snap_seq_counter, pending, snaps, snapsAlt, histVars>>

\* The directory fsync is best effort: its result is ignored.
SnapshotDone ==
  /\ pc = "manifest_renamed"
  /\ \/ /\ snapsAlt' = [s \in Seqs |-> {snaps[s]}]
        /\ manifestAlt' = {manifest}
     \/ UNCHANGED <<snapsAlt, manifestAlt>>
  /\ pending' = NoPending
  /\ pc' = "open"
  /\ UNCHANGED <<logVars, index, cursor, appends_since_group_sync,
                 snap_seq_counter, snaps, manifest, histVars>>

\* A write or a rename of the protocol fails: snapshot() returns the error.
SnapshotFails ==
  /\ pc \in {"snap_written", "snap_renamed"}
  /\ pending' = NoPending
  /\ pc' = "open"
  /\ UNCHANGED <<logVars, index, cursor, appends_since_group_sync,
                 snap_seq_counter, snapVars, histVars>>

(***************************************************************************)
(* Crashes, and damage to the snapshot files                               *)
(***************************************************************************)
ProcessGone ==
  /\ pc' = "down"
  /\ index' = EmptyIndex
  /\ cursor' = 0
  /\ appends_since_group_sync' = 0
  /\ snap_seq_counter' = 0
  /\ pending' = NoPending
  /\ opened_at' = 0

\* Death of the process (or ~StorageEngine: the case that leaves nothing torn).
Kill ==
  /\ pc # "down"
  /\ LogKill(pc = "open")
  /\ ProcessGone
  /\ UNCHANGED <<snapVars, acked>>

PowerLoss ==
  /\ LogPowerLoss(pc = "open")
  /\ ProcessGone
  /\ acked' = IF acked > Len(file') THEN Len(file') ELSE acked
  /\ \E f \in [Seqs -> UNION {snapsAlt[s] : s \in Seqs}] :
       /\ \A s \in Seqs : f[s] \in snapsAlt[s]
       /\ snaps' = f
       /\ snapsAlt' = [s \in Seqs |-> {f[s]}]
  /\ \E m \in manifestAlt :
       /\ manifest' = m
       /\ manifestAlt' = {m}

\* A snapshot file is deleted, or rots and fails its CRC.
DamageSnapshot(s) ==
  /\ pc = "down"
  /\ snaps[s] # Unreadable
  /\ snaps' = [snaps EXCEPT ![s] = Unreadable]
  /\ snapsAlt' = [snapsAlt EXCEPT ![s] = {Unreadable}]
  /\ UNCHANGED <<logVars, pc, index, cursor, appends_since_group_sync,
                 snap_seq_counter, pending, manifest, manifestAlt, histVars>>

\* A line of MANIFEST becomes unparseable.
DamageManifest(i) ==
  /\ pc = "down"
  /\ manifest' = [manifest EXCEPT ![i] = BadLine]
  /\ manifestAlt' = {manifest'}
  /\ UNCHANGED <<logVars, pc, index, cursor, appends_since_group_sync,
                 snap_seq_counter, pending, snaps, snapsAlt, histVars>>

Step ==
  \/ ReplayFrame
  \/ ReplayDone
  \/ WriteUnsynced
  \/ WriteSynced
  \/ WriteSyncFails
  \/ SnapshotRename
  \/ ManifestAppend
  \/ SnapshotDone
  \/ SnapshotFails

Next ==
  \/ OpenFromSnapshot
  \/ OpenRefused
  \/ OpenFullReplay
  \/ Recover
  \/ \E op \in PutOps, k \in Keys, v \in Vals : Put(op, k, v)
  \/ \E k \in Keys : Remove(k)
  \/ WriteRejected
  \/ Sync
  \/ \E t \in Times : SnapshotWrite(t)
  \/ Step
  \/ Kill
  \/ PowerLoss
  \/ \E s \in Seqs : DamageSnapshot(s)
  \/ \E i \in 1 .. Len(manifest) : DamageManifest(i)

Spec == Init /\ [][Next]_vars

\* The thread that holds the mutex is scheduled and its system calls return.
FairSpec == Spec /\ WF_vars(Step)

(***************************************************************************)
(* Properties                                                              *)
(***************************************************************************)

\* Record i is the last one about key k among the first n items of f.
LastRecord(f, n, k, i) ==
  /\ i \in 1 .. n
  /\ f[i].key = k
  /\ \A j \in i + 1 .. n : f[j].key # k

\* idx is the index the first n items of f stand for.
IndexMatches(idx, f, n) ==
  \A k \in Keys :
    IF idx[k] = NoOffset
    THEN \A i \in 1 .. n : LastRecord(f, n, k, i) => f[i].op = "kDelete"
    ELSE /\ LastRecord(f, n, k, idx[k] + 1)
         /\ f[idx[k] + 1].op # "kDelete"

\* An engine that serves requests has in memory exactly the index its WAL
\* stands for, however it got there: writes, full replay, snapshot and tail
\* (storage_engine.cpp, open/put/remove/recover).
IndexIsTheLog == pc = "open" => IndexMatches(index, file, Len(file))

\* What get() answers, with the checks it and read_value_at() make.
GetResult(k) ==
  IF index[k] = NoOffset THEN [status |-> "NotFound", val |-> NoVal]
  ELSE IF index[k] < data_start \/ index[k] >= Len(file)
       THEN [status |-> "NotFound", val |-> NoVal]
  ELSE IF \/ file[index[k] + 1] \notin Frames
          \/ file[index[k] + 1].key # k
       THEN [status |-> "Corruption", val |-> NoVal]
  ELSE [status |-> "OK", val |-> file[index[k] + 1].val]

\* get() returns the value of the last put of the key, and NotFound when the
\* key was never put or its last record is a delete; never Corruption.
GetIsLastWrite ==
  pc = "open" =>
    \A k \in Keys :
      \/ \E i \in 1 .. Len(file) :
           /\ LastRecord(file, Len(file), k, i)
           /\ file[i].op # "kDelete"
           /\ GetResult(k) = [status |-> "OK", val |-> file[i].val]
      \/ /\ \A i \in 1 .. Len(file) :
              LastRecord(file, Len(file), k, i) => file[i].op = "kDelete"
         /\ GetResult(k).status = "NotFound"

SnapshotSound(b) ==
  b.ok => b.wm <= durable /\ IndexMatches(b.index, file, b.wm)

\* Every snapshot file that exists, or that a power loss may bring back,
\* covers only fsynced WAL bytes and holds the index of that prefix: also
\* when a later process reused the sequence number of an older snapshot
\* (storage_engine.cpp:190 "The watermark must cover only durable WAL bytes").
SnapshotsSound ==
  \A s \in Seqs : \A b \in snapsAlt[s] \cup {snaps[s]} : SnapshotSound(b)

\* What every step preserves: the shape of the file, the meaning of the log's
\* volatile fields, sound snapshots (the one in flight included), and an index
\* that stands for the replayed prefix of the file.
Structure == fd = (pc # "down") /\ LogShape

IndexTracksLog ==
  /\ pc = "replay" =>
       /\ cursor \in data_start .. Len(file)
       /\ IndexMatches(index, file, cursor)
  /\ pc \notin {"down", "replay", "failed"} =>
       IndexMatches(index, file, Len(file))

PendingSound ==
  pc \in {"snap_written", "snap_renamed"} =>
    pending.seq \in Seqs /\ SnapshotSound(pending.body)

\* With sync_writes and no group commit, a write that returned OK is fsynced
\* (maybe_fsync_after_append), whatever crashes and failed fsyncs came before.
AckedDurable == SyncWrites /\ ~GroupCommit => acked <= durable

Largest(a, b) == IF a > b THEN a ELSE b

\* The inductive invariant behind the theorems of StorageEngineProofs: every
\* state, mid-operation ones included, keeps file, index and snapshots in step.
InductiveInvariant ==
  /\ TypeOK
  /\ Structure
  /\ IndexTracksLog
  /\ SnapshotsSound
  /\ PendingSound
  /\ AckedDurable

\* With group commit fewer than N acknowledged records of this session are
\* ever unsynced (maybe_fsync_after_append; snapshots and sync() in between).
GroupCommitWindow ==
  (SyncWrites /\ GroupCommit /\ SyncEveryN # 0 /\ pc = "open") =>
     acked - Largest(durable, Largest(opened_at, data_start)) < SyncEveryN

\* No step, repair or crash included, ever changes a fsynced record.
DurablePrefixKept ==
  [][ /\ durable <= durable'
      /\ durable <= Len(file')
      /\ \A i \in 1 .. durable : file'[i] = file[i] ]_vars

\* open() can only be refused by a snapshot that was taken of an empty WAL.
RefusedOnlyForEmptySnapshot ==
  pc = "failed" =>
    /\ manifest # <<>>
    /\ LatestSnapshot.wm = 0
    /\ HasHeader(file)

\* Whatever the engine is doing under its mutex, it finishes or dies.
OperationsFinish == (pc \in Busy) ~> (pc \notin Busy)

\* open() never refuses a WAL it could replay (the code falls back to a full
\* replay "when the manifest or snapshot is missing/corrupt").
OpenNeverRefused == pc # "failed"

\* However many snapshots are written, whichever of them fail and whatever a
\* power loss leaves of the renames, no version of MANIFEST holds more than one
\* record beyond kManifestKeep.
ManifestBounded == \A m \in manifestAlt \cup {manifest} : Len(m) <= ManifestKeep + 1

\* manifest.h: at most kManifestKeep records are kept.
ManifestKeepsAtMost == Len(manifest) <= ManifestKeep
=============================================================================
