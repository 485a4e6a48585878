------------------------ MODULE StorageEngineProofs ------------------------
(***************************************************************************)
(* Theorems about StorageEngine for every set of keys and values, every    *)
(* option setting, every clock and every bound.                            *)
(***************************************************************************)
EXTENDS StorageEngineKV, WellFoundedInduction, TLAPS

(***************************************************************************)
(* Type correctness                                                        *)
(***************************************************************************)
LEMMA FrameTypes ==
  /\ FileHeader \in Items
  /\ \A op \in PutOps, k \in Keys, v \in Vals :
        [op |-> op, key |-> k, val |-> v] \in Frames
  /\ \A k \in Keys : [op |-> "kDelete", key |-> k, val |-> NoVal] \in Frames
BY DEF Items, Frames, PutFrames, DeleteFrames

LEMMA SnapshotTypes ==
  /\ EmptyIndex \in [Keys -> Offsets]
  /\ Unreadable \in Snapshots
  /\ NoPending \in [seq : Seqs \cup {BadLine}, body : Snapshots]
BY DEF EmptyIndex, Offsets, Unreadable, Snapshots, NoPending

LEMMA NewSeqType ==
  ASSUME NEW t \in Times, snap_seq_counter \in 0 .. SeqMod - 1
  PROVE  NewSeq(t) \in Seqs
BY DEF NewSeq, Seqs

\* A step of the log keeps the types of its variables.
LEMMA HeadedType == LogTypeOK => Headed \in Seq(Items)
BY FrameTypes DEF LogTypeOK, Headed, NeedsHeader

LEMMA LogOpenType == LogTypeOK /\ LogOpen => LogTypeOK'
BY DEF LogTypeOK, LogOpen

LEMMA LogAppendType ==
  ASSUME LogTypeOK, NEW r \in Frames, LogAppend(r)
  PROVE  LogTypeOK'
<1>1. r \in Items BY DEF Items
<1>2. file' \in Seq(Items) BY <1>1, HeadedType DEF LogAppend
<1> QED BY <1>2 DEF LogTypeOK, LogAppend

LEMMA LogAppendRejectedType == LogTypeOK /\ LogAppendRejected => LogTypeOK'
BY HeadedType DEF LogTypeOK, LogAppendRejected

LEMMA LogSyncType == LogTypeOK /\ LogSync => LogTypeOK'
BY DEF LogTypeOK, LogSync

LEMMA LogKillType ==
  ASSUME LogTypeOK, NEW w, LogKill(w)
  PROVE  LogTypeOK'
BY HeadedType DEF LogTypeOK, LogKill, LogDown

LEMMA LogPowerLossType ==
  ASSUME LogTypeOK, NEW w, LogPowerLoss(w)
  PROVE  LogTypeOK'
<1>1. file' \in Seq(Items)
  <2>1. ASSUME NEW n \in durable .. Len(file), file' = SubSeq(file, 1, n)
        PROVE  file' \in Seq(Items)
    BY <2>1 DEF LogTypeOK
  <2> QED BY <2>1, HeadedType DEF LogPowerLoss
<1>2. torn' \in BOOLEAN
  BY DEF LogPowerLoss, LogTypeOK
<1> QED BY <1>1, <1>2 DEF LogTypeOK, LogPowerLoss, LogDown

LEMMA OpenLogType == LogTypeOK /\ OpenLog => LogTypeOK'
BY LogOpenType DEF OpenLog, LogTypeOK, logVars

LEMMA ApplyType ==
  ASSUME NEW idx \in [Keys -> Offsets], NEW r \in Items, NEW off \in Nat
  PROVE  ApplyWalEntry(idx, r, off) \in [Keys -> Offsets]
BY DEF ApplyWalEntry, Offsets, NoOffset

LEMMA LatestType ==
  ASSUME TypeOK, SnapshotUsable
  PROVE  LatestSnapshot \in Snapshots
<1>1. manifest[Len(manifest)] \in Seqs \cup {BadLine}
  BY DEF TypeOK, Manifests, SnapshotUsable, ManifestReadable
<1>2. manifest[Len(manifest)] # BadLine
  BY DEF TypeOK, Manifests, SnapshotUsable, ManifestReadable
<1> QED BY <1>1, <1>2 DEF LatestSnapshot, TypeOK

LEMMA TypeInit == Init => TypeOK
<1> SUFFICES ASSUME Init PROVE TypeOK
  OBVIOUS
<1>0. file \in Seq(Items) /\ Len(file) \in Nat
  <2>1. ASSUME NEW r \in Frames, file = <<r>> PROVE file \in Seq(Items)
    BY <2>1 DEF Items
  <2>2. CASE file = <<>>
    BY <2>2
  <2> QED BY <2>1, <2>2 DEF Init, LogInit
<1>1. LogTypeOK
  BY <1>0 DEF Init, LogInit, LogTypeOK
<1> QED
  BY <1>1, SnapshotTypes, StorageEngineAssumption
  DEF Init, TypeOK, Manifests, LogTypeOK

LEMMA TypeNext == TypeOK /\ [Next]_vars => TypeOK'
<1> SUFFICES ASSUME TypeOK, [Next]_vars PROVE TypeOK'
  OBVIOUS
<1> USE SnapshotTypes, StorageEngineAssumption
<1>0. LogTypeOK
  BY DEF TypeOK
<1>1. CASE OpenFromSnapshot
  <2>1. LogTypeOK' BY <1>0, <1>1, OpenLogType DEF OpenFromSnapshot
  <2>2. index' \in [Keys -> Offsets] /\ cursor' \in Nat
    BY <1>1, LatestType DEF OpenFromSnapshot, LoadedIndex, TailStart, Snapshots
  <2>3. opened_at' \in Nat
    BY <1>0, <1>1 DEF OpenFromSnapshot, SessionStart, LogTypeOK
  <2> QED BY <1>1, <2>1, <2>2, <2>3 DEF OpenFromSnapshot, TypeOK, snapVars, Busy
<1>2. CASE OpenRefused
  <2>1. LogTypeOK' BY <1>0, <1>2, OpenLogType DEF OpenRefused
  <2>2. index' \in [Keys -> Offsets]
    BY <1>2, LatestType DEF OpenRefused, LoadedIndex, Snapshots
  <2>3. opened_at' \in Nat
    BY <1>0, <1>2 DEF OpenRefused, SessionStart, LogTypeOK
  <2> QED BY <1>2, <2>1, <2>2, <2>3 DEF OpenRefused, TypeOK, snapVars, Busy
<1>3. CASE OpenFullReplay
  <2>1. LogTypeOK' BY <1>0, <1>3, OpenLogType DEF OpenFullReplay
  <2>2. cursor' \in Nat BY <1>3, <2>1 DEF OpenFullReplay, LogTypeOK
  <2>3. opened_at' \in Nat
    BY <1>0, <1>3 DEF OpenFullReplay, SessionStart, LogTypeOK
  <2> QED BY <1>3, <2>1, <2>2, <2>3 DEF OpenFullReplay, TypeOK, snapVars, Busy
<1>4. CASE Recover
  BY <1>4 DEF Recover, TypeOK, LogTypeOK, logVars, snapVars, histVars, Busy
<1>5. ASSUME NEW r \in Frames, Write(r) PROVE TypeOK'
  <2>1. LogTypeOK' BY <1>0, <1>5, LogAppendType DEF Write
  <2>2. WriteOffset \in Nat
    BY <1>0, HeadedType DEF WriteOffset, AppendOffset
  <2>3. index' \in [Keys -> Offsets]
    BY <1>5, <2>2, ApplyType DEF Write, TypeOK, Items
  <2> QED BY <1>5, <2>1, <2>3 DEF Write, TypeOK, snapVars, histVars, Busy
<1>6. ASSUME NEW op \in PutOps, NEW k \in Keys, NEW v \in Vals, Put(op, k, v)
      PROVE  TypeOK'
  BY <1>5, <1>6, FrameTypes DEF Put
<1>7. ASSUME NEW k \in Keys, Remove(k) PROVE TypeOK'
  BY <1>5, <1>7, FrameTypes DEF Remove
<1>8. CASE WriteRejected
  <2>1. LogTypeOK' BY <1>0, <1>8, LogAppendRejectedType DEF WriteRejected
  <2> QED BY <1>8, <2>1 DEF WriteRejected, TypeOK, snapVars, histVars
<1>9. CASE Sync
  <2>1. LogTypeOK'
    BY <1>0, <1>9, LogSyncType DEF Sync, LogTypeOK, logVars
  <2> QED BY <1>9, <2>1 DEF Sync, TypeOK, snapVars, histVars
<1>10. ASSUME NEW t \in Times, SnapshotWrite(t) PROVE TypeOK'
  <2>1. LogTypeOK' BY <1>0, <1>10, LogSyncType DEF SnapshotWrite, SnapshotSync
  <2>2. NewSeq(t) \in Seqs BY NewSeqType DEF TypeOK
  <2>3. Watermark \in Nat BY <1>0 DEF Watermark, LogTypeOK
  <2>4. pending' \in [seq : Seqs \cup {BadLine}, body : Snapshots]
    BY <1>10, <2>2, <2>3 DEF SnapshotWrite, Snapshots, TypeOK
  <2>5. snap_seq_counter' \in 0 .. SeqMod - 1
    BY <1>10 DEF SnapshotWrite, NextSeqCounter, TypeOK
  <2> QED BY <1>10, <2>1, <2>4, <2>5
          DEF SnapshotWrite, TypeOK, snapVars, histVars, Busy
<1>11. CASE Step
  <2>1. CASE ReplayFrame
    <3>1. file[cursor + 1] \in Items
      BY <2>1 DEF ReplayFrame, TypeOK, LogTypeOK
    <3>2. index' \in [Keys -> Offsets]
      BY <2>1, <3>1, ApplyType DEF ReplayFrame, TypeOK
    <3> QED BY <2>1, <3>2
            DEF ReplayFrame, NextFrame, TypeOK, LogTypeOK, logVars, snapVars, histVars
  <2>2. CASE ReplayDone
    BY <2>2 DEF ReplayDone, TypeOK, LogTypeOK, logVars, snapVars, histVars
  <2>3. CASE WriteUnsynced
    BY <2>3 DEF WriteUnsynced, TypeOK, LogTypeOK, logVars, snapVars
  <2>4. CASE WriteSynced
    <3>1. LogTypeOK' BY <1>0, <2>4, LogSyncType DEF WriteSynced
    <3>2. acked' \in Nat BY <1>0, <2>4 DEF WriteSynced, LogTypeOK
    <3> QED BY <2>4, <3>1, <3>2 DEF WriteSynced, TypeOK, snapVars
  <2>5. CASE WriteSyncFails
    BY <2>5 DEF WriteSyncFails, TypeOK, LogTypeOK, logVars, snapVars, histVars
  <2>6. CASE SnapshotRename
    BY <2>6 DEF SnapshotRename, TypeOK, LogTypeOK, logVars, histVars, Busy
  <2>7. CASE ManifestAppend
    <3>1. KeptLines \in Manifests
      BY DEF KeptLines, TypeOK, Manifests
    <3>2. NewManifest \in Manifests
      BY <3>1 DEF NewManifest, Manifests, TypeOK
    <3> QED BY <2>7, <3>2
            DEF ManifestAppend, TypeOK, LogTypeOK, logVars, histVars, Busy
  <2>8. CASE SnapshotDone
    BY <2>8 DEF SnapshotDone, TypeOK, LogTypeOK, logVars, histVars
  <2>9. CASE SnapshotFails
    BY <2>9 DEF SnapshotFails, TypeOK, LogTypeOK, logVars, snapVars, histVars
  <2> QED BY <1>11, <2>1, <2>2, <2>3, <2>4, <2>5, <2>6, <2>7, <2>8, <2>9 DEF Step
<1>12. CASE Kill
  <2>1. LogTypeOK' BY <1>0, <1>12, LogKillType DEF Kill
  <2> QED BY <1>12, <2>1 DEF Kill, ProcessGone, TypeOK, snapVars
<1>13. CASE PowerLoss
  <2>1. LogTypeOK' BY <1>0, <1>13, LogPowerLossType DEF PowerLoss
  <2>2. acked' \in Nat BY <1>13, <2>1 DEF PowerLoss, TypeOK, LogTypeOK
  <2>3. snaps' \in [Seqs -> Snapshots] /\ snapsAlt' \in [Seqs -> SUBSET Snapshots]
    BY <1>13 DEF PowerLoss, TypeOK
  <2>4. manifest' \in Manifests /\ manifestAlt' \in SUBSET Manifests
    BY <1>13 DEF PowerLoss, TypeOK
  <2> QED BY <1>13, <2>1, <2>2, <2>3, <2>4 DEF PowerLoss, ProcessGone, TypeOK
<1>14. ASSUME NEW s \in Seqs, DamageSnapshot(s) PROVE TypeOK'
  BY <1>14 DEF DamageSnapshot, TypeOK, LogTypeOK, logVars, histVars
<1>15. ASSUME NEW i \in 1 .. Len(manifest), DamageManifest(i) PROVE TypeOK'
  <2>1. manifest' \in Manifests
    BY <1>15 DEF DamageManifest, TypeOK, Manifests
  <2> QED BY <1>15, <2>1 DEF DamageManifest, TypeOK, LogTypeOK, logVars, histVars
<1>16. CASE UNCHANGED vars
  BY <1>16 DEF vars, TypeOK, LogTypeOK, logVars, snapVars, histVars
<1> QED
  BY <1>1, <1>2, <1>3, <1>4, <1>6, <1>7, <1>8, <1>9, <1>10, <1>11, <1>12,
     <1>13, <1>14, <1>15, <1>16
  DEF Next

\* Every variable keeps its type: in particular the index maps every key to an
\* offset or to none, and every snapshot file is one that was written whole.
THEOREM TypeCorrect == Spec => []TypeOK
BY TypeInit, TypeNext, PTL DEF Spec

(***************************************************************************)
(* What an index stands for                                                *)
(***************************************************************************)

\* Whether an index matches a prefix depends on that prefix alone.
LEMMA MatchPrefix ==
  ASSUME NEW f \in Seq(Items), NEW g \in Seq(Items), NEW n \in Nat,
         n <= Len(f), n <= Len(g), \A i \in 1 .. n : g[i] = f[i],
         NEW idx \in [Keys -> Offsets], IndexMatches(idx, f, n)
  PROVE  IndexMatches(idx, g, n)
<1>1. ASSUME NEW k \in Keys, NEW i \in Int
      PROVE  LastRecord(g, n, k, i) <=> LastRecord(f, n, k, i)
  BY DEF LastRecord
<1>2. ASSUME NEW k \in Keys PROVE idx[k] + 1 \in Int
  BY DEF Offsets, NoOffset
<1>3. ASSUME NEW k \in Keys, idx[k] # NoOffset
      PROVE  LastRecord(g, n, k, idx[k] + 1) /\ g[idx[k] + 1].op # "kDelete"
  <2>1. LastRecord(f, n, k, idx[k] + 1) /\ f[idx[k] + 1].op # "kDelete"
    BY <1>3 DEF IndexMatches
  <2>2. idx[k] + 1 \in 1 .. n
    BY <2>1 DEF LastRecord
  <2> QED BY <1>1, <1>2, <2>1, <2>2
<1>4. ASSUME NEW k \in Keys, idx[k] = NoOffset,
             NEW i \in 1 .. n, LastRecord(g, n, k, i)
      PROVE  g[i].op = "kDelete"
  BY <1>1, <1>4 DEF IndexMatches
<1> QED BY <1>3, <1>4 DEF IndexMatches

\* Applying the next record extends the match by one item.
LEMMA MatchApply ==
  ASSUME NEW f \in Seq(Items), NEW n \in Nat, n < Len(f), f[n + 1] \in Frames,
         NEW idx \in [Keys -> Offsets], IndexMatches(idx, f, n)
  PROVE  IndexMatches(ApplyWalEntry(idx, f[n + 1], n), f, n + 1)
<1> DEFINE r == f[n + 1]
           new == ApplyWalEntry(idx, r, n)
<1>1. r.key \in Keys
  BY DEF Frames, PutFrames, DeleteFrames
<1>2. ASSUME NEW k \in Keys, k # r.key, NEW i \in Int
      PROVE  LastRecord(f, n + 1, k, i) <=> LastRecord(f, n, k, i)
  <2>1. ASSUME LastRecord(f, n + 1, k, i) PROVE LastRecord(f, n, k, i)
    BY <1>2, <2>1 DEF LastRecord
  <2>2. ASSUME LastRecord(f, n, k, i) PROVE LastRecord(f, n + 1, k, i)
    <3>1. \A j \in i + 1 .. n + 1 : j \in i + 1 .. n \/ j = n + 1
      OBVIOUS
    <3> QED BY <1>2, <2>2, <3>1 DEF LastRecord
  <2> QED BY <2>1, <2>2
<1>3. ASSUME NEW k \in Keys, k # r.key
      PROVE  IF new[k] = NoOffset
             THEN \A i \in 1 .. n + 1 :
                    LastRecord(f, n + 1, k, i) => f[i].op = "kDelete"
             ELSE /\ LastRecord(f, n + 1, k, new[k] + 1)
                  /\ f[new[k] + 1].op # "kDelete"
  <2>1. new[k] = idx[k] /\ idx[k] + 1 \in Int
    BY <1>3 DEF ApplyWalEntry, Offsets, NoOffset
  <2>2. CASE idx[k] = NoOffset
    <3>1. ASSUME NEW i \in 1 .. n + 1, LastRecord(f, n + 1, k, i)
          PROVE  f[i].op = "kDelete"
      <4>1. LastRecord(f, n, k, i) BY <1>2, <1>3, <3>1
      <4>2. i \in 1 .. n BY <4>1 DEF LastRecord
      <4> QED BY <2>2, <4>1, <4>2 DEF IndexMatches
    <3> QED BY <2>1, <2>2, <3>1
  <2>3. CASE idx[k] # NoOffset
    <3>1. LastRecord(f, n, k, idx[k] + 1) /\ f[idx[k] + 1].op # "kDelete"
      BY <2>3 DEF IndexMatches
    <3> QED BY <1>2, <1>3, <2>1, <2>3, <3>1
  <2> QED BY <2>2, <2>3
<1>4. LastRecord(f, n + 1, r.key, n + 1)
  BY DEF LastRecord
<1>5. ASSUME NEW i \in 1 .. n + 1, LastRecord(f, n + 1, r.key, i)
      PROVE  i = n + 1
  BY <1>5 DEF LastRecord
<1>6. IF new[r.key] = NoOffset
      THEN \A i \in 1 .. n + 1 :
             LastRecord(f, n + 1, r.key, i) => f[i].op = "kDelete"
      ELSE /\ LastRecord(f, n + 1, r.key, new[r.key] + 1)
           /\ f[new[r.key] + 1].op # "kDelete"
  <2>1. CASE r.op = "kDelete"
    <3>1. new[r.key] = NoOffset BY <1>1, <2>1 DEF ApplyWalEntry
    <3> QED BY <1>5, <2>1, <3>1
  <2>2. CASE r.op # "kDelete"
    <3>1. new[r.key] = n /\ n # NoOffset
      BY <1>1, <2>2 DEF ApplyWalEntry, NoOffset
    <3> QED BY <1>4, <2>2, <3>1
  <2> QED BY <2>1, <2>2
<1>7. ASSUME NEW k \in Keys
      PROVE  IF new[k] = NoOffset
             THEN \A i \in 1 .. n + 1 :
                    LastRecord(f, n + 1, k, i) => f[i].op = "kDelete"
             ELSE /\ LastRecord(f, n + 1, k, new[k] + 1)
                  /\ f[new[k] + 1].op # "kDelete"
  BY <1>3, <1>6
<1> HIDE DEF new
<1>8. IndexMatches(new, f, n + 1)
  BY <1>7 DEF IndexMatches
<1> QED BY <1>8 DEF new

\* The empty index matches a prefix that holds no record.
LEMMA MatchEmpty ==
  ASSUME NEW f, NEW n \in {0, 1}, n = 1 => f[1] = FileHeader
  PROVE  IndexMatches(EmptyIndex, f, n)
<1>1. ASSUME NEW k \in Keys, NEW i \in 1 .. n PROVE ~LastRecord(f, n, k, i)
  <2>1. i = 1 /\ f[i].key = NoKey
    BY DEF FileHeader
  <2> QED BY <2>1, WalFramesAssumption DEF LastRecord
<1> QED BY <1>1 DEF IndexMatches, EmptyIndex

(***************************************************************************)
(* What a step of the log does to the file                                 *)
(***************************************************************************)
DurableKept ==
  /\ durable <= durable'
  /\ durable' <= Len(file')
  /\ \A i \in 1 .. durable : file'[i] = file[i]

\* A snapshot stays sound as long as no fsynced record changes.
LEMMA SnapshotStaysSound ==
  ASSUME LogTypeOK, LogTypeOK', durable <= Len(file), DurableKept,
         NEW b \in Snapshots, SnapshotSound(b)
  PROVE  SnapshotSound(b)'
<1> SUFFICES ASSUME b.ok
             PROVE  b.wm <= durable' /\ IndexMatches(b.index, file', b.wm)
  BY DEF SnapshotSound
<1>1. b.wm \in Nat /\ b.index \in [Keys -> Offsets]
  BY DEF Snapshots
<1>2. b.wm <= durable /\ IndexMatches(b.index, file, b.wm)
  BY DEF SnapshotSound
<1>3. b.wm <= durable' /\ b.wm <= Len(file) /\ b.wm <= Len(file')
  BY <1>1, <1>2 DEF DurableKept, LogTypeOK
<1>4. \A i \in 1 .. b.wm : file'[i] = file[i]
  BY <1>1, <1>2 DEF DurableKept, LogTypeOK
<1> QED BY <1>1, <1>2, <1>3, <1>4, MatchPrefix DEF LogTypeOK

LEMMA FrameNotHeader == \A r \in Frames : r # FileHeader
BY WalFramesAssumption DEF Frames, PutFrames, DeleteFrames, FileHeader

LEMMA OpenLogShape ==
  ASSUME LogTypeOK, LogShape, OpenLog
  PROVE  LogShape' /\ DurableKept /\ fd' /\ file' = file
BY DEF OpenLog, LogOpen, LogShape, DurableKept, LogTypeOK, HasHeader, logVars

LEMMA HeadedShape ==
  ASSUME LogTypeOK, LogShape
  PROVE  /\ Len(Headed) >= Len(file)
         /\ \A i \in 1 .. Len(file) : Headed[i] = file[i]
         /\ \A i \in 2 .. Len(Headed) : Headed[i] # FileHeader
BY DEF Headed, NeedsHeader, LogShape, LogTypeOK

LEMMA LogAppendShape ==
  ASSUME LogTypeOK, LogShape, NEW r \in Frames, LogAppend(r)
  PROVE  /\ LogShape'
         /\ DurableKept
         /\ Len(file') = AppendOffset + 1
         /\ file'[AppendOffset + 1] = r
         /\ \A i \in 1 .. AppendOffset : file'[i] = Headed[i]
<1>1. Headed \in Seq(Items) /\ r \in Items
  BY HeadedType DEF Items
<1>2. /\ Len(file') = Len(Headed) + 1
      /\ file'[Len(Headed) + 1] = r
      /\ \A i \in 1 .. Len(Headed) : file'[i] = Headed[i]
  BY <1>1 DEF LogAppend
<1>3. Len(Headed) \in Nat /\ Len(file) \in Nat
  BY <1>1 DEF LogTypeOK
<1>4. DurableKept
  BY <1>2, <1>3, HeadedShape DEF DurableKept, LogAppend, LogTypeOK, LogShape
<1>5. \A i \in 2 .. Len(file') : file'[i] # FileHeader
  <2>1. ASSUME NEW i \in 2 .. Len(file') PROVE file'[i] # FileHeader
    <3>1. CASE i = Len(Headed) + 1
      BY <1>2, <3>1, FrameNotHeader
    <3>2. CASE i # Len(Headed) + 1
      <4>1. i \in 2 .. Len(Headed) BY <1>2, <1>3, <3>2
      <4> QED BY <1>2, <4>1, HeadedShape
    <3> QED BY <3>1, <3>2
  <2> QED BY <2>1
<1>6. LogShape'
  <2>1. HasHeader(file') <=> HasHeader(Headed) \/ (Headed = <<>> /\ r = FileHeader)
    BY <1>1, <1>2, <1>3 DEF HasHeader
  <2>2. HasHeader(file') <=> HasHeader(Headed)
    BY <2>1, FrameNotHeader
  <2>3. data_start' = IF HasHeader(file') THEN 1 ELSE 0
    <3>1. CASE NeedsHeader
      BY <2>2, <3>1 DEF LogAppend, Headed, HasHeader
    <3>2. CASE ~NeedsHeader
      BY <2>2, <3>2 DEF LogAppend, Headed, LogShape
    <3> QED BY <3>1, <3>2
  <2>4. legacy_wal' => ~HasHeader(file')
    BY <2>2 DEF LogAppend, Headed, NeedsHeader, LogShape
  <2>5. fd' /\ ~torn'
    BY DEF LogAppend, LogShape
  <2>6. durable' <= Len(file')
    BY <1>4 DEF DurableKept
  <2> QED BY <1>5, <2>3, <2>4, <2>5, <2>6 DEF LogShape
<1> QED BY <1>2, <1>4, <1>6 DEF AppendOffset

LEMMA LogAppendRejectedShape ==
  ASSUME LogTypeOK, LogShape, LogAppendRejected
  PROVE  LogShape' /\ DurableKept /\ file = <<>> /\ file' = <<FileHeader>>
BY DEF LogAppendRejected, LogShape, DurableKept, LogTypeOK, Headed,
       NeedsHeader, HasHeader

LEMMA LogSyncShape ==
  ASSUME LogTypeOK, LogShape, LogSync
  PROVE  LogShape' /\ DurableKept /\ file' = file /\ durable' = Len(file)
BY DEF LogSync, LogShape, DurableKept, LogTypeOK

LEMMA LogKillShape ==
  ASSUME LogTypeOK, LogShape, NEW w, LogKill(w)
  PROVE  LogShape' /\ DurableKept /\ ~fd'
<1>1. file' \in {file, Headed}
  BY DEF LogKill
<1>2. /\ Len(file') >= Len(file)
      /\ \A i \in 1 .. Len(file) : file'[i] = file[i]
      /\ \A i \in 2 .. Len(file') : file'[i] # FileHeader
  BY <1>1, HeadedShape DEF LogShape, LogTypeOK
<1>3. Len(file') \in Nat
  BY LogKillType DEF LogTypeOK
<1> QED BY <1>2, <1>3 DEF LogKill, LogDown, LogShape, DurableKept, LogTypeOK

LEMMA LogPowerLossShape ==
  ASSUME LogTypeOK, LogShape, NEW w, LogPowerLoss(w)
  PROVE  LogShape' /\ DurableKept /\ ~fd'
<1> DEFINE Kept ==
      /\ Len(file') \in Nat
      /\ durable <= Len(file')
      /\ \A i \in 1 .. durable : file'[i] = file[i]
      /\ \A i \in 2 .. Len(file') : file'[i] # FileHeader
<1>1. Kept
  <2>1. ASSUME NEW n \in durable .. Len(file), file' = SubSeq(file, 1, n)
        PROVE  Kept
    <3>1. Len(file') = n /\ \A i \in 1 .. n : file'[i] = file[i]
      BY <2>1 DEF LogTypeOK
    <3> QED BY <3>1 DEF LogShape, LogTypeOK
  <2>2. CASE file' = Headed
    <3>1. Len(Headed) \in Nat BY HeadedType
    <3> QED BY <2>2, <3>1, HeadedShape DEF LogShape, LogTypeOK
  <2> QED BY <2>1, <2>2 DEF LogPowerLoss
<1> QED BY <1>1 DEF LogPowerLoss, LogDown, LogShape, DurableKept, LogTypeOK

(***************************************************************************)
(* The inductive invariant                                                 *)
(***************************************************************************)

\* Steps that touch neither the snapshot files nor the history.
LEMMA SnapshotsKept ==
  ASSUME InductiveInvariant, LogTypeOK', DurableKept,
         snaps' = snaps, snapsAlt' = snapsAlt
  PROVE  SnapshotsSound'
<1>1. ASSUME NEW s \in Seqs, NEW b \in snapsAlt[s] \cup {snaps[s]}
      PROVE  SnapshotSound(b)'
  <2>1. b \in Snapshots
    BY DEF InductiveInvariant, TypeOK
  <2>2. SnapshotSound(b)
    BY DEF InductiveInvariant, SnapshotsSound
  <2> QED BY <2>1, <2>2, SnapshotStaysSound
          DEF InductiveInvariant, TypeOK, Structure, LogShape
<1> QED BY <1>1 DEF SnapshotsSound

LEMMA AckedKept ==
  ASSUME InductiveInvariant, LogTypeOK', DurableKept, acked' \in Nat,
         acked' <= acked
  PROVE  AckedDurable'
BY DEF InductiveInvariant, TypeOK, LogTypeOK, DurableKept, AckedDurable

LEMMA InvariantInit == Init => InductiveInvariant
<1> SUFFICES ASSUME Init PROVE InductiveInvariant
  OBVIOUS
<1>1. TypeOK
  BY TypeInit
<1>2. \A i \in 2 .. Len(file) : file[i] # FileHeader
  BY DEF Init, LogInit
<1>3. Structure
  BY <1>1, <1>2 DEF Init, LogInit, Structure, LogShape, TypeOK, LogTypeOK
<1>4. SnapshotsSound
  BY DEF Init, SnapshotsSound, SnapshotSound, Unreadable
<1>5. AckedDurable
  BY <1>1 DEF Init, LogInit, AckedDurable, TypeOK, LogTypeOK
<1> QED
  BY <1>1, <1>3, <1>4, <1>5
  DEF Init, InductiveInvariant, IndexTracksLog, PendingSound

\* open(), with the log repaired and one of three outcomes.
LEMMA OpenKeeps ==
  ASSUME InductiveInvariant, TypeOK',
         OpenFromSnapshot \/ OpenRefused \/ OpenFullReplay
  PROVE  InductiveInvariant'
<1>0. LogTypeOK /\ LogTypeOK' /\ LogShape
  BY DEF InductiveInvariant, TypeOK, Structure
<1>1. LogShape' /\ DurableKept /\ fd' /\ file' = file
  BY <1>0, OpenLogShape DEF OpenFromSnapshot, OpenRefused, OpenFullReplay
<1>2. Structure'
  BY <1>1 DEF Structure, OpenFromSnapshot, OpenRefused, OpenFullReplay
<1>3. SnapshotsSound'
  BY <1>0, <1>1, SnapshotsKept
  DEF OpenFromSnapshot, OpenRefused, OpenFullReplay, snapVars
<1>4. AckedDurable'
  BY <1>0, <1>1, AckedKept
  DEF OpenFromSnapshot, OpenRefused, OpenFullReplay, InductiveInvariant, TypeOK
<1>5. PendingSound'
  BY DEF PendingSound, OpenFromSnapshot, OpenRefused, OpenFullReplay
<1>6. IndexTracksLog'
  <2>1. CASE OpenFromSnapshot
    <3>1. LatestSnapshot \in Snapshots /\ LatestSnapshot.ok
      BY <2>1, LatestType
      DEF OpenFromSnapshot, SnapshotUsable, InductiveInvariant
    <3>2. SnapshotSound(LatestSnapshot)
      <4>1. manifest[Len(manifest)] \in Seqs
        BY <2>1 DEF OpenFromSnapshot, SnapshotUsable, ManifestReadable,
                    InductiveInvariant, TypeOK, Manifests
      <4> QED BY <4>1 DEF InductiveInvariant, SnapshotsSound, LatestSnapshot
    <3>3. IndexMatches(LatestSnapshot.index, file, LatestSnapshot.wm)
      BY <3>1, <3>2 DEF SnapshotSound
    <3>4. cursor' \in data_start' .. Len(file')
      BY <1>0, <1>1, <2>1, <3>1
      DEF OpenFromSnapshot, WatermarkRefused, TailStart, SnapshotUsable,
          Snapshots, LogTypeOK
    <3> QED BY <1>1, <2>1, <3>3, <3>4
            DEF IndexTracksLog, OpenFromSnapshot, LoadedIndex, TailStart
  <2>2. CASE OpenRefused
    BY <2>2 DEF OpenRefused, IndexTracksLog
  <2>3. CASE OpenFullReplay
    <3>1. data_start' = IF HasHeader(file') THEN 1 ELSE 0
      BY <1>1 DEF LogShape
    <3>2. cursor' \in {0, 1} /\ (cursor' = 1 => file'[1] = FileHeader)
      BY <2>3, <3>1 DEF OpenFullReplay, HasHeader
    <3>3. IndexMatches(EmptyIndex, file', cursor')
      BY <3>2, MatchEmpty
    <3>4. cursor' \in data_start' .. Len(file')
      BY <1>0, <2>3, <3>1 DEF OpenFullReplay, HasHeader, LogTypeOK
    <3> QED BY <2>3, <3>3, <3>4 DEF IndexTracksLog, OpenFullReplay
  <2> QED BY <2>1, <2>2, <2>3
<1> QED BY <1>2, <1>3, <1>4, <1>5, <1>6 DEF InductiveInvariant

\* put() and remove(): the new record is the last one about its key.
LEMMA WriteKeeps ==
  ASSUME InductiveInvariant, TypeOK', NEW r \in Frames, Write(r)
  PROVE  InductiveInvariant'
<1>0. LogTypeOK /\ LogTypeOK' /\ LogShape
  BY DEF InductiveInvariant, TypeOK, Structure
<1>1. /\ LogShape'
      /\ DurableKept
      /\ Len(file') = AppendOffset + 1
      /\ file'[AppendOffset + 1] = r
      /\ \A i \in 1 .. AppendOffset : file'[i] = Headed[i]
  BY <1>0, LogAppendShape DEF Write
<1>2. Structure'
  BY <1>1 DEF Structure, InductiveInvariant, Write, LogAppend
<1>3. SnapshotsSound'
  BY <1>0, <1>1, SnapshotsKept DEF Write, snapVars
<1>4. AckedDurable'
  BY <1>0, <1>1, AckedKept DEF Write, histVars, InductiveInvariant, TypeOK
<1>5. PendingSound'
  BY DEF PendingSound, Write
<1>6. IndexTracksLog'
  <2>1. Headed \in Seq(Items) /\ AppendOffset \in Nat
    BY <1>0, HeadedType DEF AppendOffset
  <2>2. IndexMatches(index, Headed, AppendOffset)
    <3>1. IndexMatches(index, file, Len(file))
      BY DEF InductiveInvariant, IndexTracksLog, Write
    <3>2. CASE NeedsHeader
      <4>1. Headed = <<FileHeader>> /\ AppendOffset = 1
        BY <3>2 DEF Headed, AppendOffset
      <4>2. ASSUME NEW k \in Keys PROVE index[k] = NoOffset
        <5>1. Len(file) = 0 BY <3>2 DEF NeedsHeader
        <5>2. ASSUME index[k] # NoOffset PROVE FALSE
          <6>1. LastRecord(file, Len(file), k, index[k] + 1)
            BY <3>1, <5>2 DEF IndexMatches
          <6> QED BY <5>1, <6>1 DEF LastRecord
        <5> QED BY <5>2
      <4>3. index = EmptyIndex
        BY <4>2 DEF EmptyIndex, InductiveInvariant, TypeOK
      <4>4. IndexMatches(EmptyIndex, Headed, 1)
        BY <4>1, MatchEmpty
      <4> QED BY <4>1, <4>3, <4>4
    <3>3. CASE ~NeedsHeader
      BY <3>1, <3>3 DEF Headed, AppendOffset
    <3> QED BY <3>2, <3>3
  <2>3. IndexMatches(index, file', AppendOffset)
    <3>1. Len(Headed) = AppendOffset
      BY DEF AppendOffset
    <3>2. file' \in Seq(Items) /\ index \in [Keys -> Offsets]
      BY <1>0 DEF InductiveInvariant, TypeOK, LogTypeOK
    <3>3. AppendOffset <= Len(Headed) /\ AppendOffset <= Len(file')
      BY <1>1, <2>1, <3>1
    <3> QED BY <1>1, <2>1, <2>2, <3>2, <3>3, MatchPrefix
  <2>4. IndexMatches(ApplyWalEntry(index, r, AppendOffset), file', AppendOffset + 1)
    <3>1. file' \in Seq(Items) /\ index \in [Keys -> Offsets]
      BY <1>0 DEF InductiveInvariant, TypeOK, LogTypeOK
    <3>2. AppendOffset < Len(file') /\ file'[AppendOffset + 1] \in Frames
      BY <1>1, <2>1
    <3>3. IndexMatches(ApplyWalEntry(index, file'[AppendOffset + 1], AppendOffset),
                       file', AppendOffset + 1)
      BY <2>1, <2>3, <3>1, <3>2, MatchApply
    <3> QED BY <1>1, <3>3
  <2> QED BY <1>1, <2>4 DEF IndexTracksLog, Write, WriteOffset
<1> QED BY <1>2, <1>3, <1>4, <1>5, <1>6 DEF InductiveInvariant

\* A frame of a replay extends the prefix the index stands for.
LEMMA ReplayKeeps ==
  ASSUME InductiveInvariant, TypeOK', ReplayFrame
  PROVE  IndexTracksLog'
<1>1. /\ file \in Seq(Items)
      /\ index \in [Keys -> Offsets]
      /\ cursor \in Nat
      /\ data_start \in {0, 1}
      /\ Len(file) \in Nat
  BY DEF InductiveInvariant, TypeOK, LogTypeOK
<1>2. cursor \in data_start .. Len(file) /\ IndexMatches(index, file, cursor)
  BY DEF InductiveInvariant, IndexTracksLog, ReplayFrame
<1>3. cursor < Len(file) /\ pc' = "replay" /\ cursor' = cursor + 1
      /\ file' = file /\ data_start' = data_start
  BY DEF ReplayFrame, NextFrame, logVars
<1>4. file[cursor + 1] \in Frames
  <2>1. file[cursor + 1] \in Items
    BY <1>1, <1>3
  <2>2. data_start = IF HasHeader(file) THEN 1 ELSE 0
    BY DEF InductiveInvariant, Structure, LogShape, ReplayFrame
  <2>3. file[cursor + 1] # FileHeader
    <3>1. CASE cursor = 0
      BY <1>1, <1>2, <1>3, <2>2, <3>1 DEF HasHeader
    <3>2. CASE cursor # 0
      <4>1. cursor + 1 \in 2 .. Len(file)
        BY <1>1, <1>3, <3>2
      <4> QED BY <4>1 DEF InductiveInvariant, Structure, LogShape
    <3> QED BY <3>1, <3>2
  <2> QED BY <2>1, <2>3 DEF Items
<1>5. IndexMatches(ApplyWalEntry(index, file[cursor + 1], cursor), file, cursor + 1)
  BY <1>1, <1>2, <1>3, <1>4, MatchApply
<1>6. index' = ApplyWalEntry(index, file[cursor + 1], cursor)
  BY DEF ReplayFrame
<1>7. cursor' \in data_start' .. Len(file')
  BY <1>1, <1>2, <1>3
<1> QED BY <1>3, <1>5, <1>6, <1>7 DEF IndexTracksLog

\* Steps that leave the log alone.
LEMMA UnchangedLog ==
  ASSUME InductiveInvariant, UNCHANGED logVars
  PROVE  LogShape' /\ DurableKept /\ LogTypeOK'
BY DEF InductiveInvariant, Structure, TypeOK, LogTypeOK, LogShape, DurableKept,
       logVars

LEMMA StepKeeps ==
  ASSUME InductiveInvariant, TypeOK', Step
  PROVE  InductiveInvariant'
<1>0. LogTypeOK /\ LogTypeOK' /\ LogShape /\ acked \in Nat /\ acked' \in Nat
  BY DEF InductiveInvariant, TypeOK, Structure
<1>1. CASE ReplayFrame
  <2>1. LogShape' /\ DurableKept
    BY <1>1, UnchangedLog DEF ReplayFrame
  <2>2. SnapshotsSound'
    BY <1>0, <1>1, <2>1, SnapshotsKept DEF ReplayFrame, snapVars
  <2>3. AckedDurable'
    BY <1>0, <1>1, <2>1, AckedKept DEF ReplayFrame, histVars
  <2>4. IndexTracksLog'
    BY <1>1, ReplayKeeps
  <2> QED BY <1>1, <2>1, <2>2, <2>3, <2>4
          DEF ReplayFrame, InductiveInvariant, Structure, PendingSound, logVars
<1>2. CASE ReplayDone
  <2>1. LogShape' /\ DurableKept
    BY <1>2, UnchangedLog DEF ReplayDone
  <2>2. SnapshotsSound'
    BY <1>0, <1>2, <2>1, SnapshotsKept DEF ReplayDone, snapVars
  <2>3. AckedDurable'
    BY <1>0, <1>2, <2>1, AckedKept DEF ReplayDone, histVars
  <2>4. IndexMatches(index, file, cursor) /\ cursor = Len(file)
    BY <1>0, <1>2 DEF ReplayDone, InductiveInvariant, IndexTracksLog, LogTypeOK
  <2>5. IndexTracksLog'
    BY <1>2, <2>4 DEF ReplayDone, IndexTracksLog, logVars
  <2> QED BY <1>2, <2>1, <2>2, <2>3, <2>5
          DEF ReplayDone, InductiveInvariant, Structure, PendingSound, logVars
<1>3. CASE WriteUnsynced
  <2>1. LogShape' /\ DurableKept
    BY <1>3, UnchangedLog DEF WriteUnsynced
  <2>2. SnapshotsSound'
    BY <1>0, <1>3, <2>1, SnapshotsKept DEF WriteUnsynced, snapVars
  <2>3. AckedDurable'
    BY <1>3 DEF WriteUnsynced, WantsFsync, SyncsEveryWrite, AckedDurable
  <2> QED BY <1>3, <2>1, <2>2, <2>3
          DEF WriteUnsynced, InductiveInvariant, Structure, PendingSound,
              IndexTracksLog, logVars
<1>4. CASE WriteSynced
  <2>1. LogShape' /\ DurableKept /\ file' = file /\ durable' = Len(file)
    BY <1>0, <1>4, LogSyncShape DEF WriteSynced
  <2>2. SnapshotsSound'
    BY <1>0, <1>4, <2>1, SnapshotsKept DEF WriteSynced, snapVars
  <2>3. AckedDurable'
    BY <1>0, <1>4, <2>1 DEF WriteSynced, AckedDurable, LogTypeOK
  <2> QED BY <1>4, <2>1, <2>2, <2>3
          DEF WriteSynced, LogSync, InductiveInvariant, Structure, PendingSound,
              IndexTracksLog
<1>5. CASE WriteSyncFails
  <2>1. LogShape' /\ DurableKept
    BY <1>5, UnchangedLog DEF WriteSyncFails
  <2>2. SnapshotsSound'
    BY <1>0, <1>5, <2>1, SnapshotsKept DEF WriteSyncFails, snapVars
  <2>3. AckedDurable'
    BY <1>0, <1>5, <2>1, AckedKept DEF WriteSyncFails, histVars
  <2> QED BY <1>5, <2>1, <2>2, <2>3
          DEF WriteSyncFails, InductiveInvariant, Structure, PendingSound,
              IndexTracksLog, logVars
<1>6. CASE SnapshotRename
  <2>1. LogShape' /\ DurableKept
    BY <1>6, UnchangedLog DEF SnapshotRename
  <2>2. AckedDurable'
    BY <1>0, <1>6, <2>1, AckedKept DEF SnapshotRename, histVars
  <2>3. pending.seq \in Seqs /\ SnapshotSound(pending.body)
    BY <1>6 DEF SnapshotRename, InductiveInvariant, PendingSound
  <2>4. file' = file /\ durable' = durable /\ pending' = pending
    BY <1>6 DEF SnapshotRename, logVars
  <2>5. SnapshotsSound'
    <3>1. ASSUME NEW s \in Seqs, NEW b \in snapsAlt'[s] \cup {snaps'[s]}
          PROVE  SnapshotSound(b)
      <4>1. b \in snapsAlt[s] \cup {snaps[s]} \/ b = pending.body
        BY <1>6 DEF SnapshotRename, InductiveInvariant, TypeOK
      <4> QED BY <2>3, <4>1 DEF InductiveInvariant, SnapshotsSound
    <3> QED BY <2>4, <3>1 DEF SnapshotsSound, SnapshotSound
  <2>6. PendingSound'
    BY <2>3, <2>4 DEF PendingSound, SnapshotSound
  <2> QED BY <1>6, <2>1, <2>2, <2>5, <2>6
          DEF SnapshotRename, InductiveInvariant, Structure, IndexTracksLog,
              logVars
<1>7. CASE ManifestAppend
  <2>1. LogShape' /\ DurableKept
    BY <1>7, UnchangedLog DEF ManifestAppend
  <2>2. SnapshotsSound'
    BY <1>0, <1>7, <2>1, SnapshotsKept DEF ManifestAppend
  <2>3. AckedDurable'
    BY <1>0, <1>7, <2>1, AckedKept DEF ManifestAppend, histVars
  <2> QED BY <1>7, <2>1, <2>2, <2>3
          DEF ManifestAppend, InductiveInvariant, Structure, PendingSound,
              IndexTracksLog, logVars
<1>8. CASE SnapshotDone
  <2>1. LogShape' /\ DurableKept
    BY <1>8, UnchangedLog DEF SnapshotDone
  <2>2. AckedDurable'
    BY <1>0, <1>8, <2>1, AckedKept DEF SnapshotDone, histVars
  <2>3. file' = file /\ durable' = durable
    BY <1>8 DEF SnapshotDone, logVars
  <2>4. SnapshotsSound'
    <3>1. ASSUME NEW s \in Seqs, NEW b \in snapsAlt'[s] \cup {snaps'[s]}
          PROVE  SnapshotSound(b)
      <4>1. b \in snapsAlt[s] \cup {snaps[s]}
        BY <1>8 DEF SnapshotDone
      <4> QED BY <4>1 DEF InductiveInvariant, SnapshotsSound
    <3> QED BY <2>3, <3>1 DEF SnapshotsSound, SnapshotSound
  <2> QED BY <1>8, <2>1, <2>2, <2>4
          DEF SnapshotDone, InductiveInvariant, Structure, PendingSound,
              IndexTracksLog, logVars
<1>9. CASE SnapshotFails
  <2>1. LogShape' /\ DurableKept
    BY <1>9, UnchangedLog DEF SnapshotFails
  <2>2. SnapshotsSound'
    BY <1>0, <1>9, <2>1, SnapshotsKept DEF SnapshotFails, snapVars
  <2>3. AckedDurable'
    BY <1>0, <1>9, <2>1, AckedKept DEF SnapshotFails, histVars
  <2> QED BY <1>9, <2>1, <2>2, <2>3
          DEF SnapshotFails, InductiveInvariant, Structure, PendingSound,
              IndexTracksLog, logVars
<1> QED BY <1>1, <1>2, <1>3, <1>4, <1>5, <1>6, <1>7, <1>8, <1>9 DEF Step

LEMMA RecoverKeeps ==
  ASSUME InductiveInvariant, TypeOK', Recover
  PROVE  InductiveInvariant'
<1>0. LogTypeOK /\ LogTypeOK' /\ acked \in Nat /\ acked' \in Nat
  BY DEF InductiveInvariant, TypeOK
<1>1. LogShape' /\ DurableKept
  BY UnchangedLog DEF Recover
<1>2. SnapshotsSound'
  BY <1>0, <1>1, SnapshotsKept DEF Recover, snapVars
<1>3. AckedDurable'
  BY <1>0, <1>1, AckedKept DEF Recover, histVars
<1>4. fd /\ fd' /\ file' = file /\ data_start' = data_start
  BY DEF Recover, InductiveInvariant, Structure, logVars
<1>5. data_start = IF HasHeader(file) THEN 1 ELSE 0
  BY <1>4 DEF InductiveInvariant, Structure, LogShape
<1>6. IndexMatches(EmptyIndex, file, data_start)
  BY <1>5, MatchEmpty DEF HasHeader
<1>7. data_start \in data_start .. Len(file)
  BY <1>0, <1>5 DEF HasHeader, LogTypeOK
<1> QED BY <1>1, <1>2, <1>3, <1>4, <1>6, <1>7
        DEF Recover, InductiveInvariant, Structure, IndexTracksLog, PendingSound

LEMMA WriteRejectedKeeps ==
  ASSUME InductiveInvariant, TypeOK', WriteRejected
  PROVE  InductiveInvariant'
<1>0. LogTypeOK /\ LogTypeOK' /\ LogShape /\ acked \in Nat /\ acked' \in Nat
  BY DEF InductiveInvariant, TypeOK, Structure
<1>1. LogShape' /\ DurableKept /\ file = <<>> /\ file' = <<FileHeader>>
  BY <1>0, LogAppendRejectedShape DEF WriteRejected
<1>2. SnapshotsSound'
  BY <1>0, <1>1, SnapshotsKept DEF WriteRejected, snapVars
<1>3. AckedDurable'
  BY <1>0, <1>1, AckedKept DEF WriteRejected, histVars
<1>4. index = EmptyIndex
  <2>1. IndexMatches(index, file, Len(file)) /\ Len(file) = 0
    BY <1>1 DEF InductiveInvariant, IndexTracksLog, WriteRejected
  <2>2. ASSUME NEW k \in Keys PROVE index[k] = NoOffset
    <3>1. ASSUME index[k] # NoOffset PROVE FALSE
      <4>1. LastRecord(file, Len(file), k, index[k] + 1)
        BY <2>1, <3>1 DEF IndexMatches
      <4> QED BY <2>1, <4>1 DEF LastRecord
    <3> QED BY <3>1
  <2> QED BY <2>2 DEF EmptyIndex, InductiveInvariant, TypeOK
<1>5. Len(file') = 1 /\ IndexMatches(EmptyIndex, file', 1)
  BY <1>1, MatchEmpty
<1>6. IndexTracksLog'
  BY <1>4, <1>5 DEF IndexTracksLog, WriteRejected
<1> QED BY <1>1, <1>2, <1>3, <1>6
        DEF WriteRejected, LogAppendRejected, InductiveInvariant, Structure,
            PendingSound

LEMMA SyncKeeps ==
  ASSUME InductiveInvariant, TypeOK', Sync
  PROVE  InductiveInvariant'
<1>0. LogTypeOK /\ LogTypeOK' /\ LogShape /\ acked \in Nat /\ acked' \in Nat
  BY DEF InductiveInvariant, TypeOK, Structure
<1>1. LogShape' /\ DurableKept /\ file' = file /\ fd' = fd /\ pc' = pc
  BY <1>0, LogSyncShape, UnchangedLog DEF Sync, LogSync, logVars
<1>2. SnapshotsSound'
  BY <1>0, <1>1, SnapshotsKept DEF Sync, snapVars
<1>3. AckedDurable'
  BY <1>0, <1>1, AckedKept DEF Sync, histVars
<1> QED BY <1>1, <1>2, <1>3
        DEF Sync, InductiveInvariant, Structure, PendingSound, IndexTracksLog

\* snapshot() syncs first, so the snapshot it writes is sound.
LEMMA SnapshotWriteKeeps ==
  ASSUME InductiveInvariant, TypeOK', NEW t \in Times, SnapshotWrite(t)
  PROVE  InductiveInvariant'
<1>0. LogTypeOK /\ LogTypeOK' /\ LogShape /\ acked \in Nat /\ acked' \in Nat
  BY DEF InductiveInvariant, TypeOK, Structure
<1>1. LogShape' /\ DurableKept /\ file' = file /\ durable' = Len(file) /\ fd' = fd
  BY <1>0, LogSyncShape DEF SnapshotWrite, SnapshotSync, LogSync
<1>2. SnapshotsSound'
  BY <1>0, <1>1, SnapshotsKept DEF SnapshotWrite, snapVars
<1>3. AckedDurable'
  BY <1>0, <1>1, AckedKept DEF SnapshotWrite, histVars
<1>4. IndexMatches(index, file, Len(file))
  BY DEF InductiveInvariant, IndexTracksLog, SnapshotWrite
<1>5. pending'.seq \in Seqs
  BY NewSeqType DEF SnapshotWrite, InductiveInvariant, TypeOK
<1>6. /\ pending'.body.wm = Len(file)
      /\ pending'.body.index = index
  BY DEF SnapshotWrite, Watermark
<1>7. PendingSound'
  BY <1>0, <1>1, <1>4, <1>5, <1>6 DEF PendingSound, SnapshotSound, LogTypeOK
<1> QED BY <1>1, <1>2, <1>3, <1>4, <1>7
        DEF SnapshotWrite, InductiveInvariant, Structure, IndexTracksLog

LEMMA KillKeeps ==
  ASSUME InductiveInvariant, TypeOK', Kill
  PROVE  InductiveInvariant'
<1>0. LogTypeOK /\ LogTypeOK' /\ LogShape /\ acked \in Nat /\ acked' \in Nat
  BY DEF InductiveInvariant, TypeOK, Structure
<1>1. LogShape' /\ DurableKept /\ ~fd'
  BY <1>0, LogKillShape DEF Kill
<1>2. SnapshotsSound'
  BY <1>0, <1>1, SnapshotsKept DEF Kill, snapVars
<1>3. AckedDurable'
  BY <1>0, <1>1, AckedKept DEF Kill
<1>4. Structure'
  BY <1>1 DEF Kill, ProcessGone, Structure, TypeOK, LogTypeOK
<1> QED BY <1>2, <1>3, <1>4
        DEF Kill, ProcessGone, InductiveInvariant, PendingSound, IndexTracksLog

\* A power loss leaves some version of each snapshot file, and all are sound.
LEMMA PowerLossKeeps ==
  ASSUME InductiveInvariant, TypeOK', PowerLoss
  PROVE  InductiveInvariant'
<1>0. LogTypeOK /\ LogTypeOK' /\ LogShape /\ acked \in Nat /\ acked' \in Nat
  BY DEF InductiveInvariant, TypeOK, Structure
<1>1. LogShape' /\ DurableKept /\ ~fd'
  BY <1>0, LogPowerLossShape DEF PowerLoss
<1>2. acked' <= acked
  BY <1>0 DEF PowerLoss, LogTypeOK
<1>3. AckedDurable'
  BY <1>0, <1>1, <1>2, AckedKept
<1>4. SnapshotsSound'
  <2>1. ASSUME NEW s \in Seqs, NEW b \in snapsAlt'[s] \cup {snaps'[s]}
        PROVE  b \in snapsAlt[s]
    BY <2>1 DEF PowerLoss
  <2>2. ASSUME NEW s \in Seqs, NEW b \in snapsAlt[s]
        PROVE  SnapshotSound(b)'
    <3>1. b \in Snapshots /\ SnapshotSound(b)
      BY DEF InductiveInvariant, TypeOK, SnapshotsSound
    <3> QED BY <1>0, <1>1, <3>1, SnapshotStaysSound DEF LogShape
  <2> QED BY <2>1, <2>2 DEF SnapshotsSound
<1>5. Structure'
  BY <1>1 DEF PowerLoss, ProcessGone, Structure, TypeOK, LogTypeOK
<1> QED BY <1>3, <1>4, <1>5
        DEF PowerLoss, ProcessGone, InductiveInvariant, PendingSound,
            IndexTracksLog

LEMMA DamageKeeps ==
  ASSUME InductiveInvariant, TypeOK',
         \/ \E s \in Seqs : DamageSnapshot(s)
         \/ \E i \in 1 .. Len(manifest) : DamageManifest(i)
  PROVE  InductiveInvariant'
<1>0. acked' = acked /\ pc = "down" /\ pc' = "down" /\ UNCHANGED logVars
  BY DEF DamageSnapshot, DamageManifest, histVars
<1>1. LogShape' /\ DurableKept /\ LogTypeOK'
  BY <1>0, UnchangedLog
<1>2. file' = file /\ durable' = durable /\ fd' = fd
  BY <1>0 DEF logVars
<1>3. SnapshotsSound'
  <2>1. ASSUME NEW s \in Seqs, NEW b \in snapsAlt'[s] \cup {snaps'[s]}
        PROVE  SnapshotSound(b)
    <3>1. b \in snapsAlt[s] \cup {snaps[s]} \/ b = Unreadable
      BY DEF DamageSnapshot, DamageManifest, InductiveInvariant, TypeOK
    <3>2. SnapshotSound(Unreadable)
      BY DEF SnapshotSound, Unreadable
    <3> QED BY <3>1, <3>2 DEF InductiveInvariant, SnapshotsSound
  <2> QED BY <1>2, <2>1 DEF SnapshotsSound, SnapshotSound
<1>4. AckedDurable'
  BY <1>0, <1>1, AckedKept DEF InductiveInvariant, TypeOK
<1> QED BY <1>0, <1>1, <1>2, <1>3, <1>4
        DEF InductiveInvariant, Structure, PendingSound, IndexTracksLog

LEMMA UnchangedKeeps ==
  ASSUME InductiveInvariant, TypeOK', UNCHANGED vars
  PROVE  InductiveInvariant'
BY DEF InductiveInvariant, Structure, LogShape, IndexTracksLog, SnapshotsSound,
       SnapshotSound, PendingSound, AckedDurable, vars, logVars, snapVars,
       histVars

LEMMA InvariantNext == InductiveInvariant /\ [Next]_vars => InductiveInvariant'
<1> SUFFICES ASSUME InductiveInvariant, [Next]_vars PROVE InductiveInvariant'
  OBVIOUS
<1>0. TypeOK'
  BY TypeNext DEF InductiveInvariant
<1>1. ASSUME NEW op \in PutOps, NEW k \in Keys, NEW v \in Vals, Put(op, k, v)
      PROVE  InductiveInvariant'
  BY <1>0, <1>1, FrameTypes, WriteKeeps DEF Put
<1>2. ASSUME NEW k \in Keys, Remove(k) PROVE InductiveInvariant'
  BY <1>0, <1>2, FrameTypes, WriteKeeps DEF Remove
<1> QED
  BY <1>0, <1>1, <1>2, OpenKeeps, RecoverKeeps, WriteRejectedKeeps, SyncKeeps,
     SnapshotWriteKeeps, StepKeeps, KillKeeps, PowerLossKeeps, DamageKeeps,
     UnchangedKeeps
  DEF Next

(***************************************************************************)
(* The theorems                                                            *)
(***************************************************************************)

\* The invariant on which the other theorems rest holds in every reachable
\* state of the engine, between and in the middle of its operations.
THEOREM InvariantHolds == Spec => []InductiveInvariant
BY InvariantInit, InvariantNext, PTL DEF Spec

\* After open() the index is the one the WAL stands for, whether it came from a
\* snapshot and a tail, from a full replay or from later writes.
THEOREM IndexCorrect == Spec => []IndexIsTheLog
<1>1. InductiveInvariant => IndexIsTheLog
  BY DEF InductiveInvariant, IndexTracksLog, IndexIsTheLog
<1> QED BY <1>1, InvariantHolds, PTL

\* get() returns exactly the last value written to a key that is left in the
\* WAL; its "mismatched key" and range errors are unreachable.
THEOREM GetCorrect == Spec => []GetIsLastWrite
<1>1. InductiveInvariant => GetIsLastWrite
  <2> SUFFICES ASSUME InductiveInvariant, pc = "open", NEW k \in Keys
               PROVE  \/ \E i \in 1 .. Len(file) :
                           /\ LastRecord(file, Len(file), k, i)
                           /\ file[i].op # "kDelete"
                           /\ GetResult(k) = [status |-> "OK", val |-> file[i].val]
                      \/ /\ \A i \in 1 .. Len(file) :
                              LastRecord(file, Len(file), k, i)
                                => file[i].op = "kDelete"
                         /\ GetResult(k).status = "NotFound"
    BY DEF GetIsLastWrite
  <2>1. IndexMatches(index, file, Len(file))
    BY DEF InductiveInvariant, IndexTracksLog
  <2>2. file \in Seq(Items) /\ index[k] \in Offsets /\ Len(file) \in Nat
    BY DEF InductiveInvariant, TypeOK, LogTypeOK
  <2>3. CASE index[k] = NoOffset
    <3>1. \A i \in 1 .. Len(file) :
            LastRecord(file, Len(file), k, i) => file[i].op = "kDelete"
      BY <2>1, <2>3 DEF IndexMatches
    <3>2. GetResult(k).status = "NotFound"
      BY <2>3 DEF GetResult
    <3> QED BY <3>1, <3>2
  <2>4. CASE index[k] # NoOffset
    <3> DEFINE i == index[k] + 1
    <3>1. LastRecord(file, Len(file), k, i) /\ file[i].op # "kDelete"
      BY <2>1, <2>4 DEF IndexMatches
    <3>2. i \in 1 .. Len(file) /\ file[i].key = k /\ index[k] \in Nat
      BY <2>2, <2>4, <3>1 DEF LastRecord, Offsets
    <3>3. file[i] \in Frames /\ file[i] # FileHeader
      BY <2>2, <3>2, WalFramesAssumption DEF Items, FileHeader
    <3>4. ~(index[k] < data_start \/ index[k] >= Len(file))
      <4>1. data_start = IF HasHeader(file) THEN 1 ELSE 0
        BY DEF InductiveInvariant, Structure, LogShape
      <4> QED BY <2>2, <3>2, <3>3, <4>1 DEF HasHeader
    <3>5. GetResult(k) = [status |-> "OK", val |-> file[i].val]
      BY <2>4, <3>2, <3>3, <3>4 DEF GetResult
    <3> QED BY <3>1, <3>2, <3>5
  <2> QED BY <2>3, <2>4
<1> QED BY <1>1, InvariantHolds, PTL

\* No snapshot file ever covers a WAL byte that is not fsynced, or describes
\* anything but the WAL prefix below its watermark; also none that a power
\* loss can bring back.
THEOREM SnapshotsCorrect == Spec => []SnapshotsSound
<1>1. InductiveInvariant => SnapshotsSound
  BY DEF InductiveInvariant
<1> QED BY <1>1, InvariantHolds, PTL

\* With sync_writes alone every acknowledged write is fsynced.
THEOREM AckedCorrect == Spec => []AckedDurable
<1>1. InductiveInvariant => AckedDurable
  BY DEF InductiveInvariant
<1> QED BY <1>1, InvariantHolds, PTL

LEMMA StepKeepsDurable == InductiveInvariant /\ [Next]_vars => DurableKept
<1> SUFFICES ASSUME InductiveInvariant, [Next]_vars PROVE DurableKept
  OBVIOUS
<1>0. LogTypeOK /\ LogShape
  BY DEF InductiveInvariant, TypeOK, Structure
<1>1. CASE UNCHANGED logVars
  BY <1>1, UnchangedLog
<1>2. CASE OpenLog
  BY <1>0, <1>2, OpenLogShape
<1>3. ASSUME NEW r \in Frames, LogAppend(r) PROVE DurableKept
  BY <1>0, <1>3, LogAppendShape
<1>4. CASE LogAppendRejected
  BY <1>0, <1>4, LogAppendRejectedShape
<1>5. CASE LogSync
  BY <1>0, <1>5, LogSyncShape
<1>6. CASE Kill \/ PowerLoss
  BY <1>0, <1>6, LogKillShape, LogPowerLossShape DEF Kill, PowerLoss
<1>7. ASSUME Step PROVE UNCHANGED logVars \/ LogSync
  BY <1>7 DEF Step, ReplayFrame, ReplayDone, WriteUnsynced, WriteSynced,
              WriteSyncFails, SnapshotRename, ManifestAppend, SnapshotDone,
              SnapshotFails
<1>8. ASSUME NEW op \in PutOps, NEW k \in Keys, NEW v \in Vals, Put(op, k, v)
      PROVE  DurableKept
  BY <1>3, <1>8, FrameTypes DEF Put, Write
<1>9. ASSUME NEW k \in Keys, Remove(k) PROVE DurableKept
  BY <1>3, <1>9, FrameTypes DEF Remove, Write
<1>10. CASE OpenFromSnapshot \/ OpenRefused \/ OpenFullReplay
  BY <1>2, <1>10 DEF OpenFromSnapshot, OpenRefused, OpenFullReplay
<1>11. CASE Recover
  BY <1>1, <1>11 DEF Recover
<1>12. CASE WriteRejected
  BY <1>4, <1>12 DEF WriteRejected
<1>13. CASE Sync
  BY <1>1, <1>5, <1>13 DEF Sync
<1>14. CASE \E t \in Times : SnapshotWrite(t)
  BY <1>5, <1>14 DEF SnapshotWrite, SnapshotSync
<1>15. CASE \/ \E s \in Seqs : DamageSnapshot(s)
            \/ \E i \in 1 .. Len(manifest) : DamageManifest(i)
  BY <1>1, <1>15 DEF DamageSnapshot, DamageManifest
<1>16. CASE UNCHANGED vars
  BY <1>1, <1>16 DEF vars
<1> QED
  BY <1>1, <1>5, <1>6, <1>7, <1>8, <1>9, <1>10, <1>11, <1>12, <1>13, <1>14,
     <1>15, <1>16
  DEF Next

\* No operation, repair or crash changes or drops a record once it is fsynced,
\* and no record stops being fsynced.
THEOREM DurableRecordsStay == Spec => DurablePrefixKept
<1>1. InductiveInvariant /\ [Next]_vars
        => [ /\ durable <= durable'
             /\ durable <= Len(file')
             /\ \A i \in 1 .. durable : file'[i] = file[i] ]_vars
  <2> SUFFICES ASSUME InductiveInvariant, [Next]_vars
               PROVE  /\ durable <= durable'
                      /\ durable <= Len(file')
                      /\ \A i \in 1 .. durable : file'[i] = file[i]
    OBVIOUS
  <2>1. DurableKept
    BY StepKeepsDurable
  <2>2. durable \in Nat /\ durable' \in Nat /\ Len(file') \in Nat
    BY TypeNext DEF InductiveInvariant, TypeOK, LogTypeOK
  <2> QED BY <2>1, <2>2 DEF DurableKept
<1> QED BY <1>1, InvariantHolds, PTL DEF Spec, DurablePrefixKept

\* open() refuses a WAL it could replay in one case only: the latest snapshot
\* was taken of an empty WAL and the file has had a header since.
THEOREM RefusalCause == Spec => []RefusedOnlyForEmptySnapshot
<1>1. Init => RefusedOnlyForEmptySnapshot
  BY DEF Init, RefusedOnlyForEmptySnapshot
<1>2. InductiveInvariant /\ RefusedOnlyForEmptySnapshot /\ [Next]_vars
        => RefusedOnlyForEmptySnapshot'
  <2> SUFFICES ASSUME InductiveInvariant, RefusedOnlyForEmptySnapshot,
                      [Next]_vars, pc' = "failed"
               PROVE  /\ manifest' # <<>>
                      /\ LatestSnapshot'.wm = 0
                      /\ HasHeader(file')
    BY DEF RefusedOnlyForEmptySnapshot
  <2>1. OpenRefused \/ UNCHANGED vars
    BY DEF Next, OpenFromSnapshot, OpenFullReplay, Recover, Put, Remove, Write,
           WriteRejected, Sync, SnapshotWrite, Step, ReplayFrame, ReplayDone,
           WriteUnsynced, WriteSynced, WriteSyncFails, SnapshotRename,
           ManifestAppend, SnapshotDone, SnapshotFails, Kill, PowerLoss,
           ProcessGone, DamageSnapshot, DamageManifest
  <2>2. CASE OpenRefused
    <3>1. LogShape' /\ fd' /\ file' = file
      BY <2>2, OpenLogShape DEF OpenRefused, InductiveInvariant, TypeOK, Structure
    <3>2. data_start' = IF HasHeader(file') THEN 1 ELSE 0
      BY <3>1 DEF LogShape
    <3>3. LatestSnapshot.wm \in Nat /\ LatestSnapshot.wm < data_start'
      BY <2>2, LatestType
      DEF OpenRefused, WatermarkRefused, InductiveInvariant, Snapshots
    <3>4. manifest # <<>> /\ UNCHANGED <<snaps, manifest>>
      BY <2>2 DEF OpenRefused, SnapshotUsable, ManifestReadable, snapVars
    <3> QED BY <3>2, <3>3, <3>4 DEF LatestSnapshot
  <2>3. CASE UNCHANGED vars
    BY <2>3 DEF RefusedOnlyForEmptySnapshot, LatestSnapshot, vars, snapVars, logVars
  <2> QED BY <2>1, <2>2, <2>3
<1> QED BY <1>1, <1>2, InvariantHolds, PTL DEF Spec

(***************************************************************************)
(* MANIFEST and the group commit window                                    *)
(***************************************************************************)
LEMMA NewManifestBounded ==
  ASSUME TypeOK
  PROVE  Len(NewManifest) <= ManifestKeep + 1
<1> USE StorageEngineAssumption
<1>1. manifest \in Seq(Seqs \cup {BadLine}) /\ Len(manifest) \in Nat
  BY DEF TypeOK, Manifests
<1>2. KeptLines \in Seq(Seqs \cup {BadLine}) /\ Len(KeptLines) <= ManifestKeep
  <2>1. CASE Len(manifest) > ManifestKeep
    BY <1>1, <2>1 DEF KeptLines
  <2>2. CASE ~(Len(manifest) > ManifestKeep)
    BY <1>1, <2>2 DEF KeptLines
  <2> QED BY <2>1, <2>2
<1> QED BY <1>2 DEF NewManifest

\* However many snapshots are written, whichever of them fail and whatever a
\* power loss leaves of the renames, no version of MANIFEST grows beyond one
\* record more than kManifestKeep (manifest.cpp, write_manifest_append).
THEOREM ManifestStaysShort == Spec => []ManifestBounded
<1>1. Init => ManifestBounded
  <2> SUFFICES ASSUME Init, NEW m \in manifestAlt \cup {manifest}
               PROVE  Len(m) <= ManifestKeep + 1
    BY DEF ManifestBounded
  <2>1. m = <<>>
    BY DEF Init
  <2> QED BY <2>1, StorageEngineAssumption
<1>2. TypeOK /\ ManifestBounded /\ [Next]_vars => ManifestBounded'
  <2> SUFFICES ASSUME TypeOK, ManifestBounded, [Next]_vars
               PROVE  ManifestBounded'
    OBVIOUS
  <2>1. CASE ManifestAppend
    BY <2>1, NewManifestBounded DEF ManifestAppend, ManifestBounded
  <2>2. CASE SnapshotDone
    BY <2>2 DEF SnapshotDone, ManifestBounded
  <2>3. CASE PowerLoss
    BY <2>3 DEF PowerLoss, ManifestBounded
  <2>4. ASSUME NEW i \in 1 .. Len(manifest), DamageManifest(i)
        PROVE  ManifestBounded'
    <3>1. Len(manifest') = Len(manifest)
      BY <2>4 DEF DamageManifest, TypeOK, Manifests
    <3> QED BY <2>4, <3>1 DEF DamageManifest, ManifestBounded
  <2>5. CASE UNCHANGED <<manifest, manifestAlt>>
    BY <2>5 DEF ManifestBounded
  <2>6. \/ ManifestAppend \/ SnapshotDone \/ PowerLoss
        \/ \E i \in 1 .. Len(manifest) : DamageManifest(i)
        \/ UNCHANGED <<manifest, manifestAlt>>
    BY DEF Next, OpenFromSnapshot, OpenRefused, OpenFullReplay, Recover, Put,
           Remove, Write, WriteRejected, Sync, SnapshotWrite, Step, ReplayFrame,
           ReplayDone, WriteUnsynced, WriteSynced, WriteSyncFails,
           SnapshotRename, SnapshotFails, Kill, DamageSnapshot, snapVars, vars
  <2> QED BY <2>1, <2>2, <2>3, <2>4, <2>5, <2>6
<1> QED BY <1>1, <1>2, TypeCorrect, PTL DEF Spec

\* The items no crash of this session can take away from what it acknowledged.
SessionSafe == Largest(durable, Largest(opened_at, data_start))
InFlight == IF pc = "appended" THEN 1 ELSE 0

\* Behind the group commit window: nobody is told of more than the file holds,
\* and the counter bounds the unsynced items of the session in the middle of
\* its operations too.
WindowCounted ==
  /\ acked <= Len(file)
  /\ Counts /\ pc # "down" =>
       /\ appends_since_group_sync < SyncEveryN
       /\ Len(file) - SessionSafe <= appends_since_group_sync + InFlight

LEMMA WindowInit == Init => WindowCounted
BY DEF Init, LogInit, WindowCounted

LEMMA WindowNext ==
  ASSUME InductiveInvariant, TypeOK', WindowCounted, ~FsyncMayFail, [Next]_vars
  PROVE  WindowCounted'
<1> USE StorageEngineAssumption
<1>0. /\ durable \in Nat /\ durable' \in Nat
      /\ opened_at \in Nat /\ opened_at' \in Nat
      /\ data_start \in {0, 1} /\ data_start' \in {0, 1}
      /\ acked \in Nat /\ acked' \in Nat
      /\ Len(file) \in Nat /\ Len(file') \in Nat
      /\ appends_since_group_sync \in Nat /\ appends_since_group_sync' \in Nat
      /\ file \in Seq(Items)
  BY DEF InductiveInvariant, TypeOK, LogTypeOK
<1>d. fd = (pc # "down") /\ LogShape
  BY DEF InductiveInvariant, Structure
<1> USE DEF WindowCounted, SessionSafe, InFlight, Largest
<1>1. CASE OpenFromSnapshot \/ OpenRefused \/ OpenFullReplay
  <2>1. file' = file /\ acked' = acked /\ appends_since_group_sync' = 0
        /\ opened_at' = SessionStart
    BY <1>1 DEF OpenFromSnapshot, OpenRefused, OpenFullReplay, OpenLog, LogOpen,
                logVars
  <2>2. Counts => opened_at' = Len(file)
    BY <2>1 DEF SessionStart, Counts
  <2> QED BY <1>0, <2>1, <2>2 DEF Counts
<1>2. ASSUME NEW r \in Frames, Write(r) PROVE WindowCounted'
  <2>1. CASE NeedsHeader
    <3>1. /\ file = <<>> /\ Headed = <<FileHeader>>
          /\ file' = Append(Headed, r) /\ data_start' = 1
      BY <1>2, <2>1 DEF Write, LogAppend, Headed, NeedsHeader
    <3>2. Len(file) = 0 /\ Len(Headed) = 1 /\ Headed \in Seq(Items)
      BY <3>1 DEF Items
    <3>3. Len(file') = 2
      BY <3>1, <3>2
    <3> QED BY <1>0, <1>2, <3>1, <3>2, <3>3 DEF Write, LogAppend, histVars, Counts
  <2>2. CASE ~NeedsHeader
    <3>1. Len(file') = Len(file) + 1 /\ data_start' = data_start
      BY <1>0, <1>2, <2>2 DEF Write, LogAppend, Headed
    <3> QED BY <1>0, <1>2, <3>1 DEF Write, LogAppend, histVars, Counts
  <2> QED BY <2>1, <2>2
<1>3. CASE WriteRejected
  <2>1. file = <<>> /\ file' = <<FileHeader>> /\ data_start' = 1
    BY <1>3 DEF WriteRejected, LogAppendRejected, Headed, NeedsHeader
  <2>2. Len(file) = 0 /\ Len(file') = 1
    BY <2>1
  <2> QED BY <1>0, <1>3, <2>1, <2>2
          DEF WriteRejected, LogAppendRejected, histVars, Counts
<1>4. CASE WriteUnsynced
  BY <1>0, <1>4
  DEF WriteUnsynced, WantsFsync, GroupFull, Counts, logVars
<1>5. CASE WriteSynced
  <2>1. /\ file' = file /\ durable' = Len(file) /\ acked' = Len(file)
        /\ pc' = "open" /\ opened_at' = opened_at /\ data_start' = data_start
        /\ Counts => appends_since_group_sync' = 0
    BY <1>5 DEF WriteSynced, LogSync
  <2>2. Counts => 0 < SyncEveryN
    BY DEF Counts
  <2>3. SessionSafe' \in Nat /\ Len(file') <= SessionSafe'
    BY <1>0, <2>1
  <2>4. InFlight' = 0
    BY <2>1
  <2>5. acked' <= Len(file')
    BY <1>0, <2>1
  <2>6. Counts' => Counts
    BY DEF Counts
  <2>7. Counts => Len(file') - SessionSafe' <= appends_since_group_sync' + InFlight'
    <3> HIDE DEF SessionSafe, InFlight, Largest
    <3> QED BY <1>0, <2>1, <2>3, <2>4
  <2> HIDE DEF SessionSafe, InFlight, Largest
  <2> QED BY <2>1, <2>2, <2>5, <2>6, <2>7
<1>6. CASE Sync \/ \E t \in Times : SnapshotWrite(t)
  BY <1>0, <1>6 DEF Sync, SnapshotWrite, SnapshotSync, LogSync, histVars, Counts
<1>7. CASE Kill
  <2>1. file' = file \/ (file = <<>> /\ file' = <<FileHeader>>)
    BY <1>7 DEF Kill, LogKill, Headed, NeedsHeader
  <2>2. file = <<>> => Len(file) = 0
    OBVIOUS
  <2>3. Len(file') >= Len(file)
    BY <1>0, <2>1, <2>2
  <2> QED BY <1>0, <2>3, <1>7 DEF Kill, ProcessGone
<1>8. CASE PowerLoss
  BY <1>0, <1>8 DEF PowerLoss, ProcessGone
<1>9. CASE ReplayFrame \/ ReplayDone \/ Recover
  BY <1>0, <1>9 DEF ReplayFrame, ReplayDone, Recover, logVars, histVars, Counts
<1>10. CASE \/ SnapshotRename \/ ManifestAppend \/ SnapshotDone \/ SnapshotFails
            \/ \E s \in Seqs : DamageSnapshot(s)
            \/ \E i \in 1 .. Len(manifest) : DamageManifest(i)
  <2>1. /\ UNCHANGED <<logVars, appends_since_group_sync, histVars>>
        /\ pc # "appended" /\ pc' # "appended"
        /\ pc' # "down" => pc # "down"
    BY <1>10 DEF SnapshotRename, ManifestAppend, SnapshotDone, SnapshotFails,
                 DamageSnapshot, DamageManifest
  <2> QED BY <1>0, <2>1 DEF logVars, histVars, Counts
<1>11. CASE UNCHANGED vars
  BY <1>11 DEF vars, logVars, histVars, Counts
<1>12. ~WriteSyncFails
  BY DEF WriteSyncFails
<1>13. ASSUME NEW op \in PutOps, NEW k \in Keys, NEW v \in Vals, Put(op, k, v)
       PROVE  WindowCounted'
  BY <1>2, <1>13, FrameTypes DEF Put
<1>14. ASSUME NEW k \in Keys, Remove(k) PROVE WindowCounted'
  BY <1>2, <1>14, FrameTypes DEF Remove
<1> QED
  BY <1>1, <1>3, <1>4, <1>5, <1>6, <1>7, <1>8, <1>9, <1>10, <1>11, <1>12,
     <1>13, <1>14
  DEF Next, Step

\* With group commit, and fsyncs that succeed, fewer than sync_every_n_appends
\* acknowledged records of a session are unsynced at any moment it answers
\* requests (storage_engine.cpp, maybe_fsync_after_append).  A failed fsync
\* resets the counter and widens the window.
THEOREM WindowCorrect == ~FsyncMayFail => (Spec => []GroupCommitWindow)
<1> SUFFICES ASSUME ~FsyncMayFail PROVE Spec => []GroupCommitWindow
  OBVIOUS
<1>1. InductiveInvariant /\ InductiveInvariant' /\ WindowCounted /\ [Next]_vars
        => WindowCounted'
  BY WindowNext DEF InductiveInvariant
<1>2. InductiveInvariant /\ WindowCounted => GroupCommitWindow
  <2> SUFFICES ASSUME InductiveInvariant, WindowCounted, Counts, pc = "open"
               PROVE  acked - SessionSafe < SyncEveryN
    BY DEF GroupCommitWindow, Counts, SessionSafe
  <2>1. /\ acked \in Nat /\ SessionSafe \in Nat /\ Len(file) \in Nat
        /\ appends_since_group_sync \in Nat
    BY DEF InductiveInvariant, TypeOK, LogTypeOK, SessionSafe, Largest
  <2> QED BY <2>1, StorageEngineAssumption DEF WindowCounted, InFlight
<1> QED BY <1>1, <1>2, WindowInit, InvariantHolds, PTL DEF Spec

(***************************************************************************)
(* The refinement: the engine implements DurableKV.  The steps of replays, *)
(* snapshots and failed system calls are steps of the abstract store or    *)
(* leave it alone.                                                         *)
(***************************************************************************)

(***************************************************************************)
(* Lemmas on numbers and on the history a file stands for                  *)
(***************************************************************************)
LEMMA Smallest ==
  ASSUME NEW T, T \subseteq Nat, T # {}
  PROVE  \E n \in T : \A m \in T : n <= m
<1>1. IsWellFoundedOn(OpToRel(<, Nat), Nat)
  BY NatLessThanWellFounded
<1>2. PICK n \in T : \A m \in T : ~(<<m, n>> \in OpToRel(<, Nat))
  BY <1>1, WFMin
<1>3. \A m \in T : m < n => <<m, n>> \in OpToRel(<, Nat)
  BY DEF OpToRel
<1>4. \A m \in T : ~(m < n)
  BY <1>2, <1>3
<1> QED BY <1>4

LEMMA Greatest ==
  ASSUME NEW n \in Nat, NEW T, T \subseteq 1 .. n, T # {}
  PROVE  \E i \in T : \A j \in T : j <= i
<1> DEFINE D == {n - i : i \in T}
<1>1. D \subseteq Nat
  OBVIOUS
<1>0. D # {}
  <2>1. PICK i \in T : TRUE
    OBVIOUS
  <2>2. n - i \in D
    OBVIOUS
  <2> QED BY <2>2
<1>2. PICK d \in D : \A e \in D : d <= e
  BY <1>1, <1>0, Smallest
<1>3. PICK i \in T : d = n - i
  BY <1>2
<1>4. ASSUME NEW j \in T PROVE j <= i
  <2>1. d <= n - j
    BY <1>2
  <2> QED BY <1>3, <2>1
<1> QED BY <1>4

LEMMA SeqEqual ==
  ASSUME NEW S, NEW s \in Seq(S), NEW t \in Seq(S), Len(s) = Len(t),
         \A i \in 1 .. Len(s) : s[i] = t[i]
  PROVE  s = t
OBVIOUS

\* A file as the log keeps it, and the writes it stands for.
WellFormed(f) == f \in Seq(Items) /\ \A i \in 2 .. Len(f) : f[i] # FileHeader
Hdr(f) == IF HasHeader(f) THEN 1 ELSE 0
WriteOf(r) == [key |-> r.key, val |-> r.val]
HistoryOf(f) == [i \in 1 .. Len(Records(f)) |-> WriteOf(Records(f)[i])]

LEMMA FrameWrites ==
  \A r \in Frames : /\ r.key \in Keys
                    /\ WriteOf(r) \in KV!WritesKV
                    /\ r.op = "kDelete" => r.val = NoVal
BY WalFramesAssumption DEF Frames, PutFrames, DeleteFrames, WriteOf, KV!WritesKV

LEMMA HistoryShape ==
  ASSUME NEW f, WellFormed(f)
  PROVE  /\ Hdr(f) \in {0, 1} /\ Hdr(f) <= Len(f)
         /\ HistoryOf(f) \in Seq(KV!WritesKV)
         /\ Len(HistoryOf(f)) = Len(f) - Hdr(f)
         /\ \A i \in 1 .. Len(f) - Hdr(f) :
              f[i + Hdr(f)] \in Frames /\ HistoryOf(f)[i] = WriteOf(f[i + Hdr(f)])
<1>1. /\ Hdr(f) \in {0, 1} /\ Hdr(f) <= Len(f) /\ Len(f) \in Nat
      /\ Records(f) \in Seq(Items)
      /\ Len(Records(f)) = Len(f) - Hdr(f)
      /\ \A i \in 1 .. Len(f) - Hdr(f) : Records(f)[i] = f[i + Hdr(f)]
  <2>1. CASE HasHeader(f)
    <3>1. f \in Seq(Items) /\ f # <<>> /\ Len(f) \in Nat /\ Len(f) >= 1
      BY <2>1 DEF WellFormed, HasHeader
    <3> QED BY <2>1, <3>1 DEF Hdr, Records
  <2>2. CASE ~HasHeader(f)
    BY <2>2 DEF WellFormed, Hdr, Records
  <2> QED BY <2>1, <2>2
<1>2. ASSUME NEW i \in 1 .. Len(f) - Hdr(f)
      PROVE  f[i + Hdr(f)] \in Frames
  <2>1. i + Hdr(f) \in 1 .. Len(f)
    BY <1>1
  <2>2. f[i + Hdr(f)] # FileHeader
    <3>1. CASE i + Hdr(f) = 1
      BY <1>1, <3>1, <2>1 DEF Hdr, HasHeader
    <3>2. CASE i + Hdr(f) # 1
      BY <1>1, <2>1, <3>2 DEF WellFormed
    <3> QED BY <3>1, <3>2
  <2> QED BY <2>1, <2>2 DEF WellFormed, Items
<1>3. \A i \in 1 .. Len(Records(f)) : WriteOf(Records(f)[i]) \in KV!WritesKV
  BY <1>1, <1>2, FrameWrites
<1>4. HistoryOf(f) \in Seq(KV!WritesKV) /\ Len(HistoryOf(f)) = Len(Records(f))
  BY <1>1, <1>3 DEF HistoryOf
<1> QED BY <1>1, <1>2, <1>4 DEF HistoryOf

LEMMA HistoryEmpty ==
  HistoryOf(<<>>) = <<>> /\ HistoryOf(<<FileHeader>>) = <<>>
<1>1. Records(<<>>) = <<>>
  BY DEF Records, HasHeader
<1>2. Records(<<FileHeader>>) = <<>>
  BY DEF Records, HasHeader
<1> QED BY <1>1, <1>2 DEF HistoryOf

\* Appending a record to the file appends a write to the history.
LEMMA HistoryAppend ==
  ASSUME NEW f, WellFormed(f), NEW r \in Frames
  PROVE  /\ WellFormed(Append(f, r))
         /\ Hdr(Append(f, r)) = Hdr(f)
         /\ HistoryOf(Append(f, r)) = Append(HistoryOf(f), WriteOf(r))
<1> DEFINE g == Append(f, r)
<1>1. /\ f \in Seq(Items) /\ g \in Seq(Items) /\ Len(f) \in Nat
      /\ Len(g) = Len(f) + 1 /\ g[Len(f) + 1] = r
      /\ \A i \in 1 .. Len(f) : g[i] = f[i]
  BY DEF WellFormed, Items
<1> HIDE DEF g
<1>2. WellFormed(g)
  BY <1>1, FrameNotHeader DEF WellFormed
<1>3. Hdr(g) = Hdr(f)
  <2>1. CASE Len(f) = 0
    BY <1>1, <2>1, FrameNotHeader DEF Hdr, HasHeader
  <2>2. CASE Len(f) # 0
    BY <1>1, <2>2 DEF Hdr, HasHeader
  <2> QED BY <2>1, <2>2
<1> DEFINE h == HistoryOf(f)
           n == Len(f) - Hdr(f)
<1>4. /\ h \in Seq(KV!WritesKV) /\ Len(h) = n /\ n \in Nat /\ Hdr(f) \in {0, 1}
      /\ \A i \in 1 .. n : h[i] = WriteOf(f[i + Hdr(f)])
  BY <1>1, HistoryShape
<1>5. /\ HistoryOf(g) \in Seq(KV!WritesKV) /\ Len(HistoryOf(g)) = n + 1
      /\ \A i \in 1 .. n + 1 : HistoryOf(g)[i] = WriteOf(g[i + Hdr(f)])
  <2>1. Len(g) - Hdr(g) = n + 1
    BY <1>1, <1>3, <1>4
  <2> QED BY <1>2, <1>3, <2>1, HistoryShape
<1>6. WriteOf(r) \in KV!WritesKV
  BY FrameWrites
<1>7. ASSUME NEW i \in 1 .. n + 1
      PROVE  HistoryOf(g)[i] = Append(h, WriteOf(r))[i]
  <2> HIDE DEF h
  <2>1. CASE i \in 1 .. n
    <3>1. i + Hdr(f) \in 1 .. Len(f)
      BY <1>1, <1>4, <2>1
    <3>2. Append(h, WriteOf(r))[i] = h[i]
      BY <1>4, <1>6, <2>1
    <3> QED BY <1>1, <1>4, <1>5, <2>1, <3>1, <3>2
  <2>2. CASE i = n + 1
    <3>1. i + Hdr(f) = Len(f) + 1
      BY <1>1, <1>4, <2>2
    <3>2. Append(h, WriteOf(r))[i] = WriteOf(r)
      BY <1>4, <1>6, <2>2
    <3> QED BY <1>1, <1>5, <3>1, <3>2
  <2> QED BY <1>4, <2>1, <2>2
<1>8. HistoryOf(g) = Append(h, WriteOf(r))
  <2> HIDE DEF h, n
  <2>1. Append(h, WriteOf(r)) \in Seq(KV!WritesKV) /\ Len(Append(h, WriteOf(r))) = n + 1
    BY <1>4, <1>6
  <2> QED BY <1>5, <1>7, <2>1, SeqEqual
<1> QED BY <1>2, <1>3, <1>8 DEF g

\* Cutting the file behind item n cuts the history behind the same record.
LEMMA HistoryPrefix ==
  ASSUME NEW f, WellFormed(f), NEW n \in 0 .. Len(f)
  PROVE  LET m == IF n > Hdr(f) THEN n - Hdr(f) ELSE 0 IN
         /\ WellFormed(SubSeq(f, 1, n))
         /\ n > 0 => Hdr(SubSeq(f, 1, n)) = Hdr(f)
         /\ m \in 0 .. Len(HistoryOf(f))
         /\ Len(HistoryOf(SubSeq(f, 1, n))) = m
         /\ HistoryOf(SubSeq(f, 1, n)) = SubSeq(HistoryOf(f), 1, m)
<1> DEFINE g == SubSeq(f, 1, n)
           h == HistoryOf(f)
           k == HistoryOf(g)
           m == IF n > Hdr(f) THEN n - Hdr(f) ELSE 0
<1>1. /\ f \in Seq(Items) /\ g \in Seq(Items) /\ Len(f) \in Nat
      /\ Len(g) = n /\ \A i \in 1 .. n : g[i] = f[i]
  BY DEF WellFormed
<1> HIDE DEF g
<1>2. WellFormed(g)
  BY <1>1 DEF WellFormed
<1>3. n > 0 => Hdr(g) = Hdr(f)
  BY <1>1 DEF Hdr, HasHeader
<1>4. /\ h \in Seq(KV!WritesKV) /\ Len(h) = Len(f) - Hdr(f) /\ Hdr(f) \in {0, 1}
      /\ \A i \in 1 .. Len(f) - Hdr(f) : h[i] = WriteOf(f[i + Hdr(f)])
  BY HistoryShape
<1>5. /\ k \in Seq(KV!WritesKV) /\ Len(k) = n - Hdr(g)
      /\ Hdr(g) \in {0, 1} /\ Hdr(g) <= n
      /\ \A i \in 1 .. n - Hdr(g) : k[i] = WriteOf(g[i + Hdr(g)])
  BY <1>1, <1>2, HistoryShape
<1>6. m \in 0 .. Len(h) /\ Len(k) = m
  BY <1>1, <1>3, <1>4, <1>5
<1>7. ASSUME NEW i \in 1 .. m PROVE k[i] = h[i]
  <2>1. /\ n > 0 /\ m = n - Hdr(f) /\ i + Hdr(f) \in 1 .. n
        /\ i \in 1 .. Len(f) - Hdr(f)
    BY <1>1, <1>4
  <2>2. k[i] = WriteOf(g[i + Hdr(f)]) /\ h[i] = WriteOf(f[i + Hdr(f)])
    BY <1>3, <1>4, <1>5, <2>1
  <2> QED BY <1>1, <2>1, <2>2
<1>8. k = SubSeq(h, 1, m)
  <2> HIDE DEF h, k, m
  <2>1. /\ SubSeq(h, 1, m) \in Seq(KV!WritesKV) /\ Len(SubSeq(h, 1, m)) = m
        /\ \A i \in 1 .. m : SubSeq(h, 1, m)[i] = h[i]
    BY <1>4, <1>6
  <2> QED BY <1>5, <1>6, <1>7, <2>1, SeqEqual
<1> QED BY <1>2, <1>3, <1>6, <1>8 DEF g

\* What get() finds through an index that matches the file is what the
\* history stands for: of a key without an offset the last write, if any, is a
\* delete.
ServedBy(idx, f) ==
  [k \in Keys |-> IF idx[k] # NoOffset THEN f[idx[k] + 1].val ELSE NoVal]

LEMMA HistoryView ==
  ASSUME NEW f, WellFormed(f), NEW idx \in [Keys -> Offsets],
         IndexMatches(idx, f, Len(f))
  PROVE  ServedBy(idx, f) \in KV!Views /\ KV!IsView(ServedBy(idx, f), HistoryOf(f))
<1> DEFINE h == HistoryOf(f)
           v == ServedBy(idx, f)
           H == Hdr(f)
<1>1. /\ f \in Seq(Items) /\ Len(f) \in Nat /\ H \in {0, 1}
      /\ Len(h) = Len(f) - H /\ Len(h) \in Nat
      /\ \A i \in 1 .. Len(h) : /\ f[i + H] \in Frames
                               /\ h[i] = WriteOf(f[i + H])
  BY HistoryShape DEF WellFormed
<1>2. \A i \in 1 .. Len(h) : h[i].key = f[i + H].key /\ h[i].val = f[i + H].val
  BY <1>1 DEF WriteOf
<1>3. \A k \in Keys : \A p \in 1 .. Len(f) : f[p].key = k => p - H \in 1 .. Len(h)
  <2> SUFFICES ASSUME NEW k \in Keys, NEW p \in 1 .. Len(f), f[p].key = k, H = 1, p = 1
               PROVE  FALSE
    BY <1>1
  <2> QED BY WalFramesAssumption DEF Hdr, HasHeader, FileHeader
<1>4. ASSUME NEW k \in Keys, idx[k] # NoOffset
      PROVE  /\ v[k] \in Vals \cup {NoVal}
             /\ \E i \in 1 .. Len(h) :
                  /\ h[i].key = k
                  /\ h[i].val = v[k]
                  /\ \A j \in i + 1 .. Len(h) : h[j].key # k
  <2> DEFINE p == idx[k] + 1
             i == p - H
  <2>1. /\ p \in 1 .. Len(f) /\ f[p].key = k /\ v[k] = f[p].val
        /\ \A j \in p + 1 .. Len(f) : f[j].key # k
    BY <1>4 DEF IndexMatches, LastRecord, ServedBy
  <2> HIDE DEF p
  <2>2. i \in 1 .. Len(h) /\ i + H = p
    BY <1>1, <1>3, <2>1
  <2>3. h[i].key = k /\ h[i].val = v[k]
    BY <1>2, <2>1, <2>2
  <2>4. ASSUME NEW j \in i + 1 .. Len(h) PROVE h[j].key # k
    <3>1. j \in 1 .. Len(h) /\ j + H \in p + 1 .. Len(f)
      BY <1>1, <2>1, <2>2
    <3> QED BY <1>2, <2>1, <3>1
  <2>5. f[p].val \in Vals \cup {NoVal}
    BY <1>1, <2>2 DEF Frames, PutFrames, DeleteFrames
  <2> QED BY <2>1, <2>2, <2>3, <2>4, <2>5
<1>5. ASSUME NEW k \in Keys, idx[k] = NoOffset
      PROVE  /\ v[k] = NoVal
             /\ \/ \A i \in 1 .. Len(h) : h[i].key # k
                \/ \E i \in 1 .. Len(h) :
                     /\ h[i].key = k
                     /\ h[i].val = v[k]
                     /\ \A j \in i + 1 .. Len(h) : h[j].key # k
  <2>1. v[k] = NoVal
    BY <1>5 DEF ServedBy
  <2> DEFINE T == {i \in 1 .. Len(h) : h[i].key = k}
  <2>2. CASE T = {}
    BY <2>1, <2>2
  <2>3. CASE T # {}
    <3>1. PICK i \in T : \A j \in T : j <= i
      BY <1>1, <2>3, Greatest
    <3>2. ASSUME NEW j \in i + 1 .. Len(h) PROVE h[j].key # k
      BY <1>1, <3>1
    <3>3. i + H \in 1 .. Len(f) /\ f[i + H].key = k
      BY <1>1, <1>2, <3>1
    <3>4. ASSUME NEW q \in i + H + 1 .. Len(f) PROVE f[q].key # k
      <4>1. q \in 1 .. Len(f) /\ q - H \in i + 1 .. Len(h) /\ (q - H) + H = q
        BY <1>1, <3>3
      <4>2. q - H \in 1 .. Len(h)
        BY <1>1, <4>1, <3>1
      <4> QED BY <1>2, <3>2, <4>1, <4>2
    <3>5. LastRecord(f, Len(f), k, i + H)
      BY <3>3, <3>4 DEF LastRecord
    <3>6. f[i + H].op = "kDelete"
      BY <1>5, <3>3, <3>5 DEF IndexMatches
    <3>7. f[i + H].val = NoVal
      BY <1>1, <3>1, <3>6, FrameWrites
    <3> QED BY <1>2, <2>1, <3>1, <3>2, <3>7
  <2> QED BY <2>2, <2>3
<1>6. v \in KV!Views
  BY <1>4, <1>5 DEF KV!Views, ServedBy
<1>7. KV!IsView(v, h)
  <2> HIDE DEF v, h
  <2> QED BY <1>4, <1>5 DEF KV!IsView
<1> QED BY <1>6, <1>7

(***************************************************************************)
(* The refinement mapping                                                  *)
(***************************************************************************)

\* Nobody is told of more than the file holds.
AckedInFile == acked <= Len(file)

LEMMA AckedInit == Init => AckedInFile
BY DEF Init, LogInit, AckedInFile

LEMMA AckedNext ==
  ASSUME InductiveInvariant, InductiveInvariant', AckedInFile, [Next]_vars
  PROVE  AckedInFile'
<1> USE DEF AckedInFile
<1>0. /\ Len(file) \in Nat /\ Len(file') \in Nat
      /\ acked \in Nat /\ LogTypeOK /\ LogShape
  BY DEF InductiveInvariant, TypeOK, LogTypeOK, Structure
<1>1. CASE Len(file') >= Len(file) /\ acked' \in {acked, Len(file)}
  BY <1>0, <1>1
<1>2. CASE PowerLoss
  BY <1>0, <1>2 DEF PowerLoss
<1>3. ASSUME NEW r \in Frames, Write(r) PROVE AckedInFile'
  <2>1. Len(file') = Len(Headed) + 1 /\ Len(Headed) >= Len(file) /\ Len(Headed) \in Nat
    BY <1>0, <1>3, LogAppendShape, HeadedShape, HeadedType DEF Write, AppendOffset
  <2> QED BY <1>0, <1>1, <1>3, <2>1 DEF Write, histVars
<1>4. CASE WriteRejected
  <2>1. file' = Headed /\ acked' = acked
    BY <1>4 DEF WriteRejected, LogAppendRejected, histVars
  <2> QED BY <1>0, <1>1, <2>1, HeadedShape
<1>5. CASE Kill
  <2>1. file' \in {file, Headed} /\ acked' = acked
    BY <1>5 DEF Kill, LogKill
  <2> QED BY <1>0, <1>1, <2>1, HeadedShape
<1>6. ASSUME file' = file, acked' \in {acked, Len(file)} PROVE AckedInFile'
  BY <1>0, <1>1, <1>6
<1>7. CASE \/ OpenFromSnapshot \/ OpenRefused \/ OpenFullReplay \/ Recover
           \/ Sync \/ (\E t \in Times : SnapshotWrite(t)) \/ Step
           \/ (\E s \in Seqs : DamageSnapshot(s))
           \/ (\E i \in 1 .. Len(manifest) : DamageManifest(i))
           \/ UNCHANGED vars
  <2>1. file' = file /\ acked' \in {acked, Len(file)}
    BY <1>7
    DEF OpenFromSnapshot, OpenRefused, OpenFullReplay, Recover, Sync, SnapshotWrite,
        SnapshotSync, Step, ReplayFrame, ReplayDone, WriteUnsynced, WriteSynced,
        WriteSyncFails, SnapshotRename, ManifestAppend, SnapshotDone, SnapshotFails,
        DamageSnapshot, DamageManifest, OpenLog, LogOpen, LogSync, logVars, histVars,
        vars
  <2> QED BY <1>6, <2>1
<1>8. ASSUME NEW op \in PutOps, NEW k \in Keys, NEW v \in Vals, Put(op, k, v)
      PROVE  AckedInFile'
  BY <1>3, <1>8, FrameTypes DEF Put
<1>9. ASSUME NEW k \in Keys, Remove(k) PROVE AckedInFile'
  BY <1>3, <1>9, FrameTypes DEF Remove
<1> QED BY <1>2, <1>4, <1>5, <1>7, <1>8, <1>9 DEF Next

LEMMA Mapped ==
  /\ history = HistoryOf(file) /\ history' = HistoryOf(file')
  /\ HeaderItems = Hdr(file) /\ HeaderItems' = Hdr(file')
  /\ serving => served = ServedBy(index, file)
  /\ serving' => served' = ServedBy(index', file')
  /\ ~serving => served = KV!NothingServed
  /\ ~serving' => served' = KV!NothingServed
<1>1. history = HistoryOf(file) /\ history' = HistoryOf(file')
  BY DEF history, HistoryOf, WriteOf
<1>2. HeaderItems = Hdr(file) /\ HeaderItems' = Hdr(file')
  BY DEF HeaderItems, Hdr
<1>3. /\ serving => served = ServedBy(index, file)
      /\ serving' => served' = ServedBy(index', file')
  BY DEF served, ServedBy
<1>4. /\ ~serving => served = KV!NothingServed
      /\ ~serving' => served' = KV!NothingServed
  BY DEF served, KV!NothingServed
<1> QED BY <1>1, <1>2, <1>3, <1>4

\* What every step starts from.
LEMMA MappedFacts ==
  ASSUME InductiveInvariant, AckedInFile
  PROVE  /\ WellFormed(file) /\ LogTypeOK /\ LogShape /\ TypeOK
         /\ Hdr(file) \in {0, 1} /\ Hdr(file) <= Len(file) /\ Len(file) \in Nat
         /\ durable \in Nat /\ durable <= Len(file)
         /\ acked \in Nat /\ acked <= Len(file)
         /\ history \in Seq(KV!WritesKV)
         /\ Len(history) = Len(file) - Hdr(file) /\ Len(history) \in Nat
<1>1. WellFormed(file) /\ LogTypeOK /\ LogShape /\ TypeOK
  BY DEF InductiveInvariant, TypeOK, LogTypeOK, LogShape, Structure, WellFormed
<1>2. Len(file) \in Nat
  BY <1>1 DEF LogTypeOK
<1> QED
  BY <1>1, <1>2, Mapped, HistoryShape
  DEF AckedInFile, TypeOK, LogTypeOK, LogShape

\* The engine stops serving and keeps a prefix of the file, fsynced records
\* included: a crash, or the start of a replay.
LEMMA StopStep ==
  ASSUME InductiveInvariant, AckedInFile, ~serving',
         NEW n \in durable .. Len(file), file' = SubSeq(file, 1, n),
         durable' = durable, acked' = IF acked > n THEN n ELSE acked
  PROVE  KV!Stop
<1> DEFINE m == IF n > Hdr(file) THEN n - Hdr(file) ELSE 0
<1>1. n \in 0 .. Len(file)
  BY MappedFacts
<1>2. /\ n > 0 => Hdr(file') = Hdr(file)
      /\ m \in 0 .. Len(history)
      /\ history' = SubSeq(history, 1, m)
  BY <1>1, MappedFacts, HistoryPrefix, Mapped
<1>3. Hdr(file') \in {0, 1}
  BY DEF Hdr
<1>4. AsRecords(durable)' = AsRecords(durable) /\ AsRecords(durable) \in 0 .. m
  BY <1>1, <1>2, <1>3, MappedFacts, Mapped DEF AsRecords
<1>5. AsRecords(acked)' = IF AsRecords(acked) > m THEN m ELSE AsRecords(acked)
  BY <1>1, <1>2, <1>3, MappedFacts, Mapped DEF AsRecords
<1>6. m \in AsRecords(durable) .. Len(history)
  BY <1>2, <1>4, MappedFacts
<1> HIDE DEF m
<1> QED BY <1>2, <1>4, <1>5, <1>6, Mapped DEF KV!Stop

\* The same when nothing but the file header was added.
LEMMA StopWithHeader ==
  ASSUME InductiveInvariant, AckedInFile, ~serving',
         file = <<>>, file' = <<FileHeader>>, durable' = durable, acked' = acked
  PROVE  KV!Stop
<1>1. Len(file) = 0 /\ durable = 0 /\ acked = 0
  BY MappedFacts
<1>2. history = <<>> /\ history' = <<>>
  BY Mapped, HistoryEmpty
<1>3. Len(history) = 0 /\ SubSeq(history, 1, 0) = <<>>
  BY <1>2
<1>4. HeaderItems \in {0, 1} /\ HeaderItems' \in {0, 1}
  BY DEF HeaderItems
<1>5. /\ AsRecords(durable) = 0 /\ AsRecords(durable)' = 0
      /\ AsRecords(acked) = 0 /\ AsRecords(acked)' = 0
  <2>1. \A h \in {0, 1} : ~(0 > h)
    OBVIOUS
  <2>2. durable' = 0 /\ acked' = 0
    BY <1>1
  <2> QED BY <1>1, <1>4, <2>1, <2>2, Zenon DEF AsRecords
<1>6. 0 \in AsRecords(durable) .. Len(history)
  BY <1>3, <1>5
<1> QED BY <1>2, <1>3, <1>5, <1>6, Mapped DEF KV!Stop

LEMMA StopSameFile ==
  ASSUME InductiveInvariant, AckedInFile, ~serving',
         file' = file, durable' = durable, acked' = acked
  PROVE  KV!Stop
<1>1. SubSeq(file, 1, Len(file)) = file
  BY MappedFacts DEF LogTypeOK
<1>2. Len(file) \in durable .. Len(file) /\ ~(acked > Len(file))
  BY MappedFacts
<1> QED BY <1>1, <1>2, StopStep

\* Steps that leave the abstract store alone.
LEMMA StutterStep ==
  ASSUME file' = file, durable' = durable, acked' = acked,
         serving' = serving, serving => index' = index
  PROVE  UNCHANGED KV!kvVars
<1>1. history' = history /\ HeaderItems' = HeaderItems
  BY Mapped
<1>2. served' = served
  <2>1. CASE serving
    BY <2>1, Mapped
  <2>2. CASE ~serving
    BY <2>2, Mapped
  <2> QED BY <2>1, <2>2
<1>3. AsRecords(durable)' = AsRecords(durable) /\ AsRecords(acked)' = AsRecords(acked)
  BY <1>1 DEF AsRecords
<1> QED BY <1>1, <1>2, <1>3 DEF KV!kvVars

\* A rejected append leaves a file header and no record.
LEMMA RejectedStep ==
  ASSUME InductiveInvariant, AckedInFile, WriteRejected
  PROVE  UNCHANGED KV!kvVars
<1>1. /\ file = <<>> /\ file' = <<FileHeader>> /\ index' = index
      /\ durable' = durable /\ acked' = acked /\ pc = "open" /\ pc' = "open"
  BY MappedFacts, LogAppendRejectedShape
  DEF WriteRejected, LogAppendRejected, histVars
<1>2. Len(file) = 0 /\ durable = 0 /\ acked = 0 /\ durable' = 0 /\ acked' = 0
  BY <1>1, MappedFacts
<1>3. history = <<>> /\ history' = <<>>
  BY <1>1, Mapped, HistoryEmpty
<1>4. HeaderItems \in {0, 1} /\ HeaderItems' \in {0, 1}
  BY DEF HeaderItems
<1>5. /\ AsRecords(durable) = AsRecords(durable)'
      /\ AsRecords(acked) = AsRecords(acked)'
  <2>1. \A h \in {0, 1} : ~(0 > h)
    OBVIOUS
  <2> QED BY <1>2, <1>4, <2>1, Zenon DEF AsRecords
<1>6. serving' = serving
  BY <1>1 DEF serving
<1>7. \A k \in Keys : index[k] = NoOffset
  <2>1. IndexMatches(index, file, 0)
    BY <1>1, <1>2 DEF InductiveInvariant, IndexTracksLog
  <2>2. 1 .. 0 = {}
    OBVIOUS
  <2>3. \A k \in Keys : index[k] # NoOffset => index[k] + 1 \in 1 .. 0
    BY <2>1 DEF IndexMatches, LastRecord
  <2> QED BY <2>2, <2>3, Zenon
<1>8. served' = served
  BY <1>1, <1>6, <1>7 DEF served
<1> QED BY <1>3, <1>5, <1>6, <1>8 DEF KV!kvVars

\* An append is a write of the store.
LEMMA WriteStep ==
  ASSUME InductiveInvariant, AckedInFile, NEW r \in Frames, Write(r)
  PROVE  KV!Write(WriteOf(r))
<1>1. /\ pc = "open" /\ LogAppend(r) /\ pc' = "appended"
      /\ index' = ApplyWalEntry(index, r, AppendOffset)
      /\ durable' = durable /\ acked' = acked
  BY DEF Write, WriteOffset, histVars, LogAppend
<1>2. /\ LogTypeOK /\ LogShape /\ Len(file) \in Nat
      /\ index \in [Keys -> Offsets] /\ r.key \in Keys
      /\ Headed \in Seq(Items)
  BY MappedFacts, HeadedType, FrameWrites DEF TypeOK
<1>3. /\ Len(Headed) \in Nat /\ Len(Headed) >= Len(file)
      /\ AppendOffset = Len(Headed) /\ AppendOffset < MaxFile
      /\ file' = Append(Headed, r)
  BY <1>1, <1>2, HeadedShape DEF AppendOffset, LogAppend
<1>4. /\ file'[Len(Headed) + 1] = r
      /\ \A i \in 1 .. Len(file) : file'[i] = file[i]
  BY <1>1, <1>2, <1>3, LogAppendShape, HeadedShape
<1>5. WellFormed(Headed)
  BY <1>2, HeadedShape DEF WellFormed
<1>6. /\ HistoryOf(Headed) = history
      /\ AsRecords(durable)' = AsRecords(durable)
      /\ AsRecords(acked)' = AsRecords(acked)
  <2>1. CASE NeedsHeader
    <3>1. file = <<>> /\ Headed = <<FileHeader>>
      BY <2>1 DEF Headed, NeedsHeader
    <3>2. Len(file) = 0 /\ durable = 0 /\ acked = 0
      BY <3>1, MappedFacts
    <3>3. HeaderItems \in {0, 1} /\ HeaderItems' \in {0, 1}
      BY DEF HeaderItems
    <3>4. \A h \in {0, 1} : ~(0 > h)
      OBVIOUS
    <3>5. /\ AsRecords(durable)' = AsRecords(durable)
          /\ AsRecords(acked)' = AsRecords(acked)
      BY <1>1, <3>2, <3>3, <3>4, Zenon DEF AsRecords
    <3> QED BY <3>1, <3>5, Mapped, HistoryEmpty
  <2>2. CASE ~NeedsHeader
    <3>1. Headed = file
      BY <2>2 DEF Headed
    <3>2. HeaderItems' = HeaderItems
      BY <1>3, <1>5, <3>1, HistoryAppend, Mapped
    <3> QED BY <1>1, <3>1, <3>2, Mapped DEF AsRecords
  <2> QED BY <2>1, <2>2
<1>7. history' = Append(history, WriteOf(r))
  BY <1>3, <1>5, <1>6, HistoryAppend, Mapped
<1>8. Len(history) < MaxFile
  BY <1>2, <1>3, MappedFacts, FrameLogAssumption
<1>9. serving /\ serving'
  BY <1>1 DEF serving
<1>10. served' = [served EXCEPT ![r.key] = r.val]
  <2>1. served = ServedBy(index, file) /\ served' = ServedBy(index', file')
    BY <1>9, Mapped
  <2>2. ASSUME NEW k \in Keys, k # r.key
        PROVE  ServedBy(index', file')[k] = ServedBy(index, file)[k]
    <3>1. index'[k] = index[k]
      BY <1>1, <1>2, <2>2 DEF ApplyWalEntry
    <3>2. index[k] # NoOffset => index[k] + 1 \in 1 .. Len(file)
      BY <1>1 DEF InductiveInvariant, IndexTracksLog, IndexMatches, LastRecord
    <3> QED BY <1>4, <3>1, <3>2 DEF ServedBy
  <2>3. ServedBy(index', file')[r.key] = r.val
    <3>1. CASE r.op = "kDelete"
      <4>1. index'[r.key] = NoOffset
        BY <1>1, <1>2, <3>1 DEF ApplyWalEntry
      <4> QED BY <1>2, <3>1, <4>1, FrameWrites DEF ServedBy
    <3>2. CASE r.op # "kDelete"
      <4>1. index'[r.key] = Len(Headed) /\ Len(Headed) # NoOffset
        BY <1>1, <1>2, <1>3, <3>2 DEF ApplyWalEntry, NoOffset
      <4> QED BY <1>2, <1>4, <4>1 DEF ServedBy
    <3> QED BY <3>1, <3>2
  <2> QED BY <1>2, <2>1, <2>2, <2>3 DEF ServedBy
<1> QED
  BY <1>6, <1>7, <1>8, <1>9, <1>10 DEF KV!Write, WriteOf

\* fsync: the whole history is safe.
LEMMA SyncedFacts ==
  ASSUME InductiveInvariant, AckedInFile, file' = file
  PROVE  /\ history' = history /\ HeaderItems' = HeaderItems
         /\ durable' = Len(file) => AsRecords(durable)' = Len(history)
         /\ durable' = durable => AsRecords(durable)' = AsRecords(durable)
         /\ acked' = Len(file) => AsRecords(acked)' = Len(history)
         /\ acked' = acked => AsRecords(acked)' = AsRecords(acked)
<1>1. history' = history /\ HeaderItems' = HeaderItems
  BY Mapped
<1> QED BY <1>1, Mapped, MappedFacts DEF AsRecords

LEMMA SyncStep ==
  ASSUME InductiveInvariant, AckedInFile, LogSync, acked' = acked, index' = index,
         serving, serving'
  PROVE  KV!Sync
<1>1. file' = file /\ durable' = Len(file)
  BY DEF LogSync
<1>2. served' = served
  BY <1>1, Mapped
<1> QED BY <1>1, <1>2, SyncedFacts DEF KV!Sync

LEMMA AcknowledgeStep ==
  ASSUME InductiveInvariant, AckedInFile, WriteUnsynced \/ WriteSynced
  PROVE  KV!Acknowledge
<1>1. /\ file' = file /\ index' = index /\ acked' = Len(file)
      /\ durable' = Len(file) \/ (durable' = durable /\ ~(SyncWrites /\ ~GroupCommit))
      /\ pc = "appended" /\ pc' = "open"
  BY DEF WriteUnsynced, WriteSynced, LogSync, logVars, WantsFsync, SyncsEveryWrite
<1>2. serving /\ serving'
  BY <1>1 DEF serving
<1>3. served' = served
  BY <1>1, <1>2, Mapped
<1>4. /\ history' = history /\ AsRecords(acked)' = Len(history)
      /\ \/ AsRecords(durable)' = Len(history)
         \/ /\ AsRecords(durable)' = AsRecords(durable)
            /\ ~(SyncWrites /\ ~GroupCommit)
  BY <1>1, SyncedFacts
<1> QED BY <1>2, <1>3, <1>4 DEF KV!Acknowledge

\* The end of a replay serves what the file stands for.
LEMMA StartStep ==
  ASSUME InductiveInvariant, AckedInFile, ReplayDone
  PROVE  KV!Start
<1>1. /\ file' = file /\ index' = index /\ durable' = durable /\ acked' = acked
      /\ pc = "replay" /\ pc' = "open" /\ cursor >= Len(file)
  BY DEF ReplayDone, logVars, histVars
<1>2. IndexMatches(index, file, Len(file)) /\ index \in [Keys -> Offsets]
  <2>1. cursor \in data_start .. Len(file) /\ data_start \in {0, 1}
        /\ IndexMatches(index, file, cursor) /\ index \in [Keys -> Offsets]
    BY <1>1 DEF InductiveInvariant, IndexTracksLog, TypeOK, LogTypeOK
  <2>2. cursor = Len(file)
    BY <1>1, <2>1, MappedFacts
  <2> QED BY <2>1, <2>2
<1>3. serving' /\ served' = ServedBy(index, file)
  <2>1. serving'
    BY <1>1 DEF serving
  <2> QED BY <1>1, <2>1, Mapped
<1>4. served' \in KV!Views /\ KV!IsView(served', history)
  BY <1>2, <1>3, MappedFacts, HistoryView, Mapped
<1>5. UNCHANGED <<history, AsRecords(durable), AsRecords(acked)>>
  BY <1>1, SyncedFacts
<1> QED BY <1>3, <1>4, <1>5 DEF KV!Start

LEMMA CrashStep ==
  ASSUME InductiveInvariant, AckedInFile, Kill \/ PowerLoss
  PROVE  KV!Stop
<1>1. durable' = durable /\ ~serving'
  BY DEF Kill, PowerLoss, ProcessGone, LogKill, LogPowerLoss, serving
<1>2. CASE Kill
  <2>1. acked' = acked /\ file' \in {file, Headed}
    BY <1>2 DEF Kill, LogKill
  <2>2. CASE file' = file
    BY <1>1, <2>1, <2>2, StopSameFile
  <2>3. CASE file' # file
    <3>1. file = <<>> /\ file' = <<FileHeader>>
      BY <2>1, <2>3 DEF Headed, NeedsHeader
    <3> QED BY <1>1, <2>1, <3>1, StopWithHeader
  <2> QED BY <2>2, <2>3
<1>3. CASE PowerLoss
  <2>1. acked' = IF acked > Len(file') THEN Len(file') ELSE acked
    BY <1>3 DEF PowerLoss
  <2>2. ASSUME NEW n \in durable .. Len(file), file' = SubSeq(file, 1, n)
        PROVE  KV!Stop
    <3>1. Len(file') = n
      BY <2>2, MappedFacts DEF LogTypeOK
    <3> QED BY <1>1, <2>1, <2>2, <3>1, StopStep
  <2>3. CASE file' = Headed
    <3>1. CASE NeedsHeader
      <4>1. file = <<>> /\ file' = <<FileHeader>>
        BY <2>3, <3>1 DEF Headed, NeedsHeader
      <4>2. acked = 0 /\ Len(file') \in Nat
        BY <4>1, MappedFacts
      <4>3. acked' = acked
        BY <2>1, <4>2
      <4> QED BY <1>1, <4>1, <4>3, StopWithHeader
    <3>2. CASE ~NeedsHeader
      <4>1. file' = file
        BY <2>3, <3>2 DEF Headed
      <4>2. acked' = acked
        BY <2>1, <4>1, MappedFacts
      <4> QED BY <1>1, <4>1, <4>2, StopSameFile
    <3> QED BY <3>1, <3>2
  <2> QED BY <1>3, <2>2, <2>3 DEF PowerLoss, LogPowerLoss
<1> QED BY <1>2, <1>3

\* Every step of the engine is a step of the store or leaves it alone.
LEMMA StepSimulates ==
  ASSUME InductiveInvariant, AckedInFile, [Next]_vars
  PROVE  [KV!Next]_KV!kvVars
<1> USE DEF KV!Next
<1>1. CASE OpenFromSnapshot \/ OpenRefused \/ OpenFullReplay \/ Recover
  <2>1. /\ file' = file /\ durable' = durable /\ acked' = acked
        /\ pc' \in {"replay", "failed"}
    BY <1>1 DEF OpenFromSnapshot, OpenRefused, OpenFullReplay, Recover, OpenLog,
                LogOpen, logVars, histVars
  <2>2. ~serving'
    BY <2>1 DEF serving
  <2> QED BY <2>1, <2>2, StopSameFile
<1>2. ASSUME NEW r \in Frames, Write(r) PROVE KV!Next
  BY <1>2, WriteStep, FrameWrites
<1>3. ASSUME NEW op \in PutOps, NEW k \in Keys, NEW v \in Vals, Put(op, k, v)
      PROVE  KV!Next
  BY <1>2, <1>3, FrameTypes DEF Put
<1>4. ASSUME NEW k \in Keys, Remove(k) PROVE KV!Next
  BY <1>2, <1>4, FrameTypes DEF Remove
<1>5. CASE WriteRejected
  BY <1>5, RejectedStep
<1>6. CASE Sync
  <2>1. /\ LogSync \/ UNCHANGED logVars
        /\ acked' = acked /\ index' = index /\ pc = "open" /\ pc' = "open"
    BY <1>6 DEF Sync, histVars
  <2>2. serving /\ serving'
    BY <2>1 DEF serving
  <2>3. CASE LogSync
    BY <2>1, <2>2, <2>3, SyncStep
  <2>4. CASE UNCHANGED logVars
    <3>1. file' = file /\ durable' = durable
      BY <2>4 DEF logVars
    <3> QED BY <2>1, <2>2, <3>1, StutterStep
  <2> QED BY <2>1, <2>3, <2>4
<1>7. ASSUME NEW t \in Times, SnapshotWrite(t) PROVE KV!Next
  <2>1. /\ LogSync /\ acked' = acked /\ index' = index
        /\ pc = "open" /\ pc' = "snap_written"
    BY <1>7 DEF SnapshotWrite, SnapshotSync, histVars
  <2>2. serving /\ serving'
    BY <2>1 DEF serving
  <2> QED BY <2>1, <2>2, SyncStep
<1>8. CASE ReplayDone
  BY <1>8, StartStep
<1>9. CASE WriteUnsynced \/ WriteSynced
  BY <1>9, AcknowledgeStep
<1>10. CASE \/ ReplayFrame \/ WriteSyncFails \/ SnapshotRename \/ ManifestAppend
            \/ SnapshotDone \/ SnapshotFails
            \/ \E s \in Seqs : DamageSnapshot(s)
            \/ \E i \in 1 .. Len(manifest) : DamageManifest(i)
            \/ UNCHANGED vars
  <2>1. /\ file' = file /\ durable' = durable /\ acked' = acked
        /\ serving' = serving
        /\ serving => index' = index
    BY <1>10
    DEF ReplayFrame, WriteSyncFails, SnapshotRename, ManifestAppend, SnapshotDone,
        SnapshotFails, DamageSnapshot, DamageManifest, logVars, histVars, vars, serving
  <2> QED BY <2>1, StutterStep
<1>11. CASE Kill \/ PowerLoss
  BY <1>11, CrashStep
<1> QED
  BY <1>1, <1>3, <1>4, <1>5, <1>6, <1>7, <1>8, <1>9, <1>10, <1>11
  DEF Next, Step

LEMMA InitSimulates == Init => KV!Init
<1> SUFFICES ASSUME Init PROVE KV!Init
  OBVIOUS
<1>1. InductiveInvariant /\ AckedInFile
  BY InvariantInit, AckedInit
<1>2. ~serving /\ durable = Len(file) /\ acked = Len(file)
  BY DEF Init, LogInit, serving
<1>3. AsRecords(durable) = Len(history) /\ AsRecords(acked) = Len(history)
  BY <1>1, <1>2, MappedFacts, Mapped DEF AsRecords
<1>4. history \in {<<>>} \cup {<<w>> : w \in KV!WritesKV}
  <2>1. CASE file = <<>>
    BY <2>1, Mapped, HistoryEmpty
  <2>2. ASSUME NEW r \in Frames, file = <<r>>
        PROVE  history = <<WriteOf(r)>> /\ WriteOf(r) \in KV!WritesKV
    <3>1. <<r>> = Append(<<>>, r) /\ WellFormed(<<>>)
      BY DEF WellFormed
    <3>2. history = Append(<<>>, WriteOf(r))
      BY <2>2, <3>1, HistoryAppend, HistoryEmpty, Mapped
    <3> QED BY <3>2, FrameWrites
  <2> QED BY <2>1, <2>2 DEF Init, LogInit
<1> QED BY <1>2, <1>3, <1>4, Mapped DEF KV!Init

\* Through replays, snapshots, rejected appends, failed fsyncs, kills and power
\* losses the engine is a durable map for its callers: it loses only a suffix
\* that was not fsynced, and what it serves is the value of the last surviving
\* write of each key (storage_engine.cpp, all of it).
THEOREM EngineImplementsKV == Spec => ImplementsKV
<1>1. InductiveInvariant /\ InductiveInvariant' /\ AckedInFile /\ [Next]_vars
        => AckedInFile'
  BY AckedNext
<1>2. InductiveInvariant /\ AckedInFile /\ [Next]_vars => [KV!Next]_KV!kvVars
  BY StepSimulates
<1>3. Spec => []AckedInFile
  BY <1>1, AckedInit, InvariantHolds, PTL DEF Spec
<1> QED
  BY <1>2, <1>3, InitSimulates, InvariantHolds, PTL DEF Spec, ImplementsKV, KV!Spec
=============================================================================
