------------------------ MODULE StorageEngineDamage ------------------------
(***************************************************************************)
(* The storage engine on a disk that damages the last frame of the WAL.    *)
(* repair_truncate_tail() takes a complete last frame with a bad CRC for a *)
(* torn write and cuts it, fsynced or not.                                 *)
(***************************************************************************)
EXTENDS StorageEngine

TailDamage ==
  /\ pc = "down"
  /\ Len(file) > (IF HasHeader(file) THEN 1 ELSE 0)
  /\ file' = SubSeq(file, 1, Len(file) - 1)
  /\ torn' = TRUE
  /\ durable' = IF durable = Len(file) THEN durable - 1 ELSE durable
  /\ acked' = IF acked = Len(file) THEN acked - 1 ELSE acked
  /\ UNCHANGED <<fd, legacy_wal, data_start, pc, index, cursor,
                 appends_since_group_sync, snap_seq_counter, pending,
                 snapVars, opened_at>>

DamagedNext == Next \/ TailDamage

DamagedSpec == Init /\ [][DamagedNext]_vars

\* log_manager.cpp:488 "the watermark comes from a CRC-verified snapshot
\* written by the engine, so range checking suffices": a snapshot whose
\* watermark is inside the WAL describes that WAL.
RangeCheckSuffices == pc = "open" => IndexMatches(index, file, Len(file))
=============================================================================
