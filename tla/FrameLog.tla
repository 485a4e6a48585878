------------------------------ MODULE FrameLog ------------------------------
(***************************************************************************)
(* What src/storage/log_manager.cpp promises to the storage engine: a file *)
(* of whole frames behind an optional file header.  One item of `file'     *)
(* stands for the bytes of one frame (or of the 8-byte file header), so    *)
(* the byte offset of a frame becomes the number of items before it and    *)
(* eof_offset becomes Len(file).  An item is partial only between a crash  *)
(* and the next open (`torn'); LogManager.tla models the bytes below.      *)
(***************************************************************************)
EXTENDS WalFrames

CONSTANT MaxFile   \* bound: items in the file

ASSUME FrameLogAssumption == MaxFile \in Nat

VARIABLES
  file,        \* the whole items of the WAL file, as the kernel sees them
  torn,        \* a partial item follows them
  durable,     \* the first `durable' items have been fsynced
  fd,          \* Impl::fd >= 0
  legacy_wal,  \* Impl::legacy_wal: a v0 file, without a file header
  data_start   \* Impl::data_start: 1 behind the file header, else 0

logVars == <<file, torn, durable, fd, legacy_wal, data_start>>

HasHeader(f) == f # <<>> /\ f[1] = FileHeader

LogTypeOK ==
  /\ file \in Seq(Items)
  /\ torn \in BOOLEAN
  /\ durable \in Nat
  /\ fd \in BOOLEAN
  /\ legacy_wal \in BOOLEAN
  /\ data_start \in {0, 1}

(***************************************************************************)
(* Operations.  A file found at start-up is empty or a WAL of an earlier   *)
(* release (v0: no header), here with at most one record.                  *)
(***************************************************************************)
LogInit ==
  /\ file \in {<<>>} \cup {<<r>> : r \in Frames}
  /\ torn = FALSE
  /\ durable = Len(file)
  /\ fd = FALSE
  /\ legacy_wal = FALSE
  /\ data_start = 0

\* open() with fd < 0: detect the format, then cut the partial tail.  A file
\* that holds only a partial item is taken for a legacy one.
LogOpen ==
  /\ ~fd
  /\ fd' = TRUE
  /\ legacy_wal' = IF file = <<>> THEN torn ELSE file[1] # FileHeader
  /\ data_start' = IF HasHeader(file) THEN 1 ELSE 0
  /\ torn' = FALSE
  /\ UNCHANGED <<file, durable>>

NeedsHeaderAlways == ~legacy_wal
NeedsHeader == ~legacy_wal /\ file = <<>>

\* The file once append() has written the file header it owes.
Headed == IF NeedsHeader THEN <<FileHeader>> ELSE file

\* The offset append() hands to the caller: eof_offset after the header.
AppendOffset == Len(Headed)

LogAppend(r) ==
  /\ fd
  /\ AppendOffset < MaxFile
  /\ file' = Append(Headed, r)
  /\ data_start' = IF NeedsHeader THEN 1 ELSE data_start
  /\ UNCHANGED <<torn, durable, fd, legacy_wal>>

\* append() that fails after the file header and before the first byte of
\* the frame: a payload over the cap, or a full disk.  The header stays.
LogAppendRejected ==
  /\ fd
  /\ NeedsHeader
  /\ file' = Headed
  /\ data_start' = 1
  /\ UNCHANGED <<torn, durable, fd, legacy_wal>>

LogSync ==
  /\ fd
  /\ durable' = Len(file)
  /\ UNCHANGED <<file, torn, fd, legacy_wal, data_start>>

(***************************************************************************)
(* Crashes.  A process that dies keeps what it wrote, the partial item of  *)
(* an append in flight included (`writing').  A machine that dies keeps at *)
(* least the fsynced prefix.                                               *)
(***************************************************************************)
LogDown ==
  /\ fd' = FALSE
  /\ legacy_wal' = FALSE
  /\ data_start' = 0

LogKill(writing) ==
  /\ file' \in IF fd /\ writing THEN {file, Headed} ELSE {file}
  /\ torn' \in IF fd /\ writing THEN BOOLEAN ELSE {torn}
  /\ UNCHANGED durable
  /\ LogDown

LogPowerLoss(writing) ==
  /\ \/ \E n \in durable .. Len(file) :
          /\ file' = SubSeq(file, 1, n)
          /\ torn' \in IF fd \/ n < Len(file) THEN BOOLEAN ELSE {FALSE, torn}
     \/ /\ fd
        /\ writing
        /\ file' = Headed
        /\ torn' \in BOOLEAN
  /\ UNCHANGED durable
  /\ LogDown

(***************************************************************************)
(* The log on its own.                                                     *)
(***************************************************************************)
LogNext ==
  \/ LogOpen
  \/ \E r \in Frames : LogAppend(r)
  \/ LogAppendRejected
  \/ LogSync
  \/ LogKill(TRUE)
  \/ LogPowerLoss(TRUE)

LogSpec == LogInit /\ [][LogNext]_logVars

\* The file holds at least what was fsynced and no header but the first item,
\* and the volatile fields of an open log describe the file.
LogShape ==
  /\ durable <= Len(file)
  /\ \A i \in 2 .. Len(file) : file[i] # FileHeader
  /\ fd => /\ ~torn
           /\ data_start = IF HasHeader(file) THEN 1 ELSE 0
           /\ legacy_wal => ~HasHeader(file)

\* The records of the file, without the file header.
Records(f) == IF HasHeader(f) THEN Tail(f) ELSE f
=============================================================================
