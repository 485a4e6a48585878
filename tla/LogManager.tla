----------------------------- MODULE LogManager -----------------------------
(***************************************************************************)
(* src/storage/log_manager.cpp below the level of FrameLog: the file as a  *)
(* sequence of cells, the writes that make up an append, the failures and  *)
(* crashes that tear them, and the scan with which open() repairs it.      *)
(*                                                                         *)
(* A cell is a group of bytes with one role: H1, H2 are the magic and the  *)
(* version of the 8-byte file header, F1 is the OpType and the CRC of a    *)
(* frame header, F2 its payload length, B a part of the payload.  F1 holds *)
(* the CRC, so it names the one frame whose CRC it is.                     *)
(***************************************************************************)
EXTENDS WalFrames, FiniteSets

CONSTANTS
  MaxCells,     \* bound: cells in the file, at least those of one frame
  WriteMayFail, \* whether write() may fail, after part of the bytes
  MaxDamage,    \* bound: cells that may rot, no two of one role
  DamageKinds   \* the roles of the cells that may rot

ASSUME LogManagerAssumption ==
  /\ MaxCells \in Nat /\ MaxCells >= 4
  /\ WriteMayFail \in BOOLEAN
  /\ MaxDamage \in Nat
  /\ DamageKinds \subseteq {"H1", "H2", "F1", "F2", "B"}

VARIABLES
  cells,       \* the file
  durable,     \* how many cells are fsynced
  pc,          \* the step open() or append() is at
  eof_offset, legacy_wal, data_start,   \* Impl's fields
  cursor, last_good,                    \* locals of repair_truncate_tail()
  rec,         \* the record being appended
  damage,      \* history: the roles of the cells that have rotted, and "W"
               \* once a write() or a truncation has failed
  returned     \* history: [off, rec] of the appends of this session that
               \* returned OK

fields == <<eof_offset, legacy_wal, data_start>>
scan == <<cursor, last_good>>
vars == <<cells, durable, pc, fields, scan, rec, damage, returned>>

(***************************************************************************)
(* The format                                                              *)
(***************************************************************************)
FileHeaderSize == 2
FrameHeaderSize == 2

\* A put carries a value behind its key, a delete does not.
PayloadLen(r) == IF r.op = "kDelete" THEN 1 ELSE 2

HeaderCells == << <<"H1">>, <<"H2">> >>
FrameHeader(r) == << <<"F1", r>>, <<"F2", PayloadLen(r)>> >>
Payload(r) == [i \in 1 .. PayloadLen(r) |-> <<"B", r, i>>]
Encode(r) == FrameHeader(r) \o Payload(r)
FrameSize(r) == FrameHeaderSize + PayloadLen(r)

Rotten == <<"X">>

\* The cells at offset p spell the sequence s.
Spells(p, s) ==
  /\ p >= 0
  /\ p + Len(s) <= Len(cells)
  /\ SubSeq(cells, p + 1, p + Len(s)) = s

WholeFrameAt(p, r) == Spells(p, Encode(r))

\* What the header fields decode to.  A cell that is not a genuine F1 (F2),
\* rotten or out of place, may decode to any OpType (length).
TooShort == -1
OverCap == MaxCells + 1
ValidOps(p) == IF cells[p + 1][1] = "F1" THEN {TRUE} ELSE BOOLEAN
Lengths(p) ==
  IF cells[p + 2][1] = "F2" THEN {cells[p + 2][2]}
  ELSE {TooShort, OverCap} \cup 1 .. MaxCells

\* The CRC in F1 fits the length and the payload that follow.
CrcFits(p, len) ==
  \E r \in Frames : len = PayloadLen(r) /\ WholeFrameAt(p, r)

(***************************************************************************)
(* open() and the repair scan                                              *)
(***************************************************************************)
Init ==
  /\ cells \in {<<>>} \cup {Encode(r) : r \in Frames}
  /\ durable = Len(cells)
  /\ pc = "closed"
  /\ eof_offset = 0 /\ legacy_wal = FALSE /\ data_start = 0
  /\ cursor = 0 /\ last_good = 0
  /\ rec = FileHeader
  /\ damage = {}
  /\ returned = {}

IsV2 == Len(cells) >= FileHeaderSize /\ cells[1] = <<"H1">>

\* H2 holds the version and two bytes nobody reads: when it is rotten the
\* version may still be the right one.
VersionsOk == IF IsV2 /\ cells[2] # <<"H2">> THEN BOOLEAN ELSE {TRUE}

Open ==
  /\ pc = "closed"
  /\ eof_offset' = Len(cells)
  /\ legacy_wal' = (Len(cells) > 0 /\ ~IsV2)
  /\ \E ok \in VersionsOk :
       /\ pc' = IF ok THEN "repair" ELSE "failed"
       /\ data_start' = IF IsV2 /\ ok THEN FileHeaderSize ELSE 0
  /\ cursor' = data_start'
  /\ last_good' = data_start'
  /\ UNCHANGED <<cells, durable, rec, damage, returned>>

\* open() again, with the descriptor open: OK without a look at the file.
OpenAgain ==
  /\ pc = "failed"
  /\ pc' = "ready"
  /\ UNCHANGED <<cells, durable, fields, scan, rec, damage, returned>>

\* last_good (and the cursor) once the frame at the cursor is accepted.
GoodUpToStale(len) == last_good
GoodUpTo(len) == cursor + FrameHeaderSize + len

PastEofOffByOne(len) == cursor + FrameHeaderSize + len >= eof_offset
PastEof(len) == cursor + FrameHeaderSize + len > eof_offset

\* The verdict on the frame at the cursor, when its header decodes to ok, len.
VerdictOnCrcLenient(len) ==
  IF CrcFits(cursor, len) THEN "good" ELSE "truncate"
VerdictOnCrc(len) ==
  IF CrcFits(cursor, len) THEN "good"
  ELSE IF GoodUpTo(len) < eof_offset THEN "failed"
  ELSE "truncate"

Verdict(ok, len) ==
  IF ~ok \/ len = TooShort
  THEN IF legacy_wal THEN "truncate" ELSE "failed"
  ELSE IF len = OverCap THEN "failed"
  ELSE IF PastEof(len) THEN "truncate"
  ELSE VerdictOnCrc(len)

ScanFrame ==
  /\ pc = "repair"
  /\ cursor < eof_offset
  /\ IF eof_offset - cursor < FrameHeaderSize
     THEN pc' = "truncate" /\ UNCHANGED scan
     ELSE \E ok \in ValidOps(cursor), len \in Lengths(cursor) :
            \/ /\ Verdict(ok, len) = "good"
               /\ last_good' = GoodUpTo(len)
               /\ cursor' = last_good'
               /\ UNCHANGED pc
            \/ /\ Verdict(ok, len) # "good"
               /\ pc' = Verdict(ok, len)
               /\ UNCHANGED scan
  /\ UNCHANGED <<cells, durable, fields, rec, damage, returned>>

Repaired ==
  /\ pc' = "ready"
  /\ cursor' = 0 /\ last_good' = 0

ScanDone ==
  /\ pc = "repair"
  /\ cursor >= eof_offset
  /\ Repaired
  /\ UNCHANGED <<cells, durable, fields, rec, damage, returned>>

\* ftruncate(last_good) and refresh_eof()
Truncate ==
  /\ pc = "truncate"
  /\ cells' = SubSeq(cells, 1, last_good)
  /\ eof_offset' = last_good
  /\ durable' = IF durable > last_good THEN last_good ELSE durable
  /\ Repaired
  /\ UNCHANGED <<legacy_wal, data_start, rec, damage, returned>>

TruncateFails ==
  /\ pc = "truncate"
  /\ WriteMayFail
  /\ pc' = "failed"
  /\ damage' = damage \cup {"W"}
  /\ UNCHANGED <<cells, durable, fields, scan, rec, returned>>

(***************************************************************************)
(* append() and sync()                                                     *)
(***************************************************************************)
NeedsHeader == ~legacy_wal /\ eof_offset = 0

AppendStart(r) ==
  /\ pc = "ready"
  /\ Len(cells) + FileHeaderSize + FrameSize(r) <= MaxCells
  /\ rec' = r
  /\ pc' = IF NeedsHeader THEN "file_header" ELSE "frame_header"
  /\ UNCHANGED <<cells, durable, fields, scan, damage, returned>>

\* write_file_header(): at offset 0, over what a failed attempt left there.
OverStart(s) == s \o SubSeq(cells, Len(s) + 1, Len(cells))

WriteFileHeader ==
  /\ pc = "file_header"
  /\ cells' = OverStart(HeaderCells)
  /\ data_start' = FileHeaderSize
  /\ eof_offset' = FileHeaderSize
  /\ pc' = "frame_header"
  /\ UNCHANGED <<durable, legacy_wal, scan, rec, damage, returned>>

\* The payload is over the cap: the error leaves the file header behind.
AppendRejected ==
  /\ pc = "frame_header"
  /\ pc' = "ready"
  /\ rec' = FileHeader
  /\ UNCHANGED <<cells, durable, fields, scan, damage, returned>>

\* The frame goes to the end of the file, wherever eof_offset is.
WriteFrameHeader ==
  /\ pc = "frame_header"
  /\ cells' = cells \o FrameHeader(rec)
  /\ pc' = "payload"
  /\ UNCHANGED <<durable, fields, scan, rec, damage, returned>>

EofWithoutFrameHeader == eof_offset + PayloadLen(rec)
EofCountsHeaderAgain == data_start + eof_offset + FrameSize(rec)
EofAfterAppend == eof_offset + FrameSize(rec)

WritePayload ==
  /\ pc = "payload"
  /\ cells' = cells \o Payload(rec)
  /\ eof_offset' = EofAfterAppend
  /\ returned' = returned \cup {[off |-> eof_offset, rec |-> rec]}
  /\ pc' = "ready"
  /\ rec' = FileHeader
  /\ UNCHANGED <<durable, legacy_wal, data_start, scan, damage>>

\* write() fails after n cells: append() returns the error and nothing else.
WriteFails ==
  /\ WriteMayFail
  /\ \/ /\ pc = "file_header"
        /\ \E n \in 0 .. FileHeaderSize - 1 :
             cells' = OverStart(SubSeq(HeaderCells, 1, n))
     \/ /\ pc = "frame_header"
        /\ \E n \in 0 .. FrameHeaderSize - 1 :
             cells' = cells \o SubSeq(FrameHeader(rec), 1, n)
     \/ /\ pc = "payload"
        /\ \E n \in 0 .. PayloadLen(rec) - 1 :
             cells' = cells \o SubSeq(Payload(rec), 1, n)
  /\ pc' = "ready"
  /\ rec' = FileHeader
  /\ damage' = damage \cup {"W"}
  /\ UNCHANGED <<durable, fields, scan, returned>>

Sync ==
  /\ pc = "ready"
  /\ durable' = Len(cells)
  /\ UNCHANGED <<cells, pc, fields, scan, rec, damage, returned>>

(***************************************************************************)
(* Crashes and rot                                                         *)
(***************************************************************************)
Gone ==
  /\ pc' = "closed"
  /\ eof_offset' = 0 /\ legacy_wal' = FALSE /\ data_start' = 0
  /\ cursor' = 0 /\ last_good' = 0
  /\ rec' = FileHeader
  /\ returned' = {}

\* The descriptor is closed, or the process dies.
Kill ==
  /\ pc # "closed"
  /\ Gone
  /\ UNCHANGED <<cells, durable, damage>>

PowerLoss ==
  /\ \E n \in durable .. Len(cells) : cells' = SubSeq(cells, 1, n)
  /\ Gone
  /\ UNCHANGED <<durable, damage>>

Rot(p) ==
  /\ pc = "closed"
  /\ Cardinality(damage \ {"W"}) < MaxDamage
  /\ cells[p][1] \in DamageKinds \ damage
  /\ cells' = [cells EXCEPT ![p] = Rotten]
  /\ damage' = damage \cup {cells[p][1]}
  /\ UNCHANGED <<durable, pc, fields, scan, rec, returned>>

RepairStep == ScanFrame \/ ScanDone \/ Truncate \/ TruncateFails

Next ==
  \/ Open
  \/ OpenAgain
  \/ RepairStep
  \/ \E r \in Frames : AppendStart(r)
  \/ WriteFileHeader
  \/ AppendRejected
  \/ WriteFrameHeader
  \/ WritePayload
  \/ WriteFails
  \/ Sync
  \/ Kill
  \/ PowerLoss
  \/ \E p \in 1 .. Len(cells) : Rot(p)

Spec == Init /\ [][Next]_vars

FairSpec == Spec /\ WF_vars(RepairStep)

(***************************************************************************)
(* Properties                                                              *)
(***************************************************************************)
TypeOK ==
  /\ Len(cells) <= MaxCells
  /\ durable \in 0 .. MaxCells
  /\ pc \in {"closed", "repair", "truncate", "failed", "ready", "file_header",
             "frame_header", "payload"}
  /\ eof_offset \in 0 .. MaxCells
  /\ legacy_wal \in BOOLEAN
  /\ data_start \in {0, FileHeaderSize}
  /\ cursor \in 0 .. MaxCells /\ last_good \in 0 .. cursor
  /\ rec \in Items
  /\ damage \subseteq DamageKinds \cup {"W"}
  /\ \A e \in returned : e.off \in 0 .. MaxCells /\ e.rec \in Frames

\* log_manager.h "returns offset of the written frame": read_value_at() finds
\* each frame this session appended at the offset append() handed out.
AppendReturnsFrameOffset ==
  pc \notin {"closed", "failed"} =>
    \A e \in returned :
      /\ e.off >= data_start
      /\ e.off + FrameSize(e.rec) <= eof_offset
      /\ WholeFrameAt(e.off, e.rec)

\* log_manager.h "A bad frame with more valid-looking data after it: middle
\* corruption -> error": the tail that repair is about to cut off the file
\* holds no whole frame.
NoWholeFrameIsCut ==
  pc = "truncate" =>
    \A p \in last_good .. Len(cells) : \A r \in Frames : ~WholeFrameAt(p, r)

\* The part of it that holds: a rotten payload in the middle of a file, behind
\* it torn and repaired appends, is reported and costs no whole frame.
PayloadRotCutsNoFrame == damage \subseteq {"B"} => NoWholeFrameIsCut

\* open() comes to a verdict on every file: the scan always moves on.
RepairEnds == (pc \in {"repair", "truncate"}) ~> (pc \notin {"repair", "truncate"})

(***************************************************************************)
(* The log of whole frames that the storage engine builds on.  The view of *)
(* a file: the items it holds in whole, in the order in which they end,    *)
(* and whether cells are left over behind the last of them.                *)
(***************************************************************************)
ItemCells(it) == IF it = FileHeader THEN HeaderCells ELSE Encode(it)

\* The items that cell n of a file completes.
EndingAt(c, n) ==
  {it \in Items :
     LET size == Len(ItemCells(it))
     IN  /\ size <= n
         /\ SubSeq(c, n - size + 1, n) = ItemCells(it)
         /\ it = FileHeader => n = FileHeaderSize}

AddItem(c, h, n) ==
  IF EndingAt(c, n) = {} THEN h ELSE Append(h, CHOOSE it \in EndingAt(c, n) : TRUE)

ItemsOf(c) ==
  LET upTo[n \in 0 .. Len(c)] == IF n = 0 THEN <<>> ELSE AddItem(c, upTo[n - 1], n)
  IN  upTo[Len(c)]

wholeItems == ItemsOf(cells)

leftOver == cells # <<>> /\ EndingAt(cells, Len(cells)) = {}

\* How many whole items lie within the first n cells.
ItemsWithin(n) == Len(ItemsOf(SubSeq(cells, 1, n)))

isOpen == pc \notin {"closed", "repair", "truncate"}

Log == INSTANCE FrameLog WITH
  MaxFile <- MaxCells,
  file <- wholeItems,
  torn <- ~isOpen /\ leftOver,
  durable <- ItemsWithin(durable),
  fd <- isOpen,
  legacy_wal <- isOpen /\ legacy_wal,
  data_start <- IF isOpen /\ data_start > 0 THEN 1 ELSE 0

\* While writes do not fail and no cell rots, torn appends, crashes in the
\* middle of the scan and repairs together look like the log of whole frames
\* (FrameLog) on which the storage engine is built.
ImplementsFrameLog == Log!LogSpec
=============================================================================
