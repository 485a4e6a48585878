-------------------------- MODULE LogManagerProofs --------------------------
(***************************************************************************)
(* Theorems about the WAL file and its repair, for files of any length.    *)
(***************************************************************************)
EXTENDS LogManager, FiniteSetTheorems, TLAPS

F1(r) == <<"F1", r>>
F2(n) == <<"F2", n>>
B(r, i) == <<"B", r, i>>
AllCells ==
  {<<"H1">>, <<"H2">>, Rotten} \cup {F1(r) : r \in Frames} \cup {F2(n) : n \in 1 .. 2}
    \cup {B(r, i) : r \in Frames, i \in 1 .. 2}

(***************************************************************************)
(* The fields of the log                                                   *)
(***************************************************************************)
Appending == {"file_header", "frame_header", "payload"}

\* The file has room for what is being appended, and eof_offset never passes
\* its end; the scan sees the whole file.
FieldsInv ==
  /\ cells \in Seq(AllCells)
  /\ TypeOK
  /\ eof_offset <= Len(cells)
  /\ pc \in {"repair", "truncate"} =>
       eof_offset = Len(cells) /\ cursor = last_good /\ cursor <= eof_offset
  /\ pc \in Appending => rec \in Frames
  /\ pc = "file_header" =>
       Len(cells) + FileHeaderSize + FrameSize(rec) <= MaxCells /\ eof_offset = 0
  /\ pc = "frame_header" => Len(cells) + FrameSize(rec) <= MaxCells
  /\ pc = "payload" =>
       /\ Len(cells) + PayloadLen(rec) <= MaxCells
       /\ eof_offset + FrameHeaderSize <= Len(cells)

(***************************************************************************)
(* The offsets that append() returns                                       *)
(***************************************************************************)

\* Until a write fails, eof_offset is the end of the file, or the start of
\* the frame whose header has been written.
Tracked ==
  /\ pc \in {"failed", "ready", "file_header", "frame_header"} => eof_offset = Len(cells)
  /\ pc = "payload" =>
       /\ Len(cells) = eof_offset + FrameHeaderSize
       /\ cells[eof_offset + 1] = F1(rec)
       /\ cells[eof_offset + 2] = F2(PayloadLen(rec))
  /\ pc \in {"closed", "repair", "truncate", "failed"} => returned = {}
  /\ data_start <= eof_offset
  /\ pc \in {"repair", "truncate"} => data_start <= cursor
  /\ \A e \in returned :
       /\ e.rec \in Frames
       /\ e.off >= data_start
       /\ e.off + FrameSize(e.rec) <= eof_offset
       /\ WholeFrameAt(e.off, e.rec)

OffsetsInv == "W" \notin damage => Tracked

(***************************************************************************)
(* What the repair cuts off                                                *)
(***************************************************************************)
Intact(c, p) == \A q \in 1 .. p - 1 : q <= Len(c) => c[q] # Rotten
StartsFrame(c, p) == \E r \in Frames : c[p] = F1(r)
FrameStart(c, p, r) == p \in 1 .. Len(c) /\ c[p] = F1(r) /\ Intact(c, p)

\* Up to the first rotten cell the file is a header and frames, the last of
\* them perhaps torn; of a frame only payload is rotten.
FrameGrammar(c, p, r) ==
  /\ \A k \in 1 .. FrameSize(r) : p + k - 1 <= Len(c) =>
       \/ c[p + k - 1] = Encode(r)[k]
       \/ k > 2 /\ c[p + k - 1] = Rotten
  /\ (p + FrameSize(r) <= Len(c) /\ Intact(c, p + FrameSize(r))) =>
       StartsFrame(c, p + FrameSize(r))

Grammar(c) ==
  /\ Len(c) >= 1 => (c[1] = <<"H1">> \/ StartsFrame(c, 1))
  /\ (Len(c) >= 2 /\ c[1] = <<"H1">>) => c[2] = <<"H2">>
  /\ (Len(c) >= 3 /\ c[1] = <<"H1">>) => StartsFrame(c, 3)
  /\ \A p \in 1 .. Len(c), r \in Frames : FrameStart(c, p, r) => FrameGrammar(c, p, r)

\* The frames that start at or before cell n end there.
WholeUpTo(c, n) ==
  /\ \A p \in 1 .. n, r \in Frames : FrameStart(c, p, r) => p + FrameSize(r) - 1 <= n
  /\ (n >= 1 /\ c[1] = <<"H1">>) => n >= 2

\* The scan stands behind whole frames and before the next one.
ScanAt(c, n) ==
  /\ WholeUpTo(c, n)
  /\ Intact(c, n + 1)
  /\ n < Len(c) => \/ StartsFrame(c, n + 1)
                   \/ n = 0 /\ Len(c) = 1 /\ c[1] = <<"H1">>

RepairGrammar ==
  /\ pc \in {"repair", "truncate"} => ScanAt(cells, cursor)
  /\ pc \in {"failed", "ready", "file_header", "frame_header"} => WholeUpTo(cells, Len(cells))
  /\ pc = "payload" => WholeUpTo(cells, eof_offset)

GrammarInv ==
  damage \subseteq {"B"} => (Grammar(cells) /\ RepairGrammar /\ NoWholeFrameIsCut)

LogInv == FieldsInv /\ OffsetsInv /\ GrammarInv

(***************************************************************************)
(* Cells and frames                                                        *)
(***************************************************************************)
LEMMA Sizes ==
  ASSUME NEW r
  PROVE  /\ PayloadLen(r) \in 1 .. 2
         /\ FrameSize(r) \in 3 .. 4 /\ FrameSize(r) = 2 + PayloadLen(r)
         /\ FileHeaderSize = 2 /\ FrameHeaderSize = 2
  BY DEF PayloadLen, FrameSize, FileHeaderSize, FrameHeaderSize

\* The cells of the different roles differ, and F1 names its frame.
LEMMA Roles ==
  ASSUME NEW r, NEW n, NEW i
  PROVE  /\ F1(r)[1] = "F1" /\ F2(n)[1] = "F2" /\ B(r, i)[1] = "B" /\ Rotten[1] = "X"
         /\ <<"H1">>[1] = "H1" /\ <<"H2">>[1] = "H2"
         /\ F1(r)[2] = r /\ F2(n)[2] = n
  BY DEF F1, F2, B, Rotten

LEMMA FrameCells ==
  ASSUME NEW r \in Frames
  PROVE  /\ FrameHeader(r) \in Seq(AllCells) /\ Len(FrameHeader(r)) = 2
         /\ FrameHeader(r)[1] = F1(r) /\ FrameHeader(r)[2] = F2(PayloadLen(r))
         /\ Payload(r) \in Seq(AllCells) /\ Len(Payload(r)) = PayloadLen(r)
         /\ \A i \in 1 .. PayloadLen(r) : Payload(r)[i] = B(r, i)
  <1> PayloadLen(r) \in 1 .. 2
    BY Sizes
  <1>1. F1(r) \in AllCells /\ F2(PayloadLen(r)) \in AllCells
    BY DEF AllCells
  <1>2. \A i \in 1 .. PayloadLen(r) : B(r, i) \in AllCells
    BY DEF AllCells
  <1>3. FrameHeader(r) = <<F1(r), F2(PayloadLen(r))>>
    BY DEF FrameHeader, F1, F2
  <1>4. Payload(r) = [i \in 1 .. PayloadLen(r) |-> B(r, i)]
    BY DEF Payload, B
  <1>5. /\ FrameHeader(r) \in Seq(AllCells) /\ Len(FrameHeader(r)) = 2
        /\ FrameHeader(r)[1] = F1(r) /\ FrameHeader(r)[2] = F2(PayloadLen(r))
    BY <1>1, <1>3
  <1>6. Payload(r) \in Seq(AllCells) /\ Len(Payload(r)) = PayloadLen(r)
    <2>1. Payload(r) \in [1 .. PayloadLen(r) -> AllCells]
      BY <1>2, <1>4
    <2>2. QED BY <2>1
  <1>7. QED BY <1>4, <1>5, <1>6

LEMMA EncodeCells ==
  ASSUME NEW r \in Frames
  PROVE  /\ Encode(r) \in Seq(AllCells) /\ Len(Encode(r)) = FrameSize(r)
         /\ Encode(r)[1] = F1(r) /\ Encode(r)[2] = F2(PayloadLen(r))
         /\ \A k \in 3 .. FrameSize(r) : Encode(r)[k] = B(r, k - 2)
  <1> DEFINE h == FrameHeader(r)
             b == Payload(r)
  <1>1. h \in Seq(AllCells) /\ b \in Seq(AllCells)
    BY FrameCells
  <1> HIDE DEF h, b
  <1>2. h \o b \in Seq(AllCells) /\ Len(h \o b) = Len(h) + Len(b)
    BY <1>1
  <1>3. \A k \in 1 .. Len(h) : (h \o b)[k] = h[k]
    BY <1>1
  <1>4. \A k \in Len(h) + 1 .. Len(h) + Len(b) : (h \o b)[k] = b[k - Len(h)]
    BY <1>1
  <1>5. Encode(r) = h \o b
    BY DEF Encode, h, b
  <1>6. Len(h) = 2 /\ h[1] = F1(r) /\ h[2] = F2(PayloadLen(r)) /\ Len(b) = PayloadLen(r)
    BY FrameCells DEF h, b
  <1>7. \A i \in 1 .. PayloadLen(r) : b[i] = B(r, i)
    BY FrameCells DEF b
  <1>8. PayloadLen(r) \in Nat /\ FrameSize(r) = 2 + PayloadLen(r)
    BY Sizes
  <1>9. \A k \in 3 .. FrameSize(r) : Encode(r)[k] = B(r, k - 2)
    <2> SUFFICES ASSUME NEW k \in 3 .. FrameSize(r) PROVE (h \o b)[k] = B(r, k - 2)
      BY <1>5
    <2>1. k \in Len(h) + 1 .. Len(h) + Len(b) /\ k - 2 \in 1 .. PayloadLen(r)
      BY <1>6, <1>8
    <2>2. QED BY <1>4, <1>6, <1>7, <2>1
  <1>10. QED BY <1>2, <1>3, <1>5, <1>6, <1>8, <1>9

LEMMA SeqsEqual ==
  ASSUME NEW S, NEW s \in Seq(S), NEW t \in Seq(S), Len(s) = Len(t),
         \A k \in 1 .. Len(s) : s[k] = t[k]
  PROVE  s = t
  OBVIOUS

\* Spells() cell by cell.
LEMMA SpellsCells ==
  ASSUME NEW c \in Seq(AllCells), NEW p \in Int, NEW s \in Seq(AllCells)
  PROVE  (p >= 0 /\ p + Len(s) <= Len(c) /\ SubSeq(c, p + 1, p + Len(s)) = s)
           <=> /\ p >= 0
               /\ p + Len(s) <= Len(c)
               /\ \A k \in 1 .. Len(s) : c[p + k] = s[k]
  <1>1. ASSUME p >= 0, p + Len(s) <= Len(c)
        PROVE  SubSeq(c, p + 1, p + Len(s)) = s
                 <=> \A k \in 1 .. Len(s) : c[p + k] = s[k]
    <2> DEFINE t == SubSeq(c, p + 1, p + Len(s))
    <2>1. t \in Seq(AllCells) /\ Len(t) = Len(s)
      BY <1>1
    <2>2. \A k \in 1 .. Len(s) : t[k] = c[p + k]
      BY <1>1
    <2> HIDE DEF t
    <2>3. (\A k \in 1 .. Len(s) : t[k] = s[k]) => t = s
      BY <2>1, SeqsEqual
    <2>4. QED BY <2>2, <2>3 DEF t
  <1>2. QED BY <1>1

LEMMA WholeFrameCells ==
  ASSUME cells \in Seq(AllCells), NEW p \in Int, NEW r \in Frames
  PROVE  WholeFrameAt(p, r) <=> /\ p >= 0
                                /\ p + FrameSize(r) <= Len(cells)
                                /\ \A k \in 1 .. FrameSize(r) : cells[p + k] = Encode(r)[k]
  <1>1. Encode(r) \in Seq(AllCells) /\ Len(Encode(r)) = FrameSize(r)
    BY EncodeCells
  <1>2. QED BY <1>1, SpellsCells DEF WholeFrameAt, Spells

\* A frame is the same in every state.
LEMMA FrameFixed ==
  ASSUME NEW CONSTANT r
  PROVE  Encode(r)' = Encode(r) /\ FrameSize(r)' = FrameSize(r)
  BY DEF Encode, FrameHeader, Payload, FrameSize, PayloadLen, FrameHeaderSize

LEMMA WholeFrameCellsNext ==
  ASSUME cells' \in Seq(AllCells), NEW CONSTANT p \in Int, NEW CONSTANT r \in Frames
  PROVE  WholeFrameAt(p, r)' <=> /\ p >= 0
                                 /\ p + FrameSize(r) <= Len(cells')
                                 /\ \A k \in 1 .. FrameSize(r) : cells'[p + k] = Encode(r)[k]
  <1>1. Encode(r) \in Seq(AllCells) /\ Len(Encode(r)) = FrameSize(r)
    BY EncodeCells
  <1>2. WholeFrameAt(p, r)' <=> /\ p >= 0
                                /\ p + Len(Encode(r)) <= Len(cells')
                                /\ SubSeq(cells', p + 1, p + Len(Encode(r))) = Encode(r)
    BY FrameFixed DEF WholeFrameAt, Spells
  <1>3. QED BY <1>1, <1>2, SpellsCells

LEMMA WholeFrameStays ==
  ASSUME cells \in Seq(AllCells), cells' \in Seq(AllCells), Len(cells) <= Len(cells'),
         \A k \in 1 .. Len(cells) : cells'[k] = cells[k],
         NEW CONSTANT p \in Int, NEW CONSTANT r \in Frames, WholeFrameAt(p, r)
  PROVE  WholeFrameAt(p, r)'
  <1>1. /\ p >= 0 /\ p + FrameSize(r) <= Len(cells)
        /\ \A k \in 1 .. FrameSize(r) : cells[p + k] = Encode(r)[k]
    BY WholeFrameCells
  <1>2. FrameSize(r) \in 3 .. 4
    BY Sizes
  <1>3. Len(cells) \in Nat /\ Len(cells') \in Nat
    OBVIOUS
  <1>4. \A k \in 1 .. FrameSize(r) : cells'[p + k] = Encode(r)[k]
    BY <1>1, <1>2, <1>3
  <1>5. p + FrameSize(r) <= Len(cells')
    BY <1>1, <1>2, <1>3
  <1>6. QED BY <1>1, <1>4, <1>5, WholeFrameCellsNext

LEMMA CutCells ==
  ASSUME NEW S, NEW s \in Seq(S), NEW n \in 0 .. Len(s)
  PROVE  /\ SubSeq(s, 1, n) \in Seq(S) /\ Len(SubSeq(s, 1, n)) = n
         /\ \A k \in 1 .. n : SubSeq(s, 1, n)[k] = s[k]
  OBVIOUS

LEMMA JoinedCells ==
  ASSUME NEW S, NEW s \in Seq(S), NEW t \in Seq(S)
  PROVE  /\ s \o t \in Seq(S) /\ Len(s \o t) = Len(s) + Len(t)
         /\ Len(s) \in Nat /\ Len(t) \in Nat
         /\ \A k \in 1 .. Len(s) : (s \o t)[k] = s[k]
         /\ \A k \in 1 .. Len(t) : (s \o t)[Len(s) + k] = t[k]
  OBVIOUS

\* A file that grows, and one that is cut.
LEMMA Grown ==
  ASSUME cells \in Seq(AllCells), NEW s \in Seq(AllCells), cells' = cells \o s
  PROVE  /\ cells' \in Seq(AllCells) /\ Len(cells') = Len(cells) + Len(s)
         /\ Len(cells) \in Nat /\ Len(cells') \in Nat
         /\ \A k \in 1 .. Len(cells) : cells'[k] = cells[k]
         /\ \A k \in 1 .. Len(s) : cells'[Len(cells) + k] = s[k]
  <1>1. cells \o s \in Seq(AllCells) /\ Len(cells \o s) = Len(cells) + Len(s)
    OBVIOUS
  <1>2. Len(cells) \in Nat /\ Len(cells \o s) \in Nat
    BY <1>1
  <1>3. \A k \in 1 .. Len(cells) : (cells \o s)[k] = cells[k]
    BY JoinedCells
  <1>4. \A k \in 1 .. Len(s) : (cells \o s)[Len(cells) + k] = s[k]
    BY JoinedCells
  <1>5. QED BY <1>1, <1>2, <1>3, <1>4

LEMMA HeaderIs ==
  /\ HeaderCells \in Seq(AllCells) /\ Len(HeaderCells) = 2
  /\ HeaderCells[1] = <<"H1">> /\ HeaderCells[2] = <<"H2">>
  BY DEF HeaderCells, AllCells

LEMMA OverStartIs ==
  ASSUME cells \in Seq(AllCells), NEW s \in Seq(AllCells)
  PROVE  /\ OverStart(s) \in Seq(AllCells)
         /\ Len(OverStart(s)) >= Len(cells) /\ Len(OverStart(s)) >= Len(s)
         /\ Len(OverStart(s)) <= Len(cells) + Len(s)
         /\ cells = <<>> => OverStart(s) = s
  <1> DEFINE t == SubSeq(cells, Len(s) + 1, Len(cells))
  <1>1. /\ t \in Seq(AllCells) /\ Len(t) <= Len(cells) /\ Len(s) + Len(t) >= Len(cells)
        /\ Len(t) \in Nat /\ Len(s) \in Nat /\ Len(cells) \in Nat
    OBVIOUS
  <1>2. cells = <<>> => t = <<>>
    OBVIOUS
  <1> HIDE DEF t
  <1>3. s \o t \in Seq(AllCells) /\ Len(s \o t) = Len(s) + Len(t)
    BY <1>1
  <1>4. t = <<>> => s \o t = s
    OBVIOUS
  <1>5. QED BY <1>1, <1>2, <1>3, <1>4 DEF OverStart, t

(***************************************************************************)
(* The fields of the log: proofs                                           *)
(***************************************************************************)
LEMMA FieldsInit == Init => FieldsInv
  <1> SUFFICES ASSUME Init PROVE FieldsInv
    OBVIOUS
  <1>1. cells \in Seq(AllCells) /\ Len(cells) \in 0 .. 4
    <2>1. CASE cells = <<>> BY <2>1
    <2>2. ASSUME NEW r \in Frames, cells = Encode(r)
          PROVE  cells \in Seq(AllCells) /\ Len(cells) \in 0 .. 4
      <3>1. Encode(r) \in Seq(AllCells) /\ Len(Encode(r)) = FrameSize(r)
        BY EncodeCells
      <3>2. FrameSize(r) \in 3 .. 4
        BY Sizes
      <3>3. QED BY <2>2, <3>1, <3>2
    <2>3. QED BY <2>1, <2>2 DEF Init
  <1>0. MaxCells \in Nat /\ MaxCells >= 4
    BY LogManagerAssumption
  <1>2. Len(cells) \in 0 .. MaxCells
    <2> DEFINE n == Len(cells)
    <2>1. n \in 0 .. 4
      BY <1>1
    <2> HIDE DEF n
    <2>2. n \in 0 .. MaxCells
      BY <1>0, <2>1
    <2>3. QED BY <2>2 DEF n
  <1>3. TypeOK
    <2>1. /\ durable = Len(cells) /\ pc = "closed" /\ eof_offset = 0
          /\ legacy_wal = FALSE /\ data_start = 0 /\ cursor = 0 /\ last_good = 0
          /\ rec \in Items /\ damage = {} /\ returned = {}
      BY DEF Init, Items
    <2>2. 0 \in 0 .. MaxCells /\ 0 \in 0 .. 0 /\ Len(cells) <= MaxCells
      BY <1>0, <1>2
    <2>3. QED BY <1>2, <2>1, <2>2 DEF TypeOK
  <1>4. QED BY <1>1, <1>2, <1>3 DEF Init, FieldsInv, Appending

\* The steps of open(), which do not write.
LEMMA OpenFields ==
  ASSUME FieldsInv, Open \/ OpenAgain \/ ScanFrame \/ ScanDone
  PROVE  FieldsInv'
  <1> USE LogManagerAssumption DEF FieldsInv, Appending
  <1>0. Len(cells) \in Nat /\ Len(cells) <= MaxCells
    BY DEF TypeOK
  <1>1. CASE Open
    <2>1. IsV2 => Len(cells) >= 2
      BY DEF IsV2, FileHeaderSize
    <2>2. pc' \in {"repair", "failed"} /\ data_start' \in {0, 2} /\ data_start' <= Len(cells)
      BY <1>0, <1>1, <2>1 DEF Open, FileHeaderSize
    <2>3. /\ eof_offset' = Len(cells) /\ cursor' = data_start' /\ last_good' = data_start'
          /\ legacy_wal' \in BOOLEAN
          /\ UNCHANGED <<cells, durable, rec, damage, returned>>
      BY <1>1 DEF Open
    <2>4. TypeOK'
      BY <1>0, <2>2, <2>3 DEF TypeOK, FileHeaderSize
    <2>5. QED BY <1>0, <2>2, <2>3, <2>4
  <1>2. CASE OpenAgain
    BY <1>2 DEF OpenAgain, TypeOK, fields, scan
  <1>3. CASE ScanFrame
    <2>1. UNCHANGED <<cells, durable, fields, rec, damage, returned>> /\ pc = "repair"
      BY <1>3 DEF ScanFrame
    <2>2. CASE pc' = "truncate" /\ UNCHANGED scan
      BY <2>1, <2>2 DEF TypeOK, fields, scan
    <2>3. ASSUME NEW ok, NEW len \in Lengths(cursor),
                 \/ /\ Verdict(ok, len) = "good"
                    /\ last_good' = GoodUpTo(len)
                    /\ cursor' = last_good'
                    /\ UNCHANGED pc
                 \/ /\ Verdict(ok, len) # "good"
                    /\ pc' = Verdict(ok, len)
                    /\ UNCHANGED scan
          PROVE  FieldsInv'
      <3>1. CASE Verdict(ok, len) # "good"
        <4>1. pc' \in {"truncate", "failed"} /\ UNCHANGED scan
          BY <2>3, <3>1 DEF Verdict, VerdictOnCrc
        <4>2. QED BY <2>1, <4>1 DEF TypeOK, fields, scan
      <3>2. CASE Verdict(ok, len) = "good"
        <4>1. len # TooShort /\ len # OverCap /\ ~PastEof(len)
          BY <3>2 DEF Verdict
        <4>2. VerdictOnCrc(len) = "good"
          BY <3>2, <4>1 DEF Verdict
        <4>3. PICK r \in Frames : len = PayloadLen(r)
          BY <4>2 DEF VerdictOnCrc, CrcFits
        <4>4. len \in Nat
          BY <4>3, Sizes
        <4>5. /\ cursor' = cursor + 2 + len /\ last_good' = cursor + 2 + len /\ UNCHANGED pc
              /\ cursor + 2 + len <= eof_offset
          BY <2>3, <3>2, <4>1, <4>4 DEF GoodUpTo, FrameHeaderSize, PastEof, TypeOK
        <4>6. QED BY <1>0, <2>1, <4>4, <4>5 DEF TypeOK, fields
      <3>3. QED BY <3>1, <3>2
    <2>4. QED BY <1>3, <2>2, <2>3 DEF ScanFrame
  <1>4. CASE ScanDone
    BY <1>4 DEF ScanDone, Repaired, TypeOK, fields
  <1>5. QED BY <1>1, <1>2, <1>3, <1>4

LEMMA TruncateFields ==
  ASSUME FieldsInv, Truncate \/ TruncateFails
  PROVE  FieldsInv'
  <1> USE LogManagerAssumption DEF FieldsInv, Appending
  <1>1. CASE Truncate
    <2>1. last_good \in 0 .. Len(cells)
      BY <1>1 DEF Truncate, TypeOK
    <2>2. cells' \in Seq(AllCells) /\ Len(cells') = last_good
      BY <1>1, <2>1, CutCells DEF Truncate
    <2>3. QED BY <1>1, <2>1, <2>2 DEF Truncate, Repaired, TypeOK
  <1>2. CASE TruncateFails
    BY <1>2 DEF TruncateFails, TypeOK, fields, scan
  <1>3. QED BY <1>1, <1>2

LEMMA AppendFields ==
  ASSUME FieldsInv,
         \/ \E r \in Frames : AppendStart(r)
         \/ WriteFileHeader \/ AppendRejected \/ WriteFrameHeader \/ WritePayload
  PROVE  FieldsInv'
  <1> USE LogManagerAssumption DEF FieldsInv, Appending
  <1>0. Len(cells) \in Nat /\ Len(cells) <= MaxCells
    BY DEF TypeOK
  <1>s. PayloadLen(rec) \in 1 .. 2 /\ FrameSize(rec) = 2 + PayloadLen(rec)
    BY Sizes
  <1>1. ASSUME NEW r \in Frames, AppendStart(r) PROVE FieldsInv'
    <2>1. PayloadLen(r) \in 1 .. 2 /\ FrameSize(r) = 2 + PayloadLen(r)
      BY Sizes
    <2>2. rec' = r /\ rec' \in Items
      BY <1>1 DEF AppendStart, Items
    <2>3. QED BY <1>0, <1>1, <2>1, <2>2 DEF AppendStart, NeedsHeader, TypeOK, fields, scan, FileHeaderSize
  <1>2. CASE WriteFileHeader
    <2>1. cells' \in Seq(AllCells) /\ Len(cells') >= 2 /\ Len(cells') <= Len(cells) + 2
      BY <1>2, HeaderIs, OverStartIs DEF WriteFileHeader
    <2>2. Len(cells') \in Nat
      BY <2>1
    <2>3. pc = "file_header" /\ pc' = "frame_header" /\ eof_offset' = 2 /\ data_start' = 2
          /\ UNCHANGED <<durable, legacy_wal, scan, rec, damage, returned>>
      BY <1>2 DEF WriteFileHeader, FileHeaderSize
    <2>4. Len(cells') + FrameSize(rec) <= MaxCells /\ FrameSize(rec)' = FrameSize(rec)
      BY <1>0, <1>s, <2>1, <2>2, <2>3 DEF FileHeaderSize, FrameSize, PayloadLen
    <2>5. TypeOK'
      BY <1>s, <2>2, <2>3, <2>4, <2>1 DEF TypeOK, scan, FileHeaderSize
    <2>6. QED BY <2>1, <2>3, <2>4, <2>5
  <1>3. CASE AppendRejected
    BY <1>3 DEF AppendRejected, TypeOK, fields, scan, Items
  <1>4. CASE WriteFrameHeader
    <2>1. cells' \in Seq(AllCells) /\ Len(cells') = Len(cells) + 2
      BY <1>4, FrameCells, Grown DEF WriteFrameHeader
    <2>2. QED BY <1>0, <1>4, <1>s, <2>1 DEF WriteFrameHeader, TypeOK, fields, scan, FrameHeaderSize,
                    FrameSize, PayloadLen
  <1>5. CASE WritePayload
    <2>1. cells' \in Seq(AllCells) /\ Len(cells') = Len(cells) + PayloadLen(rec)
      BY <1>5, FrameCells, Grown DEF WritePayload
    <2>2. /\ pc = "payload" /\ pc' = "ready" /\ rec' = FileHeader /\ rec \in Frames
          /\ eof_offset' = eof_offset + 2 + PayloadLen(rec)
          /\ returned' = returned \cup {[off |-> eof_offset, rec |-> rec]}
          /\ UNCHANGED <<durable, legacy_wal, data_start, scan, damage>>
      BY <1>5, <1>s DEF WritePayload, EofAfterAppend, TypeOK
    <2>3. eof_offset' <= Len(cells') /\ Len(cells') <= MaxCells /\ eof_offset' \in 0 .. MaxCells
      BY <1>0, <1>s, <2>1, <2>2 DEF FrameHeaderSize, TypeOK
    <2>4. TypeOK'
      BY <2>2, <2>3 DEF TypeOK, scan, Items
    <2>5. QED BY <2>1, <2>2, <2>3, <2>4
  <1>6. QED BY <1>1, <1>2, <1>3, <1>4, <1>5

LEMMA WriteFailsFields ==
  ASSUME FieldsInv, WriteFails
  PROVE  FieldsInv'
  <1> USE LogManagerAssumption DEF FieldsInv, Appending
  <1>0. Len(cells) \in Nat /\ Len(cells) <= MaxCells
    BY DEF TypeOK
  <1>s. PayloadLen(rec) \in 1 .. 2 /\ FrameSize(rec) = 2 + PayloadLen(rec)
    BY Sizes
  <1>1. /\ cells' \in Seq(AllCells) /\ Len(cells') \in Nat
        /\ Len(cells') >= Len(cells) /\ Len(cells') <= MaxCells
    <2>1. ASSUME pc = "file_header", NEW n \in 0 .. 1,
                 cells' = OverStart(SubSeq(HeaderCells, 1, n))
          PROVE  /\ cells' \in Seq(AllCells) /\ Len(cells') \in Nat
                 /\ Len(cells') >= Len(cells) /\ Len(cells') <= MaxCells
      <3>1. SubSeq(HeaderCells, 1, n) \in Seq(AllCells) /\ Len(SubSeq(HeaderCells, 1, n)) = n
        BY HeaderIs, CutCells
      <3>2. /\ OverStart(SubSeq(HeaderCells, 1, n)) \in Seq(AllCells)
            /\ Len(OverStart(SubSeq(HeaderCells, 1, n))) >= Len(cells)
            /\ Len(OverStart(SubSeq(HeaderCells, 1, n))) <= Len(cells) + n
        BY <3>1, OverStartIs
      <3>3. Len(cells') \in Nat
        BY <2>1, <3>2
      <3>4. QED BY <1>0, <1>s, <2>1, <3>2, <3>3 DEF FileHeaderSize
    <2>2. ASSUME NEW s \in Seq(AllCells), NEW n \in 0 .. Len(s), cells' = cells \o SubSeq(s, 1, n),
                 Len(cells) + Len(s) <= MaxCells
          PROVE  /\ cells' \in Seq(AllCells) /\ Len(cells') \in Nat
                 /\ Len(cells') >= Len(cells) /\ Len(cells') <= MaxCells
      <3>1. SubSeq(s, 1, n) \in Seq(AllCells) /\ Len(SubSeq(s, 1, n)) = n
        BY CutCells
      <3>2. cells' \in Seq(AllCells) /\ Len(cells') = Len(cells) + n
        BY <2>2, <3>1, Grown
      <3>3. Len(s) \in Nat
        OBVIOUS
      <3>4. QED BY <1>0, <2>2, <3>2, <3>3
    <2>3. CASE pc = "file_header"
      <3>1. PICK n \in 0 .. 1 : cells' = OverStart(SubSeq(HeaderCells, 1, n))
        BY <2>3 DEF WriteFails, FileHeaderSize
      <3>2. QED BY <2>1, <2>3, <3>1
    <2>4. CASE pc = "frame_header"
      <3>1. PICK n \in 0 .. 1 : cells' = cells \o SubSeq(FrameHeader(rec), 1, n)
        BY <2>4 DEF WriteFails, FrameHeaderSize
      <3>2. FrameHeader(rec) \in Seq(AllCells) /\ Len(FrameHeader(rec)) = 2
        BY <2>4, FrameCells
      <3>3. Len(cells) + 2 <= MaxCells
        BY <1>0, <1>s, <2>4
      <3>4. n \in 0 .. Len(FrameHeader(rec)) /\ Len(cells) + Len(FrameHeader(rec)) <= MaxCells
        BY <3>2, <3>3
      <3>5. QED BY <2>2, <3>1, <3>2, <3>4
    <2>5. CASE pc = "payload"
      <3>1. PICK n \in 0 .. PayloadLen(rec) - 1 : cells' = cells \o SubSeq(Payload(rec), 1, n)
        BY <2>5 DEF WriteFails
      <3>2. Payload(rec) \in Seq(AllCells) /\ Len(Payload(rec)) = PayloadLen(rec)
        BY <2>5, FrameCells
      <3>3. n \in 0 .. Len(Payload(rec))
        BY <1>s, <3>2
      <3>4. Len(cells) + Len(Payload(rec)) <= MaxCells
        BY <2>5, <3>2
      <3>5. QED BY <2>2, <3>1, <3>2, <3>3, <3>4
    <2>6. QED BY <2>3, <2>4, <2>5 DEF WriteFails
  <1>2. QED BY <1>0, <1>1 DEF WriteFails, TypeOK, fields, scan, Items

LEMMA CrashFields ==
  ASSUME FieldsInv, Sync \/ Kill \/ PowerLoss \/ \E p \in 1 .. Len(cells) : Rot(p)
  PROVE  FieldsInv'
  <1> USE LogManagerAssumption DEF FieldsInv, Appending
  <1>0. Len(cells) \in Nat /\ Len(cells) <= MaxCells
    BY DEF TypeOK
  <1>1. CASE Sync
    BY <1>0, <1>1 DEF Sync, TypeOK, fields, scan
  <1>g. ASSUME Gone, UNCHANGED <<durable, damage>>, cells' \in Seq(AllCells),
               Len(cells') <= Len(cells)
        PROVE  FieldsInv'
    <2>1. /\ pc' = "closed" /\ eof_offset' = 0 /\ legacy_wal' = FALSE /\ data_start' = 0
          /\ cursor' = 0 /\ last_good' = 0 /\ rec' \in Items /\ returned' = {}
      BY <1>g DEF Gone, Items
    <2>2. Len(cells') \in Nat
      BY <1>g
    <2>z. 0 \in 0 .. MaxCells /\ 0 \in 0 .. 0 /\ Len(cells') <= MaxCells
      BY <1>0, <1>g, <2>2
    <2>3. TypeOK'
      BY <1>g, <2>1, <2>z DEF TypeOK
    <2>4. QED BY <1>g, <2>1, <2>2, <2>3
  <1>2. CASE Kill
    BY <1>0, <1>2, <1>g DEF Kill
  <1>3. CASE PowerLoss
    <2>1. PICK n \in 0 .. Len(cells) : cells' = SubSeq(cells, 1, n)
      BY <1>3 DEF PowerLoss, TypeOK
    <2>2. cells' \in Seq(AllCells) /\ Len(cells') = n
      BY <2>1, CutCells
    <2>3. QED BY <1>3, <1>g, <2>1, <2>2 DEF PowerLoss
  <1>4. ASSUME NEW p \in 1 .. Len(cells), Rot(p) PROVE FieldsInv'
    <2>1. cells' \in Seq(AllCells) /\ Len(cells') = Len(cells)
      <3>1. Rotten \in AllCells
        BY DEF AllCells
      <3>2. cells' = [cells EXCEPT ![p] = Rotten]
        BY <1>4 DEF Rot
      <3>3. QED BY <3>1, <3>2
    <2>2. QED BY <1>0, <1>4, <2>1 DEF Rot, TypeOK, fields, scan
  <1>5. QED BY <1>1, <1>2, <1>3, <1>4

LEMMA FieldsNext ==
  ASSUME FieldsInv, [Next]_vars
  PROVE  FieldsInv'
  <1>1. CASE UNCHANGED vars
    BY <1>1 DEF vars, fields, scan, FieldsInv, TypeOK, FrameSize, PayloadLen
  <1>2. CASE Next
    BY <1>2, OpenFields, TruncateFields, AppendFields, WriteFailsFields, CrashFields
    DEF Next, RepairStep
  <1>3. QED BY <1>1, <1>2

\* The fields of the log keep their types and stay within the bounds, whatever
\* fails: in particular eof_offset never passes the end of the file.
THEOREM LogTypes == Spec => []TypeOK
  <1>1. FieldsInv => TypeOK
    BY DEF FieldsInv
  <1>2. QED BY <1>1, FieldsInit, FieldsNext, PTL DEF Spec

(***************************************************************************)
(* The offsets that append() returns: proofs                               *)
(***************************************************************************)
LEMMA OffsetsInit == Init => OffsetsInv
  <1> SUFFICES ASSUME Init PROVE Tracked
    BY DEF OffsetsInv
  <1>1. pc = "closed" /\ returned = {} /\ data_start = 0 /\ eof_offset = 0
    BY DEF Init
  <1>2. QED BY <1>1 DEF Tracked

\* The steps that hand out no offset and find none handed out.
LEMMA NoneReturned ==
  ASSUME pc' \in {"closed", "repair", "truncate", "failed", "ready", "file_header",
                  "frame_header"},
         pc' \in {"failed", "ready", "file_header", "frame_header"} => eof_offset' = Len(cells'),
         data_start' <= eof_offset',
         pc' \in {"repair", "truncate"} => data_start' <= cursor',
         returned' = {}
  PROVE  Tracked'
  BY DEF Tracked

LEMMA OpenOffsets ==
  ASSUME FieldsInv, Tracked, FieldsInv', Open \/ OpenAgain \/ ScanFrame \/ ScanDone \/ Truncate
  PROVE  Tracked'
  <1>0. Len(cells) \in Nat /\ data_start \in {0, 2} /\ cursor \in Nat /\ eof_offset \in Nat
    BY DEF FieldsInv, TypeOK, FileHeaderSize
  <1>1. CASE Open
    <2>1. IsV2 => Len(cells) >= 2
      BY DEF IsV2, FileHeaderSize
    <2>2. pc' \in {"repair", "failed"} /\ data_start' \in {0, 2} /\ data_start' <= Len(cells)
      BY <1>0, <1>1, <2>1 DEF Open, FileHeaderSize
    <2>3. /\ eof_offset' = Len(cells) /\ cursor' = data_start' /\ UNCHANGED cells
          /\ returned' = {}
      BY <1>1 DEF Open, Tracked
    <2>4. QED BY <1>0, <2>2, <2>3, NoneReturned
  <1>2. CASE OpenAgain
    <2>1. pc' = "ready" /\ UNCHANGED <<cells, eof_offset, data_start>> /\ returned' = {}
          /\ eof_offset = Len(cells) /\ data_start <= eof_offset
      BY <1>2 DEF OpenAgain, Tracked, fields
    <2>2. QED BY <2>1, NoneReturned
  <1>3. CASE ScanFrame
    <2>1. /\ pc = "repair" /\ UNCHANGED <<cells, eof_offset, data_start>> /\ returned' = {}
          /\ eof_offset = Len(cells) /\ data_start <= eof_offset /\ data_start <= cursor
      BY <1>3 DEF ScanFrame, Tracked, fields, FieldsInv
    <2>2. pc' \in {"repair", "truncate", "failed"}
      BY <1>3 DEF ScanFrame, Verdict, VerdictOnCrc
    <2>3. cursor' >= cursor
      <3>1. CASE UNCHANGED cursor BY <1>0, <3>1
      <3>2. ASSUME NEW ok, NEW len, Verdict(ok, len) = "good", cursor' = GoodUpTo(len)
            PROVE  cursor' >= cursor
        <4>1. \E r \in Frames : len = PayloadLen(r)
          BY <3>2 DEF Verdict, VerdictOnCrc, CrcFits
        <4>2. len \in Nat
          BY <4>1, Sizes
        <4>3. QED BY <1>0, <3>2, <4>2 DEF GoodUpTo, FrameHeaderSize
      <3>3. QED BY <1>3, <3>1, <3>2 DEF ScanFrame, scan
    <2>4. cursor' \in Nat
      BY DEF FieldsInv, TypeOK
    <2>5. data_start' <= cursor'
      BY <1>0, <2>1, <2>3, <2>4
    <2>6. QED BY <2>1, <2>2, <2>5, NoneReturned
  <1>4. CASE ScanDone
    <2>1. /\ pc = "repair" /\ pc' = "ready" /\ UNCHANGED <<cells, eof_offset, data_start>>
          /\ returned' = {} /\ eof_offset = Len(cells) /\ data_start <= eof_offset
      BY <1>4 DEF ScanDone, Repaired, Tracked, fields, FieldsInv
    <2>2. QED BY <2>1, NoneReturned
  <1>5. CASE Truncate
    <2>1. /\ pc = "truncate" /\ pc' = "ready" /\ UNCHANGED data_start
          /\ eof_offset' = cursor /\ cells' = SubSeq(cells, 1, cursor)
          /\ cursor \in 0 .. Len(cells)
          /\ returned' = {} /\ data_start <= cursor
      BY <1>0, <1>5 DEF Truncate, Repaired, Tracked, FieldsInv
    <2>2. Len(cells') = cursor
      BY <2>1, CutCells DEF FieldsInv
    <2>3. QED BY <2>1, <2>2, NoneReturned
  <1>6. QED BY <1>1, <1>2, <1>3, <1>4, <1>5

LEMMA AppendOffsets ==
  ASSUME FieldsInv, Tracked, FieldsInv',
         \/ \E r \in Frames : AppendStart(r)
         \/ WriteFileHeader \/ AppendRejected \/ WriteFrameHeader \/ WritePayload
  PROVE  Tracked'
  <1>0. Len(cells) \in Nat /\ data_start \in {0, 2} /\ eof_offset \in Nat
    BY DEF FieldsInv, TypeOK, FileHeaderSize
  <1>o. \A e \in returned : e.off \in Nat /\ e.rec \in Frames
    BY DEF FieldsInv, TypeOK
  <1>1. ASSUME NEW r \in Frames, AppendStart(r) PROVE Tracked'
    BY <1>1 DEF AppendStart, Tracked, fields, scan, WholeFrameAt, Spells, FrameSize, PayloadLen,
                Encode, FrameHeader, Payload
  <1>2. CASE WriteFileHeader
    <2>1. /\ pc = "file_header" /\ pc' = "frame_header" /\ eof_offset' = 2 /\ data_start' = 2
          /\ UNCHANGED returned /\ eof_offset = 0 /\ Len(cells) = 0
      BY <1>2 DEF WriteFileHeader, FileHeaderSize, FieldsInv, Tracked
    <2>2. cells = <<>>
      BY <2>1 DEF FieldsInv
    <2>3. Len(cells') = 2
      BY <1>2, <2>2, HeaderIs, OverStartIs DEF WriteFileHeader, FieldsInv
    <2>4. returned = {}
      <3>1. ASSUME NEW e \in returned PROVE FALSE
        <4>1. e.off \in Nat /\ e.off + FrameSize(e.rec) <= 0
          BY <1>o, <2>1 DEF Tracked
        <4>2. FrameSize(e.rec) \in 3 .. 4
          BY Sizes
        <4>3. QED BY <4>1, <4>2
      <3>2. QED BY <3>1
    <2>5. QED BY <2>1, <2>3, <2>4, NoneReturned
  <1>3. CASE AppendRejected
    BY <1>3 DEF AppendRejected, Tracked, fields, scan, WholeFrameAt, Spells, FrameSize, PayloadLen,
                Encode, FrameHeader, Payload
  <1>k. ASSUME NEW s \in Seq(AllCells), cells' = cells \o s, NEW CONSTANT e, e \in returned,
               eof_offset' \in Nat, eof_offset <= eof_offset', UNCHANGED data_start
        PROVE  /\ e.rec \in Frames
               /\ e.off >= data_start'
               /\ e.off + FrameSize(e.rec) <= eof_offset'
               /\ WholeFrameAt(e.off, e.rec)'
    <2>1. /\ e.rec \in Frames /\ e.off \in Nat
          /\ e.off >= data_start
          /\ e.off + FrameSize(e.rec) <= eof_offset
          /\ WholeFrameAt(e.off, e.rec)
      BY <1>k, <1>o DEF Tracked
    <2>2. FrameSize(e.rec) \in 3 .. 4
      BY Sizes
    <2>3. /\ cells' \in Seq(AllCells) /\ Len(cells) <= Len(cells')
          /\ \A k \in 1 .. Len(cells) : cells'[k] = cells[k]
      BY <1>0, <1>k, Grown DEF FieldsInv
    <2>4. WholeFrameAt(e.off, e.rec)'
      BY <2>1, <2>3, WholeFrameStays DEF FieldsInv
    <2>5. QED BY <1>0, <1>k, <2>1, <2>2, <2>4
  <1>4. CASE WriteFrameHeader
    <2>1. /\ pc = "frame_header" /\ pc' = "payload" /\ rec \in Frames
          /\ UNCHANGED <<eof_offset, data_start, rec, returned>>
          /\ cells' = cells \o FrameHeader(rec) /\ eof_offset = Len(cells)
      BY <1>4 DEF WriteFrameHeader, Tracked, fields, FieldsInv, Appending
    <2>2. /\ FrameHeader(rec) \in Seq(AllCells) /\ Len(FrameHeader(rec)) = 2
          /\ FrameHeader(rec)[1] = F1(rec) /\ FrameHeader(rec)[2] = F2(PayloadLen(rec))
      BY <2>1, FrameCells
    <2>3. /\ Len(cells') = eof_offset + 2
          /\ cells'[eof_offset + 1] = F1(rec)
          /\ cells'[eof_offset + 2] = F2(PayloadLen(rec))
      <3>1. cells \in Seq(AllCells)
        BY DEF FieldsInv
      <3>2. /\ Len(cells') = Len(cells) + 2
            /\ \A k \in 1 .. 2 : cells'[Len(cells) + k] = FrameHeader(rec)[k]
        BY <2>1, <2>2, <3>1, Grown
      <3>3. QED BY <2>1, <2>2, <3>2
    <2>4. ASSUME NEW CONSTANT e, e \in returned
          PROVE  /\ e.rec \in Frames
                 /\ e.off >= data_start'
                 /\ e.off + FrameSize(e.rec) <= eof_offset'
                 /\ WholeFrameAt(e.off, e.rec)'
      <3>1. PICK h \in Seq(AllCells) : cells' = cells \o h
        BY <2>1, <2>2
      <3>2. eof_offset' \in Nat /\ eof_offset <= eof_offset' /\ UNCHANGED data_start
        BY <1>0, <2>1
      <3>3. QED BY <1>k, <2>4, <3>1, <3>2
    <2>5. F1(rec)' = F1(rec) /\ F2(PayloadLen(rec))' = F2(PayloadLen(rec))
      BY <2>1 DEF F1, F2, PayloadLen
    <2>6. QED
      BY <1>0, <2>1, <2>3, <2>4, <2>5 DEF Tracked, FrameSize, PayloadLen, FrameHeaderSize
  <1>5. CASE WritePayload
    <2> DEFINE r == rec
               o == eof_offset
    <2>1. /\ pc = "payload" /\ pc' = "ready" /\ r \in Frames
          /\ UNCHANGED data_start /\ eof_offset' = o + FrameSize(r)
          /\ returned' = returned \cup {[off |-> o, rec |-> r]}
          /\ cells' = cells \o Payload(r) /\ Len(cells) = o + 2
          /\ cells[o + 1] = F1(r) /\ cells[o + 2] = F2(PayloadLen(r))
      BY <1>5 DEF WritePayload, EofAfterAppend, Tracked, FieldsInv, Appending, FrameHeaderSize
    <2>2. /\ Payload(r) \in Seq(AllCells) /\ Len(Payload(r)) = PayloadLen(r)
          /\ \A i \in 1 .. PayloadLen(r) : Payload(r)[i] = B(r, i)
      BY <2>1, FrameCells
    <2>3. /\ cells' \in Seq(AllCells) /\ Len(cells') = Len(cells) + PayloadLen(r)
          /\ \A k \in 1 .. Len(cells) : cells'[k] = cells[k]
          /\ \A k \in 1 .. PayloadLen(r) : cells'[Len(cells) + k] = Payload(r)[k]
      BY <2>1, <2>2, Grown DEF FieldsInv
    <2>4. PayloadLen(r) \in 1 .. 2 /\ FrameSize(r) = 2 + PayloadLen(r)
      BY Sizes
    <2>5. Len(cells') = eof_offset' /\ eof_offset' \in Nat /\ o <= eof_offset'
      BY <1>0, <2>1, <2>3, <2>4
    <2>6. /\ Encode(r)[1] = F1(r) /\ Encode(r)[2] = F2(PayloadLen(r))
          /\ \A k \in 3 .. FrameSize(r) : Encode(r)[k] = B(r, k - 2)
      BY <2>1, EncodeCells
    <2>7. \A k \in 1 .. FrameSize(r) : cells'[o + k] = Encode(r)[k]
      <3> SUFFICES ASSUME NEW k \in 1 .. FrameSize(r) PROVE cells'[o + k] = Encode(r)[k]
        OBVIOUS
      <3>1. CASE k = 1 BY <1>0, <2>1, <2>3, <2>6, <3>1
      <3>2. CASE k = 2 BY <1>0, <2>1, <2>3, <2>6, <3>2
      <3>3. CASE k >= 3
        <4>1. k - 2 \in 1 .. PayloadLen(r) /\ k \in 3 .. FrameSize(r)
          BY <2>4, <3>3
        <4>2. o + k = Len(cells) + (k - 2)
          BY <1>0, <2>1, <2>4
        <4>3. QED BY <2>2, <2>3, <2>6, <4>1, <4>2
      <3>4. QED BY <2>4, <3>1, <3>2, <3>3
    <2>8. ASSUME NEW CONSTANT q, NEW CONSTANT x, q = r, x = o
          PROVE  WholeFrameAt(x, q)'
      <3>1. q \in Frames /\ x \in Int /\ x >= 0
        BY <1>0, <2>1, <2>8
      <3>2. x + FrameSize(q) <= Len(cells')
        BY <1>0, <2>1, <2>5, <2>8
      <3>3. \A k \in 1 .. FrameSize(q) : cells'[x + k] = Encode(q)[k]
        BY <2>7, <2>8
      <3>4. cells' \in Seq(AllCells)
        BY <2>3
      <3>5. QED BY <3>1, <3>2, <3>3, <3>4, WholeFrameCellsNext
    <2>9. ASSUME NEW CONSTANT e, e \in returned'
          PROVE  /\ e.rec \in Frames
                 /\ e.off >= data_start'
                 /\ e.off + FrameSize(e.rec) <= eof_offset'
                 /\ WholeFrameAt(e.off, e.rec)'
      <3>1. CASE e \in returned
        BY <1>0, <1>k, <2>1, <2>2, <2>5, <3>1
      <3>2. CASE e = [off |-> o, rec |-> r]
        <4>1. e.off = o /\ e.rec = r
          BY <3>2
        <4>2. WholeFrameAt(e.off, e.rec)'
          BY <2>8, <4>1
        <4>3. o >= data_start'
          BY <2>1, <1>0 DEF Tracked
        <4>4. QED BY <1>0, <2>1, <2>4, <4>1, <4>2, <4>3
      <3>3. QED BY <2>1, <2>9, <3>1, <3>2
    <2>10. data_start' <= eof_offset'
      BY <1>0, <2>1, <2>5 DEF Tracked
    <2>11. QED BY <2>1, <2>5, <2>9, <2>10 DEF Tracked, FrameSize, PayloadLen, FrameHeaderSize
  <1>6. QED BY <1>1, <1>2, <1>3, <1>4, <1>5

LEMMA CrashOffsets ==
  ASSUME FieldsInv, Tracked, Sync \/ Kill \/ PowerLoss \/ \E p \in 1 .. Len(cells) : Rot(p)
  PROVE  Tracked'
  <1>1. CASE Sync
    BY <1>1 DEF Sync, Tracked, fields, scan, WholeFrameAt, Spells, FrameSize, PayloadLen,
                Encode, FrameHeader, Payload
  <1>2. CASE Kill \/ PowerLoss
    <2>1. pc' = "closed" /\ eof_offset' = 0 /\ data_start' = 0 /\ returned' = {}
      BY <1>2 DEF Kill, PowerLoss, Gone
    <2>2. QED BY <2>1, NoneReturned
  <1>3. ASSUME NEW p \in 1 .. Len(cells), Rot(p) PROVE Tracked'
    <2>1. /\ pc' = "closed" /\ returned' = {} /\ data_start <= eof_offset
          /\ UNCHANGED <<data_start, eof_offset>>
      BY <1>3 DEF Rot, Tracked, fields
    <2>2. QED BY <2>1, NoneReturned
  <1>4. QED BY <1>1, <1>2, <1>3

LEMMA OffsetsNext ==
  ASSUME FieldsInv, OffsetsInv, FieldsInv', [Next]_vars
  PROVE  OffsetsInv'
  <1> SUFFICES ASSUME "W" \notin damage' PROVE Tracked'
    BY DEF OffsetsInv
  <1>1. "W" \notin damage /\ ~TruncateFails /\ ~WriteFails
    BY DEF vars, Next, Open, OpenAgain, RepairStep, ScanFrame, ScanDone, Truncate, TruncateFails,
           AppendStart, WriteFileHeader, AppendRejected, WriteFrameHeader, WritePayload,
           WriteFails, Sync, Kill, PowerLoss, Rot
  <1>2. Tracked
    BY <1>1 DEF OffsetsInv
  <1>3. CASE UNCHANGED vars
    BY <1>2, <1>3 DEF vars, Tracked, fields, scan, WholeFrameAt, Spells, FrameSize, PayloadLen,
                Encode, FrameHeader, Payload
  <1>4. CASE Next
    BY <1>1, <1>2, <1>4, OpenOffsets, AppendOffsets, CrashOffsets DEF Next, RepairStep
  <1>5. QED BY <1>3, <1>4

LEMMA NoWriteFailed == (~WriteMayFail /\ Spec) => []("W" \notin damage)
  <1> SUFFICES ASSUME ~WriteMayFail PROVE Spec => []("W" \notin damage)
    OBVIOUS
  <1>1. Init => "W" \notin damage
    BY DEF Init
  <1>2. ("W" \notin damage /\ [Next]_vars) => ("W" \notin damage)'
    BY LogManagerAssumption
    DEF vars, Next, Open, OpenAgain, RepairStep, ScanFrame, ScanDone, Truncate, TruncateFails,
        AppendStart, WriteFileHeader, AppendRejected, WriteFrameHeader, WritePayload,
        WriteFails, Sync, Kill, PowerLoss, Rot
  <1>3. QED BY <1>1, <1>2, PTL DEF Spec

\* While writes do not fail, each append() returns the offset of the frame it
\* wrote, and later appends leave the frame where it is: for files of any
\* length, over any crash, torn tail, repair and rotten cell of an earlier
\* session, and also when open() is called again after it failed.
THEOREM OffsetsAreFrames == ~WriteMayFail => (Spec => []AppendReturnsFrameOffset)
  <1> SUFFICES ASSUME ~WriteMayFail PROVE Spec => []AppendReturnsFrameOffset
    OBVIOUS
  <1>1. ("W" \notin damage /\ OffsetsInv) => AppendReturnsFrameOffset
    BY DEF OffsetsInv, Tracked, AppendReturnsFrameOffset
  <1>2. Spec => []("W" \notin damage)
    BY NoWriteFailed
  <1>3. Spec => []OffsetsInv
    BY FieldsInit, FieldsNext, OffsetsInit, OffsetsNext, PTL DEF Spec
  <1>4. QED BY <1>1, <1>2, <1>3, PTL

(***************************************************************************)
(* What the repair cuts off: proofs                                        *)
(***************************************************************************)

\* F1 is the first cell of a frame and no other.
LEMMA OnlyFirst ==
  ASSUME NEW r \in Frames, NEW s \in Frames, NEW k \in 2 .. FrameSize(r)
  PROVE  Encode(r)[k] # F1(s) /\ Rotten # F1(s) /\ Encode(r)[k] # Rotten
  <1>1. /\ F1(s)[1] = "F1" /\ Rotten[1] = "X" /\ F2(PayloadLen(r))[1] = "F2"
        /\ B(r, k - 2)[1] = "B"
    BY DEF F1, F2, B, Rotten
  <1>2. Encode(r)[k] = F2(PayloadLen(r)) \/ Encode(r)[k] = B(r, k - 2)
    <2>1. FrameSize(r) \in 3 .. 4
      BY Sizes
    <2>2. k = 2 \/ k \in 3 .. FrameSize(r)
      BY <2>1
    <2>3. QED BY <2>2, EncodeCells
  <1>3. QED BY <1>1, <1>2

LEMMA FirstNamesFrame ==
  ASSUME NEW r \in Frames, NEW s \in Frames
  PROVE  /\ F1(r) = F1(s) => r = s
         /\ F1(r) # <<"H1">> /\ F1(r) # <<"H2">> /\ F1(r) # Rotten
         /\ <<"H1">> # Rotten /\ <<"H2">> # Rotten /\ <<"H1">> # <<"H2">>
  <1>1. F1(r)[2] = r /\ F1(s)[2] = s /\ F1(r)[1] = "F1"
    BY DEF F1
  <1>2. <<"H1">>[1] = "H1" /\ <<"H2">>[1] = "H2" /\ Rotten[1] = "X"
    BY DEF Rotten
  <1>3. QED BY <1>1, <1>2

\* A file cut short.
LEMMA CutGrammar ==
  ASSUME NEW c \in Seq(AllCells), NEW d \in Seq(AllCells), Len(d) <= Len(c),
         \A k \in 1 .. Len(d) : d[k] = c[k], Grammar(c)
  PROVE  /\ Grammar(d)
         /\ WholeUpTo(c, Len(d)) => WholeUpTo(d, Len(d))
  <1>0. Len(c) \in Nat /\ Len(d) \in Nat
    OBVIOUS
  <1>1. ASSUME NEW p \in 1 .. Len(d) + 1 PROVE Intact(d, p) <=> Intact(c, p)
    BY <1>0 DEF Intact
  <1>2. ASSUME NEW p \in 1 .. Len(d) PROVE StartsFrame(d, p) <=> StartsFrame(c, p)
    BY DEF StartsFrame
  <1>3. ASSUME NEW p \in 1 .. Len(d), NEW r \in Frames, FrameStart(d, p, r)
        PROVE  FrameStart(c, p, r) /\ FrameGrammar(d, p, r)
    <2>0. p \in 1 .. Len(c) /\ p \in 1 .. Len(d) + 1
      BY <1>0
    <2>1. FrameStart(c, p, r)
      BY <1>1, <1>3, <2>0 DEF FrameStart
    <2>2. FrameGrammar(c, p, r)
      BY <2>0, <2>1 DEF Grammar
    <2>3. FrameSize(r) \in 3 .. 4
      BY Sizes
    <2>4. ASSUME NEW k \in 1 .. FrameSize(r), p + k - 1 <= Len(d)
          PROVE  d[p + k - 1] = Encode(r)[k] \/ (k > 2 /\ d[p + k - 1] = Rotten)
      <3>1. p + k - 1 \in 1 .. Len(d) /\ p + k - 1 <= Len(c)
        BY <1>0, <2>3, <2>4
      <3>2. QED BY <2>2, <3>1 DEF FrameGrammar
    <2>5. ASSUME p + FrameSize(r) <= Len(d), Intact(d, p + FrameSize(r))
          PROVE  StartsFrame(d, p + FrameSize(r))
      <3>1. p + FrameSize(r) \in 1 .. Len(d) /\ p + FrameSize(r) \in 1 .. Len(d) + 1
            /\ p + FrameSize(r) <= Len(c)
        BY <1>0, <2>3, <2>5
      <3>2. Intact(c, p + FrameSize(r))
        BY <1>1, <2>5, <3>1
      <3>3. StartsFrame(c, p + FrameSize(r))
        BY <2>2, <3>1, <3>2 DEF FrameGrammar
      <3>4. QED BY <1>2, <3>1, <3>3
    <2>6. QED BY <2>1, <2>4, <2>5 DEF FrameGrammar
  <1>4. /\ Len(d) >= 1 => (d[1] = <<"H1">> \/ StartsFrame(d, 1))
        /\ (Len(d) >= 2 /\ d[1] = <<"H1">>) => d[2] = <<"H2">>
        /\ (Len(d) >= 3 /\ d[1] = <<"H1">>) => StartsFrame(d, 3)
    BY <1>0, <1>2 DEF Grammar
  <1>5. Grammar(d)
    BY <1>3, <1>4 DEF Grammar
  <1>6. WholeUpTo(c, Len(d)) => WholeUpTo(d, Len(d))
    BY <1>0, <1>3 DEF WholeUpTo
  <1>7. QED BY <1>5, <1>6

\* What a file that grows by s keeps of its old cells.
LEMMA GrownKeeps ==
  ASSUME NEW c \in Seq(AllCells), NEW d \in Seq(AllCells), Len(c) <= Len(d),
         \A k \in 1 .. Len(c) : d[k] = c[k], Grammar(c),
         NEW p \in 1 .. Len(c), NEW r \in Frames, FrameStart(d, p, r)
  PROVE  /\ FrameStart(c, p, r)
         /\ p + FrameSize(r) - 1 <= Len(c) =>
              /\ \A k \in 1 .. FrameSize(r) :
                   d[p + k - 1] = Encode(r)[k] \/ (k > 2 /\ d[p + k - 1] = Rotten)
              /\ (p + FrameSize(r) <= Len(c) /\ Intact(d, p + FrameSize(r))) =>
                   StartsFrame(d, p + FrameSize(r))
  <1>0. Len(c) \in Nat /\ Len(d) \in Nat /\ FrameSize(r) \in 3 .. 4
    BY Sizes
  <1>1. ASSUME NEW q \in 1 .. Len(c) + 1, Intact(d, q) PROVE Intact(c, q)
    BY <1>0, <1>1 DEF Intact
  <1>2. FrameStart(c, p, r)
    BY <1>0, <1>1 DEF FrameStart
  <1>3. FrameGrammar(c, p, r)
    BY <1>2 DEF Grammar
  <1>4. ASSUME p + FrameSize(r) - 1 <= Len(c), NEW k \in 1 .. FrameSize(r)
        PROVE  d[p + k - 1] = Encode(r)[k] \/ (k > 2 /\ d[p + k - 1] = Rotten)
    <2>1. p + k - 1 \in 1 .. Len(c)
      BY <1>0, <1>4
    <2>2. QED BY <1>3, <2>1 DEF FrameGrammar
  <1>5. ASSUME p + FrameSize(r) <= Len(c), Intact(d, p + FrameSize(r))
        PROVE  StartsFrame(d, p + FrameSize(r))
    <2>1. p + FrameSize(r) \in 1 .. Len(c) /\ p + FrameSize(r) \in 1 .. Len(c) + 1
      BY <1>0, <1>5
    <2>2. StartsFrame(c, p + FrameSize(r))
      BY <1>1, <1>3, <1>5, <2>1 DEF FrameGrammar
    <2>3. QED BY <2>1, <2>2 DEF StartsFrame
  <1>6. QED BY <1>2, <1>4, <1>5

LEMMA OneOrMore ==
  ASSUME NEW n \in Nat
  PROVE  n >= 1 => (n = 1 \/ n >= 2)
  OBVIOUS

LEMMA TwoOrMore ==
  ASSUME NEW n \in Nat
  PROVE  n >= 2 => (n = 2 \/ n >= 3)
  OBVIOUS

\* A frame header behind whole frames.
LEMMA HeaderGrammar ==
  ASSUME NEW c \in Seq(AllCells), NEW d \in Seq(AllCells), NEW r \in Frames,
         Grammar(c), WholeUpTo(c, Len(c)), Len(d) = Len(c) + 2,
         \A k \in 1 .. Len(c) : d[k] = c[k],
         d[Len(c) + 1] = F1(r), d[Len(c) + 2] = F2(PayloadLen(r))
  PROVE  Grammar(d) /\ WholeUpTo(d, Len(c))
  <1>0. Len(c) \in Nat /\ Len(d) \in Nat /\ Len(c) <= Len(d)
    OBVIOUS
  <1>1. StartsFrame(d, Len(c) + 1)
    BY DEF StartsFrame
  <1>2. ASSUME NEW p \in 1 .. Len(c), NEW s \in Frames, FrameStart(d, p, s)
        PROVE  p + FrameSize(s) - 1 <= Len(c) /\ FrameGrammar(d, p, s)
    <2>0. FrameSize(s) \in 3 .. 4
      BY Sizes
    <2>1. FrameStart(c, p, s)
      BY <1>0, <1>2, GrownKeeps
    <2>2. p + FrameSize(s) - 1 <= Len(c)
      BY <2>1 DEF WholeUpTo
    <2>3. /\ \A k \in 1 .. FrameSize(s) :
               d[p + k - 1] = Encode(s)[k] \/ (k > 2 /\ d[p + k - 1] = Rotten)
          /\ (p + FrameSize(s) <= Len(c) /\ Intact(d, p + FrameSize(s))) =>
               StartsFrame(d, p + FrameSize(s))
      BY <1>0, <1>2, <2>2, GrownKeeps
    <2>4. p + FrameSize(s) <= Len(c) \/ p + FrameSize(s) = Len(c) + 1
      BY <1>0, <2>0, <2>2
    <2>5. QED BY <1>1, <2>2, <2>3, <2>4 DEF FrameGrammar
  <1>3. ASSUME NEW p \in 1 .. Len(d), NEW s \in Frames, FrameStart(d, p, s)
        PROVE  FrameGrammar(d, p, s)
    <2>0. FrameSize(s) \in 3 .. 4
      BY Sizes
    <2>1. CASE p \in 1 .. Len(c) BY <1>2, <1>3, <2>1
    <2>2. CASE p = Len(c) + 1
      <3>1. s = r
        BY <1>3, <2>2, FirstNamesFrame DEF FrameStart
      <3>2. /\ Encode(s)[1] = d[p] /\ Encode(s)[2] = d[p + 1]
        BY <1>0, <2>2, <3>1, EncodeCells
      <3>3. \A k \in 1 .. FrameSize(s) : p + k - 1 <= Len(d) => (k = 1 \/ k = 2)
        BY <1>0, <2>0, <2>2
      <3>4. ~(p + FrameSize(s) <= Len(d))
        BY <1>0, <2>0, <2>2
      <3>5. p + 1 - 1 = p /\ p + 2 - 1 = p + 1
        BY <1>0, <2>2
      <3>6. QED BY <3>2, <3>3, <3>4, <3>5 DEF FrameGrammar
    <2>3. CASE p = Len(c) + 2
      <3>1. F1(s)[1] = "F1" /\ F2(PayloadLen(r))[1] = "F2"
        BY DEF F1, F2
      <3>2. QED BY <1>3, <2>3, <3>1 DEF FrameStart
    <2>4. QED BY <1>0, <2>1, <2>2, <2>3
  <1>4. /\ Len(d) >= 1 => (d[1] = <<"H1">> \/ StartsFrame(d, 1))
        /\ (Len(d) >= 2 /\ d[1] = <<"H1">>) => d[2] = <<"H2">>
        /\ (Len(d) >= 3 /\ d[1] = <<"H1">>) => StartsFrame(d, 3)
    <2>1. CASE Len(c) = 0
      <3>1. d[1] = F1(r)
        BY <2>1
      <3>2. QED BY <2>1, <3>1, <1>1, FirstNamesFrame DEF StartsFrame
    <2>2. CASE Len(c) >= 1
      <3>1. d[1] = c[1] /\ (c[1] = <<"H1">> => Len(c) >= 2)
        BY <1>0, <2>2 DEF WholeUpTo
      <3>2. c[1] = <<"H1">> \/ StartsFrame(d, 1)
        BY <2>2, <3>1 DEF Grammar, StartsFrame
      <3>3. c[1] = <<"H1">> => d[2] = <<"H2">>
        BY <1>0, <3>1 DEF Grammar
      <3>4. c[1] = <<"H1">> => StartsFrame(d, 3)
        <4>1. CASE Len(c) = 2 BY <1>1, <4>1
        <4>2. CASE Len(c) >= 3 BY <1>0, <4>2 DEF Grammar, StartsFrame
        <4>3. Len(c) >= 2 => (Len(c) = 2 \/ Len(c) >= 3)
          BY <1>0, TwoOrMore, Zenon
        <4>4. QED BY <3>1, <4>1, <4>2, <4>3
      <3>5. QED BY <3>1, <3>2, <3>3, <3>4
    <2>3. QED BY <1>0, <2>1, <2>2
  <1>5. WholeUpTo(d, Len(c))
    BY <1>0, <1>2 DEF WholeUpTo
  <1>6. QED BY <1>3, <1>4, <1>5 DEF Grammar

\* The payload behind its frame header.
LEMMA PayloadGrammar ==
  ASSUME NEW c \in Seq(AllCells), NEW d \in Seq(AllCells), NEW r \in Frames, NEW n \in Nat,
         Grammar(c), WholeUpTo(c, n), Len(c) = n + 2, Len(d) = n + FrameSize(r),
         \A k \in 1 .. Len(c) : d[k] = c[k],
         \A k \in 1 .. FrameSize(r) : d[n + k] = Encode(r)[k]
  PROVE  Grammar(d) /\ WholeUpTo(d, Len(d))
  <1>0. Len(c) \in Nat /\ Len(d) \in Nat /\ Len(c) <= Len(d) /\ FrameSize(r) \in 3 .. 4
    BY Sizes
  <1>1. ASSUME NEW p \in 1 .. Len(d), NEW s \in Frames, FrameStart(d, p, s)
        PROVE  FrameGrammar(d, p, s) /\ p + FrameSize(s) - 1 <= Len(d)
    <2>0. FrameSize(s) \in 3 .. 4
      BY Sizes
    <2>1. CASE p \in 1 .. n
      <3>0. p \in 1 .. Len(c)
        BY <2>1
      <3>1. FrameStart(c, p, s)
        BY <1>0, <1>1, <3>0, GrownKeeps
      <3>2. p + FrameSize(s) - 1 <= n
        BY <2>1, <3>1 DEF WholeUpTo
      <3>3. p + FrameSize(s) - 1 <= Len(c) /\ p + FrameSize(s) <= Len(c)
            /\ p + FrameSize(s) - 1 <= Len(d)
        BY <1>0, <2>0, <3>2
      <3>4. /\ \A k \in 1 .. FrameSize(s) :
                 d[p + k - 1] = Encode(s)[k] \/ (k > 2 /\ d[p + k - 1] = Rotten)
            /\ Intact(d, p + FrameSize(s)) => StartsFrame(d, p + FrameSize(s))
        BY <1>0, <1>1, <3>0, <3>3, GrownKeeps
      <3>5. QED BY <3>3, <3>4 DEF FrameGrammar
    <2>2. CASE p = n + 1
      <3>0. Encode(r)[1] = F1(r)
        BY EncodeCells
      <3>1. d[p] = F1(r)
        BY <1>0, <2>2, <3>0
      <3>2. s = r
        BY <1>1, <3>1, FirstNamesFrame DEF FrameStart
      <3>3. \A k \in 1 .. FrameSize(s) : d[p + k - 1] = Encode(s)[k]
        <4> SUFFICES ASSUME NEW k \in 1 .. FrameSize(r) PROVE d[p + k - 1] = Encode(r)[k]
          BY <3>2
        <4>1. p + k - 1 = n + k
          BY <2>2
        <4>2. QED BY <4>1
      <3>4. ~(p + FrameSize(s) <= Len(d)) /\ p + FrameSize(s) - 1 <= Len(d)
        BY <1>0, <2>2, <3>2
      <3>5. QED BY <3>3, <3>4 DEF FrameGrammar
    <2>3. CASE p \in n + 2 .. Len(d)
      <3>1. p - n \in 2 .. FrameSize(r) /\ p = n + (p - n)
        BY <1>0, <2>3
      <3>2. d[p] = Encode(r)[p - n]
        BY <3>1
      <3>3. QED BY <1>1, <3>1, <3>2, OnlyFirst DEF FrameStart
    <2>4. QED BY <1>0, <2>1, <2>2, <2>3
  <1>2. \A p \in 1 .. Len(c) : StartsFrame(d, p) <=> StartsFrame(c, p)
    BY DEF StartsFrame
  <1>3. d[1] = c[1] /\ d[2] = c[2] /\ Len(c) >= 2
    BY <1>0
  <1>4. (Len(d) >= 3 /\ d[1] = <<"H1">>) => StartsFrame(d, 3)
    <2>1. CASE n = 0
      <3>1. d[1] = Encode(r)[1]
        BY <1>0, <2>1
      <3>2. Encode(r)[1] = F1(r)
        BY EncodeCells
      <3>3. F1(r) # <<"H1">>
        BY FirstNamesFrame
      <3>4. QED BY <3>1, <3>2, <3>3
    <2>2. CASE n >= 1
      <3>1. Len(c) >= 3 /\ 3 \in 1 .. Len(c)
        BY <1>0, <2>2
      <3>2. QED BY <1>2, <1>3, <3>1 DEF Grammar
    <2>3. QED BY <2>1, <2>2
  <1>5. /\ d[1] = <<"H1">> \/ StartsFrame(d, 1)
        /\ d[1] = <<"H1">> => d[2] = <<"H2">>
    <2>1. 1 \in 1 .. Len(c) /\ Len(c) >= 1 /\ Len(c) >= 2
      BY <1>0
    <2>2. QED BY <1>2, <1>3, <2>1 DEF Grammar
  <1>6. QED BY <1>0, <1>1, <1>3, <1>4, <1>5 DEF Grammar, WholeUpTo

\* A payload cell rots.
LEMMA RotGrammar ==
  ASSUME NEW c \in Seq(AllCells), NEW d \in Seq(AllCells), NEW x \in 1 .. Len(c),
         Grammar(c), c[x][1] = "B", d = [c EXCEPT ![x] = Rotten]
  PROVE  Grammar(d)
  <1>0. Len(d) = Len(c) /\ Len(c) \in Nat /\ d[x] = Rotten
        /\ \A k \in 1 .. Len(c) : k # x => d[k] = c[k]
    OBVIOUS
  <1>1. ASSUME NEW r \in Frames PROVE c[x] # F1(r) /\ c[x] # <<"H1">> /\ c[x] # <<"H2">>
    BY DEF F1
  <1>2. ASSUME NEW p \in 1 .. Len(c), StartsFrame(c, p) PROVE StartsFrame(d, p)
    BY <1>0, <1>1, <1>2 DEF StartsFrame
  <1>3. ASSUME NEW p \in 1 .. Len(c) + 1, Intact(d, p) PROVE Intact(c, p) /\ p <= x
    <2>1. p <= x
      <3>1. SUFFICES ASSUME x < p PROVE FALSE
        BY <1>0
      <3>2. x \in 1 .. p - 1 /\ x <= Len(d)
        BY <1>0, <3>1
      <3>3. QED BY <1>0, <1>3, <3>2 DEF Intact
    <2>2. QED BY <1>0, <1>3, <2>1 DEF Intact
  <1>4. ASSUME NEW p \in 1 .. Len(d), NEW r \in Frames, FrameStart(d, p, r)
        PROVE  FrameGrammar(d, p, r)
    <2>0. FrameSize(r) \in 3 .. 4 /\ p \in 1 .. Len(c) /\ p \in 1 .. Len(c) + 1
      BY <1>0, Sizes
    <2>1. p # x
      BY <1>0, <1>4, FirstNamesFrame DEF FrameStart
    <2>2. FrameStart(c, p, r)
      BY <1>0, <1>3, <1>4, <2>0, <2>1 DEF FrameStart
    <2>3. FrameGrammar(c, p, r)
      BY <2>0, <2>2 DEF Grammar
    <2>4. ASSUME NEW k \in 1 .. FrameSize(r), p + k - 1 <= Len(d)
          PROVE  d[p + k - 1] = Encode(r)[k] \/ (k > 2 /\ d[p + k - 1] = Rotten)
      <3>1. p + k - 1 \in 1 .. Len(c)
        BY <1>0, <2>0, <2>4
      <3>2. c[p + k - 1] = Encode(r)[k] \/ (k > 2 /\ c[p + k - 1] = Rotten)
        BY <2>3, <3>1 DEF FrameGrammar
      <3>3. CASE p + k - 1 # x BY <1>0, <3>1, <3>2, <3>3
      <3>4. CASE p + k - 1 = x
        <4>1. k # 1
          BY <2>1, <3>4
        <4>2. k # 2
          <5>1. SUFFICES ASSUME k = 2 PROVE FALSE
            OBVIOUS
          <5>2. c[x] = F2(PayloadLen(r))
            BY <3>2, <3>4, <5>1, EncodeCells
          <5>3. F2(PayloadLen(r))[1] = "F2"
            BY DEF F2
          <5>4. QED BY <5>2, <5>3
        <4>3. k > 2
          BY <2>0, <4>1, <4>2
        <4>4. QED BY <1>0, <3>4, <4>3
      <3>5. QED BY <3>3, <3>4
    <2>5. ASSUME p + FrameSize(r) <= Len(d), Intact(d, p + FrameSize(r))
          PROVE  StartsFrame(d, p + FrameSize(r))
      <3>1. p + FrameSize(r) \in 1 .. Len(c) /\ p + FrameSize(r) \in 1 .. Len(c) + 1
        BY <1>0, <2>0, <2>5
      <3>2. StartsFrame(c, p + FrameSize(r))
        BY <1>3, <2>3, <2>5, <3>1 DEF FrameGrammar
      <3>3. QED BY <1>2, <3>1, <3>2
    <2>6. QED BY <2>4, <2>5 DEF FrameGrammar
  <1>5. /\ Len(d) >= 1 => (d[1] = <<"H1">> \/ StartsFrame(d, 1))
        /\ (Len(d) >= 2 /\ d[1] = <<"H1">>) => d[2] = <<"H2">>
        /\ (Len(d) >= 3 /\ d[1] = <<"H1">>) => StartsFrame(d, 3)
    <2>1. ASSUME NEW k \in 1 .. Len(c), d[k] = <<"H1">> PROVE c[k] = <<"H1">>
      <3>1. <<"H1">> # Rotten
        <4>1. <<"H1">>[1] = "H1" /\ Rotten[1] = "X"
          BY DEF Rotten
        <4>2. QED BY <4>1
      <3>2. QED BY <1>0, <2>1, <3>1
    <2>2. ASSUME NEW k \in 1 .. Len(c), NEW v \in {<<"H1">>, <<"H2">>}, c[k] = v PROVE d[k] = v
      <3>1. k # x
        <4>1. <<"H1">>[1] = "H1" /\ <<"H2">>[1] = "H2"
          OBVIOUS
        <4>2. QED BY <2>2, <4>1
      <3>2. QED BY <1>0, <2>2, <3>1
    <2>3. Len(d) >= 1 => (d[1] = <<"H1">> \/ StartsFrame(d, 1))
      <3>1. SUFFICES ASSUME Len(c) >= 1 PROVE d[1] = <<"H1">> \/ StartsFrame(d, 1)
        BY <1>0
      <3>2. 1 \in 1 .. Len(c)
        BY <1>0, <3>1
      <3>3. c[1] = <<"H1">> \/ StartsFrame(c, 1)
        BY <3>1 DEF Grammar
      <3>4. QED BY <1>2, <2>2, <3>2, <3>3
    <2>4. (Len(d) >= 2 /\ d[1] = <<"H1">>) => d[2] = <<"H2">>
      BY <1>0, <2>1, <2>2 DEF Grammar
    <2>5. (Len(d) >= 3 /\ d[1] = <<"H1">>) => StartsFrame(d, 3)
      <3>1. SUFFICES ASSUME Len(c) >= 3, d[1] = <<"H1">> PROVE StartsFrame(d, 3)
        BY <1>0
      <3>2. 1 \in 1 .. Len(c) /\ 3 \in 1 .. Len(c)
        BY <1>0, <3>1
      <3>3. StartsFrame(c, 3)
        BY <2>1, <3>1, <3>2 DEF Grammar
      <3>4. QED BY <1>2, <3>2, <3>3
    <2>6. QED BY <2>3, <2>4, <2>5
  <1>6. QED BY <1>4, <1>5 DEF Grammar

\* The files that open() may find first, and the one with a header alone.
LEMMA FirstHeader ==
  /\ Grammar(<<>>) /\ WholeUpTo(<<>>, 0)
  /\ Grammar(HeaderCells) /\ WholeUpTo(HeaderCells, 2)
  <1>0. Len(<<>>) = 0 /\ 1 .. 0 = {} /\ <<>> \in Seq(AllCells)
    OBVIOUS
  <1>1. Grammar(<<>>) /\ WholeUpTo(<<>>, 0)
    BY <1>0 DEF Grammar, WholeUpTo
  <1>2. ASSUME NEW p \in 1 .. 2, NEW s \in Frames PROVE ~FrameStart(HeaderCells, p, s)
    <2>1. HeaderCells[p] = <<"H1">> \/ HeaderCells[p] = <<"H2">>
      BY HeaderIs
    <2>2. QED BY <2>1, FirstNamesFrame DEF FrameStart
  <1>3. Grammar(HeaderCells) /\ WholeUpTo(HeaderCells, 2)
    BY <1>2, HeaderIs DEF Grammar, WholeUpTo
  <1>4. QED BY <1>1, <1>3

LEMMA FirstFrame ==
  ASSUME NEW r \in Frames
  PROVE  Grammar(Encode(r))
  <1> DEFINE d == Encode(r)
  <1>0. /\ d \in Seq(AllCells) /\ Len(d) = FrameSize(r) /\ d[1] = F1(r)
        /\ FrameSize(r) \in 3 .. 4
    BY EncodeCells, Sizes
  <1>1. ASSUME NEW p \in 1 .. Len(d), NEW s \in Frames, FrameStart(d, p, s)
        PROVE  FrameGrammar(d, p, s)
    <2>1. p = 1
      <3>1. SUFFICES ASSUME p \in 2 .. FrameSize(r) PROVE FALSE
        BY <1>0
      <3>2. QED BY <1>1, <3>1, OnlyFirst DEF FrameStart
    <2>2. s = r
      BY <1>0, <1>1, <2>1, FirstNamesFrame DEF FrameStart
    <2>3. \A k \in 1 .. FrameSize(s) : p + k - 1 = k
      BY <1>0, <2>1, <2>2
    <2>4. ~(p + FrameSize(s) <= Len(d))
      BY <1>0, <2>1, <2>2
    <2>5. QED BY <2>2, <2>3, <2>4 DEF FrameGrammar
  <1>2. d[1] # <<"H1">> /\ StartsFrame(d, 1)
    BY <1>0, FirstNamesFrame DEF StartsFrame
  <1> HIDE DEF d
  <1>3. Grammar(d)
    BY <1>1, <1>2 DEF Grammar
  <1>4. QED BY <1>3 DEF d

\* The scan begins behind the file header, if there is one.
LEMMA ScanBegins ==
  ASSUME NEW c \in Seq(AllCells), Grammar(c)
  PROVE  /\ (Len(c) >= 2 /\ c[1] = <<"H1">>) => (ScanAt(c, 2) /\ c[2] = <<"H2">>)
         /\ ~(Len(c) >= 2 /\ c[1] = <<"H1">>) => ScanAt(c, 0)
  <1>0. Len(c) \in Nat
    OBVIOUS
  <1>1. ASSUME Len(c) >= 2, c[1] = <<"H1">> PROVE ScanAt(c, 2) /\ c[2] = <<"H2">>
    <2>1. c[2] = <<"H2">>
      BY <1>1 DEF Grammar
    <2>2. ASSUME NEW p \in 1 .. 2, NEW s \in Frames PROVE ~FrameStart(c, p, s)
      <3>1. c[p] = <<"H1">> \/ c[p] = <<"H2">>
        BY <1>1, <2>1
      <3>2. F1(s) # <<"H1">> /\ F1(s) # <<"H2">>
        BY FirstNamesFrame
      <3>3. QED BY <3>1, <3>2 DEF FrameStart
    <2>3. WholeUpTo(c, 2)
      BY <2>2 DEF WholeUpTo
    <2>4. Intact(c, 3)
      <3>1. <<"H1">>[1] = "H1" /\ <<"H2">>[1] = "H2" /\ Rotten[1] = "X"
        BY DEF Rotten
      <3>2. \A q \in 1 .. 3 - 1 : q = 1 \/ q = 2
        OBVIOUS
      <3>3. QED BY <1>1, <2>1, <3>1, <3>2 DEF Intact
    <2>5. 2 < Len(c) => StartsFrame(c, 3)
      BY <1>0, <1>1 DEF Grammar
    <2>6. QED BY <2>1, <2>3, <2>4, <2>5 DEF ScanAt
  <1>2. ASSUME ~(Len(c) >= 2 /\ c[1] = <<"H1">>) PROVE ScanAt(c, 0)
    <2>1. 1 .. 0 = {} /\ 1 .. 1 - 1 = {}
      OBVIOUS
    <2>2. WholeUpTo(c, 0) /\ Intact(c, 0 + 1)
      BY <2>1 DEF WholeUpTo, Intact
    <2>3. 0 < Len(c) => (StartsFrame(c, 0 + 1) \/ (Len(c) = 1 /\ c[1] = <<"H1">>))
      <3>1. 0 < Len(c) => (Len(c) >= 1 /\ 0 + 1 = 1)
        BY <1>0
      <3>2. Len(c) >= 1 => (Len(c) = 1 \/ Len(c) >= 2)
        BY <1>0, OneOrMore, Zenon
      <3>3. Len(c) >= 1 => (c[1] = <<"H1">> \/ StartsFrame(c, 1))
        BY DEF Grammar
      <3>4. QED BY <1>2, <3>1, <3>2, <3>3
    <2>4. QED BY <2>2, <2>3 DEF ScanAt
  <1>3. QED BY <1>1, <1>2

\* Where a frame starts, no other starts inside it.
LEMMA InsideFrame ==
  ASSUME NEW c \in Seq(AllCells), Grammar(c), NEW n \in Nat, n < Len(c),
         NEW r \in Frames, c[n + 1] = F1(r), Intact(c, n + 1)
  PROVE  /\ FrameStart(c, n + 1, r) /\ FrameGrammar(c, n + 1, r)
         /\ n + 2 <= Len(c) => c[n + 2] = F2(PayloadLen(r))
         /\ \A p \in n + 2 .. n + FrameSize(r), s \in Frames : p <= Len(c) => c[p] # F1(s)
  <1>0. Len(c) \in Nat /\ FrameSize(r) \in 3 .. 4 /\ n + 1 \in 1 .. Len(c)
    BY Sizes
  <1>1. FrameStart(c, n + 1, r)
    BY <1>0 DEF FrameStart
  <1>2. FrameGrammar(c, n + 1, r)
    BY <1>0, <1>1 DEF Grammar
  <1>3. ASSUME NEW k \in 1 .. FrameSize(r), n + k <= Len(c)
        PROVE  c[n + k] = Encode(r)[k] \/ (k > 2 /\ c[n + k] = Rotten)
    <2>1. (n + 1) + k - 1 = n + k
      BY <1>0
    <2>2. QED BY <1>2, <1>3, <2>1 DEF FrameGrammar
  <1>4. n + 2 <= Len(c) => c[n + 2] = F2(PayloadLen(r))
    BY <1>0, <1>3, EncodeCells
  <1>5. ASSUME NEW p \in n + 2 .. n + FrameSize(r), NEW s \in Frames, p <= Len(c)
        PROVE  c[p] # F1(s)
    <2>1. p - n \in 2 .. FrameSize(r) /\ p - n \in 1 .. FrameSize(r) /\ n + (p - n) = p
      BY <1>0
    <2>2. c[p] = Encode(r)[p - n] \/ c[p] = Rotten
      BY <1>3, <1>5, <2>1
    <2>3. QED BY <2>1, <2>2, OnlyFirst
  <1>6. QED BY <1>1, <1>2, <1>4, <1>5

\* The scan accepts a frame and stands before the next one.
LEMMA Accepted ==
  ASSUME NEW c \in Seq(AllCells), Grammar(c), NEW n \in Nat, ScanAt(c, n),
         NEW r \in Frames, n + FrameSize(r) <= Len(c),
         \A k \in 1 .. FrameSize(r) : c[n + k] = Encode(r)[k]
  PROVE  ScanAt(c, n + FrameSize(r))
  <1> DEFINE m == n + FrameSize(r)
  <1>0. /\ Len(c) \in Nat /\ FrameSize(r) \in 3 .. 4 /\ n < Len(c)
        /\ m \in Nat /\ n <= m /\ m >= 3 /\ m <= Len(c) /\ n + 1 \in 1 .. m
    BY Sizes
  <1>1. c[n + 1] = F1(r)
    BY <1>0, EncodeCells
  <1>2. WholeUpTo(c, n) /\ Intact(c, n + 1)
    BY DEF ScanAt
  <1>3. /\ FrameGrammar(c, n + 1, r)
        /\ \A p \in n + 2 .. n + FrameSize(r), s \in Frames : p <= Len(c) => c[p] # F1(s)
    BY <1>0, <1>1, <1>2, InsideFrame
  <1>4. ASSUME NEW p \in 1 .. m, NEW s \in Frames, FrameStart(c, p, s)
        PROVE  p + FrameSize(s) - 1 <= m
    <2>0. FrameSize(s) \in 3 .. 4
      BY Sizes
    <2>1. CASE p \in 1 .. n
      <3>1. p + FrameSize(s) - 1 <= n
        BY <1>2, <1>4, <2>1 DEF WholeUpTo
      <3>2. QED BY <1>0, <2>0, <3>1
    <2>2. CASE p = n + 1
      <3>1. s = r
        BY <1>1, <1>4, <2>2, FirstNamesFrame DEF FrameStart
      <3>2. QED BY <1>0, <2>2, <3>1
    <2>3. CASE p \in n + 2 .. n + FrameSize(r)
      BY <1>3, <1>4, <2>3 DEF FrameStart
    <2>4. QED BY <1>0, <2>1, <2>2, <2>3
  <1>5. WholeUpTo(c, m)
    <2>1. m >= 2
      BY <1>0
    <2>2. QED BY <1>4, <2>1 DEF WholeUpTo
  <1>6. ASSUME NEW q \in 1 .. m PROVE c[q] # Rotten
    <2>1. CASE q \in 1 .. n
      <3>1. q \in 1 .. (n + 1) - 1 /\ q <= Len(c)
        BY <1>0, <2>1
      <3>2. QED BY <1>2, <3>1 DEF Intact
    <2>2. CASE q = n + 1
      BY <1>1, <2>2, FirstNamesFrame
    <2>3. CASE q \in n + 2 .. m
      <3>1. q - n \in 2 .. FrameSize(r) /\ q - n \in 1 .. FrameSize(r) /\ n + (q - n) = q
        BY <1>0, <2>3
      <3>2. c[q] = Encode(r)[q - n]
        BY <3>1
      <3>3. QED BY <3>1, <3>2, OnlyFirst
    <2>4. QED BY <1>0, <2>1, <2>2, <2>3
  <1>7. Intact(c, m + 1)
    <2>1. (m + 1) - 1 = m
      BY <1>0
    <2>2. QED BY <1>6, <2>1 DEF Intact
  <1>8. m < Len(c) => StartsFrame(c, m + 1)
    <2>1. (n + 1) + FrameSize(r) = m + 1
      BY <1>0
    <2>2. m < Len(c) => m + 1 <= Len(c)
      BY <1>0
    <2>3. QED BY <1>3, <1>7, <2>1, <2>2 DEF FrameGrammar
  <1> HIDE DEF m
  <1>9. ScanAt(c, m)
    BY <1>5, <1>7, <1>8 DEF ScanAt
  <1>10. QED BY <1>9 DEF m

\* The CRC of a complete frame does not fit: a cell of its payload is rotten,
\* and behind that cell the grammar says nothing of frames.
LEMMA Misfit ==
  ASSUME NEW c \in Seq(AllCells), Grammar(c), NEW n \in Nat, ScanAt(c, n), n < Len(c),
         NEW r \in Frames, c[n + 1] = F1(r), n + FrameSize(r) <= Len(c),
         ~ \A k \in 1 .. FrameSize(r) : c[n + k] = Encode(r)[k]
  PROVE  WholeUpTo(c, Len(c))
  <1>0. Len(c) \in Nat /\ FrameSize(r) \in 3 .. 4 /\ Len(c) >= 2
    BY Sizes
  <1>2. WholeUpTo(c, n) /\ Intact(c, n + 1)
    BY DEF ScanAt
  <1>3. /\ FrameGrammar(c, n + 1, r)
        /\ \A p \in n + 2 .. n + FrameSize(r), s \in Frames : p <= Len(c) => c[p] # F1(s)
    BY <1>2, InsideFrame
  <1>4. PICK k \in 1 .. FrameSize(r) : c[n + k] # Encode(r)[k]
    OBVIOUS
  <1>5. c[n + k] = Rotten /\ n + k <= Len(c) /\ n + k \in Nat
    <2>1. (n + 1) + k - 1 = n + k /\ n + k <= Len(c) /\ n + k \in Nat
      BY <1>0
    <2>2. QED BY <1>3, <1>4, <2>1 DEF FrameGrammar
  <1>6. ASSUME NEW p \in 1 .. Len(c), NEW s \in Frames, FrameStart(c, p, s)
        PROVE  p + FrameSize(s) - 1 <= Len(c)
    <2>0. FrameSize(s) \in 3 .. 4
      BY Sizes
    <2>1. CASE p \in 1 .. n
      <3>1. p + FrameSize(s) - 1 <= n
        BY <1>2, <1>6, <2>1 DEF WholeUpTo
      <3>2. QED BY <1>0, <2>0, <3>1
    <2>2. CASE p = n + 1
      <3>1. s = r
        BY <1>6, <2>2, FirstNamesFrame DEF FrameStart
      <3>2. QED BY <1>0, <2>2, <3>1
    <2>3. CASE p \in n + 2 .. n + FrameSize(r)
      BY <1>3, <1>6, <2>3 DEF FrameStart
    <2>4. CASE p > n + FrameSize(r)
      <3>1. n + k \in 1 .. p - 1
        BY <1>0, <2>4
      <3>2. QED BY <1>5, <1>6, <3>1 DEF FrameStart, Intact
    <2>5. p \in 1 .. n \/ p = n + 1 \/ p \in n + 2 .. n + FrameSize(r) \/ p > n + FrameSize(r)
      BY <1>0
    <2>6. QED BY <2>1, <2>2, <2>3, <2>4, <2>5
  <1>7. QED BY <1>0, <1>6 DEF WholeUpTo

\* No whole frame lies at or behind offset n.
NothingWhole(c, n) ==
  \A p \in n .. Len(c), s \in Frames :
    ~ (p + FrameSize(s) <= Len(c) /\ \A k \in 1 .. FrameSize(s) : c[p + k] = Encode(s)[k])

LEMMA NothingBehind ==
  ASSUME NEW c \in Seq(AllCells), Grammar(c), NEW n \in Nat, ScanAt(c, n), n < Len(c),
         NEW r \in Frames, c[n + 1] = F1(r), Len(c) <= n + FrameSize(r),
         \/ Len(c) < n + FrameSize(r)
         \/ ~ \A k \in 1 .. FrameSize(r) : c[n + k] = Encode(r)[k]
  PROVE  NothingWhole(c, n)
  <1>0. Len(c) \in Nat /\ FrameSize(r) \in 3 .. 4
    BY Sizes
  <1>2. Intact(c, n + 1)
    BY DEF ScanAt
  <1>3. \A p \in n + 2 .. n + FrameSize(r), s \in Frames : p <= Len(c) => c[p] # F1(s)
    BY <1>2, InsideFrame
  <1>4. ASSUME NEW p \in n .. Len(c), NEW s \in Frames, p + FrameSize(s) <= Len(c),
               \A k \in 1 .. FrameSize(s) : c[p + k] = Encode(s)[k]
        PROVE  FALSE
    <2>0. FrameSize(s) \in 3 .. 4 /\ 1 \in 1 .. FrameSize(s)
      BY Sizes
    <2>1. c[p + 1] = F1(s)
      BY <1>4, <2>0, EncodeCells
    <2>2. CASE p = n
      <3>1. s = r
        BY <2>1, <2>2, FirstNamesFrame
      <3>2. ~ (Len(c) < n + FrameSize(r))
        BY <1>0, <1>4, <2>2, <3>1
      <3>3. QED BY <1>4, <2>2, <3>1, <3>2
    <2>3. CASE p > n
      <3>1. p + 1 \in n + 2 .. n + FrameSize(r) /\ p + 1 <= Len(c)
        BY <1>0, <1>4, <2>0, <2>3
      <3>2. QED BY <1>3, <2>1, <3>1
    <2>4. QED BY <1>0, <2>2, <2>3
  <1>5. QED BY <1>4 DEF NothingWhole

\* Fewer cells than a frame header are left.
LEMMA NothingFits ==
  ASSUME NEW c \in Seq(AllCells), NEW n \in Nat, Len(c) - n < 2
  PROVE  NothingWhole(c, n)
  <1>1. ASSUME NEW p \in n .. Len(c), NEW s \in Frames PROVE ~(p + FrameSize(s) <= Len(c))
    <2>1. FrameSize(s) \in 3 .. 4 /\ Len(c) \in Nat
      BY Sizes
    <2>2. QED BY <2>1
  <1>2. QED BY <1>1 DEF NothingWhole

LEMMA NothingCut ==
  ASSUME cells' \in Seq(AllCells), last_good' \in Nat, NothingWhole(cells', last_good')
  PROVE  NoWholeFrameIsCut'
  <1>1. ASSUME NEW CONSTANT p \in last_good' .. Len(cells'), NEW CONSTANT r \in Frames
        PROVE  ~ WholeFrameAt(p, r)'
    <2>1. p \in Int
      OBVIOUS
    <2>2. QED BY <2>1, WholeFrameCellsNext DEF NothingWhole
  <1>2. Frames' = Frames
    BY DEF Frames
  <1>3. QED BY <1>1, <1>2 DEF NoWholeFrameIsCut

\* The parts of the file's grammar that a step has to restore.
LEMMA OnlyCut ==
  ASSUME pc' # "truncate"
  PROVE  NoWholeFrameIsCut'
  BY DEF NoWholeFrameIsCut

LEMMA ScanFrameGrammar ==
  ASSUME FieldsInv, Grammar(cells), RepairGrammar, ScanFrame
  PROVE  Grammar(cells') /\ RepairGrammar' /\ NoWholeFrameIsCut'
  <1> DEFINE n == cursor
  <1>1. /\ cells' = cells /\ cells \in Seq(AllCells) /\ pc = "repair"
        /\ eof_offset = Len(cells) /\ last_good = n /\ n \in Nat /\ n < Len(cells)
        /\ Len(cells) \in Nat /\ MaxCells \in Nat /\ MaxCells >= 4
    BY LogManagerAssumption DEF ScanFrame, FieldsInv, TypeOK
  <1>2. ScanAt(cells, n)
    BY <1>1 DEF RepairGrammar
  <1>3. Grammar(cells')
    BY <1>1
  <1>4. ASSUME pc' = "truncate", UNCHANGED scan, NothingWhole(cells, n)
        PROVE  RepairGrammar' /\ NoWholeFrameIsCut'
    <2>1. cursor' = n /\ last_good' = n
      BY <1>1, <1>4 DEF scan
    <2>2. RepairGrammar'
      BY <1>1, <1>2, <1>4, <2>1 DEF RepairGrammar
    <2>3. NoWholeFrameIsCut'
      BY <1>1, <1>4, <2>1, NothingCut
    <2>4. QED BY <2>2, <2>3
  <1>5. ASSUME pc' = "failed", WholeUpTo(cells, Len(cells))
        PROVE  RepairGrammar' /\ NoWholeFrameIsCut'
    BY <1>1, <1>5, OnlyCut DEF RepairGrammar
  <1>6. ASSUME pc' = "repair", ScanAt(cells, cursor')
        PROVE  RepairGrammar' /\ NoWholeFrameIsCut'
    BY <1>1, <1>6, OnlyCut DEF RepairGrammar
  <1>7. CASE eof_offset - cursor < FrameHeaderSize
    <2>1. Len(cells) - n < 2
      BY <1>1, <1>7 DEF FrameHeaderSize
    <2>2. pc' = "truncate" /\ UNCHANGED scan
      BY <1>7 DEF ScanFrame
    <2>3. NothingWhole(cells, n)
      BY <1>1, <2>1, NothingFits
    <2>4. QED BY <1>3, <1>4, <2>2, <2>3
  <1>8. CASE ~(eof_offset - cursor < FrameHeaderSize)
    <2>1. Len(cells) >= n + 2 /\ Len(cells) # 1
      BY <1>1, <1>8 DEF FrameHeaderSize
    <2>2. PICK r \in Frames : cells[n + 1] = F1(r)
      BY <1>1, <1>2, <2>1 DEF ScanAt, StartsFrame
    <2>3. Intact(cells, n + 1)
      BY <1>2 DEF ScanAt
    <2>4. cells[n + 2] = F2(PayloadLen(r))
      BY <1>1, <2>1, <2>2, <2>3, InsideFrame
    <2>5. ValidOps(cursor) = {TRUE} /\ Lengths(cursor) = {PayloadLen(r)}
      <3>1. cells[n + 1][1] = "F1" /\ cells[n + 2][1] = "F2" /\ cells[n + 2][2] = PayloadLen(r)
        BY <2>2, <2>4, Roles
      <3>2. QED BY <3>1 DEF ValidOps, Lengths
    <2> DEFINE len == PayloadLen(r)
    <2>6. /\ len \in 1 .. 2 /\ len # TooShort /\ len # OverCap
          /\ FrameSize(r) = 2 + len /\ FrameSize(r) \in 3 .. 4
      BY <1>1, Sizes DEF TooShort, OverCap
    <2>7. /\ GoodUpTo(len) = n + FrameSize(r)
          /\ PastEof(len) <=> n + FrameSize(r) > Len(cells)
      BY <1>1, <2>6 DEF GoodUpTo, PastEof, FrameHeaderSize
    <2> HIDE DEF len
    <2>8. \/ /\ Verdict(TRUE, len) = "good"
             /\ cursor' = GoodUpTo(len)
             /\ pc' = "repair"
          \/ /\ Verdict(TRUE, len) # "good"
             /\ pc' = Verdict(TRUE, len)
             /\ UNCHANGED scan
      <3>1. ValidOps(cursor) = {TRUE} /\ Lengths(cursor) = {len}
        BY <2>5 DEF len
      <3>2. QED BY <1>1, <1>8, <3>1 DEF ScanFrame
    <2>9. CASE PastEof(len)
      <3>1. Verdict(TRUE, len) = "truncate"
        BY <2>6, <2>9 DEF Verdict
      <3>2. Len(cells) < n + FrameSize(r) /\ Len(cells) <= n + FrameSize(r)
        BY <1>1, <2>6, <2>7, <2>9
      <3>3. NothingWhole(cells, n)
        BY <1>1, <1>2, <2>2, <3>2, NothingBehind
      <3>4. QED BY <1>3, <1>4, <2>8, <3>1, <3>3
    <2>10. CASE ~PastEof(len) /\ CrcFits(cursor, len)
      <3>1. Verdict(TRUE, len) = "good"
        BY <2>6, <2>10 DEF Verdict, VerdictOnCrc
      <3>2. PICK s \in Frames : len = PayloadLen(s) /\ WholeFrameAt(n, s)
        BY <2>10 DEF CrcFits
      <3>3. /\ n + FrameSize(s) <= Len(cells)
            /\ \A k \in 1 .. FrameSize(s) : cells[n + k] = Encode(s)[k]
        BY <1>1, <3>2, WholeFrameCells
      <3>4. ScanAt(cells, n + FrameSize(s))
        BY <1>1, <1>2, <3>3, Accepted
      <3>5. FrameSize(s) = FrameSize(r)
        BY <2>6, <3>2, Sizes
      <3>6. cursor' = n + FrameSize(s) /\ pc' = "repair"
        BY <2>7, <2>8, <3>1, <3>5
      <3>7. QED BY <1>3, <1>6, <3>4, <3>6
    <2>11. CASE ~PastEof(len) /\ ~CrcFits(cursor, len)
      <3>1. n + FrameSize(r) <= Len(cells)
        BY <1>1, <2>6, <2>7, <2>11
      <3>2. ~ WholeFrameAt(n, r)
        BY <2>11 DEF CrcFits, len
      <3>3. ~ \A k \in 1 .. FrameSize(r) : cells[n + k] = Encode(r)[k]
        BY <1>1, <3>1, <3>2, WholeFrameCells
      <3>4. CASE GoodUpTo(len) < eof_offset
        <4>1. Verdict(TRUE, len) = "failed"
          BY <2>6, <2>11, <3>4 DEF Verdict, VerdictOnCrc
        <4>2. WholeUpTo(cells, Len(cells))
          BY <1>1, <1>2, <2>2, <3>1, <3>3, Misfit
        <4>3. QED BY <1>3, <1>5, <2>8, <4>1, <4>2
      <3>5. CASE ~(GoodUpTo(len) < eof_offset)
        <4>1. Verdict(TRUE, len) = "truncate"
          BY <2>6, <2>11, <3>5 DEF Verdict, VerdictOnCrc
        <4>2. Len(cells) <= n + FrameSize(r)
          BY <1>1, <2>6, <2>7, <3>5
        <4>3. NothingWhole(cells, n)
          BY <1>1, <1>2, <2>2, <3>3, <4>2, NothingBehind
        <4>4. QED BY <1>3, <1>4, <2>8, <4>1, <4>3
      <3>6. QED BY <3>4, <3>5
    <2>12. QED BY <2>9, <2>10, <2>11
  <1>9. QED BY <1>7, <1>8

LEMMA OpenGrammar ==
  ASSUME FieldsInv, Grammar(cells), RepairGrammar,
         Open \/ OpenAgain \/ ScanDone \/ Truncate
  PROVE  Grammar(cells') /\ RepairGrammar' /\ NoWholeFrameIsCut'
  <1>0. cells \in Seq(AllCells) /\ Len(cells) \in Nat /\ cursor \in Nat
    BY DEF FieldsInv, TypeOK
  <1>1. CASE Open
    <2>1. cells' = cells
      BY <1>1 DEF Open
    <2>2. IsV2 <=> (Len(cells) >= 2 /\ cells[1] = <<"H1">>)
      BY DEF IsV2, FileHeaderSize
    <2>3. /\ IsV2 => ScanAt(cells, 2) /\ cells[2] = <<"H2">>
          /\ ~IsV2 => ScanAt(cells, 0)
      BY <1>0, <2>2, ScanBegins
    <2>4. VersionsOk = {TRUE}
      BY <2>3 DEF VersionsOk
    <2>5. /\ pc' = "repair"
          /\ cursor' = IF IsV2 THEN 2 ELSE 0
      BY <1>1, <2>4 DEF Open, FileHeaderSize
    <2>6. ScanAt(cells', cursor')
      BY <2>1, <2>3, <2>5
    <2>7. RepairGrammar'
      BY <2>5, <2>6 DEF RepairGrammar
    <2>8. QED BY <2>1, <2>5, <2>7, OnlyCut
  <1>2. CASE OpenAgain
    <2>1. cells' = cells /\ pc = "failed" /\ pc' = "ready"
      BY <1>2 DEF OpenAgain
    <2>2. RepairGrammar'
      BY <2>1 DEF RepairGrammar
    <2>3. QED BY <2>1, <2>2, OnlyCut
  <1>3. CASE ScanDone
    <2>1. cells' = cells /\ pc = "repair" /\ pc' = "ready" /\ cursor >= eof_offset
      BY <1>3 DEF ScanDone, Repaired
    <2>2. cursor = Len(cells)
      BY <1>0, <2>1 DEF FieldsInv
    <2>3. WholeUpTo(cells, Len(cells))
      BY <2>1, <2>2 DEF RepairGrammar, ScanAt
    <2>4. RepairGrammar'
      BY <2>1, <2>3 DEF RepairGrammar
    <2>5. QED BY <2>1, <2>4, OnlyCut
  <1>4. CASE Truncate
    <2>1. /\ pc = "truncate" /\ pc' = "ready" /\ cells' = SubSeq(cells, 1, cursor)
          /\ cursor \in 0 .. Len(cells)
      BY <1>0, <1>4 DEF Truncate, Repaired, FieldsInv
    <2>2. /\ cells' \in Seq(AllCells) /\ Len(cells') = cursor /\ Len(cells') <= Len(cells)
          /\ \A k \in 1 .. Len(cells') : cells'[k] = cells[k]
      BY <1>0, <2>1, CutCells
    <2>3. WholeUpTo(cells, Len(cells'))
      BY <2>1, <2>2 DEF RepairGrammar, ScanAt
    <2>4. Grammar(cells') /\ WholeUpTo(cells', Len(cells'))
      BY <1>0, <2>2, <2>3, CutGrammar
    <2>5. RepairGrammar'
      BY <2>1, <2>4 DEF RepairGrammar
    <2>6. QED BY <2>1, <2>4, <2>5, OnlyCut
  <1>5. QED BY <1>1, <1>2, <1>3, <1>4

\* append() writes a frame header, ...
LEMMA HeaderWritten ==
  ASSUME FieldsInv, WriteFrameHeader
  PROVE  /\ pc = "frame_header" /\ pc' = "payload" /\ rec \in Frames
         /\ cells' \in Seq(AllCells) /\ Len(cells') = Len(cells) + 2
         /\ \A k \in 1 .. Len(cells) : cells'[k] = cells[k]
         /\ cells'[Len(cells) + 1] = F1(rec)
         /\ cells'[Len(cells) + 2] = F2(PayloadLen(rec))
         /\ UNCHANGED <<durable, fields, damage>>
  <1>1. /\ pc = "frame_header" /\ pc' = "payload" /\ cells' = cells \o FrameHeader(rec)
        /\ UNCHANGED <<durable, fields, damage>>
    BY DEF WriteFrameHeader
  <1>2. rec \in Frames /\ cells \in Seq(AllCells)
    BY <1>1 DEF FieldsInv, Appending
  <1>3. /\ cells' \in Seq(AllCells) /\ Len(cells') = Len(cells) + 2
        /\ \A k \in 1 .. Len(cells) : cells'[k] = cells[k]
        /\ \A k \in 1 .. 2 : cells'[Len(cells) + k] = FrameHeader(rec)[k]
    BY <1>1, <1>2, FrameCells, Grown
  <1>4. cells'[Len(cells) + 1] = F1(rec) /\ cells'[Len(cells) + 2] = F2(PayloadLen(rec))
    BY <1>2, <1>3, FrameCells
  <1>5. QED BY <1>1, <1>2, <1>3, <1>4

\* ... and the payload, which makes the frame whole.
LEMMA PayloadWritten ==
  ASSUME FieldsInv, Tracked, WritePayload
  PROVE  /\ pc = "payload" /\ pc' = "ready" /\ rec \in Frames
         /\ Len(cells) = eof_offset + 2
         /\ cells' \in Seq(AllCells) /\ Len(cells') = eof_offset + FrameSize(rec)
         /\ \A k \in 1 .. Len(cells) : cells'[k] = cells[k]
         /\ \A k \in 1 .. FrameSize(rec) : cells'[eof_offset + k] = Encode(rec)[k]
         /\ UNCHANGED <<durable, legacy_wal, data_start, damage>>
  <1>1. /\ pc = "payload" /\ pc' = "ready" /\ cells' = cells \o Payload(rec)
        /\ UNCHANGED <<durable, legacy_wal, data_start, damage>>
    BY DEF WritePayload
  <1> DEFINE n == eof_offset
  <1>2. /\ rec \in Frames /\ cells \in Seq(AllCells) /\ n \in Nat /\ Len(cells) = n + 2
        /\ cells[n + 1] = F1(rec) /\ cells[n + 2] = F2(PayloadLen(rec))
    BY <1>1 DEF FieldsInv, TypeOK, Appending, Tracked, FrameHeaderSize
  <1>3. PayloadLen(rec) \in 1 .. 2 /\ FrameSize(rec) = 2 + PayloadLen(rec)
    BY Sizes
  <1> HIDE DEF n
  <1>4. /\ cells' \in Seq(AllCells) /\ Len(cells') = Len(cells) + PayloadLen(rec)
        /\ \A k \in 1 .. Len(cells) : cells'[k] = cells[k]
        /\ \A k \in 1 .. PayloadLen(rec) : cells'[Len(cells) + k] = Payload(rec)[k]
    BY <1>1, <1>2, FrameCells, Grown
  <1>5. Len(cells') = n + FrameSize(rec)
    BY <1>2, <1>3, <1>4
  <1>6. ASSUME NEW k \in 1 .. FrameSize(rec) PROVE cells'[n + k] = Encode(rec)[k]
    <2>1. CASE k = 1
      BY <1>2, <1>4, <2>1, EncodeCells
    <2>2. CASE k = 2
      BY <1>2, <1>4, <2>2, EncodeCells
    <2>3. CASE k \in 3 .. FrameSize(rec)
      <3>1. k - 2 \in 1 .. PayloadLen(rec) /\ n + k = Len(cells) + (k - 2)
        BY <1>2, <1>3, <2>3
      <3>2. cells'[n + k] = Payload(rec)[k - 2]
        BY <1>4, <3>1
      <3>3. Payload(rec)[k - 2] = B(rec, k - 2) /\ Encode(rec)[k] = B(rec, k - 2)
        BY <1>2, <2>3, <3>1, FrameCells, EncodeCells
      <3>4. QED BY <3>2, <3>3
    <2>4. QED BY <1>3, <2>1, <2>2, <2>3
  <1>7. QED BY <1>1, <1>2, <1>4, <1>5, <1>6 DEF n

LEMMA AppendGrammar ==
  ASSUME FieldsInv, Tracked, Grammar(cells), RepairGrammar,
         \/ \E r \in Frames : AppendStart(r)
         \/ AppendRejected \/ Sync
         \/ WriteFileHeader \/ WriteFrameHeader \/ WritePayload
  PROVE  Grammar(cells') /\ RepairGrammar' /\ NoWholeFrameIsCut'
  <1>0. cells \in Seq(AllCells) /\ Len(cells) \in Nat /\ eof_offset \in Nat
    BY DEF FieldsInv, TypeOK
  <1>1. CASE (\E r \in Frames : AppendStart(r)) \/ AppendRejected \/ Sync
    <2>1. /\ cells' = cells /\ pc \in {"ready", "frame_header"}
          /\ pc' \in {"ready", "file_header", "frame_header"}
      BY <1>1 DEF AppendStart, AppendRejected, Sync
    <2>2. RepairGrammar'
      BY <2>1 DEF RepairGrammar
    <2>3. QED BY <2>1, <2>2, OnlyCut
  <1>2. CASE WriteFileHeader
    <2>1. pc = "file_header" /\ pc' = "frame_header" /\ cells' = OverStart(HeaderCells)
      BY <1>2 DEF WriteFileHeader
    <2>2. Len(cells) = 0
      BY <2>1 DEF FieldsInv, Tracked
    <2>3. cells = <<>>
      BY <1>0, <2>2
    <2>4. cells' = HeaderCells
      BY <1>0, <2>1, <2>3, HeaderIs, OverStartIs
    <2>5. Grammar(cells') /\ WholeUpTo(cells', Len(cells'))
      BY <2>4, HeaderIs, FirstHeader
    <2>6. RepairGrammar'
      BY <2>1, <2>5 DEF RepairGrammar
    <2>7. QED BY <2>1, <2>5, <2>6, OnlyCut
  <1>3. CASE WriteFrameHeader
    <2>1. /\ pc = "frame_header" /\ pc' = "payload" /\ rec \in Frames
          /\ cells' \in Seq(AllCells) /\ Len(cells') = Len(cells) + 2
          /\ \A k \in 1 .. Len(cells) : cells'[k] = cells[k]
          /\ cells'[Len(cells) + 1] = F1(rec) /\ cells'[Len(cells) + 2] = F2(PayloadLen(rec))
          /\ eof_offset' = eof_offset
      BY <1>3, HeaderWritten DEF fields
    <2>2. eof_offset = Len(cells) /\ WholeUpTo(cells, Len(cells))
      BY <2>1 DEF Tracked, RepairGrammar
    <2>3. Grammar(cells') /\ WholeUpTo(cells', Len(cells))
      BY <1>0, <2>1, <2>2, HeaderGrammar
    <2>4. RepairGrammar'
      BY <2>1, <2>2, <2>3 DEF RepairGrammar
    <2>5. QED BY <2>1, <2>3, <2>4, OnlyCut
  <1>4. CASE WritePayload
    <2> DEFINE n == eof_offset
    <2>1. /\ pc = "payload" /\ pc' = "ready" /\ rec \in Frames /\ Len(cells) = n + 2
          /\ cells' \in Seq(AllCells) /\ Len(cells') = n + FrameSize(rec)
          /\ \A k \in 1 .. Len(cells) : cells'[k] = cells[k]
          /\ \A k \in 1 .. FrameSize(rec) : cells'[n + k] = Encode(rec)[k]
      BY <1>4, PayloadWritten
    <2>2. WholeUpTo(cells, n) /\ n \in Nat
      BY <1>0, <2>1 DEF RepairGrammar
    <2> HIDE DEF n
    <2>3. Grammar(cells') /\ WholeUpTo(cells', Len(cells'))
      BY <1>0, <2>1, <2>2, PayloadGrammar
    <2>4. RepairGrammar'
      BY <2>1, <2>3 DEF RepairGrammar
    <2>5. QED BY <2>1, <2>3, <2>4, OnlyCut
  <1>5. QED BY <1>1, <1>2, <1>3, <1>4

LEMMA CrashGrammar ==
  ASSUME FieldsInv, FieldsInv', Grammar(cells),
         Kill \/ PowerLoss \/ \E p \in 1 .. Len(cells) : Rot(p) /\ damage' \subseteq {"B"}
  PROVE  Grammar(cells') /\ RepairGrammar' /\ NoWholeFrameIsCut'
  <1>0. cells \in Seq(AllCells) /\ Len(cells) \in Nat /\ cells' \in Seq(AllCells)
    BY DEF FieldsInv
  <1>1. pc' = "closed"
    BY DEF Kill, PowerLoss, Gone, Rot
  <1>2. RepairGrammar' /\ NoWholeFrameIsCut'
    BY <1>1, OnlyCut DEF RepairGrammar
  <1>3. CASE Kill
    BY <1>2, <1>3 DEF Kill
  <1>4. CASE PowerLoss
    <2>1. PICK n \in durable .. Len(cells) : cells' = SubSeq(cells, 1, n)
      BY <1>4 DEF PowerLoss
    <2>2. n \in 0 .. Len(cells)
      BY <1>0, <2>1 DEF FieldsInv, TypeOK
    <2>3. /\ Len(cells') = n /\ Len(cells') <= Len(cells)
          /\ \A k \in 1 .. Len(cells') : cells'[k] = cells[k]
      BY <1>0, <2>1, <2>2, CutCells
    <2>4. QED BY <1>0, <1>2, <2>3, CutGrammar
  <1>5. ASSUME NEW p \in 1 .. Len(cells), Rot(p), damage' \subseteq {"B"} PROVE Grammar(cells')
    <2>1. cells[p][1] = "B" /\ cells' = [cells EXCEPT ![p] = Rotten]
      BY <1>5 DEF Rot
    <2>2. QED BY <1>0, <2>1, RotGrammar
  <1>6. QED BY <1>2, <1>3, <1>4, <1>5

LEMMA GrammarInit == Init => GrammarInv
  <1> SUFFICES ASSUME Init PROVE Grammar(cells) /\ RepairGrammar /\ NoWholeFrameIsCut
    BY DEF GrammarInv
  <1>1. Grammar(cells)
    <2>1. CASE cells = <<>> BY <2>1, FirstHeader
    <2>2. ASSUME NEW r \in Frames, cells = Encode(r) PROVE Grammar(cells)
      BY <2>2, FirstFrame
    <2>3. QED BY <2>1, <2>2 DEF Init
  <1>2. QED BY <1>1 DEF Init, RepairGrammar, NoWholeFrameIsCut

LEMMA GrammarNext ==
  ASSUME FieldsInv, OffsetsInv, GrammarInv, FieldsInv', [Next]_vars
  PROVE  GrammarInv'
  <1> SUFFICES ASSUME damage' \subseteq {"B"}
               PROVE  Grammar(cells') /\ RepairGrammar' /\ NoWholeFrameIsCut'
    BY DEF GrammarInv
  <1>1. damage \subseteq {"B"} /\ ~TruncateFails /\ ~WriteFails
    <2>1. damage \subseteq damage'
      BY DEF vars, Next, Open, OpenAgain, RepairStep, ScanFrame, ScanDone, Truncate,
             TruncateFails, AppendStart, WriteFileHeader, AppendRejected, WriteFrameHeader,
             WritePayload, WriteFails, Sync, Kill, PowerLoss, Rot
    <2>2. TruncateFails \/ WriteFails => "W" \in damage'
      BY DEF TruncateFails, WriteFails
    <2>3. "W" # "B"
      OBVIOUS
    <2>4. QED BY <2>1, <2>2, <2>3
  <1>2. Grammar(cells) /\ RepairGrammar /\ NoWholeFrameIsCut
    BY <1>1 DEF GrammarInv
  <1>3. Tracked
    BY <1>1 DEF OffsetsInv
  <1>4. CASE UNCHANGED vars
    BY <1>2, <1>4 DEF vars, fields, scan, RepairGrammar, NoWholeFrameIsCut, WholeFrameAt, Spells,
                      Encode, FrameHeader, Payload, PayloadLen, Frames, PutFrames, DeleteFrames
  <1>5. CASE Next
    BY <1>1, <1>2, <1>3, <1>5, OpenGrammar, ScanFrameGrammar, AppendGrammar, CrashGrammar
    DEF Next, RepairStep
  <1>6. QED BY <1>4, <1>5

\* In every state of the WAL and of its repair (log_manager.cpp) the fields stay
\* within the file, the offsets handed out are frames until a write fails, and
\* a file in which only payload has rotted is a header and frames up to the
\* first rotten cell.
THEOREM LogInvariant == Spec => []LogInv
  <1>1. Init => LogInv
    BY FieldsInit, OffsetsInit, GrammarInit DEF LogInv
  <1>2. LogInv /\ [Next]_vars => LogInv'
    BY FieldsNext, OffsetsNext, GrammarNext DEF LogInv
  <1>3. QED BY <1>1, <1>2, PTL DEF Spec

\* As long as only payload has rotted, in however many cells, the tail that
\* repair is about to cut off holds no whole frame: for files of any length,
\* over any sequence of appends, torn tails, crashes and repairs.
THEOREM RotCutsNoFrame == Spec => []PayloadRotCutsNoFrame
  <1>1. LogInv => PayloadRotCutsNoFrame
    BY DEF LogInv, GrammarInv, PayloadRotCutsNoFrame
  <1>2. QED BY <1>1, LogInvariant, PTL

(***************************************************************************)
(* The log of whole frames: its view of the file                           *)
(***************************************************************************)

\* While writes do not fail and no cell rots.
Unharmed ==
  /\ damage = {}
  /\ \A k \in 1 .. Len(cells) : cells[k] # Rotten
  /\ durable <= Len(cells)
  /\ pc # "failed"

\* The fields of an open log tell whether the file begins with a file header.
FieldsTell ==
  pc # "closed" =>
    /\ data_start = IF IsV2 THEN FileHeaderSize ELSE 0
    /\ IsV2 => ~legacy_wal
    /\ (~IsV2 /\ ~legacy_wal) => cells = <<>>
    /\ pc \in {"repair", "truncate"} => (legacy_wal <=> Len(cells) > 0 /\ ~IsV2)
    /\ pc = "file_header" => cells = <<>> /\ ~legacy_wal
    /\ pc \in {"frame_header", "payload"} => (legacy_wal \/ IsV2)

NoInv(e, k, h) == TRUE
ItemLoop == INSTANCE FoldRule WITH Step <- AddItem, Inv <- NoInv

\* The items that end within the first n cells.
UpTo(c, n) == ItemLoop!Rounds(c, <<>>, n)

LEMMA UpToNext ==
  ASSUME NEW c
  PROVE  /\ UpTo(c, 0) = <<>>
         /\ \A n \in Nat : UpTo(c, n + 1) = AddItem(c, UpTo(c, n), n + 1)
  BY ItemLoop!RoundsNext DEF UpTo

LEMMA ItemsAre ==
  ASSUME NEW c
  PROVE  ItemsOf(c) = UpTo(c, Len(c))
  BY DEF ItemsOf, UpTo, ItemLoop!Rounds

LEMMA HeaderNoFrame == FileHeader \notin Frames
  BY WalFramesAssumption DEF FileHeader, Frames, PutFrames, DeleteFrames

\* An item that ends, cell by cell.
LEMMA Ends ==
  ASSUME NEW c \in Seq(AllCells), NEW n \in 1 .. Len(c), NEW it
  PROVE  it \in EndingAt(c, n) <=>
           \/ /\ it \in Frames /\ FrameSize(it) <= n
              /\ \A k \in 1 .. FrameSize(it) : c[(n - FrameSize(it)) + k] = Encode(it)[k]
           \/ it = FileHeader /\ n = 2 /\ c[1] = <<"H1">> /\ c[2] = <<"H2">>
  <1>0. Len(c) \in Nat /\ n \in Nat /\ n <= Len(c)
    OBVIOUS
  <1>1. ASSUME it \in Frames
        PROVE  it \in EndingAt(c, n) <=>
                 /\ FrameSize(it) <= n
                 /\ \A k \in 1 .. FrameSize(it) : c[(n - FrameSize(it)) + k] = Encode(it)[k]
    <2> DEFINE s == Encode(it)
               p == n - Len(s)
    <2>1. s \in Seq(AllCells) /\ Len(s) = FrameSize(it) /\ FrameSize(it) \in 3 .. 4
      BY <1>1, EncodeCells, Sizes
    <2>2. it # FileHeader /\ it \in Items /\ ItemCells(it) = s
      BY <1>1, HeaderNoFrame DEF Items, ItemCells
    <2> HIDE DEF s
    <2>3. it \in EndingAt(c, n) <=> (Len(s) <= n /\ SubSeq(c, n - Len(s) + 1, n) = s)
      BY <2>2 DEF EndingAt
    <2>4. p \in Int /\ p + Len(s) = n /\ (p >= 0 <=> Len(s) <= n) /\ n - Len(s) + 1 = p + 1
      BY <1>0, <2>1
    <2> HIDE DEF p
    <2>5. (p >= 0 /\ p + Len(s) <= Len(c) /\ SubSeq(c, p + 1, p + Len(s)) = s)
            <=> (p >= 0 /\ p + Len(s) <= Len(c) /\ \A k \in 1 .. Len(s) : c[p + k] = s[k])
      BY <2>1, <2>4, SpellsCells
    <2>6. it \in EndingAt(c, n) <=> (Len(s) <= n /\ \A k \in 1 .. Len(s) : c[p + k] = s[k])
      BY <1>0, <2>3, <2>4, <2>5
    <2>7. QED BY <2>1, <2>6 DEF s, p
  <1>2. ASSUME it = FileHeader
        PROVE  it \in EndingAt(c, n) <=> (n = 2 /\ c[1] = <<"H1">> /\ c[2] = <<"H2">>)
    <2> DEFINE s == HeaderCells
    <2>1. s \in Seq(AllCells) /\ Len(s) = 2 /\ s[1] = <<"H1">> /\ s[2] = <<"H2">>
      BY HeaderIs
    <2>2. it \in Items /\ ItemCells(it) = s
      BY <1>2 DEF Items, ItemCells
    <2> HIDE DEF s
    <2>3. it \in EndingAt(c, n) <=>
            (Len(s) <= n /\ SubSeq(c, n - Len(s) + 1, n) = s /\ n = 2)
      BY <1>2, <2>2 DEF EndingAt, FileHeaderSize
    <2>4. it \in EndingAt(c, n) <=> (n = 2 /\ SubSeq(c, 1, 2) = s)
      BY <2>1, <2>3
    <2>5. (0 >= 0 /\ 0 + Len(s) <= Len(c) /\ SubSeq(c, 0 + 1, 0 + Len(s)) = s)
            <=> (0 >= 0 /\ 0 + Len(s) <= Len(c) /\ \A k \in 1 .. Len(s) : c[0 + k] = s[k])
      BY <2>1, SpellsCells
    <2>6. n = 2 => (SubSeq(c, 1, 2) = s <=> \A k \in 1 .. 2 : c[k] = s[k])
      BY <1>0, <2>1, <2>5
    <2>7. (\A k \in 1 .. 2 : c[k] = s[k]) <=> (c[1] = s[1] /\ c[2] = s[2])
      OBVIOUS
    <2>8. QED BY <2>1, <2>4, <2>6, <2>7
  <1>3. it \in EndingAt(c, n) => it \in Frames \/ it = FileHeader
    BY DEF EndingAt, Items
  <1>4. QED BY <1>1, <1>2, <1>3

\* An item is known by its last cell, and so ends with no other.
LEMMA LastCell ==
  ASSUME NEW c \in Seq(AllCells), NEW n \in 1 .. Len(c), NEW it \in EndingAt(c, n)
  PROVE  \/ it \in Frames /\ c[n] = B(it, PayloadLen(it))
         \/ it = FileHeader /\ n = 2 /\ c[n] = <<"H2">>
  <1>1. ASSUME it \in Frames, FrameSize(it) <= n,
               \A k \in 1 .. FrameSize(it) : c[(n - FrameSize(it)) + k] = Encode(it)[k]
        PROVE  c[n] = B(it, PayloadLen(it))
    <2>1. /\ FrameSize(it) \in 3 .. 4 /\ FrameSize(it) - 2 = PayloadLen(it)
          /\ FrameSize(it) \in 1 .. FrameSize(it) /\ FrameSize(it) \in 3 .. FrameSize(it)
          /\ (n - FrameSize(it)) + FrameSize(it) = n
      BY Sizes
    <2>2. Encode(it)[FrameSize(it)] = B(it, FrameSize(it) - 2)
      BY <1>1, <2>1, EncodeCells
    <2>3. QED BY <1>1, <2>1, <2>2
  <1>2. QED BY <1>1, Ends

LEMMA OneEnds ==
  ASSUME NEW c \in Seq(AllCells), NEW n \in 1 .. Len(c), NEW it \in EndingAt(c, n)
  PROVE  EndingAt(c, n) = {it}
  <1>1. ASSUME NEW jt \in EndingAt(c, n) PROVE jt = it
    <2>1. /\ B(it, PayloadLen(it))[2] = it /\ B(jt, PayloadLen(jt))[2] = jt
          /\ B(it, PayloadLen(it))[1] = "B" /\ B(jt, PayloadLen(jt))[1] = "B"
          /\ <<"H2">>[1] = "H2"
      BY DEF B
    <2>2. QED BY <2>1, LastCell
  <1>2. QED BY <1>1

\* No item ends inside a frame.
LEMMA NoneEnds ==
  ASSUME NEW c \in Seq(AllCells), NEW n \in 1 .. Len(c), NEW r \in Frames,
         NEW k \in 1 .. FrameSize(r) - 1, c[n] = Encode(r)[k]
  PROVE  EndingAt(c, n) = {}
  <1>0. FrameSize(r) = 2 + PayloadLen(r) /\ PayloadLen(r) \in 1 .. 2
    BY Sizes
  <1>1. \/ c[n] = F1(r)
        \/ c[n] = F2(PayloadLen(r))
        \/ k - 2 # PayloadLen(r) /\ c[n] = B(r, k - 2)
    <2>1. k = 1 \/ k = 2 \/ k \in 3 .. FrameSize(r)
      BY <1>0
    <2>2. k - 2 # PayloadLen(r)
      BY <1>0
    <2>3. QED BY <2>1, <2>2, EncodeCells
  <1>2. ASSUME NEW it \in EndingAt(c, n) PROVE FALSE
    <2>1. /\ F1(r)[1] = "F1" /\ F2(PayloadLen(r))[1] = "F2" /\ B(r, k - 2)[1] = "B"
          /\ B(r, k - 2)[2] = r /\ B(r, k - 2)[3] = k - 2
          /\ B(it, PayloadLen(it))[1] = "B" /\ B(it, PayloadLen(it))[2] = it
          /\ B(it, PayloadLen(it))[3] = PayloadLen(it) /\ <<"H2">>[1] = "H2"
      BY DEF B, F1, F2
    <2>2. c[n] = B(it, PayloadLen(it)) \/ c[n] = <<"H2">>
      BY LastCell
    <2>3. CASE c[n] = B(r, k - 2) /\ k - 2 # PayloadLen(r)
      <3>1. c[n] = B(it, PayloadLen(it))
        BY <2>1, <2>2, <2>3
      <3>2. it = r
        BY <2>1, <2>3, <3>1
      <3>3. PayloadLen(it) = k - 2
        BY <2>1, <2>3, <3>1
      <3>4. QED BY <2>3, <3>2, <3>3
    <2>4. CASE c[n] = F1(r) \/ c[n] = F2(PayloadLen(r))
      BY <2>1, <2>2, <2>4
    <2>5. QED BY <1>1, <2>3, <2>4
  <1>3. QED BY <1>2
\* One more cell adds the item that ends with it, or nothing.
LEMMA UpToStep ==
  ASSUME NEW c \in Seq(AllCells), NEW n \in 1 .. Len(c)
  PROVE  /\ EndingAt(c, n) = {} => UpTo(c, n) = UpTo(c, n - 1)
         /\ \A it \in EndingAt(c, n) : UpTo(c, n) = Append(UpTo(c, n - 1), it)
  <1>1. n - 1 \in Nat /\ (n - 1) + 1 = n
    OBVIOUS
  <1>2. UpTo(c, n) = AddItem(c, UpTo(c, n - 1), n)
    BY <1>1, UpToNext
  <1>3. ASSUME NEW it \in EndingAt(c, n)
        PROVE  UpTo(c, n) = Append(UpTo(c, n - 1), it)
    <2>1. EndingAt(c, n) = {it}
      BY OneEnds
    <2>2. QED BY <1>2, <2>1 DEF AddItem
  <1>4. QED BY <1>2, <1>3 DEF AddItem

\* The items of a file are those that end in it; there are no more of them
\* than cells.
LEMMA UpToIs ==
  ASSUME NEW c \in Seq(AllCells), NEW m \in 0 .. Len(c)
  PROVE  /\ UpTo(c, m) \in Seq(Items) /\ Len(UpTo(c, m)) <= m
         /\ \A i \in 1 .. Len(UpTo(c, m)) : \E k \in 1 .. m : UpTo(c, m)[i] \in EndingAt(c, k)
  <1> DEFINE Good(n) == /\ UpTo(c, n) \in Seq(Items) /\ Len(UpTo(c, n)) <= n
                        /\ \A i \in 1 .. Len(UpTo(c, n)) :
                             \E k \in 1 .. n : UpTo(c, n)[i] \in EndingAt(c, k)
             T == {n \in Nat : n <= Len(c) => Good(n)}
  <1>1. 0 \in T
    <2>1. UpTo(c, 0) = <<>>
      BY UpToNext
    <2>2. <<>> \in Seq(Items) /\ Len(<<>>) = 0 /\ 1 .. 0 = {}
      OBVIOUS
    <2> DEFINE u == UpTo(c, 0)
    <2>a. u = <<>>
      BY <2>1
    <2> HIDE DEF u
    <2>3. u \in Seq(Items) /\ Len(u) <= 0 /\ 1 .. Len(u) = {}
      BY <2>2, <2>a
    <2>4. \A i \in 1 .. Len(u) : \E k \in 1 .. 0 : u[i] \in EndingAt(c, k)
      BY <2>3
    <2>5. QED BY <2>3, <2>4 DEF u
  <1>2. ASSUME NEW n \in Nat, n \in T PROVE n + 1 \in T
    <2> SUFFICES ASSUME n + 1 <= Len(c) PROVE Good(n + 1)
      OBVIOUS
    <2> DEFINE u == UpTo(c, n)
               v == UpTo(c, n + 1)
    <2>1. n + 1 \in 1 .. Len(c) /\ (n + 1) - 1 = n
      OBVIOUS
    <2>2. /\ u \in Seq(Items) /\ Len(u) <= n
          /\ \A i \in 1 .. Len(u) : \E k \in 1 .. n : u[i] \in EndingAt(c, k)
      BY <1>2
    <2>3. /\ EndingAt(c, n + 1) = {} => v = u
          /\ \A it \in EndingAt(c, n + 1) : v = Append(u, it)
      BY <2>1, UpToStep
    <2>a. EndingAt(c, n + 1) \subseteq Items
      BY DEF EndingAt
    <2> HIDE DEF u, v
    <2>4. CASE EndingAt(c, n + 1) = {}
      <3>1. v = u
        BY <2>3, <2>4
      <3>2. /\ v \in Seq(Items) /\ Len(v) <= n + 1
            /\ \A i \in 1 .. Len(v) : \E k \in 1 .. n + 1 : v[i] \in EndingAt(c, k)
        BY <2>2, <3>1
      <3>3. QED BY <3>2 DEF v
    <2>5. CASE EndingAt(c, n + 1) # {}
      <3>1. PICK it \in EndingAt(c, n + 1) : TRUE
        BY <2>5
      <3>2. v = Append(u, it) /\ it \in Items
        BY <2>3, <2>a, <3>1
      <3>3. /\ v \in Seq(Items) /\ Len(v) = Len(u) + 1 /\ v[Len(u) + 1] = it
            /\ \A i \in 1 .. Len(u) : v[i] = u[i]
        BY <2>2, <3>2
      <3>4. ASSUME NEW i \in 1 .. Len(v) PROVE \E k \in 1 .. n + 1 : v[i] \in EndingAt(c, k)
        <4>1. CASE i \in 1 .. Len(u)
          <5>1. PICK k \in 1 .. n : u[i] \in EndingAt(c, k)
            BY <2>2, <4>1
          <5>2. k \in 1 .. n + 1
            OBVIOUS
          <5>3. QED BY <3>3, <4>1, <5>1, <5>2
        <4>2. CASE i = Len(u) + 1
          <5>1. n + 1 \in 1 .. n + 1
            OBVIOUS
          <5>2. QED BY <3>1, <3>3, <4>2, <5>1
        <4>3. QED BY <2>2, <3>3, <4>1, <4>2
      <3>5. v \in Seq(Items) /\ Len(v) <= n + 1
        BY <2>2, <3>3
      <3>6. QED BY <3>4, <3>5 DEF v
    <2>6. QED BY <2>4, <2>5
  <1> HIDE DEF Good
  <1>3. Nat \subseteq T
    <2> HIDE DEF T
    <2>1. QED BY <1>1, <1>2, ItemLoop!NatSet
  <1>4. m \in T /\ m <= Len(c)
    BY <1>3
  <1>5. Good(m)
    BY <1>4
  <1>6. QED BY <1>5 DEF Good

\* Files with the same cells hold the same items.
LEMMA UpToSame ==
  ASSUME NEW c \in Seq(AllCells), NEW d \in Seq(AllCells), NEW m \in 0 .. Len(c),
         m <= Len(d), \A k \in 1 .. m : d[k] = c[k]
  PROVE  /\ \A n \in 1 .. m : EndingAt(d, n) = EndingAt(c, n)
         /\ \A n \in 0 .. m : UpTo(d, n) = UpTo(c, n)
  <1>0. Len(c) \in Nat /\ Len(d) \in Nat /\ m \in Nat
    OBVIOUS
  <1>1. ASSUME NEW n \in 1 .. m PROVE EndingAt(d, n) = EndingAt(c, n)
    <2>0. n \in 1 .. Len(c) /\ n \in 1 .. Len(d)
      BY <1>0
    <2>1. ASSUME NEW it PROVE it \in EndingAt(d, n) <=> it \in EndingAt(c, n)
      <3>1. ASSUME it \in Frames, FrameSize(it) <= n
            PROVE  (\A k \in 1 .. FrameSize(it) : d[(n - FrameSize(it)) + k] = Encode(it)[k])
                     <=> \A k \in 1 .. FrameSize(it) : c[(n - FrameSize(it)) + k] = Encode(it)[k]
        <4>1. FrameSize(it) \in 3 .. 4
          BY Sizes
        <4>2. \A k \in 1 .. FrameSize(it) : (n - FrameSize(it)) + k \in 1 .. m
          BY <3>1, <4>1
        <4>3. QED BY <4>2
      <3>2. n = 2 => d[1] = c[1] /\ d[2] = c[2]
        BY <1>0
      <3>3. QED BY <2>0, <3>1, <3>2, Ends
    <2>2. QED BY <2>1
  <1> DEFINE T == {n \in Nat : n <= m => UpTo(d, n) = UpTo(c, n)}
  <1>2. 0 \in T
    BY UpToNext
  <1>3. ASSUME NEW n \in Nat, n \in T PROVE n + 1 \in T
    <2> SUFFICES ASSUME n + 1 <= m PROVE UpTo(d, n + 1) = UpTo(c, n + 1)
      OBVIOUS
    <2>1. UpTo(d, n) = UpTo(c, n) /\ EndingAt(d, n + 1) = EndingAt(c, n + 1)
      BY <1>1, <1>3
    <2>2. /\ UpTo(d, n + 1) = AddItem(d, UpTo(d, n), n + 1)
          /\ UpTo(c, n + 1) = AddItem(c, UpTo(c, n), n + 1)
      BY UpToNext
    <2>3. QED BY <2>1, <2>2 DEF AddItem
  <1>4. Nat \subseteq T
    <2> HIDE DEF T
    <2>1. QED BY <1>2, <1>3, ItemLoop!NatSet
  <1>5. \A n \in 0 .. m : UpTo(d, n) = UpTo(c, n)
    BY <1>4
  <1>6. QED BY <1>1, <1>5

\* The items within fewer cells are the first ones.
LEMMA UpToPrefix ==
  ASSUME NEW c \in Seq(AllCells), NEW n \in 0 .. Len(c), NEW m \in 0 .. n
  PROVE  /\ Len(UpTo(c, m)) \in 0 .. Len(UpTo(c, n))
         /\ \A i \in 1 .. Len(UpTo(c, m)) : UpTo(c, n)[i] = UpTo(c, m)[i]
         /\ SubSeq(UpTo(c, n), 1, Len(UpTo(c, m))) = UpTo(c, m)
         /\ (\A k \in m + 1 .. n : EndingAt(c, k) = {}) => UpTo(c, n) = UpTo(c, m)
         /\ Len(UpTo(c, n)) = Len(UpTo(c, m)) => \A k \in m + 1 .. n : EndingAt(c, k) = {}
  <1> DEFINE a == UpTo(c, m)
             Good(k) == /\ Len(a) <= Len(UpTo(c, k))
                        /\ \A i \in 1 .. Len(a) : UpTo(c, k)[i] = a[i]
                        /\ (\A j \in m + 1 .. k : EndingAt(c, j) = {}) => UpTo(c, k) = a
                        /\ Len(UpTo(c, k)) = Len(a) => \A j \in m + 1 .. k : EndingAt(c, j) = {}
             T == {k \in Nat : m <= k /\ k <= Len(c) => Good(k)}
  <1>0. a \in Seq(Items)
    BY UpToIs
  <1>1. ASSUME NEW k \in Nat, k = m PROVE Good(k)
    <2>1. UpTo(c, k) = a /\ m + 1 .. k = {}
      BY <1>1
    <2>2. QED BY <1>0, <2>1
  <1>2. ASSUME NEW k \in Nat, m <= k, k + 1 <= Len(c), Good(k) PROVE Good(k + 1)
    <2> DEFINE u == UpTo(c, k)
               v == UpTo(c, k + 1)
    <2>1. k + 1 \in 1 .. Len(c) /\ (k + 1) - 1 = k /\ k \in 0 .. Len(c)
      BY <1>2
    <2>2. u \in Seq(Items)
      BY <2>1, UpToIs
    <2>3. /\ EndingAt(c, k + 1) = {} => v = u
          /\ \A it \in EndingAt(c, k + 1) : v = Append(u, it)
      BY <2>1, UpToStep
    <2>4. /\ Len(a) <= Len(u) /\ \A i \in 1 .. Len(a) : u[i] = a[i]
          /\ (\A j \in m + 1 .. k : EndingAt(c, j) = {}) => u = a
          /\ Len(u) = Len(a) => \A j \in m + 1 .. k : EndingAt(c, j) = {}
      BY <1>2
    <2>5. \A j \in m + 1 .. k + 1 : j \in m + 1 .. k \/ j = k + 1
      OBVIOUS
    <2>6. k + 1 \in m + 1 .. k + 1 /\ \A j \in m + 1 .. k : j \in m + 1 .. k + 1
      BY <1>2
    <2>7. EndingAt(c, k + 1) \subseteq Items
      BY DEF EndingAt
    <2> HIDE DEF a, u, v
    <2>8. CASE EndingAt(c, k + 1) = {}
      <3>1. v = u
        BY <2>3, <2>8
      <3>2. QED BY <2>4, <2>5, <2>6, <2>8, <3>1 DEF v
    <2>9. CASE EndingAt(c, k + 1) # {}
      <3>1. PICK it \in EndingAt(c, k + 1) : TRUE
        BY <2>9
      <3>2. v = Append(u, it) /\ it \in Items
        BY <2>3, <2>7, <3>1
      <3>3. Len(v) = Len(u) + 1 /\ Len(a) \in Nat /\ Len(u) \in Nat
            /\ \A i \in 1 .. Len(u) : v[i] = u[i]
        BY <1>0, <2>2, <3>2
      <3>4. Len(a) <= Len(v) /\ Len(v) # Len(a) /\ \A i \in 1 .. Len(a) : v[i] = a[i]
        BY <2>4, <3>3
      <3>5. ~ \A j \in m + 1 .. k + 1 : EndingAt(c, j) = {}
        BY <2>6, <2>9
      <3>6. QED BY <3>4, <3>5 DEF v
    <2>10. QED BY <2>8, <2>9
  <1>n. m \in Nat /\ n \in Nat /\ m <= n /\ n <= Len(c)
    OBVIOUS
  <1> HIDE DEF Good
  <1>3. 0 \in T
    <2>1. m <= 0 => m = 0
      OBVIOUS
    <2>2. QED BY <1>1, <2>1
  <1>4. ASSUME NEW k \in Nat, k \in T PROVE k + 1 \in T
    <2> SUFFICES ASSUME m <= k + 1, k + 1 <= Len(c) PROVE Good(k + 1)
      OBVIOUS
    <2>1. k + 1 = m \/ m <= k
      OBVIOUS
    <2>2. CASE k + 1 = m BY <1>1, <2>2
    <2>3. CASE m <= k
      <3>1. k <= Len(c)
        OBVIOUS
      <3>2. Good(k)
        BY <1>4, <2>3, <3>1
      <3>3. QED BY <1>2, <2>3, <3>2
    <2>4. QED BY <2>1, <2>2, <2>3
  <1>5. Nat \subseteq T
    <2> HIDE DEF T
    <2>1. QED BY <1>3, <1>4, ItemLoop!NatSet
  <1>6. Good(n)
    BY <1>n, <1>5
  <1>7. UpTo(c, n) \in Seq(Items) /\ Len(a) \in Nat
    BY <1>0, UpToIs
  <1>8. SubSeq(UpTo(c, n), 1, Len(a)) = a
    <2> DEFINE u == UpTo(c, n)
               w == SubSeq(u, 1, Len(a))
    <2>1. u \in Seq(Items) /\ Len(a) \in 0 .. Len(u) /\ \A i \in 1 .. Len(a) : u[i] = a[i]
      BY <1>6, <1>7 DEF Good
    <2> HIDE DEF u
    <2>2. w \in Seq(Items) /\ Len(w) = Len(a) /\ \A i \in 1 .. Len(a) : w[i] = u[i]
      BY <2>1, CutCells
    <2> HIDE DEF a, w
    <2>3. \A i \in 1 .. Len(w) : w[i] = a[i]
      BY <2>1, <2>2
    <2>4. w = a
      BY <1>0, <2>2, <2>3, SeqsEqual
    <2>5. QED BY <2>4 DEF w, u
  <1>9. QED BY <1>6, <1>7, <1>8 DEF Good

\* The list begins with the file header just when the file does.
LEMMA HeaderFirst ==
  ASSUME NEW c \in Seq(AllCells), (Len(c) >= 2 /\ c[1] = <<"H1">>) => c[2] = <<"H2">>
  PROVE  (Len(c) >= 2 /\ c[1] = <<"H1">>)
           <=> UpTo(c, Len(c)) # <<>> /\ UpTo(c, Len(c))[1] = FileHeader
  <1> DEFINE n == Len(c)
  <1>0. n \in Nat /\ n \in 0 .. Len(c)
    OBVIOUS
  <1>u. UpTo(c, n) \in Seq(Items)
    BY <1>0, UpToIs
  <1>1. ASSUME UpTo(c, n) # <<>>, UpTo(c, n)[1] = FileHeader PROVE n >= 2 /\ c[1] = <<"H1">>
    <2>1. 1 \in 1 .. Len(UpTo(c, n))
      BY <1>1, <1>u
    <2>2. PICK k \in 1 .. n : FileHeader \in EndingAt(c, k)
      BY <1>0, <1>1, <2>1, UpToIs
    <2>3. k \in 1 .. Len(c)
      OBVIOUS
    <2>4. k = 2 /\ c[1] = <<"H1">>
      BY <2>2, <2>3, HeaderNoFrame, Ends
    <2>5. QED BY <2>4
  <1>2. ASSUME n >= 2, c[1] = <<"H1">>
        PROVE  UpTo(c, n) # <<>> /\ UpTo(c, n)[1] = FileHeader
    <2>1. FileHeader \in EndingAt(c, 2)
      BY <1>0, <1>2, Ends
    <2>2. EndingAt(c, 1) = {}
      <3>1. \A it \in Frames : ~(FrameSize(it) <= 1)
        <4>1. \A it \in Frames : FrameSize(it) \in 3 .. 4
          BY Sizes
        <4>2. QED BY <4>1
      <3>2. 1 \in 1 .. Len(c)
        BY <1>0, <1>2
      <3>3. QED BY <3>1, <3>2, Ends
    <2>3. UpTo(c, 1) = <<>>
      <3>1. 1 \in 1 .. Len(c) /\ 1 - 1 = 0
        BY <1>0, <1>2
      <3>2. QED BY <2>2, <3>1, UpToStep, UpToNext
    <2>4. UpTo(c, 2) = <<FileHeader>>
      <3>1. 2 \in 1 .. Len(c) /\ 2 - 1 = 1
        BY <1>0, <1>2
      <3>2. UpTo(c, 2) = Append(<<>>, FileHeader)
        BY <2>1, <2>3, <3>1, UpToStep
      <3>3. QED BY <3>2
    <2>5. 2 \in 0 .. n
      BY <1>0, <1>2
    <2>6. Len(UpTo(c, 2)) = 1 /\ UpTo(c, 2)[1] = FileHeader
      BY <2>4
    <2>7. 1 \in 0 .. Len(UpTo(c, n)) /\ UpTo(c, n)[1] = FileHeader
      BY <1>0, <2>5, <2>6, UpToPrefix
    <2>8. UpTo(c, n) # <<>>
      BY <2>7
    <2>9. QED BY <2>7, <2>8
  <1>3. QED BY <1>1, <1>2

Harmless == ~WriteMayFail /\ MaxDamage = 0

\* What LogInv says of an unharmed log.
LEMMA Clean ==
  ASSUME LogInv, Unharmed
  PROVE  /\ FieldsInv /\ Tracked /\ Grammar(cells) /\ RepairGrammar /\ NoWholeFrameIsCut
         /\ cells \in Seq(AllCells) /\ Len(cells) \in Nat /\ eof_offset \in Nat
         /\ durable \in 0 .. Len(cells) /\ cursor \in Nat /\ last_good \in Nat
         /\ IsV2 <=> (Len(cells) >= 2 /\ cells[1] = <<"H1">>)
         /\ IsV2 => cells[2] = <<"H2">>
  <1>1. FieldsInv /\ Tracked /\ Grammar(cells) /\ RepairGrammar /\ NoWholeFrameIsCut
    BY DEF LogInv, OffsetsInv, GrammarInv, Unharmed
  <1>2. /\ cells \in Seq(AllCells) /\ Len(cells) \in Nat /\ eof_offset \in Nat
        /\ durable \in Nat /\ cursor \in Nat /\ last_good \in Nat
    BY <1>1, LogManagerAssumption DEF FieldsInv, TypeOK
  <1>3. durable \in 0 .. Len(cells)
    BY <1>2 DEF Unharmed
  <1>4. IsV2 <=> (Len(cells) >= 2 /\ cells[1] = <<"H1">>)
    BY DEF IsV2, FileHeaderSize
  <1>5. IsV2 => cells[2] = <<"H2">>
    BY <1>1, <1>4 DEF Grammar
  <1>6. QED BY <1>1, <1>2, <1>3, <1>4, <1>5

LEMMA NextV2 == IsV2' <=> (Len(cells') >= 2 /\ cells'[1] = <<"H1">>)
  BY DEF IsV2, FileHeaderSize

LEMMA NoHarm ==
  ASSUME Harmless, Unharmed
  PROVE  ~OpenAgain /\ ~TruncateFails /\ ~WriteFails /\ \A p \in 1 .. Len(cells) : ~Rot(p)
  <1>1. ~OpenAgain /\ ~TruncateFails /\ ~WriteFails
    BY DEF Harmless, Unharmed, OpenAgain, TruncateFails, WriteFails
  <1>2. ASSUME NEW p \in 1 .. Len(cells), Rot(p) PROVE FALSE
    <2>1. Cardinality(damage \ {"W"}) < MaxDamage
      BY <1>2 DEF Rot
    <2>2. damage \ {"W"} = {} /\ Cardinality({}) = 0 /\ MaxDamage = 0
      BY FS_EmptySet DEF Harmless, Unharmed
    <2>3. Cardinality(damage \ {"W"}) = 0
      BY <2>2
    <2>4. QED BY <2>1, <2>2, <2>3
  <1>3. QED BY <1>1, <1>2

\* open() finds the version right.
LEMMA OpenStep ==
  ASSUME LogInv, Unharmed, Open
  PROVE  /\ pc = "closed" /\ pc' = "repair"
         /\ legacy_wal' = (Len(cells) > 0 /\ ~IsV2)
         /\ data_start' = IF IsV2 THEN FileHeaderSize ELSE 0
         /\ UNCHANGED <<cells, durable, damage>>
  <1>1. VersionsOk = {TRUE}
    BY Clean DEF VersionsOk
  <1>2. QED BY <1>1 DEF Open

\* The scan meets whole frames and at most a torn one.
LEMMA ScanStep ==
  ASSUME LogInv, Unharmed, ScanFrame
  PROVE  /\ pc = "repair" /\ pc' \in {"repair", "truncate"}
         /\ UNCHANGED <<cells, durable, fields, damage>>
  <1> DEFINE n == cursor
  <1>1. /\ cells \in Seq(AllCells) /\ pc = "repair" /\ eof_offset = Len(cells)
        /\ n \in Nat /\ n < Len(cells) /\ Len(cells) \in Nat
        /\ MaxCells \in Nat /\ MaxCells >= 4 /\ Grammar(cells) /\ ScanAt(cells, n)
        /\ UNCHANGED <<cells, durable, fields, damage>>
    BY Clean, LogManagerAssumption DEF ScanFrame, FieldsInv, TypeOK, RepairGrammar
  <1>2. CASE eof_offset - cursor < FrameHeaderSize
    BY <1>1, <1>2 DEF ScanFrame
  <1>3. CASE ~(eof_offset - cursor < FrameHeaderSize)
    <2>1. Len(cells) >= n + 2 /\ Len(cells) # 1
      BY <1>1, <1>3 DEF FrameHeaderSize
    <2>2. PICK r \in Frames : cells[n + 1] = F1(r)
      BY <1>1, <2>1 DEF ScanAt, StartsFrame
    <2>3. /\ cells[n + 2] = F2(PayloadLen(r))
          /\ FrameGrammar(cells, n + 1, r)
      BY <1>1, <2>1, <2>2, InsideFrame DEF ScanAt
    <2> DEFINE len == PayloadLen(r)
    <2>4. ValidOps(cursor) = {TRUE} /\ Lengths(cursor) = {len}
      <3>1. cells[n + 1][1] = "F1" /\ cells[n + 2][1] = "F2" /\ cells[n + 2][2] = PayloadLen(r)
        BY <2>2, <2>3, Roles
      <3>2. QED BY <3>1 DEF ValidOps, Lengths
    <2>5. /\ len \in 1 .. 2 /\ len # TooShort /\ len # OverCap
          /\ FrameSize(r) = 2 + len /\ FrameSize(r) \in 3 .. 4
      BY <1>1, Sizes DEF TooShort, OverCap
    <2>6. PastEof(len) <=> n + FrameSize(r) > Len(cells)
      BY <1>1, <2>5 DEF PastEof, FrameHeaderSize
    <2>7. ~PastEof(len) => CrcFits(cursor, len)
      <3>1. SUFFICES ASSUME n + FrameSize(r) <= Len(cells) PROVE WholeFrameAt(n, r)
        BY <1>1, <2>5, <2>6 DEF CrcFits
      <3>2. ASSUME NEW k \in 1 .. FrameSize(r) PROVE cells[n + k] = Encode(r)[k]
        <4>1. /\ (n + 1) + k - 1 = n + k /\ n + k <= Len(cells) /\ n + k \in 1 .. Len(cells)
          BY <1>1, <2>5, <3>1
        <4>2. cells[n + k] # Rotten
          BY <4>1 DEF Unharmed
        <4>3. QED BY <2>3, <4>1, <4>2 DEF FrameGrammar
      <3>3. QED BY <1>1, <3>1, <3>2, WholeFrameCells
    <2>8. Verdict(TRUE, len) \in {"good", "truncate"}
      BY <2>5, <2>7 DEF Verdict, VerdictOnCrc
    <2> HIDE DEF len
    <2>9. pc' = pc \/ (pc' = Verdict(TRUE, len) /\ Verdict(TRUE, len) # "good")
      BY <1>3, <2>4 DEF ScanFrame
    <2>10. QED BY <1>1, <2>8, <2>9
  <1>4. QED BY <1>2, <1>3

\* Behind the cut nothing ends: the frames that start before it end there, no
\* whole one starts behind it, and the file header lies before it.
LEMMA TruncateStep ==
  ASSUME LogInv, Unharmed, FieldsTell, Truncate
  PROVE  /\ pc = "truncate" /\ pc' = "ready"
         /\ last_good \in 0 .. Len(cells) /\ cells' = SubSeq(cells, 1, last_good)
         /\ IsV2 => last_good >= 2
         /\ durable' = IF durable > last_good THEN last_good ELSE durable
         /\ UNCHANGED <<legacy_wal, data_start, damage>>
         /\ \A k \in last_good + 1 .. Len(cells) : EndingAt(cells, k) = {}
  <1>1. /\ pc = "truncate" /\ pc' = "ready" /\ cells' = SubSeq(cells, 1, last_good)
        /\ durable' = IF durable > last_good THEN last_good ELSE durable
        /\ UNCHANGED <<legacy_wal, data_start, damage>>
    BY DEF Truncate, Repaired
  <1>2. /\ cells \in Seq(AllCells) /\ Len(cells) \in Nat /\ last_good \in Nat
        /\ last_good = cursor /\ last_good <= Len(cells) /\ data_start <= last_good
        /\ WholeUpTo(cells, last_good) /\ NoWholeFrameIsCut
        /\ IsV2 <=> (Len(cells) >= 2 /\ cells[1] = <<"H1">>)
    BY <1>1, Clean DEF FieldsInv, Tracked, RepairGrammar, ScanAt
  <1>3. IsV2 => last_good >= 2
    BY <1>1, <1>2 DEF FieldsTell, FileHeaderSize
  <1>4. ASSUME NEW k \in last_good + 1 .. Len(cells), NEW it \in EndingAt(cells, k)
        PROVE  FALSE
    <2>1. k \in 1 .. Len(cells)
      BY <1>2
    <2>2. CASE it = FileHeader
      <3>1. k = 2 /\ cells[1] = <<"H1">>
        BY <1>2, <1>4, <2>1, <2>2, HeaderNoFrame, Ends
      <3>2. QED BY <1>2, <1>3, <3>1
    <2>3. CASE it \in Frames
      <3> DEFINE p == k - FrameSize(it)
      <3>1. /\ FrameSize(it) <= k /\ FrameSize(it) \in 3 .. 4
            /\ \A j \in 1 .. FrameSize(it) : cells[p + j] = Encode(it)[j]
        BY <1>2, <1>4, <2>1, <2>3, HeaderNoFrame, Ends, Sizes
      <3>2. p \in Int /\ p >= 0 /\ p + FrameSize(it) = k /\ p + 1 \in 1 .. Len(cells)
            /\ 1 \in 1 .. FrameSize(it)
        BY <1>2, <3>1
      <3> HIDE DEF p
      <3>3. WholeFrameAt(p, it)
        BY <1>2, <2>3, <3>1, <3>2, WholeFrameCells
      <3>4. CASE p >= last_good
        <4>1. p \in last_good .. Len(cells)
          BY <1>2, <3>1, <3>2, <3>4
        <4>2. QED BY <1>1, <1>2, <2>3, <3>3, <4>1 DEF NoWholeFrameIsCut
      <3>5. CASE p < last_good
        <4>1. cells[p + 1] = F1(it)
          BY <2>3, <3>1, <3>2, EncodeCells
        <4>2. Intact(cells, p + 1)
          BY DEF Intact, Unharmed
        <4>3. FrameStart(cells, p + 1, it) /\ p + 1 \in 1 .. last_good
          BY <1>2, <3>2, <3>5, <4>1, <4>2 DEF FrameStart
        <4>4. p + 1 + FrameSize(it) - 1 <= last_good
          BY <1>2, <2>3, <4>3 DEF WholeUpTo
        <4>5. QED BY <1>2, <3>1, <3>2, <4>4
      <3>6. QED BY <1>2, <3>2, <3>4, <3>5
    <2>4. QED BY <1>4, <2>1, <2>2, <2>3, <1>2, Ends
  <1>5. QED BY <1>1, <1>2, <1>3, <1>4

\* append() writes the file header into an empty file.
LEMMA FileHeaderStep ==
  ASSUME LogInv, Unharmed, WriteFileHeader
  PROVE  /\ pc = "file_header" /\ pc' = "frame_header" /\ cells = <<>> /\ cells' = HeaderCells
         /\ data_start' = FileHeaderSize /\ UNCHANGED <<durable, legacy_wal, damage>>
  <1>1. /\ pc = "file_header" /\ pc' = "frame_header" /\ cells' = OverStart(HeaderCells)
        /\ data_start' = FileHeaderSize /\ UNCHANGED <<durable, legacy_wal, damage>>
    BY DEF WriteFileHeader
  <1>2. cells \in Seq(AllCells) /\ Len(cells) = 0
    BY <1>1, Clean DEF FieldsInv, Tracked
  <1>3. cells = <<>>
    BY <1>2
  <1>4. QED BY <1>1, <1>2, <1>3, HeaderIs, OverStartIs

\* A crash leaves some of the cells, the fsynced ones at least.
LEMMA LossStep ==
  ASSUME LogInv, Unharmed, PowerLoss
  PROVE  /\ pc' = "closed" /\ UNCHANGED <<durable, damage>>
         /\ cells' \in Seq(AllCells) /\ Len(cells') \in durable .. Len(cells)
         /\ Len(cells') \in Nat /\ \A k \in 1 .. Len(cells') : cells'[k] = cells[k]
  <1>1. PICK n \in durable .. Len(cells) : cells' = SubSeq(cells, 1, n)
    BY DEF PowerLoss
  <1>2. cells \in Seq(AllCells) /\ n \in 0 .. Len(cells)
    BY <1>1, Clean
  <1>3. QED BY <1>1, <1>2, CutCells DEF PowerLoss, Gone

LEMMA EncodeWhole ==
  ASSUME NEW r \in Frames, NEW k \in 1 .. FrameSize(r)
  PROVE  Encode(r)[k] # Rotten
  <1>1. CASE k = 1 BY <1>1, EncodeCells, FirstNamesFrame
  <1>2. CASE k \in 2 .. FrameSize(r) BY <1>2, OnlyFirst
  <1>3. FrameSize(r) \in 3 .. 4
    BY Sizes
  <1>4. QED BY <1>1, <1>2, <1>3

LEMMA UnharmedInit == Init => Unharmed
  <1> SUFFICES ASSUME Init PROVE Unharmed
    OBVIOUS
  <1>1. damage = {} /\ pc = "closed" /\ durable = Len(cells)
    BY DEF Init
  <1>2. CASE cells = <<>>
    BY <1>1, <1>2 DEF Unharmed
  <1>3. ASSUME NEW r \in Frames, cells = Encode(r) PROVE Unharmed
    <2>1. Len(cells) = FrameSize(r) /\ Len(cells) \in Nat
      BY <1>3, EncodeCells
    <2>2. \A k \in 1 .. Len(cells) : cells[k] # Rotten
      BY <1>3, <2>1, EncodeWhole
    <2>3. QED BY <1>1, <2>1, <2>2 DEF Unharmed
  <1>4. QED BY <1>2, <1>3 DEF Init

LEMMA UnharmedNext ==
  ASSUME Harmless, LogInv, Unharmed, FieldsTell, [Next]_vars
  PROVE  Unharmed'
  <1>0. /\ cells \in Seq(AllCells) /\ Len(cells) \in Nat /\ durable \in 0 .. Len(cells)
        /\ damage = {} /\ pc # "failed" /\ \A k \in 1 .. Len(cells) : cells[k] # Rotten
    BY Clean DEF Unharmed
  <1>1. CASE UNCHANGED vars
    BY <1>0, <1>1 DEF vars, Unharmed
  <1>2. CASE Open
    BY <1>0, <1>2, OpenStep DEF Unharmed
  <1>3. CASE ScanFrame
    BY <1>0, <1>3, ScanStep DEF Unharmed
  <1>4. CASE ScanDone
    BY <1>0, <1>4 DEF ScanDone, Repaired, Unharmed
  <1>5. CASE Truncate
    <2>1. /\ pc' = "ready" /\ last_good \in 0 .. Len(cells)
          /\ cells' = SubSeq(cells, 1, last_good) /\ damage' = damage
          /\ durable' = IF durable > last_good THEN last_good ELSE durable
      BY <1>5, TruncateStep
    <2>2. Len(cells') = last_good /\ \A k \in 1 .. last_good : cells'[k] = cells[k]
      BY <1>0, <2>1, CutCells
    <2>3. durable' <= Len(cells')
      BY <1>0, <2>1, <2>2
    <2>4. \A k \in 1 .. Len(cells') : cells'[k] # Rotten
      BY <1>0, <2>1, <2>2
    <2>5. QED BY <1>0, <2>1, <2>3, <2>4 DEF Unharmed
  <1>6. CASE (\E r \in Frames : AppendStart(r)) \/ AppendRejected \/ Sync
    <2>1. cells' = cells /\ damage' = damage /\ durable' \in {durable, Len(cells)} /\ pc' # "failed"
      BY <1>0, <1>6 DEF AppendStart, AppendRejected, Sync
    <2>2. QED BY <1>0, <2>1 DEF Unharmed
  <1>7. CASE WriteFileHeader
    <2>1. /\ pc' # "failed" /\ cells' = HeaderCells /\ damage' = damage
          /\ durable' = durable /\ Len(cells) = 0
      BY <1>7, FileHeaderStep
    <2>2. Len(cells') = 2 /\ cells'[1] = <<"H1">> /\ cells'[2] = <<"H2">>
      BY <2>1, HeaderIs
    <2>3. <<"H1">>[1] = "H1" /\ <<"H2">>[1] = "H2" /\ Rotten[1] = "X"
      BY DEF Rotten
    <2>4. \A k \in 1 .. Len(cells') : cells'[k] # Rotten
      BY <2>2, <2>3
    <2>5. durable' <= Len(cells')
      BY <1>0, <2>1, <2>2
    <2>6. QED BY <1>0, <2>1, <2>4, <2>5 DEF Unharmed
  <1>8. CASE WriteFrameHeader
    <2>1. /\ pc' # "failed" /\ rec \in Frames /\ Len(cells') = Len(cells) + 2
          /\ \A k \in 1 .. Len(cells) : cells'[k] = cells[k]
          /\ cells'[Len(cells) + 1] = F1(rec) /\ cells'[Len(cells) + 2] = F2(PayloadLen(rec))
          /\ UNCHANGED <<durable, damage>>
      BY <1>8, Clean, HeaderWritten
    <2>2. F1(rec) # Rotten /\ F2(PayloadLen(rec)) # Rotten
      <3>1. F1(rec)[1] = "F1" /\ F2(PayloadLen(rec))[1] = "F2" /\ Rotten[1] = "X"
        BY DEF F1, F2, Rotten
      <3>2. QED BY <3>1
    <2>3. ASSUME NEW k \in 1 .. Len(cells') PROVE cells'[k] # Rotten
      <3>1. k \in 1 .. Len(cells) \/ k = Len(cells) + 1 \/ k = Len(cells) + 2
        BY <1>0, <2>1
      <3>2. QED BY <1>0, <2>1, <2>2, <3>1
    <2>4. durable' <= Len(cells')
      BY <1>0, <2>1
    <2>5. QED BY <1>0, <2>1, <2>3, <2>4 DEF Unharmed
  <1>9. CASE WritePayload
    <2>1. /\ pc' # "failed" /\ rec \in Frames /\ Len(cells) = eof_offset + 2
          /\ Len(cells') = eof_offset + FrameSize(rec)
          /\ \A k \in 1 .. Len(cells) : cells'[k] = cells[k]
          /\ \A k \in 1 .. FrameSize(rec) : cells'[eof_offset + k] = Encode(rec)[k]
          /\ UNCHANGED <<durable, damage>>
      BY <1>9, Clean, PayloadWritten
    <2>2. FrameSize(rec) \in 3 .. 4 /\ eof_offset \in Nat
      BY Sizes, Clean
    <2>3. ASSUME NEW k \in 1 .. Len(cells') PROVE cells'[k] # Rotten
      <3>1. CASE k \in 1 .. Len(cells) BY <1>0, <2>1, <3>1
      <3>2. CASE k > Len(cells)
        <4>1. k - eof_offset \in 1 .. FrameSize(rec) /\ eof_offset + (k - eof_offset) = k
          BY <2>1, <2>2, <3>2
        <4>2. cells'[k] = Encode(rec)[k - eof_offset]
          BY <2>1, <4>1
        <4>3. QED BY <2>1, <4>1, <4>2, EncodeWhole
      <3>3. QED BY <1>0, <2>1, <2>2, <3>1, <3>2
    <2>4. durable' <= Len(cells')
      BY <1>0, <2>1, <2>2
    <2>5. QED BY <1>0, <2>1, <2>3, <2>4 DEF Unharmed
  <1>10. CASE Kill
    BY <1>0, <1>10 DEF Kill, Gone, Unharmed
  <1>11. CASE PowerLoss
    <2>1. /\ pc' = "closed" /\ UNCHANGED <<durable, damage>>
          /\ Len(cells') \in durable .. Len(cells)
          /\ Len(cells') \in Nat /\ \A k \in 1 .. Len(cells') : cells'[k] = cells[k]
      BY <1>11, LossStep
    <2>2. \A k \in 1 .. Len(cells') : cells'[k] # Rotten
      BY <1>0, <2>1
    <2>3. QED BY <1>0, <2>1, <2>2 DEF Unharmed
  <1>12. QED
    BY <1>1, <1>2, <1>3, <1>4, <1>5, <1>6, <1>7, <1>8, <1>9, <1>10, <1>11, NoHarm
    DEF Next, RepairStep

LEMMA FieldsTellNext ==
  ASSUME Harmless, LogInv, Unharmed, FieldsTell, [Next]_vars
  PROVE  FieldsTell'
  <1>0. /\ cells \in Seq(AllCells) /\ Len(cells) \in Nat /\ durable \in 0 .. Len(cells)
        /\ IsV2 <=> (Len(cells) >= 2 /\ cells[1] = <<"H1">>)
        /\ FileHeaderSize = 2
    BY Clean DEF FileHeaderSize
  <1>v. IsV2' <=> (Len(cells') >= 2 /\ cells'[1] = <<"H1">>)
    BY NextV2
  <1>1. CASE UNCHANGED vars
    BY <1>1 DEF vars, fields, FieldsTell, IsV2, FileHeaderSize
  <1>2. CASE Open
    <2>1. IsV2' = IsV2 /\ cells' = cells
      BY <1>2, OpenStep DEF IsV2, FileHeaderSize
    <2>2. /\ pc' = "repair" /\ legacy_wal' = (Len(cells') > 0 /\ ~IsV2')
          /\ data_start' = IF IsV2' THEN 2 ELSE 0
      BY <1>0, <1>2, <2>1, OpenStep
    <2>a. ~(Len(cells') > 0) => cells' = <<>>
      BY <1>0, <2>1
    <2>3. (~IsV2' /\ ~legacy_wal') => cells' = <<>>
      BY <2>2, <2>a, Zenon
    <2>4. QED BY <2>2, <2>3 DEF FieldsTell, FileHeaderSize
  <1>3. CASE ScanFrame
    <2>1. /\ pc = "repair" /\ pc' \in {"repair", "truncate"}
          /\ UNCHANGED <<cells, legacy_wal, data_start>>
      BY <1>3, ScanStep DEF fields
    <2>2. IsV2' = IsV2
      BY <2>1 DEF IsV2, FileHeaderSize
    <2>3. QED BY <2>1, <2>2 DEF FieldsTell, FileHeaderSize
  <1>4. CASE ScanDone \/ Sync
    <2>1. /\ pc \in {"repair", "ready"} /\ pc' = "ready"
          /\ UNCHANGED <<cells, legacy_wal, data_start>>
      BY <1>4 DEF ScanDone, Repaired, Sync, fields
    <2>2. IsV2' = IsV2
      BY <2>1 DEF IsV2, FileHeaderSize
    <2>3. QED BY <2>1, <2>2 DEF FieldsTell, FileHeaderSize
  <1>5. CASE Truncate
    <2>1. /\ pc = "truncate" /\ pc' = "ready" /\ last_good \in 0 .. Len(cells)
          /\ cells' = SubSeq(cells, 1, last_good) /\ (IsV2 => last_good >= 2)
          /\ UNCHANGED <<legacy_wal, data_start>>
      BY <1>5, TruncateStep
    <2>2. Len(cells') = last_good /\ \A k \in 1 .. last_good : cells'[k] = cells[k]
      BY <1>0, <2>1, CutCells
    <2>3. IsV2' <=> IsV2
      <3>1. last_good >= 2 => (cells'[1] = cells[1] /\ Len(cells) >= 2)
        BY <1>0, <2>1, <2>2
      <3>2. QED BY <1>0, <1>v, <2>1, <2>2, <3>1
    <2>4. cells = <<>> => cells' = <<>>
      BY <1>0, <2>1
    <2>5. QED BY <2>1, <2>3, <2>4 DEF FieldsTell, FileHeaderSize
  <1>6. ASSUME NEW r \in Frames, AppendStart(r) PROVE FieldsTell'
    <2>1. /\ pc = "ready" /\ UNCHANGED <<cells, legacy_wal, data_start>>
          /\ pc' = IF NeedsHeader THEN "file_header" ELSE "frame_header"
          /\ eof_offset = Len(cells)
      BY <1>6, Clean DEF AppendStart, fields, Tracked
    <2>2. IsV2' = IsV2
      BY <2>1 DEF IsV2, FileHeaderSize
    <2>3. NeedsHeader <=> ~legacy_wal /\ cells = <<>>
      BY <1>0, <2>1 DEF NeedsHeader
    <2>4. QED BY <2>1, <2>2, <2>3 DEF FieldsTell, FileHeaderSize
  <1>7. CASE AppendRejected
    <2>1. /\ pc = "frame_header" /\ pc' = "ready" /\ UNCHANGED <<cells, legacy_wal, data_start>>
      BY <1>7 DEF AppendRejected, fields
    <2>2. IsV2' = IsV2
      BY <2>1 DEF IsV2, FileHeaderSize
    <2>3. QED BY <2>1, <2>2 DEF FieldsTell, FileHeaderSize
  <1>8. CASE WriteFileHeader
    <2>1. /\ pc = "file_header" /\ pc' = "frame_header" /\ cells' = HeaderCells
          /\ data_start' = 2 /\ legacy_wal' = legacy_wal
      BY <1>0, <1>8, FileHeaderStep
    <2>2. IsV2' /\ ~legacy_wal
      BY <1>v, <2>1, HeaderIs DEF FieldsTell
    <2>3. QED BY <2>1, <2>2 DEF FieldsTell, FileHeaderSize
  <1>9. CASE WriteFrameHeader
    <2>1. /\ pc = "frame_header" /\ pc' = "payload" /\ rec \in Frames
          /\ Len(cells') = Len(cells) + 2 /\ cells'[Len(cells) + 1] = F1(rec)
          /\ \A k \in 1 .. Len(cells) : cells'[k] = cells[k]
          /\ WholeUpTo(cells, Len(cells)) /\ UNCHANGED <<legacy_wal, data_start>>
      BY <1>9, Clean, HeaderWritten DEF fields, RepairGrammar
    <2>2. IsV2' <=> IsV2
      <3>1. CASE Len(cells) = 0
        BY <1>0, <1>v, <2>1, <3>1, FirstNamesFrame
      <3>2. CASE Len(cells) >= 1
        <4>1. cells'[1] = cells[1]
          BY <2>1, <3>2
        <4>2. cells[1] = <<"H1">> => Len(cells) >= 2
          BY <2>1, <3>2 DEF WholeUpTo
        <4>3. Len(cells') >= 2
          BY <1>0, <2>1
        <4>4. QED BY <1>0, <1>v, <4>1, <4>2, <4>3
      <3>3. QED BY <1>0, <3>1, <3>2
    <2>3. legacy_wal \/ IsV2
      BY <2>1 DEF FieldsTell
    <2>4. QED BY <2>1, <2>2, <2>3 DEF FieldsTell, FileHeaderSize
  <1>10. CASE WritePayload
    <2>1. /\ pc = "payload" /\ pc' = "ready" /\ Len(cells) >= 2 /\ Len(cells') >= 2
          /\ \A k \in 1 .. Len(cells) : cells'[k] = cells[k]
          /\ UNCHANGED <<legacy_wal, data_start>>
      <3>1. FrameSize(rec) \in 3 .. 4 /\ eof_offset \in Nat
        BY Sizes, Clean
      <3>2. QED BY <1>10, <3>1, Clean, PayloadWritten
    <2>2. cells'[1] = cells[1]
      BY <2>1
    <2>3. IsV2' <=> IsV2
      BY <1>0, <1>v, <2>1, <2>2
    <2>4. QED BY <2>1, <2>3 DEF FieldsTell, FileHeaderSize
  <1>11. CASE Kill \/ PowerLoss
    BY <1>11 DEF Kill, PowerLoss, Gone, FieldsTell
  <1>12. QED
    BY <1>1, <1>2, <1>3, <1>4, <1>5, <1>6, <1>7, <1>8, <1>9, <1>10, <1>11, NoHarm
    DEF Next, RepairStep

LEMMA UnharmedAlways ==
  ASSUME Harmless
  PROVE  Spec => [](LogInv /\ Unharmed /\ FieldsTell)
  <1>1. Init => Unharmed /\ FieldsTell
    BY UnharmedInit DEF Init, FieldsTell
  <1>2. LogInv /\ (Unharmed /\ FieldsTell) /\ [Next]_vars => (Unharmed /\ FieldsTell)'
    BY UnharmedNext, FieldsTellNext
  <1>3. QED BY <1>1, <1>2, LogInvariant, PTL DEF Spec

(***************************************************************************)
(* The view of the file as a log of whole frames                           *)
(***************************************************************************)
LEMMA CutItems ==
  ASSUME NEW c \in Seq(AllCells), NEW n \in 0 .. Len(c)
  PROVE  Len(ItemsOf(SubSeq(c, 1, n))) = Len(UpTo(c, n))
  <1> DEFINE d == SubSeq(c, 1, n)
  <1>1. d \in Seq(AllCells) /\ Len(d) = n /\ \A k \in 1 .. n : d[k] = c[k]
    BY CutCells
  <1> HIDE DEF d
  <1>2. n <= Len(d) /\ n \in 0 .. n
    BY <1>1
  <1>3. UpTo(d, n) = UpTo(c, n)
    BY <1>1, <1>2, UpToSame
  <1>4. ItemsOf(d) = UpTo(d, n)
    BY <1>1, ItemsAre
  <1>5. QED BY <1>3, <1>4 DEF d

LEMMA View ==
  ASSUME cells \in Seq(AllCells), durable \in 0 .. Len(cells)
  PROVE  /\ wholeItems = UpTo(cells, Len(cells))
         /\ ItemsWithin(durable) = Len(UpTo(cells, durable))
         /\ leftOver <=> (cells # <<>> /\ EndingAt(cells, Len(cells)) = {})
  BY ItemsAre, CutItems DEF wholeItems, ItemsWithin, leftOver

LEMMA ViewNext ==
  ASSUME cells' \in Seq(AllCells), durable' \in 0 .. Len(cells')
  PROVE  /\ wholeItems' = UpTo(cells', Len(cells'))
         /\ ItemsWithin(durable)' = Len(UpTo(cells', durable'))
         /\ leftOver' <=> (cells' # <<>> /\ EndingAt(cells', Len(cells')) = {})
  <1>1. wholeItems' = ItemsOf(cells')
    BY DEF wholeItems
  <1>2. ItemsWithin(durable)' = Len(ItemsOf(SubSeq(cells', 1, durable')))
    BY DEF ItemsWithin
  <1>3. leftOver' <=> (cells' # <<>> /\ EndingAt(cells', Len(cells')) = {})
    BY DEF leftOver
  <1>4. QED BY <1>1, <1>2, <1>3, ItemsAre, CutItems

LEMMA LogFrames ==
  Log!Frames = Frames /\ Log!FileHeader = FileHeader
  BY DEF Log!Frames, Log!FileHeader, Log!PutFrames, Log!DeleteFrames,
         Frames, FileHeader, PutFrames, DeleteFrames

\* A step behind which the log looks the same.
LEMMA SameView ==
  ASSUME wholeItems' = wholeItems, ItemsWithin(durable)' = ItemsWithin(durable),
         isOpen' <=> isOpen, ~isOpen => (leftOver' <=> leftOver),
         isOpen => UNCHANGED <<legacy_wal, data_start>>
  PROVE  UNCHANGED Log!logVars
  <1>1. (~isOpen' /\ leftOver') = (~isOpen /\ leftOver)
    OBVIOUS
  <1>2. (isOpen' /\ legacy_wal') = (isOpen /\ legacy_wal)
    OBVIOUS
  <1>3. (IF isOpen' /\ data_start' > 0 THEN 1 ELSE 0) = (IF isOpen /\ data_start > 0 THEN 1 ELSE 0)
    OBVIOUS
  <1>4. isOpen' = isOpen
    BY DEF isOpen
  <1>5. QED BY <1>1, <1>2, <1>3, <1>4 DEF Log!logVars

\* ... because the file is.
LEMMA SameFile ==
  ASSUME cells' = cells
  PROVE  /\ wholeItems' = wholeItems /\ (leftOver' <=> leftOver)
         /\ durable' = durable => ItemsWithin(durable)' = ItemsWithin(durable)
  BY DEF wholeItems, leftOver, ItemsWithin

LEMMA StutterSteps ==
  ASSUME LogInv, Unharmed, FieldsTell, FieldsInv',
         \/ Open \/ ScanFrame \/ AppendRejected \/ WriteFrameHeader
         \/ \E r \in Frames : AppendStart(r)
  PROVE  UNCHANGED Log!logVars
  <1>0. cells \in Seq(AllCells) /\ Len(cells) \in Nat /\ durable \in 0 .. Len(cells)
    BY Clean
  <1>1. CASE Open \/ ScanFrame
    <2>1. /\ pc \in {"closed", "repair"} /\ pc' \in {"repair", "truncate"}
          /\ UNCHANGED <<cells, durable>>
      BY <1>1, OpenStep, ScanStep
    <2>2. ~isOpen /\ ~isOpen'
      BY <2>1 DEF isOpen
    <2>3. QED BY <2>1, <2>2, SameFile, SameView
  <1>2. CASE AppendRejected \/ \E r \in Frames : AppendStart(r)
    <2>1. /\ pc \in {"frame_header", "ready"}
          /\ pc' \in {"ready", "file_header", "frame_header"}
          /\ UNCHANGED <<cells, durable, legacy_wal, data_start>>
      BY <1>2 DEF AppendRejected, AppendStart, fields
    <2>2. isOpen /\ isOpen'
      BY <2>1 DEF isOpen
    <2>3. QED BY <2>1, <2>2, SameFile, SameView
  <1>3. CASE WriteFrameHeader
    <2> DEFINE n == Len(cells)
    <2>1. /\ pc = "frame_header" /\ pc' = "payload" /\ rec \in Frames
          /\ cells' \in Seq(AllCells) /\ Len(cells') = n + 2
          /\ \A k \in 1 .. n : cells'[k] = cells[k]
          /\ cells'[n + 1] = F1(rec) /\ cells'[n + 2] = F2(PayloadLen(rec))
          /\ UNCHANGED <<durable, legacy_wal, data_start>>
      BY <1>3, Clean, HeaderWritten DEF fields
    <2>2. isOpen /\ isOpen'
      BY <2>1 DEF isOpen
    <2>n. n \in 0 .. Len(cells) /\ n <= Len(cells') /\ n \in Nat
      BY <1>0, <2>1
    <2> HIDE DEF n
    <2>3. ASSUME NEW k \in n + 1 .. n + 2 PROVE EndingAt(cells', k) = {}
      <3>1. /\ k - n \in 1 .. FrameSize(rec) - 1 /\ k \in 1 .. Len(cells')
            /\ k - n = 1 \/ k - n = 2
        <4>1. FrameSize(rec) \in 3 .. 4
          BY Sizes
        <4>2. QED BY <2>1, <2>n, <4>1
      <3>2. cells'[k] = Encode(rec)[k - n]
        <4>1. (k - n = 1 => k = n + 1) /\ (k - n = 2 => k = n + 2)
          BY <2>n
        <4>2. QED BY <2>1, <3>1, <4>1, EncodeCells
      <3>3. QED BY <2>1, <3>1, <3>2, NoneEnds
    <2>4. UpTo(cells', n + 2) = UpTo(cells', n)
      <3>1. n + 2 \in 0 .. Len(cells') /\ n \in 0 .. n + 2
        BY <2>1, <2>n
      <3>2. QED BY <2>1, <2>3, <3>1, UpToPrefix
    <2>5. UpTo(cells', n) = UpTo(cells, n) /\ UpTo(cells', durable) = UpTo(cells, durable)
      <3>1. n \in 0 .. n /\ durable \in 0 .. n
        BY <1>0, <2>n DEF n
      <3>2. \A m \in 0 .. n : UpTo(cells', m) = UpTo(cells, m)
        BY <1>0, <2>1, <2>n, UpToSame
      <3>3. QED BY <3>1, <3>2
    <2>6. durable' \in 0 .. Len(cells')
      BY <1>0, <2>1 DEF n
    <2>7. /\ wholeItems = UpTo(cells, n) /\ ItemsWithin(durable) = Len(UpTo(cells, durable))
          /\ wholeItems' = UpTo(cells', n + 2)
          /\ ItemsWithin(durable)' = Len(UpTo(cells', durable))
      BY <1>0, <2>1, <2>6, View, ViewNext DEF n
    <2>8. QED BY <2>1, <2>2, <2>4, <2>5, <2>7, SameView
  <1>4. QED BY <1>1, <1>2, <1>3

\* open() succeeds: the fields tell what the file begins with, and the cells
\* that the repair cuts off end no item.
LEMMA OpenSteps ==
  ASSUME LogInv, Unharmed, FieldsTell, FieldsInv', ScanDone \/ Truncate
  PROVE  Log!LogOpen
  <1>0. /\ cells \in Seq(AllCells) /\ Len(cells) \in Nat /\ durable \in 0 .. Len(cells)
        /\ IsV2 <=> (Len(cells) >= 2 /\ cells[1] = <<"H1">>)
        /\ IsV2 => cells[2] = <<"H2">>
    BY Clean
  <1>1. /\ pc \in {"repair", "truncate"} /\ pc' = "ready"
        /\ UNCHANGED <<legacy_wal, data_start>>
    BY DEF ScanDone, Truncate, Repaired, fields
  <1>2. ~isOpen /\ isOpen'
    BY <1>1 DEF isOpen
  <1>3. wholeItems' = wholeItems /\ ItemsWithin(durable)' = ItemsWithin(durable)
    <2>1. CASE ScanDone
      <3>1. cells' = cells /\ durable' = durable
        BY <2>1 DEF ScanDone
      <3>2. QED BY <3>1, SameFile
    <2>2. CASE Truncate
      <3> DEFINE m == last_good
                 n == Len(cells)
      <3>1. /\ m \in 0 .. n /\ cells' = SubSeq(cells, 1, m)
            /\ durable' = IF durable > m THEN m ELSE durable
            /\ \A k \in m + 1 .. n : EndingAt(cells, k) = {}
        BY <2>2, TruncateStep
      <3>2. /\ cells' \in Seq(AllCells) /\ Len(cells') = m
            /\ \A k \in 1 .. m : cells'[k] = cells[k]
        BY <1>0, <3>1, CutCells
      <3>n. n \in Nat /\ m \in 0 .. Len(cells) /\ m <= Len(cells') /\ n \in 0 .. Len(cells)
            /\ durable \in 0 .. n /\ m \in 0 .. m
        BY <1>0, <3>1, <3>2
      <3>3. wholeItems = UpTo(cells, n) /\ ItemsWithin(durable) = Len(UpTo(cells, durable))
        BY <1>0, View
      <3>4. durable' \in 0 .. m
        BY <1>0, <3>1, <3>n
      <3>5. wholeItems' = UpTo(cells', m) /\ ItemsWithin(durable)' = Len(UpTo(cells', durable'))
        BY <3>2, <3>4, ViewNext
      <3> HIDE DEF m, n
      <3>6. \A k \in 0 .. m : UpTo(cells', k) = UpTo(cells, k)
        BY <1>0, <3>2, <3>n, UpToSame
      <3>7. UpTo(cells, n) = UpTo(cells, m)
        BY <1>0, <3>1, <3>n, UpToPrefix
      <3>8. UpTo(cells, durable') = UpTo(cells, durable)
        <4>1. CASE durable > m
          <5>1. /\ durable' = m /\ m \in 0 .. durable /\ durable \in 0 .. Len(cells)
                /\ \A k \in m + 1 .. durable : k \in m + 1 .. n
            BY <1>0, <3>1, <3>n, <4>1
          <5>2. UpTo(cells, durable) = UpTo(cells, m)
            BY <1>0, <3>1, <5>1, UpToPrefix
          <5>3. QED BY <5>1, <5>2
        <4>2. CASE ~(durable > m)
          BY <3>1, <4>2
        <4>3. QED BY <4>1, <4>2
      <3>9. QED BY <3>3, <3>4, <3>5, <3>6, <3>7, <3>8, <3>n
    <2>3. QED BY <2>1, <2>2
  <1>4. IsV2 <=> (wholeItems # <<>> /\ wholeItems[1] = FileHeader)
    BY <1>0, HeaderFirst, View
  <1>5. /\ legacy_wal <=> (Len(cells) > 0 /\ ~IsV2)
        /\ data_start > 0 <=> IsV2
    <2>1. /\ legacy_wal <=> (Len(cells) > 0 /\ ~IsV2)
          /\ data_start = IF IsV2 THEN 2 ELSE 0
      BY <1>1 DEF FieldsTell, FileHeaderSize
    <2>2. data_start > 0 <=> IsV2
      BY <2>1
    <2>3. QED BY <2>1, <2>2
  <1>6. wholeItems = <<>> => (leftOver <=> Len(cells) > 0)
    <2>1. SUFFICES ASSUME wholeItems = <<>>, Len(cells) > 0 PROVE leftOver
      BY <1>0 DEF leftOver
    <2> DEFINE n == Len(cells)
    <2>2. UpTo(cells, n) = <<>> /\ UpTo(cells, 0) = <<>>
      BY <1>0, <2>1, View, UpToNext
    <2>3. n \in 0 .. Len(cells) /\ 0 \in 0 .. n /\ n \in 0 + 1 .. n
      BY <1>0, <2>1
    <2> HIDE DEF n
    <2>4. \A k \in 0 + 1 .. n : EndingAt(cells, k) = {}
      BY <1>0, <2>2, <2>3, UpToPrefix
    <2>5. cells # <<>>
      BY <2>1
    <2>6. QED BY <2>3, <2>4, <2>5 DEF leftOver, n
  <1>7. legacy_wal' <=> IF wholeItems = <<>> THEN leftOver ELSE wholeItems[1] # FileHeader
    <2>1. wholeItems # <<>> => Len(cells) > 0
      <3>1. SUFFICES ASSUME Len(cells) = 0 PROVE wholeItems = <<>>
        BY <1>0
      <3>2. wholeItems = UpTo(cells, 0)
        BY <1>0, <3>1, View
      <3>3. QED BY <3>2, UpToNext
    <2>2. legacy_wal' = legacy_wal
      BY <1>1
    <2>3. QED BY <1>4, <1>5, <1>6, <2>1, <2>2
  <1>8. Log!HasHeader(wholeItems) <=> IsV2
    BY <1>4, LogFrames DEF Log!HasHeader
  <1>9. (isOpen' /\ legacy_wal')
          = IF wholeItems = <<>> THEN ~isOpen /\ leftOver ELSE wholeItems[1] # Log!FileHeader
    BY <1>2, <1>7, LogFrames
  <1>10. (IF isOpen' /\ data_start' > 0 THEN 1 ELSE 0)
           = IF Log!HasHeader(wholeItems) THEN 1 ELSE 0
    BY <1>1, <1>2, <1>5, <1>8
  <1>11. isOpen' = TRUE /\ (~isOpen' /\ leftOver') = FALSE
    BY <1>2 DEF isOpen
  <1>12. QED BY <1>2, <1>3, <1>9, <1>10, <1>11 DEF Log!LogOpen

\* append() writes the file header it owes.
LEMMA FileHeaderSteps ==
  ASSUME LogInv, Unharmed, FieldsTell, WriteFileHeader
  PROVE  Log!LogAppendRejected
  <1>1. /\ pc = "file_header" /\ pc' = "frame_header" /\ cells = <<>> /\ cells' = HeaderCells
        /\ data_start' = 2 /\ UNCHANGED <<durable, legacy_wal>>
    BY FileHeaderStep DEF FileHeaderSize
  <1>2. ~legacy_wal /\ isOpen /\ isOpen'
    BY <1>1 DEF FieldsTell, isOpen
  <1>3. cells \in Seq(AllCells) /\ Len(cells) = 0 /\ durable = 0 /\ durable' = 0
    <2>1. durable \in 0 .. Len(cells) /\ cells \in Seq(AllCells)
      BY Clean
    <2>2. QED BY <1>1, <2>1
  <1>4. /\ cells' \in Seq(AllCells) /\ Len(cells') = 2
        /\ cells'[1] = <<"H1">> /\ cells'[2] = <<"H2">>
    BY <1>1, HeaderIs
  <1>5. durable \in 0 .. Len(cells) /\ durable' \in 0 .. Len(cells')
    BY <1>3, <1>4
  <1>6. wholeItems = <<>> /\ ItemsWithin(durable) = Len(UpTo(cells, 0))
    BY <1>3, <1>5, View, UpToNext
  <1>7. wholeItems' = <<FileHeader>> /\ ItemsWithin(durable)' = Len(UpTo(cells', 0))
    <2> DEFINE d == cells'
    <2>1. d \in Seq(AllCells) /\ Len(d) = 2 /\ d[1] = <<"H1">> /\ d[2] = <<"H2">>
      BY <1>4
    <2>2. wholeItems' = UpTo(d, 2) /\ ItemsWithin(durable)' = Len(UpTo(d, 0))
      BY <1>3, <1>4, <1>5, ViewNext
    <2> HIDE DEF d
    <2>3. 1 \in 1 .. Len(d) /\ 2 \in 1 .. Len(d) /\ 1 - 1 = 0 /\ 2 - 1 = 1
      BY <2>1
    <2>4. EndingAt(d, 1) = {}
      <3>1. \A it \in Frames : ~(FrameSize(it) <= 1)
        <4>1. \A it \in Frames : FrameSize(it) \in 3 .. 4
          BY Sizes
        <4>2. QED BY <4>1
      <3>2. QED BY <2>1, <2>3, <3>1, Ends
    <2>5. FileHeader \in EndingAt(d, 2)
      BY <2>1, <2>3, Ends
    <2>6. UpTo(d, 1) = <<>>
      BY <2>1, <2>3, <2>4, UpToStep, UpToNext
    <2>7. UpTo(d, 2) = Append(<<>>, FileHeader)
      BY <2>1, <2>3, <2>5, <2>6, UpToStep
    <2>8. QED BY <2>2, <2>7 DEF d
  <1>8. ItemsWithin(durable)' = ItemsWithin(durable)
    BY <1>6, <1>7, UpToNext
  <1>9. Log!NeedsHeader
    BY <1>2, <1>6 DEF Log!NeedsHeader
  <1>10. wholeItems' = Log!Headed
    BY <1>7, <1>9, LogFrames DEF Log!Headed
  <1>11. /\ (isOpen' /\ legacy_wal') = (isOpen /\ legacy_wal)
         /\ (~isOpen' /\ leftOver') = (~isOpen /\ leftOver) /\ isOpen' = isOpen
         /\ (IF isOpen' /\ data_start' > 0 THEN 1 ELSE 0) = 1
    BY <1>1, <1>2 DEF isOpen
  <1>12. QED BY <1>2, <1>8, <1>9, <1>10, <1>11 DEF Log!LogAppendRejected

\* append() has written the whole frame.
LEMMA PayloadSteps ==
  ASSUME LogInv, Unharmed, FieldsTell, FieldsInv', WritePayload
  PROVE  \E r \in Log!Frames : Log!LogAppend(r)
  <1> DEFINE n == Len(cells)
             e == eof_offset
             m == e + FrameSize(rec)
             d == cells'
  <1>0. /\ cells \in Seq(AllCells) /\ n \in Nat /\ e \in Nat /\ durable \in 0 .. n
        /\ FrameSize(rec) \in 3 .. 4
    BY Clean, Sizes
  <1>1. /\ pc = "payload" /\ pc' = "ready" /\ rec \in Frames /\ n = e + 2
        /\ d \in Seq(AllCells) /\ Len(d) = m
        /\ \A k \in 1 .. n : d[k] = cells[k]
        /\ \A k \in 1 .. FrameSize(rec) : d[e + k] = Encode(rec)[k]
        /\ UNCHANGED <<durable, legacy_wal, data_start>>
    BY Clean, PayloadWritten
  <1>2. m <= MaxCells /\ MaxCells \in Nat
    BY <1>1, LogManagerAssumption DEF FieldsInv, TypeOK
  <1>3. isOpen /\ isOpen'
    BY <1>1 DEF isOpen
  <1>v. /\ wholeItems = UpTo(cells, n) /\ ItemsWithin(durable) = Len(UpTo(cells, durable))
        /\ wholeItems' = UpTo(d, m) /\ ItemsWithin(durable)' = Len(UpTo(d, durable))
    <2>1. durable' \in 0 .. Len(cells') /\ durable' = durable
      BY <1>0, <1>1
    <2>2. QED BY <1>0, <1>1, <2>1, View, ViewNext
  <1>4. /\ IsV2 <=> (Len(cells) >= 2 /\ cells[1] = <<"H1">>)
        /\ IsV2 => cells[2] = <<"H2">>
        /\ legacy_wal \/ IsV2
    BY <1>1, Clean DEF FieldsTell
  <1>5. ~Log!NeedsHeader
    <2>1. IsV2 => wholeItems # <<>>
      BY <1>0, <1>4, <1>v, HeaderFirst
    <2>2. QED BY <1>3, <1>4, <2>1 DEF Log!NeedsHeader
  <1> HIDE DEF n, d, m, e
  <1>r. e \in Nat /\ n = e + 2 /\ m = e + FrameSize(rec) /\ n \in 0 .. Len(cells)
        /\ n \in 0 .. n /\ durable \in 0 .. n /\ n <= Len(d) /\ e \in 0 .. n
        /\ m - 1 \in 0 .. Len(d) /\ m \in 1 .. Len(d) /\ e \in 0 .. m - 1
        /\ n \in 0 .. Len(d)
    BY <1>0, <1>1 DEF m, n
  <1>6. \A k \in 0 .. n : UpTo(d, k) = UpTo(cells, k)
    BY <1>0, <1>1, <1>r, UpToSame
  <1>7. ASSUME NEW k \in e + 1 .. m - 1 PROVE EndingAt(d, k) = {}
    <2>1. k \in 1 .. Len(d) /\ k - e \in 1 .. FrameSize(rec) - 1 /\ k - e \in 1 .. FrameSize(rec)
          /\ e + (k - e) = k
      BY <1>0, <1>r
    <2>2. d[k] = Encode(rec)[k - e]
      BY <1>1, <2>1
    <2>3. QED BY <1>1, <2>1, <2>2, NoneEnds
  <1>8. UpTo(d, m - 1) = UpTo(d, e)
    BY <1>1, <1>7, <1>r, UpToPrefix
  <1>9. UpTo(d, n) = UpTo(d, e)
    <2>1. \A k \in e + 1 .. n : EndingAt(d, k) = {}
      <3>1. \A k \in e + 1 .. n : k \in e + 1 .. m - 1
        BY <1>0, <1>r
      <3>2. QED BY <1>7, <3>1
    <2>2. QED BY <1>1, <1>r, <2>1, UpToPrefix
  <1>10. rec \in EndingAt(d, m)
    <2>1. m - FrameSize(rec) = e /\ FrameSize(rec) <= m
      BY <1>0, <1>r
    <2>2. \A k \in 1 .. FrameSize(rec) : d[(m - FrameSize(rec)) + k] = Encode(rec)[k]
      BY <1>1, <2>1
    <2>3. QED BY <1>1, <1>r, <2>1, <2>2, Ends
  <1>11. UpTo(d, m) = Append(UpTo(cells, n), rec)
    <2>1. UpTo(d, m) = Append(UpTo(d, m - 1), rec)
      BY <1>1, <1>10, <1>r, UpToStep
    <2>2. UpTo(d, m - 1) = UpTo(cells, n)
      BY <1>6, <1>8, <1>9, <1>r
    <2>3. QED BY <2>1, <2>2
  <1>12. wholeItems' = Append(Log!Headed, rec)
    BY <1>5, <1>11, <1>v DEF Log!Headed
  <1>13. Log!AppendOffset < MaxCells
    <2>1. UpTo(cells, n) = UpTo(d, m - 1) /\ Len(UpTo(d, m - 1)) <= m - 1
      BY <1>1, <1>6, <1>8, <1>9, <1>r, UpToIs
    <2>2. UpTo(cells, n) \in Seq(Items)
      BY <1>0, <1>r, UpToIs
    <2>3. Log!AppendOffset = Len(UpTo(cells, n))
      BY <1>5, <1>v DEF Log!AppendOffset, Log!Headed
    <2>4. Len(UpTo(cells, n)) \in Nat
      BY <2>2
    <2>5. QED BY <1>2, <1>r, <2>1, <2>3, <2>4
  <1>14. ItemsWithin(durable)' = ItemsWithin(durable)
    BY <1>6, <1>r, <1>v
  <1>15. /\ (isOpen' /\ legacy_wal') = (isOpen /\ legacy_wal)
         /\ (~isOpen' /\ leftOver') = (~isOpen /\ leftOver) /\ isOpen' = isOpen
         /\ (IF isOpen' /\ data_start' > 0 THEN 1 ELSE 0)
              = (IF isOpen /\ data_start > 0 THEN 1 ELSE 0)
    BY <1>1, <1>3 DEF isOpen
  <1>16. Log!LogAppend(rec)
    BY <1>3, <1>5, <1>12, <1>13, <1>14, <1>15 DEF Log!LogAppend
  <1>17. QED BY <1>1, <1>16, LogFrames

LEMMA SyncSteps ==
  ASSUME LogInv, Unharmed, Sync
  PROVE  Log!LogSync
  <1>0. cells \in Seq(AllCells) /\ Len(cells) \in Nat /\ durable \in 0 .. Len(cells)
    BY Clean
  <1>1. /\ pc = "ready" /\ pc' = "ready" /\ durable' = Len(cells)
        /\ UNCHANGED <<cells, legacy_wal, data_start>>
    BY DEF Sync, fields
  <1>2. isOpen /\ isOpen'
    BY <1>1 DEF isOpen
  <1>3. wholeItems' = wholeItems
    BY <1>1, SameFile
  <1>4. ItemsWithin(durable)' = Len(wholeItems)
    <2>1. durable' \in 0 .. Len(cells') /\ cells' \in Seq(AllCells)
      BY <1>0, <1>1
    <2>2. QED BY <1>0, <1>1, <2>1, View, ViewNext
  <1>5. /\ (isOpen' /\ legacy_wal') = (isOpen /\ legacy_wal)
        /\ (~isOpen' /\ leftOver') = (~isOpen /\ leftOver) /\ isOpen' = isOpen
        /\ (IF isOpen' /\ data_start' > 0 THEN 1 ELSE 0)
             = (IF isOpen /\ data_start > 0 THEN 1 ELSE 0)
    BY <1>1, <1>2 DEF isOpen
  <1>6. QED BY <1>2, <1>3, <1>4, <1>5 DEF Log!LogSync

LEMMA DownSteps ==
  ASSUME pc' = "closed"
  PROVE  Log!LogDown /\ ~isOpen' /\ (~isOpen' /\ leftOver') = leftOver'
  <1>1. ~isOpen'
    BY DEF isOpen
  <1>2. isOpen' = FALSE /\ (isOpen' /\ legacy_wal') = FALSE
        /\ (IF isOpen' /\ data_start' > 0 THEN 1 ELSE 0) = 0
    BY <1>1 DEF isOpen
  <1>3. (~isOpen' /\ leftOver') = leftOver'
    BY <1>1 DEF leftOver
  <1>4. QED BY <1>1, <1>2, <1>3 DEF Log!LogDown

LEMMA KillSteps ==
  ASSUME LogInv, Unharmed, Kill
  PROVE  Log!LogKill(TRUE)
  <1>1. pc' = "closed" /\ cells' = cells /\ durable' = durable
    BY DEF Kill, Gone
  <1>2. /\ wholeItems' = wholeItems /\ (leftOver' <=> leftOver)
        /\ ItemsWithin(durable)' = ItemsWithin(durable)
    BY <1>1, SameFile
  <1>3. wholeItems' \in IF isOpen /\ TRUE THEN {wholeItems, Log!Headed} ELSE {wholeItems}
    BY <1>2
  <1>4. (~isOpen' /\ leftOver')
          \in IF isOpen /\ TRUE THEN BOOLEAN ELSE {~isOpen /\ leftOver}
    BY <1>1, <1>2, DownSteps DEF leftOver
  <1>5. QED BY <1>1, <1>2, <1>3, <1>4, DownSteps DEF Log!LogKill

\* The cells that a power loss leaves hold the first of the items, the fsynced
\* ones at least; what is left over behind them is new, or was there before.
LEMMA LossSteps ==
  ASSUME LogInv, Unharmed, PowerLoss
  PROVE  Log!LogPowerLoss(TRUE)
  <1> DEFINE N == Len(cells)
             n == Len(cells')
             d == cells'
             w == UpTo(cells, N)
             m == Len(UpTo(cells, n))
  <1>0. cells \in Seq(AllCells) /\ N \in Nat /\ durable \in 0 .. N
    BY Clean
  <1>1. /\ pc' = "closed" /\ durable' = durable /\ d \in Seq(AllCells)
        /\ n \in durable .. N /\ n \in Nat /\ \A k \in 1 .. n : d[k] = cells[k]
    BY LossStep
  <1>2. /\ wholeItems = w /\ ItemsWithin(durable) = Len(UpTo(cells, durable))
        /\ leftOver <=> (cells # <<>> /\ EndingAt(cells, N) = {})
        /\ wholeItems' = UpTo(d, n) /\ ItemsWithin(durable)' = Len(UpTo(d, durable))
        /\ leftOver' <=> (d # <<>> /\ EndingAt(d, n) = {})
    <2>1. durable \in 0 .. n
      BY <1>0, <1>1
    <2>2. QED BY <1>0, <1>1, <2>1, View, ViewNext
  <1>e. (d # <<>> <=> n > 0) /\ (cells # <<>> <=> N > 0) /\ n = Len(d)
    BY <1>0, <1>1
  <1> HIDE DEF N, n, d
  <1>r. /\ n \in 0 .. Len(cells) /\ n <= Len(d) /\ durable \in 0 .. n /\ n \in 0 .. n
        /\ N \in 0 .. Len(cells) /\ n \in 0 .. N
    BY <1>0, <1>1, <1>e DEF N
  <1>3. /\ \A k \in 1 .. n : EndingAt(d, k) = EndingAt(cells, k)
        /\ \A k \in 0 .. n : UpTo(d, k) = UpTo(cells, k)
    BY <1>0, <1>1, <1>r, UpToSame
  <1>4. wholeItems' = UpTo(cells, n) /\ ItemsWithin(durable)' = ItemsWithin(durable)
    BY <1>2, <1>3, <1>r
  <1>5. /\ m \in 0 .. Len(w) /\ SubSeq(w, 1, m) = UpTo(cells, n)
        /\ Len(w) = m => \A k \in n + 1 .. N : EndingAt(cells, k) = {}
    BY <1>0, <1>r, UpToPrefix
  <1>6. Len(UpTo(cells, durable)) \in 0 .. m
    BY <1>0, <1>r, UpToPrefix
  <1> HIDE DEF w, m
  <1>7. /\ m \in ItemsWithin(durable) .. Len(wholeItems)
        /\ wholeItems' = SubSeq(wholeItems, 1, m)
    BY <1>2, <1>4, <1>5, <1>6
  <1>8. m = Len(wholeItems) /\ leftOver' => leftOver
    <2>1. SUFFICES ASSUME m = Len(w), n > 0, EndingAt(d, n) = {}
                   PROVE  N > 0 /\ EndingAt(cells, N) = {}
      BY <1>2, <1>e
    <2>2. CASE n = N
      <3>1. n \in 1 .. n
        BY <1>r, <2>1
      <3>2. QED BY <1>3, <2>1, <2>2, <3>1
    <2>3. CASE n # N
      <3>1. N \in n + 1 .. N /\ N > 0
        BY <1>0, <1>r, <2>1, <2>3
      <3>2. QED BY <1>5, <2>1, <3>1
    <2>4. QED BY <2>2, <2>3
  <1>9. (~isOpen' /\ leftOver')
          \in IF isOpen \/ m < Len(wholeItems) THEN BOOLEAN ELSE {FALSE, ~isOpen /\ leftOver}
    <2>1. leftOver' \in BOOLEAN /\ (~isOpen' /\ leftOver') = leftOver'
      BY <1>1, DownSteps DEF leftOver
    <2>2. CASE isOpen \/ m < Len(wholeItems)
      BY <2>1, <2>2
    <2>3. CASE ~isOpen /\ ~(m < Len(wholeItems))
      <3>1. m = Len(wholeItems)
        BY <1>2, <1>5, <2>3
      <3>2. leftOver' = FALSE \/ leftOver' = (~isOpen /\ leftOver)
        BY <1>8, <2>1, <2>3, <3>1 DEF leftOver
      <3>3. QED BY <2>1, <2>3, <3>2
    <2>4. QED BY <2>2, <2>3
  <1>10. \E k \in ItemsWithin(durable) .. Len(wholeItems) :
           /\ wholeItems' = SubSeq(wholeItems, 1, k)
           /\ (~isOpen' /\ leftOver')
                \in IF isOpen \/ k < Len(wholeItems) THEN BOOLEAN ELSE {FALSE, ~isOpen /\ leftOver}
    BY <1>7, <1>9
  <1>11. QED BY <1>1, <1>4, <1>10, DownSteps DEF Log!LogPowerLoss

LEMMA FirstView ==
  ASSUME Init
  PROVE  Log!LogInit
  <1>1. pc = "closed" /\ durable = Len(cells)
    BY DEF Init
  <1>2. /\ (IF isOpen /\ data_start > 0 THEN 1 ELSE 0) = 0
        /\ isOpen = FALSE /\ (isOpen /\ legacy_wal) = FALSE
    BY <1>1 DEF isOpen
  <1>3. CASE cells = <<>>
    <2>1. cells \in Seq(AllCells) /\ Len(cells) = 0 /\ durable \in 0 .. Len(cells)
      BY <1>1, <1>3
    <2>2. wholeItems = <<>> /\ ItemsWithin(durable) = Len(wholeItems)
      BY <1>1, <2>1, View, UpToNext
    <2>3. (~isOpen /\ leftOver) = FALSE
      BY <1>3 DEF leftOver
    <2>4. QED BY <1>2, <2>2, <2>3 DEF Log!LogInit
  <1>4. ASSUME NEW r \in Frames, cells = Encode(r) PROVE Log!LogInit
    <2> DEFINE n == Len(cells)
    <2>1. /\ cells \in Seq(AllCells) /\ n = FrameSize(r) /\ FrameSize(r) \in 3 .. 4
          /\ durable = n /\ durable \in 0 .. Len(cells)
      BY <1>1, <1>4, EncodeCells, Sizes
    <2>2. wholeItems = UpTo(cells, n) /\ ItemsWithin(durable) = Len(wholeItems)
          /\ (leftOver <=> (cells # <<>> /\ EndingAt(cells, n) = {}))
      BY <2>1, View
    <2>n. n = Len(cells)
      OBVIOUS
    <2> HIDE DEF n
    <2>3. r \in EndingAt(cells, n)
      <3>1. n \in 1 .. Len(cells) /\ FrameSize(r) <= n /\ n - FrameSize(r) = 0
        BY <2>1, <2>n
      <3>2. ASSUME NEW k \in 1 .. FrameSize(r)
            PROVE  cells[(n - FrameSize(r)) + k] = Encode(r)[k]
        <4>1. (n - FrameSize(r)) + k = k
          BY <2>1, <3>1
        <4>2. QED BY <1>4, <4>1
      <3>3. QED BY <2>1, <3>1, <3>2, Ends
    <2>4. UpTo(cells, n - 1) = UpTo(cells, 0)
      <3>1. ASSUME NEW k \in 0 + 1 .. n - 1 PROVE EndingAt(cells, k) = {}
        <4>1. k \in 1 .. Len(cells) /\ k \in 1 .. FrameSize(r) - 1
          BY <2>1, <2>n
        <4>2. QED BY <1>4, <2>1, <4>1, NoneEnds
      <3>2. n - 1 \in 0 .. Len(cells) /\ 0 \in 0 .. n - 1
        BY <2>1, <2>n
      <3>3. QED BY <2>1, <3>1, <3>2, UpToPrefix
    <2>5. UpTo(cells, n) = Append(<<>>, r)
      <3>1. n \in 1 .. Len(cells)
        BY <2>1, <2>n
      <3>2. QED BY <2>1, <2>3, <2>4, <3>1, UpToStep, UpToNext
    <2>6. wholeItems = <<r>> /\ r \in Log!Frames
      BY <2>2, <2>5, LogFrames
    <2>7. (~isOpen /\ leftOver) = FALSE
      BY <2>2, <2>3
    <2>8. QED BY <1>2, <2>2, <2>6, <2>7 DEF Log!LogInit
  <1>5. QED BY <1>3, <1>4 DEF Init

\* While writes do not fail and no cell rots, the log of whole frames
\* (FrameLog.tla) that the storage engine builds on is what log_manager.cpp
\* implements, for files of any length: torn appends, crashes at any cell and
\* in the middle of the repair scan included.
THEOREM RefinesFrameLog ==
  ASSUME ~WriteMayFail, MaxDamage = 0
  PROVE  Spec => ImplementsFrameLog
  <1>1. Init => Log!LogInit
    BY FirstView
  <1>2. ASSUME LogInv, Unharmed, FieldsTell, LogInv', [Next]_vars
        PROVE  [Log!LogNext]_(Log!logVars)
    <2>0. FieldsInv'
      BY <1>2 DEF LogInv
    <2>1. CASE UNCHANGED vars
      <3>1. /\ UNCHANGED <<cells, durable, legacy_wal, data_start>> /\ (isOpen' <=> isOpen)
        BY <2>1 DEF vars, fields, isOpen
      <3>2. QED BY <3>1, SameFile, SameView
    <2>2. CASE \/ Open \/ ScanFrame \/ AppendRejected \/ WriteFrameHeader
               \/ \E r \in Frames : AppendStart(r)
      BY <1>2, <2>0, <2>2, StutterSteps
    <2>3. CASE ScanDone \/ Truncate
      BY <1>2, <2>0, <2>3, OpenSteps DEF Log!LogNext
    <2>4. CASE WriteFileHeader
      BY <1>2, <2>4, FileHeaderSteps DEF Log!LogNext
    <2>5. CASE WritePayload
      BY <1>2, <2>0, <2>5, PayloadSteps DEF Log!LogNext
    <2>6. CASE Sync
      BY <1>2, <2>6, SyncSteps DEF Log!LogNext
    <2>7. CASE Kill
      BY <1>2, <2>7, KillSteps DEF Log!LogNext
    <2>8. CASE PowerLoss
      BY <1>2, <2>8, LossSteps DEF Log!LogNext
    <2>9. QED
      BY <1>2, <2>1, <2>2, <2>3, <2>4, <2>5, <2>6, <2>7, <2>8, NoHarm
      DEF Next, RepairStep, Harmless
  <1>3. Spec => [](LogInv /\ Unharmed /\ FieldsTell)
    BY UnharmedAlways DEF Harmless
  <1>4. QED BY <1>1, <1>2, <1>3, PTL DEF Spec, ImplementsFrameLog, Log!LogSpec
=============================================================================
