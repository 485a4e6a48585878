----------------------------- MODULE EntryMeta -----------------------------
(***************************************************************************)
(* src/storage/entry_meta.cpp: the bytes under which a vector, its payload *)
(* and its scalar fields are kept in the WAL.  The layout is the code's,   *)
(* byte by byte, with one change: a byte has Base values instead of 256,   *)
(* so that a 16-bit count overflows within reach.  Floats and doubles are  *)
(* the numbers their bytes spell.                                          *)
(***************************************************************************)
EXTENDS Integers, Sequences

Seqs == INSTANCE SequencesExt

CONSTANTS
  Base,           \* values of a byte
  kMaxPayloadLen  \* longest payload

Byte == 0 .. Base - 1

\* What a one in the byte of index i is worth: Base ^ i.
Weight(i) == LET upTo[k \in 0 .. i] == IF k = 0 THEN 1 ELSE upTo[k - 1] * Base
             IN  upTo[i]

ASSUME EntryMetaAssumption ==
  Base \in Nat \ {0, 1, 2} /\ kMaxPayloadLen \in 0 .. Weight(4) - 1

kMaxVecLen == Weight(2)        \* 64 * 1024
kMaxScalarCount == Weight(2)   \* 1 << 16

kFlagsVec == 1
kFlagsPayload == 2
kFlagsScalars == 4
HasFlag(flags, f) == (flags \div f) % 2 = 1

ScalarTypes == <<"int", "double", "str">>   \* the indices of the variant, from 0

(***************************************************************************)
(* put_u8, put_u16, put_u32, put_u64: the low w bytes of n, lowest first.  *)
(***************************************************************************)
Put(n, w) == [i \in 1 .. w |-> (n \div Weight(i - 1)) % Base]

\* std::sort by name, which inserts one by one into lists this short.  In longer
\* ones fields of one name may come in another order, of which nothing is said.
NameLess(a, b) ==
  \E i \in 1 .. Len(b) :
    /\ \A j \in 1 .. i - 1 : j <= Len(a) /\ a[j] = b[j]
    /\ i = Len(a) + 1 \/ (i <= Len(a) /\ a[i] < b[i])
Unsorted(fs) == fs
InsertByName(sorted, f) ==
  LET later == {k \in 1 .. Len(sorted) : NameLess(f.name, sorted[k].name)}
  IN  IF later = {} THEN Append(sorted, f)
      ELSE Seqs!InsertAt(sorted, CHOOSE k \in later : \A j \in later : k <= j, f)
SortedByName(fs) == Seqs!FoldLeft(InsertByName, <<>>, fs)

Concat(ss) == LET upTo[i \in 0 .. Len(ss)] ==
                    IF i = 0 THEN <<>> ELSE upTo[i - 1] \o ss[i]
              IN  upTo[Len(ss)]

TypeIndex(t) == (CHOOSE i \in 1 .. 3 : ScalarTypes[i] = t) - 1

\* The cast to uint64_t wraps negative numbers.
PutValue(v) ==
  CASE v.t = "int" -> Put(v.n % Weight(8), 8)
    [] v.t = "double" -> Put(v.n, 8)
    [] v.t = "str" -> Put(Len(v.s), 4) \o v.s

PutField(f) ==
  Put(TypeIndex(f.value.t), 1) \o Put(Len(f.name), 2) \o f.name \o PutValue(f.value)

FieldTooLong(f) ==
  \/ Len(f.name) >= Weight(2)
  \/ f.value.t = "str" /\ Len(f.value.s) >= Weight(4)

Refused == [ok |-> FALSE, bytes |-> <<>>]

encode_entry_meta(m) ==
  LET part(present, bytes) == IF present THEN bytes ELSE <<>>
      bit(present, f) == IF present THEN f ELSE 0
      vec == m.vec # <<>>
      payload == m.payload # <<>>
      scalars == m.scalars # <<>>
      sorted == SortedByName(m.scalars)
  IN  IF \/ Len(m.vec) > kMaxVecLen
         \/ Len(m.payload) > kMaxPayloadLen
         \/ Len(m.scalars) > kMaxScalarCount
         \/ \E i \in 1 .. Len(m.scalars) : FieldTooLong(m.scalars[i])
      THEN Refused
      ELSE [ok |-> TRUE, bytes |->
             Put(bit(vec, kFlagsVec) + bit(payload, kFlagsPayload)
                   + bit(scalars, kFlagsScalars), 4)
             \o part(vec, Put(Len(m.vec), 4)
                            \o Concat([i \in 1 .. Len(m.vec) |-> Put(m.vec[i], 4)]))
             \o part(payload, Put(Len(m.payload), 4) \o m.payload)
             \o part(scalars, Put(Len(m.scalars), 2)
                                \o Concat([i \in 1 .. Len(sorted) |-> PutField(sorted[i])]))]

(***************************************************************************)
(* Reader: every take checks that its bytes are there, and returns what it *)
(* read and the position behind it, or Corrupt.  The steps of a decoder    *)
(* work on a record of what has been read so far; after a failed take the  *)
(* rest do nothing.                                                        *)
(***************************************************************************)
Corrupt == [ok |-> FALSE, pos |-> 0, out |-> <<>>]
Took(pos, out) == [ok |-> TRUE, pos |-> pos, out |-> out]

Has(b, pos, n) == pos + n <= Len(b)
Bytes(b, pos, n) == SubSeq(b, pos + 1, pos + n)
Number(b, pos, w) ==
  LET upTo[i \in 0 .. w] ==
        IF i = 0 THEN 0 ELSE upTo[i - 1] + b[pos + i] * Weight(i - 1)
  IN  upTo[w]

take_number(b, pos, w) ==
  IF Has(b, pos, w) THEN Took(pos + w, Number(b, pos, w)) ELSE Corrupt

\* What follows a length: that many bytes, or that many floats.
BytesAfter(b, len, max) ==
  IF len.ok /\ len.out <= max /\ Has(b, len.pos, len.out)
  THEN Took(len.pos + len.out, Bytes(b, len.pos, len.out))
  ELSE Corrupt
FloatsAfter(b, len, max) ==
  IF len.ok /\ len.out <= max /\ Has(b, len.pos, 4 * len.out)
  THEN Took(len.pos + 4 * len.out,
            [i \in 1 .. len.out |-> Number(b, len.pos + 4 * (i - 1), 4)])
  ELSE Corrupt

take_text(b, pos, w, max) == BytesAfter(b, take_number(b, pos, w), max)

\* The take t into a field of the record r.
Into(r, field, t) ==
  IF t.ok THEN [r EXCEPT !.pos = t.pos, ![field] = t.out] ELSE [r EXCEPT !.ok = FALSE]

Signed(n) == IF n > (Weight(8) - 1) \div 2 THEN n - Weight(8) ELSE n

take_type(b, r) == Into(r, "type", take_number(b, r.pos, 1))

take_key(b, r) ==
  IF r.ok THEN Into(r, "name", take_text(b, r.pos, 2, Weight(2) - 1)) ELSE r

take_value(b, r) ==
  CASE ~r.ok -> r
    [] r.ok /\ r.type \in {0, 1} -> Into(r, "value", take_number(b, r.pos, 8))
    [] r.ok /\ r.type = 2 -> Into(r, "value", take_text(b, r.pos, 4, Weight(4) - 1))
    [] OTHER -> [r EXCEPT !.ok = FALSE]      \* unknown scalar type

ScalarOf(r) ==
  [name |-> r.name,
   value |-> [t |-> ScalarTypes[r.type + 1],
              n |-> CASE r.type = 0 -> Signed(r.value)
                      [] r.type = 1 -> r.value
                      [] r.type = 2 -> 0,
              s |-> IF r.type = 2 THEN r.value ELSE <<>>]]

take_field(b, pos) ==
  take_value(b, take_key(b, take_type(b,
    [ok |-> TRUE, pos |-> pos, type |-> 0, name |-> <<>>, value |-> 0])))

AppendField(before, field) ==
  IF field.ok THEN Took(field.pos, Append(before.out, ScalarOf(field))) ELSE Corrupt

FieldsAfter(b, count) ==
  LET upTo[i \in 0 .. count.out] ==
        IF i = 0 THEN Took(count.pos, <<>>)
        ELSE LET before == upTo[i - 1]
             IN  IF before.ok THEN AppendField(before, take_field(b, before.pos))
                 ELSE Corrupt
  IN  IF count.ok THEN upTo[count.out] ELSE Corrupt

take_flags(b) ==
  Into([ok |-> TRUE, pos |-> 0, flags |-> 0, vec |-> <<>>, payload |-> <<>>, scalars |-> <<>>],
       "flags", take_number(b, 0, 4))

take_vec(b, r) ==
  IF r.ok /\ HasFlag(r.flags, kFlagsVec)
  THEN Into(r, "vec", FloatsAfter(b, take_number(b, r.pos, 4), kMaxVecLen)) ELSE r

take_payload(b, r) ==
  IF r.ok /\ HasFlag(r.flags, kFlagsPayload)
  THEN Into(r, "payload", take_text(b, r.pos, 4, kMaxPayloadLen)) ELSE r

take_scalars(b, r) ==
  IF r.ok /\ HasFlag(r.flags, kFlagsScalars)
  THEN Into(r, "scalars", FieldsAfter(b, take_number(b, r.pos, 2))) ELSE r

WholeOrMore(b, pos) == pos <= Len(b)
Whole(b, pos) == pos = Len(b)

\* Unknown flags and trailing bytes are corruption.
EntryRead(b, r) ==
  IF r.ok /\ r.flags < 2 * kFlagsScalars /\ Whole(b, r.pos)
  THEN [ok |-> TRUE, meta |-> [vec |-> r.vec, payload |-> r.payload, scalars |-> r.scalars]]
  ELSE [ok |-> FALSE]

decode_entry_meta(b) ==
  EntryRead(b, take_scalars(b, take_payload(b, take_vec(b, take_flags(b)))))
=============================================================================
