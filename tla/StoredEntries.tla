--------------------------- MODULE StoredEntries ---------------------------
(***************************************************************************)
(* What becomes of an entry on its way into storage and back: add()        *)
(* encodes it and registers the scalars it was given, open() registers     *)
(* the scalars that decode_entry_meta() reads from the stored bytes.  The  *)
(* order of the three stores and their failures are in Collection.         *)
(***************************************************************************)
EXTENDS EntryMeta, FilterIndex

CONSTANTS
  Dims,         \* dimensions a collection may have
  Numbers,      \* the coordinates of vectors
  Payloads,     \* sequences of bytes
  ScalarSeqs,   \* the scalar lists callers give, in their order
  NoMeta,       \* the id is not stored
  AddsTwice     \* whether FilterIndex::add() is called for a registered id

\* int64_t, double, or a string.
Int64 == LET largest == (Weight(8) - 1) \div 2 IN largest + 1 - Weight(8) .. largest
ScalarValues ==
  [t : {"int"}, n : Int64, s : {<<>>}]
  \cup [t : {"double"}, n : 0 .. Weight(8) - 1, s : {<<>>}]
  \cup [t : {"str"}, n : {0}, s : Seq(Byte)]

ASSUME StoredEntriesAssumption ==
  /\ Dims \subseteq Nat
  /\ Numbers \subseteq 0 .. Weight(4) - 1
  /\ Payloads \subseteq Seq(Byte)
  /\ Fields \subseteq Seq(Byte)
  /\ Values \subseteq ScalarValues
  /\ ScalarSeqs \subseteq Seq(Scalars)
  /\ NoMeta \notin Seq(Byte)
  /\ AddsTwice \in BOOLEAN

Metas(d) == [vec : [1 .. d -> Numbers], payload : Payloads, scalars : ScalarSeqs]

VARIABLES
  dim,      \* Collection::dim_
  stored,   \* the bytes the storage engine keeps of each id
  given     \* history: the entry each id was stored with

vars == <<dim, stored, given, filterVars>>

Init ==
  /\ dim \in Dims
  /\ stored = [i \in Ids |-> NoMeta]
  /\ given = [i \in Ids |-> NoMeta]
  /\ FilterInit

ScalarSet(seq) == {seq[k] : k \in 1 .. Len(seq)}
Live == {i \in Ids : stored[i] # NoMeta}

Store(i, m) ==
  LET encoded == encode_entry_meta(m)
  IN  /\ AddsTwice \/ i \notin Live
      /\ encoded.ok
      /\ stored' = [stored EXCEPT ![i] = encoded.bytes]
      /\ given' = [given EXCEPT ![i] = m]
      /\ FilterAdd(i, ScalarSet(m.scalars))
      /\ UNCHANGED dim

Remove(i) ==
  /\ i \in Live
  /\ stored' = [stored EXCEPT ![i] = NoMeta]
  /\ given' = [given EXCEPT ![i] = NoMeta]
  /\ FilterRemove(i)
  /\ UNCHANGED dim

(***************************************************************************)
(* A new process opens the directory: nothing is registered, and the live  *)
(* entries are visited in the order of a hash table until one is refused.  *)
(***************************************************************************)
Decoded(i) == decode_entry_meta(stored[i])
Refuses(i) == ~Decoded(i).ok \/ Len(Decoded(i).meta.vec) # dim

DecodedScalars(i) == ScalarSet(Decoded(i).meta.scalars)

Reopen ==
  \E V \in SUBSET {i \in Live : ~Refuses(i)} :
    /\ (\E i \in Live : Refuses(i)) \/ V = Live
    /\ fields' = UNION {{s.name : s \in DecodedScalars(i)} : i \in V}
    /\ bits' = [s \in Scalars |-> {i \in V : s \in DecodedScalars(i)}]
    /\ all_ids' = V
    /\ scalars' = [i \in Ids |-> IF i \in V THEN DecodedScalars(i) ELSE {}]
    /\ UNCHANGED <<dim, stored, given>>

Next ==
  \/ \E i \in Ids, m \in Metas(dim) : Store(i, m)
  \/ \E i \in Ids : Remove(i)
  \/ Reopen

Spec == Init /\ [][Next]_vars

(***************************************************************************)
(* Properties                                                              *)
(***************************************************************************)
\* What decode_entry_meta() reads from the stored bytes of an id is the entry
\* that encode_entry_meta() was given, its scalars in the order of their names.
DecodeInvertsEncode ==
  \A i \in Live :
    /\ Decoded(i).ok
    /\ Decoded(i).meta.vec = given[i].vec
    /\ Decoded(i).meta.payload = given[i].payload
    /\ LET read == Decoded(i).meta.scalars
           gave == given[i].scalars
       IN  /\ Len(read) = Len(gave)
           /\ ScalarSet(read) = ScalarSet(gave)
           /\ \A k \in 1 .. Len(read) - 1 : ~NameLess(read[k + 1].name, read[k].name)

\* decode_entry_meta() tells a whole entry from a part of it and from one with
\* bytes behind it: no prefix and no extension of stored bytes is accepted.
DecodeIsStrict ==
  \A i \in Live :
    /\ \A n \in 0 .. Len(stored[i]) - 1 : ~decode_entry_meta(SubSeq(stored[i], 1, n)).ok
    /\ \A x \in 0 .. Base - 1 : ~decode_entry_meta(Append(stored[i], x)).ok

\* matches() gives equality and ranges the meaning they have for the scalars
\* the entry was given, whether they were registered by add() or read back by
\* open(); != never lets an equal value or an id that is not stored through
\* (filter_index.cpp, clause_matches).
FilterIsExact ==
  \A i \in Ids, c \in Clauses :
    LET S == IF i \in Live THEN ScalarSet(given[i].scalars) ELSE {}
    IN  IF c.op = "kNe"
        THEN ClauseMatches(i, c) => i \in Live /\ ~Satisfies(S, [c EXCEPT !.op = "kEq"])
        ELSE ClauseMatches(i, c) = Satisfies(S, c)

Answers(ops) == {a \in Ids \X Clauses : a[2].op \in ops /\ ClauseMatches(a[1], a[2])}

\* A restart changes no answer to an equality or a range (collection.cpp, the
\* rebuild in open()).
ReopenKeepsAnswers ==
  [][Reopen => Answers(FilterOps \ {"kNe"})' = Answers(FilterOps \ {"kNe"})]_vars

(***************************************************************************)
(* What the documents say and the code does not do                         *)
(***************************************************************************)
\* filter_index.cpp:80 "Must have the field set AND not equal the value."
NotEqualNeedsField ==
  \A i \in Ids, c \in Clauses :
    c.op = "kNe" => ClauseMatches(i, c) = Satisfies(scalars[i], c)

\* filter_index.h:58 "Register/replace the scalar fields of an id."
AddReplaces ==
  \A i \in Ids, c \in Clauses :
    c.op = "kEq" => ClauseMatches(i, c) = Satisfies(scalars[i], c)

\* A restart changes no answer to != either.
ReopenKeepsNotEqual == [][Reopen => Answers({"kNe"})' = Answers({"kNe"})]_vars
=============================================================================
