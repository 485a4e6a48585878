---------------------------- MODULE FilterIndex ----------------------------
(***************************************************************************)
(* src/index/filter_index.cpp: for every field and value the set of ids    *)
(* that carry it (a BitSet), and the predicate that filtered searches ask.  *)
(* Every operation holds mutex_ and is one step.                           *)
(***************************************************************************)
EXTENDS Integers, FiniteSets

CONSTANTS
  Ids,
  Fields,    \* names of scalar fields
  Values,    \* ScalarValues: records with t in {"int", "double", "str"}, n : Int
  MaxScalars \* bound: scalar fields of one id

ASSUME FilterIndexAssumption ==
  /\ \A v \in Values : v.t \in {"int", "double", "str"} /\ v.n \in Int
  /\ MaxScalars \in Nat

Scalars == [name : Fields, value : Values]
ScalarLists == {S \in SUBSET Scalars : Cardinality(S) <= MaxScalars}

FilterOps == {"kEq", "kNe", "kLt", "kLe", "kGt", "kGe"}
Clauses == [field : Fields, op : FilterOps, value : Values]

VARIABLES
  fields,   \* FilterIndex::fields_: the names with an entry
  bits,     \* the BitSet of each field and value
  all_ids,  \* FilterIndex::all_ids_
  scalars   \* history: what each id was last registered with

filterVars == <<fields, bits, all_ids, scalars>>

FilterTypeOK ==
  /\ fields \subseteq Fields
  /\ bits \in [Scalars -> SUBSET Ids]
  /\ all_ids \subseteq Ids
  /\ scalars \in [Ids -> SUBSET Scalars]

FilterInit ==
  /\ fields = {}
  /\ bits = [s \in Scalars |-> {}]
  /\ all_ids = {}
  /\ scalars = [i \in Ids |-> {}]

(***************************************************************************)
(* Operations                                                              *)
(***************************************************************************)
FilterAdd(id, S) ==
  /\ fields' = fields \cup {s.name : s \in S}
  /\ bits' = [s \in Scalars |-> IF s \in S THEN bits[s] \cup {id} ELSE bits[s]]
  /\ all_ids' = all_ids \cup {id}
  /\ scalars' = [scalars EXCEPT ![id] = S]

BitsKeepingDoubles(id) ==
  [s \in Scalars |-> IF s.value.t = "double" THEN bits[s] ELSE bits[s] \ {id}]
BitsWithoutWord(id) == [s \in Scalars |-> {}]   \* the whole word is cleared
BitsWithout(id) == [s \in Scalars |-> bits[s] \ {id}]

FilterRemove(id) ==
  /\ bits' = BitsWithout(id)
  /\ all_ids' = all_ids \ {id}
  /\ scalars' = [scalars EXCEPT ![id] = {}]
  /\ UNCHANGED fields

ValueContains(f, v, id) == id \in bits[[name |-> f, value |-> v]]

Compare(op, a, b) ==
  CASE op = "kLt" -> a < b
    [] op = "kLe" -> a <= b
    [] op = "kGt" -> a > b
    [] op = "kGe" -> a >= b

\* A range is over the values of the threshold's own type, and a string has
\* no range.
ComparableNumbers(v, w) == v.t # "str" /\ w.t # "str"
Comparable(v, w) == v.t = w.t /\ v.t # "str"
InRange(f, op, v, id) ==
  \E w \in Values :
    Comparable(w, v) /\ Compare(op, w.n, v.n) /\ ValueContains(f, w, id)

ClauseMatches(id, c) ==
  /\ c.field \in fields
  /\ CASE c.op = "kEq" -> ValueContains(c.field, c.value, id)
       [] c.op = "kNe" -> id \in all_ids /\ ~ValueContains(c.field, c.value, id)
       [] OTHER -> InRange(c.field, c.op, c.value, id)

Matches(id, expr) == \A c \in expr : ClauseMatches(id, c)

(***************************************************************************)
(* What the predicate should say of an id with the scalars S.              *)
(***************************************************************************)
Satisfies(S, c) ==
  LET values == {s.value : s \in {t \in S : t.name = c.field}}
  IN  CASE c.op = "kEq" -> c.value \in values
        [] c.op = "kNe" -> values # {} /\ c.value \notin values
        [] OTHER -> \E v \in values : v.t = c.value.t /\ v.t # "str"
                                      /\ Compare(c.op, v.n, c.value.n)
=============================================================================
