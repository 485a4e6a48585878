-------------------------- MODULE HNSWIndexProofs --------------------------
(***************************************************************************)
(* Proofs about HNSWIndex, for any graph and any sequence of calls.        *)
(***************************************************************************)
EXTENDS HNSWIndex, FiniteSetTheorems, TLAPS

(***************************************************************************)
(* Lists picked from a list                                                *)
(***************************************************************************)

Distinct(s) == \A i, j \in 1 .. Len(s) : s[i] = s[j] => i = j

\* h holds some of the first k entries of the list, in any order, each once.
Picked(h, k, list) ==
  /\ h \in Seq({list[j] : j \in 1 .. Len(list)})
  /\ Distinct(h)
  /\ Len(h) <= k
  /\ \A i \in 1 .. Len(h) : \E j \in 1 .. k : h[i] = list[j]

LEMMA PickedNone ==
  ASSUME NEW list PROVE Picked(<<>>, 0, list)
  BY DEF Picked, Distinct

LEMMA PickedMore ==
  ASSUME NEW list, NEW h, NEW k \in Nat \ {0}, Picked(h, k - 1, list)
  PROVE  Picked(h, k, list)
  <1>1. Len(h) \in Nat
    BY DEF Picked
  <1>2. Len(h) <= k
    BY <1>1 DEF Picked
  <1>3. ASSUME NEW i \in 1 .. Len(h) PROVE \E j \in 1 .. k : h[i] = list[j]
    <2>1. PICK j \in 1 .. k - 1 : h[i] = list[j]
      BY DEF Picked
    <2>2. j \in 1 .. k
      OBVIOUS
    <2>3. QED BY <2>1, <2>2
  <1>4. QED BY <1>2, <1>3 DEF Picked

\* r is s with x put in at position p.
Inserted(X, r, s, p, x) ==
  /\ r \in Seq(X)
  /\ Len(r) = Len(s) + 1
  /\ \A i \in 1 .. Len(s) + 1 :
       r[i] = IF i < p THEN s[i] ELSE IF i = p THEN x ELSE s[i - 1]

LEMMA InsertAtEntries ==
  ASSUME NEW X, NEW s \in Seq(X), NEW x \in X, NEW p \in 1 .. Len(s) + 1
  PROVE  Inserted(X, Seqs!InsertAt(s, p, x), s, p, x)
  <1> DEFINE a == SubSeq(s, 1, p - 1)
             b == SubSeq(s, p, Len(s))
             r == (a \o <<x>>) \o b
  <1>0. Len(s) \in Nat /\ p \in Nat
    OBVIOUS
  <1>1. a \in Seq(X) /\ Len(a) = p - 1 /\ \A i \in 1 .. p - 1 : a[i] = s[i]
    BY <1>0
  <1>2. b \in Seq(X) /\ Len(b) = Len(s) - p + 1 /\ \A i \in 1 .. Len(s) - p + 1 : b[i] = s[p + i - 1]
    BY <1>0
  <1> HIDE DEF a, b
  <1> DEFINE c == a \o <<x>>
  <1>3. c \in Seq(X) /\ Len(c) = p /\ (\A i \in 1 .. p - 1 : c[i] = a[i]) /\ c[p] = x
    BY <1>1, <1>0
  <1> HIDE DEF c
  <1>4. c \o b \in Seq(X) /\ Len(c \o b) = Len(s) + 1
    BY <1>0, <1>2, <1>3
  <1>5. ASSUME NEW i \in 1 .. Len(s) + 1
        PROVE  (c \o b)[i] = IF i < p THEN s[i] ELSE IF i = p THEN x ELSE s[i - 1]
    <2>1. CASE i < p
      BY <2>1, <1>0, <1>1, <1>2, <1>3
    <2>2. CASE i = p
      BY <2>2, <1>0, <1>2, <1>3
    <2>3. CASE i > p
      <3>1. (c \o b)[i] = b[i - p]
        BY <2>3, <1>0, <1>2, <1>3
      <3>2. i - p \in 1 .. Len(s) - p + 1 /\ p + (i - p) - 1 = i - 1
        BY <2>3, <1>0
      <3>3. b[i - p] = s[i - 1]
        BY <1>2, <3>2
      <3>4. QED BY <2>3, <3>1, <3>3
    <2>4. i < p \/ i = p \/ i > p
      BY <1>0
    <2>5. QED BY <2>1, <2>2, <2>3, <2>4
  <1>6. Seqs!InsertAt(s, p, x) = c \o b
    BY DEF Seqs!InsertAt, a, b, c
  <1>7. QED BY <1>4, <1>5, <1>6 DEF Inserted

LEMMA PickedInsert ==
  ASSUME NEW list, Distinct(list), NEW k \in 1 .. Len(list), Len(list) \in Nat,
         NEW h, Picked(h, k - 1, list), NEW p \in 1 .. Len(h) + 1
  PROVE  Picked(Seqs!InsertAt(h, p, list[k]), k, list)
  <1> DEFINE X == {list[j] : j \in 1 .. Len(list)}
             r == Seqs!InsertAt(h, p, list[k])
  <1>0. h \in Seq(X) /\ list[k] \in X /\ Len(h) \in Nat /\ Len(h) <= k - 1 /\ k \in Nat
    BY DEF Picked
  <1> HIDE DEF X
  <1>1. /\ r \in Seq(X)
        /\ Len(r) = Len(h) + 1
        /\ \A i \in 1 .. Len(h) + 1 :
             r[i] = IF i < p THEN h[i] ELSE IF i = p THEN list[k] ELSE h[i - 1]
    <2>1. Inserted(X, r, h, p, list[k])
      BY <1>0, InsertAtEntries
    <2>2. QED BY <2>1 DEF Inserted
  <1> HIDE DEF r
  <1> DEFINE at(i) == IF i < p THEN i ELSE i - 1
  <1>2. ASSUME NEW i \in 1 .. Len(r), i # p
        PROVE  at(i) \in 1 .. Len(h) /\ r[i] = h[at(i)]
    <2>1. i \in 1 .. Len(h) + 1 /\ i \in Nat
      BY <1>0, <1>1
    <2>2. CASE i < p
      BY <1>0, <1>1, <2>1, <2>2
    <2>3. CASE i > p
      <3>1. ~(i < p) /\ i - 1 \in 1 .. Len(h)
        BY <1>0, <2>1, <2>3
      <3>2. r[i] = h[i - 1]
        BY <1>1, <1>2, <2>1, <3>1
      <3>3. QED BY <3>1, <3>2
    <2>4. QED BY <1>2, <2>1, <2>2, <2>3
  <1>3. ASSUME NEW i \in 1 .. Len(h) PROVE \E j \in 1 .. k - 1 : h[i] = list[j]
    BY DEF Picked
  <1>4. ASSUME NEW i \in 1 .. Len(h) PROVE h[i] # list[k]
    <2>1. PICK j \in 1 .. k - 1 : h[i] = list[j]
      BY <1>3
    <2>2. j \in 1 .. Len(list) /\ j # k
      OBVIOUS
    <2>3. QED BY <2>1, <2>2 DEF Distinct
  <1>5. r[p] = list[k] /\ p \in 1 .. Len(r)
    BY <1>0, <1>1
  <1>6. ASSUME NEW i \in 1 .. Len(r), NEW j \in 1 .. Len(r), r[i] = r[j]
        PROVE  i = j
    <2>1. CASE i = p
      BY <2>1, <1>2, <1>4, <1>5, <1>6
    <2>2. CASE j = p
      BY <2>2, <1>2, <1>4, <1>5, <1>6
    <2>3. CASE i # p /\ j # p
      <3>1. at(i) \in 1 .. Len(h) /\ r[i] = h[at(i)]
        BY <2>3, <1>2
      <3>2. at(j) \in 1 .. Len(h) /\ r[j] = h[at(j)]
        BY <2>3, <1>2
      <3>3. at(i) = at(j)
        BY <3>1, <3>2, <1>6 DEF Picked, Distinct
      <3>4. QED BY <3>3, <2>3, <1>0
    <2>4. QED BY <2>1, <2>2, <2>3
  <1>7. ASSUME NEW i \in 1 .. Len(r) PROVE \E j \in 1 .. k : r[i] = list[j]
    <2>1. CASE i = p
      BY <2>1, <1>0, <1>5
    <2>2. CASE i # p
      <3>1. at(i) \in 1 .. Len(h) /\ r[i] = h[at(i)]
        BY <2>2, <1>2
      <3> HIDE DEF at
      <3>2. PICK j \in 1 .. k - 1 : h[at(i)] = list[j]
        BY <3>1, <1>3
      <3>3. j \in 1 .. k
        OBVIOUS
      <3>4. QED BY <3>1, <3>2, <3>3
    <2>3. QED BY <2>1, <2>2
  <1>8. Distinct(r)
    BY <1>6 DEF Distinct
  <1>9. Len(r) <= k
    BY <1>0, <1>1
  <1>10. QED BY <1>1, <1>7, <1>8, <1>9 DEF Picked, r, X

LEMMA PickedAppend ==
  ASSUME NEW list, Distinct(list), NEW k \in 1 .. Len(list), Len(list) \in Nat,
         NEW h, Picked(h, k - 1, list)
  PROVE  Picked(Append(h, list[k]), k, list)
  <1> DEFINE X == {list[j] : j \in 1 .. Len(list)}
             r == Seqs!InsertAt(h, Len(h) + 1, list[k])
  <1>0. h \in Seq(X) /\ list[k] \in X /\ Len(h) \in Nat /\ Len(h) + 1 \in 1 .. Len(h) + 1
    BY DEF Picked
  <1>1. Picked(r, k, list)
    BY <1>0, PickedInsert
  <1> HIDE DEF X
  <1>2. /\ r \in Seq(X)
        /\ Len(r) = Len(h) + 1
        /\ \A i \in 1 .. Len(h) + 1 :
             r[i] = IF i < Len(h) + 1 THEN h[i] ELSE IF i = Len(h) + 1 THEN list[k] ELSE h[i - 1]
    <2>1. Inserted(X, r, h, Len(h) + 1, list[k])
      BY <1>0, InsertAtEntries
    <2>2. QED BY <2>1 DEF Inserted
  <1> HIDE DEF r
  <1>3. Append(h, list[k]) = r
    <2> DEFINE s == Append(h, list[k])
    <2>1. s \in Seq(X) /\ Len(s) = Len(h) + 1 /\ s[Len(h) + 1] = list[k]
      BY <1>0
    <2>2. \A i \in 1 .. Len(h) : s[i] = h[i]
      BY <1>0
    <2> HIDE DEF s
    <2>3. ASSUME NEW i \in 1 .. Len(h) + 1 PROVE s[i] = r[i]
      <3>1. CASE i = Len(h) + 1
        BY <1>0, <1>2, <2>1, <3>1
      <3>2. CASE i \in 1 .. Len(h)
        BY <1>0, <1>2, <2>2, <3>2
      <3>3. QED BY <1>0, <3>1, <3>2
    <2>4. s = r
      BY <1>0, <1>2, <2>1, <2>3
    <2>5. QED BY <2>4 DEF s
  <1>4. QED BY <1>1, <1>3

LEMMA SeqOfMore ==
  ASSUME NEW A, NEW B, A \subseteq B, NEW s \in Seq(A)
  PROVE  s \in Seq(B)
  OBVIOUS

LEMMA IndexSetSize ==
  ASSUME NEW n \in Nat, NEW S, S \subseteq 1 .. n
  PROVE  IsFiniteSet(S) /\ Cardinality(S) \in 0 .. n
  <1>1. IsFiniteSet(1 .. n) /\ Cardinality(1 .. n) = n
    BY FS_Interval
  <1>2. IsFiniteSet(S) /\ Cardinality(S) <= Cardinality(1 .. n)
    BY <1>1, FS_Subset
  <1>3. QED BY <1>1, <1>2, FS_CardinalityType

(***************************************************************************)
(* The loops that build a list                                             *)
(***************************************************************************)

PlaceStep(e, h, n) == Place(e.g, e.q, e.S, h, n)
PlaceInv(e, k, h) ==
  /\ Picked(h, k, e.list) /\ h \in Seq(e.S)
  /\ (\E j \in 1 .. k : e.list[j] \in e.S) => h # <<>>
PlaceLoop == INSTANCE FoldRule WITH Step <- PlaceStep, Inv <- PlaceInv

LEMMA SortPicks ==
  ASSUME NEW g, NEW q, NEW S, NEW X, NEW list \in Seq(X), Distinct(list)
  PROVE  /\ Picked(SortByDistance(g, q, S, list), Len(list), list)
         /\ SortByDistance(g, q, S, list) \in Seq(S)
         /\ (\E j \in 1 .. Len(list) : list[j] \in S) => SortByDistance(g, q, S, list) # <<>>
  <1> DEFINE e == [g |-> g, q |-> q, S |-> S, list |-> list]
  <1>0. e.g = g /\ e.q = q /\ e.S = S /\ e.list = list
    OBVIOUS
  <1>1. SortByDistance(g, q, S, list) = PlaceLoop!Folded(e, <<>>, list)
    BY DEF SortByDistance, PlaceStep, PlaceLoop!Folded, Seqs!FoldLeft,
           PlaceLoop!FoldLeft, Seqs!MapThenFoldSet, PlaceLoop!MapThenFoldSet,
           Seqs!Max, PlaceLoop!Max
  <1> HIDE DEF e
  <1>2. PlaceInv(e, 0, <<>>)
    BY <1>0, PickedNone DEF PlaceInv
  <1>3. ASSUME NEW k \in 1 .. Len(list), NEW h, PlaceInv(e, k - 1, h)
        PROVE  PlaceInv(e, k, PlaceStep(e, h, list[k]))
    <2> DEFINE nearer == {i \in 1 .. Len(h) : Dist(g[h[i]].vec, q) <= Dist(g[list[k]].vec, q)}
               r == Seqs!InsertAt(h, Cardinality(nearer) + 1, list[k])
    <2>1. Picked(h, k - 1, list) /\ h \in Seq(S) /\ Len(list) \in Nat
          /\ Len(h) \in Nat /\ k \in Nat \ {0}
      BY <1>0, <1>3 DEF PlaceInv
    <2>2. PlaceStep(e, h, list[k]) = IF list[k] \in S THEN r ELSE h
      BY <1>0 DEF PlaceStep, Place
    <2>3. nearer \subseteq 1 .. Len(h)
      OBVIOUS
    <2> HIDE DEF nearer
    <2>4. Cardinality(nearer) \in 0 .. Len(h)
      BY <2>1, <2>3, IndexSetSize
    <2>5. Cardinality(nearer) + 1 \in 1 .. Len(h) + 1
      BY <2>1, <2>4
    <2>6. CASE list[k] \in S
      <3>1. Picked(r, k, list)
        BY <2>1, <2>5, PickedInsert
      <3>2. Inserted(S, r, h, Cardinality(nearer) + 1, list[k])
        BY <2>1, <2>5, <2>6, InsertAtEntries
      <3>3. r \in Seq(S)
        BY <3>2 DEF Inserted
      <3>4. r # <<>>
        <4>1. Len(r) = Len(h) + 1
          BY <3>2 DEF Inserted
        <4> HIDE DEF r
        <4>2. QED BY <2>1, <4>1
      <3> HIDE DEF r
      <3>5. QED BY <1>0, <2>2, <2>6, <3>1, <3>3, <3>4 DEF PlaceInv
    <2>7. CASE list[k] \notin S
      <3>1. Picked(h, k, list)
        BY <2>1, PickedMore
      <3>2. ASSUME NEW j \in 1 .. k, list[j] \in S PROVE h # <<>>
        <4>1. j \in 1 .. k - 1
          BY <2>1, <2>7, <3>2
        <4>2. QED BY <1>0, <1>3, <3>2, <4>1 DEF PlaceInv
      <3>3. QED BY <1>0, <2>1, <2>2, <2>7, <3>1, <3>2 DEF PlaceInv
    <2>8. QED BY <2>6, <2>7
  <1>4. PlaceInv(e, Len(list), PlaceLoop!Folded(e, <<>>, list))
    BY <1>2, <1>3, PlaceLoop!FoldKeeps, Zenon
  <1>5. QED BY <1>0, <1>1, <1>4 DEF PlaceInv

KeepStep(e, h, c) == Keep(e.g, e.center, e.max_m, h, c)
KeepInv(e, k, h) ==
  Picked(h, k, e.list) /\ Len(h) <= e.max_m /\ ((k > 0 /\ e.max_m > 0) => h # <<>>)
KeepLoop == INSTANCE FoldRule WITH Step <- KeepStep, Inv <- KeepInv

LEMMA SelectPicks ==
  ASSUME NEW g, NEW center, NEW X, NEW ordered \in Seq(X), Distinct(ordered),
         NEW max_m \in Nat
  PROVE  /\ Picked(Select(g, center, ordered, max_m), Len(ordered), ordered)
         /\ Len(Select(g, center, ordered, max_m)) <= max_m
         /\ (ordered # <<>> /\ max_m > 0) => Select(g, center, ordered, max_m) # <<>>
  <1> DEFINE trim == IF Len(ordered) > 2 * max_m THEN 2 * max_m ELSE Len(ordered)
             list == SubSeq(ordered, 1, trim)
             e == [g |-> g, center |-> center, max_m |-> max_m, list |-> list]
  <1>0. e.g = g /\ e.center = center /\ e.max_m = max_m /\ e.list = list
    OBVIOUS
  <1>1. Select(g, center, ordered, max_m) = KeepLoop!Folded(e, <<>>, list)
    BY DEF Select, KeepStep, KeepLoop!Folded, Seqs!FoldLeft,
           KeepLoop!FoldLeft, Seqs!MapThenFoldSet, KeepLoop!MapThenFoldSet,
           Seqs!Max, KeepLoop!Max
  <1> HIDE DEF e
  <1>2. Len(ordered) \in Nat /\ trim \in 0 .. Len(ordered)
    OBVIOUS
  <1> HIDE DEF trim
  <1>3. list \in Seq(X) /\ Len(list) = trim /\ \A i \in 1 .. trim : list[i] = ordered[i]
    BY <1>2
  <1> HIDE DEF list
  <1>4. Distinct(list)
    BY <1>2, <1>3 DEF Distinct
  <1>5. KeepInv(e, 0, <<>>)
    BY <1>0, PickedNone DEF KeepInv
  <1>6. ASSUME NEW k \in 1 .. Len(list), NEW h, KeepInv(e, k - 1, h)
        PROVE  KeepInv(e, k, KeepStep(e, h, list[k]))
    <2>1. Picked(h, k - 1, list) /\ Len(h) <= max_m /\ Len(list) \in Nat /\ k \in Nat \ {0}
      BY <1>0, <1>3, <1>6 DEF KeepInv
    <2>2. Len(h) \in Nat /\ h \in Seq({list[j] : j \in 1 .. Len(list)})
      BY <2>1 DEF Picked
    <2>3. Picked(h, k, list) /\ Picked(Append(h, list[k]), k, list)
      BY <1>4, <2>1, PickedMore, PickedAppend
    <2>4. Len(h) < max_m => Len(Append(h, list[k])) <= max_m
      BY <2>2
    <2>5. \/ KeepStep(e, h, list[k]) = h
          \/ KeepStep(e, h, list[k]) = Append(h, list[k]) /\ Len(h) < max_m
      BY <1>0 DEF KeepStep, Keep
    <2>6. max_m > 0 => KeepStep(e, h, list[k]) # <<>>
      <3>1. Append(h, list[k]) # <<>>
        BY <2>2
      <3>2. CASE h = <<>>
        <4>1. Len(h) = 0
          BY <3>2
        <4>2. max_m > 0 => KeepStep(e, h, list[k]) = Append(h, list[k])
          BY <1>0, <4>1 DEF KeepStep, Keep
        <4>3. QED BY <3>1, <4>2
      <3>3. QED BY <2>5, <3>1, <3>2
    <2>7. QED BY <1>0, <2>1, <2>3, <2>4, <2>5, <2>6 DEF KeepInv
  <1>7. KeepInv(e, Len(list), KeepLoop!Folded(e, <<>>, list))
    BY <1>3, <1>5, <1>6, KeepLoop!FoldKeeps, Zenon
  <1> DEFINE h == Select(g, center, ordered, max_m)
  <1>8. Picked(h, trim, list) /\ Len(h) <= max_m
    BY <1>0, <1>1, <1>3, <1>7 DEF KeepInv
  <1> HIDE DEF h
  <1>9. Picked(h, Len(ordered), ordered)
    <2>1. {list[j] : j \in 1 .. Len(list)} \subseteq {ordered[j] : j \in 1 .. Len(ordered)}
      BY <1>2, <1>3
    <2>2. h \in Seq({ordered[j] : j \in 1 .. Len(ordered)})
      <3>1. h \in Seq({list[j] : j \in 1 .. Len(list)})
        BY <1>8 DEF Picked
      <3>2. QED BY <2>1, <3>1, SeqOfMore, ZenonT(60)
    <2>3. Len(h) \in Nat /\ Len(h) <= Len(ordered)
      BY <1>2, <1>8, <2>2 DEF Picked
    <2>4. ASSUME NEW i \in 1 .. Len(h) PROVE \E j \in 1 .. Len(ordered) : h[i] = ordered[j]
      <3>1. PICK j \in 1 .. trim : h[i] = list[j]
        BY <1>8 DEF Picked
      <3>2. j \in 1 .. Len(ordered)
        BY <1>2
      <3>3. QED BY <1>3, <3>1, <3>2
    <2>5. QED BY <1>8, <2>2, <2>3, <2>4 DEF Picked
  <1>10. (ordered # <<>> /\ max_m > 0) => h # <<>>
    <2>1. ASSUME ordered # <<>>, max_m > 0 PROVE trim > 0
      BY <2>1 DEF trim
    <2>2. (trim > 0 /\ max_m > 0) => h # <<>>
      BY <1>0, <1>1, <1>3, <1>7 DEF KeepInv, h
    <2>3. QED BY <2>1, <2>2
  <1>11. QED BY <1>8, <1>9, <1>10 DEF h

WithoutStep(e, h, x) == IF x = e.n THEN h ELSE Append(h, x)
WithoutInv(e, k, h) == Picked(h, k, e.list)
WithoutLoop == INSTANCE FoldRule WITH Step <- WithoutStep, Inv <- WithoutInv

LEMMA WithoutPicks ==
  ASSUME NEW n, NEW X, NEW list \in Seq(X), Distinct(list)
  PROVE  Picked(Without(list, n), Len(list), list)
  <1> DEFINE e == [n |-> n, list |-> list]
  <1>0. e.n = n /\ e.list = list
    OBVIOUS
  <1>1. Without(list, n) = WithoutLoop!Folded(e, <<>>, list)
    BY DEF Without, WithoutStep, WithoutLoop!Folded, Seqs!FoldLeft,
           WithoutLoop!FoldLeft, Seqs!MapThenFoldSet, WithoutLoop!MapThenFoldSet,
           Seqs!Max, WithoutLoop!Max
  <1> HIDE DEF e
  <1>2. WithoutInv(e, 0, <<>>)
    BY <1>0, PickedNone DEF WithoutInv
  <1>3. ASSUME NEW k \in 1 .. Len(list), NEW h, WithoutInv(e, k - 1, h)
        PROVE  WithoutInv(e, k, WithoutStep(e, h, list[k]))
    <2>1. Picked(h, k - 1, list) /\ Len(list) \in Nat /\ k \in Nat \ {0}
      BY <1>0, <1>3 DEF WithoutInv
    <2>2. Picked(h, k, list) /\ Picked(Append(h, list[k]), k, list)
      BY <2>1, PickedMore, PickedAppend
    <2>3. QED BY <1>0, <2>2 DEF WithoutInv, WithoutStep
  <1>4. WithoutInv(e, Len(list), WithoutLoop!Folded(e, <<>>, list))
    BY <1>2, <1>3, WithoutLoop!FoldKeeps, Zenon
  <1>5. QED BY <1>0, <1>1, <1>4 DEF WithoutInv

(***************************************************************************)
(* Graphs whose lists are sound                                            *)
(***************************************************************************)

Node ==
  {n \in [id : Ids, vec : Vecs, max_layer : 0 .. TopLevel, deleted : BOOLEAN,
          neighbors : UNION {[0 .. m -> Seq(Nat)] : m \in 0 .. TopLevel}] :
     DOMAIN n.neighbors = 0 .. n.max_layer}

\* A list of node i in a graph of N nodes.
ListOK(s, i, N, cap) ==
  s \in Seq((1 .. N) \ {i}) /\ Len(s) <= cap /\ Distinct(s)

\* The lists of Over, (node, layer) pairs, may be too long by one:
\* connect_bidirectional() makes them so before it prunes them.
Cap(Over, i, l) == IF <<i, l>> \in Over THEN MaxM(l) + 1 ELSE MaxM(l)
Sound(g, Over) ==
  /\ g \in Seq(Node)
  /\ \A i \in 1 .. Len(g) : \A l \in 0 .. g[i].max_layer :
       ListOK(g[i].neighbors[l], i, Len(g), Cap(Over, i, l))

\* Graph h is graph g but for the lists.
SameNodes(g, h) ==
  /\ Len(h) = Len(g)
  /\ \A i \in 1 .. Len(g) :
       /\ h[i].id = g[i].id
       /\ h[i].vec = g[i].vec
       /\ h[i].max_layer = g[i].max_layer
       /\ h[i].deleted = g[i].deleted

\* The lists of h are those of g but on layer l.
SameBut(g, h, l) ==
  \A i \in 1 .. Len(g) : \A k \in 0 .. g[i].max_layer :
    k # l => h[i].neighbors[k] = g[i].neighbors[k]

\* The nodes that node i points to on layer 0, and graphs that only gain edges.
To(g, i) == {g[i].neighbors[0][j] : j \in 1 .. Len(g[i].neighbors[0])}
Grows(g, h) == \A i \in 1 .. Len(g) : To(g, i) \subseteq To(h, i)

Linked(g, a, b) == b \in To(g, a) /\ a \in To(g, b)

\* So few nodes that no list of layer 0 is ever too long.
Few(g) == Len(g) <= 2 * M + 1

LEMMA SameButTrans ==
  ASSUME NEW f, NEW g, NEW h, NEW l, SameNodes(f, g), SameBut(f, g, l), SameBut(g, h, l)
  PROVE  SameBut(f, h, l)
  BY DEF SameNodes, SameBut

LEMMA GrowsTrans ==
  ASSUME NEW f, NEW g, NEW h, SameNodes(f, g), Grows(f, g), Grows(g, h)
  PROVE  Grows(f, h)
  BY DEF SameNodes, Grows

LEMMA SameNodesRefl == ASSUME NEW g PROVE SameNodes(g, g)
  BY DEF SameNodes

LEMMA SameNodesTrans ==
  ASSUME NEW f, NEW g, NEW h, SameNodes(f, g), SameNodes(g, h)
  PROVE  SameNodes(f, h)
  BY DEF SameNodes

LEMMA MaxMType == ASSUME NEW l PROVE MaxM(l) \in Nat \ {0}
  BY HNSWGraphAssumption DEF MaxM

LEMMA NodeLists ==
  ASSUME NEW n \in Node, NEW l \in 0 .. n.max_layer
  PROVE  n.neighbors[l] \in Seq(Nat)
  <1>1. PICK m \in 0 .. TopLevel : n.neighbors \in [0 .. m -> Seq(Nat)]
    BY DEF Node
  <1>2. DOMAIN n.neighbors = 0 .. n.max_layer
    BY DEF Node
  <1>3. QED BY <1>1, <1>2

LEMMA NodeFields ==
  ASSUME NEW n \in Node
  PROVE  /\ n.id \in Ids /\ n.vec \in Vecs /\ n.vec \in Nat /\ n.deleted \in BOOLEAN
         /\ n.max_layer \in 0 .. TopLevel /\ n.max_layer \in Nat
         /\ DOMAIN n.neighbors = 0 .. n.max_layer
  <1>1. /\ n.id \in Ids /\ n.vec \in Vecs /\ n.deleted \in BOOLEAN
        /\ n.max_layer \in 0 .. TopLevel
        /\ DOMAIN n.neighbors = 0 .. n.max_layer
    BY DEF Node
  <1>2. n.vec \in Nat
    BY <1>1, HNSWIndexAssumption
  <1>3. n.max_layer \in Nat
    BY <1>1, HNSWIndexAssumption
  <1>4. QED BY <1>1, <1>2, <1>3

LEMMA PutNode ==
  ASSUME NEW n \in Node, NEW l \in 0 .. n.max_layer, NEW s \in Seq(Nat)
  PROVE  LET m == [n EXCEPT !.neighbors[l] = s]
         IN  /\ m \in Node
             /\ m.id = n.id /\ m.vec = n.vec /\ m.max_layer = n.max_layer
             /\ m.deleted = n.deleted
             /\ m.neighbors[l] = s
             /\ \A k \in 0 .. n.max_layer : k # l => m.neighbors[k] = n.neighbors[k]
  <1> DEFINE nbs == [n.neighbors EXCEPT ![l] = s]
             m == [n EXCEPT !.neighbors = nbs]
  <1>1. PICK t \in 0 .. TopLevel : n.neighbors \in [0 .. t -> Seq(Nat)]
    BY DEF Node
  <1>2. DOMAIN n.neighbors = 0 .. n.max_layer
    BY DEF Node
  <1>3. nbs \in [0 .. t -> Seq(Nat)] /\ DOMAIN nbs = 0 .. n.max_layer
        /\ nbs[l] = s /\ \A k \in 0 .. n.max_layer : k # l => nbs[k] = n.neighbors[k]
    BY <1>1, <1>2
  <1> HIDE DEF nbs
  <1>4. /\ m \in [id : Ids, vec : Vecs, max_layer : 0 .. TopLevel, deleted : BOOLEAN,
                  neighbors : UNION {[0 .. k -> Seq(Nat)] : k \in 0 .. TopLevel}]
        /\ m.neighbors = nbs
        /\ m.id = n.id /\ m.vec = n.vec /\ m.max_layer = n.max_layer
        /\ m.deleted = n.deleted
    BY <1>3 DEF Node
  <1> HIDE DEF m
  <1>5. m \in Node
    BY <1>3, <1>4 DEF Node
  <1>6. m = [n EXCEPT !.neighbors[l] = s]
    BY DEF m, nbs
  <1>7. QED BY <1>3, <1>4, <1>5, <1>6

Put(g, i, l, s) == [g EXCEPT ![i].neighbors[l] = s]

LEMMA PutList ==
  ASSUME NEW g, NEW Over, Sound(g, Over), NEW i \in 1 .. Len(g),
         NEW l \in 0 .. g[i].max_layer, NEW After, Over \ {<<i, l>>} \subseteq After,
         NEW s, ListOK(s, i, Len(g), Cap(After, i, l))
  PROVE  /\ Sound(Put(g, i, l, s), After) /\ SameNodes(g, Put(g, i, l, s))
         /\ \A j \in 1 .. Len(g) : \A k \in 0 .. g[j].max_layer :
              Put(g, i, l, s)[j].neighbors[k] =
                IF j = i /\ k = l THEN s ELSE g[j].neighbors[k]
  <1> DEFINE m == [g[i] EXCEPT !.neighbors[l] = s]
             h == [g EXCEPT ![i] = m]
  <1>1. g \in Seq(Node) /\ Len(g) \in Nat /\ g[i] \in Node
    BY DEF Sound
  <1>2. s \in Seq(Nat)
    <2>1. (1 .. Len(g)) \ {i} \subseteq Nat
      OBVIOUS
    <2>2. QED BY <2>1, SeqOfMore DEF ListOK
  <1>3. /\ m \in Node
        /\ m.id = g[i].id /\ m.vec = g[i].vec /\ m.max_layer = g[i].max_layer
        /\ m.deleted = g[i].deleted
        /\ m.neighbors[l] = s
        /\ \A k \in 0 .. g[i].max_layer : k # l => m.neighbors[k] = g[i].neighbors[k]
    BY <1>1, <1>2, PutNode
  <1> HIDE DEF m
  <1>4. h \in Seq(Node) /\ Len(h) = Len(g) /\ h[i] = m
        /\ \A j \in 1 .. Len(g) : j # i => h[j] = g[j]
    BY <1>1, <1>3
  <1> HIDE DEF h
  <1>5. SameNodes(g, h)
    BY <1>3, <1>4 DEF SameNodes
  <1>6. ASSUME NEW j \in 1 .. Len(h), NEW k \in 0 .. h[j].max_layer
        PROVE  ListOK(h[j].neighbors[k], j, Len(h), Cap(After, j, k))
    <2>0. j \in 1 .. Len(g) /\ k \in 0 .. g[j].max_layer
      BY <1>4, <1>5, <1>6 DEF SameNodes
    <2>1. CASE j = i /\ k = l
      BY <2>1, <1>3, <1>4
    <2>2. CASE ~(j = i /\ k = l)
      <3>1. h[j].neighbors[k] = g[j].neighbors[k]
        BY <2>0, <2>2, <1>3, <1>4
      <3>2. ListOK(g[j].neighbors[k], j, Len(g), Cap(Over, j, k))
        BY <2>0 DEF Sound
      <3>3. <<j, k>> \in Over => <<j, k>> \in After
        BY <2>2
      <3>4. Cap(Over, j, k) \in Nat /\ Cap(After, j, k) \in Nat
            /\ Cap(Over, j, k) <= Cap(After, j, k)
        BY <3>3, MaxMType DEF Cap
      <3>5. Len(g[j].neighbors[k]) \in Nat
        BY <3>2 DEF ListOK
      <3>6. QED BY <1>4, <3>1, <3>2, <3>4, <3>5 DEF ListOK
    <2>3. QED BY <2>1, <2>2
  <1>7. Sound(h, After)
    BY <1>4, <1>6 DEF Sound
  <1>8. ASSUME NEW j \in 1 .. Len(g), NEW k \in 0 .. g[j].max_layer
        PROVE  h[j].neighbors[k] = IF j = i /\ k = l THEN s ELSE g[j].neighbors[k]
    BY <1>3, <1>4
  <1>9. h = Put(g, i, l, s)
    BY DEF h, m, Put
  <1>10. QED BY <1>5, <1>7, <1>8, <1>9

LEMMA PickedFrom ==
  ASSUME NEW h, NEW k, NEW X, NEW list \in Seq(X), Picked(h, k, list)
  PROVE  h \in Seq(X)
  <1>1. {list[j] : j \in 1 .. Len(list)} \subseteq X
    OBVIOUS
  <1>2. h \in Seq({list[j] : j \in 1 .. Len(list)})
    BY DEF Picked
  <1>3. QED BY <1>1, <1>2, SeqOfMore, Zenon

LEMMA SoundUnless ==
  ASSUME NEW g, NEW Over, Sound(g, Over), NEW After,
         \A i \in 1 .. Len(g) : \A l \in 0 .. g[i].max_layer :
           (<<i, l>> \in Over /\ <<i, l>> \notin After) => Len(g[i].neighbors[l]) <= MaxM(l)
  PROVE  Sound(g, After)
  <1> SUFFICES ASSUME NEW i \in 1 .. Len(g), NEW l \in 0 .. g[i].max_layer
               PROVE  ListOK(g[i].neighbors[l], i, Len(g), Cap(After, i, l))
    BY DEF Sound
  <1>1. ListOK(g[i].neighbors[l], i, Len(g), Cap(Over, i, l))
    BY DEF Sound
  <1>2. Len(g[i].neighbors[l]) \in Nat /\ Len(g[i].neighbors[l]) <= Cap(Over, i, l)
    BY <1>1 DEF ListOK
  <1>3. MaxM(l) \in Nat
    BY MaxMType
  <1>4. (<<i, l>> \in Over /\ <<i, l>> \notin After) => Len(g[i].neighbors[l]) <= MaxM(l)
    OBVIOUS
  <1>5. Len(g[i].neighbors[l]) <= Cap(After, i, l)
    BY <1>2, <1>3, <1>4 DEF Cap
  <1>6. QED BY <1>1, <1>5 DEF ListOK

\* A list of distinct nodes other than i.
LEMMA ShortList ==
  ASSUME NEW N \in Nat, NEW i \in 1 .. N, NEW s \in Seq((1 .. N) \ {i}), Distinct(s)
  PROVE  Len(s) + 1 <= N
  <1> DEFINE T == (1 .. N) \ {i}
             f == [j \in 1 .. Len(s) |-> s[j]]
  <1>1. Len(s) \in Nat /\ \A j \in 1 .. Len(s) : s[j] \in T
    OBVIOUS
  <1>2. IsFiniteSet(1 .. N) /\ Cardinality(1 .. N) = N
    BY FS_Interval
  <1>3. IsFiniteSet(T) /\ Cardinality(T) = N - 1
    BY <1>2, FS_RemoveElement
  <1>4. Cardinality(1 .. Len(s)) = Len(s)
    <2> DEFINE n == Len(s)
    <2> HIDE DEF n
    <2>1. n \in Nat
      BY <1>1 DEF n
    <2>2. Cardinality(1 .. n) = n
      BY <2>1, FS_Interval, SMTT(40)
    <2>3. QED BY <2>2 DEF n
  <1>5. f \in [1 .. Len(s) -> T]
    BY <1>1
  <1>6. f \in Injection(1 .. Len(s), T)
    BY <1>5 DEF Injection, IsInjective, Distinct
  <1>7. Cardinality(1 .. Len(s)) <= Cardinality(T)
    BY <1>3, <1>6, FS_Injection
  <1>8. QED BY <1>1, <1>3, <1>4, <1>7

(***************************************************************************)
(* connect_bidirectional()                                                 *)
(***************************************************************************)

LEMMA AddEdgeSound ==
  ASSUME NEW g, NEW Over, Sound(g, Over), NEW a \in 1 .. Len(g), NEW b \in 1 .. Len(g),
         a # b, NEW l \in 0 .. g[a].max_layer, <<a, l>> \notin Over
  PROVE  /\ Sound(AddEdge(g, a, b, l), Over \cup {<<a, l>>})
         /\ SameNodes(g, AddEdge(g, a, b, l))
         /\ SameBut(g, AddEdge(g, a, b, l), l)
         /\ l = 0 => Grows(g, AddEdge(g, a, b, l)) /\ b \in To(AddEdge(g, a, b, l), a)
  <1> DEFINE s == g[a].neighbors[l]
             r == Append(s, b)
  <1>1. ListOK(s, a, Len(g), MaxM(l)) /\ MaxM(l) \in Nat
    BY MaxMType DEF Sound, Cap
  <1>2. CASE Seqs!Contains(s, b)
    <2>1. AddEdge(g, a, b, l) = g
      BY <1>2 DEF AddEdge
    <2>2. l = 0 => b \in To(g, a)
      BY <1>2 DEF Seqs!Contains, To
    <2>3. QED BY <2>1, <2>2, SoundUnless, SameNodesRefl DEF SameBut, Grows
  <1>3. CASE ~Seqs!Contains(s, b)
    <2>1. AddEdge(g, a, b, l) = Put(g, a, l, r)
      BY <1>3 DEF AddEdge, Put
    <2>2. ListOK(r, a, Len(g), MaxM(l) + 1)
      <3>1. s \in Seq((1 .. Len(g)) \ {a}) /\ Len(s) \in Nat /\ Len(s) <= MaxM(l) /\ Distinct(s)
            /\ b \in (1 .. Len(g)) \ {a}
        BY <1>1 DEF ListOK
      <3>2. \A i \in 1 .. Len(s) : s[i] # b
        BY <1>3 DEF Seqs!Contains
      <3> HIDE DEF s
      <3>3. r \in Seq((1 .. Len(g)) \ {a}) /\ Len(r) = Len(s) + 1
        BY <3>1
      <3>4. r[Len(s) + 1] = b /\ \A i \in 1 .. Len(s) : r[i] = s[i]
        BY <3>1
      <3> HIDE DEF r
      <3>5. ASSUME NEW i \in 1 .. Len(s) + 1, NEW j \in 1 .. Len(s) + 1, r[i] = r[j]
            PROVE  i = j
        <4>1. CASE i = Len(s) + 1 /\ j # i
          <5>1. j \in 1 .. Len(s)
            BY <3>1, <4>1
          <5>2. QED BY <3>2, <3>4, <3>5, <4>1, <5>1
        <4>2. CASE j = Len(s) + 1 /\ j # i
          <5>1. i \in 1 .. Len(s)
            BY <3>1, <4>2
          <5>2. QED BY <3>2, <3>4, <3>5, <4>2, <5>1
        <4>3. CASE i # Len(s) + 1 /\ j # Len(s) + 1
          <5>1. i \in 1 .. Len(s) /\ j \in 1 .. Len(s)
            BY <3>1, <4>3
          <5>2. s[i] = s[j]
            BY <3>4, <3>5, <5>1
          <5>3. QED BY <3>1, <5>1, <5>2 DEF Distinct
        <4>4. QED BY <4>1, <4>2, <4>3
      <3>6. Distinct(r)
        BY <3>3, <3>5 DEF Distinct
      <3>7. Len(r) <= MaxM(l) + 1
        BY <1>1, <3>1, <3>3
      <3>8. QED BY <3>3, <3>6, <3>7 DEF ListOK
    <2>3. Cap(Over \cup {<<a, l>>}, a, l) = MaxM(l) + 1
      BY DEF Cap
    <2> HIDE DEF r
    <2>4. ListOK(r, a, Len(g), Cap(Over \cup {<<a, l>>}, a, l))
      BY <2>2, <2>3
    <2>5. Over \ {<<a, l>>} \subseteq Over \cup {<<a, l>>}
      OBVIOUS
    <2>6. /\ Sound(Put(g, a, l, r), Over \cup {<<a, l>>}) /\ SameNodes(g, Put(g, a, l, r))
          /\ \A j \in 1 .. Len(g) : \A k \in 0 .. g[j].max_layer :
               Put(g, a, l, r)[j].neighbors[k] =
                 IF j = a /\ k = l THEN r ELSE g[j].neighbors[k]
      BY <2>4, <2>5, PutList
    <2> DEFINE h == Put(g, a, l, r)
    <2>7. SameBut(g, h, l)
      BY <2>6 DEF SameBut
    <2>8. ASSUME l = 0 PROVE Grows(g, h) /\ b \in To(h, a)
      <3>0. s \in Seq((1 .. Len(g)) \ {a})
        BY <1>1 DEF ListOK
      <3>1. Len(r) = Len(s) + 1 /\ r[Len(s) + 1] = b /\ (\A i \in 1 .. Len(s) : r[i] = s[i])
            /\ Len(s) \in Nat
        BY <3>0 DEF r
      <3> HIDE DEF s
      <3>2. \A j \in 1 .. Len(g) : 0 \in 0 .. g[j].max_layer
        BY NodeFields DEF Sound
      <3>3. h[a].neighbors[0] = r
        BY <2>6, <2>8, <3>2
      <3>4. \A j \in 1 .. Len(g) : j # a => h[j].neighbors[0] = g[j].neighbors[0]
        BY <2>6, <3>2
      <3> HIDE DEF h
      <3>5. b \in To(h, a)
        BY <3>1, <3>3 DEF To
      <3>6. ASSUME NEW j \in 1 .. Len(g) PROVE To(g, j) \subseteq To(h, j)
        <4>1. CASE j = a
          <5>1. g[a].neighbors[0] = s
            BY <2>8 DEF s
          <5>2. QED BY <3>1, <3>3, <4>1, <5>1 DEF To
        <4>2. CASE j # a
          BY <3>4, <4>2 DEF To
        <4>3. QED BY <4>1, <4>2
      <3>7. QED BY <3>5, <3>6 DEF Grows, h
    <2>9. QED BY <2>1, <2>6, <2>7, <2>8
  <1>4. QED BY <1>2, <1>3

LEMMA PruneSound ==
  ASSUME NEW g, NEW Over, Sound(g, Over), NEW c \in 1 .. Len(g), NEW l \in 0 .. g[c].max_layer
  PROVE  /\ Sound(PruneIfFull(g, c, l, MaxM(l)), Over \ {<<c, l>>})
         /\ SameNodes(g, PruneIfFull(g, c, l, MaxM(l)))
         /\ SameBut(g, PruneIfFull(g, c, l, MaxM(l)), l)
         /\ (l = 0 /\ Few(g)) => PruneIfFull(g, c, l, MaxM(l)) = g
  <1> DEFINE s == g[c].neighbors[l]
             ordered == SortByDistance(g, g[c].vec, 1 .. Len(g), s)
             sel == Select(g, g[c].vec, ordered, MaxM(l))
  <1>1. s \in Seq((1 .. Len(g)) \ {c}) /\ Distinct(s) /\ Len(s) \in Nat /\ MaxM(l) \in Nat
    <2>1. ListOK(s, c, Len(g), Cap(Over, c, l))
      BY DEF Sound
    <2>2. s \in Seq((1 .. Len(g)) \ {c}) /\ Distinct(s)
      BY <2>1 DEF ListOK
    <2>3. QED BY <2>2, MaxMType
  <1>2. CASE ~(Len(s) > MaxM(l))
    <2>1. PruneIfFull(g, c, l, MaxM(l)) = g
      BY <1>2 DEF PruneIfFull
    <2>2. Len(s) <= MaxM(l)
      BY <1>1, <1>2
    <2>3. ASSUME NEW i \in 1 .. Len(g), NEW k \in 0 .. g[i].max_layer,
                 <<i, k>> \in Over, <<i, k>> \notin Over \ {<<c, l>>}
          PROVE  Len(g[i].neighbors[k]) <= MaxM(k)
      BY <2>2, <2>3
    <2>4. Sound(g, Over \ {<<c, l>>})
      BY <2>3, SoundUnless
    <2>5. QED BY <2>1, <2>4, SameNodesRefl DEF SameBut
  <1>3. CASE Len(s) > MaxM(l)
    <2>1. PruneIfFull(g, c, l, MaxM(l)) = Put(g, c, l, sel)
      BY <1>3 DEF PruneIfFull, Prune, Put
    <2> HIDE DEF s
    <2>2. Picked(ordered, Len(s), s)
      BY <1>1, SortPicks
    <2> HIDE DEF ordered
    <2>3. ordered \in Seq((1 .. Len(g)) \ {c}) /\ Distinct(ordered)
      BY <1>1, <2>2, PickedFrom DEF Picked
    <2>4. Picked(sel, Len(ordered), ordered) /\ Len(sel) <= MaxM(l)
      BY <1>1, <2>3, SelectPicks
    <2> HIDE DEF sel
    <2>5. sel \in Seq((1 .. Len(g)) \ {c}) /\ Distinct(sel)
      BY <2>3, <2>4, PickedFrom DEF Picked
    <2>6. ListOK(sel, c, Len(g), Cap(Over \ {<<c, l>>}, c, l))
      BY <2>4, <2>5 DEF ListOK, Cap
    <2>7. Over \ {<<c, l>>} \subseteq Over \ {<<c, l>>}
      OBVIOUS
    <2>8. /\ Sound(Put(g, c, l, sel), Over \ {<<c, l>>}) /\ SameNodes(g, Put(g, c, l, sel))
          /\ \A j \in 1 .. Len(g) : \A k \in 0 .. g[j].max_layer :
               Put(g, c, l, sel)[j].neighbors[k] =
                 IF j = c /\ k = l THEN sel ELSE g[j].neighbors[k]
      BY <2>6, <2>7, PutList
    <2>9. SameBut(g, Put(g, c, l, sel), l)
      BY <2>8 DEF SameBut
    <2>10. ASSUME l = 0, Few(g) PROVE FALSE
      <3>1. Len(s) + 1 <= Len(g) /\ Len(g) \in Nat
        BY <1>1, ShortList DEF Sound
      <3>2. QED BY <1>1, <1>3, <2>10, <3>1, HNSWGraphAssumption DEF Few, MaxM, s
    <2>11. QED BY <2>1, <2>8, <2>9, <2>10
  <1>4. QED BY <1>2, <1>3

LEMMA ConnectSound ==
  ASSUME NEW g, Sound(g, {}), NEW a \in 1 .. Len(g), NEW b \in 1 .. Len(g), NEW l \in Nat
  PROVE  /\ Sound(ConnectBidirectional(g, a, b, l, MaxM(l)), {})
         /\ SameNodes(g, ConnectBidirectional(g, a, b, l, MaxM(l)))
         /\ SameBut(g, ConnectBidirectional(g, a, b, l, MaxM(l)), l)
         /\ (l = 0 /\ Few(g)) =>
              LET h == ConnectBidirectional(g, a, b, l, MaxM(l))
              IN  Grows(g, h) /\ (a # b => b \in To(h, a) /\ a \in To(h, b))
  <1> DEFINE g1 == AddEdge(g, a, b, l)
             g2 == AddEdge(g1, b, a, l)
             g3 == PruneIfFull(g2, a, l, MaxM(l))
             g4 == PruneIfFull(g3, b, l, MaxM(l))
             stays == a = b \/ ~OnLayer(g[a], l) \/ ~OnLayer(g[b], l)
  <1>1. ConnectBidirectional(g, a, b, l, MaxM(l)) = IF stays THEN g ELSE g4
    BY DEF ConnectBidirectional
  <1>0. \A i \in 1 .. Len(g) : g[i].max_layer \in Nat
    BY NodeFields DEF Sound
  <1>2. CASE stays
    <2>1. l = 0 => a = b
      BY <1>0, <1>2 DEF OnLayer
    <2>2. QED BY <1>1, <1>2, <2>1, SameNodesRefl DEF SameBut, Grows
  <1>3. CASE ~stays
    <2>1. a # b /\ l \in 0 .. g[a].max_layer /\ l \in 0 .. g[b].max_layer
      <3>1. g[a].max_layer \in Nat /\ g[b].max_layer \in Nat
        BY NodeFields DEF Sound
      <3>2. QED BY <1>3, <3>1 DEF OnLayer
    <2>2. /\ Sound(g1, {<<a, l>>}) /\ SameNodes(g, g1) /\ SameBut(g, g1, l)
          /\ l = 0 => Grows(g, g1) /\ b \in To(g1, a)
      <3>1. /\ Sound(g1, {} \cup {<<a, l>>}) /\ SameNodes(g, g1) /\ SameBut(g, g1, l)
            /\ l = 0 => Grows(g, g1) /\ b \in To(g1, a)
        <4>1. <<a, l>> \notin {}
          OBVIOUS
        <4>2. QED BY <2>1, <4>1, AddEdgeSound
      <3>2. {} \cup {<<a, l>>} = {<<a, l>>}
        OBVIOUS
      <3>3. QED BY <3>1, <3>2
    <2> HIDE DEF g1
    <2>3. a \in 1 .. Len(g1) /\ b \in 1 .. Len(g1) /\ l \in 0 .. g1[b].max_layer
      BY <2>1, <2>2 DEF SameNodes
    <2>4. /\ Sound(g2, {<<a, l>>} \cup {<<b, l>>}) /\ SameNodes(g1, g2) /\ SameBut(g1, g2, l)
          /\ l = 0 => Grows(g1, g2) /\ a \in To(g2, b)
      <3>1. <<b, l>> \notin {<<a, l>>}
        BY <2>1
      <3>2. QED BY <2>1, <2>2, <2>3, <3>1, AddEdgeSound
    <2> HIDE DEF g2
    <2>5. SameNodes(g, g2)
      BY <2>2, <2>4, SameNodesTrans
    <2>6. a \in 1 .. Len(g2) /\ l \in 0 .. g2[a].max_layer
      BY <2>1, <2>5 DEF SameNodes
    <2>7. /\ Sound(g3, ({<<a, l>>} \cup {<<b, l>>}) \ {<<a, l>>}) /\ SameNodes(g2, g3)
          /\ SameBut(g2, g3, l) /\ ((l = 0 /\ Few(g2)) => g3 = g2)
      BY <2>4, <2>6, PruneSound
    <2> HIDE DEF g3
    <2>8. SameNodes(g, g3)
      BY <2>5, <2>7, SameNodesTrans
    <2>9. b \in 1 .. Len(g3) /\ l \in 0 .. g3[b].max_layer
      BY <2>1, <2>8 DEF SameNodes
    <2>10. /\ Sound(g4, (({<<a, l>>} \cup {<<b, l>>}) \ {<<a, l>>}) \ {<<b, l>>})
           /\ SameNodes(g3, g4) /\ SameBut(g3, g4, l) /\ ((l = 0 /\ Few(g3)) => g4 = g3)
      BY <2>7, <2>9, PruneSound
    <2> HIDE DEF g4
    <2>11. (({<<a, l>>} \cup {<<b, l>>}) \ {<<a, l>>}) \ {<<b, l>>} = {}
      OBVIOUS
    <2>12. SameNodes(g, g4)
      BY <2>8, <2>10, SameNodesTrans
    <2>13. SameBut(g, g4, l)
      <3>1. SameBut(g, g2, l)
        BY <2>2, <2>4, SameButTrans
      <3>2. SameBut(g, g3, l)
        BY <2>5, <2>7, <3>1, SameButTrans
      <3>3. QED BY <2>8, <2>10, <3>2, SameButTrans
    <2>14. ASSUME l = 0, Few(g) PROVE Grows(g, g4) /\ b \in To(g4, a) /\ a \in To(g4, b)
      <3>1. Few(g2)
        BY <2>5, <2>14 DEF SameNodes, Few
      <3>2. g4 = g2
        BY <2>7, <2>10, <2>14, <3>1
      <3>3. Grows(g, g2)
        BY <2>2, <2>4, <2>14, GrowsTrans
      <3>4. b \in To(g2, a)
        BY <2>2, <2>3, <2>4, <2>14 DEF Grows
      <3>5. QED BY <2>4, <2>14, <3>2, <3>3, <3>4
    <2>15. QED BY <1>1, <1>3, <2>10, <2>11, <2>12, <2>13, <2>14
  <1>4. QED BY <1>2, <1>3

LEMMA LayersType ==
  ASSUME NEW hi \in Int, NEW lo \in Int
  PROVE  Layers(hi, lo) \in Seq(lo .. hi) /\ Distinct(Layers(hi, lo))
  <1> DEFINE n == IF hi - lo + 1 >= 0 THEN hi - lo + 1 ELSE 0
  <1>1. n \in Nat /\ 1 .. n = 1 .. hi - lo + 1
    OBVIOUS
  <1>2. Layers(hi, lo) = [i \in 1 .. n |-> hi - i + 1]
    BY <1>1 DEF Layers
  <1>3. \A i \in 1 .. n : hi - i + 1 \in lo .. hi
    OBVIOUS
  <1> HIDE DEF n
  <1>4. Layers(hi, lo) \in [1 .. n -> lo .. hi]
    BY <1>2, <1>3
  <1>5. Layers(hi, lo) \in Seq(lo .. hi) /\ Len(Layers(hi, lo)) = n
    BY <1>1, <1>4
  <1>6. ASSUME NEW i \in 1 .. n, NEW j \in 1 .. n, Layers(hi, lo)[i] = Layers(hi, lo)[j]
        PROVE  i = j
    <2>1. hi - i + 1 = hi - j + 1
      BY <1>2, <1>6
    <2>2. QED BY <1>1, <2>1
  <1>7. QED BY <1>5, <1>6 DEF Distinct

(***************************************************************************)
(* The loops over the lists of a graph                                     *)
(***************************************************************************)

\* What every loop of connections or cuts keeps.
GraphInv(e, k, h) == Sound(h, {}) /\ SameNodes(e.g, h)

ConnectStep(e, h, nb) == ConnectBidirectional(h, e.n, nb, e.l, MaxM(e.l))
ConnectInv(e, k, h) ==
  /\ GraphInv(e, k, h)
  /\ SameBut(e.g, h, e.l)
  /\ (e.l = 0 /\ Few(e.g)) =>
       Grows(e.g, h) /\ \A j \in 1 .. k : e.list[j] # e.n => Linked(h, e.n, e.list[j])
ConnectLoop == INSTANCE FoldRule WITH Step <- ConnectStep, Inv <- ConnectInv

LEMMA ConnectAllSound ==
  ASSUME NEW g, Sound(g, {}), NEW n \in 1 .. Len(g), NEW l \in Nat,
         NEW list \in Seq(1 .. Len(g))
  PROVE  LET r == ConnectAll(g, n, l, list)
         IN  /\ Sound(r, {}) /\ SameNodes(g, r) /\ SameBut(g, r, l)
             /\ (l = 0 /\ Few(g)) =>
                  /\ Grows(g, r)
                  /\ \A j \in 1 .. Len(list) : list[j] # n => Linked(r, n, list[j])
  <1> DEFINE e == [g |-> g, n |-> n, l |-> l, list |-> list]
  <1>0. e.g = g /\ e.n = n /\ e.l = l /\ e.list = list
    OBVIOUS
  <1>1. ConnectAll(g, n, l, list) = ConnectLoop!Folded(e, g, list)
    BY DEF ConnectAll, ConnectStep, ConnectLoop!Folded, Seqs!FoldLeft,
           ConnectLoop!FoldLeft, Seqs!MapThenFoldSet, ConnectLoop!MapThenFoldSet,
           Seqs!Max, ConnectLoop!Max
  <1> HIDE DEF e
  <1>2. ConnectInv(e, 0, g)
    BY <1>0, SameNodesRefl DEF ConnectInv, GraphInv, SameBut, Grows
  <1>3. ASSUME NEW k \in 1 .. Len(list), NEW h, ConnectInv(e, k - 1, h)
        PROVE  ConnectInv(e, k, ConnectStep(e, h, list[k]))
    <2>1. /\ Sound(h, {}) /\ SameNodes(g, h) /\ SameBut(g, h, l) /\ Len(h) = Len(g)
          /\ (l = 0 /\ Few(g)) =>
               Grows(g, h) /\ \A j \in 1 .. k - 1 : list[j] # n => Linked(h, n, list[j])
      BY <1>0, <1>3 DEF ConnectInv, GraphInv, SameNodes
    <2>2. n \in 1 .. Len(h) /\ list[k] \in 1 .. Len(h)
      BY <2>1
    <2> DEFINE h1 == ConnectBidirectional(h, n, list[k], l, MaxM(l))
    <2>3. /\ Sound(h1, {}) /\ SameNodes(h, h1) /\ SameBut(h, h1, l)
          /\ (l = 0 /\ Few(h)) => Grows(h, h1) /\ (n # list[k] => Linked(h1, n, list[k]))
      BY <2>1, <2>2, ConnectSound DEF Linked
    <2>4. ConnectStep(e, h, list[k]) = h1
      BY <1>0 DEF ConnectStep
    <2> HIDE DEF h1
    <2>5. SameNodes(g, h1) /\ SameBut(g, h1, l)
      BY <2>1, <2>3, SameNodesTrans, SameButTrans
    <2>6. ASSUME l = 0, Few(g)
          PROVE  Grows(g, h1) /\ \A j \in 1 .. k : list[j] # n => Linked(h1, n, list[j])
      <3>1. Grows(h, h1) /\ Grows(g, h) /\ (n # list[k] => Linked(h1, n, list[k]))
        BY <2>1, <2>3, <2>6 DEF Few
      <3>2. Grows(g, h1)
        BY <2>1, <3>1, GrowsTrans
      <3>3. ASSUME NEW j \in 1 .. k, list[j] # n PROVE Linked(h1, n, list[j])
        <4>1. CASE j = k
          BY <3>1, <3>3, <4>1
        <4>2. CASE j # k
          <5>1. j \in 1 .. k - 1 /\ j \in 1 .. Len(list) /\ list[j] \in 1 .. Len(h)
            BY <2>1, <4>2
          <5>2. Linked(h, n, list[j])
            BY <2>1, <2>6, <3>3, <5>1
          <5>3. QED BY <2>2, <3>1, <5>1, <5>2 DEF Linked, Grows
        <4>3. QED BY <4>1, <4>2
      <3>4. QED BY <3>2, <3>3
    <2>7. QED BY <1>0, <2>3, <2>4, <2>5, <2>6 DEF ConnectInv, GraphInv
  <1>4. ConnectInv(e, Len(list), ConnectLoop!Folded(e, g, list))
    BY <1>2, <1>3, ConnectLoop!FoldKeeps, Zenon
  <1>5. QED BY <1>0, <1>1, <1>4 DEF ConnectInv, GraphInv

LEMMA CutSound ==
  ASSUME NEW g, Sound(g, {}), NEW n, NEW l \in Nat, NEW nb \in 1 .. Len(g)
  PROVE  Sound(Cut(g, n, l, nb), {}) /\ SameNodes(g, Cut(g, n, l, nb))
  <1> DEFINE s == g[nb].neighbors[l]
             r == Without(s, n)
  <1>1. CASE ~OnLayer(g[nb], l)
    <2>1. Cut(g, n, l, nb) = g
      BY <1>1 DEF Cut
    <2>2. QED BY <2>1, SameNodesRefl
  <1>2. CASE OnLayer(g[nb], l)
    <2>1. l \in 0 .. g[nb].max_layer
      <3>1. g[nb].max_layer \in Nat
        BY NodeFields DEF Sound
      <3>2. QED BY <1>2, <3>1 DEF OnLayer
    <2>2. Cut(g, n, l, nb) = Put(g, nb, l, r)
      BY <1>2 DEF Cut, Put
    <2>3. ListOK(s, nb, Len(g), Cap({}, nb, l))
      BY <2>1 DEF Sound
    <2> HIDE DEF s
    <2>4. s \in Seq((1 .. Len(g)) \ {nb}) /\ Len(s) <= MaxM(l) /\ Distinct(s) /\ Len(s) \in Nat
          /\ MaxM(l) \in Nat
      BY <2>3, MaxMType DEF ListOK, Cap
    <2>5. Picked(r, Len(s), s)
      BY <2>4, WithoutPicks
    <2> HIDE DEF r
    <2>6. r \in Seq((1 .. Len(g)) \ {nb}) /\ Distinct(r) /\ Len(r) <= Len(s)
      BY <2>4, <2>5, PickedFrom DEF Picked
    <2>7. Len(r) \in Nat /\ Len(r) <= MaxM(l)
      BY <2>4, <2>6
    <2>8. ListOK(r, nb, Len(g), Cap({}, nb, l))
      BY <2>6, <2>7 DEF ListOK, Cap
    <2>9. {} \ {<<nb, l>>} \subseteq {}
      OBVIOUS
    <2>10. QED BY <2>1, <2>2, <2>8, <2>9, PutList
  <1>3. QED BY <1>1, <1>2

CutStep(e, h, nb) == Cut(h, e.n, e.l, nb)
CutLoop == INSTANCE FoldRule WITH Step <- CutStep, Inv <- GraphInv

LEMMA CutAllSound ==
  ASSUME NEW g, Sound(g, {}), NEW n, NEW l \in Nat, NEW list \in Seq(1 .. Len(g))
  PROVE  Sound(CutAll(g, n, l, list), {}) /\ SameNodes(g, CutAll(g, n, l, list))
  <1> DEFINE e == [g |-> g, n |-> n, l |-> l]
  <1>0. e.g = g /\ e.n = n /\ e.l = l
    OBVIOUS
  <1>1. CutAll(g, n, l, list) = CutLoop!Folded(e, g, list)
    BY DEF CutAll, CutStep, CutLoop!Folded, Seqs!FoldLeft,
           CutLoop!FoldLeft, Seqs!MapThenFoldSet, CutLoop!MapThenFoldSet,
           Seqs!Max, CutLoop!Max
  <1> HIDE DEF e
  <1>2. GraphInv(e, 0, g)
    BY <1>0, SameNodesRefl DEF GraphInv
  <1>3. ASSUME NEW k \in 1 .. Len(list), NEW h, GraphInv(e, k - 1, h)
        PROVE  GraphInv(e, k, CutStep(e, h, list[k]))
    <2>1. Sound(h, {}) /\ SameNodes(g, h) /\ Len(h) = Len(g)
      BY <1>0, <1>3 DEF GraphInv, SameNodes
    <2>2. list[k] \in 1 .. Len(h)
      BY <2>1
    <2> DEFINE h1 == Cut(h, n, l, list[k])
    <2>3. Sound(h1, {}) /\ SameNodes(h, h1)
      BY <2>1, <2>2, CutSound
    <2>4. CutStep(e, h, list[k]) = h1
      BY <1>0 DEF CutStep
    <2> HIDE DEF h1
    <2>5. SameNodes(g, h1)
      BY <2>1, <2>3, SameNodesTrans
    <2>6. QED BY <1>0, <2>3, <2>4, <2>5 DEF GraphInv
  <1>4. GraphInv(e, Len(list), CutLoop!Folded(e, g, list))
    BY <1>2, <1>3, CutLoop!FoldKeeps, Zenon
  <1>5. QED BY <1>0, <1>1, <1>4 DEF GraphInv

\* The lists of a sound graph can be followed on every layer of a node.
LEMMA ListsInRange ==
  ASSUME NEW g, Sound(g, {}), NEW i \in 1 .. Len(g), NEW l \in 0 .. g[i].max_layer
  PROVE  g[i].neighbors[l] \in Seq(1 .. Len(g))
  <1>1. g[i].neighbors[l] \in Seq((1 .. Len(g)) \ {i})
    <2>1. ListOK(g[i].neighbors[l], i, Len(g), Cap({}, i, l))
      BY DEF Sound
    <2>2. QED BY <2>1 DEF ListOK
  <1>2. QED BY <1>1

CutLayerStep(e, h, l) == CutAll(h, e.n, l, e.g[e.n].neighbors[l])
CutLayerLoop == INSTANCE FoldRule WITH Step <- CutLayerStep, Inv <- GraphInv

LEMMA DetachSound ==
  ASSUME NEW g, Sound(g, {}), NEW n \in 1 .. Len(g)
  PROVE  Sound(Detach(g, n), {}) /\ SameNodes(g, Detach(g, n))
  <1> DEFINE e == [g |-> g, n |-> n]
             layers == Layers(g[n].max_layer, 0)
  <1>0. e.g = g /\ e.n = n
    OBVIOUS
  <1>1. Detach(g, n) = CutLayerLoop!Folded(e, g, layers)
    BY DEF Detach, CutLayerStep, CutLayerLoop!Folded, Seqs!FoldLeft,
           CutLayerLoop!FoldLeft, Seqs!MapThenFoldSet, CutLayerLoop!MapThenFoldSet,
           Seqs!Max, CutLayerLoop!Max
  <1>2. layers \in Seq(0 .. g[n].max_layer) /\ g[n].max_layer \in Nat
    <2>1. g[n].max_layer \in Nat
      BY NodeFields DEF Sound
    <2>2. QED BY <2>1, LayersType
  <1> HIDE DEF e, layers
  <1>3. GraphInv(e, 0, g)
    BY <1>0, SameNodesRefl DEF GraphInv
  <1>4. ASSUME NEW k \in 1 .. Len(layers), NEW h, GraphInv(e, k - 1, h)
        PROVE  GraphInv(e, k, CutLayerStep(e, h, layers[k]))
    <2> DEFINE l == layers[k]
               h1 == CutAll(h, n, l, g[n].neighbors[l])
    <2>1. Sound(h, {}) /\ SameNodes(g, h) /\ Len(h) = Len(g)
      BY <1>0, <1>4 DEF GraphInv, SameNodes
    <2>2. l \in 0 .. g[n].max_layer /\ l \in Nat
      BY <1>2
    <2>3. CutLayerStep(e, h, l) = h1
      BY <1>0 DEF CutLayerStep
    <2> HIDE DEF l
    <2>4. g[n].neighbors[l] \in Seq(1 .. Len(h))
      BY <2>1, <2>2, ListsInRange
    <2>5. Sound(h1, {}) /\ SameNodes(h, h1)
      BY <2>1, <2>2, <2>4, CutAllSound
    <2> HIDE DEF h1
    <2>6. SameNodes(g, h1)
      BY <2>1, <2>5, SameNodesTrans
    <2>7. QED BY <1>0, <2>3, <2>5, <2>6 DEF GraphInv, l
  <1>5. GraphInv(e, Len(layers), CutLayerLoop!Folded(e, g, layers))
    BY <1>2, <1>3, <1>4, CutLayerLoop!FoldKeeps, Zenon
  <1>6. QED BY <1>0, <1>1, <1>5 DEF GraphInv

(***************************************************************************)
(* search_layer()                                                          *)
(***************************************************************************)

LEMMA NearestIn ==
  ASSUME NEW g \in Seq(Node), NEW q \in Nat, NEW S, S \subseteq 1 .. Len(g), S # {}
  PROVE  Nearest(g, q, S) \in S
  <1> DEFINE D == {Dist(g[n].vec, q) : n \in S}
  <1>1. \A n \in S : Dist(g[n].vec, q) \in Nat
    <2> SUFFICES ASSUME NEW n \in S PROVE Dist(g[n].vec, q) \in Nat
      OBVIOUS
    <2>1. g[n].vec \in Nat
      BY NodeFields
    <2>2. QED BY <2>1 DEF Dist
  <1>2. D \subseteq Nat /\ D # {}
    BY <1>1
  <1>3. PICK d \in D : \A e \in D : d <= e
    BY <1>2, PlaceLoop!NatMin
  <1>4. PICK n \in S : d = Dist(g[n].vec, q)
    OBVIOUS
  <1>5. \A m \in S : Dist(g[n].vec, q) <= Dist(g[m].vec, q)
    BY <1>3, <1>4
  <1>6. QED BY <1>5 DEF Nearest

\* The nodes a search with this filter may return.
Passing(g, F) == {i \in Live(g) : g[i].id \in F}

\* The lists of layer l lead from nodes of X to nodes of X only.
Closed(g, l, X) ==
  /\ X \subseteq 1 .. Len(g)
  /\ \A i \in X : l \in 0 .. g[i].max_layer => g[i].neighbors[l] \in Seq(X)

LEMMA AllClosed ==
  ASSUME NEW g, Sound(g, {}), NEW l PROVE Closed(g, l, 1 .. Len(g))
  BY ListsInRange DEF Closed

\* A search that stays in X, and that has found something if `some' says so.
SearchState(g, F, X, some) ==
  {s \in [seen : SUBSET X, cand : SUBSET X, res : SUBSET (X \cap Passing(g, F))] :
     some => s.res # {}}

LEMMA VisitKeeps ==
  ASSUME NEW g, NEW q, NEW ef, NEW l, NEW F, NEW X, X \subseteq 1 .. Len(g), Len(g) \in Nat,
         NEW some, some => ef \in Nat \ {0},
         NEW s \in SearchState(g, F, X, some), NEW nb \in X
  PROVE  Visit(g, q, ef, l, F, s, nb) \in SearchState(g, F, X, some)
  <1>1. CASE nb \in s.seen
    BY <1>1 DEF Visit
  <1>2. CASE nb \notin s.seen /\ Skipped(g[nb], l)
    <2>1. Visit(g, q, ef, l, F, s, nb) = [s EXCEPT !.seen = @ \cup {nb}]
      BY <1>2 DEF Visit
    <2>2. QED BY <2>1 DEF SearchState
  <1>3. CASE nb \notin s.seen /\ ~Skipped(g[nb], l)
    <2> DEFINE r == Visit(g, q, ef, l, F, s, nb)
               grown == s.res \cup {nb}
    <2>1. PICK cand, res :
            /\ r = [seen |-> s.seen \cup {nb}, cand |-> cand, res |-> res]
            /\ cand \in {s.cand, s.cand \cup {nb}}
            /\ \/ res = s.res
               \/ g[nb].id \in F /\ res = grown
               \/ /\ g[nb].id \in F /\ res = grown \ {Farthest(g, q, grown)}
                  /\ Cardinality(grown) > ef
      BY <1>3 DEF Visit
    <2>2. g[nb].id \in F => nb \in Passing(g, F)
      BY <1>3 DEF Skipped, Passing, Live
    <2>3. s.seen \cup {nb} \in SUBSET X /\ cand \in SUBSET X
      BY <2>1 DEF SearchState
    <2>4. res \in SUBSET (X \cap Passing(g, F))
      BY <2>1, <2>2 DEF SearchState
    <2>5. some => res # {}
      <3> SUFFICES ASSUME some, res = {} PROVE FALSE
        OBVIOUS
      <3>1. s.res # {} /\ ef \in Nat \ {0} /\ s.res \subseteq X
        BY DEF SearchState
      <3>2. Cardinality(grown) > ef /\ grown \ {Farthest(g, q, grown)} = {}
        BY <2>1, <3>1
      <3> DEFINE x == Farthest(g, q, grown)
      <3>3. grown \subseteq {x} /\ grown \subseteq 1 .. Len(g)
        BY <3>1, <3>2
      <3> HIDE DEF x, grown
      <3>4. IsFiniteSet(grown) /\ Cardinality(grown) \in Nat
        <4>1. IsFiniteSet(grown) /\ Cardinality(grown) \in 0 .. Len(g)
          BY <3>3, IndexSetSize, Zenon
        <4>2. QED BY <4>1
      <3>5. Cardinality({x}) = 1 /\ IsFiniteSet({x})
        BY FS_Singleton
      <3>6. Cardinality(grown) <= 1
        BY <3>3, <3>5, FS_Subset
      <3>7. QED BY <3>1, <3>2, <3>4, <3>6
    <2>6. QED BY <2>1, <2>3, <2>4, <2>5 DEF SearchState
  <1>4. QED BY <1>1, <1>2, <1>3

SearchInv(e, k, s) == s \in SearchState(e.g, e.F, e.X, e.some)
VisitStep(e, s, nb) == Visit(e.g, e.q, e.ef, e.l, e.F, s, nb)
VisitLoop == INSTANCE FoldRule WITH Step <- VisitStep, Inv <- SearchInv

LEMMA VisitAllKeeps ==
  ASSUME NEW g, NEW q, NEW ef, NEW l, NEW F, NEW X, X \subseteq 1 .. Len(g), Len(g) \in Nat,
         NEW some, some => ef \in Nat \ {0},
         NEW s \in SearchState(g, F, X, some), NEW list \in Seq(X)
  PROVE  VisitAll(g, q, ef, l, F, s, list) \in SearchState(g, F, X, some)
  <1> DEFINE e == [g |-> g, q |-> q, ef |-> ef, l |-> l, F |-> F, X |-> X, some |-> some]
  <1>0. /\ e.g = g /\ e.q = q /\ e.ef = ef /\ e.l = l /\ e.F = F /\ e.X = X
        /\ e.some = some
    OBVIOUS
  <1>1. VisitAll(g, q, ef, l, F, s, list) = VisitLoop!Folded(e, s, list)
    BY DEF VisitAll, VisitStep, VisitLoop!Folded, Seqs!FoldLeft,
           VisitLoop!FoldLeft, Seqs!MapThenFoldSet, VisitLoop!MapThenFoldSet,
           Seqs!Max, VisitLoop!Max
  <1> HIDE DEF e
  <1>2. SearchInv(e, 0, s)
    BY <1>0 DEF SearchInv
  <1>3. ASSUME NEW k \in 1 .. Len(list), NEW h, SearchInv(e, k - 1, h)
        PROVE  SearchInv(e, k, VisitStep(e, h, list[k]))
    <2>1. h \in SearchState(g, F, X, some) /\ list[k] \in X
      BY <1>0, <1>3 DEF SearchInv
    <2>2. Visit(g, q, ef, l, F, h, list[k]) \in SearchState(g, F, X, some)
      BY <2>1, VisitKeeps
    <2>3. QED BY <1>0, <2>2 DEF SearchInv, VisitStep
  <1>4. SearchInv(e, Len(list), VisitLoop!Folded(e, s, list))
    BY <1>2, <1>3, VisitLoop!FoldKeeps, Zenon
  <1>5. QED BY <1>0, <1>1, <1>4 DEF SearchInv

LEMMA ExpandKeeps ==
  ASSUME NEW g, Sound(g, {}), NEW q \in Nat, NEW ef, NEW l \in Nat, NEW F,
         NEW X, Closed(g, l, X), NEW some, some => ef \in Nat \ {0},
         NEW s \in SearchState(g, F, X, some)
  PROVE  Expand(g, q, ef, l, F, s) \in SearchState(g, F, X, some)
  <1> DEFINE c == Nearest(g, q, s.cand)
             popped == [s EXCEPT !.cand = @ \ {c}]
             r == Expand(g, q, ef, l, F, s)
  <1>1. CASE s.cand = {}
    BY <1>1 DEF Expand
  <1>2. CASE s.cand # {}
    <2>1. s.cand \subseteq X /\ X \subseteq 1 .. Len(g) /\ g \in Seq(Node) /\ Len(g) \in Nat
      BY DEF SearchState, Sound, Closed
    <2>2. c \in X /\ c \in 1 .. Len(g)
      BY <1>2, <2>1, NearestIn
    <2>3. \/ r = [s EXCEPT !.cand = {}]
          \/ r = popped
          \/ OnLayer(g[c], l) /\ r = VisitAll(g, q, ef, l, F, popped, g[c].neighbors[l])
      BY <1>2 DEF Expand
    <2> HIDE DEF c, r
    <2>4. popped \in SearchState(g, F, X, some)
      BY DEF SearchState
    <2>5. [s EXCEPT !.cand = {}] \in SearchState(g, F, X, some)
      BY DEF SearchState
    <2> HIDE DEF popped
    <2>6. CASE OnLayer(g[c], l) /\ r = VisitAll(g, q, ef, l, F, popped, g[c].neighbors[l])
      <3>1. g[c].max_layer \in Nat
        BY <2>1, <2>2, NodeFields
      <3>2. l \in 0 .. g[c].max_layer
        BY <2>6, <3>1 DEF OnLayer
      <3>3. g[c].neighbors[l] \in Seq(X)
        BY <2>2, <3>2 DEF Closed
      <3>4. VisitAll(g, q, ef, l, F, popped, g[c].neighbors[l]) \in SearchState(g, F, X, some)
        BY <2>1, <2>4, <3>3, VisitAllKeeps
      <3>5. r \in SearchState(g, F, X, some)
        BY <2>6, <3>4
      <3>6. QED BY <3>5 DEF r
    <2>7. CASE ~(OnLayer(g[c], l) /\ r = VisitAll(g, q, ef, l, F, popped, g[c].neighbors[l]))
      <3>1. r \in SearchState(g, F, X, some)
        BY <2>3, <2>4, <2>5, <2>7
      <3>2. QED BY <3>1 DEF r
    <2>8. QED BY <2>6, <2>7
  <1>3. QED BY <1>1, <1>2

ExpandStep(e, s, n) == Expand(e.g, e.q, e.ef, e.l, e.F, s)
ExpandLoop == INSTANCE FoldRule WITH Step <- ExpandStep, Inv <- SearchInv

LEMMA ExpandAllKeeps ==
  ASSUME NEW g, Sound(g, {}), NEW q \in Nat, NEW ef, NEW l \in Nat, NEW F,
         NEW X, Closed(g, l, X), NEW some, some => ef \in Nat \ {0},
         NEW s \in SearchState(g, F, X, some)
  PROVE  ExpandAll(g, q, ef, l, F, s) \in SearchState(g, F, X, some)
  <1> DEFINE e == [g |-> g, q |-> q, ef |-> ef, l |-> l, F |-> F, X |-> X, some |-> some]
  <1>0. /\ e.g = g /\ e.q = q /\ e.ef = ef /\ e.l = l /\ e.F = F /\ e.X = X
        /\ e.some = some /\ Len(g) \in Nat
    BY DEF Sound
  <1>1. ExpandAll(g, q, ef, l, F, s) = ExpandLoop!Rounds(e, s, Len(g))
    BY DEF ExpandAll, ExpandStep, ExpandLoop!Rounds
  <1> HIDE DEF e
  <1>2. SearchInv(e, 0, s)
    BY <1>0 DEF SearchInv
  <1>3. ASSUME NEW k \in 1 .. Len(g), NEW h, SearchInv(e, k - 1, h)
        PROVE  SearchInv(e, k, ExpandStep(e, h, k))
    <2>1. h \in SearchState(g, F, X, some)
      BY <1>0, <1>3 DEF SearchInv
    <2>2. Expand(g, q, ef, l, F, h) \in SearchState(g, F, X, some)
      BY <2>1, ExpandKeeps
    <2>3. QED BY <1>0, <2>2 DEF SearchInv, ExpandStep
  <1>4. SearchInv(e, Len(g), ExpandLoop!Rounds(e, s, Len(g)))
    BY <1>0, <1>2, <1>3, ExpandLoop!RoundsKeep, Zenon
  <1>5. QED BY <1>0, <1>1, <1>4 DEF SearchInv

\* The result of a search, from the set it has found.
LEMMA SortedFinds ==
  ASSUME NEW g, Len(g) \in Nat, NEW q, NEW res, res \subseteq 1 .. Len(g)
  PROVE  /\ Sorted(g, q, res) \in Seq(res)
         /\ Distinct(Sorted(g, q, res))
         /\ res # {} => Sorted(g, q, res) # <<>>
  <1> DEFINE list == Layers(Len(g), 1)
             r == SortByDistance(g, q, res, list)
  <1>1. list \in Seq(1 .. Len(g)) /\ Distinct(list)
    BY LayersType
  <1>2. Picked(r, Len(list), list) /\ r \in Seq(res)
        /\ ((\E j \in 1 .. Len(list) : list[j] \in res) => r # <<>>)
    BY <1>1, SortPicks
  <1>3. ASSUME NEW n \in res PROVE \E j \in 1 .. Len(list) : list[j] \in res
    <2> DEFINE j == Len(g) - n + 1
    <2>1. j \in 1 .. Len(g) - 1 + 1 /\ Len(g) - j + 1 = n
      OBVIOUS
    <2>2. list = [i \in 1 .. Len(g) |-> Len(g) - i + 1]
      BY DEF Layers
    <2>3. j \in 1 .. Len(list) /\ list[j] = n
      BY <2>1, <2>2
    <2>4. QED BY <2>3
  <1> HIDE DEF list, r
  <1>4. r \in Seq(res) /\ Distinct(r) /\ (res # {} => r # <<>>)
    BY <1>2, <1>3 DEF Picked
  <1>5. QED BY <1>4 DEF r, list, Sorted

\* What a search of a layer returns: live nodes that pass, each once, that the
\* lists lead to; and something, from an entry that passes itself.
LEMMA SearchLayerFinds ==
  ASSUME NEW g, Sound(g, {}), NEW q \in Nat, NEW l \in Nat, NEW X, Closed(g, l, X),
         NEW entry \in X, NEW ef, NEW F
  PROVE  /\ SearchLayer(g, q, entry, ef, l, F) \in Seq(X \cap Passing(g, F))
         /\ Distinct(SearchLayer(g, q, entry, ef, l, F))
         /\ (ef \in Nat \ {0} /\ ~Skipped(g[entry], l) /\ g[entry].id \in F)
              => SearchLayer(g, q, entry, ef, l, F) # <<>>
  <1> DEFINE start == [seen |-> {entry}, cand |-> {entry},
                       res |-> IF g[entry].id \in F THEN {entry} ELSE {}]
             some == ef \in Nat \ {0} /\ g[entry].id \in F
             res == ExpandAll(g, q, ef, l, F, start).res
             r == SearchLayer(g, q, entry, ef, l, F)
  <1>1. CASE Skipped(g[entry], l)
    <2>1. r = <<>>
      BY <1>1 DEF SearchLayer
    <2>2. QED BY <1>1, <2>1 DEF Distinct
  <1>2. CASE ~Skipped(g[entry], l)
    <2>1. r = Sorted(g, q, res)
      BY <1>2 DEF SearchLayer
    <2>2. start \in SearchState(g, F, X, some)
      BY <1>2 DEF SearchState, Passing, Live, Skipped, Closed
    <2> HIDE DEF start
    <2>3. res \subseteq X \cap Passing(g, F) /\ (some => res # {})
      <3>1. ExpandAll(g, q, ef, l, F, start) \in SearchState(g, F, X, some)
        BY <2>2, ExpandAllKeeps
      <3>2. QED BY <3>1 DEF SearchState
    <2>4. Len(g) \in Nat
      BY DEF Sound
    <2> HIDE DEF res, some
    <2>5. res \subseteq 1 .. Len(g)
      BY <2>3 DEF Closed
    <2>6. r \in Seq(res) /\ Distinct(r) /\ (res # {} => r # <<>>)
      BY <2>1, <2>4, <2>5, SortedFinds
    <2> HIDE DEF r
    <2>7. r \in Seq(X \cap Passing(g, F))
      BY <2>3, <2>6, SeqOfMore
    <2>8. some => r # <<>>
      BY <2>3, <2>6
    <2>9. QED BY <2>6, <2>7, <2>8 DEF r, some
  <1>3. QED BY <1>1, <1>2

StepDownStep(e, ep, l) == StepDown(e.g, e.q, e.F, ep, l)
StepDownInv(e, k, ep) == ep \in e.X
StepDownLoop == INSTANCE FoldRule WITH Step <- StepDownStep, Inv <- StepDownInv

LEMMA DescendStays ==
  ASSUME NEW g, Sound(g, {}), NEW q \in Nat, NEW X, \A l \in Nat : Closed(g, l, X),
         NEW ep \in X, NEW layers \in Seq(Nat), NEW F
  PROVE  Descend(g, q, ep, layers, F) \in X
  <1> DEFINE e == [g |-> g, q |-> q, F |-> F, X |-> X]
  <1>0. e.g = g /\ e.q = q /\ e.F = F /\ e.X = X
    OBVIOUS
  <1>1. Descend(g, q, ep, layers, F) = StepDownLoop!Folded(e, ep, layers)
    BY DEF Descend, StepDownStep, StepDownLoop!Folded, Seqs!FoldLeft,
           StepDownLoop!FoldLeft, Seqs!MapThenFoldSet, StepDownLoop!MapThenFoldSet,
           Seqs!Max, StepDownLoop!Max
  <1> HIDE DEF e
  <1>2. StepDownInv(e, 0, ep)
    BY <1>0 DEF StepDownInv
  <1>3. ASSUME NEW k \in 1 .. Len(layers), NEW h, StepDownInv(e, k - 1, h)
        PROVE  StepDownInv(e, k, StepDownStep(e, h, layers[k]))
    <2> DEFINE res == SearchLayer(g, q, h, 1, layers[k], F)
    <2>1. h \in X /\ layers[k] \in Nat /\ Closed(g, layers[k], X)
      BY <1>0, <1>3 DEF StepDownInv
    <2>2. res \in Seq(X \cap Passing(g, F))
      BY <2>1, SearchLayerFinds
    <2>3. StepDownStep(e, h, layers[k]) = IF res = <<>> THEN h ELSE res[1]
      BY <1>0 DEF StepDownStep, StepDown
    <2> HIDE DEF res
    <2>4. res # <<>> => res[1] \in X
      BY <2>2
    <2>5. QED BY <1>0, <2>1, <2>3, <2>4 DEF StepDownInv
  <1>4. StepDownInv(e, Len(layers), StepDownLoop!Folded(e, ep, layers))
    BY <1>2, <1>3, StepDownLoop!FoldKeeps, Zenon
  <1>5. QED BY <1>0, <1>1, <1>4 DEF StepDownInv

LEMMA DescendInRange ==
  ASSUME NEW g, Sound(g, {}), NEW q \in Nat, NEW ep \in 1 .. Len(g),
         NEW layers \in Seq(Nat), NEW F
  PROVE  Descend(g, q, ep, layers, F) \in 1 .. Len(g)
  <1>1. \A l \in Nat : Closed(g, l, 1 .. Len(g))
    BY AllClosed
  <1>2. QED BY <1>1, DescendStays, Zenon

(***************************************************************************)
(* The wiring of add_item() and update_item()                              *)
(***************************************************************************)

\* One layer of the wiring of node n, in a part X of the graph.
LEMMA AttachSound ==
  ASSUME NEW s, Sound(s.g, {}), NEW n \in 1 .. Len(s.g), NEW l \in Nat,
         NEW X, Closed(s.g, l, X), s.ep \in X
  PROVE  LET t == Attach(n, s, l)
         IN  /\ Sound(t.g, {}) /\ SameNodes(s.g, t.g) /\ SameBut(s.g, t.g, l)
             /\ t.ep \in X
             /\ (l = 0 /\ Few(s.g) /\ n \notin X /\ ~s.g[s.ep].deleted) =>
                  Grows(s.g, t.g) /\ \E b \in X : Linked(t.g, n, b)
  <1> DEFINE q == s.g[n].vec
             all == {s.g[i].id : i \in 1 .. Len(s.g)}
             found == SearchLayer(s.g, q, s.ep, EfConstruction, l, all)
             sel == Select(s.g, q, found, MaxM(l))
             h == ConnectAll(s.g, n, l, sel)
             t == Attach(n, s, l)
  <1>1. /\ t.g = h
        /\ t.ep = IF sel = <<>> THEN s.ep ELSE sel[1]
    BY DEF Attach
  <1>2. X \subseteq 1 .. Len(s.g) /\ q \in Nat /\ MaxM(l) \in Nat /\ MaxM(l) > 0
    <2>1. q \in Nat
      BY NodeFields DEF Sound
    <2>2. QED BY <2>1, MaxMType DEF Closed
  <1>3. (l = 0 /\ ~s.g[s.ep].deleted) => ~Skipped(s.g[s.ep], l)
    <2>1. s.ep \in 1 .. Len(s.g) /\ s.g \in Seq(Node)
      BY <1>2 DEF Sound
    <2>2. s.g[s.ep] \in Node
      BY <2>1
    <2>3. s.g[s.ep].max_layer \in Nat
      BY <2>2, NodeFields
    <2>4. QED BY <2>3 DEF Skipped, OnLayer
  <1>4. s.g[s.ep].id \in all /\ EfConstruction \in Nat \ {0}
    BY <1>2, HNSWGraphAssumption
  <1> HIDE DEF t, q, all
  <1>5. found \in Seq(X \cap Passing(s.g, all)) /\ Distinct(found)
        /\ ((l = 0 /\ ~s.g[s.ep].deleted) => found # <<>>)
    BY <1>2, <1>3, <1>4, SearchLayerFinds
  <1> HIDE DEF found
  <1>6. found \in Seq(X)
    <2>1. X \cap Passing(s.g, all) \subseteq X
      OBVIOUS
    <2>2. QED BY <1>5, <2>1, SeqOfMore
  <1>7. Picked(sel, Len(found), found) /\ (found # <<>> => sel # <<>>)
    BY <1>2, <1>5, <1>6, SelectPicks
  <1> HIDE DEF sel
  <1>8. sel \in Seq(X)
    BY <1>6, <1>7, PickedFrom
  <1>9. sel \in Seq(1 .. Len(s.g))
    BY <1>2, <1>8, SeqOfMore
  <1>10. /\ Sound(h, {}) /\ SameNodes(s.g, h) /\ SameBut(s.g, h, l)
         /\ (l = 0 /\ Few(s.g)) =>
              Grows(s.g, h) /\ \A j \in 1 .. Len(sel) : sel[j] # n => Linked(h, n, sel[j])
    BY <1>9, ConnectAllSound
  <1> HIDE DEF h
  <1>11. sel # <<>> => 1 \in 1 .. Len(sel) /\ sel[1] \in X
    BY <1>8
  <1>12. t.ep \in X
    BY <1>1, <1>11
  <1>13. ASSUME l = 0, Few(s.g), n \notin X, ~s.g[s.ep].deleted
         PROVE  Grows(s.g, h) /\ \E b \in X : Linked(h, n, b)
    <2>1. 1 \in 1 .. Len(sel) /\ sel[1] \in X /\ sel[1] # n
      BY <1>5, <1>7, <1>11, <1>13
    <2>2. QED BY <1>10, <1>13, <2>1
  <1>14. QED BY <1>1, <1>10, <1>12, <1>13 DEF t

AttachStep(e, s, l) == Attach(e.n, s, l)
AttachInv(e, k, s) ==
  Sound(s.g, {}) /\ SameNodes(e.g, s.g) /\ s.ep \in 1 .. Len(e.g)
AttachLoop == INSTANCE FoldRule WITH Step <- AttachStep, Inv <- AttachInv

LEMMA AttachAllSound ==
  ASSUME NEW g, Sound(g, {}), NEW n \in 1 .. Len(g), NEW ep \in 1 .. Len(g),
         NEW layers \in Seq(Nat)
  PROVE  /\ Sound(AttachAll(n, [g |-> g, ep |-> ep], layers).g, {})
         /\ SameNodes(g, AttachAll(n, [g |-> g, ep |-> ep], layers).g)
  <1> DEFINE e == [g |-> g, n |-> n]
             start == [g |-> g, ep |-> ep]
  <1>0. e.g = g /\ e.n = n /\ start.g = g /\ start.ep = ep
    OBVIOUS
  <1> HIDE DEF start
  <1>1. AttachAll(n, start, layers) = AttachLoop!Folded(e, start, layers)
    BY DEF AttachAll, AttachStep, AttachLoop!Folded, Seqs!FoldLeft,
           AttachLoop!FoldLeft, Seqs!MapThenFoldSet, AttachLoop!MapThenFoldSet,
           Seqs!Max, AttachLoop!Max
  <1> HIDE DEF e
  <1>2. AttachInv(e, 0, start)
    BY <1>0, SameNodesRefl DEF AttachInv
  <1>3. ASSUME NEW k \in 1 .. Len(layers), NEW s, AttachInv(e, k - 1, s)
        PROVE  AttachInv(e, k, AttachStep(e, s, layers[k]))
    <2> DEFINE t == Attach(n, s, layers[k])
    <2>1. Sound(s.g, {}) /\ SameNodes(g, s.g) /\ s.ep \in 1 .. Len(s.g) /\ Len(s.g) = Len(g)
      BY <1>0, <1>3 DEF AttachInv, SameNodes
    <2>2. layers[k] \in Nat /\ n \in 1 .. Len(s.g) /\ Closed(s.g, layers[k], 1 .. Len(s.g))
      BY <2>1, AllClosed
    <2>3. Sound(t.g, {}) /\ SameNodes(s.g, t.g) /\ t.ep \in 1 .. Len(s.g)
      BY <2>1, <2>2, AttachSound
    <2>4. AttachStep(e, s, layers[k]) = t
      BY <1>0 DEF AttachStep
    <2> HIDE DEF t
    <2>5. SameNodes(g, t.g)
      BY <2>1, <2>3, SameNodesTrans
    <2>6. QED BY <1>0, <2>1, <2>3, <2>4, <2>5 DEF AttachInv
  <1>4. AttachInv(e, Len(layers), AttachLoop!Folded(e, start, layers))
    BY <1>2, <1>3, AttachLoop!FoldKeeps, Zenon
  <1>5. Sound(AttachAll(n, start, layers).g, {}) /\ SameNodes(g, AttachAll(n, start, layers).g)
    BY <1>0, <1>1, <1>4 DEF AttachInv
  <1>6. QED BY <1>5 DEF start

LEMMA WireSound ==
  ASSUME NEW g, Sound(g, {}), NEW n \in 1 .. Len(g), NEW ep \in 1 .. Len(g), NEW ml \in Int
  PROVE  Sound(Wire(g, n, ep, ml), {}) /\ SameNodes(g, Wire(g, n, ep, ml))
  <1> DEFINE all == {g[i].id : i \in 1 .. Len(g)}
             lvl == g[n].max_layer
             low == IF lvl < ml THEN lvl ELSE ml
             ep1 == Descend(g, g[n].vec, ep, Layers(ml, lvl + 1), all)
  <1>1. Wire(g, n, ep, ml) = AttachAll(n, [g |-> g, ep |-> ep1], Layers(low, 0)).g
    BY DEF Wire
  <1>2. g[n].vec \in Nat /\ lvl \in Nat
    BY NodeFields DEF Sound
  <1>3. low \in Int /\ lvl + 1 \in Int
    BY <1>2
  <1> HIDE DEF all, low, lvl
  <1>4. Layers(ml, lvl + 1) \in Seq(Nat)
    <2> DEFINE T == lvl + 1 .. ml
    <2>1. Layers(ml, lvl + 1) \in Seq(T)
      BY <1>3, LayersType
    <2>2. T \subseteq Nat
      BY <1>2
    <2> HIDE DEF T
    <2>3. QED BY <2>1, <2>2, SeqOfMore
  <1>5. Layers(low, 0) \in Seq(Nat)
    <2>1. Layers(low, 0) \in Seq(0 .. low)
      BY <1>3, LayersType
    <2>2. 0 .. low \subseteq Nat
      BY <1>3
    <2>3. QED BY <2>1, <2>2, SeqOfMore
  <1>6. ep1 \in 1 .. Len(g)
    BY <1>2, <1>4, DescendInRange DEF lvl
  <1> HIDE DEF ep1
  <1>7. QED BY <1>1, <1>5, <1>6, AttachAllSound

(***************************************************************************)
(* The index                                                               *)
(***************************************************************************)

IdsDistinct(g) == \A i, j \in 1 .. Len(g) : g[i].id = g[j].id => i = j

EntryOK(g, ep, ml) ==
  /\ ml \in -1 .. TopLevel
  /\ IF ep = NoEntry THEN Live(g) = {} /\ ml = -1
     ELSE ep \in Live(g) /\ \A i \in Live(g) : g[i].max_layer <= ml

Whole(g, ep, ml) == Sound(g, {}) /\ IdsDistinct(g) /\ EntryOK(g, ep, ml)

FileOK ==
  /\ saved \in [nodes : Seq(Node), entry_point : Nat, max_layer : Int, whole : BOOLEAN]
  /\ saved.whole => Whole(saved.nodes, saved.entry_point, saved.max_layer)

\* The inductive invariant: the index, and every file that save() finished,
\* is whole; after a load() that failed only the types of the nodes are known.
IndexInv ==
  /\ TypeOK
  /\ nodes \in Seq(Node)
  /\ ~broken => Whole(nodes, entry_point, max_layer)
  /\ ~broken => active_count = Cardinality(Live(nodes))
  /\ FileOK

LEMMA LiveSize ==
  ASSUME NEW g \in Seq(Node), IdsDistinct(g)
  PROVE  /\ IsFiniteSet(Live(g)) /\ Cardinality(Live(g)) \in 0 .. Len(g)
         /\ Len(g) \in 0 .. Cardinality(Ids) /\ Cardinality(Ids) \in Nat
  <1>1. Len(g) \in Nat /\ Live(g) \subseteq 1 .. Len(g)
    BY DEF Live
  <1>2. IsFiniteSet(Live(g)) /\ Cardinality(Live(g)) \in 0 .. Len(g)
    BY <1>1, IndexSetSize
  <1>3. Cardinality(1 .. Len(g)) = Len(g)
    BY <1>1, FS_Interval, SMTT(40)
  <1>4. IsFiniteSet(Ids) /\ Cardinality(Ids) \in Nat
    BY HNSWIndexAssumption, FS_CardinalityType
  <1> DEFINE f == [i \in 1 .. Len(g) |-> g[i].id]
  <1>5. f \in [1 .. Len(g) -> Ids]
    BY NodeFields
  <1>6. f \in Injection(1 .. Len(g), Ids)
    BY <1>5 DEF Injection, IsInjective, IdsDistinct
  <1>7. Cardinality(1 .. Len(g)) <= Cardinality(Ids)
    BY <1>4, <1>6, FS_Injection
  <1>8. QED BY <1>1, <1>2, <1>3, <1>4, <1>7

LEMMA WholeTypes ==
  ASSUME NEW g \in Seq(Node), NEW ep, NEW ml, Whole(g, ep, ml)
  PROVE  /\ ep \in 0 .. Cardinality(Ids) /\ ml \in -1 .. TopLevel
         /\ Cardinality(Live(g)) \in 0 .. Cardinality(Ids)
         /\ IsFiniteSet(Live(g)) /\ Cardinality(Live(g)) \in Nat
  <1>1. /\ IsFiniteSet(Live(g)) /\ Cardinality(Live(g)) \in 0 .. Len(g)
        /\ Len(g) \in 0 .. Cardinality(Ids) /\ Cardinality(Ids) \in Nat /\ Len(g) \in Nat
    BY LiveSize DEF Whole
  <1>2. ep = 0 \/ ep \in 1 .. Len(g)
    BY DEF Whole, EntryOK, NoEntry, Live
  <1>3. ep \in 0 .. Cardinality(Ids)
    BY <1>1, <1>2
  <1>4. ml \in -1 .. TopLevel
    BY DEF Whole, EntryOK
  <1>5. Cardinality(Live(g)) \in 0 .. Cardinality(Ids) /\ Cardinality(Live(g)) \in Nat
    BY <1>1
  <1>6. QED BY <1>1, <1>3, <1>4, <1>5

LEMMA NodesAreOK ==
  ASSUME NEW g \in Seq(Node)
  PROVE  \A i \in 1 .. Len(g) : NodeOK(g[i])
  BY NodeFields DEF NodeOK

\* The lists do not matter for the rest of the invariant.
LEMMA SameNodesKeep ==
  ASSUME NEW g, NEW h, SameNodes(g, h), Len(g) \in Nat
  PROVE  /\ Live(h) = Live(g)
         /\ IdsDistinct(g) => IdsDistinct(h)
         /\ \A ep, ml : EntryOK(g, ep, ml) => EntryOK(h, ep, ml)
  <1>1. Live(h) = Live(g)
    BY DEF SameNodes, Live
  <1>2. IdsDistinct(g) => IdsDistinct(h)
    BY DEF SameNodes, IdsDistinct
  <1>3. \A i \in Live(g) : h[i].max_layer = g[i].max_layer
    BY DEF SameNodes, Live
  <1>4. QED BY <1>1, <1>2, <1>3 DEF EntryOK

Fresh(n, id, lvl) ==
  /\ n \in Node
  /\ n.id = id /\ n.max_layer = lvl /\ n.deleted = FALSE
  /\ \A l \in 0 .. lvl : n.neighbors[l] = <<>>

LEMMA NewNodeOK ==
  ASSUME NEW id \in Ids, NEW v \in Vecs, NEW lvl \in 0 .. TopLevel
  PROVE  Fresh(NewNode(id, v, lvl), id, lvl)
  <1> DEFINE nbs == [l \in 0 .. lvl |-> <<>>]
             n == [id |-> id, vec |-> v, max_layer |-> lvl, deleted |-> FALSE,
                   neighbors |-> nbs]
  <1>1. nbs \in [0 .. lvl -> Seq(Nat)] /\ DOMAIN nbs = 0 .. lvl
        /\ \A l \in 0 .. lvl : nbs[l] = <<>>
    OBVIOUS
  <1>2. NewNode(id, v, lvl) = n
    BY DEF NewNode, NoEdges
  <1> HIDE DEF nbs
  <1>3. nbs \in UNION {[0 .. m -> Seq(Nat)] : m \in 0 .. TopLevel}
    BY <1>1
  <1>4. n.neighbors = nbs /\ n.id = id /\ n.max_layer = lvl /\ n.deleted = FALSE
    OBVIOUS
  <1>5. n \in Node
    BY <1>1, <1>3 DEF Node
  <1>6. QED BY <1>1, <1>2, <1>4, <1>5 DEF Fresh

LEMMA NoEdgesOK ==
  ASSUME NEW i, NEW N, NEW l, NEW Over PROVE ListOK(<<>>, i, N, Cap(Over, i, l))
  <1>1. Len(<<>>) = 0 /\ <<>> \in Seq((1 .. N) \ {i}) /\ Distinct(<<>>)
    BY DEF Distinct
  <1>2. Cap(Over, i, l) >= 0
    BY MaxMType DEF Cap
  <1>3. QED BY <1>1, <1>2 DEF ListOK

\* Graph h is graph g with a live node n on layers 0 to lvl, new or not.
Joined(g, h, n, lvl) ==
  /\ Sound(h, {}) /\ IdsDistinct(h)
  /\ n \in 1 .. Len(h)
  /\ Live(h) = Live(g) \cup {n}
  /\ h[n].max_layer = lvl
  /\ \A i \in Live(g) \ {n} : h[i].max_layer = g[i].max_layer

\* A new node, at the end of the graph.
LEMMA AppendNode ==
  ASSUME NEW g, Sound(g, {}), IdsDistinct(g), NEW id \in Ids, NEW v \in Vecs,
         NEW lvl \in 0 .. TopLevel, IndexOf(g, id) = {}
  PROVE  /\ Joined(g, Append(g, NewNode(id, v, lvl)), Len(g) + 1, lvl)
         /\ Len(g) + 1 \notin Live(g)
         /\ Len(Append(g, NewNode(id, v, lvl))) = Len(g) + 1
  <1> DEFINE n == NewNode(id, v, lvl)
             h == Append(g, n)
  <1>1. g \in Seq(Node) /\ Len(g) \in Nat
    BY DEF Sound
  <1>2. /\ n \in Node /\ n.id = id /\ n.max_layer = lvl /\ n.deleted = FALSE
        /\ \A l \in 0 .. lvl : n.neighbors[l] = <<>>
    <2>1. Fresh(n, id, lvl)
      BY NewNodeOK
    <2>2. QED BY <2>1 DEF Fresh
  <1> HIDE DEF n
  <1>3. h \in Seq(Node) /\ Len(h) = Len(g) + 1 /\ h[Len(g) + 1] = n
        /\ \A i \in 1 .. Len(g) : h[i] = g[i]
    BY <1>1, <1>2
  <1> HIDE DEF h
  <1>4. \A i \in 1 .. Len(h) : i \in 1 .. Len(g) \/ i = Len(g) + 1
    BY <1>1, <1>3
  <1>5. ASSUME NEW i \in 1 .. Len(h), NEW l \in 0 .. h[i].max_layer
        PROVE  ListOK(h[i].neighbors[l], i, Len(h), Cap({}, i, l))
    <2>1. CASE i = Len(g) + 1
      <3>1. h[i].neighbors[l] = <<>>
        BY <1>2, <1>3, <2>1
      <3>2. QED BY <3>1, NoEdgesOK
    <2>2. CASE i \in 1 .. Len(g)
      <3>1. ListOK(h[i].neighbors[l], i, Len(g), Cap({}, i, l))
        BY <1>3, <2>2 DEF Sound
      <3>2. (1 .. Len(g)) \ {i} \subseteq (1 .. Len(h)) \ {i}
        BY <1>1, <1>3
      <3>3. QED BY <3>1, <3>2, SeqOfMore DEF ListOK
    <2>3. QED BY <1>4, <2>1, <2>2
  <1>6. Sound(h, {})
    BY <1>3, <1>5 DEF Sound
  <1>7. \A i \in 1 .. Len(g) : g[i].id # id
    BY DEF IndexOf
  <1>8. IdsDistinct(h)
    <2> SUFFICES ASSUME NEW i \in 1 .. Len(h), NEW j \in 1 .. Len(h), h[i].id = h[j].id
                 PROVE  i = j
      BY DEF IdsDistinct
    <2>1. CASE i \in 1 .. Len(g) /\ j \in 1 .. Len(g)
      BY <1>3, <2>1 DEF IdsDistinct
    <2>2. CASE i = Len(g) + 1 /\ j \in 1 .. Len(g)
      BY <1>2, <1>3, <1>7, <2>2
    <2>3. CASE i \in 1 .. Len(g) /\ j = Len(g) + 1
      BY <1>2, <1>3, <1>7, <2>3
    <2>4. QED BY <1>4, <2>1, <2>2, <2>3
  <1>9. Live(h) = Live(g) \cup {Len(h)}
    <2>1. ASSUME NEW i \in 1 .. Len(h) PROVE ~h[i].deleted <=> i \in Live(g) \cup {Len(h)}
      <3>1. CASE i = Len(g) + 1
        BY <1>2, <1>3, <3>1
      <3>2. CASE i \in 1 .. Len(g)
        <4>1. i # Len(h)
          BY <1>1, <1>3, <3>2
        <4>2. QED BY <1>3, <3>2, <4>1 DEF Live
      <3>3. QED BY <1>4, <3>1, <3>2
    <2>2. Live(g) \cup {Len(h)} \subseteq 1 .. Len(h)
      BY <1>1, <1>3 DEF Live
    <2>3. QED BY <2>1, <2>2 DEF Live
  <1>10. Len(h) \notin Live(g)
    BY <1>1, <1>3 DEF Live
  <1>11. \A i \in Live(g) : h[i].max_layer = g[i].max_layer
    BY <1>3 DEF Live
  <1>12. h[Len(h)].max_layer = lvl
    BY <1>2, <1>3
  <1>13. Len(g) + 1 \in 1 .. Len(h)
    BY <1>1, <1>3
  <1>14. Joined(g, h, Len(g) + 1, lvl)
    BY <1>3, <1>6, <1>8, <1>9, <1>11, <1>12, <1>13 DEF Joined
  <1>15. QED BY <1>3, <1>10, <1>14 DEF h, n

\* A node replaced by a new one with the same id.
LEMMA ReplaceNode ==
  ASSUME NEW g, Sound(g, {}), IdsDistinct(g), NEW n \in 1 .. Len(g), NEW id \in Ids,
         g[n].id = id, NEW v \in Vecs, NEW lvl \in 0 .. TopLevel
  PROVE  Joined(g, [g EXCEPT ![n] = NewNode(id, v, lvl)], n, lvl)
  <1> DEFINE m == NewNode(id, v, lvl)
             h == [g EXCEPT ![n] = m]
  <1>1. g \in Seq(Node) /\ Len(g) \in Nat
    BY DEF Sound
  <1>2. /\ m \in Node /\ m.id = id /\ m.max_layer = lvl /\ m.deleted = FALSE
        /\ \A l \in 0 .. lvl : m.neighbors[l] = <<>>
    <2>1. Fresh(m, id, lvl)
      BY NewNodeOK
    <2>2. QED BY <2>1 DEF Fresh
  <1> HIDE DEF m
  <1>3. h \in Seq(Node) /\ Len(h) = Len(g) /\ h[n] = m
        /\ \A i \in 1 .. Len(g) : i # n => h[i] = g[i]
    BY <1>1, <1>2
  <1> HIDE DEF h
  <1>4. ASSUME NEW i \in 1 .. Len(h), NEW l \in 0 .. h[i].max_layer
        PROVE  ListOK(h[i].neighbors[l], i, Len(h), Cap({}, i, l))
    <2>1. CASE i = n
      <3>1. h[i].neighbors[l] = <<>>
        BY <1>2, <1>3, <2>1
      <3>2. QED BY <3>1, NoEdgesOK
    <2>2. CASE i # n
      BY <1>3, <2>2 DEF Sound
    <2>3. QED BY <2>1, <2>2
  <1>5. Sound(h, {})
    BY <1>3, <1>4 DEF Sound
  <1>6. \A i \in 1 .. Len(g) : h[i].id = g[i].id
    BY <1>2, <1>3
  <1>7. IdsDistinct(h)
    BY <1>3, <1>6 DEF IdsDistinct
  <1>8. ASSUME NEW i \in 1 .. Len(g) PROVE ~h[i].deleted <=> i \in Live(g) \cup {n}
    BY <1>2, <1>3 DEF Live
  <1>9. Live(h) = Live(g) \cup {n}
    BY <1>3, <1>8 DEF Live
  <1>10. \A i \in Live(g) \ {n} : h[i].max_layer = g[i].max_layer
    BY <1>3 DEF Live
  <1>11. Joined(g, h, n, lvl)
    BY <1>2, <1>3, <1>5, <1>7, <1>9, <1>10 DEF Joined
  <1>12. QED BY <1>11 DEF h, m

\* The entry point of Raise(), and the lists of Wire().
LEMMA JoinedWhole ==
  ASSUME NEW g, NEW ep, NEW ml, EntryOK(g, ep, ml), NEW h, NEW n,
         NEW lvl \in 0 .. TopLevel, Joined(g, h, n, lvl), g \in Seq(Node),
         NEW wired, wired = IF ep = NoEntry THEN h ELSE Wire(h, n, ep, ml),
         NEW ep1, NEW ml1,
         IF ep = NoEntry \/ lvl > ml THEN ep1 = n /\ ml1 = lvl
                                     ELSE ep1 = ep /\ ml1 = ml
  PROVE  Whole(wired, ep1, ml1) /\ Live(wired) = Live(g) \cup {n}
  <1>1. /\ Sound(h, {}) /\ IdsDistinct(h) /\ n \in 1 .. Len(h) /\ Live(h) = Live(g) \cup {n}
        /\ h[n].max_layer = lvl /\ \A i \in Live(g) \ {n} : h[i].max_layer = g[i].max_layer
    BY DEF Joined
  <1>2. Len(h) \in Nat /\ n # NoEntry
    BY <1>1 DEF Sound, NoEntry
  <1>3. Sound(wired, {}) /\ SameNodes(h, wired)
    <2>1. CASE ep = NoEntry
      BY <1>1, <2>1, SameNodesRefl
    <2>2. CASE ep # NoEntry
      <3>1. ep \in 1 .. Len(h) /\ ml \in Int
        BY <1>1, <2>2 DEF EntryOK, Live
      <3>2. QED BY <1>1, <2>2, <3>1, WireSound
    <2>3. QED BY <2>1, <2>2
  <1>4. ml \in Int /\ lvl \in Int /\ ml \in -1 .. TopLevel /\ lvl \in -1 .. TopLevel
    BY HNSWIndexAssumption DEF EntryOK
  <1>5. EntryOK(h, ep1, ml1)
    <2>1. CASE ep = NoEntry
      <3>1. Live(h) = {n} /\ ep1 = n /\ ml1 = lvl
        BY <1>1, <2>1 DEF EntryOK
      <3>2. h[n].max_layer <= lvl
        BY <1>1, <1>4
      <3>3. QED BY <1>2, <1>4, <3>1, <3>2 DEF EntryOK
    <2>2. CASE ep # NoEntry /\ lvl > ml
      <3>1. ep1 = n /\ ml1 = lvl
        BY <2>2
      <3>2. ASSUME NEW i \in Live(h) PROVE h[i].max_layer <= lvl
        <4>1. CASE i = n
          BY <1>1, <1>4, <4>1
        <4>2. CASE i # n
          <5>1. i \in Live(g) /\ h[i].max_layer = g[i].max_layer /\ g[i].max_layer <= ml
            BY <1>1, <2>2, <4>2 DEF EntryOK
          <5>2. g[i].max_layer \in Nat
            BY <5>1, NodeFields DEF Live
          <5>3. QED BY <1>4, <2>2, <5>1, <5>2
        <4>3. QED BY <4>1, <4>2
      <3>3. n \in Live(h)
        BY <1>1
      <3>4. QED BY <1>2, <1>4, <3>1, <3>2, <3>3 DEF EntryOK
    <2>3. CASE ep # NoEntry /\ ~(lvl > ml)
      <3>1. ep1 = ep /\ ml1 = ml
        BY <2>3
      <3>2. ASSUME NEW i \in Live(h) PROVE h[i].max_layer <= ml
        <4>1. CASE i = n
          BY <1>1, <1>4, <2>3, <4>1
        <4>2. CASE i # n
          BY <1>1, <2>3, <4>2 DEF EntryOK
        <4>3. QED BY <4>1, <4>2
      <3>3. ep \in Live(h)
        BY <1>1, <2>3 DEF EntryOK
      <3>4. QED BY <1>4, <2>3, <3>1, <3>2, <3>3 DEF EntryOK
    <2>4. QED BY <2>1, <2>2, <2>3
  <1>6. Live(wired) = Live(h) /\ IdsDistinct(wired) /\ EntryOK(wired, ep1, ml1)
    BY <1>1, <1>2, <1>3, <1>5, SameNodesKeep
  <1>7. Whole(wired, ep1, ml1)
    BY <1>3, <1>6 DEF Whole
  <1>8. QED BY <1>1, <1>6, <1>7

LEMMA ReplacementOK ==
  ASSUME NEW g \in Seq(Node), Live(g) # {}
  PROVE  Replacement(g) \in Live(g)
         /\ \A j \in Live(g) : g[j].max_layer <= g[Replacement(g)].max_layer
  <1> DEFINE D == {TopLevel - g[j].max_layer : j \in Live(g)}
  <1>1. \A j \in Live(g) : g[j].max_layer \in 0 .. TopLevel /\ j \in Nat
    BY NodeFields DEF Live
  <1>2. D \subseteq Nat /\ D # {}
    BY <1>1, HNSWIndexAssumption
  <1>3. PICK d \in D : \A x \in D : d <= x
    BY <1>2, PlaceLoop!NatMin
  <1>4. PICK a \in Live(g) : d = TopLevel - g[a].max_layer
    OBVIOUS
  <1>5. ASSUME NEW j \in Live(g) PROVE g[j].max_layer <= g[a].max_layer
    <2>1. d <= TopLevel - g[j].max_layer
      BY <1>3
    <2> HIDE DEF D
    <2>2. TopLevel - g[a].max_layer <= TopLevel - g[j].max_layer
      BY <1>4, <2>1
    <2>3. TopLevel \in Int /\ g[j].max_layer \in Int /\ g[a].max_layer \in Int
      BY <1>1, HNSWIndexAssumption
    <2>4. QED BY <2>2, <2>3
  <1> DEFINE E == {j \in Live(g) : g[j].max_layer = g[a].max_layer}
  <1>6. E \subseteq Nat /\ E # {}
    BY <1>1
  <1>7. PICK i \in E : \A j \in E : i <= j
    BY <1>6, PlaceLoop!NatMin
  <1>8. ASSUME NEW j \in Live(g)
        PROVE  \/ g[j].max_layer < g[i].max_layer
               \/ g[j].max_layer = g[i].max_layer /\ i <= j
    <2>1. CASE g[j].max_layer = g[a].max_layer
      BY <1>7, <2>1
    <2>2. CASE g[j].max_layer # g[a].max_layer
      BY <1>1, <1>5, <1>7, <2>2
    <2>3. QED BY <2>1, <2>2
  <1> DEFINE r == Replacement(g)
  <1>9. /\ r \in Live(g)
        /\ \A j \in Live(g) : \/ g[j].max_layer < g[r].max_layer
                              \/ g[j].max_layer = g[r].max_layer /\ r <= j
    BY <1>8 DEF Replacement
  <1> HIDE DEF r
  <1>10. \A j \in Live(g) : g[j].max_layer <= g[r].max_layer
    BY <1>1, <1>9
  <1>11. QED BY <1>9, <1>10 DEF r

Tombstone(g, n) == [g EXCEPT ![n].deleted = TRUE]

LEMMA TombstoneOK ==
  ASSUME NEW g, Sound(g, {}), IdsDistinct(g), NEW n \in 1 .. Len(g),
         NEW h, h = Tombstone(g, n)
  PROVE  /\ Sound(h, {}) /\ IdsDistinct(h)
         /\ Live(h) = Live(g) \ {n}
         /\ \A i \in Live(h) : h[i].max_layer = g[i].max_layer
  <1> DEFINE m == [g[n] EXCEPT !.deleted = TRUE]
  <1>1. g \in Seq(Node) /\ Len(g) \in Nat /\ g[n] \in Node
    BY DEF Sound
  <1>2. m \in Node /\ m.id = g[n].id /\ m.max_layer = g[n].max_layer
        /\ m.deleted = TRUE /\ m.neighbors = g[n].neighbors
    BY <1>1 DEF Node
  <1>3. h = [g EXCEPT ![n] = m]
    BY DEF Tombstone
  <1> HIDE DEF m
  <1>4. h \in Seq(Node) /\ Len(h) = Len(g) /\ h[n] = m
        /\ \A i \in 1 .. Len(g) : i # n => h[i] = g[i]
    BY <1>1, <1>2, <1>3
  <1>5. \A i \in 1 .. Len(g) :
          h[i].id = g[i].id /\ h[i].max_layer = g[i].max_layer /\ h[i].neighbors = g[i].neighbors
    BY <1>2, <1>4
  <1>6. Sound(h, {})
    BY <1>4, <1>5 DEF Sound
  <1>7. IdsDistinct(h)
    BY <1>4, <1>5 DEF IdsDistinct
  <1>8. Live(h) = Live(g) \ {n}
    BY <1>2, <1>4 DEF Live
  <1>9. \A i \in Live(h) : h[i].max_layer = g[i].max_layer
    BY <1>4, <1>5 DEF Live
  <1>10. QED BY <1>6, <1>7, <1>8, <1>9

(***************************************************************************)
(* The invariant and its consequences                                      *)
(***************************************************************************)

LEMMA InitIndex == Init => IndexInv
  <1> SUFFICES ASSUME Init PROVE IndexInv
    OBVIOUS
  <1>1. /\ nodes = <<>> /\ entry_point = 0 /\ max_layer = -1 /\ active_count = 0
        /\ saved = NoFile /\ broken = FALSE /\ search = [s \in Searchers |-> "idle"]
    BY DEF Init, NoEntry
  <1>2. Cardinality(Ids) \in Nat
    BY HNSWIndexAssumption, FS_CardinalityType
  <1>3. Len(nodes) = 0 /\ nodes \in Seq(Node) /\ Live(nodes) = {}
    BY <1>1 DEF Live
  <1>4. TypeOK
    <2>1. entry_point \in 0 .. Cardinality(Ids) /\ active_count \in 0 .. Cardinality(Ids)
      BY <1>1, <1>2
    <2>2. max_layer \in -1 .. TopLevel
      BY <1>1, HNSWIndexAssumption
    <2>3. search \in [Searchers -> {"idle", "checked", "out_of_range"}] /\ broken \in BOOLEAN
      BY <1>1
    <2>4. \A i \in 1 .. Len(nodes) : NodeOK(nodes[i])
      BY <1>3
    <2>5. QED BY <2>1, <2>2, <2>3, <2>4 DEF TypeOK
  <1>5. Whole(nodes, entry_point, max_layer)
    <2>1. Sound(nodes, {})
      BY <1>3 DEF Sound
    <2>2. IdsDistinct(nodes)
      BY <1>3 DEF IdsDistinct
    <2>3. EntryOK(nodes, entry_point, max_layer)
      BY <1>1, <1>3, HNSWIndexAssumption DEF EntryOK, NoEntry
    <2>4. QED BY <2>1, <2>2, <2>3 DEF Whole
  <1>6. active_count = Cardinality(Live(nodes))
    BY <1>1, <1>3, FS_EmptySet
  <1>7. FileOK
    BY <1>1 DEF FileOK, NoFile, NoEntry
  <1>8. QED BY <1>1, <1>3, <1>4, <1>5, <1>6, <1>7 DEF IndexInv

\* What each action has to show when the index is not broken after it.
LEMMA WholeIndex ==
  ASSUME nodes' \in Seq(Node), Whole(nodes', entry_point', max_layer'),
         active_count' = Cardinality(Live(nodes')), broken' \in BOOLEAN,
         search' \in [Searchers -> {"idle", "checked", "out_of_range"}], FileOK'
  PROVE  IndexInv'
  <1>1. /\ entry_point' \in 0 .. Cardinality(Ids) /\ max_layer' \in -1 .. TopLevel
        /\ Cardinality(Live(nodes')) \in 0 .. Cardinality(Ids)
    BY WholeTypes
  <1>2. \A i \in 1 .. Len(nodes') : NodeOK(nodes'[i])
    BY NodesAreOK
  <1>3. TypeOK'
    BY <1>1, <1>2 DEF TypeOK, NodeOK
  <1>4. (~broken => Whole(nodes, entry_point, max_layer))'
    OBVIOUS
  <1>5. (~broken => active_count = Cardinality(Live(nodes)))'
    BY DEF Live
  <1>6. QED BY <1>3, <1>4, <1>5 DEF IndexInv

LEMMA AddKeeps ==
  ASSUME IndexInv, NEW id \in Ids, NEW v \in Vecs, NEW lvl \in 0 .. TopLevel,
         AddItem(id, v, lvl)
  PROVE  IndexInv'
  <1> DEFINE g == Append(nodes, NewNode(id, v, lvl))
             n == Len(g)
  <1>1. /\ ~broken /\ IndexOf(nodes, id) = {} /\ active_count' = active_count + 1
        /\ nodes' = IF entry_point = NoEntry THEN g ELSE Wire(g, n, entry_point, max_layer)
        /\ Raise(n, lvl) /\ saved' = saved /\ broken' = broken /\ search' = search
    BY DEF AddItem
  <1>2. /\ Sound(nodes, {}) /\ IdsDistinct(nodes) /\ EntryOK(nodes, entry_point, max_layer)
        /\ nodes \in Seq(Node) /\ active_count = Cardinality(Live(nodes))
        /\ Whole(nodes, entry_point, max_layer)
    BY <1>1 DEF IndexInv, Whole
  <1>3. Joined(nodes, g, Len(nodes) + 1, lvl) /\ Len(nodes) + 1 \notin Live(nodes)
        /\ n = Len(nodes) + 1
    BY <1>1, <1>2, AppendNode
  <1>4. Joined(nodes, g, n, lvl) /\ n \notin Live(nodes)
    BY <1>3
  <1> HIDE DEF g, n
  <1>5. IF entry_point = NoEntry \/ lvl > max_layer
        THEN entry_point' = n /\ max_layer' = lvl
        ELSE entry_point' = entry_point /\ max_layer' = max_layer
    BY <1>1 DEF Raise
  <1>6. Whole(nodes', entry_point', max_layer') /\ Live(nodes') = Live(nodes) \cup {n}
    BY <1>1, <1>2, <1>4, <1>5, JoinedWhole
  <1>7. active_count' = Cardinality(Live(nodes'))
    <2>1. IsFiniteSet(Live(nodes))
      BY <1>2, WholeTypes
    <2>2. Cardinality(Live(nodes) \cup {n}) = Cardinality(Live(nodes)) + 1
      BY <1>4, <2>1, FS_AddElement
    <2>3. QED BY <1>1, <1>2, <1>6, <2>2
  <1>8. nodes' \in Seq(Node)
    BY <1>6 DEF Whole, Sound
  <1>9. /\ broken' \in BOOLEAN /\ FileOK'
        /\ search' \in [Searchers -> {"idle", "checked", "out_of_range"}]
    BY <1>1 DEF IndexInv, TypeOK, FileOK
  <1>10. QED BY <1>6, <1>7, <1>8, <1>9, WholeIndex

LEMMA UpdateKeeps ==
  ASSUME IndexInv, NEW id \in Ids, NEW v \in Vecs, NEW lvl \in 0 .. TopLevel,
         UpdateItem(id, v, lvl)
  PROVE  IndexInv'
  <1>0. PICK n \in IndexOf(nodes, id) :
          LET g == [Detach(nodes, n) EXCEPT ![n] = NewNode(id, v, lvl)]
          IN  /\ ~broken
              /\ nodes' = IF entry_point = NoEntry THEN g ELSE Wire(g, n, entry_point, max_layer)
              /\ Raise(n, lvl)
              /\ active_count' = CountAfterUpdate(n)
              /\ UNCHANGED <<saved, broken, search>>
    BY DEF UpdateItem
  <1> DEFINE d == Detach(nodes, n)
             g == [d EXCEPT ![n] = NewNode(id, v, lvl)]
  <1>1. /\ ~broken /\ active_count' = CountAfterUpdate(n)
        /\ nodes' = IF entry_point = NoEntry THEN g ELSE Wire(g, n, entry_point, max_layer)
        /\ Raise(n, lvl) /\ saved' = saved /\ broken' = broken /\ search' = search
    BY <1>0
  <1>2. /\ Sound(nodes, {}) /\ IdsDistinct(nodes) /\ EntryOK(nodes, entry_point, max_layer)
        /\ nodes \in Seq(Node) /\ active_count = Cardinality(Live(nodes))
        /\ Whole(nodes, entry_point, max_layer) /\ Len(nodes) \in Nat
    BY <1>1 DEF IndexInv, Whole
  <1>3. n \in 1 .. Len(nodes) /\ nodes[n].id = id
    BY DEF IndexOf
  <1>4. Sound(d, {}) /\ SameNodes(nodes, d)
    BY <1>2, <1>3, DetachSound
  <1> HIDE DEF d
  <1>5. n \in 1 .. Len(d) /\ d[n].id = id /\ d \in Seq(Node)
    BY <1>3, <1>4 DEF SameNodes, Sound
  <1>6. Live(d) = Live(nodes) /\ IdsDistinct(d) /\ EntryOK(d, entry_point, max_layer)
    BY <1>2, <1>4, SameNodesKeep
  <1>7. Joined(d, g, n, lvl)
    BY <1>4, <1>5, <1>6, ReplaceNode
  <1> HIDE DEF g
  <1>8. IF entry_point = NoEntry \/ lvl > max_layer
        THEN entry_point' = n /\ max_layer' = lvl
        ELSE entry_point' = entry_point /\ max_layer' = max_layer
    BY <1>1 DEF Raise
  <1>9. Whole(nodes', entry_point', max_layer') /\ Live(nodes') = Live(nodes) \cup {n}
    BY <1>1, <1>5, <1>6, <1>7, <1>8, JoinedWhole, SMTT(40)
  <1>10. active_count' = Cardinality(Live(nodes'))
    <2>1. IsFiniteSet(Live(nodes))
      BY <1>2, WholeTypes
    <2>2. Cardinality(Live(nodes) \cup {n}) =
            IF n \in Live(nodes) THEN Cardinality(Live(nodes)) ELSE Cardinality(Live(nodes)) + 1
      BY <2>1, FS_AddElement
    <2>3. n \in Live(nodes) <=> ~nodes[n].deleted
      BY <1>3 DEF Live
    <2>4. QED BY <1>1, <1>2, <1>9, <2>2, <2>3 DEF CountAfterUpdate
  <1>11. nodes' \in Seq(Node)
    BY <1>9 DEF Whole, Sound
  <1>12. /\ broken' \in BOOLEAN /\ FileOK'
         /\ search' \in [Searchers -> {"idle", "checked", "out_of_range"}]
    BY <1>1 DEF IndexInv, TypeOK, FileOK
  <1>13. QED BY <1>9, <1>10, <1>11, <1>12, WholeIndex

LEMMA RemoveKeeps ==
  ASSUME IndexInv, NEW id \in Ids, Remove(id)
  PROVE  IndexInv'
  <1>0. PICK n \in IndexOf(nodes, id) :
          LET g == [nodes EXCEPT ![n].deleted = TRUE]
              next == Replacement(g)
          IN  /\ ~broken
              /\ ~nodes[n].deleted
              /\ nodes' = g
              /\ active_count' = active_count - 1
              /\ IF entry_point = n
                 THEN /\ entry_point' = next
                      /\ max_layer' = IF next = NoEntry THEN -1 ELSE g[next].max_layer
                 ELSE UNCHANGED <<entry_point, max_layer>>
              /\ UNCHANGED <<saved, broken, search>>
    BY DEF Remove
  <1>1. /\ ~broken /\ ~nodes[n].deleted /\ nodes' = [nodes EXCEPT ![n].deleted = TRUE]
        /\ active_count' = active_count - 1
        /\ saved' = saved /\ broken' = broken /\ search' = search
        /\ IF entry_point = n
           THEN /\ entry_point' = Replacement(nodes')
                /\ max_layer' = IF Replacement(nodes') = NoEntry THEN -1
                                ELSE nodes'[Replacement(nodes')].max_layer
           ELSE entry_point' = entry_point /\ max_layer' = max_layer
    BY <1>0
  <1>2. /\ Sound(nodes, {}) /\ IdsDistinct(nodes) /\ EntryOK(nodes, entry_point, max_layer)
        /\ nodes \in Seq(Node) /\ active_count = Cardinality(Live(nodes))
        /\ Whole(nodes, entry_point, max_layer)
    BY <1>1 DEF IndexInv, Whole
  <1>3. n \in 1 .. Len(nodes) /\ n \in Live(nodes)
    BY <1>1 DEF IndexOf, Live
  <1>4. /\ Sound(nodes', {}) /\ IdsDistinct(nodes') /\ Live(nodes') = Live(nodes) \ {n}
        /\ \A i \in Live(nodes') : nodes'[i].max_layer = nodes[i].max_layer
    <2>1. nodes' = Tombstone(nodes, n)
      BY <1>1 DEF Tombstone
    <2>2. QED BY <1>2, <1>3, <2>1, TombstoneOK
  <1>5. nodes' \in Seq(Node)
    BY <1>4 DEF Sound
  <1>6. EntryOK(nodes', entry_point', max_layer')
    <2>1. CASE entry_point = n /\ Live(nodes') = {}
      <3>1. Replacement(nodes') = NoEntry
        BY <2>1 DEF Replacement
      <3>2. entry_point' = NoEntry /\ max_layer' = -1
        BY <1>1, <2>1, <3>1
      <3>3. -1 \in -1 .. TopLevel
        BY HNSWIndexAssumption
      <3>4. QED BY <2>1, <3>2, <3>3 DEF EntryOK
    <2>2. CASE entry_point = n /\ Live(nodes') # {}
      <3> DEFINE r == Replacement(nodes')
      <3>1. r \in Live(nodes') /\ \A j \in Live(nodes') : nodes'[j].max_layer <= nodes'[r].max_layer
        BY <1>5, <2>2, ReplacementOK
      <3>2. r # NoEntry /\ nodes'[r].max_layer \in -1 .. TopLevel
        BY <1>5, <3>1, NodeFields, HNSWIndexAssumption DEF Live, NoEntry
      <3>3. entry_point' = r /\ max_layer' = nodes'[r].max_layer
        BY <1>1, <2>2, <3>2
      <3> HIDE DEF r
      <3>4. QED BY <3>1, <3>2, <3>3 DEF EntryOK
    <2>3. CASE entry_point # n
      <3>1. entry_point' = entry_point /\ max_layer' = max_layer
        BY <1>1, <2>3
      <3>2. entry_point # NoEntry
        BY <1>2, <1>3 DEF EntryOK
      <3>3. QED BY <1>2, <1>4, <2>3, <3>1, <3>2 DEF EntryOK
    <2>4. QED BY <2>1, <2>2, <2>3
  <1>7. Whole(nodes', entry_point', max_layer')
    BY <1>4, <1>6 DEF Whole
  <1>8. active_count' = Cardinality(Live(nodes'))
    <2>1. IsFiniteSet(Live(nodes))
      BY <1>2, WholeTypes
    <2>2. Cardinality(Live(nodes) \ {n}) = Cardinality(Live(nodes)) - 1
      BY <1>3, <2>1, FS_RemoveElement
    <2>3. QED BY <1>1, <1>2, <1>4, <2>2
  <1>9. /\ broken' \in BOOLEAN /\ FileOK'
        /\ search' \in [Searchers -> {"idle", "checked", "out_of_range"}]
    BY <1>1 DEF IndexInv, TypeOK, FileOK
  <1>10. QED BY <1>5, <1>7, <1>8, <1>9, WholeIndex

LEMMA SearchKeeps ==
  ASSUME IndexInv, NEW s \in Searchers,
         SearchCheck(s) \/ SearchRun(s) \/ SearchOutOfRange(s)
  PROVE  IndexInv'
  <1>1. UNCHANGED <<graph, saved, broken>>
        /\ \E x \in {"idle", "checked", "out_of_range"} : search' = [search EXCEPT ![s] = x]
    BY DEF SearchCheck, SearchRun, SearchOutOfRange
  <1>2. search' \in [Searchers -> {"idle", "checked", "out_of_range"}]
    BY <1>1 DEF IndexInv, TypeOK
  <1>3. /\ nodes' = nodes /\ entry_point' = entry_point /\ max_layer' = max_layer
        /\ active_count' = active_count /\ saved' = saved /\ broken' = broken
    BY <1>1 DEF graph
  <1>4. TypeOK'
    BY <1>2, <1>3 DEF IndexInv, TypeOK
  <1>5. QED BY <1>3, <1>4 DEF IndexInv, FileOK

LEMMA SaveKeeps == ASSUME IndexInv, Save PROVE IndexInv'
  <1>1. /\ nodes' = nodes /\ entry_point' = entry_point /\ max_layer' = max_layer
        /\ active_count' = active_count /\ broken' = broken /\ search' = search /\ ~broken
        /\ saved' = [nodes |-> nodes, entry_point |-> entry_point,
                     max_layer |-> max_layer, whole |-> TRUE]
    BY DEF Save, graph
  <1>2. Whole(nodes, entry_point, max_layer) /\ nodes \in Seq(Node)
    BY <1>1 DEF IndexInv
  <1>3. entry_point \in Nat /\ max_layer \in Int
    BY DEF IndexInv, TypeOK
  <1>4. saved' \in [nodes : Seq(Node), entry_point : Nat, max_layer : Int, whole : BOOLEAN]
    BY <1>1, <1>2, <1>3
  <1>5. saved'.nodes = nodes /\ saved'.entry_point = entry_point /\ saved'.max_layer = max_layer
    BY <1>1
  <1>6. FileOK'
    BY <1>2, <1>4, <1>5 DEF FileOK
  <1>7. TypeOK'
    BY <1>1 DEF IndexInv, TypeOK
  <1>8. QED BY <1>1, <1>6, <1>7 DEF IndexInv

LEMMA BreakKeeps ==
  ASSUME IndexInv, NEW n \in 0 .. Len(saved.nodes) - 1, Break(n)
  PROVE  IndexInv'
  <1>1. /\ nodes' = nodes /\ entry_point' = entry_point /\ max_layer' = max_layer
        /\ active_count' = active_count /\ broken' = broken /\ search' = search
        /\ saved' = [saved EXCEPT !.nodes = SubSeq(@, 1, n), !.whole = FALSE]
    BY DEF Break, graph
  <1>2. saved \in [nodes : Seq(Node), entry_point : Nat, max_layer : Int, whole : BOOLEAN]
    BY DEF IndexInv, FileOK
  <1>3. SubSeq(saved.nodes, 1, n) \in Seq(Node)
    BY <1>2
  <1>4. saved' \in [nodes : Seq(Node), entry_point : Nat, max_layer : Int, whole : BOOLEAN]
        /\ saved'.whole = FALSE
    BY <1>1, <1>2, <1>3
  <1>5. FileOK'
    BY <1>4 DEF FileOK
  <1>6. TypeOK'
    BY <1>1 DEF IndexInv, TypeOK
  <1>7. QED BY <1>1, <1>5, <1>6 DEF IndexInv

LEMMA LoadKeeps == ASSUME IndexInv, Load PROVE IndexInv'
  <1>1. /\ nodes' = saved.nodes /\ entry_point' = saved.entry_point
        /\ max_layer' = saved.max_layer /\ active_count' = Cardinality(Live(saved.nodes))
        /\ broken' = FALSE /\ saved' = saved /\ search' = search /\ saved.whole
    BY DEF Load, LoadedCount
  <1>2. saved.nodes \in Seq(Node) /\ Whole(saved.nodes, saved.entry_point, saved.max_layer)
    BY <1>1 DEF IndexInv, FileOK
  <1>3. nodes' \in Seq(Node) /\ Whole(nodes', entry_point', max_layer')
        /\ active_count' = Cardinality(Live(nodes')) /\ broken' \in BOOLEAN
    BY <1>1, <1>2
  <1>4. FileOK' /\ search' \in [Searchers -> {"idle", "checked", "out_of_range"}]
    BY <1>1 DEF IndexInv, TypeOK, FileOK
  <1>5. QED BY <1>3, <1>4, WholeIndex

LEMMA LoadFailsKeeps == ASSUME IndexInv, LoadFails PROVE IndexInv'
  <1>1. /\ nodes' = saved.nodes /\ entry_point' = entry_point /\ max_layer' = max_layer
        /\ active_count' = active_count /\ broken' = TRUE /\ saved' = saved /\ search' = search
    BY DEF LoadFails
  <1>2. nodes' \in Seq(Node)
    BY <1>1 DEF IndexInv, FileOK
  <1>3. \A i \in 1 .. Len(nodes') : NodeOK(nodes'[i])
    BY <1>2, NodesAreOK
  <1>4. TypeOK'
    BY <1>1, <1>3 DEF IndexInv, TypeOK, NodeOK
  <1>5. QED BY <1>1, <1>2, <1>4 DEF IndexInv, FileOK

\* The inductive invariant: whatever add_item(), remove(), update_item(),
\* searches, save(), load() and files cut short do to each other, the index is
\* whole unless the last load() failed, and so is every file save() finished.
THEOREM IndexInvariant == Spec => []IndexInv
  <1>1. Init => IndexInv
    BY InitIndex
  <1>2. IndexInv /\ [Next]_vars => IndexInv'
    <2> SUFFICES ASSUME IndexInv, [Next]_vars PROVE IndexInv'
      OBVIOUS
    <2>1. CASE \E id \in Ids, v \in Vecs, lvl \in 0 .. TopLevel : AddItem(id, v, lvl)
      BY <2>1, AddKeeps
    <2>2. CASE \E id \in Ids : Remove(id)
      BY <2>2, RemoveKeeps
    <2>3. CASE \E id \in Ids, v \in Vecs, lvl \in 0 .. TopLevel : UpdateItem(id, v, lvl)
      BY <2>3, UpdateKeeps
    <2>4. CASE \E s \in Searchers : SearchCheck(s) \/ SearchRun(s) \/ SearchOutOfRange(s)
      BY <2>4, SearchKeeps
    <2>5. CASE Save
      BY <2>5, SaveKeeps
    <2>6. CASE \E n \in 0 .. Len(saved.nodes) - 1 : Break(n)
      BY <2>6, BreakKeeps
    <2>7. CASE Load
      BY <2>7, LoadKeeps
    <2>8. CASE LoadFails
      BY <2>8, LoadFailsKeeps
    <2>9. CASE UNCHANGED vars
      <3>1. /\ nodes' = nodes /\ entry_point' = entry_point /\ max_layer' = max_layer
            /\ active_count' = active_count /\ saved' = saved /\ broken' = broken
            /\ search' = search
        BY <2>9 DEF vars, graph
      <3>2. TypeOK'
        BY <3>1 DEF IndexInv, TypeOK
      <3>3. QED BY <3>1, <3>2 DEF IndexInv, FileOK
    <2>10. QED BY <2>1, <2>2, <2>3, <2>4, <2>5, <2>6, <2>7, <2>8, <2>9 DEF Next
  <1>3. QED BY <1>1, <1>2, PTL DEF Spec

\* HNSWIndex.TypeOK: also after a load() that failed, the nodes read so far
\* have ids, vectors and layers in range and one list for each layer.
THEOREM IndexTypes == Spec => []TypeOK
  <1>1. IndexInv => TypeOK
    BY DEF IndexInv
  <1>2. QED BY <1>1, IndexInvariant, PTL

\* The entry point is live and no live node is above max_layer, whatever is
\* removed, revived or loaded.
THEOREM EntryPointIsSound == Spec => []EntryPointSound
  <1>1. IndexInv => EntryPointSound
    BY DEF IndexInv, Whole, EntryOK, EntryPointSound
  <1>2. QED BY <1>1, IndexInvariant, PTL

\* size() is the number of live nodes unless the last load() failed.
THEOREM SizeIsLive == Spec => []SizeCountsLive
  <1>1. IndexInv => SizeCountsLive
    BY DEF IndexInv, SizeCountsLive
  <1>2. QED BY <1>1, IndexInvariant, PTL

\* The lists of neighbours stay within their bounds: connect_bidirectional()
\* and prune_neighbors() for any M, any vectors and any order of calls.
THEOREM ListsAreSound == Spec => []ListsSound
  <1>1. IndexInv => ListsSound
    <2> SUFFICES ASSUME IndexInv, ~broken,
                        NEW i \in 1 .. Len(nodes), NEW l \in 0 .. nodes[i].max_layer
                 PROVE  LET nbs == nodes[i].neighbors[l]
                        IN  /\ Len(nbs) <= MaxM(l)
                            /\ \A j \in 1 .. Len(nbs) : nbs[j] \in (1 .. Len(nodes)) \ {i}
                            /\ \A j, k \in 1 .. Len(nbs) : nbs[j] = nbs[k] => j = k
      BY DEF ListsSound
    <2>1. ListOK(nodes[i].neighbors[l], i, Len(nodes), MaxM(l))
      BY DEF IndexInv, Whole, Sound, Cap
    <2> DEFINE nbs == nodes[i].neighbors[l]
    <2>2. nbs \in Seq((1 .. Len(nodes)) \ {i}) /\ Len(nbs) <= MaxM(l) /\ Distinct(nbs)
      BY <2>1 DEF ListOK
    <2> HIDE DEF nbs
    <2>3. \A j \in 1 .. Len(nbs) : nbs[j] \in (1 .. Len(nodes)) \ {i}
      BY <2>2
    <2>4. \A j, k \in 1 .. Len(nbs) : nbs[j] = nbs[k] => j = k
      BY <2>2 DEF Distinct
    <2>5. QED BY <2>2, <2>3, <2>4 DEF nbs
  <1>2. QED BY <1>1, IndexInvariant, PTL

\* A search returns live nodes that pass its filter, for every query and
\* every filter, however the graph was built and cut up.
THEOREM SearchesFindLive == Spec => []OnlyLiveFound
  <1>1. IndexInv => OnlyLiveFound
    <2> SUFFICES ASSUME IndexInv, entry_point # NoEntry, ~broken, NEW q \in Vecs,
                        NEW F \in SUBSET Ids, NEW i \in 1 .. Len(Search(q, F))
                 PROVE  \E n \in Live(nodes) :
                          nodes[n].id = Search(q, F)[i] /\ nodes[n].id \in F
      BY DEF OnlyLiveFound
    <2> DEFINE ep == Descend(nodes, q, entry_point, Layers(max_layer, 1), F)
               ef == IF EfSearch > K THEN EfSearch ELSE K
               list == SearchLayer(nodes, q, ep, ef, 0, F)
               top == IF Len(list) > K THEN K ELSE Len(list)
               hits == SubSeq(list, 1, top)
    <2>1. Search(q, F) = [j \in 1 .. Len(hits) |-> nodes[hits[j]].id]
      BY DEF Search, TopK
    <2>2. Sound(nodes, {}) /\ entry_point \in 1 .. Len(nodes) /\ q \in Nat /\ max_layer \in Int
      BY HNSWIndexAssumption DEF IndexInv, Whole, EntryOK, Live
    <2>3. Layers(max_layer, 1) \in Seq(Nat)
      <3>1. Layers(max_layer, 1) \in Seq(1 .. max_layer)
        BY <2>2, LayersType
      <3>2. 1 .. max_layer \subseteq Nat
        BY <2>2
      <3>3. QED BY <3>1, <3>2, SeqOfMore
    <2>4. ep \in 1 .. Len(nodes)
      BY <2>2, <2>3, DescendInRange
    <2> HIDE DEF ep, ef
    <2>5. list \in Seq(Passing(nodes, F))
      <3> DEFINE X == 1 .. Len(nodes)
      <3>1. Closed(nodes, 0, X) /\ X \cap Passing(nodes, F) = Passing(nodes, F)
        BY <2>2, AllClosed DEF Passing, Live
      <3>2. ep \in X
        BY <2>4
      <3> HIDE DEF X
      <3>3. list \in Seq(X \cap Passing(nodes, F))
        BY <2>2, <3>1, <3>2, SearchLayerFinds
      <3>4. QED BY <3>1, <3>3
    <2> HIDE DEF list
    <2>6. Len(list) \in Nat /\ top \in 0 .. Len(list)
      BY <2>5, HNSWIndexAssumption
    <2> HIDE DEF top
    <2>7. hits \in Seq(Passing(nodes, F)) /\ Len(hits) \in Nat
      BY <2>5, <2>6
    <2> HIDE DEF hits
    <2>8. i \in 1 .. Len(hits) /\ Search(q, F)[i] = nodes[hits[i]].id
      BY <2>1, <2>7
    <2>9. hits[i] \in Passing(nodes, F)
      BY <2>7, <2>8
    <2>10. QED BY <2>8, <2>9 DEF Passing
  <1>2. QED BY <1>1, IndexInvariant, PTL

(***************************************************************************)
(* An index that is only added to                                          *)
(***************************************************************************)

\* Layer 0 is in one piece: no lists lead back to a part of it only.
Connected(g) ==
  \A S \in SUBSET (1 .. Len(g)) :
    (S # {} /\ \A i \in S : To(g, i) \subseteq S) => S = 1 .. Len(g)

\* How far the wiring has come of a node that no list names yet.
LinkInv(e, k, s) ==
  /\ Sound(s.g, {}) /\ SameNodes(e.g, s.g) /\ s.ep \in e.X
  /\ \A l \in Nat : l <= e.low - k =>
       \A i \in 1 .. Len(e.g) : l <= e.g[i].max_layer =>
         s.g[i].neighbors[l] = e.g[i].neighbors[l]
  /\ k > e.low => Grows(e.g, s.g) /\ \E b \in e.X : Linked(s.g, e.n, b)
LinkLoop == INSTANCE FoldRule WITH Step <- AttachStep, Inv <- LinkInv

LEMMA AttachAllLinks ==
  ASSUME NEW g, Sound(g, {}), Few(g), Live(g) = 1 .. Len(g),
         NEW n \in 1 .. Len(g), NEW X, n \notin X, \A l \in Nat : Closed(g, l, X),
         NEW ep \in X, NEW low \in Nat
  PROVE  LET h == AttachAll(n, [g |-> g, ep |-> ep], Layers(low, 0)).g
         IN  Grows(g, h) /\ \E b \in X : Linked(h, n, b)
  <1> DEFINE e == [g |-> g, n |-> n, X |-> X, low |-> low]
             start == [g |-> g, ep |-> ep]
             layers == Layers(low, 0)
  <1>0. e.g = g /\ e.n = n /\ e.X = X /\ e.low = low /\ start.g = g /\ start.ep = ep
    OBVIOUS
  <1> HIDE DEF start
  <1>1. AttachAll(n, start, layers) = LinkLoop!Folded(e, start, layers)
    BY DEF AttachAll, AttachStep, LinkLoop!Folded, Seqs!FoldLeft,
           LinkLoop!FoldLeft, Seqs!MapThenFoldSet, LinkLoop!MapThenFoldSet,
           Seqs!Max, LinkLoop!Max
  <1> HIDE DEF e
  <1>2. /\ layers \in Seq(Nat) /\ Len(layers) = low + 1
        /\ \A k \in 1 .. low + 1 : layers[k] = low - k + 1
    <2>1. layers = [k \in 1 .. low + 1 |-> low - k + 1] /\ low + 1 \in Nat
      BY DEF Layers
    <2>2. \A k \in 1 .. low + 1 : low - k + 1 \in Nat
      OBVIOUS
    <2>3. layers \in [1 .. low + 1 -> Nat]
      BY <2>1, <2>2
    <2>4. layers \in Seq(Nat) /\ Len(layers) = low + 1
      BY <2>1, <2>3
    <2>5. QED BY <2>1, <2>4
  <1> HIDE DEF layers
  <1>3. X \subseteq 1 .. Len(g) /\ Len(g) \in Nat
    BY DEF Closed, Sound
  <1>4. LinkInv(e, 0, start)
    BY <1>0, SameNodesRefl DEF LinkInv
  <1>5. ASSUME NEW k \in 1 .. Len(layers), NEW s, LinkInv(e, k - 1, s)
        PROVE  LinkInv(e, k, AttachStep(e, s, layers[k]))
    <2> DEFINE l == layers[k]
               t == Attach(n, s, l)
    <2>1. /\ Sound(s.g, {}) /\ SameNodes(g, s.g) /\ s.ep \in X /\ Len(s.g) = Len(g)
          /\ \A m \in Nat : m <= low - (k - 1) =>
               \A i \in 1 .. Len(g) : m <= g[i].max_layer =>
                 s.g[i].neighbors[m] = g[i].neighbors[m]
      BY <1>0, <1>5 DEF LinkInv, SameNodes
    <2>2. l \in Nat /\ l = low - k + 1 /\ k \in Nat /\ k <= low + 1
      BY <1>2
    <2>3. AttachStep(e, s, l) = t
      BY <1>0 DEF AttachStep
    <2> HIDE DEF l
    <2>4. n \in 1 .. Len(s.g) /\ \A i \in 1 .. Len(g) : g[i].max_layer \in Nat
      BY <2>1, NodeFields DEF Sound
    <2>5. \A i \in 1 .. Len(g) : l <= g[i].max_layer =>
            s.g[i].neighbors[l] = g[i].neighbors[l]
      BY <2>1, <2>2
    <2>6. Closed(s.g, l, X)
      <3>1. ASSUME NEW i \in X, l \in 0 .. s.g[i].max_layer
            PROVE  s.g[i].neighbors[l] \in Seq(X)
        <4>1. i \in 1 .. Len(g) /\ l \in 0 .. g[i].max_layer
          BY <1>3, <2>1, <3>1 DEF SameNodes
        <4>2. g[i].neighbors[l] \in Seq(X)
          BY <2>2, <4>1 DEF Closed
        <4>3. QED BY <2>4, <2>5, <4>1, <4>2
      <3>2. QED BY <1>3, <2>1, <3>1 DEF Closed
    <2>7. Few(s.g) /\ ~s.g[s.ep].deleted
      BY <1>3, <2>1 DEF SameNodes, Few, Live
    <2>8. /\ Sound(t.g, {}) /\ SameNodes(s.g, t.g) /\ SameBut(s.g, t.g, l) /\ t.ep \in X
          /\ l = 0 => Grows(s.g, t.g) /\ \E b \in X : Linked(t.g, n, b)
      BY <2>1, <2>2, <2>4, <2>6, <2>7, AttachSound
    <2> HIDE DEF t
    <2>9. SameNodes(g, t.g)
      BY <2>1, <2>8, SameNodesTrans
    <2>10. ASSUME NEW m \in Nat, m <= low - k, NEW i \in 1 .. Len(g), m <= g[i].max_layer
           PROVE  t.g[i].neighbors[m] = g[i].neighbors[m]
      <3>1. m # l /\ m <= low - (k - 1)
        BY <2>2, <2>10
      <3>2. i \in 1 .. Len(s.g) /\ m \in 0 .. s.g[i].max_layer
        BY <2>1, <2>4, <2>10 DEF SameNodes
      <3>3. t.g[i].neighbors[m] = s.g[i].neighbors[m]
        BY <2>8, <3>1, <3>2 DEF SameBut
      <3>4. QED BY <2>1, <2>10, <3>1, <3>3
    <2>11. ASSUME k > low PROVE Grows(g, t.g) /\ \E b \in X : Linked(t.g, n, b)
      <3>1. l = 0
        BY <2>2, <2>11
      <3>2. Grows(g, s.g)
        <4>1. \A i \in 1 .. Len(g) : s.g[i].neighbors[0] = g[i].neighbors[0]
          BY <2>4, <2>5, <3>1
        <4>2. \A i \in 1 .. Len(g) : To(s.g, i) = To(g, i)
          BY <4>1 DEF To
        <4>3. QED BY <4>2 DEF Grows
      <3>3. QED BY <2>1, <2>8, <3>1, <3>2, GrowsTrans
    <2>12. LinkInv(e, k, t)
      BY <1>0, <2>8, <2>9, <2>10, <2>11 DEF LinkInv
    <2>13. QED BY <2>3, <2>12 DEF l
  <1>6. LinkInv(e, Len(layers), LinkLoop!Folded(e, start, layers))
    BY <1>2, <1>4, <1>5, LinkLoop!FoldKeeps, Zenon
  <1> DEFINE h == AttachAll(n, start, layers).g
  <1>7. Grows(g, h) /\ \E b \in X : Linked(h, n, b)
    <2>1. Len(layers) > low
      BY <1>2
    <2>2. QED BY <1>0, <1>1, <1>6, <2>1 DEF LinkInv
  <1>8. QED BY <1>7 DEF h, start, layers

LEMMA WireLinks ==
  ASSUME NEW g, Sound(g, {}), Few(g), Live(g) = 1 .. Len(g),
         NEW n \in 1 .. Len(g), NEW X, n \notin X, \A l \in Nat : Closed(g, l, X),
         NEW ep \in X, NEW ml \in Nat
  PROVE  Grows(g, Wire(g, n, ep, ml)) /\ \E b \in X : Linked(Wire(g, n, ep, ml), n, b)
  <1> DEFINE all == {g[i].id : i \in 1 .. Len(g)}
             lvl == g[n].max_layer
             low == IF lvl < ml THEN lvl ELSE ml
             ep1 == Descend(g, g[n].vec, ep, Layers(ml, lvl + 1), all)
  <1>1. Wire(g, n, ep, ml) = AttachAll(n, [g |-> g, ep |-> ep1], Layers(low, 0)).g
    BY DEF Wire
  <1>2. g[n].vec \in Nat /\ lvl \in Nat
    BY NodeFields DEF Sound
  <1>3. low \in Nat /\ lvl + 1 \in Int /\ ml \in Int
    BY <1>2
  <1> HIDE DEF all, low, lvl
  <1>4. Layers(ml, lvl + 1) \in Seq(Nat)
    <2> DEFINE T == lvl + 1 .. ml
    <2>1. Layers(ml, lvl + 1) \in Seq(T)
      BY <1>3, LayersType
    <2>2. T \subseteq Nat
      BY <1>2
    <2> HIDE DEF T
    <2>3. QED BY <2>1, <2>2, SeqOfMore
  <1>5. ep1 \in X
    BY <1>2, <1>4, DescendStays
  <1> HIDE DEF ep1
  <1>6. QED BY <1>1, <1>3, <1>5, AttachAllLinks

\* A connected graph grows by a node and stays connected.
LEMMA ConnectedGrows ==
  ASSUME NEW g, NEW h, Len(g) \in Nat, Len(h) = Len(g) + 1, Connected(g),
         \A i \in 1 .. Len(g) : To(g, i) \subseteq To(h, i) /\ To(g, i) \subseteq 1 .. Len(g),
         NEW b \in 1 .. Len(g), Linked(h, Len(h), b)
  PROVE  Connected(h)
  <1> SUFFICES ASSUME NEW S \in SUBSET (1 .. Len(h)), S # {},
                      \A i \in S : To(h, i) \subseteq S
               PROVE  S = 1 .. Len(h)
    BY DEF Connected
  <1> DEFINE T == S \ {Len(h)}
  <1>0. 1 .. Len(h) = (1 .. Len(g)) \cup {Len(h)} /\ Len(h) \notin 1 .. Len(g)
    <2> DEFINE N == Len(g)
    <2>1. 1 .. N + 1 = (1 .. N) \cup {N + 1} /\ N + 1 \notin 1 .. N
      <3> HIDE DEF N
      <3>1. N \in Nat
        BY DEF N
      <3>2. QED BY <3>1
    <2>2. QED BY <2>1
  <1>1. T \in SUBSET (1 .. Len(g)) /\ Len(h) \notin 1 .. Len(g)
    BY <1>0, Zenon
  <1>2. T # {}
    <2>1. CASE Len(h) \in S
      <3>1. b \in S
        BY <2>1 DEF Linked
      <3>2. QED BY <1>1, <3>1
    <2>2. QED BY <2>1
  <1>3. \A i \in T : To(g, i) \subseteq T
    BY <1>1
  <1>4. T = 1 .. Len(g)
    BY <1>1, <1>2, <1>3 DEF Connected
  <1>5. Len(h) \in S
    BY <1>4 DEF Linked
  <1>6. QED BY <1>0, <1>4, <1>5, Zenon

(***************************************************************************)
(* A beam as wide as the graph                                             *)
(***************************************************************************)

\* Every node can be found on layer 0.
AllLive(g) == \A i \in 1 .. Len(g) : ~g[i].deleted /\ g[i].max_layer \in Nat

\* A beam that has dropped nothing: what was seen and passes has been found.
WideState(g, F, s) ==
  /\ s \in [seen : SUBSET (1 .. Len(g)), cand : SUBSET (1 .. Len(g)),
            res : SUBSET (1 .. Len(g))]
  /\ s.cand \subseteq s.seen
  /\ s.res = {i \in s.seen : g[i].id \in F}

\* A beam that has only been added to, nodes `more' among them.
Widened(g, F, s, t, more) ==
  /\ WideState(g, F, t)
  /\ s.seen \cup more \subseteq t.seen
  /\ t.seen \ t.cand = s.seen \ s.cand

LEMMA RoomForMore ==
  ASSUME NEW n \in Nat, NEW S, S \subseteq 1 .. n, NEW x \in 1 .. n, x \notin S
  PROVE  Cardinality(S) < n /\ Cardinality(S \cup {x}) <= n
  <1>1. IsFiniteSet(S) /\ Cardinality(S) \in 0 .. n
    BY IndexSetSize
  <1>2. Cardinality(S \cup {x}) = Cardinality(S) + 1
    BY <1>1, FS_AddElement
  <1>3. Cardinality(S \cup {x}) \in 0 .. n
    <2>1. S \cup {x} \subseteq 1 .. n
      OBVIOUS
    <2>2. QED BY <2>1, IndexSetSize, Zenon
  <1>4. QED BY <1>1, <1>2, <1>3

LEMMA VisitWide ==
  ASSUME NEW g, Len(g) \in Nat, AllLive(g), NEW q, NEW ef \in Nat, Len(g) <= ef, NEW F,
         NEW s, WideState(g, F, s), NEW nb \in 1 .. Len(g)
  PROVE  Widened(g, F, s, Visit(g, q, ef, 0, F, s, nb), {nb})
  <1> DEFINE t == Visit(g, q, ef, 0, F, s, nb)
  <1>1. CASE nb \in s.seen
    <2>1. t = s
      BY <1>1 DEF Visit
    <2>2. QED BY <1>1, <2>1 DEF Widened
  <1>2. CASE nb \notin s.seen
    <2>1. ~Skipped(g[nb], 0)
      BY DEF AllLive, Skipped, OnLayer
    <2>2. s.seen \subseteq 1 .. Len(g) /\ s.cand \subseteq s.seen /\ s.res \subseteq s.seen
      BY DEF WideState
    <2>3. Cardinality(s.cand) < Len(g)
      <3>1. s.cand \subseteq 1 .. Len(g) /\ nb \notin s.cand
        BY <1>2, <2>2
      <3>2. QED BY <3>1, RoomForMore
    <2>4. Cardinality(s.res) < Len(g) /\ Cardinality(s.res \cup {nb}) <= Len(g)
      <3>1. s.res \subseteq 1 .. Len(g) /\ nb \notin s.res
        BY <1>2, <2>2
      <3>2. QED BY <3>1, RoomForMore
    <2>5. Cardinality(s.cand) < ef /\ Cardinality(s.res) < ef
      <3>1. \A c \in Int : c < Len(g) => c < ef
        OBVIOUS
      <3>2. Cardinality(s.cand) \in Int /\ Cardinality(s.res) \in Int
        <4>1. s.cand \subseteq 1 .. Len(g) /\ s.res \subseteq 1 .. Len(g)
          BY <2>2
        <4>2. Cardinality(s.cand) \in 0 .. Len(g)
          BY <4>1, IndexSetSize
        <4>3. Cardinality(s.res) \in 0 .. Len(g)
          BY <4>1, IndexSetSize
        <4>4. QED BY <4>2, <4>3
      <3>3. QED BY <2>3, <2>4, <3>1, <3>2
    <2>6. ~(Cardinality(s.res \cup {nb}) > ef)
      <3>1. Cardinality(s.res \cup {nb}) \in 0 .. Len(g)
        <4>1. s.res \cup {nb} \subseteq 1 .. Len(g)
          BY <2>2
        <4>2. QED BY <4>1, IndexSetSize, Zenon
      <3>2. QED BY <3>1
    <2>7. t = [seen |-> s.seen \cup {nb}, cand |-> s.cand \cup {nb},
               res |-> IF g[nb].id \notin F THEN s.res ELSE s.res \cup {nb}]
      BY <1>2, <2>1, <2>5, <2>6 DEF Visit
    <2> HIDE DEF t
    <2>8. /\ t.seen = s.seen \cup {nb} /\ t.cand = s.cand \cup {nb}
          /\ t.res = IF g[nb].id \notin F THEN s.res ELSE s.res \cup {nb}
      BY <2>7
    <2>9. t \in [seen : SUBSET (1 .. Len(g)), cand : SUBSET (1 .. Len(g)),
                 res : SUBSET (1 .. Len(g))]
      BY <2>2, <2>7
    <2>10. t.res = {i \in t.seen : g[i].id \in F}
      BY <2>8 DEF WideState
    <2>11. t.cand \subseteq t.seen /\ t.seen \ t.cand = s.seen \ s.cand
      BY <1>2, <2>2, <2>8
    <2>12. WideState(g, F, t)
      BY <2>9, <2>10, <2>11 DEF WideState
    <2>13. QED BY <2>8, <2>11, <2>12 DEF t, Widened
  <1>3. QED BY <1>1, <1>2

\* What visiting the first k neighbours adds to state e.s.
WideVisitInv(e, k, s) == Widened(e.g, e.F, e.s, s, {e.list[j] : j \in 1 .. k})
WideVisitLoop == INSTANCE FoldRule WITH Step <- VisitStep, Inv <- WideVisitInv

LEMMA VisitAllWide ==
  ASSUME NEW g, Len(g) \in Nat, AllLive(g), NEW q, NEW ef \in Nat, Len(g) <= ef, NEW F,
         NEW s, WideState(g, F, s), NEW list \in Seq(1 .. Len(g))
  PROVE  Widened(g, F, s, VisitAll(g, q, ef, 0, F, s, list), {list[j] : j \in 1 .. Len(list)})
  <1> DEFINE e == [g |-> g, q |-> q, ef |-> ef, l |-> 0, F |-> F, s |-> s, list |-> list]
  <1>0. /\ e.g = g /\ e.q = q /\ e.ef = ef /\ e.l = 0 /\ e.F = F /\ e.s = s
        /\ e.list = list
    OBVIOUS
  <1>1. VisitAll(g, q, ef, 0, F, s, list) = WideVisitLoop!Folded(e, s, list)
    BY DEF VisitAll, VisitStep, WideVisitLoop!Folded, Seqs!FoldLeft,
           WideVisitLoop!FoldLeft, Seqs!MapThenFoldSet, WideVisitLoop!MapThenFoldSet,
           Seqs!Max, WideVisitLoop!Max
  <1> HIDE DEF e
  <1>2. WideVisitInv(e, 0, s)
    BY <1>0 DEF WideVisitInv, Widened
  <1>3. ASSUME NEW k \in 1 .. Len(list), NEW h, WideVisitInv(e, k - 1, h)
        PROVE  WideVisitInv(e, k, VisitStep(e, h, list[k]))
    <2> DEFINE t == Visit(g, q, ef, 0, F, h, list[k])
    <2>1. /\ WideState(g, F, h) /\ s.seen \subseteq h.seen
          /\ h.seen \ h.cand = s.seen \ s.cand
          /\ \A j \in 1 .. k - 1 : list[j] \in h.seen
      BY <1>0, <1>3 DEF WideVisitInv, Widened
    <2>2. Widened(g, F, h, t, {list[k]})
      <3>1. list[k] \in 1 .. Len(g)
        OBVIOUS
      <3>2. QED BY <2>1, <3>1, VisitWide, Zenon
    <2>3. VisitStep(e, h, list[k]) = t
      BY <1>0 DEF VisitStep
    <2> HIDE DEF t
    <2>4. \A j \in 1 .. k : list[j] \in t.seen
      <3>1. \A j \in 1 .. k : j \in 1 .. k - 1 \/ j = k
        OBVIOUS
      <3>2. QED BY <2>1, <2>2, <3>1 DEF Widened
    <2>5. s.seen \subseteq t.seen /\ t.seen \ t.cand = s.seen \ s.cand
      BY <2>1, <2>2 DEF Widened
    <2>6. Widened(g, F, s, t, {list[j] : j \in 1 .. k})
      BY <2>2, <2>4, <2>5 DEF Widened
    <2>7. QED BY <1>0, <2>3, <2>6 DEF WideVisitInv
  <1>4. WideVisitInv(e, Len(list), WideVisitLoop!Folded(e, s, list))
    BY <1>2, <1>3, WideVisitLoop!FoldKeeps, Zenon
  <1>5. QED BY <1>0, <1>1, <1>4 DEF WideVisitInv

\* Where the search has been, the lists have been followed.
Explored(g, s) == \A i \in s.seen \ s.cand : To(g, i) \subseteq s.seen

LEMMA ToInRange ==
  ASSUME NEW g, Sound(g, {}), NEW i \in 1 .. Len(g)
  PROVE  /\ g[i].max_layer \in Nat
         /\ g[i].neighbors[0] \in Seq(1 .. Len(g))
         /\ To(g, i) \subseteq 1 .. Len(g)
  <1>1. g[i].max_layer \in Nat
    BY NodeFields DEF Sound
  <1>2. g[i].neighbors[0] \in Seq(1 .. Len(g))
    BY <1>1, ListsInRange
  <1> DEFINE list == g[i].neighbors[0]
  <1>3. \A j \in 1 .. Len(list) : list[j] \in 1 .. Len(g)
    BY <1>2
  <1>4. To(g, i) \subseteq 1 .. Len(g)
    BY <1>3 DEF To
  <1>5. QED BY <1>1, <1>2, <1>4

LEMMA ExpandWide ==
  ASSUME NEW g, Sound(g, {}), AllLive(g), NEW q \in Nat, NEW ef \in Nat, Len(g) <= ef,
         NEW F, NEW s, WideState(g, F, s), Explored(g, s), s.cand # {}
  PROVE  LET t == Expand(g, q, ef, 0, F, s)
         IN  /\ WideState(g, F, t) /\ Explored(g, t)
             /\ s.seen \subseteq t.seen
             /\ \/ t.cand = {}
                \/ \E c \in s.cand : t.seen \ t.cand = (s.seen \ s.cand) \cup {c}
  <1> DEFINE c == Nearest(g, q, s.cand)
             popped == [s EXCEPT !.cand = @ \ {c}]
             t == Expand(g, q, ef, 0, F, s)
             enough == /\ Cardinality(s.res) >= ef
                       /\ Dist(g[c].vec, q) > Dist(g[Farthest(g, q, s.res)].vec, q)
  <1>1. /\ s.cand \subseteq s.seen /\ s.seen \subseteq 1 .. Len(g) /\ s.res \subseteq s.seen
        /\ g \in Seq(Node) /\ Len(g) \in Nat
    BY DEF WideState, Sound
  <1>2. c \in s.cand /\ c \in 1 .. Len(g)
    <2>1. s.cand \subseteq 1 .. Len(g)
      BY <1>1
    <2>2. QED BY <1>1, <2>1, NearestIn
  <1>3. OnLayer(g[c], 0)
    BY <1>2 DEF AllLive, OnLayer
  <1>4. t = IF enough THEN [s EXCEPT !.cand = {}]
            ELSE VisitAll(g, q, ef, 0, F, popped, g[c].neighbors[0])
    BY <1>3 DEF Expand
  <1>5. CASE enough
    <2>1. s.res \subseteq 1 .. Len(g)
      BY <1>1
    <2>2. Cardinality(s.res) \in 0 .. Len(g) /\ Cardinality(s.res) >= ef
      BY <1>1, <1>5, <2>1, IndexSetSize
    <2>3. Cardinality(s.res) = Len(g)
      BY <1>1, <2>2
    <2>4. s.res = 1 .. Len(g)
      <3> DEFINE n == Len(g)
      <3>1. IsFiniteSet(1 .. n) /\ Cardinality(1 .. n) = n
        <4> HIDE DEF n
        <4>1. n \in Nat
          BY <1>1 DEF n
        <4>2. QED BY <4>1, FS_Interval, SMTT(40)
      <3>2. QED BY <2>1, <2>3, <3>1, FS_Subset
    <2>5. s.seen = 1 .. Len(g)
      BY <1>1, <2>4
    <2>6. t = [s EXCEPT !.cand = {}]
      BY <1>4, <1>5
    <2> HIDE DEF t, enough
    <2>7. t.seen = s.seen /\ t.cand = {} /\ t.res = s.res
      BY <2>6 DEF WideState
    <2>8. WideState(g, F, t)
      BY <2>6, <2>7 DEF WideState
    <2>9. Explored(g, t)
      BY <2>5, <2>7, ToInRange DEF Explored
    <2>10. QED BY <2>7, <2>8, <2>9 DEF t
  <1>6. CASE ~enough
    <2> DEFINE list == g[c].neighbors[0]
    <2>1. t = VisitAll(g, q, ef, 0, F, popped, list)
      BY <1>4, <1>6
    <2> HIDE DEF t, enough, c
    <2>2. popped.seen = s.seen /\ popped.cand = s.cand \ {c} /\ popped.res = s.res
      BY DEF WideState
    <2>3. WideState(g, F, popped)
      BY <2>2 DEF WideState
    <2>4. list \in Seq(1 .. Len(g)) /\ To(g, c) = {list[j] : j \in 1 .. Len(list)}
      BY <1>2, ToInRange DEF To
    <2> HIDE DEF list, popped
    <2>5. Widened(g, F, popped, t, To(g, c))
      <3> DEFINE more == {list[j] : j \in 1 .. Len(list)}
                 u == VisitAll(g, q, ef, 0, F, popped, list)
      <3>1. Widened(g, F, popped, u, more)
        <4>1. Len(g) \in Nat /\ list \in Seq(1 .. Len(g))
          BY <1>1, <2>4
        <4>2. QED BY <2>3, <4>1, VisitAllWide
      <3>2. u = t /\ more = To(g, c)
        BY <2>1, <2>4
      <3> HIDE DEF u, more
      <3>3. QED BY <3>1, <3>2
    <2>6. /\ WideState(g, F, t) /\ s.seen \subseteq t.seen /\ To(g, c) \subseteq t.seen
          /\ t.seen \ t.cand = (s.seen \ s.cand) \cup {c}
      BY <1>1, <1>2, <2>2, <2>5 DEF Widened
    <2>7. Explored(g, t)
      BY <2>6 DEF Explored
    <2>8. QED BY <1>2, <2>6, <2>7 DEF t
  <1>7. QED BY <1>5, <1>6

\* After k rounds there is nothing left to expand, or k nodes have been.
WideInv(e, k, s) ==
  /\ WideState(e.g, e.F, s) /\ Explored(e.g, s) /\ e.entry \in s.seen
  /\ s.cand = {} \/ Cardinality(s.seen \ s.cand) >= k
WideLoop == INSTANCE FoldRule WITH Step <- ExpandStep, Inv <- WideInv

LEMMA ExpandAllWide ==
  ASSUME NEW g, Sound(g, {}), AllLive(g), NEW q \in Nat, NEW ef \in Nat, Len(g) <= ef,
         NEW F, NEW entry \in 1 .. Len(g), NEW s, WideState(g, F, s), Explored(g, s),
         entry \in s.seen
  PROVE  LET t == ExpandAll(g, q, ef, 0, F, s)
         IN  /\ WideState(g, F, t) /\ Explored(g, t) /\ entry \in t.seen
             /\ t.cand = {}
  <1> DEFINE e == [g |-> g, q |-> q, ef |-> ef, l |-> 0, F |-> F, entry |-> entry]
  <1>0. /\ e.g = g /\ e.q = q /\ e.ef = ef /\ e.l = 0 /\ e.F = F /\ e.entry = entry
        /\ Len(g) \in Nat
    BY DEF Sound
  <1>1. ExpandAll(g, q, ef, 0, F, s) = WideLoop!Rounds(e, s, Len(g))
    BY DEF ExpandAll, ExpandStep, WideLoop!Rounds
  <1> HIDE DEF e
  <1>2. ASSUME NEW h, WideState(g, F, h)
        PROVE  /\ h.seen \ h.cand \subseteq 1 .. Len(g)
               /\ IsFiniteSet(h.seen \ h.cand) /\ Cardinality(h.seen \ h.cand) \in 0 .. Len(g)
    <2>1. h.seen \ h.cand \subseteq 1 .. Len(g)
      BY <1>2 DEF WideState
    <2>2. QED BY <1>0, <2>1, IndexSetSize
  <1>3. WideInv(e, 0, s)
    <2>1. Cardinality(s.seen \ s.cand) \in 0 .. Len(g)
      BY <1>2
    <2>2. Cardinality(s.seen \ s.cand) >= 0
      BY <2>1
    <2>3. QED BY <1>0, <2>2 DEF WideInv
  <1>4. ASSUME NEW k \in 1 .. Len(g), NEW h, WideInv(e, k - 1, h)
        PROVE  WideInv(e, k, ExpandStep(e, h, k))
    <2> DEFINE t == Expand(g, q, ef, 0, F, h)
    <2>1. /\ WideState(g, F, h) /\ Explored(g, h) /\ entry \in h.seen
          /\ h.cand = {} \/ Cardinality(h.seen \ h.cand) >= k - 1
      BY <1>0, <1>4 DEF WideInv
    <2>2. ExpandStep(e, h, k) = t
      BY <1>0 DEF ExpandStep
    <2>3. CASE h.cand = {}
      <3>1. t = h
        BY <2>3 DEF Expand
      <3>2. QED BY <1>0, <2>1, <2>2, <2>3, <3>1 DEF WideInv
    <2>4. CASE h.cand # {}
      <3>1. /\ WideState(g, F, t) /\ Explored(g, t) /\ h.seen \subseteq t.seen
            /\ \/ t.cand = {}
               \/ \E c \in h.cand : t.seen \ t.cand = (h.seen \ h.cand) \cup {c}
        BY <2>1, <2>4, ExpandWide
      <3> HIDE DEF t
      <3>2. ASSUME t.cand # {} PROVE Cardinality(t.seen \ t.cand) >= k
        <4>1. PICK c \in h.cand : t.seen \ t.cand = (h.seen \ h.cand) \cup {c}
          BY <3>1, <3>2
        <4>2. IsFiniteSet(h.seen \ h.cand) /\ Cardinality(h.seen \ h.cand) \in 0 .. Len(g)
          BY <1>2, <2>1
        <4>3. Cardinality(t.seen \ t.cand) = Cardinality(h.seen \ h.cand) + 1
          BY <4>1, <4>2, FS_AddElement
        <4>4. QED BY <2>1, <2>4, <4>2, <4>3
      <3>3. entry \in t.seen
        BY <2>1, <3>1
      <3>4. QED BY <1>0, <2>2, <3>1, <3>2, <3>3 DEF WideInv
    <2>5. QED BY <2>3, <2>4
  <1>5. WideInv(e, Len(g), WideLoop!Rounds(e, s, Len(g)))
    BY <1>0, <1>3, <1>4, WideLoop!RoundsKeep, Zenon
  <1> DEFINE t == ExpandAll(g, q, ef, 0, F, s)
  <1>6. /\ WideState(g, F, t) /\ Explored(g, t) /\ entry \in t.seen
        /\ t.cand = {} \/ Cardinality(t.seen \ t.cand) >= Len(g)
    BY <1>0, <1>1, <1>5 DEF WideInv
  <1> HIDE DEF t
  <1>7. t.cand = {}
    <2> SUFFICES ASSUME Cardinality(t.seen \ t.cand) >= Len(g) PROVE t.cand = {}
      BY <1>6
    <2> DEFINE S == t.seen \ t.cand
               n == Len(g)
    <2>1. S \subseteq 1 .. n /\ Cardinality(S) \in 0 .. n
      BY <1>2, <1>6
    <2>2. IsFiniteSet(1 .. n) /\ Cardinality(1 .. n) = n
      <3> HIDE DEF n
      <3>1. n \in Nat
        BY <1>0 DEF n
      <3>2. QED BY <3>1, FS_Interval, SMTT(40)
    <2>3. Cardinality(S) = n
      BY <1>0, <2>1
    <2>4. S = 1 .. n
      <3> HIDE DEF S, n
      <3>1. QED BY <2>1, <2>2, <2>3, FS_Subset
    <2>5. QED BY <1>6, <2>4 DEF WideState
  <1>8. QED BY <1>6, <1>7 DEF t

\* A search with such a beam of a connected graph finds all that passes.
LEMMA SearchFindsAll ==
  ASSUME NEW g, Sound(g, {}), Live(g) = 1 .. Len(g), Connected(g), NEW q \in Nat,
         NEW ef \in Nat, Len(g) <= ef, NEW F, NEW entry \in 1 .. Len(g)
  PROVE  SearchLayer(g, q, entry, ef, 0, F) = Sorted(g, q, Passing(g, F))
  <1> DEFINE start == [seen |-> {entry}, cand |-> {entry},
                       res |-> IF g[entry].id \in F THEN {entry} ELSE {}]
             t == ExpandAll(g, q, ef, 0, F, start)
  <1>1. AllLive(g)
    BY ToInRange DEF AllLive, Live
  <1>2. ~Skipped(g[entry], 0)
    BY <1>1 DEF AllLive, Skipped, OnLayer
  <1>3. SearchLayer(g, q, entry, ef, 0, F) = Sorted(g, q, t.res)
    BY <1>2 DEF SearchLayer
  <1>4. WideState(g, F, start) /\ Explored(g, start) /\ entry \in start.seen
    BY DEF WideState, Explored
  <1> HIDE DEF start
  <1>5. WideState(g, F, t) /\ Explored(g, t) /\ entry \in t.seen /\ t.cand = {}
    BY <1>1, <1>4, ExpandAllWide
  <1> HIDE DEF t
  <1>6. t.seen = 1 .. Len(g)
    BY <1>5 DEF WideState, Explored, Connected
  <1>7. t.res = Passing(g, F)
    BY <1>5, <1>6 DEF WideState, Passing
  <1>8. QED BY <1>3, <1>7

(***************************************************************************)
(* What a search of an index that was only added to returns                *)
(***************************************************************************)

\* As many ids as a list of layer 0 and a beam can hold.
FewIds ==
  /\ ~Files /\ ~Removes /\ ~Updates
  /\ Cardinality(Ids) <= 2 * M + 1
  /\ Cardinality(Ids) <= (IF EfSearch > K THEN EfSearch ELSE K)

\* The inductive invariant of such an index.
Built(g) == Live(g) = 1 .. Len(g) /\ Connected(g)
BuiltInv == IndexInv /\ ~broken /\ saved = NoFile /\ Built(nodes)

\* A node that nothing points to yet closes the rest of the graph.
LEMMA AppendCloses ==
  ASSUME NEW g, Sound(g, {}), NEW h, Len(h) = Len(g) + 1,
         \A i \in 1 .. Len(g) : h[i] = g[i]
  PROVE  /\ \A l \in Nat : Closed(h, l, 1 .. Len(g))
         /\ \A i \in 1 .. Len(g) : To(h, i) = To(g, i)
  <1>1. Len(g) \in Nat
    BY DEF Sound
  <1>2. 1 .. Len(g) \subseteq 1 .. Len(h)
    BY <1>1
  <1>3. \A l : Closed(g, l, 1 .. Len(g))
    BY AllClosed
  <1>4. \A l \in Nat : Closed(h, l, 1 .. Len(g))
    BY <1>2, <1>3 DEF Closed
  <1>5. \A i \in 1 .. Len(g) : To(h, i) = To(g, i)
    BY DEF To
  <1>6. QED BY <1>4, <1>5

\* Wiring the new node keeps layer 0 in one piece.
LEMMA WireBuilds ==
  ASSUME NEW g, Sound(g, {}), Built(g), NEW h, Sound(h, {}), Few(h),
         Len(h) = Len(g) + 1, Live(h) = 1 .. Len(h), \A i \in 1 .. Len(g) : h[i] = g[i],
         NEW ep \in 1 .. Len(g), NEW ml \in Nat
  PROVE  Connected(Wire(h, Len(h), ep, ml))
  <1> DEFINE n == Len(h)
             w == Wire(h, n, ep, ml)
  <1>1. Len(g) \in Nat /\ n \in 1 .. Len(h) /\ n \notin 1 .. Len(g) /\ n \in Nat
    BY DEF Sound
  <1>2. /\ \A l \in Nat : Closed(h, l, 1 .. Len(g))
        /\ \A i \in 1 .. Len(g) : To(h, i) = To(g, i)
    BY AppendCloses
  <1>3. Grows(h, w) /\ \E b \in 1 .. Len(g) : Linked(w, n, b)
    <2> DEFINE X == 1 .. Len(g)
    <2>1. n \notin X /\ ep \in X /\ \A l \in Nat : Closed(h, l, X)
      BY <1>1, <1>2
    <2> HIDE DEF X
    <2>2. QED BY <1>1, <2>1, WireLinks DEF X
  <1>4. Len(w) = Len(h)
    <2>1. SameNodes(h, w)
      <3>1. ep \in 1 .. Len(h) /\ ml \in Int
        BY <1>1
      <3>2. QED BY <1>1, <3>1, WireSound
    <2>2. QED BY <2>1 DEF SameNodes
  <1> HIDE DEF w
  <1>5. \A i \in 1 .. Len(g) : To(g, i) \subseteq To(w, i) /\ To(g, i) \subseteq 1 .. Len(g)
    <2>1. \A i \in 1 .. Len(g) : To(g, i) \subseteq 1 .. Len(g)
      BY ToInRange
    <2>2. \A i \in 1 .. Len(g) : To(h, i) \subseteq To(w, i)
      BY <1>1, <1>3 DEF Grows
    <2>3. QED BY <1>2, <2>1, <2>2
  <1>6. PICK b \in 1 .. Len(g) : Linked(w, n, b)
    BY <1>3
  <1>7. Connected(w)
    BY <1>1, <1>4, <1>5, <1>6, ConnectedGrows DEF Built
  <1>8. QED BY <1>7 DEF w

LEMMA AddBuilds ==
  ASSUME FewIds, BuiltInv, NEW id \in Ids, NEW v \in Vecs, NEW lvl \in 0 .. TopLevel,
         AddItem(id, v, lvl)
  PROVE  BuiltInv'
  <1> DEFINE g == Append(nodes, NewNode(id, v, lvl))
             n == Len(g)
  <1>1. /\ IndexOf(nodes, id) = {}
        /\ nodes' = IF entry_point = NoEntry THEN g ELSE Wire(g, n, entry_point, max_layer)
        /\ saved' = saved /\ broken' = broken
    BY DEF AddItem
  <1>2. /\ Sound(nodes, {}) /\ IdsDistinct(nodes) /\ EntryOK(nodes, entry_point, max_layer)
        /\ nodes \in Seq(Node) /\ Len(nodes) \in Nat /\ Built(nodes)
    BY DEF BuiltInv, IndexInv, Whole
  <1>3. /\ Joined(nodes, g, Len(nodes) + 1, lvl) /\ n = Len(nodes) + 1
        /\ \A i \in 1 .. Len(nodes) : g[i] = nodes[i]
    <2>1. Joined(nodes, g, Len(nodes) + 1, lvl) /\ n = Len(nodes) + 1
      BY <1>1, <1>2, AppendNode
    <2>2. Fresh(NewNode(id, v, lvl), id, lvl)
      BY NewNodeOK
    <2>3. \A i \in 1 .. Len(nodes) : g[i] = nodes[i]
      BY <1>2, <2>2 DEF Fresh
    <2>4. QED BY <2>1, <2>3
  <1> HIDE DEF g, n
  <1>4. Sound(g, {}) /\ IdsDistinct(g) /\ Live(g) = Live(nodes) \cup {n}
    BY <1>3 DEF Joined
  <1>5. Live(g) = 1 .. n /\ n = Len(g)
    <2>1. 1 .. n = (1 .. Len(nodes)) \cup {n}
      BY <1>2, <1>3
    <2>2. QED BY <1>2, <1>4, <2>1 DEF Built, n
  <1>6. Few(g)
    <2>1. g \in Seq(Node) /\ Len(g) \in Nat
      BY <1>4 DEF Sound
    <2>2. Len(g) \in 0 .. Cardinality(Ids) /\ Cardinality(Ids) \in Nat
      BY <1>4, <2>1, LiveSize
    <2>3. QED BY <2>1, <2>2, HNSWGraphAssumption DEF Few, FewIds
  <1>7. Live(nodes') = 1 .. Len(nodes') /\ Connected(nodes')
    <2>1. CASE entry_point = NoEntry
      <3>1. Live(nodes) = {} /\ nodes' = g
        BY <1>1, <1>2, <2>1 DEF EntryOK
      <3>2. Len(nodes) = 0
        <4>1. 1 \notin 1 .. Len(nodes)
          BY <1>2, <3>1 DEF Built
        <4>2. QED BY <1>2, <4>1
      <3>3. n = 1
        BY <1>3, <3>2
      <3>4. Connected(g)
        <4>1. 1 .. Len(g) = {1}
          BY <1>5, <3>3
        <4>2. \A S \in SUBSET {1} : S # {} => S = {1}
          OBVIOUS
        <4>3. QED BY <4>1, <4>2, Zenon DEF Connected
      <3>5. QED BY <1>5, <3>1, <3>4
    <2>2. CASE entry_point # NoEntry
      <3> DEFINE w == Wire(g, n, entry_point, max_layer)
      <3>1. nodes' = w
        BY <1>1, <2>2
      <3>2. entry_point \in Live(nodes) /\ nodes[entry_point].max_layer <= max_layer
            /\ max_layer \in -1 .. TopLevel
        BY <1>2, <2>2 DEF EntryOK
      <3>3. entry_point \in 1 .. Len(nodes)
        BY <3>2 DEF Live
      <3>4. max_layer \in Nat
        <4>1. nodes[entry_point].max_layer \in Nat
          BY <1>2, <3>3, NodeFields
        <4>2. TopLevel \in Nat
          BY HNSWIndexAssumption
        <4>3. QED BY <3>2, <4>1, <4>2
      <3>5. Connected(w)
        <4>1. Len(g) = Len(nodes) + 1 /\ Live(g) = 1 .. Len(g)
          BY <1>3, <1>5
        <4>2. Connected(Wire(g, Len(g), entry_point, max_layer))
          BY <1>2, <1>3, <1>4, <1>6, <3>3, <3>4, <4>1, WireBuilds
        <4>3. QED BY <1>5, <4>2
      <3>6. SameNodes(g, w)
        <4>1. /\ n \in 1 .. Len(g) /\ entry_point \in 1 .. Len(g) /\ max_layer \in Int
          BY <1>2, <1>3, <1>5, <3>3, <3>4
        <4>2. QED BY <1>4, <4>1, WireSound
      <3> HIDE DEF w
      <3>7. Live(w) = Live(g) /\ Len(w) = Len(g)
        <4>1. Len(g) \in Nat
          BY <1>4 DEF Sound
        <4>2. QED BY <3>6, <4>1, SameNodesKeep DEF SameNodes
      <3>8. QED BY <1>5, <3>1, <3>5, <3>7
    <2>3. QED BY <2>1, <2>2
  <1>8. IndexInv'
    BY AddKeeps DEF BuiltInv
  <1>9. QED BY <1>1, <1>7, <1>8 DEF BuiltInv, Built

LEMMA BuiltInvariant == ASSUME FewIds PROVE Spec => []BuiltInv
  <1>1. Init => BuiltInv
    <2> SUFFICES ASSUME Init PROVE BuiltInv
      OBVIOUS
    <2>1. IndexInv /\ ~broken /\ saved = NoFile /\ nodes = <<>>
      BY InitIndex DEF Init
    <2>2. Len(nodes) = 0
      BY <2>1
    <2>3. Built(nodes)
      BY <2>2 DEF Built, Live, Connected
    <2>4. QED BY <2>1, <2>3 DEF BuiltInv
  <1>2. BuiltInv /\ [Next]_vars => BuiltInv'
    <2> SUFFICES ASSUME BuiltInv, [Next]_vars PROVE BuiltInv'
      OBVIOUS
    <2>0. /\ ~Files /\ ~Removes /\ ~Updates /\ saved = NoFile /\ ~saved.whole
          /\ Len(saved.nodes) = 0
      BY DEF FewIds, BuiltInv, NoFile
    <2>1. CASE \E id \in Ids, v \in Vecs, lvl \in 0 .. TopLevel : AddItem(id, v, lvl)
      BY <2>1, AddBuilds
    <2>2. CASE \E id \in Ids : Remove(id)
      BY <2>0, <2>2 DEF Remove
    <2>3. CASE \E id \in Ids, v \in Vecs, lvl \in 0 .. TopLevel : UpdateItem(id, v, lvl)
      BY <2>0, <2>3 DEF UpdateItem
    <2>4. CASE \E s \in Searchers : SearchCheck(s) \/ SearchRun(s) \/ SearchOutOfRange(s)
      <3>1. nodes' = nodes /\ saved' = saved /\ broken' = broken
        BY <2>4 DEF SearchCheck, SearchRun, SearchOutOfRange, graph
      <3>2. IndexInv'
        BY <2>4, SearchKeeps DEF BuiltInv
      <3>3. QED BY <3>1, <3>2 DEF BuiltInv
    <2>5. CASE Save
      BY <2>0, <2>5 DEF Save
    <2>6. CASE \E n \in 0 .. Len(saved.nodes) - 1 : Break(n)
      BY <2>0, <2>6 DEF Break
    <2>7. CASE Load
      BY <2>0, <2>7 DEF Load
    <2>8. CASE LoadFails
      BY <2>0, <2>8 DEF LoadFails
    <2>9. CASE UNCHANGED vars
      <3>1. /\ nodes' = nodes /\ entry_point' = entry_point /\ max_layer' = max_layer
            /\ active_count' = active_count /\ saved' = saved /\ broken' = broken
            /\ search' = search
        BY <2>9 DEF vars, graph
      <3>2. TypeOK'
        BY <3>1 DEF BuiltInv, IndexInv, TypeOK
      <3>3. IndexInv'
        BY <3>1, <3>2 DEF BuiltInv, IndexInv, FileOK
      <3>4. QED BY <3>1, <3>3 DEF BuiltInv
    <2>10. QED BY <2>1, <2>2, <2>3, <2>4, <2>5, <2>6, <2>7, <2>8, <2>9 DEF Next
  <1>3. QED BY <1>1, <1>2, PTL DEF Spec

\* An index built by add_item() alone, of no more than 2 M + 1 ids so that
\* prune_neighbors() is never called on layer 0, answers a query with a beam as
\* wide as the ids as an exhaustive scan would, filtered or not: layer 0 is in
\* one piece, and search_layer() leaves nothing of it out.
THEOREM BuiltIsExhaustive == ASSUME FewIds PROVE Spec => []SearchIsExhaustive
  <1>1. BuiltInv => SearchIsExhaustive
    <2> SUFFICES ASSUME BuiltInv, NEW q \in Vecs, NEW F \in SUBSET Ids,
                        entry_point # NoEntry
                 PROVE  Search(q, F) = Exhaustive(q, F)
      BY DEF SearchIsExhaustive
    <2> DEFINE ep == Descend(nodes, q, entry_point, Layers(max_layer, 1), F)
               ef == IF EfSearch > K THEN EfSearch ELSE K
               all == Sorted(nodes, q, Passing(nodes, F))
    <2>1. /\ Sound(nodes, {}) /\ IdsDistinct(nodes) /\ Built(nodes)
          /\ entry_point \in 1 .. Len(nodes) /\ q \in Nat /\ max_layer \in Int
      BY HNSWIndexAssumption DEF BuiltInv, IndexInv, Whole, EntryOK, Live
    <2>2. Layers(max_layer, 1) \in Seq(Nat)
      <3>1. Layers(max_layer, 1) \in Seq(1 .. max_layer)
        BY <2>1, LayersType
      <3>2. 1 .. max_layer \subseteq Nat
        BY <2>1
      <3>3. QED BY <3>1, <3>2, SeqOfMore
    <2>3. ep \in 1 .. Len(nodes)
      BY <2>1, <2>2, DescendInRange
    <2>4. ef \in Nat /\ Len(nodes) <= ef
      <3>1. nodes \in Seq(Node) /\ Len(nodes) \in Nat
        BY <2>1 DEF Sound
      <3>2. Len(nodes) \in 0 .. Cardinality(Ids) /\ Cardinality(Ids) \in Nat
        BY <2>1, <3>1, LiveSize
      <3>3. QED BY <3>1, <3>2, HNSWIndexAssumption DEF FewIds
    <2> HIDE DEF ep, ef
    <2>5. SearchLayer(nodes, q, ep, ef, 0, F) = all
      BY <2>1, <2>3, <2>4, SearchFindsAll DEF Built
    <2>6. Search(q, F) = [i \in 1 .. Len(TopK(all)) |-> nodes[TopK(all)[i]].id]
      BY <2>5 DEF Search, ep, ef
    <2>7. Exhaustive(q, F) = [i \in 1 .. Len(TopK(all)) |-> nodes[TopK(all)[i]].id]
      BY DEF Exhaustive, Passing
    <2>8. QED BY <2>6, <2>7
  <1>2. QED BY <1>1, BuiltInvariant, PTL
=============================================================================
