-------------------------- MODULE CollectionProofs --------------------------
(***************************************************************************)
(* Theorems about Collection and CollectionSearch for every set of ids,    *)
(* vectors and scalars, and every bound: what the three stores hold of an  *)
(* id agrees, also in the middle of a write, behind a failed fsync and     *)
(* behind a crash, and what filtered searches say follows from it.         *)
(***************************************************************************)
EXTENDS CollectionSearch, TLAPS

(***************************************************************************)
(* The value of an id in a history of writes                               *)
(***************************************************************************)
MaybeEntries == Entries \cup {NoEntry}

ValueIn(h, i, x) ==
  \/ /\ x = NoEntry
     /\ \A n \in 1 .. Len(h) : h[n].key # i
  \/ \E n \in 1 .. Len(h) :
       /\ h[n].key = i
       /\ h[n].val = x
       /\ \A m \in n + 1 .. Len(h) : h[m].key # i

LEMMA ViewIsValues ==
  ASSUME NEW v, NEW h
  PROVE  KV!IsView(v, h) <=> \A i \in Ids : ValueIn(h, i, v[i])
BY DEF KV!IsView, ValueIn

LEMMA ValueUnique ==
  ASSUME NEW h \in Seq(KV!WritesKV), NEW i, NEW x, NEW y,
         ValueIn(h, i, x), ValueIn(h, i, y)
  PROVE  x = y
<1>1. Len(h) \in Nat
  OBVIOUS
<1>2. ASSUME NEW n \in 1 .. Len(h), h[n].key = i, h[n].val = x,
             \A m \in n + 1 .. Len(h) : h[m].key # i,
             NEW p \in 1 .. Len(h), h[p].key = i, h[p].val = y,
             \A m \in p + 1 .. Len(h) : h[m].key # i
      PROVE  x = y
  <2>1. ~(n < p) /\ ~(p < n)
    BY <1>1, <1>2
  <2>2. n = p
    BY <1>1, <2>1
  <2> QED BY <1>2, <2>2
<1> QED BY <1>2 DEF ValueIn

LEMMA ValueAppend ==
  ASSUME NEW h \in Seq(KV!WritesKV), NEW w \in KV!WritesKV
  PROVE  /\ ValueIn(Append(h, w), w.key, w.val)
         /\ \A i, x : w.key # i => (ValueIn(Append(h, w), i, x) <=> ValueIn(h, i, x))
<1> DEFINE g == Append(h, w)
<1>1. /\ Len(h) \in Nat /\ Len(g) = Len(h) + 1 /\ g[Len(h) + 1] = w
      /\ \A n \in 1 .. Len(h) : g[n] = h[n]
  OBVIOUS
<1> HIDE DEF g
<1>2. ValueIn(g, w.key, w.val)
  <2>1. Len(h) + 1 \in 1 .. Len(g)
    BY <1>1
  <2>2. \A m \in Len(h) + 1 + 1 .. Len(g) : FALSE
    BY <1>1
  <2> QED BY <1>1, <2>1, <2>2 DEF ValueIn
<1>3. ASSUME NEW i, NEW x, w.key # i, ValueIn(h, i, x) PROVE ValueIn(g, i, x)
  <2>1. CASE x = NoEntry /\ \A n \in 1 .. Len(h) : h[n].key # i
    BY <1>1, <1>3, <2>1 DEF ValueIn
  <2>2. ASSUME NEW n \in 1 .. Len(h), h[n].key = i, h[n].val = x,
               \A m \in n + 1 .. Len(h) : h[m].key # i
        PROVE  ValueIn(g, i, x)
    <3>1. n \in 1 .. Len(g) /\ g[n] = h[n]
      BY <1>1
    <3>2. ASSUME NEW m \in n + 1 .. Len(g) PROVE g[m].key # i
      BY <1>1, <1>3, <2>2
    <3> QED BY <2>2, <3>1, <3>2 DEF ValueIn
  <2> QED BY <1>3, <2>1, <2>2 DEF ValueIn
<1>4. ASSUME NEW i, NEW x, w.key # i, ValueIn(g, i, x) PROVE ValueIn(h, i, x)
  <2>1. CASE x = NoEntry /\ \A n \in 1 .. Len(g) : g[n].key # i
    BY <1>1, <2>1 DEF ValueIn
  <2>2. ASSUME NEW n \in 1 .. Len(g), g[n].key = i, g[n].val = x,
               \A m \in n + 1 .. Len(g) : g[m].key # i
        PROVE  ValueIn(h, i, x)
    <3>1. n \in 1 .. Len(h) /\ g[n] = h[n]
      BY <1>1, <1>4, <2>2
    <3>2. ASSUME NEW m \in n + 1 .. Len(h) PROVE h[m].key # i
      BY <1>1, <2>2
    <3> QED BY <2>2, <3>1, <3>2 DEF ValueIn
  <2> QED BY <1>4, <2>1, <2>2 DEF ValueIn
<1> QED BY <1>2, <1>3, <1>4 DEF g

\* A history that loses no record of an id keeps its value.
LEMMA ValueCut ==
  ASSUME NEW h \in Seq(KV!WritesKV), NEW n \in 0 .. Len(h), NEW i, NEW x,
         ValueIn(h, i, x), \A m \in n + 1 .. Len(h) : h[m].key # i
  PROVE  ValueIn(SubSeq(h, 1, n), i, x)
<1> SUFFICES ASSUME NEW g, g = SubSeq(h, 1, n) PROVE ValueIn(g, i, x)
  OBVIOUS
<1>1. Len(h) \in Nat /\ Len(g) = n /\ \A m \in 1 .. n : g[m] = h[m]
  OBVIOUS
<1>2. CASE x = NoEntry /\ \A m \in 1 .. Len(h) : h[m].key # i
  <2>1. \A m \in 1 .. Len(g) : m \in 1 .. Len(h) /\ g[m] = h[m]
    BY <1>1
  <2> QED BY <1>2, <2>1 DEF ValueIn
<1>3. ASSUME NEW p \in 1 .. Len(h), h[p].key = i, h[p].val = x,
             \A m \in p + 1 .. Len(h) : h[m].key # i
      PROVE  ValueIn(g, i, x)
  <2>1. p \in 1 .. Len(g)
    BY <1>1, <1>3
  <2>2. \A m \in p + 1 .. Len(g) : g[m].key # i
    BY <1>1, <1>3
  <2> QED BY <1>1, <1>3, <2>1, <2>2 DEF ValueIn
<1>4. \/ x = NoEntry /\ \A m \in 1 .. Len(h) : h[m].key # i
      \/ \E p \in 1 .. Len(h) :
           /\ h[p].key = i /\ h[p].val = x
           /\ \A m \in p + 1 .. Len(h) : h[m].key # i
  BY DEF ValueIn
<1> QED BY <1>2, <1>3, <1>4

(***************************************************************************)
(* The inductive invariant                                                 *)
(***************************************************************************)
Serving == pc \notin {"down", "opening"}
Running == pc \in {"written", "stored", "indexed", "unfiltered"}

\* A write is running from its append until it returns, and only an update
\* takes two steps in the filter index.
OpRuns ==
  /\ op # NoOp <=> Running
  /\ pc = "unfiltered" => op.kind = "update"

\* The storage engine serves its history, and the running write is its last
\* record, fsynced once storage returned.
WriterInStep ==
  /\ up <=> Serving
  /\ up => KV!IsView(view, hist)
  /\ Running => view[op.id] = op.entry
  /\ pc \in {"stored", "indexed", "unfiltered"} => safe = Len(hist)

\* A crash may take away only records of ids in doubt or being written, and of
\* every other id the log holds what the caller was told.
ToldInLog ==
  /\ \A n \in safe + 1 .. Len(hist) : hist[n].key \in doubt \/ Writing(hist[n].key)
  /\ \A i \in Ids \ doubt : ~Writing(i) => ValueIn(hist, i, told[i])

\* What the two indexes hold of an id: nothing, or exactly the entry x.
NoBits(i) == \A s \in Scalars : i \notin bits[s]
BitsOf(i, x) == x # NoEntry /\ \A s \in Scalars : i \in bits[s] <=> s \in x.scalars
Forgotten(i) == i \notin all_ids /\ NoBits(i)
Exactly(i, x) ==
  IF x = NoEntry
  THEN index[i].st # "live" /\ Forgotten(i)
  ELSE index[i] = Live(x.vec) /\ i \in all_ids /\ BitsOf(i, x)

\* Every process opens the directory with the same dimension.
OneDim == \A d, e \in Dims : d = e

\* open() leaves an entry of another dimension out of the index.
Held(i, x) == Exactly(i, x) \/ (~OneDim /\ index[i] = Absent)
LogHeld ==
  \A i \in Ids \ apart, x \in MaybeEntries :
    ~Writing(i) /\ ValueIn(hist, i, x) => Held(i, x)

Fresh ==
  /\ index = [i \in Ids |-> Absent]
  /\ all_ids = {}
  /\ \A s \in Scalars : bits[s] = {}

\* The two indexes agree with the log about every id that no write is at work
\* on, unless a process has just started.
MemoryInStep ==
  /\ pc = "down" => Fresh /\ apart = {}
  /\ pc = "opening" => Fresh \/ LogHeld
  /\ Serving => LogHeld
  /\ \A i \in Ids : index[i] = Absent => Forgotten(i)
  /\ \A s \in Scalars : bits[s] # {} => s.name \in fields

\* How far the running write has come.
WriteProgress ==
  /\ pc \in {"written", "stored"} /\ op.kind = "add" => index[op.id] = Absent
  /\ pc = "indexed" =>
       /\ op.kind = "remove" => index[op.id].st # "live"
       /\ op.kind # "remove" => index[op.id] = Live(op.entry.vec)
       /\ op.kind = "add" => Forgotten(op.id)
  /\ pc = "unfiltered" => index[op.id] = Live(op.entry.vec) /\ Forgotten(op.id)
  /\ Running /\ op.id \notin doubt => NoBits(op.id) \/ BitsOf(op.id, told[op.id])

CollectionInv ==
  TypeOK /\ OpRuns /\ WriterInStep /\ ToldInLog /\ MemoryInStep /\ WriteProgress

(***************************************************************************)
(* Type correctness                                                        *)
(***************************************************************************)
LEMMA EntryTypes ==
  /\ \A e \in Entries : e.vec \in Vecs /\ e.scalars \subseteq Scalars /\ e # NoEntry
  /\ \A v \in Vecs : Live(v) \in Items /\ Live(v) # Absent /\ Live(v).st = "live"
  /\ Absent \in Items /\ Absent.st # "live"
  /\ \A s \in Scalars : s.name \in Fields
<1>1. \A e \in Entries : e.vec \in Vecs /\ e.scalars \subseteq Scalars /\ e # NoEntry
  BY CollectionAssumption DEF Entries, ScalarLists
<1>2. \A v \in Vecs : Live(v) \in Items /\ Live(v) # Absent /\ Live(v).st = "live"
  BY DEF Live, Absent, Items
<1>3. Absent \in Items /\ Absent.st # "live"
  BY DEF Absent, Items
<1> QED BY <1>1, <1>2, <1>3 DEF Scalars

LEMMA OpTypes ==
  ASSUME TypeOK, op # NoOp
  PROVE  /\ op.id \in Ids /\ op.kind \in {"add", "update", "remove"}
         /\ op.kind = "remove" => op.entry = NoEntry
         /\ op.kind # "remove" => op.entry \in Entries
BY DEF TypeOK, WriteOps

LEMMA BuriedType ==
  \A item \in Items : Buried(item) \in Items /\ Buried(item).st # "live"
                     /\ (Buried(item) = Absent <=> item = Absent)
BY DEF Items, Buried, Absent

\* The steps of the storage engine keep its types.
KVTypeOK ==
  /\ hist \in Seq(KV!WritesKV) /\ Len(hist) <= MaxWrites
  /\ safe \in 0 .. Len(hist) /\ acked \in 0 .. Len(hist) /\ up \in BOOLEAN
  /\ view \in KV!Views

LEMMA KVStopType == KVTypeOK /\ KV!Stop => KVTypeOK'
<1> SUFFICES ASSUME KVTypeOK, KV!Stop PROVE KVTypeOK'
  OBVIOUS
<1>1. PICK n \in safe .. Len(hist) :
        hist' = SubSeq(hist, 1, n) /\ acked' = IF acked > n THEN n ELSE acked
  BY DEF KV!Stop
<1>2. Len(hist) \in Nat /\ n \in 0 .. Len(hist)
  BY DEF KVTypeOK
<1>3. hist' \in Seq(KV!WritesKV) /\ Len(hist') = n
  BY <1>1, <1>2 DEF KVTypeOK
<1>4. view' \in KV!Views /\ up' \in BOOLEAN /\ safe' = safe
  BY DEF KV!Stop, KV!Views, KV!NothingServed
<1> QED BY <1>1, <1>2, <1>3, <1>4, CollectionAssumption DEF KVTypeOK

LEMMA KVWriteType ==
  ASSUME KVTypeOK, NEW w \in KV!WritesKV, KV!Write(w)
  PROVE  KVTypeOK'
<1>1. hist' \in Seq(KV!WritesKV) /\ Len(hist') = Len(hist) + 1 /\ Len(hist) \in Nat
  BY DEF KVTypeOK, KV!Write
<1>2. view' \in KV!Views
  BY DEF KVTypeOK, KV!Write, KV!Views, KV!WritesKV
<1> QED BY <1>1, <1>2, CollectionAssumption DEF KVTypeOK, KV!Write

LEMMA KVOtherType ==
  KVTypeOK /\ (KV!Acknowledge \/ KV!Sync \/ KV!Start \/ UNCHANGED kvVars) => KVTypeOK'
<1> SUFFICES ASSUME KVTypeOK, KV!Acknowledge \/ KV!Sync \/ KV!Start \/ UNCHANGED kvVars
             PROVE  KVTypeOK'
  OBVIOUS
<1>1. hist' = hist /\ Len(hist) \in Nat /\ view' \in KV!Views
  BY DEF KVTypeOK, KV!Acknowledge, KV!Sync, KV!Start, kvVars
<1>a. up' \in BOOLEAN
  BY Zenon DEF KVTypeOK, KV!Acknowledge, KV!Sync, KV!Start, kvVars
<1>2. safe' \in {safe, Len(hist)} /\ acked' \in {acked, Len(hist)}
  BY DEF KV!Acknowledge, KV!Sync, KV!Start, kvVars
<1> QED BY <1>1, <1>a, <1>2 DEF KVTypeOK

LEMMA TypeInit == Init => TypeOK
<1> SUFFICES ASSUME Init PROVE TypeOK
  OBVIOUS
<1>1. hist \in Seq(KV!WritesKV) /\ Len(hist) \in 0 .. 1
  <2>1. CASE hist = <<>>
    BY <2>1
  <2>2. ASSUME NEW w \in KV!WritesKV, hist = <<w>>
        PROVE  hist \in Seq(KV!WritesKV) /\ Len(hist) \in 0 .. 1
    BY <2>2
  <2> QED BY <2>1, <2>2 DEF Init, KV!Init
<1>2. KVTypeOK
  <2>1. view \in KV!Views
    BY DEF Init, KV!Init, KV!Views, KV!NothingServed
  <2>2. safe = Len(hist) /\ acked = Len(hist) /\ up \in BOOLEAN
    BY DEF Init, KV!Init
  <2> QED BY <1>1, <2>1, <2>2, CollectionAssumption DEF KVTypeOK
<1>3. FilterTypeOK
  BY DEF Init, FilterInit, FilterTypeOK
<1>4. index \in [Ids -> Items]
  BY EntryTypes DEF Init
<1> QED BY <1>2, <1>3, <1>4 DEF Init, TypeOK, KVTypeOK

LEMMA TypeNext == TypeOK /\ OpRuns /\ [Next]_vars => TypeOK'
<1> SUFFICES ASSUME TypeOK, OpRuns, [Next]_vars PROVE TypeOK'
  OBVIOUS
<1>0. KVTypeOK /\ FilterTypeOK
  BY DEF TypeOK, KVTypeOK
<1>a. ASSUME KVTypeOK', FilterTypeOK', UNCHANGED <<index, told, doubt, apart>>,
             dim' \in Dims, op' \in {NoOp} \cup WriteOps,
             pc' \in {"opening", "ready", "written", "stored", "unfiltered"}
      PROVE  TypeOK'
  BY <1>a DEF TypeOK, KVTypeOK
<1>b. UNCHANGED filterVars => FilterTypeOK'
  BY <1>0 DEF FilterTypeOK, filterVars
<1>1. CASE OpenStorage
  <2>1. KVTypeOK'
    BY <1>0, <1>1, KVStopType DEF OpenStorage
  <2> QED BY <1>1, <1>a, <1>b, <2>1 DEF OpenStorage, histVars, TypeOK
<1>2. CASE OpenVisit
  <2>1. KVTypeOK'
    BY <1>0, <1>2, KVOtherType DEF OpenVisit
  <2>2. PICK V \in Visited(view') :
          /\ index' = [i \in Ids |-> IF i \in V THEN Live(view'[i].vec) ELSE index[i]]
          /\ fields' = fields \cup UNION {{s.name : s \in view'[i].scalars} : i \in V}
          /\ bits' = [s \in Scalars |-> bits[s] \cup {i \in V : s \in view'[i].scalars}]
          /\ all_ids' = all_ids \cup V
          /\ scalars' = [i \in Ids |-> IF i \in V THEN view'[i].scalars ELSE scalars[i]]
    BY <1>2 DEF OpenVisit
  <2>3. V \subseteq LiveIn(view') /\ V \subseteq Ids
    BY <2>2 DEF Visited, LiveIn, RefusedBy
  <2>4. \A i \in V : view'[i] \in Entries
    BY <2>1, <2>3 DEF LiveIn, KVTypeOK, KV!Views
  <2>5. index' \in [Ids -> Items]
    BY <2>2, <2>4, EntryTypes DEF TypeOK
  <2>6. fields' \subseteq Fields
    BY <1>0, <2>2, <2>4, EntryTypes DEF FilterTypeOK
  <2>7. bits' \in [Scalars -> SUBSET Ids] /\ all_ids' \subseteq Ids
    BY <1>0, <2>2, <2>3 DEF FilterTypeOK
  <2>8. scalars' \in [Ids -> SUBSET Scalars]
    BY <1>0, <2>2, <2>4, EntryTypes DEF FilterTypeOK
  <2>9. pc' = "ready" /\ UNCHANGED <<dim, op, histVars>>
    BY <1>2 DEF OpenVisit
  <2> QED BY <2>1, <2>5, <2>6, <2>7, <2>8, <2>9
          DEF TypeOK, KVTypeOK, FilterTypeOK, histVars
<1>3. ASSUME NEW kind, NEW i \in Ids, NEW e, Begin(kind, i, e),
             [kind |-> kind, id |-> i, entry |-> e] \in WriteOps
      PROVE  TypeOK'
  <2>1. [key |-> i, val |-> e] \in KV!WritesKV
    BY <1>3 DEF WriteOps, KV!WritesKV
  <2>2. KVTypeOK'
    BY <1>0, <1>3, <2>1, KVWriteType DEF Begin
  <2> QED BY <1>3, <1>a, <1>b, <2>2 DEF Begin, histVars, TypeOK
<1>4. ASSUME NEW i \in Ids, NEW e \in Entries, Add(i, e) \/ Update(i, e) PROVE TypeOK'
  BY <1>3, <1>4 DEF Add, Update, WriteOps
<1>5. ASSUME NEW i \in Ids, Remove(i) PROVE TypeOK'
  BY <1>3, <1>5 DEF Remove, WriteOps
<1>6. CASE StorageReturns
  <2>1. KVTypeOK'
    BY <1>0, <1>6, KVOtherType DEF StorageReturns, Stored
  <2> QED BY <1>6, <1>a, <1>b, <2>1 DEF StorageReturns, histVars, TypeOK
<1>7. CASE StorageFails
  <2>1. KVTypeOK' /\ FilterTypeOK'
    BY <1>0, <1>7, <1>b, KVOtherType DEF StorageFails
  <2>2. op # NoOp
    BY <1>7 DEF StorageFails, OpRuns, Running
  <2> QED BY <1>7, <2>1, <2>2, OpTypes DEF StorageFails, TypeOK, KVTypeOK
<1>8. CASE IndexWritten
  <2>1. op # NoOp
    BY <1>8 DEF IndexWritten, OpRuns, Running
  <2>2. index' \in [Ids -> Items]
    BY <1>8, <2>1, OpTypes, EntryTypes, BuriedType DEF IndexWritten, TypeOK
  <2>3. KVTypeOK' /\ FilterTypeOK'
    BY <1>0, <1>8, <1>b, KVOtherType DEF IndexWritten
  <2> QED BY <1>8, <2>2, <2>3 DEF IndexWritten, TypeOK, KVTypeOK, histVars
<1>9. ASSUME op # NoOp, FilterTypeOK', Return, UNCHANGED <<kvVars, index, dim>>
      PROVE  TypeOK'
  <2>1. KVTypeOK'
    BY <1>0, <1>9, KVOtherType
  <2>2. told' \in KV!Views
    BY <1>9, OpTypes DEF Return, TypeOK, KV!Views
  <2>3. doubt' \subseteq Ids /\ apart' \subseteq doubt' /\ op' = NoOp /\ pc' = "ready"
    BY <1>9 DEF Return, TypeOK
  <2> QED BY <1>9, <2>1, <2>2, <2>3 DEF TypeOK, KVTypeOK
<1>10. CASE AddFilter
  <2>1. op # NoOp
    BY <1>10 DEF AddFilter, OpRuns, Running
  <2>2. op.entry.scalars \subseteq Scalars /\ op.id \in Ids
    BY <1>10, <2>1, OpTypes, EntryTypes DEF AddFilter, OpRuns
  <2>3. FilterTypeOK'
    BY <1>0, <1>10, <2>2, EntryTypes DEF AddFilter, FilterAdd, FilterTypeOK
  <2> QED BY <1>9, <1>10, <2>1, <2>3 DEF AddFilter
<1>11. ASSUME op # NoOp, FilterRemove(op.id) PROVE FilterTypeOK'
  BY <1>0, <1>11, OpTypes DEF FilterRemove, BitsWithout, FilterTypeOK
<1>12. CASE UpdateFilter
  <2>1. op # NoOp /\ KVTypeOK'
    BY <1>0, <1>12, KVOtherType DEF UpdateFilter, OpRuns, Running
  <2> QED BY <1>11, <1>12, <1>a, <2>1 DEF UpdateFilter, DropOldScalars, histVars, TypeOK
<1>13. CASE RemoveFilter
  <2>1. op # NoOp
    BY <1>13 DEF RemoveFilter, OpRuns, Running
  <2> QED BY <1>9, <1>11, <1>13, <2>1 DEF RemoveFilter
<1>14. CASE Snapshot
  <2>1. KVTypeOK'
    BY <1>0, <1>14, KVOtherType DEF Snapshot
  <2> QED BY <1>14, <1>a, <1>b, <2>1 DEF Snapshot, histVars, TypeOK
<1>15. CASE Crash
  <2>1. KVTypeOK'
    BY <1>0, <1>15, KVStopType DEF Crash
  <2>2. FilterTypeOK'
    BY <1>15 DEF Crash, FilterTypeOK
  <2>3. index' \in [Ids -> Items]
    BY <1>15, EntryTypes DEF Crash
  <2>4. doubt' \subseteq Ids
    BY <1>15, OpTypes DEF Crash, TypeOK
  <2> QED BY <1>15, <2>1, <2>2, <2>3, <2>4 DEF Crash, TypeOK, KVTypeOK
<1>16. CASE UNCHANGED vars
  <2>1. KVTypeOK' /\ FilterTypeOK'
    BY <1>0, <1>16, <1>b, KVOtherType DEF vars
  <2> QED BY <1>16, <2>1 DEF vars, histVars, TypeOK, KVTypeOK
<1> QED
  BY <1>1, <1>2, <1>4, <1>5, <1>6, <1>7, <1>8, <1>10, <1>12, <1>13, <1>14, <1>15,
     <1>16
  DEF Next, FreeStep, LockedStep

LEMMA OpRunsNext == TypeOK /\ OpRuns /\ [Next]_vars => OpRuns'
<1> SUFFICES ASSUME TypeOK, OpRuns, [Next]_vars PROVE OpRuns'
  OBVIOUS
<1> USE DEF OpRuns, Running
<1>1. ASSUME NEW i \in Ids, NEW e \in Entries, Add(i, e) \/ Update(i, e) PROVE OpRuns'
  <2>1. op' \in WriteOps /\ pc' = "written"
    BY <1>1 DEF Add, Update, Begin, WriteOps
  <2> QED BY <2>1, CollectionAssumption
<1>2. ASSUME NEW i \in Ids, Remove(i) PROVE OpRuns'
  <2>1. op' \in WriteOps /\ pc' = "written"
    BY <1>2 DEF Remove, Begin, WriteOps
  <2> QED BY <2>1, CollectionAssumption
<1> QED
  BY <1>1, <1>2
  DEF Next, FreeStep, LockedStep, OpenStorage, OpenVisit, StorageReturns, StorageFails,
      IndexWritten, AddFilter, UpdateFilter, RemoveFilter, Return, Snapshot, Crash, vars

(***************************************************************************)
(* The log and what the caller was told                                    *)
(***************************************************************************)

\* The first step of a write, whichever call makes it.
LEMMA BeginFacts ==
  ASSUME TypeOK, NEW kind, NEW i \in Ids, NEW e \in MaybeEntries, Begin(kind, i, e)
  PROVE  /\ hist' = Append(hist, [key |-> i, val |-> e])
         /\ Len(hist') = Len(hist) + 1 /\ hist'[Len(hist) + 1].key = i
         /\ \A n \in 1 .. Len(hist) : hist'[n] = hist[n]
         /\ view'[i] = e
         /\ ValueIn(hist', i, e)
         /\ \A j \in Ids, x \in MaybeEntries :
              j # i => (ValueIn(hist', j, x) <=> ValueIn(hist, j, x))
         /\ \A j \in Ids : j # i => view'[j] = view[j]
         /\ view \in KV!Views
<1> DEFINE w == [key |-> i, val |-> e]
<1>1. w \in KV!WritesKV /\ hist \in Seq(KV!WritesKV) /\ w.key = i /\ w.val = e
  BY DEF MaybeEntries, KV!WritesKV, TypeOK
<1>2. hist' = Append(hist, w) /\ view' = [view EXCEPT ![w.key] = w.val] /\ view \in KV!Views
  BY DEF Begin, KV!Write, TypeOK
<1> HIDE DEF w
<1>3. /\ Len(hist') = Len(hist) + 1 /\ hist'[Len(hist) + 1] = w
      /\ \A n \in 1 .. Len(hist) : hist'[n] = hist[n]
  BY <1>1, <1>2
<1>4. /\ ValueIn(hist', i, e)
      /\ \A j \in Ids, x \in MaybeEntries :
           j # i => (ValueIn(hist', j, x) <=> ValueIn(hist, j, x))
  BY <1>1, <1>2, ValueAppend
<1>5. view'[i] = e /\ \A j \in Ids : j # i => view'[j] = view[j]
  BY <1>1, <1>2 DEF KV!Views
<1> QED BY <1>1, <1>2, <1>3, <1>4, <1>5 DEF w

\* Every write begins with Begin.
BeginStep ==
  \E kind \in {"add", "update", "remove"}, i \in Ids, e \in MaybeEntries :
    /\ Begin(kind, i, e)
    /\ kind = "add" => index[i] = Absent
    /\ kind = "remove" <=> e = NoEntry

LEMMA NextCases ==
  ASSUME [Next]_vars
  PROVE  \/ OpenStorage \/ OpenVisit \/ BeginStep \/ StorageReturns \/ StorageFails
         \/ IndexWritten \/ AddFilter \/ UpdateFilter \/ RemoveFilter \/ Snapshot
         \/ Crash \/ UNCHANGED vars
<1>1. ASSUME NEW i \in Ids, NEW e \in Entries, Add(i, e) \/ Update(i, e) PROVE BeginStep
  <2>1. e \in MaybeEntries /\ e # NoEntry
    BY EntryTypes DEF MaybeEntries
  <2> QED BY <1>1, <2>1 DEF BeginStep, Add, Update, Contains
<1>2. ASSUME NEW i \in Ids, Remove(i) PROVE BeginStep
  <2>1. NoEntry \in MaybeEntries
    BY DEF MaybeEntries
  <2> QED BY <1>2, <2>1 DEF BeginStep, Remove
<1> QED BY <1>1, <1>2 DEF Next, FreeStep, LockedStep

LEMMA WriterNext ==
  ASSUME TypeOK, OpRuns, WriterInStep, [Next]_vars
  PROVE  WriterInStep'
<1> USE DEF Serving, Running
<1>1. CASE OpenStorage \/ Crash
  BY <1>1 DEF OpenStorage, Crash, KV!Stop, WriterInStep
<1>2. CASE OpenVisit
  <2>1. pc' = "ready" /\ up' /\ hist' = hist /\ KV!IsView(view', hist)
    BY <1>2 DEF OpenVisit, KV!Start
  <2> QED BY <2>1 DEF WriterInStep
<1>3. ASSUME NEW kind \in {"add", "update", "remove"}, NEW i \in Ids,
             NEW e \in MaybeEntries, Begin(kind, i, e)
      PROVE  WriterInStep'
  <2>1. /\ pc' = "written" /\ up /\ up' = up /\ op'.id = i /\ op'.entry = e
    BY <1>3 DEF Begin, KV!Write
  <2>2. \A j \in Ids : ValueIn(hist, j, view[j])
    BY <2>1, ViewIsValues DEF WriterInStep
  <2>3. \A j \in Ids : view[j] \in MaybeEntries
    BY DEF TypeOK, KV!Views, MaybeEntries
  <2>4. ASSUME NEW j \in Ids PROVE ValueIn(hist', j, view'[j])
    <3>1. CASE j = i
      BY <1>3, <3>1, BeginFacts
    <3>2. CASE j # i
      <4>1. view'[j] = view[j] /\ (ValueIn(hist', j, view[j]) <=> ValueIn(hist, j, view[j]))
        BY <1>3, <2>3, <3>2, BeginFacts
      <4> QED BY <2>2, <4>1
    <3> QED BY <3>1, <3>2
  <2>5. KV!IsView(view', hist')
    BY <2>4, ViewIsValues
  <2> QED BY <1>3, <2>1, <2>5, BeginFacts DEF WriterInStep
<1>4. CASE StorageReturns
  <2>1. /\ pc = "written" /\ pc' = "stored" /\ op' = op /\ safe' = Len(hist)
        /\ UNCHANGED <<hist, up, view>>
    BY <1>4 DEF StorageReturns, Stored, KV!Acknowledge
  <2> QED BY <2>1 DEF WriterInStep
<1>5. CASE Snapshot
  <2>1. pc = "ready" /\ pc' = "ready" /\ UNCHANGED <<hist, up, view>>
    BY <1>5 DEF Snapshot, KV!Sync
  <2> QED BY <2>1 DEF WriterInStep
<1>6. CASE StorageFails \/ AddFilter \/ RemoveFilter
  <2>1. pc' = "ready" /\ UNCHANGED kvVars /\ pc \notin {"down", "opening"}
    BY <1>6 DEF StorageFails, AddFilter, RemoveFilter, Return
  <2> QED BY <2>1 DEF WriterInStep, kvVars
<1>7. CASE IndexWritten \/ UpdateFilter
  <2>1. /\ pc \in {"stored", "indexed"} /\ pc' \in {"indexed", "unfiltered"}
        /\ op' = op /\ UNCHANGED kvVars
    BY <1>7 DEF IndexWritten, UpdateFilter
  <2> QED BY <2>1 DEF WriterInStep, kvVars
<1>8. CASE UNCHANGED vars
  BY <1>8 DEF WriterInStep, vars, kvVars
<1> QED
  BY <1>1, <1>2, <1>3, <1>4, <1>5, <1>6, <1>7, <1>8, NextCases DEF BeginStep

LEMMA ToldNext ==
  ASSUME TypeOK, TypeOK', OpRuns, OpRuns', WriterInStep, ToldInLog, [Next]_vars
  PROVE  ToldInLog'
<1> USE DEF Running
<1>0. /\ hist \in Seq(KV!WritesKV) /\ Len(hist) \in Nat
      /\ safe \in 0 .. Len(hist) /\ doubt \subseteq Ids
  BY DEF TypeOK
<1>1. CASE OpenStorage
  <2>1. UNCHANGED <<hist, safe, op, told, doubt>>
    BY <1>1 DEF OpenStorage, KV!Stop, histVars
  <2> QED BY <2>1 DEF ToldInLog, Writing
<1>2. CASE Crash
  <2>1. PICK n \in safe .. Len(hist) : hist' = SubSeq(hist, 1, n)
    BY <1>2 DEF Crash, KV!Stop
  <2>2. /\ n \in 0 .. Len(hist) /\ safe' = safe /\ told' = told /\ op' = NoOp
        /\ doubt' = IF op = NoOp THEN doubt ELSE doubt \cup {op.id}
    BY <1>0, <1>2, <2>1 DEF Crash, KV!Stop
  <2>3. \A j : j \in doubt \/ Writing(j) => j \in doubt'
    BY <2>2 DEF Writing
  <2>4. Len(hist') = n /\ \A m \in 1 .. n : hist'[m] = hist[m]
    BY <1>0, <2>1, <2>2
  <2>5. \A m \in safe + 1 .. Len(hist) : hist[m].key \in doubt'
    BY <2>3 DEF ToldInLog
  <2>6. \A m \in safe' + 1 .. Len(hist') : hist'[m].key \in doubt'
    BY <1>0, <2>2, <2>4, <2>5
  <2>7. ASSUME NEW i \in Ids \ doubt' PROVE ValueIn(hist', i, told'[i])
    <3>1. i \notin doubt /\ ~Writing(i)
      BY <2>3, <2>7
    <3>2. ValueIn(hist, i, told[i])
      BY <3>1 DEF ToldInLog
    <3>3. \A m \in n + 1 .. Len(hist) : hist[m].key # i
      BY <1>0, <2>5, <2>7
    <3> QED BY <1>0, <2>1, <2>2, <3>2, <3>3, ValueCut
  <2> QED BY <2>6, <2>7 DEF ToldInLog
<1>3. ASSUME NEW kind \in {"add", "update", "remove"}, NEW i \in Ids,
             NEW e \in MaybeEntries, Begin(kind, i, e)
      PROVE  ToldInLog'
  <2>1. /\ op = NoOp /\ op' # NoOp /\ op'.id = i /\ safe' = safe
        /\ told' = told /\ doubt' = doubt
    BY <1>3 DEF Begin, KV!Write, OpRuns, histVars
  <2>2. /\ Len(hist') = Len(hist) + 1 /\ hist'[Len(hist) + 1].key = i
        /\ \A n \in 1 .. Len(hist) : hist'[n] = hist[n]
    BY <1>3, BeginFacts
  <2>3. \A j : ~Writing(j)
    BY <2>1 DEF Writing
  <2>4. ASSUME NEW n \in safe' + 1 .. Len(hist')
        PROVE  hist'[n].key \in doubt' \/ hist'[n].key = i
    <3>1. CASE n = Len(hist) + 1
      BY <2>2, <3>1
    <3>2. CASE n # Len(hist) + 1
      <4>1. n \in safe + 1 .. Len(hist) /\ n \in 1 .. Len(hist)
        BY <1>0, <2>1, <2>2, <3>2
      <4>2. hist'[n] = hist[n]
        BY <2>2, <4>1
      <4> QED BY <2>1, <2>3, <4>1, <4>2 DEF ToldInLog
    <3> QED BY <3>1, <3>2
  <2>5. ASSUME NEW j \in Ids \ doubt', j # i PROVE ValueIn(hist', j, told'[j])
    <3>1. ValueIn(hist, j, told[j]) /\ told[j] \in MaybeEntries
      BY <2>1, <2>3 DEF ToldInLog, TypeOK, KV!Views, MaybeEntries
    <3>2. ValueIn(hist', j, told[j]) <=> ValueIn(hist, j, told[j])
      BY <1>3, <2>5, <3>1, BeginFacts
    <3> QED BY <2>1, <3>1, <3>2
  <2> QED BY <2>1, <2>4, <2>5 DEF ToldInLog, Writing
<1>4. CASE OpenVisit \/ StorageReturns \/ Snapshot
  <2>1. UNCHANGED <<hist, op, told, doubt>> /\ safe' \in {safe, Len(hist)}
    BY <1>4 DEF OpenVisit, StorageReturns, Stored, Snapshot, KV!Start, KV!Acknowledge,
                KV!Sync, histVars
  <2>2. ASSUME NEW n \in safe' + 1 .. Len(hist) PROVE n \in safe + 1 .. Len(hist)
    <3>1. CASE safe' = safe
      BY <3>1
    <3>2. CASE safe' = Len(hist)
      BY <1>0, <3>2
    <3> QED BY <2>1, <3>1, <3>2
  <2> QED BY <2>1, <2>2 DEF ToldInLog, Writing
<1>5. CASE StorageFails
  <2>1. UNCHANGED <<hist, safe, told>> /\ op' = NoOp /\ doubt' = doubt \cup {op.id}
    BY <1>5 DEF StorageFails, kvVars
  <2>2. \A j : j \in doubt \/ Writing(j) => j \in doubt'
    BY <2>1 DEF Writing
  <2>3. op # NoOp
    BY <1>5 DEF StorageFails, OpRuns
  <2>4. \A j : j \notin doubt' => j \notin doubt /\ ~Writing(j)
    BY <2>2
  <2> QED BY <2>1, <2>2, <2>4 DEF ToldInLog
<1>6. CASE AddFilter \/ RemoveFilter
  <2>1. /\ UNCHANGED <<hist, safe>> /\ told' = [told EXCEPT ![op.id] = op.entry]
        /\ doubt' = doubt \ {op.id} /\ pc \in {"indexed", "unfiltered"}
    BY <1>6 DEF AddFilter, RemoveFilter, Return, kvVars
  <2>2. /\ safe = Len(hist) /\ op # NoOp /\ op.id \in Ids
        /\ ValueIn(hist, op.id, op.entry)
    BY <2>1, OpTypes, ViewIsValues DEF WriterInStep, OpRuns, Serving
  <2>3. \A n \in safe' + 1 .. Len(hist') : FALSE
    BY <1>0, <2>1, <2>2
  <2>4. told \in [Ids -> MaybeEntries]
    BY DEF TypeOK, KV!Views, MaybeEntries
  <2>5. ASSUME NEW j \in Ids \ doubt' PROVE ValueIn(hist', j, told'[j])
    <3>1. CASE j = op.id
      BY <2>1, <2>2, <2>4, <3>1
    <3>2. CASE j # op.id
      BY <2>1, <2>4, <2>5, <3>2 DEF ToldInLog, Writing
    <3> QED BY <3>1, <3>2
  <2> QED BY <2>3, <2>5 DEF ToldInLog
<1>7. CASE IndexWritten \/ UpdateFilter \/ UNCHANGED vars
  <2>1. UNCHANGED <<hist, safe, told, doubt, op>>
    BY <1>7 DEF IndexWritten, UpdateFilter, vars, kvVars, histVars
  <2> QED BY <2>1 DEF ToldInLog, Writing
<1> QED
  BY <1>1, <1>2, <1>3, <1>4, <1>5, <1>6, <1>7, NextCases DEF BeginStep

(***************************************************************************)
(* The two indexes                                                         *)
(***************************************************************************)
AbsentClean == \A i \in Ids : index[i] = Absent => Forgotten(i)
FieldsKnown == \A s \in Scalars : bits[s] # {} => s.name \in fields

LEMMA SameMemory ==
  ASSUME UNCHANGED <<filterVars, index, hist, op, apart>>
  PROVE  /\ LogHeld' <=> LogHeld
         /\ Fresh' <=> Fresh
         /\ AbsentClean' <=> AbsentClean
         /\ FieldsKnown' <=> FieldsKnown
BY DEF filterVars, LogHeld, Fresh, AbsentClean, FieldsKnown, Writing, Held, Exactly,
       BitsOf, Forgotten, NoBits

\* Ids that a step does not touch are held as before.
LEMMA SameId ==
  ASSUME NEW i \in Ids, index'[i] = index[i], i \in all_ids' <=> i \in all_ids,
         \A s \in Scalars : i \in bits'[s] <=> i \in bits[s]
  PROVE  /\ \A x : Held(i, x)' <=> Held(i, x)
         /\ Forgotten(i)' <=> Forgotten(i)
         /\ NoBits(i)' <=> NoBits(i)
         /\ \A x : BitsOf(i, x)' <=> BitsOf(i, x)
BY DEF Held, Exactly, BitsOf, Forgotten, NoBits

LEMMA VisitKeeps ==
  ASSUME CollectionInv, TypeOK', OpenVisit
  PROVE  LogHeld' /\ AbsentClean' /\ FieldsKnown'
<1>1. /\ pc = "opening" /\ pc' = "ready" /\ op' = op /\ op = NoOp /\ hist' = hist
      /\ apart' = apart /\ KV!IsView(view', hist)
  BY DEF OpenVisit, KV!Start, CollectionInv, OpRuns, Running, histVars
<1>2. PICK V \in Visited(view') :
        /\ index' = [i \in Ids |-> IF i \in V THEN Live(view'[i].vec) ELSE index[i]]
        /\ fields' = fields \cup UNION {{s.name : s \in view'[i].scalars} : i \in V}
        /\ bits' = [s \in Scalars |-> bits[s] \cup {i \in V : s \in view'[i].scalars}]
        /\ all_ids' = all_ids \cup V
  BY DEF OpenVisit
<1>3. /\ V \subseteq LiveIn(view') /\ V \subseteq Ids
      /\ RefusedBy(view') = {} => V = LiveIn(view')
      /\ V \cap RefusedBy(view') = {}
  BY <1>2 DEF Visited, LiveIn, RefusedBy
<1>4. \A i \in V : view'[i] \in Entries /\ view'[i] # NoEntry /\ index[i] = Absent
  BY <1>3 DEF LiveIn, RefusedBy, AddItemFails, TypeOK, KV!Views
<1>5. FieldsKnown /\ AbsentClean /\ (Fresh \/ LogHeld) /\ hist \in Seq(KV!WritesKV)
  BY <1>1 DEF CollectionInv, MemoryInStep, FieldsKnown, AbsentClean, TypeOK
<1>6. ASSUME NEW i \in V, NEW x, x = view'[i] PROVE Exactly(i, x)' /\ index'[i] # Absent
  <2>1. Forgotten(i) /\ i \in Ids
    BY <1>3, <1>4, <1>5 DEF AbsentClean
  <2>2. index'[i] = Live(view'[i].vec) /\ i \in all_ids'
    BY <1>2, <1>3
  <2>3. \A s \in Scalars : i \in bits'[s] <=> s \in view'[i].scalars
    BY <1>2, <2>1 DEF Forgotten, NoBits
  <2>4. index'[i] # Absent
    BY <1>4, <2>2, EntryTypes
  <2> QED BY <1>4, <1>6, <2>2, <2>3, <2>4 DEF Exactly, BitsOf
<1>7. ASSUME NEW i \in Ids \ V
      PROVE  /\ index'[i] = index[i]
             /\ i \in all_ids' <=> i \in all_ids
             /\ \A s \in Scalars : i \in bits'[s] <=> i \in bits[s]
  BY <1>2
<1>8. ASSUME NEW i \in Ids \ apart, NEW x \in MaybeEntries, ValueIn(hist, i, x)
      PROVE  Held(i, x)'
  <2>1. x = view'[i]
    BY <1>1, <1>5, <1>8, ViewIsValues, ValueUnique
  <2>2. CASE i \in V
    BY <1>6, <2>1, <2>2 DEF Held
  <2>3. CASE i \notin V /\ LogHeld
    <3>1. Held(i, x)
      BY <1>1, <1>8, <2>3 DEF LogHeld, Writing
    <3> QED BY <1>7, <2>3, <3>1, SameId
  <2>4. CASE i \notin V /\ Fresh
    <3>1. index'[i] = Absent /\ Forgotten(i)'
      BY <1>7, <2>4, <1>5 DEF Fresh, Forgotten, NoBits
    <3>2. CASE ~OneDim
      BY <3>1, <3>2 DEF Held
    <3>3. CASE OneDim
      <4>1. RefusedBy(view') = {}
        <5> SUFFICES ASSUME NEW j \in LiveIn(view') PROVE ~AddItemFails(j, view')
          BY DEF RefusedBy
        <5>1. j \in Ids /\ view'[j] \in Entries /\ index[j] = Absent
          BY <2>4 DEF LiveIn, TypeOK, KV!Views, Fresh
        <5>2. view'[j].vec.dim \in Dims /\ dim \in Dims
          BY <5>1 DEF Entries, Vecs, CollectionInv, TypeOK
        <5> QED BY <3>3, <5>1, <5>2 DEF AddItemFails, OneDim
      <4>2. x = NoEntry
        BY <1>3, <2>1, <2>4, <4>1 DEF LiveIn
      <4> QED BY <3>1, <4>2, EntryTypes DEF Held, Exactly
    <3> QED BY <3>2, <3>3
  <2> QED BY <1>5, <2>2, <2>3, <2>4
<1>9. LogHeld'
  BY <1>1, <1>8 DEF LogHeld, Writing
<1>10. AbsentClean'
  <2> SUFFICES ASSUME NEW i \in Ids, index'[i] = Absent PROVE Forgotten(i)'
    BY DEF AbsentClean
  <2>1. i \notin V
    BY <1>6
  <2> QED BY <1>5, <1>7, <2>1, SameId DEF AbsentClean
<1>11. FieldsKnown'
  <2> SUFFICES ASSUME NEW s \in Scalars, bits'[s] # {} PROVE s.name \in fields'
    BY DEF FieldsKnown
  <2>1. CASE bits[s] # {}
    BY <1>2, <1>5, <2>1 DEF FieldsKnown
  <2>2. CASE bits[s] = {}
    <3>1. PICK i \in V : s \in view'[i].scalars
      BY <1>2, <2>2
    <3> QED BY <1>2, <3>1
  <2> QED BY <2>1, <2>2
<1> QED BY <1>9, <1>10, <1>11

\* A step of the running write touches its own id at most.
LEMMA OtherIdsKeep ==
  ASSUME CollectionInv, op # NoOp, Serving, hist' = hist, NEW k \in Ids, k = op.id,
         apart' \in {apart, apart \ {k}}, op' \in {op, NoOp},
         fields \subseteq fields',
         \A i \in Ids \ {k} :
           /\ index'[i] = index[i]
           /\ i \in all_ids' <=> i \in all_ids
           /\ \A s \in Scalars : i \in bits'[s] <=> i \in bits[s],
         op' = NoOp => \A x \in MaybeEntries : ValueIn(hist, k, x) => Held(k, x)',
         index'[k] = Absent => Forgotten(k)',
         \A s \in Scalars : k \in bits'[s] => s.name \in fields',
         bits \in [Scalars -> SUBSET Ids], bits' \in [Scalars -> SUBSET Ids]
  PROVE  LogHeld' /\ AbsentClean' /\ FieldsKnown'
<1>0. LogHeld /\ AbsentClean /\ FieldsKnown
  BY DEF CollectionInv, MemoryInStep, AbsentClean, FieldsKnown
<1>1. ASSUME NEW i \in Ids \ apart', NEW x \in MaybeEntries,
             ~(op' # NoOp /\ op'.id = i), ValueIn(hist, i, x)
      PROVE  Held(i, x)'
  <2>1. CASE i = k
    BY <1>1, <2>1
  <2>2. CASE i # k
    <3>1. i \notin apart /\ ~Writing(i)
      BY <1>1, <2>2 DEF Writing
    <3>2. Held(i, x)
      BY <1>0, <1>1, <3>1 DEF LogHeld
    <3> QED BY <2>2, <3>2, SameId
  <2> QED BY <2>1, <2>2
<1>2. LogHeld'
  BY <1>1 DEF LogHeld, Writing
<1>3. AbsentClean'
  <2> SUFFICES ASSUME NEW i \in Ids, index'[i] = Absent PROVE Forgotten(i)'
    BY DEF AbsentClean
  <2>1. CASE i = k
    BY <2>1
  <2>2. CASE i # k
    BY <1>0, <2>2, SameId DEF AbsentClean
  <2> QED BY <2>1, <2>2
<1>4. FieldsKnown'
  <2> SUFFICES ASSUME NEW s \in Scalars, NEW i \in Ids, i \in bits'[s]
               PROVE  s.name \in fields'
    BY DEF FieldsKnown
  <2>1. CASE i = k
    BY <2>1
  <2>2. CASE i # k
    BY <1>0, <2>2 DEF FieldsKnown
  <2> QED BY <2>1, <2>2
<1> QED BY <1>2, <1>3, <1>4

LEMMA RunningFacts ==
  ASSUME CollectionInv, Running
  PROVE  /\ op # NoOp /\ Serving /\ op.id \in Ids
         /\ op.kind \in {"add", "update", "remove"}
         /\ op.kind = "remove" => op.entry = NoEntry
         /\ op.kind # "remove" => /\ op.entry \in Entries /\ op.entry # NoEntry
                                  /\ op.entry.vec \in Vecs
                                  /\ op.entry.scalars \subseteq Scalars
         /\ \A x : ValueIn(hist, op.id, x) => x = op.entry
         /\ index \in [Ids -> Items] /\ FilterTypeOK
<1>1. op # NoOp /\ Serving /\ TypeOK
  BY DEF CollectionInv, OpRuns, Running, Serving
<1>2. ValueIn(hist, op.id, op.entry)
  BY <1>1, OpTypes, ViewIsValues DEF CollectionInv, WriterInStep
<1>3. \A x : ValueIn(hist, op.id, x) => x = op.entry
  BY <1>1, <1>2, ValueUnique DEF TypeOK
<1> QED BY <1>1, <1>3, OpTypes, EntryTypes DEF TypeOK

LEMMA BeginMemory ==
  ASSUME CollectionInv, OpRuns', NEW kind \in {"add", "update", "remove"}, NEW i \in Ids,
         NEW e \in MaybeEntries, Begin(kind, i, e), kind = "add" => index[i] = Absent
  PROVE  MemoryInStep' /\ WriteProgress'
<1>1. /\ pc = "ready" /\ pc' = "written" /\ op'.id = i /\ op'.kind = kind
      /\ UNCHANGED <<fields, bits, all_ids, index, apart, told, doubt>>
  BY DEF Begin, histVars, filterVars
<1>2. op = NoOp /\ op' # NoOp
  BY <1>1 DEF CollectionInv, OpRuns, Running
<1>3. LogHeld /\ AbsentClean /\ FieldsKnown /\ TypeOK
  BY <1>1 DEF CollectionInv, MemoryInStep, AbsentClean, FieldsKnown, Serving
<1>4. \A j \in Ids : (\A x : Held(j, x)' <=> Held(j, x)) /\ (Forgotten(j)' <=> Forgotten(j))
  BY <1>1, SameId
<1>5. LogHeld'
  <2> SUFFICES ASSUME NEW j \in Ids \ apart', NEW x \in MaybeEntries, j # i,
                      ValueIn(hist', j, x)
               PROVE  Held(j, x)'
    BY <1>1, <1>2 DEF LogHeld, Writing
  <2>1. ValueIn(hist, j, x)
    BY <1>3, BeginFacts
  <2>2. Held(j, x)
    BY <1>1, <1>2, <1>3, <2>1 DEF LogHeld, Writing
  <2> QED BY <1>4, <2>2
<1>6. AbsentClean' /\ FieldsKnown'
  BY <1>1, <1>3, <1>4 DEF AbsentClean, FieldsKnown
<1>7. i \notin doubt => NoBits(i) \/ BitsOf(i, told[i])
  <2> SUFFICES ASSUME i \notin doubt PROVE NoBits(i) \/ BitsOf(i, told[i])
    OBVIOUS
  <2>1. ValueIn(hist, i, told[i]) /\ told[i] \in MaybeEntries /\ i \notin apart
    BY <1>2 DEF CollectionInv, ToldInLog, Writing, TypeOK, KV!Views, MaybeEntries
  <2>2. Held(i, told[i])
    BY <1>2, <1>3, <2>1 DEF LogHeld, Writing
  <2> QED BY <1>3, <2>2 DEF Held, Exactly, AbsentClean, Forgotten
<1>8. op'.id \notin doubt' => NoBits(op.id)' \/ BitsOf(op.id, told[op.id])'
  BY <1>1, <1>7 DEF NoBits, BitsOf
<1>9. MemoryInStep'
  BY <1>1, <1>5, <1>6 DEF MemoryInStep, AbsentClean, FieldsKnown
<1> QED BY <1>1, <1>8, <1>9 DEF WriteProgress

LEMMA IndexWrittenMemory ==
  ASSUME CollectionInv, TypeOK', IndexWritten
  PROVE  MemoryInStep' /\ WriteProgress'
<1> DEFINE Done == IF op.kind = "remove" THEN Buried(index[op.id]) ELSE Live(op.entry.vec)
<1>1. /\ pc = "stored" /\ pc' = "indexed" /\ index' = [index EXCEPT ![op.id] = Done]
      /\ UNCHANGED <<fields, bits, all_ids, hist, apart, told, doubt, op>>
  BY DEF IndexWritten, histVars, filterVars, kvVars
<1>2. /\ op # NoOp /\ Serving /\ op.id \in Ids /\ index \in [Ids -> Items] /\ FilterTypeOK
      /\ op.kind \in {"add", "update", "remove"}
      /\ op.kind # "remove" => op.entry.vec \in Vecs
  BY <1>1, RunningFacts DEF Running
<1>3. /\ index'[op.id] = Done
      /\ \A i \in Ids \ {op.id} : index'[i] = index[i]
      /\ op.kind = "remove" => Done.st # "live" /\ (Done = Absent => index[op.id] = Absent)
      /\ op.kind # "remove" => Done # Absent
  BY <1>1, <1>2, BuriedType, EntryTypes
<1> HIDE DEF Done
<1>4. \A i \in Ids : Forgotten(i)' <=> Forgotten(i)
  BY <1>1 DEF Forgotten, NoBits
<1>5. AbsentClean /\ FieldsKnown
  BY DEF CollectionInv, MemoryInStep, AbsentClean, FieldsKnown
<1>6. LogHeld' /\ AbsentClean' /\ FieldsKnown'
  <2>1. \A k \in Ids : k = op.id => (index'[k] = Absent => Forgotten(k)')
    BY <1>2, <1>3, <1>4, <1>5 DEF AbsentClean
  <2>2. \A s \in Scalars : op.id \in bits'[s] => s.name \in fields'
    BY <1>1, <1>5 DEF FieldsKnown
  <2>3. bits \in [Scalars -> SUBSET Ids] /\ bits' \in [Scalars -> SUBSET Ids]
    BY <1>1, <1>2 DEF FilterTypeOK
  <2> QED BY <1>1, <1>2, <1>3, <2>1, <2>2, <2>3, OtherIdsKeep
<1>7. MemoryInStep'
  BY <1>1, <1>6 DEF MemoryInStep, AbsentClean, FieldsKnown
<1>8. op.kind = "add" => Forgotten(op.id)'
  <2>1. op.kind = "add" => Forgotten(op.id)
    BY <1>1, <1>2, <1>5 DEF CollectionInv, WriteProgress, AbsentClean
  <2> QED BY <1>1, <2>1 DEF Forgotten, NoBits
<1>9. op.id \notin doubt => NoBits(op.id)' \/ BitsOf(op.id, told[op.id])'
  <2>1. op.id \notin doubt => NoBits(op.id) \/ BitsOf(op.id, told[op.id])
    BY <1>1 DEF CollectionInv, WriteProgress, Running
  <2> QED BY <1>1, <2>1 DEF NoBits, BitsOf
<1> QED BY <1>1, <1>3, <1>7, <1>8, <1>9 DEF WriteProgress, Done

LEMMA AddFilterMemory ==
  ASSUME CollectionInv, TypeOK', AddFilter
  PROVE  MemoryInStep' /\ WriteProgress'
<1> DEFINE S == op.entry.scalars
<1>1. /\ pc \in {"indexed", "unfiltered"} /\ pc' = "ready" /\ op' = NoOp
      /\ op.kind # "remove" /\ Forgotten(op.id) /\ index[op.id] = Live(op.entry.vec)
      /\ UNCHANGED <<index, hist>> /\ apart' = apart \ {op.id}
      /\ fields' = fields \cup {s.name : s \in S} /\ all_ids' = all_ids \cup {op.id}
      /\ bits' = [s \in Scalars |-> IF s \in S THEN bits[s] \cup {op.id} ELSE bits[s]]
  BY DEF AddFilter, Return, FilterAdd, CollectionInv, WriteProgress, OpRuns, kvVars
<1>2. /\ op # NoOp /\ Serving /\ op.id \in Ids /\ index \in [Ids -> Items] /\ FilterTypeOK
      /\ op.entry \in Entries /\ op.entry # NoEntry /\ op.entry.vec \in Vecs
      /\ S \subseteq Scalars
      /\ \A x : ValueIn(hist, op.id, x) => x = op.entry
  BY <1>1, RunningFacts DEF Running
<1>3. FieldsKnown
  BY DEF CollectionInv, MemoryInStep, FieldsKnown
<1>4. /\ bits \in [Scalars -> SUBSET Ids] /\ bits' \in [Scalars -> SUBSET Ids]
      /\ index'[op.id] # Absent
  BY <1>1, <1>2, EntryTypes DEF FilterTypeOK, TypeOK
<1>5. \A s \in Scalars : op.id \in bits'[s] <=> s \in S
  BY <1>1, <1>2 DEF Forgotten, NoBits
<1>6. \A s \in Scalars : op.id \in bits'[s] => s.name \in fields'
  BY <1>1, <1>5
<1>7. \A i \in Ids \ {op.id} : /\ index'[i] = index[i]
                              /\ i \in all_ids' <=> i \in all_ids
                              /\ \A s \in Scalars : i \in bits'[s] <=> i \in bits[s]
  BY <1>1
<1>8. ASSUME NEW k \in Ids, k = op.id, NEW x \in MaybeEntries, ValueIn(hist, k, x)
      PROVE  Held(k, x)'
  <2>1. x = op.entry
    BY <1>2, <1>8
  <2> QED BY <1>1, <1>2, <1>5, <1>8, <2>1 DEF Held, Exactly, BitsOf
<1> HIDE DEF S
<1>9. LogHeld' /\ AbsentClean' /\ FieldsKnown'
  BY <1>1, <1>2, <1>4, <1>6, <1>7, <1>8, OtherIdsKeep
<1> QED BY <1>1, <1>9
        DEF MemoryInStep, AbsentClean, FieldsKnown, WriteProgress, Running

\* The id leaves the filter index: the first half of an update, or a removal.
LEMMA DropFilterMemory ==
  ASSUME CollectionInv, TypeOK', UpdateFilter \/ RemoveFilter
  PROVE  MemoryInStep' /\ WriteProgress'
<1>1. /\ pc = "indexed" /\ UNCHANGED <<index, hist, fields>>
      /\ all_ids' = all_ids \ {op.id} /\ bits' = [s \in Scalars |-> bits[s] \ {op.id}]
  BY DEF UpdateFilter, RemoveFilter, DropOldScalars, FilterRemove, BitsWithout, kvVars
<1>2. /\ op # NoOp /\ Serving /\ op.id \in Ids /\ index \in [Ids -> Items] /\ FilterTypeOK
      /\ \A x : ValueIn(hist, op.id, x) => x = op.entry
      /\ op.kind = "remove" => op.entry = NoEntry
  BY <1>1, RunningFacts DEF Running
<1>3. \A k \in Ids : k = op.id => Forgotten(k)'
  BY <1>1 DEF Forgotten, NoBits
<1>4. \A i \in Ids \ {op.id} : /\ index'[i] = index[i]
                              /\ i \in all_ids' <=> i \in all_ids
                              /\ \A s \in Scalars : i \in bits'[s] <=> i \in bits[s]
  BY <1>1
<1>5. \A s \in Scalars : op.id \in bits'[s] => s.name \in fields'
  BY <1>1
<1>6. bits \in [Scalars -> SUBSET Ids] /\ bits' \in [Scalars -> SUBSET Ids]
  BY <1>1, <1>2 DEF FilterTypeOK, TypeOK
<1>7. CASE UpdateFilter
  <2>1. /\ pc' = "unfiltered" /\ op' = op /\ apart' = apart /\ op.kind = "update"
    BY <1>7 DEF UpdateFilter, histVars
  <2>2. LogHeld' /\ AbsentClean' /\ FieldsKnown'
    BY <1>1, <1>2, <1>3, <1>4, <1>5, <1>6, <2>1, OtherIdsKeep
  <2>3. index'[op'.id] = Live(op'.entry.vec)
    BY <1>1, <2>1 DEF CollectionInv, WriteProgress
  <2>4. Forgotten(op.id)'
    BY <1>2, <1>3, <2>1 DEF Forgotten, NoBits
  <2>5. NoBits(op.id)'
    BY <2>4 DEF Forgotten, NoBits
  <2> QED BY <2>1, <2>2, <2>3, <2>4, <2>5
          DEF MemoryInStep, AbsentClean, FieldsKnown, WriteProgress
<1>8. CASE RemoveFilter
  <2>1. pc' = "ready" /\ op' = NoOp /\ apart' = apart \ {op.id} /\ op.kind = "remove"
    BY <1>8 DEF RemoveFilter, Return
  <2>2. ASSUME NEW k \in Ids, k = op.id, NEW x \in MaybeEntries, ValueIn(hist, k, x)
        PROVE  Held(k, x)'
    <3>1. x = NoEntry
      BY <1>2, <2>1, <2>2
    <3>2. index'[k].st # "live"
      BY <1>1, <2>1, <2>2 DEF CollectionInv, WriteProgress
    <3> QED BY <1>3, <2>2, <3>1, <3>2 DEF Held, Exactly
  <2>3. LogHeld' /\ AbsentClean' /\ FieldsKnown'
    BY <1>1, <1>2, <1>3, <1>4, <1>5, <1>6, <2>1, <2>2, OtherIdsKeep
  <2> QED BY <2>1, <2>3
          DEF MemoryInStep, AbsentClean, FieldsKnown, WriteProgress, Running
<1> QED BY <1>7, <1>8

LEMMA MemoryNext ==
  ASSUME CollectionInv, TypeOK', OpRuns', [Next]_vars
  PROVE  MemoryInStep' /\ WriteProgress'
<1> USE DEF Serving, Running
<1>0. AbsentClean /\ FieldsKnown /\ TypeOK
  BY DEF CollectionInv, MemoryInStep, AbsentClean, FieldsKnown
<1>a. ASSUME UNCHANGED <<filterVars, index, hist, op, apart>>,
             \/ pc \in {"down", "ready"} /\ pc' = "opening" /\ (pc = "down" => Fresh)
             \/ pc' = pc /\ UNCHANGED <<told, doubt>>
             \/ pc = "written" /\ pc' = "stored" /\ UNCHANGED <<told, doubt>>
      PROVE  MemoryInStep' /\ WriteProgress'
  <2>1. AbsentClean' /\ FieldsKnown' /\ (LogHeld' <=> LogHeld) /\ (Fresh' <=> Fresh)
    BY <1>0, <1>a, SameMemory
  <2>2. MemoryInStep'
    BY <1>a, <2>1 DEF CollectionInv, MemoryInStep, AbsentClean, FieldsKnown
  <2>3. WriteProgress'
    <3>1. CASE pc' = "opening" /\ pc \in {"down", "ready"}
      BY <3>1 DEF WriteProgress
    <3>2. CASE UNCHANGED <<told, doubt>>
      BY <1>a, <3>2 DEF CollectionInv, WriteProgress, Forgotten, NoBits, BitsOf, filterVars
    <3> QED BY <1>a, <3>1, <3>2
  <2> QED BY <2>2, <2>3
<1>1. CASE OpenStorage
  <2>1. pc = "down" => Fresh
    BY DEF CollectionInv, MemoryInStep
  <2> QED BY <1>1, <1>a, <2>1 DEF OpenStorage, KV!Stop, histVars
<1>2. CASE OpenVisit
  <2>1. pc' = "ready"
    BY <1>2 DEF OpenVisit
  <2> QED BY <1>2, <2>1, VisitKeeps
          DEF MemoryInStep, AbsentClean, FieldsKnown, WriteProgress
<1>3. CASE BeginStep
  BY <1>3, BeginMemory DEF BeginStep
<1>4. CASE StorageReturns \/ Snapshot \/ UNCHANGED vars
  BY <1>4, <1>a DEF StorageReturns, Stored, Snapshot, KV!Acknowledge, KV!Sync, histVars,
                    vars, kvVars
<1>5. CASE StorageFails
  <2>1. /\ UNCHANGED <<fields, bits, all_ids, index, hist>> /\ op' = NoOp /\ pc' = "ready"
        /\ apart' = apart \cup {op.id} /\ pc = "written"
    BY <1>5 DEF StorageFails, filterVars, kvVars
  <2>2. \A i \in Ids : i \notin apart' => i \notin apart /\ ~Writing(i)
    BY <2>1 DEF Writing
  <2>3. LogHeld
    BY <2>1 DEF CollectionInv, MemoryInStep
  <2>4. LogHeld'
    BY <2>1, <2>2, <2>3 DEF LogHeld, Held, Exactly, BitsOf, Forgotten, NoBits
  <2>5. AbsentClean' /\ FieldsKnown'
    BY <1>0, <2>1 DEF AbsentClean, FieldsKnown, Forgotten, NoBits
  <2> QED BY <2>1, <2>4, <2>5 DEF MemoryInStep, AbsentClean, FieldsKnown, WriteProgress
<1>6. CASE Crash
  <2>1. pc' = "down" /\ apart' = {} /\ Fresh'
    BY <1>6 DEF Crash, Fresh
  <2>2. AbsentClean' /\ FieldsKnown'
    BY <2>1 DEF Fresh, AbsentClean, FieldsKnown, Forgotten, NoBits
  <2> QED BY <2>1, <2>2 DEF MemoryInStep, AbsentClean, FieldsKnown, WriteProgress
<1> QED
  BY <1>1, <1>2, <1>3, <1>4, <1>5, <1>6, IndexWrittenMemory, AddFilterMemory,
     DropFilterMemory, NextCases

LEMMA InvInit == Init => CollectionInv
<1> SUFFICES ASSUME Init PROVE CollectionInv
  OBVIOUS
<1>1. TypeOK /\ OpRuns
  BY TypeInit DEF Init, OpRuns, Running
<1>2. WriterInStep
  BY DEF Init, KV!Init, WriterInStep, Serving, Running
<1>3. ToldInLog
  <2>1. safe = Len(hist) /\ Len(hist) \in Nat /\ KV!IsView(told, hist) /\ doubt = {}
    BY <1>1 DEF Init, KV!Init, TypeOK
  <2>2. \A n \in safe + 1 .. Len(hist) : FALSE
    BY <2>1
  <2> QED BY <2>1, <2>2, ViewIsValues DEF ToldInLog
<1>4. Fresh /\ pc = "down" /\ apart = {}
  BY DEF Init, FilterInit, Fresh
<1>5. MemoryInStep /\ WriteProgress
  BY <1>4 DEF MemoryInStep, WriteProgress, Fresh, Forgotten, NoBits, Serving, Running
<1> QED BY <1>1, <1>2, <1>3, <1>5 DEF CollectionInv

LEMMA InvNext == CollectionInv /\ [Next]_vars => CollectionInv'
<1> SUFFICES ASSUME CollectionInv, [Next]_vars PROVE CollectionInv'
  OBVIOUS
<1>1. TypeOK /\ OpRuns /\ WriterInStep /\ ToldInLog
  BY DEF CollectionInv
<1>2. TypeOK' /\ OpRuns'
  BY <1>1, TypeNext, OpRunsNext
<1> QED BY <1>1, <1>2, WriterNext, ToldNext, MemoryNext DEF CollectionInv

\* In every state the three stores of a collection agree about every id that
\* no write is at work on, and every other id is as far as its write has come.
THEOREM CollectionInvariant == Spec => []CollectionInv
BY InvInit, InvNext, PTL DEF Spec

\* Every variable of the collection keeps its type.
THEOREM CollectionTypes == Spec => []TypeOK
<1>1. CollectionInv => TypeOK
  BY DEF CollectionInv
<1> QED BY <1>1, CollectionInvariant, PTL

\* What add(), update() and remove() returned OK for is served until the next
\* write of the id, through failed fsyncs of other ids, crashes and reopening
\* (collection.cpp, storage before both indexes).
THEOREM ToldServed == Spec => []ToldIsServed
<1>1. CollectionInv => ToldIsServed
  <2> SUFFICES ASSUME CollectionInv, pc = "ready", NEW i \in Ids \ doubt
               PROVE  view[i] = told[i]
    BY DEF ToldIsServed
  <2>1. op = NoOp /\ KV!IsView(view, hist) /\ hist \in Seq(KV!WritesKV)
    BY DEF CollectionInv, OpRuns, Running, WriterInStep, Serving, TypeOK
  <2>2. ValueIn(hist, i, told[i]) /\ ValueIn(hist, i, view[i])
    BY <2>1, ViewIsValues DEF CollectionInv, ToldInLog, Writing
  <2> QED BY <2>1, <2>2, ValueUnique
<1> QED BY <1>1, CollectionInvariant, PTL

\* A directory that is always opened with one dimension keeps its HNSW index
\* and its filter index equal to its storage between calls, of every id but
\* those whose last write failed in this process.  An open() with another
\* dimension leaves entries out (collection.cpp:80).
THEOREM StoresInStep == OneDim => (Spec => []InStep)
<1> SUFFICES ASSUME OneDim PROVE Spec => []InStep
  OBVIOUS
<1>1. CollectionInv => InStep
  <2> SUFFICES ASSUME CollectionInv, pc = "ready", NEW i \in Ids \ apart
               PROVE  Exactly(i, view[i])
    BY DEF InStep, Exactly, Forgotten, NoBits, BitsOf
  <2>1. op = NoOp /\ KV!IsView(view, hist) /\ view[i] \in MaybeEntries /\ LogHeld
    BY DEF CollectionInv, OpRuns, Running, WriterInStep, Serving, TypeOK, KV!Views,
           MaybeEntries, MemoryInStep
  <2>2. Held(i, view[i])
    BY <2>1, ViewIsValues DEF LogHeld, Writing
  <2> QED BY <2>2 DEF Held
<1> QED BY <1>1, CollectionInvariant, PTL

(***************************************************************************)
(* Filtered searches beside the writing thread                             *)
(***************************************************************************)

\* A != clause also accepts an id without the field.
NoNotEquals == \A c \in Filter : c.op # "kNe"

\* What the predicate says of an id whose bits are those of the scalars S.
LEMMA ClauseFacts ==
  ASSUME NEW i \in Ids, NEW S \in SUBSET Scalars, NEW c \in Clauses,
         \A s \in Scalars : i \in bits[s] <=> s \in S
  PROVE  /\ c.op # "kNe" /\ ClauseMatches(i, c) => Satisfies(S, c)
         /\ Satisfies(S, c) /\ i \in all_ids /\ FieldsKnown => ClauseMatches(i, c)
<1> DEFINE Vs == {s.value : s \in {t \in S : t.name = c.field}}
<1>1. c.field \in Fields /\ c.value \in Values
  BY DEF Clauses
<1>2. \A v \in Values :
        /\ [name |-> c.field, value |-> v] \in Scalars
        /\ ValueContains(c.field, v, i) <=> v \in Vs
  <2> SUFFICES ASSUME NEW v \in Values
               PROVE  /\ [name |-> c.field, value |-> v] \in Scalars
                      /\ ValueContains(c.field, v, i) <=> v \in Vs
    OBVIOUS
  <2>1. [name |-> c.field, value |-> v] \in Scalars
    BY <1>1 DEF Scalars
  <2>2. ValueContains(c.field, v, i) <=> [name |-> c.field, value |-> v] \in S
    BY <2>1 DEF ValueContains
  <2>3. ASSUME NEW s \in S, s.name = c.field, s.value = v
        PROVE  s = [name |-> c.field, value |-> v]
    BY <2>3 DEF Scalars
  <2>4. [name |-> c.field, value |-> v] \in S => v \in Vs
    OBVIOUS
  <2>5. v \in Vs => [name |-> c.field, value |-> v] \in S
    BY <2>3
  <2> QED BY <2>1, <2>2, <2>4, <2>5
<1>3. Vs \subseteq Values
  BY DEF Scalars
<1>4. Vs # {} /\ FieldsKnown => c.field \in fields
  <2> SUFFICES ASSUME NEW v \in Vs, FieldsKnown PROVE c.field \in fields
    OBVIOUS
  <2>1. bits[[name |-> c.field, value |-> v]] # {} /\ v \in Values
    BY <1>2, <1>3 DEF ValueContains
  <2> QED BY <1>2, <2>1 DEF FieldsKnown
<1>5. Satisfies(S, c) <=>
        CASE c.op = "kEq" -> c.value \in Vs
          [] c.op = "kNe" -> Vs # {} /\ c.value \notin Vs
          [] OTHER -> \E v \in Vs : v.t = c.value.t /\ v.t # "str"
                                      /\ Compare(c.op, v.n, c.value.n)
  BY DEF Satisfies
<1> HIDE DEF Vs
<1>6. CASE c.op = "kEq"
  BY <1>1, <1>2, <1>4, <1>5, <1>6 DEF ClauseMatches
<1>7. CASE c.op = "kNe"
  BY <1>1, <1>2, <1>4, <1>5, <1>7 DEF ClauseMatches
<1>8. CASE c.op \notin {"kEq", "kNe"}
  <2>1. InRange(c.field, c.op, c.value, i) <=>
          \E v \in Vs : v.t = c.value.t /\ v.t # "str" /\ Compare(c.op, v.n, c.value.n)
    BY <1>2, <1>3 DEF InRange, Comparable
  <2>2. Satisfies(S, c) <=> InRange(c.field, c.op, c.value, i)
    BY <1>5, <1>8, <2>1
  <2>3. ClauseMatches(i, c) <=> c.field \in fields /\ InRange(c.field, c.op, c.value, i)
    BY <1>8 DEF ClauseMatches
  <2>4. InRange(c.field, c.op, c.value, i) => Vs # {}
    BY <2>1
  <2> QED BY <1>4, <2>2, <2>3, <2>4
<1> QED BY <1>6, <1>7, <1>8

\* The bits of an id whose last write is not in doubt.
LEMMA BitsFollowTold ==
  ASSUME CollectionInv, pc # "down", NEW i \in Ids \ doubt
  PROVE  /\ NoBits(i) \/ BitsOf(i, told[i])
         /\ ~Writing(i) /\ index[i] # Absent => Exactly(i, told[i])
<1>1. CASE Writing(i)
  <2>1. Running /\ op.id = i
    BY <1>1 DEF CollectionInv, OpRuns, Writing
  <2> QED BY <1>1, <2>1 DEF CollectionInv, WriteProgress
<1>2. CASE ~Writing(i)
  <2>1. ValueIn(hist, i, told[i]) /\ told[i] \in MaybeEntries /\ i \notin apart
    BY <1>2 DEF CollectionInv, ToldInLog, TypeOK, KV!Views, MaybeEntries
  <2>2. CASE Fresh
    <3>1. index[i] = Absent /\ NoBits(i)
      BY <2>2 DEF Fresh, NoBits
    <3> QED BY <3>1
  <2>3. CASE LogHeld
    <3>1. Held(i, told[i])
      BY <1>2, <2>1, <2>3 DEF LogHeld
    <3>2. index[i] = Absent => NoBits(i)
      BY DEF CollectionInv, MemoryInStep, Forgotten
    <3> QED BY <3>1, <3>2 DEF Held, Exactly, Forgotten
  <2> QED BY <2>2, <2>3 DEF CollectionInv, MemoryInStep, Serving
<1> QED BY <1>1, <1>2

LEMMA MatchMayPass ==
  ASSUME CollectionInv, NoNotEquals, pc # "down", NEW i \in Ids, Matches(i, Filter)
  PROVE  i \in MayPass
<1> SUFFICES ASSUME i \notin doubt PROVE Passes(told[i])
  BY DEF MayPass
<1>1. CASE NoBits(i)
  <2>1. PICK c \in Filter : c \in Clauses
    BY CollectionSearchAssumption
  <2>2. ClauseMatches(i, c) /\ c.op # "kNe"
    BY <2>1 DEF Matches, NoNotEquals
  <2>3. Satisfies({}, c)
    BY <1>1, <2>1, <2>2, ClauseFacts DEF NoBits
  <2>4. c.op \in FilterOps
    BY <2>1 DEF Clauses
  <2> QED BY <2>2, <2>3, <2>4 DEF Satisfies, FilterOps
<1>2. CASE BitsOf(i, told[i])
  <2>1. told[i] \in Entries
    BY <1>2 DEF BitsOf, CollectionInv, TypeOK, KV!Views
  <2>2. told[i].scalars \in SUBSET Scalars
    BY <2>1, EntryTypes
  <2>3. ASSUME NEW c \in Filter PROVE Satisfies(told[i].scalars, c)
    <3>1. c \in Clauses /\ c.op # "kNe" /\ ClauseMatches(i, c)
      BY CollectionSearchAssumption DEF NoNotEquals, Matches
    <3> QED BY <1>2, <2>2, <3>1, ClauseFacts DEF BitsOf
  <2> QED BY <1>2, <2>3 DEF Passes, BitsOf
<1> QED BY <1>1, <1>2, BitsFollowTold

LEMMA SettledMatch ==
  ASSUME CollectionInv, pc # "down", NEW i \in Settled, index[i] # Absent
  PROVE  Matches(i, Filter)
<1>1. i \in Ids \ doubt /\ Passes(told[i]) /\ ~Writing(i)
  BY DEF Settled, MustPass
<1>2. Exactly(i, told[i])
  BY <1>1, BitsFollowTold
<1>3. told[i] \in Entries /\ i \in all_ids /\ BitsOf(i, told[i])
  BY <1>1, <1>2 DEF Passes, Exactly, CollectionInv, TypeOK, KV!Views
<1>4. told[i].scalars \in SUBSET Scalars /\ FieldsKnown
  BY <1>3, EntryTypes DEF CollectionInv, MemoryInStep, FieldsKnown
<1>5. ASSUME NEW c \in Filter PROVE ClauseMatches(i, c)
  <2>1. c \in Clauses /\ Satisfies(told[i].scalars, c)
    BY <1>1, CollectionSearchAssumption DEF Passes
  <2> QED BY <1>1, <1>3, <1>4, <2>1, ClauseFacts DEF BitsOf
<1> QED BY <1>5 DEF Matches

Queries ==
  [pc : {"in_filter", "post_filter"}, attempt : Nat, todo : SUBSET Ids,
   out : SUBSET Ids, rejected : SUBSET Ids, witness : SUBSET Ids,
   must : SUBSET Ids, settled : SUBSET Ids]

\* Of a running search: it has seen every id that may pass and none that is
\* settled has changed, and the ids it has yet to ask about are in the index,
\* where a tombstone stays until the process ends.
QuerySound(q) ==
  /\ q \in Queries
  /\ pc # "down"
  /\ MayPass \subseteq q.witness
  /\ q.settled \subseteq Settled
  /\ \A i \in q.todo : index[i] # Absent
  /\ NoNotEquals => q.out \subseteq q.witness
  /\ q.rejected \cap q.settled = {}
QueryInv == query # Idle => QuerySound(query)

LEMMA RunningQuery == \A q \in Queries : q # Idle
<1> SUFFICES ASSUME NEW q \in Queries PROVE q.pc # Idle.pc
  OBVIOUS
<1> QED BY DEF Queries, Idle

LEMMA PassTypes == MayPass \subseteq Ids /\ MustPass \subseteq Ids /\ Settled \subseteq Ids
BY DEF MayPass, MustPass, Settled

LEMMA IndexedStays ==
  ASSUME CollectionInv, TypeOK', FreeStep \/ LockedStep
  PROVE  pc' # "down" /\ \A i \in Ids : index[i] # Absent => index'[i] # Absent
<1>0. TypeOK
  BY DEF CollectionInv
<1>1. CASE OpenVisit
  <2>1. PICK V \in Visited(view') :
          index' = [i \in Ids |-> IF i \in V THEN Live(view'[i].vec) ELSE index[i]]
    BY <1>1 DEF OpenVisit
  <2>2. \A i \in V : i \in Ids => view'[i] \in Entries
    BY <2>1 DEF Visited, LiveIn, RefusedBy, TypeOK, KV!Views
  <2> QED BY <1>1, <2>1, <2>2, EntryTypes DEF OpenVisit
<1>2. CASE IndexWritten
  <2>1. Running /\ pc' = "indexed"
    BY <1>2 DEF IndexWritten, Running
  <2> QED BY <1>2, <2>1, RunningFacts, BuriedType, EntryTypes DEF IndexWritten
<1>3. CASE FreeStep
  BY <1>3
  DEF FreeStep, OpenStorage, Add, Update, Remove, Begin, StorageReturns, StorageFails,
      AddFilter, UpdateFilter, RemoveFilter, Return, Snapshot
<1> QED BY <1>1, <1>2, <1>3 DEF LockedStep

LEMMA ObserveKeeps ==
  ASSUME CollectionInv, TypeOK', FreeStep \/ LockedStep, Observe, QueryInv
  PROVE  QueryInv'
<1>1. CASE query = Idle
  BY <1>1 DEF Observe, QueryInv
<1>2. CASE query # Idle
  <2>1. QuerySound(query) /\ query \in Queries
    BY <1>2 DEF QueryInv, QuerySound
  <2>2. /\ MayPass' \subseteq Ids /\ MustPass' \subseteq Ids /\ Settled' \subseteq Ids
    BY DEF MayPass, MustPass, Settled
  <2>3. query' = [query EXCEPT !.witness = @ \cup MayPass', !.must = @ \cap MustPass',
                              !.settled = @ \cap Settled']
    BY <1>2 DEF Observe, Observed
  <2>4. /\ query' \in Queries
        /\ query'.witness = query.witness \cup MayPass'
        /\ query'.settled = query.settled \cap Settled'
        /\ query'.todo = query.todo /\ query'.out = query.out
        /\ query'.rejected = query.rejected
    BY <2>1, <2>2, <2>3 DEF Queries
  <2>5. \A i \in query'.todo : index'[i] # Absent
    BY <2>1, <2>4, IndexedStays DEF QuerySound, Queries
  <2>6. QuerySound(query)'
    BY <2>1, <2>4, <2>5, IndexedStays DEF QuerySound, NoNotEquals
  <2> QED BY <2>6 DEF QueryInv
<1> QED BY <1>1, <1>2

LEMMA StartKeeps ==
  ASSUME CollectionInv, StartInFilter \/ StartPostFilter
  PROVE  QueryInv'
<1>1. PICK mode \in {"in_filter", "post_filter"}, T \in SUBSET LiveIds :
        query' = Searching(mode, T) /\ pc # "down" /\ UNCHANGED vars
  <2>1. CASE StartInFilter
    BY <2>1 DEF StartInFilter
  <2>2. CASE StartPostFilter
    BY <2>2 DEF StartPostFilter, Hits
  <2> QED BY <2>1, <2>2
<1>2. LiveIds \subseteq Ids /\ \A i \in LiveIds : index[i] # Absent
  BY EntryTypes DEF LiveIds
<1>3. /\ query' \in Queries /\ query'.witness = MayPass /\ query'.settled = Settled
      /\ query'.todo = T /\ query'.out = {} /\ query'.rejected = {}
  BY <1>1, <1>2, PassTypes DEF Searching, Queries
<1>4. UNCHANGED <<pc, index, told, doubt, op>>
  BY <1>1 DEF vars, histVars
<1>5. MayPass' = MayPass /\ Settled' = Settled
  BY <1>4 DEF MayPass, Settled, MustPass, Writing
<1>6. QuerySound(query)'
  BY <1>1, <1>2, <1>3, <1>4, <1>5 DEF QuerySound
<1> QED BY <1>6 DEF QueryInv

\* A step of the search itself: the rest of the program stands still.
LEMMA OwnStepKeeps ==
  ASSUME QueryInv, query # Idle, UNCHANGED vars, query' \in Queries,
         query'.witness = query.witness, query'.settled = query.settled,
         \A i \in query'.todo : index[i] # Absent,
         NoNotEquals => query'.out \subseteq query.witness,
         query'.rejected \cap query.settled = {}
  PROVE  QueryInv'
<1>1. UNCHANGED <<pc, index, told, doubt, op>>
  BY DEF vars, histVars
<1>2. MayPass' = MayPass /\ Settled' = Settled
  BY <1>1 DEF MayPass, Settled, MustPass, Writing
<1>3. QuerySound(query)
  BY DEF QueryInv
<1>4. QuerySound(query)'
  BY <1>1, <1>2, <1>3 DEF QuerySound, NoNotEquals
<1> QED BY <1>4 DEF QueryInv

LEMMA EvaluateKeeps ==
  ASSUME CollectionInv, QueryInv, NEW i \in Ids, Evaluate(i)
  PROVE  QueryInv'
<1>1. /\ query # Idle /\ i \in query.todo /\ UNCHANGED vars /\ QuerySound(query)
      /\ query \in Queries /\ pc # "down" /\ index[i] # Absent
  BY DEF Evaluate, QueryInv, QuerySound
<1>2. CASE Matches(i, Filter)
  <2>1. query' = [query EXCEPT !.todo = @ \ {i}, !.out = @ \cup {i}]
    BY <1>2 DEF Evaluate
  <2>2. /\ query' \in Queries /\ query'.witness = query.witness
        /\ query'.settled = query.settled /\ query'.todo = query.todo \ {i}
        /\ query'.out = query.out \cup {i} /\ query'.rejected = query.rejected
    BY <1>1, <2>1 DEF Queries
  <2>3. NoNotEquals => i \in query.witness
    BY <1>1, <1>2, MatchMayPass DEF QuerySound
  <2> QED BY <1>1, <2>2, <2>3, OwnStepKeeps DEF QuerySound
<1>3. CASE ~Matches(i, Filter)
  <2>1. query' = [query EXCEPT !.todo = @ \ {i}, !.rejected = @ \cup {i}]
    BY <1>3 DEF Evaluate
  <2>2. /\ query' \in Queries /\ query'.witness = query.witness
        /\ query'.settled = query.settled /\ query'.todo = query.todo \ {i}
        /\ query'.out = query.out /\ query'.rejected = query.rejected \cup {i}
    BY <1>1, <2>1 DEF Queries
  <2>3. i \notin query.settled
    BY <1>1, <1>3, SettledMatch DEF QuerySound
  <2> QED BY <1>1, <2>2, <2>3, OwnStepKeeps DEF QuerySound
<1> QED BY <1>2, <1>3

LEMMA RetryKeeps ==
  ASSUME CollectionInv, QueryInv, Retry
  PROVE  QueryInv'
<1>1. query # Idle /\ UNCHANGED vars
  BY DEF Retry, Idle
<1>2. QuerySound(query) /\ query \in Queries
  BY <1>1 DEF QueryInv, QuerySound
<1>3. PICK H \in SUBSET LiveIds :
        query' = [query EXCEPT !.attempt = @ + 1, !.todo = H, !.out = {}, !.rejected = {}]
  BY DEF Retry, Hits
<1>4. LiveIds \subseteq Ids /\ \A i \in LiveIds : index[i] # Absent
  BY EntryTypes DEF LiveIds
<1>5. /\ query' \in Queries /\ query'.witness = query.witness
      /\ query'.settled = query.settled /\ query'.todo = H
      /\ query'.out = {} /\ query'.rejected = {}
  <2> DEFINE n == query.attempt + 1
             N == {}
  <2>1. n \in Nat /\ H \in SUBSET Ids /\ N \in SUBSET Ids
    BY <1>2, <1>4 DEF Queries
  <2>2. query' = [query EXCEPT !.attempt = n, !.todo = H, !.out = N, !.rejected = N]
    BY <1>3
  <2> HIDE DEF n, N
  <2>3. /\ query' \in Queries /\ query'.witness = query.witness
        /\ query'.settled = query.settled /\ query'.todo = H
        /\ query'.out = N /\ query'.rejected = N
    BY <1>2, <2>1, <2>2 DEF Queries
  <2> QED BY <2>3 DEF N
<1> QED BY <1>1, <1>4, <1>5, OwnStepKeeps

LEMMA SearchNextKeeps ==
  CollectionInv /\ CollectionInv' /\ QueryInv /\ [SearchNext]_searchVars => QueryInv'
<1> SUFFICES ASSUME CollectionInv, CollectionInv', QueryInv, [SearchNext]_searchVars
             PROVE  QueryInv'
  OBVIOUS
<1>0. TypeOK'
  BY DEF CollectionInv
<1>1. CASE (FreeStep \/ LockedStep) /\ Observe
  BY <1>0, <1>1, ObserveKeeps
<1>2. CASE query' = Idle
  BY <1>2 DEF QueryInv
<1>3. CASE UNCHANGED searchVars
  <2>1. UNCHANGED <<query, pc, index, told, doubt, op>>
    BY <1>3 DEF searchVars, vars, histVars
  <2> QED BY <2>1
          DEF QueryInv, QuerySound, MayPass, Settled, MustPass, Writing, NoNotEquals
<1> QED
  BY <1>1, <1>2, <1>3, StartKeeps, EvaluateKeeps, RetryKeeps DEF SearchNext, Finish

\* Beside a search the collection takes the steps it takes on its own.
THEOREM SearchKeepsCollection == SearchSpec => Spec
<1>1. SearchInit => Init
  BY DEF SearchInit
<1>2. [SearchNext]_searchVars => [Next]_vars
  BY DEF SearchNext, searchVars, Next, StartInFilter, StartPostFilter, Evaluate, Retry,
         Finish
<1> QED BY <1>1, <1>2, PTL DEF SearchSpec, Spec

\* A filtered search in flight (collection.cpp, search_filtered()) has a
\* history that fits the stores: what it has seen of an id is what some state
\* since its start let it see.
THEOREM QueryInvariant == SearchSpec => []QueryInv
<1>1. SearchInit => QueryInv
  BY DEF SearchInit, QueryInv
<1> QED
  BY <1>1, SearchKeepsCollection, CollectionInvariant, SearchNextKeeps, PTL DEF SearchSpec

\* A filter without != clauses returns only ids that had a matching entry at
\* some moment of the search, told or being written, though a search reads two
\* stores that a write changes one after the other (collection.cpp,
\* search_filtered(); filter_index.cpp, matches()).
THEOREM HitsPassFilter == NoNotEquals => (SearchSpec => []ResultsPassFilter)
<1> SUFFICES ASSUME NoNotEquals PROVE SearchSpec => []ResultsPassFilter
  OBVIOUS
<1>1. QueryInv => ResultsPassFilter
  BY DEF QueryInv, QuerySound, ResultsPassFilter
<1> QED BY <1>1, QueryInvariant, PTL

\* Whatever the filter, whatever is written beside the search, and even when
\* open() left other entries out, an id whose entry satisfied the filter
\* throughout and that nobody wrote is not turned away.
THEOREM SettledFound == SearchSpec => []SettledNeverRejected
<1>1. QueryInv => SettledNeverRejected
  BY DEF QueryInv, QuerySound, SettledNeverRejected
<1> QED BY <1>1, QueryInvariant, PTL
=============================================================================
