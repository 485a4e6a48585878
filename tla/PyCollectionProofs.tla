------------------------- MODULE PyCollectionProofs -------------------------
(***************************************************************************)
(* Theorems about the Python object and the C API below it, for any number *)
(* of threads, handles, ids and payloads.                                  *)
(***************************************************************************)
EXTENDS PyCollection, FiniteSetTheorems, SequenceTheorems, TLAPS

(***************************************************************************)
(* The records of the calls                                                *)
(***************************************************************************)

Fields == {"fn", "pc", "h", "todo", "rc", "hits", "got", "excused"}
CallRecord(c) == DOMAIN c = Fields /\ c = [f \in Fields |-> c[f]]
CallRecords ==
  /\ call = [t \in Threads |-> call[t]]
  /\ \A t \in Threads : CallRecord(call[t])

\* Where a thread is when none of the library's calls on a handle runs.
Outside == {"idle", "opening", "opened", "closing"}

LEMMA GoesRecord ==
  ASSUME CallRecords, NEW t \in Threads, NEW c, Goes(t, c), CallRecord(c)
  PROVE  /\ CallRecords'
         /\ call'[t] = c
         /\ \A u \in Threads \ {t} : call'[u] = call[u]
  BY DEF CallRecords, CallRecord, Goes

\* Whatever a call changes of its record, it stays a record of a call, of the
\* same function and on the same handle.
SameCall(c, d) ==
  CallRecord(c) /\ c.h = d.h /\ c.fn = d.fn /\ c.pc \notin Outside

LEMMA PcChanges ==
  ASSUME NEW c, CallRecord(c), NEW x, x \notin {"idle", "opening", "opened", "closing"}
  PROVE  SameCall([c EXCEPT !.pc = x], c)
  BY DEF CallRecord, SameCall, Fields, Outside

LEMMA RcChanges ==
  ASSUME NEW c, CallRecord(c), NEW x, x \notin {"idle", "opening", "opened", "closing"}, NEW y
  PROVE  SameCall([c EXCEPT !.pc = x, !.rc = y], c)
  BY DEF CallRecord, SameCall, Fields, Outside

LEMMA CallStepMoves ==
  ASSUME CallRecords, NEW t \in Threads, CallStep(t), ~RemoveStore(t)
  PROVE  \E c : Goes(t, c) /\ SameCall(c, call[t])
  <1> CallRecord(call[t])
    BY DEF CallRecords
  <1>0. ASSUME NEW rc, Ends(t, rc) PROVE \E c : Goes(t, c) /\ SameCall(c, call[t])
    <2>1. SameCall([call[t] EXCEPT !.pc = "done", !.rc = rc], call[t])
      BY RcChanges
    <2>2. QED BY <1>0, <2>1 DEF Ends
  <1>00. ASSUME Goes(t, [call[t] EXCEPT !.pc = "found"]) \/ Goes(t, [call[t] EXCEPT !.pc = "stored"])
         PROVE  \E c : Goes(t, c) /\ SameCall(c, call[t])
    <2>1. SameCall([call[t] EXCEPT !.pc = "found"], call[t])
      BY PcChanges
    <2>2. SameCall([call[t] EXCEPT !.pc = "stored"], call[t])
      BY PcChanges
    <2>3. QED BY <1>00, <2>1, <2>2
  <1>1. CASE Lookup(t) BY <1>1, <1>0, <1>00 DEF Lookup
  <1>2. CASE AddRefused(t) BY <1>2, <1>0 DEF AddRefused
  <1>3. CASE AddStore(t) BY <1>3, <1>00 DEF AddStore
  <1>4. CASE AddIndex(t)
    <2>1. SameCall([call[t] EXCEPT !.pc = "found", !.todo = Tail(@)], call[t])
      BY DEF CallRecord, SameCall, Fields, Outside
    <2>2. QED BY <1>4, <1>0, <2>1 DEF AddIndex
  <1>6. CASE RemoveIndex(t) BY <1>6, <1>0 DEF RemoveIndex
  <1>7. CASE StorageFails(t) BY <1>7, <1>0 DEF StorageFails
  <1>8. CASE SearchHits(t)
    <2>1. PICK H : Goes(t, [call[t] EXCEPT !.pc = "reading", !.hits = H,
                                           !.excused = HalfRemoved(call[t].h)])
      BY <1>8 DEF SearchHits
    <2>2. SameCall([call[t] EXCEPT !.pc = "reading", !.hits = H,
                                   !.excused = HalfRemoved(call[t].h)], call[t])
      BY DEF CallRecord, SameCall, Fields, Outside
    <2>3. QED BY <2>1, <2>2
  <1>9. ASSUME NEW i \in Ids, SearchGet(t, i)
        PROVE  \E c : Goes(t, c) /\ SameCall(c, call[t])
    <2> DEFINE payload == IF disk[i] = NoPayload THEN <<>> ELSE disk[i]
               got == {[id |-> i, text |-> json_escape(payload)]}
    <2>1. Goes(t, [call[t] EXCEPT !.hits = @ \ {i}, !.excused = @ \cup doubt,
                                  !.got = @ \cup got])
          /\ call[t].pc = "reading"
      BY <1>9 DEF SearchGet
    <2> HIDE DEF got
    <2>2. SameCall([call[t] EXCEPT !.hits = @ \ {i}, !.excused = @ \cup doubt,
                                   !.got = @ \cup got], call[t])
      BY <2>1 DEF CallRecord, SameCall, Fields, Outside
    <2>3. QED BY <2>1, <2>2
  <1>10. CASE SearchEnds(t) BY <1>10, <1>0 DEF SearchEnds
  <1>11. CASE Get(t) BY <1>11, <1>0 DEF Get
  <1>12. CASE Maintain(t) BY <1>12, <1>0 DEF Maintain
  <1>13. QED
    BY <1>1, <1>2, <1>3, <1>4, <1>6, <1>7, <1>8, <1>9, <1>10, <1>11, <1>12,
       CallStep(t), ~RemoveStore(t) DEF CallStep

LEMMA RemoveStoreRecord ==
  ASSUME CallRecords, NEW t \in Threads, RemoveStore(t)
  PROVE  /\ CallRecords'
         /\ call'[t] = [call[t] EXCEPT !.pc = "stored"]
         /\ SameCall(call'[t], call[t])
         /\ \A u \in Threads \ {t} :
              \/ call'[u] = call[u]
              \/ call[u].pc = "reading" /\ \E x : call'[u] = [call[u] EXCEPT !.excused = x]
  <1> CallRecord(call[t]) /\ \A u \in Threads : CallRecord(call[u])
    BY DEF CallRecords
  <1>1. call' = SeenRemoved(t, Target(t).id)
    BY DEF RemoveStore
  <1> DEFINE k == Target(t).id
  <1> HIDE DEF k
  <1>2. call' = [u \in Threads |->
                   IF u = t THEN [call[t] EXCEPT !.pc = "stored"]
                   ELSE IF call[u].pc = "reading" THEN [call[u] EXCEPT !.excused = @ \cup {k}]
                   ELSE call[u]]
    BY <1>1 DEF SeenRemoved, k
  <1>3. call'[t] = [call[t] EXCEPT !.pc = "stored"]
    BY <1>2
  <1>4. SameCall(call'[t], call[t])
    BY <1>3, PcChanges
  <1>5. ASSUME NEW u \in Threads \ {t}, call[u].pc = "reading"
        PROVE  /\ call'[u] = [call[u] EXCEPT !.excused = call[u].excused \cup {k}]
               /\ CallRecord(call'[u])
    <2>1. call'[u] = [call[u] EXCEPT !.excused = call[u].excused \cup {k}]
      BY <1>2, <1>5
    <2>2. QED BY <2>1 DEF CallRecord, Fields
  <1>6. ASSUME NEW u \in Threads \ {t}, call[u].pc # "reading"
        PROVE  call'[u] = call[u]
    BY <1>2, <1>6
  <1>7. \A u \in Threads : CallRecord(call'[u])
    BY <1>4, <1>5, <1>6 DEF SameCall
  <1>8. CallRecords'
    BY <1>2, <1>7 DEF CallRecords
  <1>9. QED BY <1>3, <1>4, <1>5, <1>6, <1>8

LEMMA CallStepFrame ==
  ASSUME NEW t \in Threads, CallStep(t)
  PROVE  UNCHANGED g_handles /\ call[t].pc \notin Outside
  BY DEF CallStep, Lookup, AddRefused, AddStore, AddIndex, RemoveStore, RemoveIndex,
         StorageFails, SearchHits, SearchGet, SearchEnds, Get, Maintain, Found, Outside

LEMMA CallStepRecord ==
  ASSUME CallRecords, NEW t \in Threads, CallStep(t)
  PROVE  /\ CallRecords'
         /\ SameCall(call'[t], call[t])
         /\ \A u \in Threads \ {t} :
              /\ call'[u].pc = call[u].pc
              /\ call'[u].h = call[u].h
              /\ call'[u].fn = call[u].fn
              /\ call'[u].todo = call[u].todo
  <1>1. CASE RemoveStore(t)
    <2>1. ASSUME NEW u \in Threads \ {t}, NEW x, call'[u] = [call[u] EXCEPT !.excused = x]
          PROVE  /\ call'[u].pc = call[u].pc
                 /\ call'[u].h = call[u].h
                 /\ call'[u].fn = call[u].fn
                 /\ call'[u].todo = call[u].todo
      <3> CallRecord(call[u]) BY DEF CallRecords
      <3>1. QED BY <2>1 DEF CallRecord, Fields
    <2>2. CallRecords' /\ SameCall(call'[t], call[t])
      BY <1>1, RemoveStoreRecord
    <2>3. ASSUME NEW u \in Threads \ {t}
          PROVE  \/ call'[u] = call[u]
                 \/ \E x : call'[u] = [call[u] EXCEPT !.excused = x]
      BY <1>1, RemoveStoreRecord
    <2>4. QED BY <2>1, <2>2, <2>3
  <1>2. CASE ~RemoveStore(t)
    <2>1. PICK c : Goes(t, c) /\ SameCall(c, call[t])
      BY <1>2, CallStepMoves
    <2>2. QED BY <2>1, GoesRecord DEF SameCall
  <1>3. QED BY <1>1, <1>2

(***************************************************************************)
(* The handles of an object that is opened and closed in any order         *)
(***************************************************************************)

\* The collections that exist: in the table, or about to be put there.
Collections ==
  g_handles \cup {call[t].h : t \in {u \in Threads : call[u].pc = "opening"}}

\* _h names no handle of the table, now or when open() or close() returns.
Vacant ==
  \/ Closing
  \/ \E t \in Threads : call[t].pc = "opened" /\ call[t].h \notin g_handles
  \/ self_h \notin g_handles /\ (self_h # Null \/ ~Opening)

HandlesApart ==
  /\ \A t \in Threads : call[t].pc = "opening" => call[t].h \notin g_handles
  /\ \A t, u \in Threads :
       (call[t].pc = "opening" /\ call[u].pc = "opening" /\ call[t].h = call[u].h) => t = u

AccountInv ==
  /\ CallRecords
  /\ HandlesApart
  /\ Collections \subseteq Addrs /\ IsFiniteSet(Collections)
  /\ reopened \in Nat
  /\ Cardinality(Collections) <= 1 + reopened
  /\ Vacant => Cardinality(Collections) <= reopened

LEMMA AccountInit == Init => AccountInv
  <1> SUFFICES ASSUME Init PROVE AccountInv
    OBVIOUS
  <1>1. CallRecords /\ HandlesApart
    BY DEF Init, ApiInit, CallRecords, CallRecord, Fields, NoCall, HandlesApart
  <1>2. Collections = {}
    BY DEF Init, ApiInit, NoCall, Collections
  <1>3. IsFiniteSet(Collections) /\ Cardinality(Collections) = 0
    BY <1>2, FS_EmptySet
  <1>4. reopened = 0
    BY DEF Init
  <1>5. QED BY <1>1, <1>2, <1>3, <1>4 DEF AccountInv

\* A step that leaves open(), close() and the table alone.
LEMMA AccountKept ==
  ASSUME AccountInv, CallRecords', UNCHANGED <<g_handles, self_h, reopened>>,
         \A u \in Threads :
           \/ call'[u].pc = call[u].pc /\ call'[u].h = call[u].h
           \/ {call[u].pc, call'[u].pc} \cap {"opening", "opened", "closing"} = {}
  PROVE  AccountInv'
  <1>1. Collections' = Collections
    BY DEF Collections
  <1>2. HandlesApart'
    BY DEF AccountInv, HandlesApart
  <1>3. Vacant' => Vacant
    BY DEF Vacant, Opening, Closing
  <1>4. QED BY <1>1, <1>2, <1>3 DEF AccountInv

LEMMA AccountOpen ==
  ASSUME AccountInv, NEW t \in Threads, Open(t)
  PROVE  AccountInv'
  <1>1. /\ CallRecords /\ call[t].pc = "idle"
        /\ UNCHANGED <<g_handles, self_h>>
    BY DEF AccountInv, Open, Idle, CollectionOpen
  <1>2. IF IsClosed THEN reopened' = reopened ELSE reopened' = reopened + 1
    BY DEF Open
  <1>3. IsClosed => Vacant
    <2>1. Null \notin g_handles
      BY CApiAssumption DEF AccountInv, Collections
    <2>2. QED BY <2>1 DEF IsClosed, Vacant
  <1>4. reopened' \in Nat /\ reopened \in Nat /\ Cardinality(Collections) <= reopened'
    <2>1. Cardinality(Collections) \in Nat
      BY FS_CardinalityType DEF AccountInv
    <2>2. QED BY <1>2, <1>3, <2>1 DEF AccountInv
  <1>5. ASSUME NEW a \in Addrs, CollectionOpen(a),
               Goes(t, [NoCall EXCEPT !.pc = "opening", !.h = a])
        PROVE  AccountInv'
    <2> DEFINE c == [NoCall EXCEPT !.pc = "opening", !.h = a]
    <2>1. CallRecord(c) /\ c.pc = "opening" /\ c.h = a
      BY DEF CallRecord, Fields, NoCall
    <2>2. Goes(t, c)
      BY <1>5
    <2> HIDE DEF c
    <2>3. CallRecords' /\ call'[t] = c /\ \A u \in Threads \ {t} : call'[u] = call[u]
      BY <1>1, <2>1, <2>2, GoesRecord
    <2>4. a \notin Collections
      BY <1>5 DEF CollectionOpen, Collections
    <2>5. Collections' = Collections \cup {a}
      BY <1>1, <2>1, <2>3 DEF Collections
    <2>6. /\ IsFiniteSet(Collections') /\ Cardinality(Collections) \in Nat
          /\ Cardinality(Collections') = Cardinality(Collections) + 1
      BY <2>4, <2>5, FS_AddElement, FS_CardinalityType DEF AccountInv
    <2>7. HandlesApart'
      BY <1>1, <1>5, <2>1, <2>3 DEF AccountInv, HandlesApart, CollectionOpen
    <2>8. Vacant' => Vacant /\ ~IsClosed
      <3>1. Opening' /\ (Closing' => Closing)
        BY <1>1, <2>1, <2>3 DEF Opening, Closing
      <3>2. IsClosed => self_h = Null /\ \A u \in Threads : call[u].pc \notin {"opened", "closing"}
        BY DEF IsClosed, Opening, Closing
      <3>3. ASSUME NEW u \in Threads, call'[u].pc = "opened", call'[u].h \notin g_handles'
            PROVE  Vacant /\ ~IsClosed
        <4>1. call'[u] = call[u]
          BY <2>1, <2>3, <3>3
        <4>2. QED BY <1>1, <3>2, <3>3, <4>1 DEF Vacant
      <3>4. QED BY <1>1, <3>1, <3>2, <3>3 DEF Vacant, Closing
    <2>9. Vacant' => Cardinality(Collections') <= reopened'
      BY <1>2, <2>6, <2>8 DEF AccountInv
    <2>10. Cardinality(Collections') <= 1 + reopened'
      BY <1>4, <2>6
    <2>11. QED BY <1>4, <2>3, <2>5, <2>6, <2>7, <2>9, <2>10 DEF AccountInv
  <1>6. ASSUME Goes(t, [NoCall EXCEPT !.pc = "opened"])
        PROVE  AccountInv'
    <2> DEFINE c == [NoCall EXCEPT !.pc = "opened"]
    <2>1. CallRecord(c) /\ c.pc = "opened"
      BY DEF CallRecord, Fields, NoCall
    <2>2. Goes(t, c)
      BY <1>6
    <2> HIDE DEF c
    <2>3. CallRecords' /\ call'[t] = c /\ \A u \in Threads \ {t} : call'[u] = call[u]
      BY <1>1, <2>1, <2>2, GoesRecord
    <2>4. Collections' = Collections
      BY <1>1, <2>1, <2>3 DEF Collections
    <2>5. HandlesApart'
      BY <1>1, <2>1, <2>3 DEF AccountInv, HandlesApart
    <2>6. Cardinality(Collections) <= 1 + reopened'
      BY <1>4, FS_CardinalityType DEF AccountInv
    <2>7. QED BY <1>4, <2>3, <2>4, <2>5, <2>6 DEF AccountInv
  <1>7. QED BY <1>5, <1>6 DEF Open

LEMMA AccountRegister ==
  ASSUME AccountInv, NEW t \in Threads, Register(t)
  PROVE  AccountInv'
  <1> DEFINE c == [call[t] EXCEPT !.pc = "opened"]
  <1>1. /\ CallRecords /\ call[t].pc = "opening" /\ Goes(t, c)
        /\ g_handles' = g_handles \cup {call[t].h}
        /\ UNCHANGED <<self_h, reopened>>
    BY DEF AccountInv, Register, lumina_open
  <1>2. CallRecord(c) /\ c.pc = "opened" /\ c.h = call[t].h
    BY <1>1 DEF CallRecords, CallRecord, Fields
  <1> HIDE DEF c
  <1>3. CallRecords' /\ call'[t] = c /\ \A u \in Threads \ {t} : call'[u] = call[u]
    BY <1>1, <1>2, GoesRecord
  <1>4. Collections' = Collections
    <2>1. {call'[v].h : v \in {u \in Threads : call'[u].pc = "opening"}} \cup {call[t].h}
          = {call[v].h : v \in {u \in Threads : call[u].pc = "opening"}}
      BY <1>1, <1>2, <1>3
    <2>2. QED BY <1>1, <2>1 DEF Collections
  <1>5. HandlesApart'
    BY <1>1, <1>2, <1>3 DEF AccountInv, HandlesApart
  <1>6. Vacant' => Vacant
    BY <1>1, <1>2, <1>3 DEF Vacant, Opening, Closing
  <1>7. QED BY <1>1, <1>3, <1>4, <1>5, <1>6 DEF AccountInv

LEMMA AccountOpened ==
  ASSUME AccountInv, NEW t \in Threads, Opened(t)
  PROVE  AccountInv'
  <1>1. /\ CallRecords /\ call[t].pc = "opened" /\ Goes(t, NoCall)
        /\ self_h' = call[t].h /\ UNCHANGED <<g_handles, reopened>>
    BY DEF AccountInv, Opened
  <1>2. CallRecord(NoCall) /\ NoCall.pc = "idle"
    BY DEF CallRecord, Fields, NoCall
  <1>3. CallRecords' /\ call'[t] = NoCall /\ \A u \in Threads \ {t} : call'[u] = call[u]
    BY <1>1, <1>2, GoesRecord
  <1>4. Collections' = Collections
    BY <1>1, <1>2, <1>3 DEF Collections
  <1>5. HandlesApart'
    BY <1>1, <1>2, <1>3 DEF AccountInv, HandlesApart
  <1>6. Vacant' => Vacant
    BY <1>1, <1>2, <1>3 DEF Vacant, Closing
  <1>7. QED BY <1>1, <1>3, <1>4, <1>5, <1>6 DEF AccountInv

\* What close() takes out of the table pays for the next open().
LEMMA AccountClose ==
  ASSUME AccountInv, NEW t \in Threads, Close(t)
  PROVE  AccountInv'
  <1> DEFINE c == [NoCall EXCEPT !.pc = "closing"]
  <1>1. /\ CallRecords /\ call[t].pc = "idle" /\ Goes(t, c)
        /\ self_h # Null /\ g_handles' = g_handles \ {self_h}
        /\ UNCHANGED <<self_h, reopened>>
    BY DEF AccountInv, Close, Idle, lumina_close, HandlesWithout
  <1>2. CallRecord(c) /\ c.pc = "closing"
    BY DEF CallRecord, Fields, NoCall
  <1> HIDE DEF c
  <1>3. CallRecords' /\ call'[t] = c /\ \A u \in Threads \ {t} : call'[u] = call[u]
    BY <1>1, <1>2, GoesRecord
  <1>4. HandlesApart'
    BY <1>1, <1>2, <1>3 DEF AccountInv, HandlesApart
  <1>5. {call'[v].h : v \in {u \in Threads : call'[u].pc = "opening"}}
        = {call[v].h : v \in {u \in Threads : call[u].pc = "opening"}}
    BY <1>1, <1>2, <1>3
  <1>6. /\ Collections' \subseteq Addrs /\ IsFiniteSet(Collections')
        /\ Cardinality(Collections') <= reopened
    <2>1. CASE self_h \in g_handles
      <3>1. self_h \in Collections /\ Collections' = Collections \ {self_h}
        BY <1>1, <1>5, <2>1 DEF Collections, AccountInv, HandlesApart
      <3>2. /\ IsFiniteSet(Collections') /\ Cardinality(Collections) \in Nat
            /\ Cardinality(Collections') = Cardinality(Collections) - 1
        BY <3>1, FS_RemoveElement, FS_CardinalityType DEF AccountInv
      <3>3. QED BY <3>1, <3>2 DEF AccountInv
    <2>2. CASE self_h \notin g_handles
      <3>1. Collections' = Collections
        BY <1>1, <1>5, <2>2 DEF Collections
      <3>2. Vacant
        BY <1>1, <2>2 DEF Vacant
      <3>3. QED BY <3>1, <3>2 DEF AccountInv
    <2>3. QED BY <2>1, <2>2
  <1>7. Cardinality(Collections') <= 1 + reopened'
    BY <1>1, <1>6, FS_CardinalityType DEF AccountInv
  <1>8. QED BY <1>1, <1>3, <1>4, <1>6, <1>7 DEF AccountInv

LEMMA AccountClosed ==
  ASSUME AccountInv, NEW t \in Threads, Closed(t)
  PROVE  AccountInv'
  <1>1. /\ CallRecords /\ call[t].pc = "closing" /\ Goes(t, NoCall)
        /\ UNCHANGED <<g_handles, reopened>>
    BY DEF AccountInv, Closed
  <1>2. CallRecord(NoCall) /\ NoCall.pc = "idle"
    BY DEF CallRecord, Fields, NoCall
  <1>3. CallRecords' /\ call'[t] = NoCall /\ \A u \in Threads \ {t} : call'[u] = call[u]
    BY <1>1, <1>2, GoesRecord
  <1>4. Collections' = Collections
    BY <1>1, <1>2, <1>3 DEF Collections
  <1>5. HandlesApart'
    BY <1>1, <1>2, <1>3 DEF AccountInv, HandlesApart
  <1>6. Vacant
    BY <1>1 DEF Vacant, Closing
  <1>7. QED BY <1>1, <1>3, <1>4, <1>5, <1>6 DEF AccountInv

LEMMA AccountNext ==
  ASSUME AccountInv, [Next]_vars
  PROVE  AccountInv'
  <1> CallRecords BY DEF AccountInv
  <1>1. CASE UNCHANGED vars
    <2>1. CallRecords'
      BY <1>1 DEF vars, apiVars, CallRecords, CallRecord
    <2>2. QED BY <1>1, <2>1, AccountKept DEF vars, apiVars
  <1>2. ASSUME NEW t \in Threads, NEW fn, NEW todo, Enter(t, fn, todo) PROVE AccountInv'
    <2> DEFINE c == [NoCall EXCEPT !.fn = fn, !.pc = "called", !.h = self_h, !.todo = todo]
    <2>1. CallRecord(c) /\ c.pc = "called"
      BY DEF CallRecord, Fields, NoCall
    <2>2. Goes(t, c) /\ call[t].pc = "idle" /\ UNCHANGED <<g_handles, self_h, reopened>>
      BY <1>2 DEF Enter, Idle
    <2> HIDE DEF c
    <2>3. CallRecords' /\ call'[t] = c /\ \A u \in Threads \ {t} : call'[u] = call[u]
      BY <2>1, <2>2, GoesRecord
    <2>4. QED BY <2>1, <2>2, <2>3, AccountKept
  <1>3. ASSUME NEW t \in Threads, CallStep(t), UNCHANGED <<self_h, reopened>>
        PROVE  AccountInv'
    <2>1. UNCHANGED g_handles /\ call[t].pc \notin Outside
      BY <1>3, CallStepFrame
    <2>2. /\ CallRecords' /\ call'[t].pc \notin Outside
          /\ \A u \in Threads \ {t} : call'[u].pc = call[u].pc /\ call'[u].h = call[u].h
      BY <1>3, CallStepRecord DEF SameCall
    <2>3. QED BY <1>3, <2>1, <2>2, AccountKept DEF Outside
  <1>4. ASSUME NEW t \in Threads, Return(t) PROVE AccountInv'
    <2>1. CallRecord(NoCall) /\ NoCall.pc = "idle"
      BY DEF CallRecord, Fields, NoCall
    <2>2. Goes(t, NoCall) /\ call[t].pc = "done" /\ UNCHANGED <<g_handles, self_h, reopened>>
      BY <1>4 DEF Return
    <2>3. CallRecords' /\ call'[t] = NoCall /\ \A u \in Threads \ {t} : call'[u] = call[u]
      BY <2>1, <2>2, GoesRecord
    <2>4. QED BY <2>1, <2>2, <2>3, AccountKept
  <1>5. QED
    BY <1>1, <1>2, <1>3, <1>4, AccountOpen, AccountRegister, AccountOpened, AccountClose,
       AccountClosed DEF Next

\* However often and by how many threads at once an object is opened and
\* closed, beside any calls and with open() failing at will, it has lost at most
\* one handle for each open() that found it open, being opened or being closed.
THEOREM HandlesAreAccounted == Spec => []HandlesAccounted
  <1>1. AccountInv => HandlesAccounted
    <2> SUFFICES ASSUME AccountInv PROVE HandlesAccounted
      OBVIOUS
    <2>1. g_handles \subseteq Collections
      BY DEF Collections
    <2>2. /\ Cardinality(g_handles) \in Nat /\ Cardinality(Collections) \in Nat
          /\ Cardinality(g_handles) <= Cardinality(Collections)
      BY <2>1, FS_Subset, FS_CardinalityType DEF AccountInv
    <2>3. IsClosed => Vacant
      BY CApiAssumption DEF IsClosed, Vacant, AccountInv, Collections
    <2>4. QED BY <2>2, <2>3 DEF AccountInv, HandlesAccounted
  <1>2. QED BY <1>1, AccountInit, AccountNext, PTL DEF Spec

(***************************************************************************)
(* What is stored, what is indexed and what was promised, of an object that *)
(* is opened only when it is closed                                        *)
(***************************************************************************)

\* An open() runs alone.
OpensAlone ==
  \A t \in Threads : call[t].pc \in {"opening", "opened"} =>
    self_h = Null /\ \A u \in Threads \ {t} : call[u].pc = "idle"

\* The table holds at most the handle of the object, and nothing once a
\* close() has begun.
HandleInv ==
  /\ CallRecords
  /\ OpensAlone
  /\ self_h \in Addrs \cup {Null}
  /\ ~Opening => g_handles \subseteq {self_h} \ {Null}
  /\ Closing => g_handles = {}
  /\ \A t \in Threads :
       /\ call[t].pc = "opening" => g_handles = {} /\ call[t].h \in Addrs
       /\ call[t].pc = "opened" =>
            g_handles = {call[t].h} \ {Null} /\ call[t].h \in Addrs \cup {Null}

\* No payload holds a NUL, which would end it in C.
NoNul == \A p \in Payloads : \A k \in DOMAIN p : p[k] # "nul"

Tasks == Seq([id : Ids, payload : Payloads])
CallOK(c) ==
  /\ c.pc \in {"idle", "called", "found", "stored", "reading", "done",
               "opening", "opened", "closing"}
  /\ c.pc = "stored" => c.fn \in {"add", "remove"}
  /\ c.fn = "add" => c.todo \in Tasks /\ c.todo # <<>>
  /\ c.fn = "remove" => Head(c.todo).id \in Ids

Busy(t) == call[t].pc \notin Outside
Stored == {t \in Threads : call[t].pc = "stored"}
Quiet(i) == \A t \in Stored : Target(t).id # i

StoreTypes ==
  /\ disk \in [Ids -> Payloads \cup {NoPayload}]
  /\ told \in [Ids -> Payloads \cup {NoPayload}]
  /\ index \in [Addrs -> [Ids -> {"absent", "live", "dead"}]]
  /\ \A t \in Threads : CallOK(call[t])

\* A call in progress uses the open handle, close() runs alone, and open() has
\* read what is stored.
HandleUsed ==
  /\ (self_h # Null /\ ~Closing) => self_h \in g_handles
  /\ \A t \in Threads : Busy(t) => (call[t].h = self_h /\ self_h \in g_handles)
  /\ \A t, u \in Threads : (t # u /\ call[t].pc = "closing") => call[u].pc = "idle"
  /\ \A t \in Threads : call[t].pc = "opening" =>
       \A i \in Ids : index[call[t].h][i] = "live" <=> disk[i] # NoPayload

\* One write at a time is between storage and index.
OneWriter == \A t, u \in Stored : t = u

\* Storage holds what the write in progress put there, and of every other id
\* what was promised.
Promises ==
  /\ \A t \in Stored :
       disk[Target(t).id] = IF call[t].fn = "add" THEN Target(t).payload ELSE NoPayload
  /\ \A i \in Ids \ doubt :
       Quiet(i) => /\ disk[i] = told[i]
                   /\ \A a \in g_handles : index[a][i] = "live" <=> told[i] # NoPayload

ServeInv == HandleInv /\ StoreTypes /\ HandleUsed /\ OneWriter /\ Promises

LEMMA WholeString == ASSUME NoNul, NEW p \in Payloads PROVE CString(p) = p
  <1>1. p \in Seq(Characters)
    BY CApiAssumption
  <1>2. {k \in 1 .. Len(p) : p[k] = "nul"} = {}
    BY <1>1 DEF NoNul
  <1>3. QED BY <1>2 DEF CString

LEMMA Batch ==
  ASSUME NEW S, NEW s \in Seq(S), s # <<>>
  PROVE  /\ Head(s) \in S
         /\ Len(s) > 1 => (Tail(s) \in Seq(S) /\ Tail(s) # <<>>)
  <1>1. Len(s) \in Nat /\ Len(s) # 0
    OBVIOUS
  <1>2. Head(s) \in S
    BY <1>1
  <1>3. Tail(s) \in Seq(S) /\ Len(Tail(s)) = Len(s) - 1
    BY <1>1
  <1>4. Len(s) > 1 => Len(Tail(s)) # 0
    BY <1>1, <1>3
  <1>5. Len(<<>>) = 0
    OBVIOUS
  <1>6. QED BY <1>2, <1>3, <1>4, <1>5

LEMMA CallOKSame ==
  ASSUME NEW c, NEW d, CallOK(c), d.pc = c.pc \/ d.pc \in {"found", "reading", "done"},
         d.fn = c.fn, d.todo = c.todo
  PROVE  CallOK(d)
  BY DEF CallOK

\* What a step of a call leaves of the other calls.
LEMMA OtherCalls ==
  ASSUME HandleInv, StoreTypes, HandleUsed, NEW t \in Threads, CallStep(t),
         UNCHANGED self_h
  PROVE  /\ CallRecords /\ CallRecords' /\ CallRecord(call[t])
         /\ SameCall(call'[t], call[t])
         /\ call[t].h = self_h /\ self_h \in g_handles /\ g_handles = {self_h}
         /\ self_h \in Addrs
         /\ HandleUsed'
         /\ \A u \in Threads \ {t} : CallOK(call'[u])
         /\ Stored' \ {t} = Stored \ {t}
         /\ \A u \in Stored \ {t} : /\ Target(u)' = Target(u)
                                    /\ call'[u].fn = call[u].fn
  <1> CallRecords BY DEF HandleInv
  <1>1. /\ UNCHANGED g_handles
        /\ Busy(t) /\ ~Opening
    BY CallStepFrame DEF Busy, Outside, Opening, HandleInv, OpensAlone
  <1>2. /\ CallRecords'
        /\ SameCall(call'[t], call[t])
        /\ \A u \in Threads \ {t} :
              /\ call'[u].pc = call[u].pc
              /\ call'[u].h = call[u].h
              /\ call'[u].fn = call[u].fn
              /\ call'[u].todo = call[u].todo
    BY CallStepRecord
  <1>3. call[t].h = self_h /\ self_h \in g_handles /\ g_handles = {self_h} /\ self_h \in Addrs
    BY <1>1 DEF HandleUsed, HandleInv
  <1>9. \A u \in Threads : call'[u].pc # "opening"
    BY <1>1, <1>2 DEF Opening, SameCall, Outside
  <1>4. HandleUsed'
    BY <1>1, <1>2, <1>3, <1>9 DEF HandleUsed, Busy, Outside, SameCall, Closing
  <1>5. ASSUME NEW u \in Threads \ {t} PROVE CallOK(call'[u])
    BY <1>2, CallOKSame DEF StoreTypes
  <1>6. Stored' \ {t} = Stored \ {t}
    BY <1>2 DEF Stored
  <1>7. \A u \in Stored \ {t} : Target(u)' = Target(u) /\ call'[u].fn = call[u].fn
    BY <1>2 DEF Stored, Target
  <1>8. QED BY <1>2, <1>3, <1>4, <1>5, <1>6, <1>7 DEF CallRecords

\* The write mutex: who holds it is the only one between storage and index.
LEMMA MutexTaken ==
  ASSUME HandleInv, HandleUsed, NEW t \in Threads, Busy(t), call[t].pc # "stored",
         WriteMutexFree(t)
  PROVE  Stored = {}
  BY DEF HandleUsed, Busy, Outside, WriteMutexFree, Others, Stored

LEMMA EndsEffect ==
  ASSUME CallRecords, NEW t \in Threads, NEW rc, Ends(t, rc)
  PROVE  call'[t].pc = "done" /\ call'[t].todo = call[t].todo
  BY DEF CallRecords, CallRecord, Fields, Ends, Goes

\* The steps that write nothing.
LEMMA ReadOnly ==
  ASSUME CallRecords, NEW t \in Threads, CallStep(t), ~AddStore(t), ~AddIndex(t),
         ~RemoveStore(t), ~RemoveIndex(t), ~StorageFails(t)
  PROVE  /\ UNCHANGED <<g_handles, disk, index, told, doubt>>
         /\ call[t].pc # "stored"
         /\ call'[t].pc \in {"found", "reading", "done"}
         /\ call'[t].todo = call[t].todo
  <1> CallRecord(call[t])
    BY DEF CallRecords
  <1>0. ASSUME NEW c, Goes(t, c) PROVE call'[t] = c
    BY <1>0 DEF Goes, CallRecords
  <1>1. CASE Lookup(t)
    <2>1. \/ Goes(t, [call[t] EXCEPT !.pc = "found"])
          \/ Ends(t, -1)
      BY <1>1 DEF Lookup
    <2>2. CASE Goes(t, [call[t] EXCEPT !.pc = "found"])
      <3>1. call'[t] = [call[t] EXCEPT !.pc = "found"]
        BY <1>0, <2>2
      <3>2. QED BY <1>1, <3>1 DEF Lookup, CallRecord, Fields
    <2>3. QED BY <1>1, <2>1, <2>2, EndsEffect DEF Lookup
  <1>2. CASE AddRefused(t) BY <1>2, EndsEffect DEF AddRefused, Found
  <1>3. CASE SearchHits(t)
    <2>1. PICK H : call'[t] = [call[t] EXCEPT !.pc = "reading", !.hits = H,
                                              !.excused = HalfRemoved(call[t].h)]
      BY <1>0, <1>3 DEF SearchHits
    <2>2. QED BY <1>3, <2>1 DEF SearchHits, Found, CallRecord, Fields
  <1>4. ASSUME NEW i \in Ids, SearchGet(t, i)
        PROVE  /\ UNCHANGED <<g_handles, disk, index, told, doubt>>
               /\ call[t].pc = "reading"
               /\ call'[t].pc = "reading"
               /\ call'[t].todo = call[t].todo
    <2> DEFINE payload == IF disk[i] = NoPayload THEN <<>> ELSE disk[i]
               got == {[id |-> i, text |-> json_escape(payload)]}
    <2>1. call'[t] = [call[t] EXCEPT !.hits = @ \ {i}, !.excused = @ \cup doubt,
                                     !.got = @ \cup got]
      BY <1>0, <1>4 DEF SearchGet
    <2> HIDE DEF got
    <2>2. QED BY <1>4, <2>1 DEF SearchGet, CallRecord, Fields
  <1>5. CASE SearchEnds(t) BY <1>5, EndsEffect DEF SearchEnds
  <1>6. CASE Get(t) BY <1>6, EndsEffect DEF Get, Found
  <1>7. CASE Maintain(t) BY <1>7, EndsEffect DEF Maintain, Found
  <1>8. QED BY <1>1, <1>2, <1>3, <1>4, <1>5, <1>6, <1>7 DEF CallStep

LEMMA ReadOnlyServes ==
  ASSUME ServeInv, NEW t \in Threads, CallStep(t), UNCHANGED self_h, ~AddStore(t),
         ~AddIndex(t), ~RemoveStore(t), ~RemoveIndex(t), ~StorageFails(t)
  PROVE  (StoreTypes /\ OneWriter /\ Promises)'
  <1> USE DEF ServeInv
  <1>1. /\ UNCHANGED <<g_handles, disk, index, told, doubt>>
        /\ call[t].pc # "stored"
        /\ call'[t].pc \in {"found", "reading", "done"}
        /\ call'[t].todo = call[t].todo
    BY ReadOnly DEF HandleInv
  <1>2. Stored' = Stored
    BY <1>1, OtherCalls DEF Stored
  <1>3. CallOK(call'[t])
    BY <1>1, OtherCalls, CallOKSame DEF StoreTypes, SameCall
  <1>4. StoreTypes'
    BY <1>1, <1>3, OtherCalls DEF StoreTypes
  <1>5. \A u \in Stored : Target(u)' = Target(u) /\ call'[u].fn = call[u].fn
    BY <1>1, OtherCalls DEF Stored
  <1>6. Promises'
    BY <1>1, <1>2, <1>5 DEF Promises, Quiet
  <1>7. QED BY <1>2, <1>4, <1>6 DEF OneWriter

LEMMA AddStoreServes ==
  ASSUME NoNul, ServeInv, NEW t \in Threads, AddStore(t), UNCHANGED self_h
  PROVE  (StoreTypes /\ OneWriter /\ Promises)'
  <1> USE DEF ServeInv
  <1> DEFINE k == Target(t).id
             p == Target(t).payload
  <1>0. CallStep(t)
    BY DEF CallStep
  <1>1. call'[t] = [call[t] EXCEPT !.pc = "stored"]
    BY DEF AddStore, Goes, HandleInv, CallRecords
  <1>2. call'[t].pc = "stored" /\ call'[t].todo = call[t].todo /\ call'[t].fn = "add"
    BY <1>0, <1>1, OtherCalls DEF CallRecord, Fields, AddStore, Found
  <1>3. call[t].todo \in Tasks /\ call[t].todo # <<>>
    BY DEF StoreTypes, CallOK, AddStore, Found
  <1>4. k \in Ids /\ p \in Payloads /\ Target(t)' = Target(t)
    <2>1. Head(call[t].todo) \in [id : Ids, payload : Payloads]
      BY <1>3, Batch DEF Tasks
    <2>2. QED BY <1>2, <2>1 DEF Target
  <1>5. disk' = [disk EXCEPT ![k] = p] /\ UNCHANGED <<g_handles, index, told, doubt>>
    BY <1>4, WholeString DEF AddStore
  <1>6. Stored = {}
    BY MutexTaken DEF AddStore, Found, Busy, Outside
  <1>7. Stored' = {t}
    BY <1>0, <1>2, <1>6, OtherCalls DEF Stored
  <1>8. CallOK(call'[t])
    BY <1>2, <1>3 DEF CallOK
  <1> HIDE DEF k, p
  <1>9. StoreTypes'
    BY <1>0, <1>4, <1>5, <1>8, OtherCalls DEF StoreTypes
  <1>10. \A i \in Ids \ {k} : disk'[i] = disk[i]
    BY <1>4, <1>5 DEF StoreTypes
  <1>11. disk'[k] = p
    BY <1>4, <1>5 DEF StoreTypes
  <1>12. Target(t)'.id = k /\ Target(t)'.payload = p
    BY <1>4 DEF k, p
  <1>13. \A i \in Ids : Quiet(i)' => i # k
    BY <1>7, <1>12 DEF Quiet
  <1>14. \A i \in Ids : Quiet(i)
    BY <1>6 DEF Quiet
  <1>15. Promises'
    BY <1>2, <1>5, <1>7, <1>10, <1>11, <1>12, <1>13, <1>14 DEF Promises
  <1>16. QED BY <1>7, <1>9, <1>15 DEF OneWriter

LEMMA RemoveStoreServes ==
  ASSUME ServeInv, NEW t \in Threads, RemoveStore(t), UNCHANGED self_h
  PROVE  (StoreTypes /\ OneWriter /\ Promises)'
  <1> USE DEF ServeInv
  <1> DEFINE k == Target(t).id
  <1>0. CallStep(t)
    BY DEF CallStep
  <1>1. call'[t] = [call[t] EXCEPT !.pc = "stored"]
    BY RemoveStoreRecord DEF HandleInv
  <1>2. call'[t].pc = "stored" /\ call'[t].todo = call[t].todo /\ call'[t].fn = "remove"
    BY <1>0, <1>1, OtherCalls DEF CallRecord, Fields, RemoveStore, Found
  <1>4. k \in Ids /\ Target(t)' = Target(t)
    BY <1>2 DEF Target, StoreTypes, CallOK, RemoveStore, Found
  <1>5. disk' = [disk EXCEPT ![k] = NoPayload] /\ UNCHANGED <<g_handles, index, told, doubt>>
    BY DEF RemoveStore
  <1>6. Stored = {}
    BY MutexTaken DEF RemoveStore, Found, Busy, Outside
  <1>7. Stored' = {t}
    BY <1>0, <1>2, <1>6, OtherCalls DEF Stored
  <1>8. CallOK(call'[t])
    BY <1>2 DEF CallOK, StoreTypes, RemoveStore, Found
  <1> HIDE DEF k
  <1>9. StoreTypes'
    BY <1>0, <1>4, <1>5, <1>8, OtherCalls DEF StoreTypes
  <1>10. \A i \in Ids \ {k} : disk'[i] = disk[i]
    BY <1>4, <1>5 DEF StoreTypes
  <1>11. disk'[k] = NoPayload
    BY <1>4, <1>5 DEF StoreTypes
  <1>12. Target(t)'.id = k
    BY <1>4 DEF k
  <1>13. \A i \in Ids : Quiet(i)' => i # k
    BY <1>7, <1>12 DEF Quiet
  <1>14. \A i \in Ids : Quiet(i)
    BY <1>6 DEF Quiet
  <1>15. Promises'
    BY <1>2, <1>5, <1>7, <1>10, <1>11, <1>12, <1>13, <1>14 DEF Promises
  <1>16. QED BY <1>7, <1>9, <1>15 DEF OneWriter

\* The index step of a write: v is what it promises, and m says whether the
\* index holds the id afterwards.
LEMMA IndexServes ==
  ASSUME ServeInv, NEW t \in Threads, CallStep(t), UNCHANGED <<self_h, disk>>,
         call[t].pc = "stored", call'[t].pc \in {"found", "done"}, CallOK(call'[t]),
         NEW k \in Ids, k = Target(t).id, NEW v \in Payloads \cup {NoPayload},
         NEW m \in {"absent", "live", "dead"},
         disk[k] = v, m = "live" <=> v # NoPayload,
         index' = [index EXCEPT ![self_h][k] = m],
         told' = [told EXCEPT ![k] = v], doubt' = doubt \ {k}
  PROVE  (StoreTypes /\ OneWriter /\ Promises)'
  <1> USE DEF ServeInv
  <1>1. Stored = {t}
    BY DEF OneWriter, Stored
  <1>2. Stored' = {}
    BY <1>1, OtherCalls DEF Stored
  <1>3. self_h \in Addrs /\ g_handles' = {self_h}
    BY OtherCalls, CallStepFrame
  <1>4. StoreTypes'
    BY <1>3, OtherCalls DEF StoreTypes
  <1>5. \A i \in Ids \ {k} : Quiet(i)
    BY <1>1 DEF Quiet
  <1>6. \A i \in Ids \ {k} : told'[i] = told[i] /\ index'[self_h][i] = index[self_h][i]
    BY <1>3 DEF StoreTypes
  <1>7. told'[k] = v /\ index'[self_h][k] = m
    BY <1>3 DEF StoreTypes
  <1>8. \A i \in Ids \ doubt' : i # k => i \notin doubt
    OBVIOUS
  <1>9. g_handles = {self_h}
    BY OtherCalls
  <1>10. Promises'
    <2>1. ASSUME NEW i \in Ids, i \notin doubt'
          PROVE  disk'[i] = told'[i] /\ (index'[self_h][i] = "live" <=> told'[i] # NoPayload)
      <3>1. CASE i = k BY <3>1, <1>7
      <3>2. CASE i # k BY <2>1, <3>2, <1>5, <1>6, <1>8, <1>9 DEF Promises
      <3>3. QED BY <3>1, <3>2
    <2>2. QED BY <1>2, <1>3, <2>1 DEF Promises
  <1>11. QED BY <1>2, <1>4, <1>10 DEF OneWriter

LEMMA AddIndexServes ==
  ASSUME ServeInv, NEW t \in Threads, AddIndex(t), UNCHANGED self_h
  PROVE  (StoreTypes /\ OneWriter /\ Promises)'
  <1> USE DEF ServeInv
  <1>0. CallStep(t)
    BY DEF CallStep
  <1>1. call[t].pc = "stored" /\ call[t].fn = "add"
    BY DEF AddIndex
  <1>2. call[t].todo \in Tasks /\ call[t].todo # <<>>
    BY <1>1 DEF StoreTypes, CallOK
  <1>3. Head(call[t].todo) \in [id : Ids, payload : Payloads]
    BY <1>2, Batch DEF Tasks
  <1>4. PICK k, v : k = Target(t).id /\ v = Target(t).payload
    OBVIOUS
  <1>5. k \in Ids /\ v \in Payloads /\ v # NoPayload
    BY <1>3, <1>4, CApiAssumption DEF Target
  <1>6. /\ call'[t].pc \in {"found", "done"}
        /\ CallOK(call'[t])
    <2>1. CASE Len(call[t].todo) > 1
      <3>1. call'[t] = [call[t] EXCEPT !.pc = "found", !.todo = Tail(@)]
        BY <2>1 DEF AddIndex, Goes, HandleInv, CallRecords
      <3>2. call'[t].pc = "found" /\ call'[t].fn = "add" /\ call'[t].todo = Tail(call[t].todo)
        BY <1>0, <1>1, <3>1, OtherCalls DEF CallRecord, Fields
      <3>3. Tail(call[t].todo) \in Tasks /\ Tail(call[t].todo) # <<>>
        BY <1>2, <2>1, Batch DEF Tasks
      <3>4. QED BY <3>2, <3>3 DEF CallOK
    <2>2. CASE ~(Len(call[t].todo) > 1)
      <3>1. Ends(t, 0)
        BY <2>2 DEF AddIndex
      <3>2. call'[t].pc = "done" /\ call'[t].todo = call[t].todo /\ call'[t].fn = call[t].fn
        BY <1>0, <3>1, EndsEffect, OtherCalls DEF SameCall
      <3>3. QED BY <3>2, CallOKSame DEF StoreTypes
    <2>3. QED BY <2>1, <2>2
  <1>7. disk[k] = v
    BY <1>1, <1>4 DEF Promises, Stored
  <1>8. call[t].h = self_h
    BY <1>0, OtherCalls
  <1>9. /\ index' = [index EXCEPT ![self_h][k] = "live"]
        /\ told' = [told EXCEPT ![k] = v]
        /\ doubt' = doubt \ {k}
        /\ UNCHANGED disk
    BY <1>4, <1>8 DEF AddIndex
  <1>10. QED BY <1>0, <1>1, <1>4, <1>5, <1>6, <1>7, <1>9, IndexServes

LEMMA RemoveIndexServes ==
  ASSUME ServeInv, NEW t \in Threads, RemoveIndex(t), UNCHANGED self_h
  PROVE  (StoreTypes /\ OneWriter /\ Promises)'
  <1> USE DEF ServeInv
  <1>0. CallStep(t)
    BY DEF CallStep
  <1>1. call[t].pc = "stored" /\ call[t].fn = "remove"
    BY DEF RemoveIndex
  <1>2. PICK k : k = Target(t).id
    OBVIOUS
  <1>3. k \in Ids
    BY <1>1, <1>2 DEF Target, StoreTypes, CallOK
  <1>4. call'[t].pc = "done" /\ CallOK(call'[t])
    <2>1. PICK rc : Ends(t, rc)
      BY DEF RemoveIndex
    <2>2. call'[t].pc = "done" /\ call'[t].todo = call[t].todo /\ call'[t].fn = call[t].fn
      BY <1>0, <2>1, EndsEffect, OtherCalls DEF SameCall
    <2>3. QED BY <2>2, CallOKSame DEF StoreTypes
  <1>5. disk[k] = NoPayload
    BY <1>1, <1>2 DEF Promises, Stored
  <1>6. call[t].h = self_h /\ self_h \in Addrs
    BY <1>0, OtherCalls
  <1>7. PICK m : m = IF index[self_h][k] = "absent" THEN index[self_h][k] ELSE "dead"
    OBVIOUS
  <1>8. /\ index' = [index EXCEPT ![self_h][k] = m]
        /\ told' = [told EXCEPT ![k] = NoPayload]
        /\ doubt' = doubt \ {k}
        /\ UNCHANGED disk
    BY <1>2, <1>3, <1>6, <1>7 DEF RemoveIndex, StoreTypes
  <1>9. m \in {"absent", "live", "dead"} /\ m # "live"
    BY <1>7
  <1>10. QED BY <1>0, <1>1, <1>2, <1>3, <1>4, <1>5, <1>8, <1>9, IndexServes

LEMMA StorageFailsServes ==
  ASSUME NoNul, ServeInv, NEW t \in Threads, StorageFails(t), UNCHANGED self_h
  PROVE  (StoreTypes /\ OneWriter /\ Promises)'
  <1> USE DEF ServeInv
  <1>0. CallStep(t)
    BY DEF CallStep
  <1>1. call[t].pc = "found" /\ call[t].fn \in {"add", "remove"}
    BY DEF StorageFails, Found
  <1>2. PICK k, p : k = Target(t).id /\ p = Target(t).payload
    OBVIOUS
  <1>3. k \in Ids /\ (call[t].fn = "add" => p \in Payloads)
    <2>1. CASE call[t].fn = "add"
      <3>1. call[t].todo \in Tasks /\ call[t].todo # <<>>
        BY <2>1 DEF StoreTypes, CallOK
      <3>2. Head(call[t].todo) \in [id : Ids, payload : Payloads]
        BY <3>1, Batch DEF Tasks
      <3>3. QED BY <1>2, <3>2 DEF Target
    <2>2. CASE call[t].fn = "remove"
      BY <2>2, <1>2 DEF Target, StoreTypes, CallOK
    <2>3. QED BY <1>1, <2>1, <2>2
  <1>4. PICK v \in Payloads \cup {NoPayload} : disk' = [disk EXCEPT ![k] = v]
    <2>1. disk = [disk EXCEPT ![k] = disk[k]] /\ disk[k] \in Payloads \cup {NoPayload}
      BY <1>3 DEF StoreTypes
    <2>2. \/ UNCHANGED disk
          \/ call[t].fn = "add" /\ disk' = [disk EXCEPT ![k] = CString(p)]
          \/ call[t].fn = "remove" /\ disk' = [disk EXCEPT ![k] = NoPayload]
      BY <1>2 DEF StorageFails
    <2>3. QED BY <2>1, <2>2, <1>3, WholeString
  <1>5. call'[t].pc = "done" /\ CallOK(call'[t])
    <2>1. Ends(t, -2)
      BY DEF StorageFails
    <2>2. call'[t].pc = "done" /\ call'[t].todo = call[t].todo /\ call'[t].fn = call[t].fn
      BY <1>0, <2>1, EndsEffect, OtherCalls DEF SameCall
    <2>3. QED BY <2>2, CallOKSame DEF StoreTypes
  <1>6. doubt' = doubt \cup {k} /\ UNCHANGED <<g_handles, index, told>>
    BY <1>2 DEF StorageFails
  <1>7. Stored = {}
    BY <1>1, MutexTaken DEF StorageFails, Busy, Outside
  <1>8. Stored' = {}
    BY <1>0, <1>5, <1>7, OtherCalls DEF Stored
  <1>9. StoreTypes'
    BY <1>0, <1>3, <1>4, <1>5, <1>6, OtherCalls DEF StoreTypes
  <1>10. \A i \in Ids \ {k} : disk'[i] = disk[i]
    BY <1>3, <1>4 DEF StoreTypes
  <1>11. \A i \in Ids : Quiet(i)
    BY <1>7 DEF Quiet
  <1>12. Promises'
    BY <1>6, <1>8, <1>10, <1>11 DEF Promises
  <1>13. QED BY <1>8, <1>9, <1>12 DEF OneWriter

LEMMA CallServes ==
  ASSUME NoNul, ServeInv, NEW t \in Threads, CallStep(t), UNCHANGED self_h
  PROVE  (StoreTypes /\ HandleUsed /\ OneWriter /\ Promises)'
  <1>1. HandleUsed'
    BY OtherCalls DEF ServeInv
  <1>2. (StoreTypes /\ OneWriter /\ Promises)'
    BY AddStoreServes, RemoveStoreServes, AddIndexServes, RemoveIndexServes,
       StorageFailsServes, ReadOnlyServes
  <1>3. QED BY <1>1, <1>2

\* An open() of a closed object finds no call in progress.
LEMMA OpenAlone ==
  ASSUME reopened = 0, reopened' = 0, ServeInv, NEW t \in Threads, Open(t)
  PROVE  /\ \A u \in Threads : call[u].pc = "idle"
         /\ self_h = Null /\ self_h' = Null /\ g_handles = {} /\ g_handles' = {}
         /\ UNCHANGED <<disk, gave, told, doubt>>
  <1>1. IsClosed
    <2>1. reopened' # reopened + 1
      OBVIOUS
    <2>2. QED BY <2>1 DEF Open
  <1>2. self_h = Null /\ ~Opening /\ g_handles = {}
    BY <1>1 DEF IsClosed, ServeInv, HandleInv
  <1>3. \A u \in Threads : call[u].pc = "idle"
    BY <1>1, <1>2 DEF IsClosed, Opening, Closing, ServeInv, HandleUsed, Busy, Outside
  <1>4. QED BY <1>2, <1>3 DEF Open, CollectionOpen

LEMMA OpenServes ==
  ASSUME reopened = 0, reopened' = 0, ServeInv, NEW t \in Threads, Open(t)
  PROVE  ServeInv'
  <1>1. /\ \A u \in Threads : call[u].pc = "idle"
        /\ self_h = Null /\ self_h' = Null /\ g_handles = {} /\ g_handles' = {}
        /\ UNCHANGED <<disk, told, doubt>>
    BY OpenAlone
  <1>2. ASSUME NEW c, CallRecord(c), CallOK(c), Goes(t, c),
               index' \in [Addrs -> [Ids -> {"absent", "live", "dead"}]],
               \/ /\ c.pc = "opening" /\ c.h \in Addrs
                  /\ \A i \in Ids : index'[c.h][i] = "live" <=> disk[i] # NoPayload
               \/ c.pc = "opened" /\ c.h = Null
        PROVE  ServeInv'
    <2>1. CallRecords' /\ call'[t] = c /\ \A u \in Threads \ {t} : call'[u] = call[u]
      BY <1>2, GoesRecord DEF ServeInv, HandleInv
    <2>2. HandleInv'
      BY <1>1, <1>2, <2>1 DEF HandleInv, OpensAlone, Opening, Closing
    <2>3. Stored = {} /\ Stored' = {}
      BY <1>1, <1>2, <2>1 DEF Stored
    <2>4. StoreTypes'
      BY <1>1, <1>2, <2>1 DEF ServeInv, StoreTypes
    <2>5. HandleUsed'
      BY <1>1, <1>2, <2>1 DEF HandleUsed, Busy, Outside
    <2>6. \A i \in Ids : Quiet(i)
      BY <2>3 DEF Quiet
    <2>7. Promises'
      BY <1>1, <2>3, <2>6 DEF ServeInv, Promises
    <2>8. QED BY <2>2, <2>3, <2>4, <2>5, <2>7 DEF ServeInv, OneWriter
  <1>3. ASSUME NEW a \in Addrs, CollectionOpen(a),
               Goes(t, [NoCall EXCEPT !.pc = "opening", !.h = a])
        PROVE  ServeInv'
    <2> DEFINE c == [NoCall EXCEPT !.pc = "opening", !.h = a]
    <2>1. CallRecord(c) /\ CallOK(c) /\ c.pc = "opening" /\ c.h = a
      BY DEF CallRecord, CallOK, Fields, NoCall
    <2>2. /\ index' \in [Addrs -> [Ids -> {"absent", "live", "dead"}]]
          /\ \A i \in Ids : index'[a][i] = "live" <=> disk[i] # NoPayload
      BY <1>3 DEF CollectionOpen, ServeInv, StoreTypes
    <2>3. Goes(t, c)
      BY <1>3
    <2> HIDE DEF c
    <2>4. QED BY <1>2, <2>1, <2>2, <2>3
  <1>4. ASSUME Goes(t, [NoCall EXCEPT !.pc = "opened"]), UNCHANGED index
        PROVE  ServeInv'
    <2> DEFINE c == [NoCall EXCEPT !.pc = "opened"]
    <2>1. CallRecord(c) /\ CallOK(c) /\ c.pc = "opened" /\ c.h = Null
      BY DEF CallRecord, CallOK, Fields, NoCall
    <2>2. index' \in [Addrs -> [Ids -> {"absent", "live", "dead"}]]
      BY <1>4 DEF ServeInv, StoreTypes
    <2>3. Goes(t, c)
      BY <1>4
    <2> HIDE DEF c
    <2>4. QED BY <1>2, <2>1, <2>2, <2>3
  <1>5. QED BY <1>3, <1>4 DEF Open

LEMMA RegisterServes ==
  ASSUME ServeInv, NEW t \in Threads, Register(t)
  PROVE  ServeInv'
  <1> DEFINE c == [call[t] EXCEPT !.pc = "opened"]
  <1>1. /\ call[t].pc = "opening" /\ Goes(t, c)
        /\ g_handles' = g_handles \cup {call[t].h}
        /\ UNCHANGED <<disk, index, told, doubt, self_h>>
    BY DEF Register, lumina_open
  <1>2. /\ CallRecord(c) /\ c.pc = "opened" /\ c.h = call[t].h
        /\ c.fn = call[t].fn /\ c.todo = call[t].todo
    BY DEF CallRecords, CallRecord, Fields, ServeInv, HandleInv
  <1> HIDE DEF c
  <1>3. CallOK(c)
    BY <1>1, <1>2 DEF CallOK, ServeInv, StoreTypes
  <1>4. CallRecords' /\ call'[t] = c /\ \A u \in Threads \ {t} : call'[u] = call[u]
    BY <1>1, <1>2, GoesRecord DEF ServeInv, HandleInv
  <1>5. /\ \A u \in Threads \ {t} : call[u].pc = "idle"
        /\ self_h = Null /\ g_handles = {} /\ call[t].h \in Addrs
    BY <1>1 DEF ServeInv, HandleInv, OpensAlone
  <1>6. g_handles' = {c.h} /\ g_handles' = {c.h} \ {Null}
    BY <1>1, <1>2, <1>5, CApiAssumption
  <1>7. HandleInv'
    BY <1>1, <1>2, <1>4, <1>5, <1>6 DEF HandleInv, OpensAlone, Opening, Closing
  <1>8. Stored = {} /\ Stored' = {}
    BY <1>1, <1>2, <1>4, <1>5 DEF Stored
  <1>9. StoreTypes'
    BY <1>1, <1>3, <1>4 DEF ServeInv, StoreTypes
  <1>10. HandleUsed'
    BY <1>1, <1>2, <1>4, <1>5 DEF HandleUsed, Busy, Outside
  <1>11. \A i \in Ids : Quiet(i)
    BY <1>8 DEF Quiet
  <1>12. \A i \in Ids : index[c.h][i] = "live" <=> disk[i] # NoPayload
    BY <1>1, <1>2 DEF ServeInv, HandleUsed
  <1>13. Promises'
    BY <1>1, <1>6, <1>8, <1>11, <1>12 DEF ServeInv, Promises
  <1>14. QED BY <1>7, <1>8, <1>9, <1>10, <1>13 DEF ServeInv, OneWriter

LEMMA CloseServes ==
  ASSUME ~CloseRaces, ServeInv, NEW t \in Threads, Close(t)
  PROVE  (StoreTypes /\ HandleUsed /\ OneWriter /\ Promises)'
  <1> USE DEF ServeInv
  <1>1. \A u \in Threads : call[u].pc = "idle"
    BY DEF Close, Idle
  <1>2. /\ call'[t].pc = "closing" /\ call'[t].fn = "none"
        /\ \A u \in Threads \ {t} : call'[u] = call[u]
    BY DEF Close, Goes, NoCall, HandleInv, CallRecords
  <1>3. g_handles' = {} /\ UNCHANGED <<disk, told, doubt, self_h>>
    <2>1. ~Opening
      BY <1>1 DEF Opening
    <2>2. QED BY <2>1 DEF Close, lumina_close, HandlesWithout, HandleInv
  <1>4. Stored = {} /\ Stored' = {}
    BY <1>1, <1>2 DEF Stored
  <1>5. index' \in [Addrs -> [Ids -> {"absent", "live", "dead"}]]
    BY DEF Close, lumina_close, StoreTypes
  <1>6. CallOK(call'[t])
    BY <1>2 DEF CallOK
  <1>7. StoreTypes'
    BY <1>2, <1>3, <1>5, <1>6 DEF StoreTypes
  <1>8. HandleUsed'
    BY <1>1, <1>2 DEF HandleUsed, Busy, Outside, Closing
  <1>9. \A i \in Ids : Quiet(i)
    BY <1>4 DEF Quiet
  <1>10. Promises'
    BY <1>3, <1>4, <1>9 DEF Promises
  <1>11. QED BY <1>4, <1>7, <1>8, <1>10 DEF OneWriter

\* The steps of the object itself, which leave the library's state alone.
LEMMA ObjectServes ==
  ASSUME ServeInv, NEW t \in Threads, call[t].pc # "stored", NEW c, Goes(t, c),
         c.pc # "stored", CallOK(c), HandleUsed',
         UNCHANGED <<g_handles, disk, index, told, doubt>>
  PROVE  (StoreTypes /\ HandleUsed /\ OneWriter /\ Promises)'
  <1> USE DEF ServeInv
  <1>1. call'[t] = c /\ \A u \in Threads \ {t} : call'[u] = call[u]
    BY DEF Goes, HandleInv, CallRecords
  <1>2. Stored' = Stored /\ t \notin Stored
    BY <1>1 DEF Stored
  <1>3. StoreTypes'
    BY <1>1 DEF StoreTypes
  <1>4. \A u \in Stored : Target(u)' = Target(u) /\ call'[u].fn = call[u].fn
    BY <1>1, <1>2 DEF Target, Stored
  <1>5. Promises'
    BY <1>2, <1>4 DEF Promises, Quiet
  <1>6. QED BY <1>2, <1>3, <1>5 DEF OneWriter

LEMMA ClosedServes ==
  ASSUME ServeInv, NEW t \in Threads, Closed(t)
  PROVE  (StoreTypes /\ HandleUsed /\ OneWriter /\ Promises)'
  <1>1. call'[t] = NoCall /\ \A u \in Threads \ {t} : call'[u] = call[u]
    BY DEF Closed, Goes, ServeInv, HandleInv, CallRecords
  <1>2. \A u \in Threads \ {t} : call[u].pc = "idle"
    BY DEF Closed, ServeInv, HandleUsed
  <1>3. HandleUsed'
    BY <1>1, <1>2 DEF HandleUsed, Closed, Busy, Outside, NoCall
  <1>4. CallOK(NoCall) /\ NoCall.pc # "stored"
    BY DEF CallOK, NoCall
  <1>5. QED BY <1>3, <1>4, ObjectServes DEF Closed

LEMMA OpenedServes ==
  ASSUME ServeInv, NEW t \in Threads, Opened(t)
  PROVE  (StoreTypes /\ HandleUsed /\ OneWriter /\ Promises)'
  <1>1. call'[t] = NoCall /\ \A u \in Threads \ {t} : call'[u] = call[u]
    BY DEF Opened, Goes, ServeInv, HandleInv, CallRecords
  <1>2. \A u \in Threads \ {t} : call[u].pc = "idle"
    BY DEF Opened, ServeInv, HandleInv, OpensAlone
  <1>3. self_h' # Null => self_h' \in g_handles'
    BY DEF Opened, ServeInv, HandleInv
  <1>4. NoCall.pc = "idle"
    BY DEF NoCall
  <1>5. HandleUsed'
    BY <1>1, <1>2, <1>3, <1>4 DEF HandleUsed, Busy, Outside
  <1>6. CallOK(NoCall) /\ NoCall.pc # "stored"
    BY DEF CallOK, NoCall
  <1>7. QED BY <1>5, <1>6, ObjectServes DEF Opened

LEMMA ReturnServes ==
  ASSUME ServeInv, NEW t \in Threads, Return(t)
  PROVE  (StoreTypes /\ HandleUsed /\ OneWriter /\ Promises)'
  <1>1. call'[t] = NoCall /\ \A u \in Threads \ {t} : call'[u] = call[u]
    BY DEF Return, Goes, ServeInv, HandleInv, CallRecords
  <1>2. NoCall.pc = "idle"
    BY DEF NoCall
  <1>3. self_h \in g_handles /\ ~Closing /\ \A u \in Threads : call[u].pc # "opening"
    BY DEF OpensAlone, Return, ServeInv, HandleUsed, Busy, Outside, HandleInv
  <1>4. HandleUsed'
    BY <1>1, <1>2, <1>3 DEF HandleUsed, Return, Busy, Outside, ServeInv, Closing
  <1>5. CallOK(NoCall) /\ NoCall.pc # "stored"
    BY DEF CallOK, NoCall
  <1>6. QED BY <1>4, <1>5, ObjectServes DEF Return

LEMMA EnterServes ==
  ASSUME ~CloseRaces, ServeInv, NEW t \in Threads, NEW fn, NEW todo, Enter(t, fn, todo),
         fn = "add" => (todo \in Tasks /\ todo # <<>>),
         fn = "remove" => Head(todo).id \in Ids
  PROVE  (StoreTypes /\ HandleUsed /\ OneWriter /\ Promises)'
  <1> DEFINE c == [NoCall EXCEPT !.fn = fn, !.pc = "called", !.h = self_h, !.todo = todo]
  <1>1. c.fn = fn /\ c.pc = "called" /\ c.h = self_h /\ c.todo = todo
    BY DEF NoCall
  <1>2. Goes(t, c) /\ call[t].pc = "idle" /\ self_h # Null /\ ~Closing
    BY DEF Enter, Idle
  <1> HIDE DEF c
  <1>3. call'[t] = c /\ \A u \in Threads \ {t} : call'[u] = call[u]
    BY <1>2 DEF Goes, ServeInv, HandleInv, CallRecords
  <1>4. UNCHANGED <<g_handles, disk, index, told, doubt, self_h>>
    BY DEF Enter
  <1>5. CallOK(c) /\ c.pc # "stored"
    BY <1>1 DEF CallOK
  <1>6. HandleUsed'
    BY <1>1, <1>2, <1>3, <1>4 DEF HandleUsed, Busy, Outside, ServeInv, Closing
  <1>7. QED BY <1>2, <1>4, <1>5, <1>6, ObjectServes

\* The steps that are not of open() keep at most one handle.
LEMMA HandleNext ==
  ASSUME HandleInv, HandleUsed, [Next]_vars, \A t \in Threads : ~Open(t) /\ ~Register(t)
  PROVE  HandleInv'
  <1> CallRecords BY DEF HandleInv
  <1>1. CASE UNCHANGED vars
    BY <1>1 DEF vars, apiVars, HandleInv, OpensAlone, Opening, Closing, CallRecords, CallRecord
  <1>2. CallRecord(NoCall) /\ NoCall.pc = "idle"
    BY DEF CallRecord, Fields, NoCall
  <1>3. ASSUME NEW t \in Threads, Opened(t) PROVE HandleInv'
    <2>1. CallRecords' /\ call'[t] = NoCall /\ \A u \in Threads \ {t} : call'[u] = call[u]
      BY <1>2, <1>3, GoesRecord DEF Opened
    <2>2. \A u \in Threads : call'[u].pc = "idle"
      BY <1>2, <1>3, <2>1 DEF Opened, HandleInv, OpensAlone
    <2>3. /\ self_h' \in Addrs \cup {Null}
          /\ g_handles' \subseteq {self_h'} \ {Null}
      BY <1>3 DEF Opened, HandleInv
    <2>4. QED BY <2>1, <2>2, <2>3 DEF HandleInv, OpensAlone, Opening, Closing
  <1>4. ASSUME NEW t \in Threads, Close(t) PROVE HandleInv'
    <2> DEFINE c == [NoCall EXCEPT !.pc = "closing"]
    <2>1. CallRecord(c) /\ c.pc = "closing"
      BY DEF CallRecord, Fields, NoCall
    <2>2. /\ Goes(t, c) /\ UNCHANGED self_h /\ self_h # Null
          /\ g_handles' = g_handles \ {self_h}
      BY <1>4 DEF Close, lumina_close, HandlesWithout
    <2> HIDE DEF c
    <2>3. CallRecords' /\ call'[t] = c /\ \A u \in Threads \ {t} : call'[u] = call[u]
      BY <2>1, <2>2, GoesRecord
    <2>4. ~Opening
      BY <2>2 DEF HandleInv, OpensAlone, Opening
    <2>5. ~Opening'
      BY <2>1, <2>3, <2>4 DEF Opening
    <2>6. QED BY <2>2, <2>3, <2>4, <2>5 DEF HandleInv, OpensAlone, Opening
  <1>5. ASSUME NEW t \in Threads, Closed(t) PROVE HandleInv'
    <2>1. CallRecords' /\ call'[t] = NoCall /\ \A u \in Threads \ {t} : call'[u] = call[u]
      BY <1>2, <1>5, GoesRecord DEF Closed
    <2>2. \A u \in Threads : call'[u].pc = "idle"
      BY <1>2, <1>5, <2>1 DEF Closed, HandleUsed
    <2>3. g_handles' = {} /\ self_h' = Null
      BY <1>5 DEF Closed, HandleInv, Closing
    <2>4. QED BY <2>1, <2>2, <2>3 DEF HandleInv, OpensAlone, Opening, Closing
  <1>6. ASSUME NEW t \in Threads, NEW c, Goes(t, c), CallRecord(c), ~Opening,
               c.pc \notin {"opening", "opened", "closing"}, UNCHANGED <<g_handles, self_h>>
        PROVE  HandleInv'
    <2>1. CallRecords' /\ call'[t] = c /\ \A u \in Threads \ {t} : call'[u] = call[u]
      BY <1>6, GoesRecord
    <2>2. ~Opening' /\ (Closing' => Closing)
      BY <1>6, <2>1 DEF Opening, Closing
    <2>3. QED BY <1>6, <2>1, <2>2 DEF HandleInv, OpensAlone, Opening
  <1>7. ASSUME NEW t \in Threads, NEW fn, NEW todo, Enter(t, fn, todo) PROVE HandleInv'
    <2> DEFINE c == [NoCall EXCEPT !.fn = fn, !.pc = "called", !.h = self_h, !.todo = todo]
    <2>1. CallRecord(c) /\ c.pc = "called"
      BY DEF CallRecord, Fields, NoCall
    <2>2. Goes(t, c) /\ self_h # Null /\ UNCHANGED <<g_handles, self_h>>
      BY <1>7 DEF Enter
    <2> HIDE DEF c
    <2>3. ~Opening
      BY <2>2 DEF HandleInv, OpensAlone, Opening
    <2>4. QED BY <1>6, <2>1, <2>2, <2>3
  <1>8. ASSUME NEW t \in Threads, Return(t) PROVE HandleInv'
    <2>1. Goes(t, NoCall) /\ call[t].pc = "done" /\ UNCHANGED <<g_handles, self_h>>
      BY <1>8 DEF Return
    <2>2. ~Opening
      BY <2>1 DEF HandleInv, OpensAlone, Opening
    <2>3. QED BY <1>2, <1>6, <2>1, <2>2
  <1>9. ASSUME NEW t \in Threads, CallStep(t), UNCHANGED self_h PROVE HandleInv'
    <2>1. UNCHANGED g_handles /\ call[t].pc \notin Outside
      BY <1>9, CallStepFrame
    <2>2. /\ CallRecords' /\ call'[t].pc \notin Outside
          /\ \A u \in Threads \ {t} : call'[u].pc = call[u].pc
      BY <1>9, CallStepRecord DEF SameCall
    <2>3. ~Opening
      BY <2>1 DEF HandleInv, OpensAlone, Opening, Outside
    <2>4. ~Opening' /\ (Closing' => Closing)
      BY <2>2, <2>3 DEF Opening, Closing, Outside
    <2>5. QED BY <1>9, <2>1, <2>2, <2>3, <2>4 DEF HandleInv, OpensAlone, Opening
  <1>10. QED BY <1>1, <1>3, <1>4, <1>5, <1>7, <1>8, <1>9 DEF Next

LEMMA ServeInit == Init => ServeInv
  <1> SUFFICES ASSUME Init PROVE ServeInv
    OBVIOUS
  <1>2. \A t \in Threads : call[t] = NoCall
    BY DEF Init, ApiInit
  <1>3. CallOK(NoCall) /\ CallRecord(NoCall) /\ NoCall.pc = "idle"
    BY DEF CallOK, CallRecord, Fields, NoCall
  <1>1. HandleInv
    BY <1>2, <1>3 DEF Init, ApiInit, HandleInv, OpensAlone, Opening, Closing, CallRecords
  <1>4. Stored = {}
    BY <1>2, <1>3 DEF Stored
  <1>5. StoreTypes
    BY <1>2, <1>3 DEF StoreTypes, Init, ApiInit, NothingStored
  <1>6. HandleUsed
    BY <1>2, <1>3 DEF HandleUsed, Busy, Outside, Init
  <1>7. Promises
    BY <1>4 DEF Promises, Init, ApiInit, NothingStored
  <1>8. QED BY <1>1, <1>4, <1>5, <1>6, <1>7 DEF ServeInv, OneWriter

LEMMA ServeNext ==
  ASSUME ~CloseRaces, NoNul, reopened = 0, reopened' = 0, ServeInv, [Next]_vars
  PROVE  ServeInv'
  <1>0. ASSUME NEW t \in Threads, Open(t) \/ Register(t) PROVE ServeInv'
    BY <1>0, OpenServes, RegisterServes
  <1> SUFFICES ASSUME \A t \in Threads : ~Open(t) /\ ~Register(t)
               PROVE  (StoreTypes /\ HandleUsed /\ OneWriter /\ Promises)'
    BY <1>0, HandleNext DEF ServeInv
  <1>1. CASE UNCHANGED vars
    BY <1>1 DEF vars, apiVars, ServeInv, StoreTypes, HandleUsed, OneWriter, Promises,
                Closing, Busy, Stored, Quiet, Target, CallOK
  <1>2. ASSUME NEW t \in Threads, NEW b \in Batches, Enter(t, "add", b)
        PROVE  (StoreTypes /\ HandleUsed /\ OneWriter /\ Promises)'
    BY <1>2, PyCollectionAssumption, EnterServes DEF Tasks
  <1>3. ASSUME NEW t \in Threads, NEW i \in Ids, NEW fn \in {"remove", "get"},
               Enter(t, fn, JustId(i))
        PROVE  (StoreTypes /\ HandleUsed /\ OneWriter /\ Promises)'
    <2>1. Head(JustId(i)).id = i
      BY DEF JustId
    <2>2. QED BY <1>3, <2>1, EnterServes
  <1>4. ASSUME NEW t \in Threads, NEW fn \in {"search", "snapshot", "stats"},
               Enter(t, fn, <<>>)
        PROVE  (StoreTypes /\ HandleUsed /\ OneWriter /\ Promises)'
    BY <1>4, EnterServes
  <1>5. QED
    BY <1>1, <1>2, <1>3, <1>4, OpenedServes, CloseServes, ClosedServes, CallServes,
       ReturnServes DEF Next

\* An open() of an object that is not closed is not taken back.
LEMMA ReopensCounted ==
  ASSUME reopened \in Nat, [Next]_vars
  PROVE  reopened' \in Nat /\ (reopened' = 0 => reopened = 0)
  <1>1. ASSUME NEW t \in Threads, Open(t)
        PROVE  reopened' = reopened \/ reopened' = reopened + 1
    BY <1>1 DEF Open
  <1>2. CASE \A t \in Threads : ~Open(t)
    BY <1>2 DEF Next, vars, Register, Opened, Close, Closed, Enter, Return
  <1>3. QED BY <1>1, <1>2

SingleServes == reopened \in Nat /\ (reopened = 0 => ServeInv)

\* What a call that returned 0 promised of an id is what the library serves of
\* it, while no write of the id is under way: for any number of threads and any
\* batches, with appends, fsyncs and calls of open() that fail.  It holds of
\* payloads without a NUL, when close() waits for the other calls, as long as
\* open() was called only of an object that is closed.
THEOREM PromisesServed ==
  (~CloseRaces /\ NoNul) => (Spec => []ToldIsServed)
  <1> SUFFICES ASSUME ~CloseRaces, NoNul PROVE Spec => []ToldIsServed
    OBVIOUS
  <1>1. SingleServes => ToldIsServed
    BY DEF SingleServes, ServeInv, Promises, ToldIsServed, Quiet, Stored
  <1>2. Init => SingleServes
    BY ServeInit DEF SingleServes, Init
  <1>3. SingleServes /\ [Next]_vars => SingleServes'
    BY ServeNext, ReopensCounted DEF SingleServes
  <1>4. QED BY <1>1, <1>2, <1>3, PTL DEF Spec

(***************************************************************************)
(* Payloads on their way out                                               *)
(***************************************************************************)

\* No payload holds a control character without an escape of its own, which
\* json.loads() rejects.
NoControl == \A p \in Payloads : \A k \in DOMAIN p : p[k] # "ctrl"

Letters == Characters \cup {"r", "t"}
Plain == Characters \ {"ctrl"}

NoInv(e, k, h) == TRUE
ReadStep(e, h, c) == ReadCharacter(h, c)
ReadLoop == INSTANCE FoldRule WITH Step <- ReadStep, Inv <- NoInv

\* What json.loads() has made of the characters read so far.
Reading(s) == ReadLoop!Folded(0, Unread, s)
Read(text) == [ok |-> TRUE, escape |-> FALSE, text |-> text]
Escaping(text) == [ok |-> TRUE, escape |-> TRUE, text |-> text]

LEMMA ReadingNext ==
  ASSUME NEW s \in Seq(Letters), NEW c \in Letters
  PROVE  Reading(<<>>) = Unread /\ Reading(Append(s, c)) = ReadCharacter(Reading(s), c)
  <1>1. /\ ReadLoop!Folded(0, Unread, <<>>) = Unread
        /\ ReadLoop!Folded(0, Unread, Append(s, c)) = ReadStep(0, ReadLoop!Folded(0, Unread, s), c)
    BY ReadLoop!FoldNext
  <1>2. QED BY <1>1 DEF Reading, ReadStep

LEMMA ReadsPlain ==
  ASSUME NEW c \in Plain, NEW text
  PROVE  \/ /\ Escape(c) = <<c>>
            /\ ReadCharacter(Read(text), c) = Read(Append(text, c))
         \/ \E d \in Letters :
              /\ Escape(c) = <<"backslash", d>>
              /\ ReadCharacter(Read(text), "backslash") = Escaping(text)
              /\ ReadCharacter(Escaping(text), d) = Read(Append(text, c))
  <1>1. ReadCharacter(Read(text), "backslash") = Escaping(text)
    BY DEF ReadCharacter, Read, Escaping
  <1>2. ASSUME NEW d \in {"quote", "backslash", "n", "r", "t"}
        PROVE  ReadCharacter(Escaping(text), d) = Read(Append(text, Unescaped[d]))
    <2>1. d \in DOMAIN Unescaped
      BY DEF Unescaped
    <2>2. QED BY <2>1 DEF ReadCharacter, Read, Escaping
  <1>3. CASE c = "backslash"
    <2>1. Escape(c) = <<"backslash", "backslash">> /\ Unescaped["backslash"] = c
      BY <1>3 DEF Escape, Unescaped
    <2>2. QED BY <1>1, <1>2, <2>1 DEF Letters, Characters
  <1>4. CASE c = "quote"
    <2>1. Escape(c) = <<"backslash", "quote">> /\ Unescaped["quote"] = c
      BY <1>4 DEF Escape, Unescaped
    <2>2. QED BY <1>1, <1>2, <2>1 DEF Letters, Characters
  <1>5. CASE c = "lf"
    <2>1. Escape(c) = <<"backslash", "n">> /\ Unescaped["n"] = c
      BY <1>5 DEF Escape, Unescaped
    <2>2. QED BY <1>1, <1>2, <2>1 DEF Letters, Characters
  <1>6. CASE c = "cr"
    <2>1. Escape(c) = <<"backslash", "r">> /\ Unescaped["r"] = c
      BY <1>6 DEF Escape, Unescaped
    <2>2. QED BY <1>1, <1>2, <2>1 DEF Letters, Characters
  <1>7. CASE c = "tab"
    <2>1. Escape(c) = <<"backslash", "t">> /\ Unescaped["t"] = c
      BY <1>7 DEF Escape, Unescaped
    <2>2. QED BY <1>1, <1>2, <2>1 DEF Letters, Characters
  <1>8. CASE c \in {"a", "n", "nul"}
    <2>1. Escape(c) = <<c>>
      BY <1>8 DEF Escape
    <2>2. c \notin Bare /\ c # "backslash"
      BY <1>8 DEF Bare
    <2>3. ReadCharacter(Read(text), c) = Read(Append(text, c))
      BY <2>2 DEF ReadCharacter, Read
    <2>4. QED BY <2>1, <2>3
  <1>9. QED BY <1>3, <1>4, <1>5, <1>6, <1>7, <1>8 DEF Plain, Characters

\* An escaped character is read as the character.
LEMMA EscapedIsRead ==
  ASSUME NEW s \in Seq(Letters), NEW text, Reading(s) = Read(text), NEW c \in Plain
  PROVE  /\ s \o Escape(c) \in Seq(Letters)
         /\ Reading(s \o Escape(c)) = Read(Append(text, c))
  <1>0. c \in Letters /\ "backslash" \in Letters
    BY DEF Letters, Plain, Characters
  <1>1. CASE /\ Escape(c) = <<c>>
             /\ ReadCharacter(Read(text), c) = Read(Append(text, c))
    <2>1. s \o Escape(c) = Append(s, c) /\ Append(s, c) \in Seq(Letters)
      BY <1>0, <1>1
    <2>2. Reading(Append(s, c)) = ReadCharacter(Reading(s), c)
      BY <1>0, ReadingNext
    <2>3. QED BY <1>1, <2>1, <2>2
  <1>2. ASSUME NEW d \in Letters, Escape(c) = <<"backslash", d>>,
               ReadCharacter(Read(text), "backslash") = Escaping(text),
               ReadCharacter(Escaping(text), d) = Read(Append(text, c))
        PROVE  /\ s \o Escape(c) \in Seq(Letters)
               /\ Reading(s \o Escape(c)) = Read(Append(text, c))
    <2> DEFINE z == Append(s, "backslash")
    <2>1. z \in Seq(Letters) /\ Append(z, d) \in Seq(Letters) /\ s \o <<"backslash", d>> = Append(z, d)
      BY <1>0
    <2>2. Reading(z) = ReadCharacter(Reading(s), "backslash")
      BY <1>0, ReadingNext
    <2> HIDE DEF z
    <2>3. Reading(Append(z, d)) = ReadCharacter(Reading(z), d)
      BY <2>1, ReadingNext
    <2>4. QED BY <1>2, <2>1, <2>2, <2>3
  <1>3. QED BY <1>1, <1>2, ReadsPlain

LEMMA NextCharacter ==
  ASSUME NEW S, NEW p \in Seq(S), NEW k \in 1 .. Len(p)
  PROVE  Append(SubSeq(p, 1, k - 1), p[k]) = SubSeq(p, 1, k)
  <1>0. Len(p) \in Nat /\ p[k] \in S /\ k - 1 \in Nat /\ k \in Nat
    BY ElementOfSeq
  <1> DEFINE x == SubSeq(p, 1, k - 1)
             y == SubSeq(p, 1, k)
  <1>1. x \in Seq(S) /\ Len(x) = k - 1 /\ \A i \in 1 .. k - 1 : x[i] = p[i]
    BY <1>0
  <1>2. y \in Seq(S) /\ Len(y) = k /\ \A i \in 1 .. k : y[i] = p[i]
    BY <1>0
  <1> HIDE DEF x, y
  <1>3. Append(x, p[k]) \in Seq(S) /\ Len(Append(x, p[k])) = k
    BY <1>0, <1>1
  <1>4. ASSUME NEW i \in 1 .. k PROVE Append(x, p[k])[i] = y[i]
    <2>1. CASE i = k
      BY <1>0, <1>1, <1>2, <2>1
    <2>2. CASE i # k
      BY <1>0, <1>1, <1>2, <2>2
    <2>3. QED BY <2>1, <2>2
  <1>5. Append(x, p[k]) = y
    BY <1>2, <1>3, <1>4, SeqEqual
  <1>6. QED BY <1>5 DEF x, y

EscapeStep(p, h, c) == AddEscaped(h, c)
EscapeInv(p, k, h) == h \in Seq(Letters) /\ Reading(h) = Read(SubSeq(p, 1, k))
EscapeLoop == INSTANCE FoldRule WITH Step <- EscapeStep, Inv <- EscapeInv

\* json.loads() gives back what json_escape() was given.
LEMMA TextIsReadBack ==
  ASSUME NEW p \in Seq(Plain)
  PROVE  json_loads(json_escape(p)) = [ok |-> TRUE, text |-> p]
  <1>1. json_escape(p) = EscapeLoop!Folded(p, <<>>, p)
    BY DEF json_escape, EscapeStep, EscapeLoop!Folded, Seqs!FoldLeft, EscapeLoop!FoldLeft,
           Seqs!MapThenFoldSet, EscapeLoop!MapThenFoldSet, Seqs!Max, EscapeLoop!Max
  <1>2. EscapeInv(p, 0, <<>>)
    <2>1. <<>> \in Seq(Letters) /\ "a" \in Letters
      BY DEF Letters, Characters
    <2>2. Reading(<<>>) = Unread
      BY <2>1, ReadingNext
    <2>3. SubSeq(p, 1, 0) = <<>>
      OBVIOUS
    <2>4. QED BY <2>1, <2>2, <2>3 DEF EscapeInv, Read, Unread
  <1>3. ASSUME NEW k \in 1 .. Len(p), NEW h, EscapeInv(p, k - 1, h)
        PROVE  EscapeInv(p, k, EscapeStep(p, h, p[k]))
    <2>1. p[k] \in Plain
      OBVIOUS
    <2>2. h \in Seq(Letters) /\ Reading(h) = Read(SubSeq(p, 1, k - 1))
      BY <1>3 DEF EscapeInv
    <2>3. /\ h \o Escape(p[k]) \in Seq(Letters)
          /\ Reading(h \o Escape(p[k])) = Read(Append(SubSeq(p, 1, k - 1), p[k]))
      BY <2>1, <2>2, EscapedIsRead
    <2>4. Append(SubSeq(p, 1, k - 1), p[k]) = SubSeq(p, 1, k)
      BY NextCharacter
    <2>5. QED BY <2>3, <2>4 DEF EscapeInv, EscapeStep, AddEscaped
  <1>4. EscapeInv(p, Len(p), json_escape(p))
    <2>1. EscapeInv(p, Len(p), EscapeLoop!Folded(p, <<>>, p))
      BY <1>2, <1>3, EscapeLoop!FoldKeeps, Zenon
    <2>2. QED BY <1>1, <2>1
  <1>5. Reading(json_escape(p)) = Read(p)
    <2>1. SubSeq(p, 1, Len(p)) = p
      OBVIOUS
    <2>2. QED BY <1>4, <2>1 DEF EscapeInv
  <1>6. Seqs!FoldLeft(ReadCharacter, Unread, json_escape(p)) = Reading(json_escape(p))
    BY DEF Reading, ReadStep, ReadLoop!Folded, Seqs!FoldLeft, ReadLoop!FoldLeft,
           Seqs!MapThenFoldSet, ReadLoop!MapThenFoldSet, Seqs!Max, ReadLoop!Max
  <1>7. PICK r : r = Seqs!FoldLeft(ReadCharacter, Unread, json_escape(p))
    OBVIOUS
  <1>8. r.ok = TRUE /\ r.escape = FALSE /\ r.text = p
    BY <1>5, <1>6, <1>7 DEF Read
  <1>9. json_loads(json_escape(p)) = [ok |-> r.ok /\ ~r.escape, text |-> r.text]
    BY <1>7, Zenon DEF json_loads
  <1>10. (r.ok /\ ~r.escape) = TRUE
    BY <1>8
  <1>11. QED BY <1>8, <1>9, <1>10

(***************************************************************************)
(* Hits                                                                    *)
(***************************************************************************)

Whole(r, excused) ==
  LET parsed == json_loads(r.text)
  IN  /\ parsed.ok
      /\ \/ parsed.text = gave[r.id]
         \/ parsed.text = <<>> /\ r.id \in excused

\* A removal of i is between storage and index.
Leaving(i) == \E u \in Stored : call[u].fn = "remove" /\ Target(u).id = i

\* An id that a search has found stays in the index until the search returns,
\* so that no add() of it is accepted, and its payload is missed only when the
\* search is excused.
HitsOf(t) ==
  /\ call[t].pc # "reading" => call[t].hits = {}
  /\ call[t].pc \notin {"reading", "done"} => call[t].got = {}
  /\ \A i \in call[t].hits :
       /\ i \in Ids /\ index[call[t].h][i] # "absent"
       /\ disk[i] = NoPayload => i \in call[t].excused \cup doubt
       /\ Leaving(i) => i \in call[t].excused
  /\ \A r \in call[t].got :
       /\ r.id \in Ids /\ index[call[t].h][r.id] # "absent"
       /\ Whole(r, call[t].excused)

StoredAsGiven ==
  /\ gave \in [Ids -> Payloads \cup {NoPayload}]
  /\ \A i \in Ids : disk[i] # NoPayload => disk[i] = gave[i]

HitInv == StoredAsGiven /\ \A t \in Threads : HitsOf(t)

LEMMA HitsKept ==
  ASSUME NEW u \in Threads, HitsOf(u),
         call'[u].pc = call[u].pc, call'[u].h = call[u].h,
         call'[u].hits = call[u].hits, call'[u].got = call[u].got,
         call[u].excused \subseteq call'[u].excused,
         \A i \in Ids : index[call[u].h][i] # "absent" =>
                          index'[call[u].h][i] # "absent" /\ gave'[i] = gave[i],
         \A i \in call[u].hits : disk'[i] = NoPayload => i \in call'[u].excused \cup doubt',
         \A i \in call[u].hits : Leaving(i)' => i \in call'[u].excused
  PROVE  HitsOf(u)'
  <1>1. ASSUME NEW r \in call[u].got PROVE Whole(r, call[u].excused)'
    <2>1. /\ gave'[r.id] = gave[r.id]
          /\ Whole(r, call[u].excused)
      BY DEF HitsOf
    <2>2. PICK parsed : parsed = json_loads(r.text)
      OBVIOUS
    <2>3. /\ parsed.ok
          /\ parsed.text = gave[r.id] \/ (parsed.text = <<>> /\ r.id \in call[u].excused)
      BY <2>1, <2>2 DEF Whole
    <2>4. QED BY <2>1, <2>2, <2>3 DEF Whole
  <1>2. QED BY <1>1 DEF HitsOf

LEMMA NoHits ==
  ASSUME NEW u, call'[u].hits = {}, call'[u].got = {}
  PROVE  HitsOf(u)'
  BY DEF HitsOf

\* A step of a write, and what it may change beneath the searches.
LEMMA WriteKeepsHits ==
  ASSUME ServeInv, HitInv, NEW t \in Threads, CallStep(t), UNCHANGED self_h,
         call'[t].hits = {}, call'[t].got = {},
         \A u \in Threads \ {t} :
           /\ call'[u].hits = call[u].hits /\ call'[u].got = call[u].got
           /\ call[u].excused \subseteq call'[u].excused,
         \A i \in Ids : index[self_h][i] # "absent" =>
                          index'[self_h][i] # "absent" /\ gave'[i] = gave[i],
         \A u \in Threads \ {t} : \A i \in call[u].hits :
           /\ disk'[i] = NoPayload => i \in call'[u].excused \cup doubt'
           /\ Leaving(i)' => i \in call'[u].excused
  PROVE  \A u \in Threads : HitsOf(u)'
  <1>1. HitsOf(t)'
    BY NoHits
  <1>2. ASSUME NEW u \in Threads \ {t} PROVE HitsOf(u)'
    <2>1. call'[u].pc = call[u].pc /\ call'[u].h = call[u].h
      BY CallStepRecord DEF ServeInv, HandleInv
    <2>2. CASE Busy(u)
      <3>1. call[u].h = self_h
        BY <2>2 DEF ServeInv, HandleUsed
      <3>2. QED BY <2>1, <3>1, HitsKept DEF HitInv
    <2>3. CASE ~Busy(u)
      <3>1. call[u].hits = {} /\ call[u].got = {}
        BY <2>3 DEF HitInv, HitsOf, Busy, Outside
      <3>2. QED BY <3>1, NoHits
    <2>4. QED BY <2>2, <2>3
  <1>3. QED BY <1>1, <1>2

LEMMA EndsHits ==
  ASSUME CallRecords, NEW t \in Threads, NEW rc, Ends(t, rc)
  PROVE  /\ call'[t].hits = call[t].hits /\ call'[t].got = call[t].got
         /\ call'[t].excused = call[t].excused
         /\ \A u \in Threads \ {t} : call'[u] = call[u]
  BY DEF CallRecords, CallRecord, Fields, Ends, Goes

Writes(t) ==
  \/ AddStore(t)
  \/ AddIndex(t)
  \/ RemoveStore(t)
  \/ RemoveIndex(t)
  \/ StorageFails(t)

LEMMA WriteHits ==
  ASSUME CallRecords, NEW t \in Threads, Writes(t)
  PROVE  /\ call[t].pc \in {"found", "stored"}
         /\ call'[t].hits = call[t].hits /\ call'[t].got = call[t].got
  <1> CallRecord(call[t])
    BY DEF CallRecords
  <1>0. ASSUME NEW c, Goes(t, c) PROVE call'[t] = c
    BY <1>0 DEF Goes, CallRecords
  <1>1. CASE AddStore(t)
    <2>1. call'[t] = [call[t] EXCEPT !.pc = "stored"]
      BY <1>0, <1>1 DEF AddStore
    <2>2. QED BY <1>1, <2>1 DEF AddStore, Found, CallRecord, Fields
  <1>2. CASE AddIndex(t)
    <2>1. CASE Goes(t, [call[t] EXCEPT !.pc = "found", !.todo = Tail(@)])
      <3>1. call'[t] = [call[t] EXCEPT !.pc = "found", !.todo = Tail(@)]
        BY <1>0, <2>1
      <3>2. QED BY <1>2, <3>1 DEF AddIndex, CallRecord, Fields
    <2>2. CASE Ends(t, 0)
      BY <1>2, <2>2, EndsHits DEF AddIndex
    <2>3. QED BY <1>2, <2>1, <2>2 DEF AddIndex
  <1>3. CASE RemoveStore(t)
    <2>1. call'[t] = [call[t] EXCEPT !.pc = "stored"]
      BY <1>3, RemoveStoreRecord
    <2>2. QED BY <1>3, <2>1 DEF RemoveStore, Found, CallRecord, Fields
  <1>4. CASE RemoveIndex(t)
    BY <1>4, EndsHits DEF RemoveIndex
  <1>5. CASE StorageFails(t)
    BY <1>5, EndsHits DEF StorageFails, Found
  <1>6. QED BY <1>1, <1>2, <1>3, <1>4, <1>5 DEF Writes

LEMMA WriteOthers ==
  ASSUME CallRecords, NEW t \in Threads, Writes(t), ~RemoveStore(t)
  PROVE  \A u \in Threads \ {t} : call'[u] = call[u]
  <1>1. \E c : Goes(t, c)
    BY DEF Writes, AddStore, AddIndex, RemoveIndex, StorageFails, Ends
  <1>2. QED BY <1>1 DEF Goes, CallRecords

LEMMA LeavingSame ==
  ASSUME ServeInv, NEW t \in Threads, CallStep(t), UNCHANGED self_h, t \notin Stored'
  PROVE  \A i : Leaving(i)' => Leaving(i)
  <1>1. \A u \in Stored' : u \in Stored /\ Target(u)' = Target(u) /\ call'[u].fn = call[u].fn
    BY OtherCalls DEF ServeInv
  <1>2. QED BY <1>1 DEF Leaving

LEMMA WriteTarget ==
  ASSUME ServeInv, NEW t \in Threads, Writes(t)
  PROVE  Target(t).id \in Ids /\ (call[t].fn = "add" => Target(t).payload \in Payloads)
  <1>1. call[t].fn \in {"add", "remove"}
    BY DEF Writes, AddStore, AddIndex, RemoveStore, RemoveIndex, StorageFails, Found
  <1>2. CASE call[t].fn = "add"
    <2>1. call[t].todo \in Tasks /\ call[t].todo # <<>>
      BY <1>2 DEF ServeInv, StoreTypes, CallOK
    <2>2. Head(call[t].todo) \in [id : Ids, payload : Payloads]
      BY <2>1, Batch DEF Tasks
    <2>3. QED BY <2>2 DEF Target
  <1>3. CASE call[t].fn = "remove"
    BY <1>3 DEF Target, ServeInv, StoreTypes, CallOK
  <1>4. QED BY <1>1, <1>2, <1>3

\* What a write leaves of the searches, once it is known what it does to the
\* state beneath them.
LEMMA SearchesKept ==
  ASSUME ServeInv, HitInv, NEW t \in Threads, Writes(t), ~RemoveStore(t), UNCHANGED self_h,
         \A i \in Ids : index[self_h][i] # "absent" =>
                          index'[self_h][i] # "absent" /\ gave'[i] = gave[i],
         \A i \in Ids : /\ disk'[i] = NoPayload =>
                             (disk[i] = NoPayload /\ i \notin doubt) \/ i \in doubt' \/ Leaving(i)
                        /\ Leaving(i)' => Leaving(i)
  PROVE  \A u \in Threads : HitsOf(u)'
  <1>1. CallStep(t) /\ CallRecords
    BY DEF Writes, CallStep, ServeInv, HandleInv
  <1>2. call[t].hits = {} /\ call[t].got = {}
    BY <1>1, WriteHits DEF HitInv, HitsOf
  <1>3. call'[t].hits = {} /\ call'[t].got = {}
    BY <1>1, <1>2, WriteHits
  <1>4. \A u \in Threads \ {t} : call'[u] = call[u]
    BY <1>1, WriteOthers
  <1>5. ASSUME NEW u \in Threads \ {t}, NEW i \in call[u].hits
        PROVE  /\ disk'[i] = NoPayload => i \in call'[u].excused \cup doubt'
               /\ Leaving(i)' => i \in call'[u].excused
    BY <1>4 DEF HitInv, HitsOf
  <1>6. QED BY <1>1, <1>3, <1>4, <1>5, WriteKeepsHits

LEMMA AddStoreHits ==
  ASSUME NoNul, ServeInv, HitInv, NEW t \in Threads, AddStore(t), UNCHANGED self_h,
         ServeInv'
  PROVE  HitInv'
  <1> DEFINE k == Target(t).id
             p == Target(t).payload
  <1>1. CallStep(t) /\ Writes(t) /\ ~RemoveStore(t)
    BY DEF CallStep, Writes, AddStore, RemoveStore, Found
  <1>2. call[t].h = self_h /\ call'[t].fn = "add"
    BY <1>1, OtherCalls DEF ServeInv, AddStore, Found, SameCall
  <1>3. k \in Ids /\ p \in Payloads /\ p # NoPayload
    BY <1>1, WriteTarget, CApiAssumption DEF AddStore, Found
  <1>4. /\ disk' = [disk EXCEPT ![k] = p]
        /\ gave' = [gave EXCEPT ![k] = p]
        /\ index[self_h][k] = "absent"
        /\ UNCHANGED <<index, doubt>>
    BY <1>2, <1>3, WholeString DEF AddStore, Contains
  <1> HIDE DEF k, p
  <1>5. disk \in [Ids -> Payloads \cup {NoPayload}]
    BY DEF ServeInv, StoreTypes
  <1>6. StoredAsGiven'
    BY <1>3, <1>4, <1>5 DEF HitInv, StoredAsGiven
  <1>7. Stored' = {t}
    <2>1. call'[t].pc = "stored"
      <3>1. call'[t] = [call[t] EXCEPT !.pc = "stored"]
        BY DEF AddStore, Goes, ServeInv, HandleInv, CallRecords
      <3>2. QED BY <1>1, <3>1 DEF ServeInv, HandleInv, CallRecords, CallRecord, Fields
    <2>2. QED BY <2>1 DEF ServeInv, OneWriter, Stored
  <1>8. \A i : ~Leaving(i)'
    BY <1>2, <1>7 DEF Leaving
  <1>9. \A i \in Ids : index[self_h][i] # "absent" =>
                         index'[self_h][i] # "absent" /\ gave'[i] = gave[i]
    BY <1>3, <1>4 DEF HitInv, StoredAsGiven
  <1>10. \A i \in Ids : disk'[i] = NoPayload => disk[i] = NoPayload
    BY <1>3, <1>4, <1>5
  <1>11. \A i \in Ids : i \in doubt => i \in doubt'
    BY <1>4
  <1>12. QED BY <1>1, <1>6, <1>8, <1>9, <1>10, <1>11, SearchesKept DEF HitInv

\* The index step of a write of k leaves searches alone: after an add() storage
\* holds k, and the searches that miss it after a remove() are excused.
LEMMA IndexHits ==
  ASSUME ServeInv, HitInv, NEW t \in Threads, AddIndex(t) \/ RemoveIndex(t),
         UNCHANGED self_h
  PROVE  HitInv'
  <1> DEFINE k == Target(t).id
  <1>1. CallStep(t) /\ Writes(t) /\ ~RemoveStore(t)
    BY DEF CallStep, Writes, AddIndex, RemoveIndex, RemoveStore, Found
  <1>2. call[t].h = self_h /\ self_h \in Addrs
    BY <1>1, OtherCalls DEF ServeInv
  <1>3. t \in Stored /\ call[t].fn \in {"add", "remove"}
    BY DEF Stored, AddIndex, RemoveIndex
  <1>4. k \in Ids /\ (call[t].fn = "add" => disk[k] # NoPayload)
    BY <1>1, <1>3, WriteTarget, CApiAssumption DEF ServeInv, Promises
  <1>5. call[t].fn = "remove" => Leaving(k)
    BY <1>3 DEF Leaving
  <1>6. /\ UNCHANGED <<disk, gave>>
        /\ doubt' = doubt \ {k}
        /\ \A i \in Ids : index[self_h][i] # "absent" => index'[self_h][i] # "absent"
    BY <1>2, <1>4 DEF AddIndex, RemoveIndex, ServeInv, StoreTypes
  <1> HIDE DEF k
  <1>7. t \notin Stored'
    <2>1. CASE RemoveIndex(t)
      <3>1. call'[t].pc = "done"
        BY <2>1, EndsEffect DEF RemoveIndex, ServeInv, HandleInv
      <3>2. QED BY <3>1 DEF Stored
    <2>2. CASE AddIndex(t)
      <3>1. CASE Ends(t, 0)
        <4>1. call'[t].pc = "done"
          BY <3>1, EndsEffect DEF ServeInv, HandleInv
        <4>2. QED BY <4>1 DEF Stored
      <3>2. CASE Goes(t, [call[t] EXCEPT !.pc = "found", !.todo = Tail(@)])
        <4>1. call'[t] = [call[t] EXCEPT !.pc = "found", !.todo = Tail(@)]
          BY <3>2 DEF Goes, ServeInv, HandleInv, CallRecords
        <4>2. call'[t].pc = "found"
          BY <4>1 DEF ServeInv, HandleInv, CallRecords, CallRecord, Fields
        <4>3. QED BY <4>2 DEF Stored
      <3>3. QED BY <2>2, <3>1, <3>2 DEF AddIndex
    <2>3. QED BY <2>1, <2>2
  <1>8. \A i \in Ids : Leaving(i)' => Leaving(i)
    BY <1>1, <1>7, LeavingSame
  <1>9. \A i \in Ids : disk'[i] = NoPayload =>
                         (disk[i] = NoPayload /\ i \notin doubt) \/ i \in doubt' \/ Leaving(i)
    BY <1>3, <1>4, <1>5, <1>6
  <1>10. \A u \in Threads : HitsOf(u)'
    BY <1>1, <1>6, <1>8, <1>9, SearchesKept
  <1>11. QED BY <1>6, <1>10 DEF HitInv, StoredAsGiven

LEMMA StorageFailsHits ==
  ASSUME NoNul, ServeInv, HitInv, NEW t \in Threads, StorageFails(t), UNCHANGED self_h
  PROVE  HitInv'
  <1> DEFINE k == Target(t).id
             p == Target(t).payload
  <1>1. CallStep(t) /\ Writes(t) /\ ~RemoveStore(t)
    <2>1. CallStep(t) /\ Writes(t)
      BY DEF CallStep, Writes
    <2>2. call'[t].pc = "done"
      BY EndsEffect DEF StorageFails, ServeInv, HandleInv
    <2>3. RemoveStore(t) => call'[t].pc = "stored"
      <3>1. RemoveStore(t) => call'[t] = [call[t] EXCEPT !.pc = "stored"]
        BY RemoveStoreRecord DEF ServeInv, HandleInv
      <3>2. QED BY <3>1 DEF ServeInv, HandleInv, CallRecords, CallRecord, Fields
    <2>4. QED BY <2>1, <2>2, <2>3
  <1>2. call[t].h = self_h
    BY <1>1, OtherCalls DEF ServeInv
  <1>3. k \in Ids /\ (call[t].fn = "add" => p \in Payloads /\ p # NoPayload)
    BY <1>1, WriteTarget, CApiAssumption
  <1>4. /\ doubt' = doubt \cup {k}
        /\ UNCHANGED index
        /\ \/ UNCHANGED <<disk, gave>>
           \/ /\ call[t].fn = "add"
              /\ disk' = [disk EXCEPT ![k] = p]
              /\ gave' = [gave EXCEPT ![k] = p]
              /\ index[self_h][k] = "absent"
           \/ /\ disk' = [disk EXCEPT ![k] = NoPayload]
              /\ UNCHANGED gave
    BY <1>2, <1>3, WholeString DEF StorageFails, Contains
  <1> HIDE DEF k, p
  <1>5. disk \in [Ids -> Payloads \cup {NoPayload}]
    BY DEF ServeInv, StoreTypes
  <1>6. StoredAsGiven'
    BY <1>3, <1>4, <1>5 DEF HitInv, StoredAsGiven
  <1>7. t \notin Stored'
    <2>1. call'[t].pc = "done"
      BY EndsEffect DEF StorageFails, ServeInv, HandleInv
    <2>2. QED BY <2>1 DEF Stored
  <1>8. \A i \in Ids : Leaving(i)' => Leaving(i)
    BY <1>1, <1>7, LeavingSame
  <1>9. \A i \in Ids : index[self_h][i] # "absent" =>
                         index'[self_h][i] # "absent" /\ gave'[i] = gave[i]
    BY <1>3, <1>4 DEF HitInv, StoredAsGiven
  <1>10. \A i \in Ids : disk'[i] = NoPayload =>
                          (disk[i] = NoPayload /\ i \notin doubt) \/ i \in doubt'
    BY <1>3, <1>4, <1>5
  <1>11. QED BY <1>1, <1>6, <1>8, <1>9, <1>10, SearchesKept DEF HitInv

LEMMA RemoveStoreHits ==
  ASSUME ServeInv, HitInv, NEW t \in Threads, RemoveStore(t), UNCHANGED self_h,
         ServeInv'
  PROVE  HitInv'
  <1> DEFINE k == Target(t).id
  <1>1. CallStep(t) /\ Writes(t) /\ CallRecords
    BY DEF CallStep, Writes, ServeInv, HandleInv
  <1>2. k \in Ids
    BY <1>1, WriteTarget
  <1>3. disk' = [disk EXCEPT ![k] = NoPayload] /\ UNCHANGED <<index, gave, doubt>>
    BY DEF RemoveStore
  <1>4. disk \in [Ids -> Payloads \cup {NoPayload}]
    BY DEF ServeInv, StoreTypes
  <1>5. call'[t] = [call[t] EXCEPT !.pc = "stored"] /\ CallRecord(call[t])
    BY <1>1, RemoveStoreRecord DEF CallRecords
  <1>6. Target(t)'.id = k /\ call'[t].pc = "stored"
    BY <1>5 DEF CallRecord, Fields, Target
  <1>7. ASSUME NEW u \in Threads \ {t}
        PROVE  /\ call'[u].hits = call[u].hits /\ call'[u].got = call[u].got
               /\ call[u].excused \subseteq call'[u].excused
               /\ call[u].pc = "reading" => k \in call'[u].excused
    <2>1. call'[u] = IF call[u].pc = "reading"
                     THEN [call[u] EXCEPT !.excused = call[u].excused \cup {k}] ELSE call[u]
      BY DEF RemoveStore, SeenRemoved
    <2>2. CallRecord(call[u])
      BY <1>1 DEF CallRecords
    <2> HIDE DEF k
    <2>3. CASE call[u].pc = "reading"
      <3>1. call'[u] = [call[u] EXCEPT !.excused = call[u].excused \cup {k}]
        BY <2>1, <2>3
      <3>2. QED BY <2>2, <3>1 DEF CallRecord, Fields
    <2>4. CASE call[u].pc # "reading"
      BY <2>1, <2>4
    <2>5. QED BY <2>3, <2>4
  <1> HIDE DEF k
  <1>8. StoredAsGiven'
    BY <1>2, <1>3, <1>4 DEF HitInv, StoredAsGiven
  <1>9. Stored' = {t}
    BY <1>6 DEF ServeInv, OneWriter, Stored
  <1>10. \A i : Leaving(i)' => i = k
    BY <1>6, <1>9 DEF Leaving
  <1>11. call[t].hits = {} /\ call[t].got = {}
    BY <1>1, WriteHits DEF HitInv, HitsOf
  <1>12. call'[t].hits = {} /\ call'[t].got = {}
    BY <1>1, <1>11, WriteHits
  <1>13. ASSUME NEW u \in Threads \ {t}, NEW i \in call[u].hits
         PROVE  /\ disk'[i] = NoPayload => i \in call'[u].excused \cup doubt'
                /\ Leaving(i)' => i \in call'[u].excused
    <2>1. call[u].pc = "reading" /\ i \in Ids
      BY DEF HitInv, HitsOf
    <2>2. disk[i] = NoPayload => i \in call[u].excused \cup doubt
      BY DEF HitInv, HitsOf
    <2>3. QED BY <1>2, <1>3, <1>4, <1>7, <1>10, <2>1, <2>2
  <1>14. \A u \in Threads : HitsOf(u)'
    BY <1>1, <1>3, <1>7, <1>12, <1>13, WriteKeepsHits
  <1>15. QED BY <1>8, <1>14 DEF HitInv

\* The steps that write nothing leave the other searches alone.
LEMMA ReadersKept ==
  ASSUME ServeInv, HitInv, NEW t \in Threads, CallStep(t), UNCHANGED self_h,
         t \notin Stored', \A u \in Threads \ {t} : call'[u] = call[u],
         UNCHANGED <<disk, index, gave, doubt>>, HitsOf(t)'
  PROVE  HitInv'
  <1>1. \A i : Leaving(i)' => Leaving(i)
    BY LeavingSame
  <1>2. ASSUME NEW u \in Threads \ {t} PROVE HitsOf(u)'
    <2>1. HitsOf(u)
      BY DEF HitInv
    <2>2. /\ \A i \in call[u].hits : disk'[i] = NoPayload => i \in call'[u].excused \cup doubt'
          /\ \A i \in call[u].hits : Leaving(i)' => i \in call'[u].excused
      BY <1>1, <2>1 DEF HitsOf
    <2>3. QED BY <2>1, <2>2, HitsKept
  <1>3. QED BY <1>2 DEF HitInv, StoredAsGiven

\* A removal of a live id is between its steps, or storage holds the id.
LEMMA LiveIsStored ==
  ASSUME ServeInv, NEW i \in Ids, self_h \in g_handles, index[self_h][i] = "live",
         i \notin doubt, disk[i] = NoPayload
  PROVE  Leaving(i)
  <1>1. ~Quiet(i)
    BY DEF ServeInv, Promises
  <1>2. PICK u \in Stored : Target(u).id = i
    BY <1>1 DEF Quiet
  <1>3. call[u].fn \in {"add", "remove"} /\ u \in Threads
    BY <1>2 DEF ServeInv, StoreTypes, CallOK, Stored
  <1>4. CASE call[u].fn = "add"
    <2>1. call[u].todo \in Tasks /\ call[u].todo # <<>>
      BY <1>3, <1>4 DEF ServeInv, StoreTypes, CallOK
    <2>2. Head(call[u].todo) \in [id : Ids, payload : Payloads]
      BY <2>1, Batch DEF Tasks
    <2>3. disk[i] = Target(u).payload
      BY <1>2, <1>4 DEF ServeInv, Promises
    <2>4. QED BY <2>2, <2>3, CApiAssumption DEF Target
  <1>5. CASE call[u].fn = "remove"
    BY <1>2, <1>5 DEF Leaving
  <1>6. QED BY <1>3, <1>4, <1>5

LEMMA SearchHitsHits ==
  ASSUME ServeInv, HitInv, NEW t \in Threads, SearchHits(t), UNCHANGED self_h
  PROVE  HitInv'
  <1>1. CallStep(t) /\ CallRecord(call[t])
    BY DEF CallStep, ServeInv, HandleInv, CallRecords
  <1>2. PICK H \in SUBSET {i \in Ids : index[call[t].h][i] = "live"} :
          Goes(t, [call[t] EXCEPT !.pc = "reading", !.hits = H,
                                  !.excused = HalfRemoved(call[t].h)])
    BY DEF SearchHits
  <1> DEFINE X == HalfRemoved(call[t].h)
  <1>3. /\ call'[t] = [call[t] EXCEPT !.pc = "reading", !.hits = H, !.excused = X]
        /\ \A u \in Threads \ {t} : call'[u] = call[u]
    BY <1>2 DEF Goes, ServeInv, HandleInv, CallRecords
  <1>4. call[t].h = self_h /\ self_h \in g_handles
    BY <1>1, OtherCalls DEF ServeInv
  <1>5. ASSUME NEW i, Leaving(i) PROVE i \in X
    <2>1. PICK u \in Stored : call[u].fn = "remove" /\ Target(u).id = i
      BY <1>5 DEF Leaving
    <2>2. u \in Threads /\ call[u].pc = "stored" /\ call[u].h = self_h
      BY <2>1 DEF Stored, ServeInv, HandleUsed, Busy, Outside
    <2>3. call[u].todo[1].id = i
      BY <2>1 DEF Target
    <2>4. QED BY <1>4, <2>1, <2>2, <2>3 DEF HalfRemoved
  <1> HIDE DEF X
  <1>6. /\ call'[t].pc = "reading" /\ call'[t].hits = H /\ call'[t].excused = X
        /\ call'[t].got = call[t].got /\ call'[t].h = self_h
    BY <1>1, <1>3, <1>4 DEF CallRecord, Fields
  <1>7. call[t].got = {}
    BY DEF SearchHits, Found, HitInv, HitsOf
  <1>8. UNCHANGED <<disk, index, gave, doubt>>
    BY DEF SearchHits
  <1>9. t \notin Stored'
    BY <1>6 DEF Stored
  <1>10. \A i : Leaving(i)' => Leaving(i)
    BY <1>1, <1>9, LeavingSame
  <1>11. ASSUME NEW i \in H
         PROVE  /\ i \in Ids /\ index[self_h][i] # "absent"
                /\ disk[i] = NoPayload => i \in X \cup doubt
                /\ Leaving(i) => i \in X
    BY <1>4, <1>5, LiveIsStored
  <1>12. HitsOf(t)'
    BY <1>6, <1>7, <1>8, <1>10, <1>11 DEF HitsOf
  <1>13. QED BY <1>1, <1>3, <1>8, <1>9, <1>12, ReadersKept

\* The payload that a search reads of a hit.
LEMMA HitIsWhole ==
  ASSUME NoControl, ServeInv, HitInv, NEW i \in Ids, NEW excused,
         disk[i] = NoPayload => i \in excused
  PROVE  Whole([id |-> i,
                text |-> json_escape(IF disk[i] = NoPayload THEN <<>> ELSE disk[i])], excused)
  <1> DEFINE payload == IF disk[i] = NoPayload THEN <<>> ELSE disk[i]
             text == json_escape(payload)
  <1>1. payload \in Seq(Plain)
    <2>1. CASE disk[i] = NoPayload
      BY <2>1
    <2>2. CASE disk[i] # NoPayload
      <3>1. disk[i] \in Payloads
        BY <2>2 DEF ServeInv, StoreTypes
      <3>2. disk[i] \in Seq(Characters) /\ \A k \in DOMAIN disk[i] : disk[i][k] # "ctrl"
        BY <3>1, CApiAssumption DEF NoControl
      <3>3. \A k \in 1 .. Len(disk[i]) : disk[i][k] \in Plain
        BY <3>2 DEF Plain
      <3>4. disk[i] \in Seq(Plain)
        BY <3>2, <3>3
      <3>5. QED BY <2>2, <3>4
    <2>3. QED BY <2>1, <2>2
  <1>2. disk[i] # NoPayload => payload = gave[i]
    BY DEF HitInv, StoredAsGiven
  <1>3. disk[i] = NoPayload => payload = <<>>
    OBVIOUS
  <1> HIDE DEF payload
  <1>4. json_loads(text) = [ok |-> TRUE, text |-> payload]
    BY <1>1, TextIsReadBack
  <1> HIDE DEF text
  <1>5. Whole([id |-> i, text |-> text], excused)
    BY <1>2, <1>3, <1>4 DEF Whole
  <1>6. QED BY <1>5 DEF text, payload

LEMMA SearchGetHits ==
  ASSUME NoControl, ServeInv, HitInv, NEW t \in Threads, NEW i \in Ids, SearchGet(t, i),
         UNCHANGED self_h
  PROVE  HitInv'
  <1>1. CallStep(t) /\ CallRecord(call[t])
    BY DEF CallStep, ServeInv, HandleInv, CallRecords
  <1> DEFINE payload == IF disk[i] = NoPayload THEN <<>> ELSE disk[i]
             hit == [id |-> i, text |-> json_escape(payload)]
             got == {hit}
  <1>2. /\ call'[t] = [call[t] EXCEPT !.hits = @ \ {i}, !.excused = @ \cup doubt,
                                      !.got = @ \cup got]
        /\ \A u \in Threads \ {t} : call'[u] = call[u]
    BY DEF SearchGet, Goes, ServeInv, HandleInv, CallRecords
  <1>3. hit.id = i
    OBVIOUS
  <1>4. i \in call[t].hits /\ call[t].pc = "reading" /\ HitsOf(t)
    BY DEF SearchGet, HitInv
  <1>5. disk[i] = NoPayload => i \in call[t].excused \cup doubt
    BY <1>4 DEF HitsOf
  <1>6. Whole(hit, call[t].excused \cup doubt)
    BY <1>5, HitIsWhole
  <1>7. got = {hit}
    OBVIOUS
  <1> HIDE DEF payload, hit, got
  <1>8. /\ call'[t].pc = "reading" /\ call'[t].h = call[t].h
        /\ call'[t].hits = call[t].hits \ {i}
        /\ call'[t].excused = call[t].excused \cup doubt
        /\ call'[t].got = call[t].got \cup {hit}
    BY <1>1, <1>2, <1>4, <1>7 DEF CallRecord, Fields
  <1>9. UNCHANGED <<disk, index, gave, doubt>>
    BY DEF SearchGet
  <1>10. t \notin Stored'
    BY <1>8 DEF Stored
  <1>11. \A j : Leaving(j)' => Leaving(j)
    BY <1>1, <1>10, LeavingSame
  <1>12. ASSUME NEW r \in call'[t].got
         PROVE  r.id \in Ids /\ index[call[t].h][r.id] # "absent"
                /\ Whole(r, call[t].excused \cup doubt)
    <2>1. CASE r = hit
      BY <2>1, <1>3, <1>4, <1>6 DEF HitsOf
    <2>2. CASE r \in call[t].got
      <3>1. r.id \in Ids /\ index[call[t].h][r.id] # "absent" /\ Whole(r, call[t].excused)
        BY <1>4, <2>2 DEF HitsOf
      <3>2. PICK parsed : parsed = json_loads(r.text)
        OBVIOUS
      <3>3. parsed.ok /\ (parsed.text = gave[r.id]
                          \/ (parsed.text = <<>> /\ r.id \in call[t].excused))
        BY <3>1, <3>2 DEF Whole
      <3>4. Whole(r, call[t].excused \cup doubt)
        BY <3>2, <3>3 DEF Whole
      <3>5. QED BY <3>1, <3>4
    <2>3. QED BY <1>8, <2>1, <2>2
  <1>13. ASSUME NEW r \in call'[t].got PROVE Whole(r, call[t].excused)'
    <2>1. Whole(r, call[t].excused \cup doubt)
      BY <1>12
    <2>2. PICK parsed : parsed = json_loads(r.text)
      OBVIOUS
    <2>3. parsed.ok /\ (parsed.text = gave[r.id]
                        \/ (parsed.text = <<>> /\ r.id \in call[t].excused \cup doubt))
      BY <2>1, <2>2 DEF Whole
    <2>4. QED BY <1>8, <1>9, <2>2, <2>3 DEF Whole
  <1>14. ASSUME NEW j \in call'[t].hits
         PROVE  /\ j \in Ids /\ index[call[t].h][j] # "absent"
                /\ disk[j] = NoPayload => j \in call'[t].excused \cup doubt
                /\ Leaving(j) => j \in call'[t].excused
    BY <1>4, <1>8 DEF HitsOf
  <1>15. HitsOf(t)'
    BY <1>8, <1>9, <1>11, <1>12, <1>13, <1>14 DEF HitsOf
  <1>16. QED BY <1>1, <1>2, <1>9, <1>10, <1>15, ReadersKept

\* The other steps of a call.
LEMMA OtherHits ==
  ASSUME ServeInv, HitInv, NEW t \in Threads, UNCHANGED self_h,
         Lookup(t) \/ AddRefused(t) \/ SearchEnds(t) \/ Get(t) \/ Maintain(t)
  PROVE  HitInv'
  <1>1. CallStep(t) /\ CallRecords /\ CallRecord(call[t])
    BY DEF CallStep, ServeInv, HandleInv, CallRecords
  <1>2. UNCHANGED <<disk, index, gave, doubt>>
    BY DEF Lookup, AddRefused, SearchEnds, Get, Maintain
  <1>3. /\ call'[t].hits = call[t].hits /\ call'[t].got = call[t].got
        /\ call'[t].excused = call[t].excused
        /\ call'[t].pc \in {"found", "done"}
        /\ \A u \in Threads \ {t} : call'[u] = call[u]
    <2>1. CASE \E rc : Ends(t, rc)
      BY <1>1, <2>1, EndsHits, EndsEffect
    <2>2. CASE Goes(t, [call[t] EXCEPT !.pc = "found"])
      <3>1. /\ call'[t] = [call[t] EXCEPT !.pc = "found"]
            /\ \A u \in Threads \ {t} : call'[u] = call[u]
        BY <1>1, <2>2 DEF Goes, CallRecords
      <3>2. QED BY <1>1, <3>1 DEF CallRecord, Fields
    <2>3. QED BY <2>1, <2>2 DEF Lookup, AddRefused, SearchEnds, Get, Maintain
  <1>4. t \notin Stored'
    BY <1>3 DEF Stored
  <1>5. call[t].hits = {} /\ (call[t].pc # "reading" => call[t].got = {})
    BY DEF Lookup, AddRefused, SearchEnds, Get, Maintain, Found, HitInv, HitsOf
  <1>6. call'[t].h = call[t].h
    BY <1>1, CallStepRecord DEF SameCall
  <1>7. HitsOf(t)'
    <2>1. CASE call[t].got = {}
      BY <1>3, <1>5, <2>1, NoHits
    <2>2. CASE call[t].got # {}
      <3>1. call'[t].pc = "done"
        <4>1. SearchEnds(t)
          BY <1>5, <2>2 DEF Lookup, AddRefused, SearchEnds, Get, Maintain, Found
        <4>2. QED BY <1>1, <4>1, EndsEffect DEF SearchEnds
      <3>2. HitsOf(t)
        BY DEF HitInv
      <3>3. ASSUME NEW r \in call[t].got PROVE Whole(r, call[t].excused)'
        <4>1. Whole(r, call[t].excused)
          BY <3>2 DEF HitsOf
        <4>2. QED BY <1>2, <1>3, <4>1 DEF Whole
      <3>4. QED BY <1>2, <1>3, <1>5, <1>6, <3>1, <3>2, <3>3 DEF HitsOf
    <2>3. QED BY <2>1, <2>2
  <1>8. QED BY <1>1, <1>2, <1>3, <1>4, <1>7, ReadersKept

LEMMA CallHits ==
  ASSUME NoNul, NoControl, ServeInv, HitInv, NEW t \in Threads, CallStep(t),
         UNCHANGED self_h, ServeInv'
  PROVE  HitInv'
  BY AddStoreHits, IndexHits, RemoveStoreHits, StorageFailsHits, SearchHitsHits,
     SearchGetHits, OtherHits DEF CallStep

\* The object's own steps: a search has returned before its hits are dropped,
\* and the library is opened and closed while no call is in progress.
LEMMA ObjectHits ==
  ASSUME ServeInv, HitInv, NEW t \in Threads, NEW c, Goes(t, c), c.pc # "stored",
         c.hits = {}, c.got = {}, UNCHANGED <<disk, index, gave, doubt>>
  PROVE  HitInv'
  <1>1. call'[t] = c /\ \A u \in Threads \ {t} : call'[u] = call[u]
    BY DEF Goes, ServeInv, HandleInv, CallRecords
  <1>2. HitsOf(t)'
    BY <1>1, NoHits
  <1>3. \A i : Leaving(i)' => Leaving(i)
    <2>1. \A u \in Stored' : u \in Stored /\ Target(u)' = Target(u) /\ call'[u].fn = call[u].fn
      BY <1>1 DEF Stored, Target
    <2>2. QED BY <2>1 DEF Leaving
  <1>4. ASSUME NEW u \in Threads \ {t} PROVE HitsOf(u)'
    <2>1. HitsOf(u)
      BY DEF HitInv
    <2>2. /\ \A i \in call[u].hits : disk'[i] = NoPayload => i \in call'[u].excused \cup doubt'
          /\ \A i \in call[u].hits : Leaving(i)' => i \in call'[u].excused
      BY <1>1, <1>3, <2>1 DEF HitsOf
    <2>3. QED BY <1>1, <2>1, <2>2, HitsKept
  <1>5. QED BY <1>2, <1>4 DEF HitInv, StoredAsGiven

LEMMA IdleHits ==
  ASSUME HitInv, \A u \in Threads : call'[u].hits = {} /\ call'[u].got = {},
         UNCHANGED <<disk, gave>>
  PROVE  HitInv'
  BY NoHits DEF HitInv, StoredAsGiven

LEMMA OpenHits ==
  ASSUME reopened = 0, reopened' = 0, ServeInv, HitInv, NEW t \in Threads, Open(t)
  PROVE  HitInv'
  <1>1. /\ \A u \in Threads : call[u].pc = "idle"
        /\ UNCHANGED <<disk, gave>>
    BY OpenAlone
  <1>2. \E c : Goes(t, c) /\ c.hits = {} /\ c.got = {}
    <2>1. ASSUME NEW a \in Addrs, Goes(t, [NoCall EXCEPT !.pc = "opening", !.h = a])
          PROVE  \E c : Goes(t, c) /\ c.hits = {} /\ c.got = {}
      <3> DEFINE c == [NoCall EXCEPT !.pc = "opening", !.h = a]
      <3>1. c.hits = {} /\ c.got = {} BY DEF NoCall
      <3>2. Goes(t, c) BY <2>1
      <3> HIDE DEF c
      <3>3. QED BY <3>1, <3>2
    <2>2. ASSUME Goes(t, [NoCall EXCEPT !.pc = "opened"])
          PROVE  \E c : Goes(t, c) /\ c.hits = {} /\ c.got = {}
      <3> DEFINE c == [NoCall EXCEPT !.pc = "opened"]
      <3>1. c.hits = {} /\ c.got = {} BY DEF NoCall
      <3>2. Goes(t, c) BY <2>2
      <3> HIDE DEF c
      <3>3. QED BY <3>1, <3>2
    <2>3. QED BY <2>1, <2>2 DEF Open
  <1>3. PICK c : Goes(t, c) /\ c.hits = {} /\ c.got = {}
    BY <1>2
  <1>4. call'[t] = c /\ \A u \in Threads \ {t} : call'[u] = call[u]
    BY <1>3 DEF Goes, ServeInv, HandleInv, CallRecords
  <1>5. QED BY <1>1, <1>3, <1>4, IdleHits DEF HitInv, HitsOf

LEMMA RegisterHits ==
  ASSUME ServeInv, HitInv, NEW t \in Threads, Register(t)
  PROVE  HitInv'
  <1> DEFINE c == [call[t] EXCEPT !.pc = "opened"]
  <1>1. call[t].hits = {} /\ call[t].got = {}
    BY DEF Register, HitInv, HitsOf
  <1>2. c.pc # "stored" /\ c.hits = {} /\ c.got = {}
    BY <1>1 DEF CallRecords, CallRecord, Fields, ServeInv, HandleInv
  <1>3. Goes(t, c) /\ UNCHANGED <<disk, index, gave, doubt>>
    BY DEF Register, lumina_open
  <1> HIDE DEF c
  <1>4. QED BY <1>2, <1>3, ObjectHits

LEMMA CloseHits ==
  ASSUME ~CloseRaces, ServeInv, HitInv, NEW t \in Threads, Close(t)
  PROVE  HitInv'
  <1>1. \A u \in Threads : call[u].pc = "idle"
    BY DEF Close, Idle
  <1>2. call'[t].hits = {} /\ call'[t].got = {} /\ \A u \in Threads \ {t} : call'[u] = call[u]
    BY DEF Close, Goes, NoCall, ServeInv, HandleInv, CallRecords
  <1>3. UNCHANGED <<disk, gave>>
    BY DEF Close, lumina_close
  <1>4. QED BY <1>1, <1>2, <1>3, IdleHits DEF HitInv, HitsOf

LEMMA HitInit == Init => HitInv
  <1> SUFFICES ASSUME Init PROVE HitInv
    OBVIOUS
  <1>1. \A t \in Threads : call[t].hits = {} /\ call[t].got = {}
    BY DEF Init, ApiInit, NoCall
  <1>2. QED BY <1>1 DEF HitInv, HitsOf, StoredAsGiven, Init, ApiInit, NothingStored

LEMMA HitNext ==
  ASSUME ~CloseRaces, NoNul, NoControl, reopened = 0, reopened' = 0, ServeInv, HitInv,
         [Next]_vars
  PROVE  HitInv'
  <1>0. ServeInv'
    BY ServeNext
  <1>1. CASE UNCHANGED vars
    BY <1>1 DEF vars, apiVars, HitInv, HitsOf, StoredAsGiven, Whole, Leaving, Stored, Target
  <1>2. ASSUME NEW t \in Threads, NEW fn, NEW todo, Enter(t, fn, todo) PROVE HitInv'
    <2> DEFINE c == [NoCall EXCEPT !.fn = fn, !.pc = "called", !.h = self_h, !.todo = todo]
    <2>1. c.pc = "called" /\ c.hits = {} /\ c.got = {}
      BY DEF NoCall
    <2>2. Goes(t, c) /\ UNCHANGED <<disk, index, gave, doubt>>
      BY <1>2 DEF Enter
    <2> HIDE DEF c
    <2>3. QED BY <2>1, <2>2, ObjectHits
  <1>3. ASSUME NEW t \in Threads, Opened(t) \/ Closed(t) \/ Return(t) PROVE HitInv'
    <2>1. NoCall.pc # "stored" /\ NoCall.hits = {} /\ NoCall.got = {}
      BY DEF NoCall
    <2>2. Goes(t, NoCall) /\ UNCHANGED <<disk, index, gave, doubt>>
      BY <1>3 DEF Opened, Closed, Return
    <2>3. QED BY <2>1, <2>2, ObjectHits
  <1>4. QED
    BY <1>0, <1>1, <1>2, <1>3, OpenHits, RegisterHits, CloseHits, CallHits DEF Next

SingleHits == SingleServes /\ (reopened = 0 => HitInv)

\* What search() returns of an id can be parsed and is what the id was last
\* added with, or is empty when a removal or a failed write excuses it: for any
\* number of threads that add, remove and search at once, since a hit stays in
\* the index and is added again by nobody while its payload is read.  It holds
\* of payloads that json.loads() accepts and C does not cut, when close() waits
\* for the other calls, as long as open() was called only of an object that is
\* closed.
THEOREM HitsAreWhole ==
  (~CloseRaces /\ NoNul /\ NoControl) => (Spec => []HitsCarryPayloads)
  <1> SUFFICES ASSUME ~CloseRaces, NoNul, NoControl PROVE Spec => []HitsCarryPayloads
    OBVIOUS
  <1>1. SingleHits => HitsCarryPayloads
    BY DEF SingleHits, HitInv, HitsOf, Whole, HitsCarryPayloads
  <1>2. Init => SingleHits
    BY ServeInit, HitInit DEF SingleHits, SingleServes, Init
  <1>3. SingleHits /\ [Next]_vars => SingleHits'
    BY ServeNext, HitNext, ReopensCounted DEF SingleHits, SingleServes
  <1>4. QED BY <1>1, <1>2, <1>3, PTL DEF Spec
=============================================================================
