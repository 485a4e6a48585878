---------------------------- MODULE PyCollection ----------------------------
(***************************************************************************)
(* python/lumina/__init__.py: one Collection object, shared by threads.    *)
(* ctypes lets go of the interpreter lock during a call, so the calls of   *)
(* CApi interleave.  The object keeps the handle in _h; a method tests it,  *)
(* passes it to the library and converts the answer.                       *)
(***************************************************************************)
EXTENDS CApi

CONSTANTS
  Batches,      \* arguments of add(): sequences of [id, payload]
  CloseRaces,   \* whether close() runs beside other calls
  MaxReopens    \* bound: how often open() is called of an object not closed

ASSUME PyCollectionAssumption ==
  /\ \A b \in Batches : b \in Seq([id : Ids, payload : Payloads]) /\ b # <<>>
  /\ CloseRaces \in BOOLEAN
  /\ MaxReopens \in Nat

VARIABLES
  self_h,    \* Collection._h
  reopened   \* history: how often open() was called of an object not closed

vars == <<apiVars, self_h, reopened>>

Init == ApiInit /\ self_h = Null /\ reopened = 0

Idle(t) == call[t].pc = "idle"
Opening == \E t \in Threads : call[t].pc \in {"opening", "opened"}
Closing == \E t \in Threads : call[t].pc = "closing"
IsClosed == self_h = Null /\ ~Opening /\ ~Closing

\* Collection(path, dim), open() and __enter__(), which opens although the
\* constructor may have done so: nothing asks whether _h is set, or whether an
\* open() or a close() of another thread is under way.  lumina_open() returns a
\* handle, or a null pointer when Collection::open() fails.
Open(t) ==
  /\ Idle(t)
  /\ IF IsClosed THEN UNCHANGED reopened
     ELSE reopened < MaxReopens /\ reopened' = reopened + 1
  /\ \/ \E a \in Addrs :
          /\ CollectionOpen(a)
          /\ Goes(t, [NoCall EXCEPT !.pc = "opening", !.h = a])
     \/ /\ StorageMayFail
        /\ Goes(t, [NoCall EXCEPT !.pc = "opened"])
        /\ UNCHANGED <<g_handles, disk, index, gave, told, doubt>>
  /\ UNCHANGED self_h

Register(t) ==
  /\ call[t].pc = "opening"
  /\ lumina_open(call[t].h)
  /\ Goes(t, [call[t] EXCEPT !.pc = "opened"])
  /\ UNCHANGED <<self_h, reopened>>

\* The library has returned: _h is assigned, whatever it holds.
Opened(t) ==
  /\ call[t].pc = "opened"
  /\ self_h' = call[t].h
  /\ Goes(t, NoCall)
  /\ UNCHANGED <<g_handles, disk, index, gave, told, doubt, reopened>>

\* close(), __exit__() and __del__(): the library first, _h afterwards.
Close(t) ==
  /\ Idle(t)
  /\ self_h # Null
  /\ CloseRaces \/ \A u \in Threads : Idle(u)
  /\ lumina_close(self_h)
  /\ Goes(t, [NoCall EXCEPT !.pc = "closing"])
  /\ UNCHANGED <<self_h, reopened>>

Closed(t) ==
  /\ call[t].pc = "closing"
  /\ self_h' = Null
  /\ Goes(t, NoCall)
  /\ UNCHANGED <<g_handles, disk, index, gave, told, doubt, reopened>>

\* add(), remove(), search(), get(), snapshot(), stats(): _check(), then the
\* library with the handle of this moment.
Enter(t, fn, todo) ==
  /\ Idle(t)
  /\ self_h # Null                  \* else "collection is not open"
  /\ CloseRaces \/ ~Closing
  /\ Goes(t, [NoCall EXCEPT !.fn = fn, !.pc = "called", !.h = self_h, !.todo = todo])
  /\ UNCHANGED <<g_handles, disk, index, gave, told, doubt, self_h, reopened>>

\* The method returns or raises.
Return(t) ==
  /\ call[t].pc = "done"
  /\ Goes(t, NoCall)
  /\ UNCHANGED <<g_handles, disk, index, gave, told, doubt, self_h, reopened>>

JustId(i) == <<[id |-> i, payload |-> <<>>]>>

Next ==
  \E t \in Threads :
    \/ Open(t)
    \/ Register(t)
    \/ Opened(t)
    \/ Close(t)
    \/ Closed(t)
    \/ \E b \in Batches : Enter(t, "add", b)
    \/ \E i \in Ids, fn \in {"remove", "get"} : Enter(t, fn, JustId(i))
    \/ \E fn \in {"search", "snapshot", "stats"} : Enter(t, fn, <<>>)
    \/ CallStep(t) /\ UNCHANGED <<self_h, reopened>>
    \/ Return(t)

Spec == Init /\ [][Next]_vars

(***************************************************************************)
(* json.loads() of a string (external): an escape stands for its character, *)
(* a bare quote ends the string and a bare control character is an error.   *)
(***************************************************************************)
Unescaped == [quote |-> "quote", backslash |-> "backslash", n |-> "lf", r |-> "cr",
              t |-> "tab"]
Bare == {"quote", "lf", "cr", "tab", "ctrl"}

Unread == [ok |-> TRUE, escape |-> FALSE, text |-> <<>>]

ReadCharacter(r, c) ==
  CASE ~r.ok -> r
    [] r.ok /\ r.escape ->
         IF c \in DOMAIN Unescaped
         THEN [r EXCEPT !.escape = FALSE, !.text = Append(@, Unescaped[c])]
         ELSE [r EXCEPT !.ok = FALSE]
    [] r.ok /\ ~r.escape /\ c = "backslash" -> [r EXCEPT !.escape = TRUE]
    [] OTHER ->
         IF c \in Bare THEN [r EXCEPT !.ok = FALSE] ELSE [r EXCEPT !.text = Append(@, c)]

json_loads(s) ==
  LET r == Seqs!FoldLeft(ReadCharacter, Unread, s)
  IN  [ok |-> r.ok /\ ~r.escape, text |-> r.text]

(***************************************************************************)
(* Properties                                                              *)
(***************************************************************************)
\* The first two are about one collection of a directory at a time: two of them
\* append to one WAL, each at its own offset, and disk does not tell how.

\* Every hit of search() can be parsed and carries the payload its id was
\* added with.  It is empty instead only when a remove() of that id had begun
\* before the payload was read, or a write of it failed in storage: payloads
\* are read after the search, without its lock (c_api.cpp:169 "best-effort").
HitsCarryPayloads ==
  reopened = 0 => \A t \in Threads : \A r \in call[t].got :
    LET parsed == json_loads(r.text)
    IN  /\ parsed.ok
        /\ \/ parsed.text = gave[r.id]
           \/ parsed.text = <<>> /\ r.id \in call[t].excused

\* Of two threads that add one id only one is told 0, and the payload that it
\* gave is served until a remove(), through close() and open(); an id that was
\* removed is served by no handle.
ToldIsServed ==
  reopened = 0 => \A i \in Ids \ doubt :
    (\A t \in Threads : call[t].pc = "stored" => Target(t).id # i) =>
      /\ disk[i] = told[i]
      /\ \A a \in g_handles : index[a][i] = "live" <=> told[i] # NoPayload

\* A handle is lost only through open() of an object that is open, being opened
\* or being closed, at most one each time: a failed open(), close() and calls
\* that overlap them lose none.  Once the object is closed no other is left in
\* the table.
HandlesAccounted ==
  /\ Cardinality(g_handles) <= 1 + reopened
  /\ IsClosed => Cardinality(g_handles) <= reopened

(***************************************************************************)
(* What does not hold in every use                                         *)
(***************************************************************************)
\* One directory has at most one open collection.
OneHandle == Cardinality(g_handles) <= 1

\* No call uses a handle that lumina_close() has destroyed.
NoUseAfterClose == \A t \in Threads : InUse(t) => call[t].h \in g_handles

\* remove() returns without an exception only when the id is gone.
RemoveRemoves ==
  \A t \in Threads :
    (call[t].pc = "done" /\ call[t].fn = "remove" /\ call[t].rc # -1) =>
      disk[Target(t).id] = NoPayload
=============================================================================
