-------------------------------- MODULE CApi --------------------------------
(***************************************************************************)
(* cpp_engine/c_api.cpp: a table of handles, each with a collection, and   *)
(* calls by several threads.  A call looks its handle up under             *)
(* g_handles_mutex and uses it without; a write does its storage step and  *)
(* its index step under the collection's write_mutex; a search holds the    *)
(* handle's own mutex while it searches and then reads one payload per hit. *)
(* Of a collection, this module keeps what is stored and what the index    *)
(* holds; its other steps, its crashes and its filters are in Collection.  *)
(***************************************************************************)
EXTENDS Integers, Sequences, FiniteSets

Seqs == INSTANCE SequencesExt

CONSTANTS
  Threads,
  Addrs,           \* addresses of handles
  Null,            \* nullptr, NULL, None
  Ids,
  Payloads,        \* sequences of Characters
  NoPayload,       \* the id is not stored
  TopK,            \* max(1, top_k)
  StorageMayFail   \* whether appends and fsyncs fail

Characters ==
  {"a", "n", "quote", "backslash", "lf", "cr", "tab", "ctrl", "nul"}

ASSUME CApiAssumption ==
  /\ Payloads \subseteq Seq(Characters)
  /\ NoPayload \notin Payloads
  /\ Null \notin Addrs
  /\ TopK \in Nat \ {0}
  /\ StorageMayFail \in BOOLEAN

VARIABLES
  g_handles,  \* the addresses in the table; close frees what it takes out
  disk,       \* the directory: what the storage engine serves of each id
  index,      \* of each handle and id: "absent", "live" or "dead"
  call,       \* the call each thread is in
  gave,       \* history: the payload an id was last added with
  told,       \* history: what the calls that returned 0 promised of each id
  doubt       \* history: ids whose last write failed in storage

apiVars == <<g_handles, disk, index, call, gave, told, doubt>>

NoCall == [fn |-> "none", pc |-> "idle", h |-> Null, todo |-> <<>>, rc |-> 0,
           hits |-> {}, got |-> {}, excused |-> {}]

NothingStored == [i \in Ids |-> NoPayload]

ApiInit ==
  /\ g_handles = {}
  /\ disk = NothingStored
  /\ index = [a \in Addrs |-> [i \in Ids |-> "absent"]]
  /\ call = [t \in Threads |-> NoCall]
  /\ gave = NothingStored
  /\ told = NothingStored
  /\ doubt = {}

(***************************************************************************)
(* Conversions.  A payload arrives as a C string and leaves as the inside  *)
(* of a JSON string.                                                       *)
(***************************************************************************)
\* The bytes before the first NUL.
CString(p) ==
  LET nuls == {k \in 1 .. Len(p) : p[k] = "nul"}
  IN  IF nuls = {} THEN p
      ELSE SubSeq(p, 1, (CHOOSE k \in nuls : \A m \in nuls : k <= m) - 1)

EscapeQuotesOnly(c) == IF c = "quote" THEN <<"backslash", "quote">> ELSE <<c>>
Escape(c) ==
  CASE c = "backslash" -> <<"backslash", "backslash">>
    [] c = "quote" -> <<"backslash", "quote">>
    [] c = "lf" -> <<"backslash", "n">>
    [] c = "cr" -> <<"backslash", "r">>
    [] c = "tab" -> <<"backslash", "t">>
    [] OTHER -> <<c>>

AddEscaped(out, c) == out \o Escape(c)
json_escape(p) == Seqs!FoldLeft(AddEscaped, <<>>, p)

(***************************************************************************)
(* The steps of a call                                                     *)
(***************************************************************************)
InUse(t) == call[t].pc \in {"found", "stored", "reading"}
Goes(t, c) == call' = [call EXCEPT ![t] = c]
Ends(t, rc) == Goes(t, [call[t] EXCEPT !.pc = "done", !.rc = rc])
Target(t) == Head(call[t].todo)
Others(t) == {u \in Threads \ {t} : call[u].h = call[t].h}

Lookup(t) ==
  /\ call[t].pc = "called"
  /\ IF call[t].h \in g_handles
     THEN Goes(t, [call[t] EXCEPT !.pc = "found"])
     ELSE Ends(t, -1)
  /\ UNCHANGED <<g_handles, disk, index, gave, told, doubt>>

WriteMutexIgnored(t) == TRUE
WriteMutexFree(t) == \A u \in Others(t) : call[u].pc # "stored"

Found(t, fn) == call[t].pc = "found" /\ call[t].fn = fn
Contains(t) == index[call[t].h][Target(t).id] # "absent"

\* Collection::add() with its write_mutex: "duplicate id".
AddRefused(t) ==
  /\ Found(t, "add") /\ WriteMutexFree(t)
  /\ Contains(t)
  /\ Ends(t, -2)
  /\ UNCHANGED <<g_handles, disk, index, gave, told, doubt>>

AddStore(t) ==
  /\ Found(t, "add") /\ WriteMutexFree(t)
  /\ ~Contains(t)
  /\ disk' = [disk EXCEPT ![Target(t).id] = CString(Target(t).payload)]
  /\ gave' = [gave EXCEPT ![Target(t).id] = Target(t).payload]
  /\ Goes(t, [call[t] EXCEPT !.pc = "stored"])
  /\ UNCHANGED <<g_handles, index, told, doubt>>

\* lumina_add_batch() goes on with the next vector.
AddIndex(t) ==
  /\ call[t].pc = "stored" /\ call[t].fn = "add"
  /\ index' = [index EXCEPT ![call[t].h][Target(t).id] = "live"]
  /\ told' = [told EXCEPT ![Target(t).id] = Target(t).payload]
  /\ doubt' = doubt \ {Target(t).id}
  /\ IF Len(call[t].todo) > 1
     THEN Goes(t, [call[t] EXCEPT !.pc = "found", !.todo = Tail(@)])
     ELSE Ends(t, 0)
  /\ UNCHANGED <<g_handles, disk, gave>>

\* A hit of a running search is removed under it; excused is a history of the
\* ids whose payload the search may miss.
SeenRemoved(t, i) ==
  [u \in Threads |->
     IF u = t THEN [call[t] EXCEPT !.pc = "stored"]
     ELSE IF call[u].pc = "reading" THEN [call[u] EXCEPT !.excused = @ \cup {i}]
     ELSE call[u]]

RemoveStore(t) ==
  /\ Found(t, "remove") /\ WriteMutexFree(t)
  /\ disk' = [disk EXCEPT ![Target(t).id] = NoPayload]
  /\ call' = SeenRemoved(t, Target(t).id)
  /\ UNCHANGED <<g_handles, index, gave, told, doubt>>

\* The index returns NotFound for an id it never held.
RemoveIndex(t) ==
  /\ call[t].pc = "stored" /\ call[t].fn = "remove"
  /\ index' = [index EXCEPT ![call[t].h][Target(t).id] =
                 IF @ = "absent" THEN @ ELSE "dead"]
  /\ told' = [told EXCEPT ![Target(t).id] = NoPayload]
  /\ doubt' = doubt \ {Target(t).id}
  /\ Ends(t, IF Contains(t) THEN 0 ELSE -2)
  /\ UNCHANGED <<g_handles, disk, gave>>

\* The append failed, or only its fsync: then the storage engine serves the
\* record.  A batch stops here.
StorageFails(t) ==
  /\ StorageMayFail
  /\ Found(t, "add") \/ Found(t, "remove")
  /\ WriteMutexFree(t)
  /\ call[t].fn = "add" => ~Contains(t)
  /\ \/ UNCHANGED <<disk, gave>>
     \/ /\ call[t].fn = "add"
        /\ disk' = [disk EXCEPT ![Target(t).id] = CString(Target(t).payload)]
        /\ gave' = [gave EXCEPT ![Target(t).id] = Target(t).payload]
     \/ /\ call[t].fn = "remove"
        /\ disk' = [disk EXCEPT ![Target(t).id] = NoPayload]
        /\ UNCHANGED gave
  /\ doubt' = doubt \cup {Target(t).id}
  /\ Ends(t, -2)
  /\ UNCHANGED <<g_handles, index, told>>

\* lumina_search(), and each query of lumina_search_batch(): handle->mutex, then
\* the hits.  Any live ids may come back; a removal may be half done.
HalfRemoved(h) ==
  {call[u].todo[1].id : u \in {v \in Threads : call[v].pc = "stored" /\ call[v].h = h
                                               /\ call[v].fn = "remove"}}

SearchHits(t) ==
  /\ Found(t, "search")
  /\ \A u \in Others(t) : call[u].pc # "reading"
  /\ \E H \in SUBSET {i \in Ids : index[call[t].h][i] = "live"} :
       /\ Cardinality(H) <= TopK
       /\ Goes(t, [call[t] EXCEPT !.pc = "reading", !.hits = H,
                                  !.excused = HalfRemoved(call[t].h)])
  /\ UNCHANGED <<g_handles, disk, index, gave, told, doubt>>

\* collection->get() of a hit, "best-effort": no payload when it is not found.
SearchGet(t, i) ==
  /\ call[t].pc = "reading"
  /\ i \in call[t].hits
  /\ LET payload == IF disk[i] = NoPayload THEN <<>> ELSE disk[i]
     IN  Goes(t, [call[t] EXCEPT !.hits = @ \ {i},
                    !.excused = @ \cup doubt,
                    !.got = @ \cup {[id |-> i, text |-> json_escape(payload)]}])
  /\ UNCHANGED <<g_handles, disk, index, gave, told, doubt>>

SearchEnds(t) ==
  /\ call[t].pc = "reading"
  /\ call[t].hits = {}
  /\ Ends(t, 0)
  /\ UNCHANGED <<g_handles, disk, index, gave, told, doubt>>

\* lumina_get() answers with one read; lumina_snapshot() and lumina_stats()
\* change nothing that is kept here.
Get(t) ==
  /\ Found(t, "get")
  /\ Ends(t, IF disk[Target(t).id] = NoPayload THEN -2 ELSE 0)
  /\ UNCHANGED <<g_handles, disk, index, gave, told, doubt>>

Maintain(t) ==
  /\ Found(t, "snapshot") \/ Found(t, "stats")
  /\ Ends(t, 0)
  /\ UNCHANGED <<g_handles, disk, index, gave, told, doubt>>

CallStep(t) ==
  \/ Lookup(t)
  \/ AddRefused(t)
  \/ AddStore(t)
  \/ AddIndex(t)
  \/ RemoveStore(t)
  \/ RemoveIndex(t)
  \/ StorageFails(t)
  \/ SearchHits(t)
  \/ \E i \in Ids : SearchGet(t, i)
  \/ SearchEnds(t)
  \/ Get(t)
  \/ Maintain(t)

(***************************************************************************)
(* The table of handles                                                    *)
(***************************************************************************)
\* lumina_open() first makes a collection, at an address that nobody has, and
\* Collection::open() puts every stored id into a new index.
CollectionOpen(a) ==
  /\ a \notin g_handles
  /\ \A t \in Threads : call[t].pc = "opening" => call[t].h # a
  /\ index' = [index EXCEPT ![a] =
                 [i \in Ids |-> IF disk[i] = NoPayload THEN "absent" ELSE "live"]]
  /\ UNCHANGED <<g_handles, disk, gave, told, doubt>>

\* Then it puts the handle into the table.
lumina_open(a) ==
  /\ g_handles' = g_handles \cup {a}
  /\ UNCHANGED <<disk, index, gave, told, doubt>>

\* lumina_close(): the handle and its collection are destroyed, whoever is
\* using them; a handle that is not in the table is left alone.
HandlesKept(a) == g_handles
HandlesWithout(a) == g_handles \ {a}

lumina_close(a) ==
  /\ g_handles' = HandlesWithout(a)
  /\ index' = [index EXCEPT ![a] = IF a \in g_handles THEN [i \in Ids |-> "absent"] ELSE @]
  /\ UNCHANGED <<disk, gave, told, doubt>>
=============================================================================
