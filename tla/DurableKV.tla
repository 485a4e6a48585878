----------------------------- MODULE DurableKV -----------------------------
(***************************************************************************)
(* What the storage engine promises to its callers, without files, frames, *)
(* offsets, snapshots or replay: a history of writes of which a crash may  *)
(* take away an unsynced suffix, and a map that always equals the history  *)
(* that is left.                                                           *)
(***************************************************************************)
EXTENDS Integers, Sequences

CONSTANTS
  Keys, Vals, NoVal,
  Strict,   \* every acknowledged write is durable (sync_writes alone)
  MaxHist   \* bound: writes in the history

VARIABLES
  hist,     \* the writes, oldest first: [key, val], val = NoVal for a delete
  safe,     \* how many of them survive any crash
  acked,    \* how many of them the caller was told about
  up,       \* the store answers requests
  view      \* what it answers: the value of each key, or NoVal

kvVars == <<hist, safe, acked, up, view>>

WritesKV == [key : Keys, val : Vals \cup {NoVal}]
Views == [Keys -> Vals \cup {NoVal}]
NothingServed == [k \in Keys |-> NoVal]

\* v gives every key the value of its last write in h.
IsView(v, h) ==
  \A k \in Keys :
    \/ /\ v[k] = NoVal
       /\ \A i \in 1 .. Len(h) : h[i].key # k
    \/ \E i \in 1 .. Len(h) :
         /\ h[i].key = k
         /\ h[i].val = v[k]
         /\ \A j \in i + 1 .. Len(h) : h[j].key # k

Init ==
  /\ hist \in {<<>>} \cup {<<w>> : w \in WritesKV}
  /\ safe = Len(hist)
  /\ acked = Len(hist)
  /\ up = FALSE
  /\ view = NothingServed

Write(w) ==
  /\ up
  /\ Len(hist) < MaxHist
  /\ hist' = Append(hist, w)
  /\ view' = [view EXCEPT ![w.key] = w.val]
  /\ UNCHANGED <<safe, acked, up>>

\* The write returns OK.
Acknowledge ==
  /\ up
  /\ acked' = Len(hist)
  /\ safe' \in IF Strict THEN {Len(hist)} ELSE {safe, Len(hist)}
  /\ UNCHANGED <<hist, up, view>>

Sync ==
  /\ up
  /\ safe' = Len(hist)
  /\ UNCHANGED <<hist, acked, up, view>>

\* A crash, or the start of a (new) recovery: nothing is served.
Stop ==
  /\ \E n \in safe .. Len(hist) :
       /\ hist' = SubSeq(hist, 1, n)
       /\ acked' = IF acked > n THEN n ELSE acked
  /\ up' = FALSE
  /\ view' = NothingServed
  /\ UNCHANGED safe

Start ==
  /\ \E v \in Views : IsView(v, hist) /\ view' = v
  /\ up' = TRUE
  /\ UNCHANGED <<hist, safe, acked>>

Next ==
  \/ \E w \in WritesKV : Write(w)
  \/ Acknowledge
  \/ Sync
  \/ Stop
  \/ Start

Spec == Init /\ [][Next]_kvVars

\* No acknowledged write is lost in strict mode.
AckedSafe == Strict => acked <= safe
=============================================================================
