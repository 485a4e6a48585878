----------------------------- MODULE WalFrames -----------------------------
(* The records of the WAL (struct WalEntry) and its file header. *)
EXTENDS Integers, Sequences

CONSTANTS
  Keys,     \* the user keys
  Vals,     \* the values
  NoKey,    \* the key of an item that is not a record
  NoVal,    \* the (empty) value of a delete record and of the file header
  PutOps    \* the put-like OpTypes: kPut, kVectorPut, kVectorPutV2

ASSUME WalFramesAssumption ==
  /\ NoKey \notin Keys
  /\ NoVal \notin Vals
  /\ "kDelete" \notin PutOps
  /\ "header" \notin PutOps

FileHeader == [op |-> "header", key |-> NoKey, val |-> NoVal]

PutFrames == [op : PutOps, key : Keys, val : Vals]
DeleteFrames == [op : {"kDelete"}, key : Keys, val : {NoVal}]
Frames == PutFrames \cup DeleteFrames
Items == Frames \cup {FileHeader}
=============================================================================
