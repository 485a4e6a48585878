# LuminaStore in TLA+

LuminaStore is an embedded vector store in C++: a write-ahead log with
snapshots, an HNSW graph for nearest-neighbour search, bitmaps for filtered
search, and a collection that ties them together, with a C interface, Python
bindings, distance kernels and quantizers. This directory holds TLA+ models of
those parts, TLC configurations that check them on small instances, and proofs,
checked by TLAPS, of the main invariants of the log, the storage engine, the
HNSW index, the codec and filter index, the collection, the bindings, the
distance kernels and the quantizers, of the log's refinement of a log of whole
frames, and of the engine's refinement of a durable map.

## 1. Inventory

| Component | State | Operations | Talks to | What is hard | What makes it correct |
|---|---|---|---|---|---|
| `LogManager` (`src/storage/log_manager.cpp`) | the WAL file, `eof_offset`, `data_start`, `legacy_wal` | `open` with repair, `append`, `sync`, `read_value_at`, `iterate_from` | file system | torn and failed writes, crash during repair, rot | whole frames are never cut, offsets name frames, the scan ends |
| `StorageEngine` (`storage_engine.cpp`), `IndexManager` | key -> offset index, group-commit counter, snapshot counter | `open`, `recover`, `put*`, `remove`, `get`, `sync`, `snapshot`, `visit_live` | log, snapshots, MANIFEST | crash between any two steps, failing fsync, reused snapshot names | index = log, acknowledged = durable, snapshots cover only durable bytes |
| Snapshot files, MANIFEST (`snapshot.cpp`, `manifest.cpp`) | `snap-<seq>.snap`, `MANIFEST` | write + rename, append + rename, strict read | storage engine | power loss brings old versions back; rot | a bad file costs a full replay, never an answer |
| `HNSWIndex` (`src/vector/hnsw_index.cpp`) | nodes with layered neighbour lists, entry point, top layer, live count | `add_item`, `remove`, `update_item`, `search_top_k(_filtered)`, `save`, `load` | distance kernels | pruning asymmetry, stale edges, tombstones, unlocked test before a search | lists name existing nodes, the entry point is live, the size is right, nothing dead is returned |
| `FilterIndex` (`src/index/filter_index.cpp`) | per field and value a set of ids, the set of all ids | `add`, `remove`, `matches` | collection | several types in one field, re-registration | the predicate equals its meaning on the scalars |
| `Collection` (`src/engine/collection.cpp`) | the three above, `dim`, `write_mutex` | `open`, `add`, `update`, `remove`, `get`, `search(_filtered)`, `snapshot` | all of the above | one step of three failing, crash between steps, partial rebuild | the indexes agree with storage; what callers were told is served |
| EntryMeta codec (`src/storage/entry_meta.cpp`) | none | `encode_entry_meta`, `decode_entry_meta` | collection | counts at the limits of their width, parts of entries | decode inverts encode and accepts nothing else |
| C API (`cpp_engine/c_api.cpp`) | table of handles, a mutex per handle | open, close, add, add_batch, remove, search, search_batch, get, snapshot, stats | collection | close racing with a call, payloads read after the search, batches that stop midway | hits carry their payloads, return codes tell the truth |
| Python (`python/lumina/__init__.py`) | `_h` | the same, and `with` | C API | threads without the interpreter lock, `open()` of an object that is not closed, text conversions | no handle is lost but by such an `open()`, answers parse |
| Distance kernels (`vector_math_*.cpp`, `pipeline.cpp`) | the kernel table, a once flag | `l2_distance`, `cosine_distance`, inner product | HNSW | first calls racing, what processor and system support, lanes and rests | every kernel gives the scalar distance on a machine that can run it |
| Quantizers (`src/index/quantizer*.cpp`, `quantized_distance.cpp`) | trained ranges and codebooks | `train`, `encode`, `distance_to_query`, `distance`, `save`, `load` | byte and bit kernels | bytes at their limits, retraining, files with fewer centroids than the header says | a code stands for its vector, also after save and load |
| CRC32, benches, tools | none | | | | not modelled |

Locks: `StorageEngine::mutex_` is held exclusively by everything that changes
the engine; `HNSWIndex::struct_lock` exclusively by every change of the graph
and shared by searches; `FilterIndex::mutex_` likewise;
`Collection::write_mutex` serialises the three writing calls. A filtered
search takes the lock of the graph and, id by id, that of the filter index.
`g_handles_mutex` covers the lookup of a handle and not its use; `Handle::mutex`
serialises searches. `std::call_once` covers the choice of the kernels.

The hazards, each at its line with the property that would catch it, are listed
in `PROJECT.json`.

## 2. Modules

```
WalFrames          frame alphabet of the WAL
 |- LogManager     the file in cells: torn writes, repair scan, rot   --refines--> FrameLog
 |   |- LogManagerProofs       theorems
 |- FrameLog       the log as whole frames, with crashes
     |- StorageEngine        index, replay, fsync policy, snapshots, MANIFEST
         |- MCStorageEngine        symmetry for TLC
         |- StorageEngineKV        --refines--> DurableKV
         |- StorageEngineDamage    plus a rotten last frame
         |- StorageEngineProofs    theorems, with StorageEngineKV the refinement
DurableKV          what the engine promises: a history, a durable prefix, a view
HNSWGraph          beam search, neighbour heuristic, pruning, wiring (operators)
 |- HNSWIndex      the index's operations      |- MCHNSWIndex
                                               |- HNSWIndexProofs
FoldRule           rules about loops and recursive functions, which HNSWIndexProofs,
                   StoredEntriesProofs, PyCollectionProofs and QuantizersProofs
                   instantiate
FilterIndex        bitmaps and predicate
EntryMeta          the bytes of an entry (operators)
 |- StoredEntries  with FilterIndex: entries through add, remove, restart
                                               |- MCStoredEntries
                                               |- StoredEntriesProofs
Collection         over DurableKV, FilterIndex |- MCCollection
 |- CollectionSearch  filtered searches beside a writer
                                               |- MCCollectionSearch
                                               |- CollectionProofs
CApi               handles and the steps of calls by several threads
 |- PyCollection   the Python object           |- MCPyCollection
                                               |- PyCollectionProofs
VectorMath         kernel selection and kernels
 |- Quantizers     SQ8, Binary, PQ             |- MCQuantizers
                                               |- QuantizersProofs
```

**FrameLog / StorageEngine.** The WAL is a sequence of items (the file header,
then frames); an offset is the number of items before a frame. `durable` counts
the fsynced ones. `pc` is the step the holder of the engine's mutex is at:
`appended` lies between `log_.append` + index update and the fsync of
`maybe_fsync_after_append`; `snap_written`, `snap_renamed` and
`manifest_renamed` are the gaps of `snapshot()`; `replay` is one frame of
`iterate_from`. `snapsAlt` and `manifestAlt` hold the versions of a file that a
power loss may bring back until the directory is fsynced. `Kill` (the process)
and `PowerLoss` (the machine) may come at every step. Read-only calls are
operators (`GetResult`).

**LogManager.** The same log one level down, as cells (magic, version, frame
header with CRC, length, parts of the payload). An append is three writes;
`open()` is a scan frame by frame with the code's verdicts and the truncation;
`WriteFails` leaves a part of a frame, `Rot` garbles one cell of a chosen role.

**DurableKV.** History of writes, how many survive a crash, how many were
acknowledged, and the map served. `StorageEngineKV` gives the mapping.

**HNSWGraph / HNSWIndex.** `SearchLayer`, `Select`, `Prune`,
`ConnectBidirectional`, `Wire` and `Detach` follow the code including its
trimming, its order of ties and its early returns. A loop is a fold over its
list whose body is an operator of its own (`Place`, `Keep`, `Attach`, `Cut`,
`StepDown`), the beam a recursive function of its rounds. Every writing operation is
one step (exclusive lock); a search is two, because the entry point is tested
before the lock is taken. Levels are chosen freely instead of drawn.

**FilterIndex.** `bits` is the BitSet of each field and value; `scalars` is a
history variable that holds what each id was registered with.

**Collection.** The storage engine is an instance of DurableKV with strict
durability (the collection uses the default options); the HNSW index is reduced
to absent / live / tombstone and the vector of each id. The steps of a call are
storage append, storage return, HNSW, filter (two steps for `update`). `told`
is what calls that returned OK promised, `doubt` the ids whose last write failed
or never returned, `apart` those whose write failed in this process.

**EntryMeta / StoredEntries.** The layout is the code's, byte by byte, with a
byte of `Base` values so that a 16-bit count is `Weight(2)`, which is `Base ^ 2`.
`Put` is put_u8 to put_u64; `take_*` are the reads of `Reader` with their bounds;
`SortedByName` inserts field by field, as std::sort does with short lists.
StoredEntries
keeps the encoded bytes of each id beside what the caller gave; `Reopen` is the
rebuild of `Collection::open()` from the decoded entries.

**CollectionSearch.** `search_filtered()` as steps of a second thread:
`StartInFilter` or `StartPostFilter`, one `Evaluate` per call of `matches()`,
`Retry` with a beam twice as wide, `Finish`. An in-filter search holds the lock
of the graph shared, so the writer's graph step (`LockedStep`) waits for it and
its filter steps do not. Which live ids a traversal comes to is left open. The
history fields of `query` record what the writes seen during the search let its
caller expect.

**CApi / PyCollection.** Of a collection, what is stored and what each handle's
index holds. A call is lookup, storage step, index step, or lookup, hits, one
read per hit. Payloads are sequences of characters of nine kinds, converted by
`CString`, `json_escape` and (external) `json_loads`. `lumina_open()` is two
steps, `CollectionOpen` at a new address and the entry in the table. PyCollection
adds the object: `_h`, the test of it, and the steps of `open()` and `close()`.
`open()` tests nothing, so any thread may call it at any time: `Open` (into the
library, which may fail), `Register`, and `Opened`, where `_h` takes whatever came
back. `close()` is `Close`, where the handle is destroyed, and `Closed`, where `_h`
becomes `None`; an `open()` may fall between. The history variable `reopened`
counts the calls of `open()` on an object that is open, being opened or being
closed. Since two engines on one directory write to its WAL each at its own
offset, which `disk` does not show, the properties of payloads and of promises
speak of executions in which it is still 0. A `_check` and the call that follows
are one step; a close between them would only turn the answer into an error.

**VectorMath / Quantizers.** Threads race through `call_once`; a machine is an
architecture and a set of features; `LaneSum` is the loop all kernels share, in
lanes of 1, 4, 8 or 16 and a rest. Coordinates are integers, on which float sums
of this size are exact; a cosine distance is given by the three sums it is made
of. A quantizer is a record of what it has learned; k-means starts from any
choice of its seeds instead of the one a fixed generator draws. The codes belong
to the caller, who keeps them beside the saved quantizer and drops them when it
is trained anew.

## 3. Runs

| Run | Instance | Shows |
|---|---|---|
| `strict` | 2 keys, 3 items, fsync may fail | type, index = log, `get`, snapshots, durability, the inductive invariant, cause of refusals, durable prefix |
| `group` | N = 2 | fewer than N acknowledged records of a session are unsynced |
| `kv` | 1 key, 3 items, fair | refinement of DurableKV; every operation under the mutex ends |
| `torn` | 11 cells | refinement of FrameLog through torn writes and repairs; offsets |
| `damage` | 9 cells, failed writes, one rotten cell, fair | the repair scan ends; payload rot never costs a whole frame |
| `hnsw_ops` | 3 ids, 2 points, 1 searching thread, files of up to 2 nodes, whole and cut | entry point, size, lists, only live results, through save and load |
| `hnsw_build` | 5 ids, 3 points, 2 layers | search equals an exhaustive scan; lists under pruning |
| `entries` | 2 ids, 2 names (one a prefix of the other), 4 values, lists of up to 8 fields | decode inverts encode and is strict; filters mean what they say, before and after a restart |
| `collection` | 2 ids, 3 records, 1 clause, k = 1, 2 rounds | the three stores agree; promises survive crashes; what filtered searches return and reject |
| `c_api` | 2 threads, 2 handles, 2 ids, 2 payloads, batches of 1 and 2 | hits parse and carry payloads; return codes are true; each such `open()` loses at most one handle and nothing else loses any (1 `open()` of an object not closed) |
| `distances` | 2 threads, 5 machines, dimensions 0 to 37, 3 quantizers | exact distances whatever kernel is chosen; codes are near, symmetric, accurate |
| `open_refused` | expected violation | see section 4 |

**Bounds.** `MaxFile = 3` is the header and two records, enough for a put and a
delete or two puts of one key with a snapshot between them. `SeqMod = 1` makes
every snapshot reuse the same name, the worst case of the wrapping counter;
`ManifestKeep = 1` makes every append prune. 11 cells hold the header, two
whole puts and the start of a third frame; 9 cells still hold a delete and a put,
so a rotten frame may have a whole one behind it. Five nodes with M = 2 are the most
for which layer 0 (2M neighbours) never prunes, which is where an exhaustive
answer can be expected; layer 1 does prune. `ef` is at least the number of
nodes. `TopLevel` is 1 in every HNSW run. Three storage records let a collection
add, update and remove one id, or mix two, after a restart. `MaxSavedNodes = 2`
bounds the files, not the index. With `Base = 3` a 16-bit count ends at 8, which
is the longest list; names of one and two bytes are enough for the order and for
a prefix. `MaxReopens` bounds the calls of `open()` on an object that is not
closed; `CallsBeforeReopen` lets only `open()` and `close()` go on after such a
call, because the two properties about calls say nothing from there on and calls
do not touch the handles. A search beside a writer has two rounds instead of four: a second
round is what a retry adds, and its beam already exceeds the ids. Two threads
suffice for every pair of calls to interleave; the batch of two ends in the id
the other thread writes. Dimensions 3, 9, 16 and 37 lie below, between and at
the lanes; 17 bytes and 9 bits leave a rest; PQ has sample sets smaller than,
as large as and larger than its codebooks, with coordinates for which every mean
is an integer. `PqIterations = 8` and `ByteValues = 256` are the code's.

**Fairness.** `FairSpec` of StorageEngine assumes that the thread inside the
engine's mutex goes on (its loops have no waits, its system calls return);
`FairSpec` of LogManager assumes the same of the repair scan. Nothing is assumed
of callers.

**Assumptions about the environment.** A torn write leaves a prefix of its
bytes; a successful fsync makes the whole file durable; the WAL's directory
entry survives; the `ftruncate` of the repair, which the code does not fsync,
is not undone by a power loss; an engine whose `open()` failed is only opened or recovered
again; CRC32 detects every difference; an HNSW index whose `load()` failed is
no longer held to the properties until a load succeeds. Nobody closes a Python
object while another thread is inside a call of it (section 4 drops this). Payloads hold no NUL and no control
character without an escape of its own. The byte kernel is that of the build
files: NEON on ARM, scalar on x86. The group-commit window counts from the last `open()`: the
counter restarts there without an fsync, so records of the session before may
still be unsynced.

## 4. Where the code and its documents disagree

The first is kept as a run with an expected violation, since it makes a store
unusable in ordinary use. The others can be reproduced with the
configurations named here (`tlc -config <cfg> <module>`); "with `P`" means that
the property P, defined in the same modules, takes the place of the properties
the configuration lists. Where a weaker statement does hold, a run checks it.

| Configuration | What the code says of itself | What it does |
|---|---|---|
| `MCStorageEngine_refused.cfg` (run `open_refused`) | full replay "when the manifest or snapshot is missing/corrupt" (`storage_engine.cpp`) | a snapshot of an empty WAL has watermark 0; after the first write `open()` fails for good. `RefusalCause` proves that nothing else can cause it |
| `MCHNSWIndex_ops.cfg` with `NodesAttached` | "re-attach it to the graph" (`hnsw_index.h:53`) | updating the entry point clears its edges and then searches from it: nothing is attached, and later searches see one node |
| `MCStorageEngine_strict.cfg` with `ManifestKeepsAtMost` | "at most kManifestKeep records are kept" (`manifest.h:14`) | one more |
| `StorageEngineDamage.cfg` | "range checking suffices" (`log_manager.cpp:489`) | a WAL whose rotten last frame was cut and that grew again passes the check with a stale snapshot |
| `LogManager_write_fails.cfg` | "returns offset of the written frame" (`log_manager.h:56`) | after a write that failed half-way, the next offset is wrong |
| `LogManager_rot_length.cfg`; the same with `DamageKinds = {"H1"}` | "middle corruption -> error" (`log_manager.h:34`) | a rotten length or magic is taken for a torn tail; for payloads it holds (run `damage`) |
| `MCHNSWIndex_ops.cfg` with `SearchInRange` | "search is safe against concurrent add/remove/update" (`hnsw_index.h:31-32`) | a `remove` of the last node between the test of the entry point and the lock makes a search use -1 as an index |
| `MCHNSWIndex_ops.cfg` with `SizeAlwaysCountsLive` | "Number of live (non-deleted) entries." (`hnsw_index.h:66`) | a failed `load` replaces the nodes and keeps the count |
| `MCStoredEntries.cfg` with `NotEqualNeedsField` | "Must have the field set AND not equal the value." (`filter_index.cpp:80`) | ids without the field pass |
| `MCStoredEntries_replace.cfg` | "Register/replace the scalar fields of an id." (`filter_index.h:58`) | the old values stay |
| `MCStoredEntries.cfg` with `ReopenKeepsNotEqual` (a PROPERTY) | "rebuild HNSW from live entries" (`collection.h:24-25`) | != on a field that only removed entries had: a restart forgets the field and changes the answer |
| `MCStoredEntries_count.cfg` | "too many scalars" (`entry_meta.cpp:128`) | a list of exactly 65536 fields passes the test and its count is written as 0: the entry cannot be read back |
| `MCCollection_dims.cfg` | "rebuild HNSW from live entries" (`collection.h:24-25`) | an entry that is refused ends the rebuild, and `open()` returns OK |
| `MCCollection_revive.cfg` | "(revives tombstones)" (`collection.h:45`) | only until the next restart |
| `MCCollectionSearch.cfg` with `MatchingNeverRejected` | two calls at `collection.cpp:162-163` | while an id is updated from one matching entry to another, a filtered search may miss it |
| `MCPyCollection_close.cfg` | a lock around every lookup (`c_api.cpp:34`) | it is released before the handle is used; a close in another thread frees the handle under the call |
| `MCPyCollection_with.cfg` | `with lumina.open_collection(...)` (`README.md:99`) | `OneHandle` is violated: the constructor has opened, `__enter__` opens again: two handles on one WAL, the first is never closed. A second `open()`, two that race, and one between `lumina_close()` and `_h = None` (`__init__.py:120-121`) do the same |
| `MCPyCollection_control.cfg` | escapes at `c_api.cpp:51-72` | other control characters are left as they are, and `json.loads` rejects the whole answer |
| `MCPyCollection_control.cfg` with `Payloads <- NulPayloads` | payloads are `str` (`__init__.py:136`) | a NUL ends the payload |
| `MCPyCollection.cfg` with `RemoveRemoves` | `add()` raises when its call fails (`__init__.py:152`) | `remove()` drops the return code |
| `MCQuantizers_avx2.cfg` | "*exact* for code-to-code distances" (`quantized_distance.h:13`) | with `-march=native` on x86, bytes that are more than 128 apart look near |
| `MCQuantizers_neg_zero.cfg` | "sign bits of a raw float query" (`quantized_distance.h:29`) | -0.0 is non-negative when encoded and negative when asked for |
| `MCQuantizers.cfg` with `SavedFilesLoad` | "Serialize the quantizer (codebooks etc.)" (`quantizer.h:48`) | PQ trained on fewer than k samples saves fewer centroids than `load()` reads, and cannot be loaded |
| `MCQuantizers.cfg` with `CodebooksFit` | "dim must be divisible by subspaces" (`quantizer_pq.cpp:81`) | the refused `train()` has already changed the dimensions, which the old codebooks no longer fit |
| `MCQuantizers_wrap.cfg` | "1 byte if k <= 256" (`quantizer.h:91`) | one byte for every k: indices beyond it are cut (checked with a byte of 2 values and k = 3) |

## 5. Proofs

Every theorem holds for all values of the constants that the named assumptions
of its modules allow: any keys, ids, payloads and threads, files and histories
of any length. Where a theorem needs more, that is a hypothesis in its statement,
and it is one the code does not do without: section 4 has the counterexample.

| Module | Theorem | States | Hypothesis |
|---|---|---|---|
| `StorageEngineProofs` | `TypeCorrect` | `TypeOK` | |
| | `InvariantHolds` | `InductiveInvariant` | |
| | `IndexCorrect`, `GetCorrect` | `IndexIsTheLog`, `GetIsLastWrite` | |
| | `SnapshotsCorrect` | `SnapshotsSound` | |
| | `AckedCorrect` | `AckedDurable` | |
| | `DurableRecordsStay` | `DurablePrefixKept` (action property) | |
| | `RefusalCause` | `RefusedOnlyForEmptySnapshot` | |
| | `ManifestStaysShort` | `ManifestBounded` | |
| | `WindowCorrect` | `GroupCommitWindow` | fsyncs succeed: a failed one resets the counter |
| | `EngineImplementsKV` | `ImplementsKV` (refinement) | |
| `LogManagerProofs` | `LogTypes` | `TypeOK` | |
| | `LogInvariant` | the invariant `LogInv` | |
| | `OffsetsAreFrames` | `AppendReturnsFrameOffset` | writes succeed |
| | `RotCutsNoFrame` | `PayloadRotCutsNoFrame` | |
| | `RefinesFrameLog` | `ImplementsFrameLog` (refinement) | writes succeed, nothing rots |
| `CollectionProofs` | `CollectionInvariant` | the invariant `CollectionInv` | |
| | `CollectionTypes`, `ToldServed` | `TypeOK`, `ToldIsServed` | |
| | `StoresInStep` | `InStep` | one dimension in every session |
| | `SearchKeepsCollection` | `SearchSpec => Spec` | |
| | `HitsPassFilter` | `ResultsPassFilter` | no != clause: it accepts ids without the field |
| | `SettledFound` | `SettledNeverRejected` | |
| `HNSWIndexProofs` | `IndexInvariant` | the invariant `IndexInv` | |
| | `IndexTypes` | `TypeOK` | |
| | `ListsAreSound` | `ListsSound` | |
| | `EntryPointIsSound` | `EntryPointSound` | |
| | `SizeIsLive` | `SizeCountsLive` | |
| | `SearchesFindLive` | `OnlyLiveFound` | |
| | `BuiltIsExhaustive` | `SearchIsExhaustive` | `add_item()` only, at most 2 `M` + 1 ids, a beam as wide as the ids |
| `StoredEntriesProofs` | `EntriesAreEncoded` | the invariant `StoredInv` | fewer than 65536 fields |
| | `EntriesAreReadBack` | `DecodeInvertsEncode` | fewer than 65536 fields |
| | `PartsAreRefused` | `DecodeIsStrict` | fewer than 65536 fields |
| | `AnswersAreExact` | `FilterIsExact` | fewer than 65536 fields, no id added twice |
| | `RestartsKeepAnswers` | `ReopenKeepsAnswers` (action property) | fewer than 65536 fields, no id added twice |
| `FoldRule` | `FoldKeeps`, `RoundsKeep` | loops keep an invariant of their rounds | |
| | `FoldNext`, `RoundsNext` | the recursion equations of a fold and of a function of the rounds | |
| `PyCollectionProofs` | `HandlesAreAccounted` | `HandlesAccounted` | |
| | `PromisesServed` | `ToldIsServed` | no close beside a call, no NUL in a payload |
| | `HitsAreWhole` | `HitsCarryPayloads` | the same, and no bare control character in a payload |
| `QuantizersProofs` | `KernelsAreExact` | `DistancesAreExact` | |
| | `OwnCodesAreNearest` | `OwnCodeIsNearest` | no -0.0 where bits are packed, no more centroids than values of a byte |
| | `QueriesAgree` | `QueriesAgreeWithCodes` | the same |
| | `CodesKeepTheirVectors` | `CodesAreAccurate` | no more centroids than values of a byte |

**Storage engine.** `IndexIsTheLog` speaks of an engine that is open; it is not
inductive, since it says nothing of states inside an operation. The invariant
adds: the shape of the file and of the log's volatile fields (`Structure`);
during replay, that the index stands for the items before the cursor, and in
every other busy state for the whole file (`IndexTracksLog`); that every snapshot
on disk, one a power loss may bring back and the one in flight (`PendingSound`)
describe a durable prefix; and that acknowledged writes are durable. Two lemmas
carry the argument: `MatchPrefix` (an index of a prefix is unaffected by what
comes after) and `MatchApply` (applying one record extends the prefix by one).
Each action then has a lemma, and `InvariantNext` collects them. The MANIFEST
theorem needs the length of all versions that a power loss may bring back; the
window theorem needs the relation of the group-commit counter to the records
behind the durable prefix at each step of an append.

**Refinement.** `EngineImplementsKV` follows the mapping of `StorageEngineKV`:
the history is that of the file's records, the view that of the index. Steps
inside replay, snapshots and failing system calls map to stuttering, the append,
fsync, return, open and crash to the actions of DurableKV. The view of a history
is defined through the greatest position of a key; `Smallest` and `Greatest`
(from the well-foundedness of < on Nat) show that it exists.

**Log.** `FieldsInv` bounds the fields. `OffsetsInv`: until a write fails,
`eof_offset` is the end of the file or the start of the frame being written, so
the offset handed out is where the frame lies. `GrammarInv`, while nothing but
payload has rotted: up to the first rotten cell the file is a header and frames
one behind the other, of which only the last may be torn; the scan stands at such
a boundary with nothing rotten before it; and where an append may start, no frame
is torn before the first rotten cell. The last clause is what makes it inductive: a second
append behind a torn frame would hide a whole frame in a tail. The verdicts of
the scan then follow: the cells at the cursor are a genuine frame header, so a
frame that does not fit is either the torn last one, with nothing behind it, or
complete and rotten, which is reported.

`RefinesFrameLog` maps the file of cells to the items that end in it, in the order
of their last cells: `UpTo(cells, n)` are those of the first n cells. Three
lemmas say what an item is known by: at most one ends at a cell (`OneEnds`), none
ends inside a frame (`NoneEnds`), and a prefix of a file has a prefix of its items
(`UpToPrefix`). So a frame header or part of a payload adds no item and the last
cell of a frame adds exactly that frame; the cells that `Truncate` cuts end no
item, since no whole frame is in the tail; a power loss keeps the items of what is
left. Two more invariants hold under the hypotheses: `Unharmed`, no cell is rotten
and open() does not fail, and `FieldsTell`, an open log's `data_start` and
`legacy_wal` agree with what the file begins with. The steps of the repair scan and
a frame header are stuttering, the end of the scan is FrameLog's open, the file
header an append that is rejected after it, the payload an append, and fsync and
crashes map one to one.

**Collection.** `CollectionInv` says of each id what storage, HNSW index and
filter index hold in each state of a write: how far it has come
(`WriteProgress`); of every id that is neither in doubt nor being written, that
the log holds what callers were told and a crash takes none of it (`ToldInLog`);
and that the two indexes agree with the log about ids no write is at work on
(`MemoryInStep`). A search changes none of it, which gives all of this beside a
search too. `QueryInv` relates the history of a search to the stores.

**Bindings.** `AccountInv` counts the collections that exist, those in the table
and those `lumina_open()` is still making: never more than one and one for each
`open()` of an object that was not closed, and one fewer while `_h` names none of
them (`Vacant`: a close is in progress, an `open()` has come back without a
handle, or with one that is gone). `close()` takes one out, or `_h` named none
before; that is what makes room for the next `open()`. The count says nothing of
which handle is lost, and nothing is assumed of who closes when: with
`CloseRaces` a handle may be closed twice, and its address be given to another
collection in between.

The other two theorems speak of objects opened only when closed, so their
invariants are those of `reopened = 0`. `HandleInv`: an open handle is the one
the object holds, a close in progress has already taken it from the table, and
an `open()` runs alone. `ServeInv` adds that a call in
flight uses that handle, that writes of one collection are serialised, and what
a promise says of store and index. `HitInv` is about the ids a search has found:
they stay in the index, live or as tombstones, so `add()` of one is refused and
nobody changes what it was last given; and where storage no longer holds one, or
a removal of it is between storage and index, the search is excused. The second
half is what `RemoveIndex` needs, which clears the doubt about an id whose
payload is already gone. That the text of a hit is the payload is
`TextIsReadBack`: `EscapedIsRead` says of one character that json.loads() reads
its escape as the character (`FoldNext`, once or twice), and `FoldKeeps` goes
over the payload. The hypotheses are those under which TLC finds the property
true: `MCPyCollection_control.cfg` breaks it with a control character.

**HNSW.** A list of a node is sound when its entries are other nodes of the
layer, none twice, and no more than the layer allows. That is not what holds in
the middle of an operation: `ConnectBidirectional` appends to the lists of the
neighbours first and prunes afterwards. `Sound(g, Over)` therefore lets the lists
of the nodes in `Over` be one entry too long, and `Prune` takes a node out of
`Over`. The other thing that must be known of wiring is what it leaves alone:
`SameNodes` says that only lists differ, so the level of a node, its tombstone
and with them entry point and live count are untouched by `Wire` and `Detach`.
For a search, `SearchState` says that beam and results are drawn from nodes of
the layer, none twice, and that results pass the filter (`Passing`). `IndexInv`
collects this for the index and for the file it was last saved to, which `load`
brings back; of an index whose load failed halfway it keeps the types only. Each loop
of the code is an instance of `FoldRule` with the loop's body for `Step` and its
invariant for `Inv`: sorting, selecting, removing an entry, connecting, cutting a
node out of a layer and out of all layers, visiting, expanding, descending,
attaching. `FoldRule` itself rests on the well-foundedness of < on Nat.

`BuiltIsExhaustive` needs more: that no node is out of reach. `Connected` says so of
layer 0: a set of nodes that its lists do not lead out of is empty or everything.
With at most 2 `M` + 1 nodes no list of layer 0 is ever pruned, so wiring only adds
edges (`Grows`), and it links the new node to an old one in both directions
(`Linked`), since a search from the entry point finds at least that one and
selection keeps at least one. How often and in which order it searches, and how
wide `ef_construction` is, does not matter (`LinkInv`, `ConnectedGrows`). A search
with a beam as wide as the graph drops nothing: what it has seen and passes is in
the results (`WideState`), and the lists of what it has expanded have been
followed (`Explored`). Every round expands one more node or ends, so after as many
rounds as there are nodes no candidate is left (`WideInv`), and what was seen is
closed and therefore everything. The bounds are those up to which the argument
holds: a larger index has pruned lists, and pruning drops edges that
nothing else may replace. `MCHNSWIndex_build.cfg` is the smallest index at both
bounds: 5 ids with `M` = 2 and a beam of 5.

**Codec.** A decoder that stops short of the end of its input must be told from
one that reads garbage, so the lemmas speak of an input `b` that agrees with the
encoding *as far as it reaches*: `At(b, pos, x)`. Such an input is the encoding
itself, a prefix of it or an extension, and one chain of lemmas serves all three:
`Reads(t, b, end, out)` says that the take `t` gives `out` and stops at `end` if
`b` reaches that far, and fails if it does not. From `TakeNumber` (digit by digit,
`NextDigit`) the chain goes over texts, floats, the cast of negative integers
(`SignedAgain`), values, fields and lists of fields to the flags and the three
parts of an entry; `Decoding` then says that `b` is accepted exactly when it is as
long as the encoding, and what is read from it. Sorting is needed for its result
only: `SortedFields` (the same fields, as many, their names in order). `StoredInv`
says of every live id that its bytes are the encoding of an entry that fits into
the layout. A length that does not fit would be written as a smaller one;
`AcceptedFits` shows that `encode_entry_meta` refuses all of those but the list of
exactly 65536 fields, which is why the theorems leave it out.

**Filter index.** `FilterInv`: the bit set of a field and value holds the live ids
that were given it, the names of all those fields are known, and `all_ids` are the
live ids. Adding an id that is not registered and removing one keep it; a restart
rebuilds it, because by `ReadsBack` no entry is refused and each is read back with
the scalars it was given. An id that is added twice keeps its old values, which is
`MCStoredEntries_replace.cfg`; `Collection::add()` refuses to.

**Kernels and quantizers.** `KernelInv`: the table is written once, for this
machine, before any thread loads it; `SelectedExecutes` shows that the machine can
run what was chosen for it. That its sums are the scalar ones is `LaneSumIs`: after
every block the lanes together hold the sum of the coordinates so far (`SumOfSums`,
`SumSplit`), and the rest adds what is left, for lanes of 1, 4, 8 and 16.
The coordinates are integers here too; that float sums in another order round
differently is left out of model and theorem alike. `QuantInv` says of the
quantizer that, when ready, it is trained (`Trained`: a range that is not empty, or
codebooks that all have as many centroids, of the dimension of a subspace) and that
the codes kept are its own, and the same of what was saved. It is `Train` that
makes the first part work: a range has a least and a greatest coordinate
(`GridLeast`), and each round of k-means makes centroids of centroids without a
division by zero (`MovedKeeps`). It is `LoadedAre` that carries it over a
restart: `save()` puts every centroid into a slot (`FlatIs`), and a `load()` that
succeeds finds all of them there, since a file with fewer is refused. The properties
follow from what a code is: the nearest level (`LevelIsNear`), the bits a query
would have (`BitsOfQuery`), the nearest centroid (`PQCodeIsNearest`). That no code
is nearer to a vector than its own needs no more of the byte kernel than that it
gives natural numbers and 0 for equal codes, so this holds of the AVX2 build too.

Only model-checked: liveness (`OperationsFinish`, `RepairEnds`), which is out of
the prover's reach.

## 6. Not modelled

CRC32 works on 32-bit words, which TLC's integers do not hold; LogManager takes
it as detecting every difference. The benches and tools measure and keep no
state. The byte layout of snapshot and HNSW files is reduced to readable or
cut. The visited stamps of `search_layer` are a set: their wrap after 2^32
searches of a thread is out of reach. Memory is not modelled: neither the
BitSets, which grow to the largest id, nor buffers that cannot be allocated.
Rounding of floats is not modelled, and neither is the alignment of loads.
Distances are left out of the answers of a search: one that is not finite is
printed as `nan` or `inf`, which `json.loads` rejects.
The recall of a search in an index with tombstones is not stated: the code
promises none.

## 7. Plan

Every part that keeps state is modelled, and every safety property that a run
checks is stated by a theorem, under the hypotheses of the table in section 5.
