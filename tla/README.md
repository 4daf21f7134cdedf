# dottorrent: a TLA+ verification project

dottorrent is a C++20 library that creates, reads and verifies BitTorrent
metafiles (v1, v2 and hybrid).  Its hard part is the hashing pipeline: a reader
thread, a pool of hash workers, optional checksum workers and a writer thread,
joined by bounded queues and a pool of recycled buffers; around it are the
containers (files, trackers, fields of a metafile) and their conversion to and
from bencoded files and magnet URIs.  This directory models the pipeline, what it
computes, and the containers and conversions in TLA+, checks them with TLC on
small instances and proves with TLAPS, for all instances, the safety properties of
the queue, of both worker pools and of the whole pipeline of threads, that v2 hashing
leaves the right Merkle root and piece layer at every file, and that the trackers of
a metafile stay well formed, keep the order of their tiers and survive a round trip.

`tlc -config X.cfg M` runs a configuration on module M, `tlapm M.tla` checks the
proofs of M.  `PROJECT.json` lists every run with its module, the properties, the
mutants that show each property can fail, and the source lines behind every
definition.

## 1. Inventory

Paths are relative to the repository: `include/dottorrent/` and `src/`.

| Component | State | Operations | Interacts with |
|---|---|---|---|
| `concurrent_queue` | items, capacity, mutex, two condition variables | push, try_push, pop, try_pop, size, set_capacity | every pair of threads |
| `chunk_processor_base` with `chunk_hasher_single_buffer`, `chunk_hasher_multi_buffer` | threads, work queue, started/cancelled, a done flag per thread, byte counters | start, request_stop, request_cancellation, wait, done, run (per thread) | fed by the reader, feeds the writer |
| `concurrent_queue_processor` | the same with a queue of optionals | the same | base of the piece writers and verifiers |
| `object_pool` | queue of unused buffers, number of buffers it may still construct | get, recycle (by the deleter of a `shared_ptr`) | reader gets, the last consumer recycles |
| `chunk_reader`, `v1_chunk_reader`, `v2_chunk_reader` | position in files and pieces, current buffer, cancelled | start, request_cancellation, wait, run, push | pool, hash queue, checksum queues |
| `v1_chunk_hasher_*`, `v2_chunk_hasher_*` | hashers per thread | hash_chunk | pushes piece hashes to the writer's queue |
| `v1_checksum_hasher`, `v2_checksum_hasher` | current file, bytes hashed of it | hash_chunk | writes checksums to file entries |
| `v1_piece_writer`, `v2_piece_writer` | Merkle tree and block counter per file | set_finished_piece, set_piece_layers_and_root | writes to `file_storage` |
| `v1_piece_verifier`, `v2_piece_verifier` | result bitmap | the same, comparing | reads `file_storage` |
| `storage_hasher`, `storage_verifier` | the parts, started/stopped/cancelled | start, wait, cancel, progress | drives all of the above |
| `merkle_tree` | nodes | set_leaf, update, get_layer, root | v2 writer and verifier |
| `file_storage`, `file_entry` | files, root, piece size, piece hashes | add/remove file, set_piece_size, allocate_pieces, optimize_alignment, ... | everything |
| `announce_url_list` | urls with tiers, ordered | insert, emplace, erase, find | metafile |
| `metafile`, parsing, serialization, `magnet_uri`, percent encoding | fields of a torrent | load, save | bencode library |
| hasher backends | digest contexts | update, finalize | OpenSSL, wolfSSL, WinCNG, ISA-L |

What is hard.  *Interleaving*: two condition variables and notifications after
the unlock; two loops of several workers that take from one queue; wake-up
sentinels that travel through the same queue as the work.  *Ordering of
shutdown*: every stage must be stopped after the stage that feeds it.
*Resource limits*: a full queue and an exhausted buffer pool block the reader
until a consumer moves, and shutdown itself pushes into bounded queues.
*Cancellation*: workers leave at once while others wait for them.
*Contracts*: gsl-lite's `Expects`/`Ensures` end the process.
*Boundaries*: files, chunks, pieces and blocks begin and end at different
offsets; files may be empty, missing, truncated or exact multiples of a chunk.
*Sequences of edits*: hashes, indexes and tier numbers are derived from the files
and urls and must follow them; what is written must be readable, and a loaded
torrent must keep its info hash.
What makes the components correct, in one line each: the queue is atomic, bounded
and wakes whoever can move; a pool hashes every chunk once, does not say
`done()` early and can be waited for; the pipeline writes every piece once before
`wait()` returns, fails no contract and loses no buffer; pieces, roots, layers,
checksums and verification results are those of the bytes on disk; tracker lists
stay ordered without gaps; metafiles and magnet URIs survive a round trip.
`PROJECT.json` lists the hazards at their lines with the properties that would
catch them.

## 2. Modules

```
AtomicQueue                      what a queue promises
  ^ refined by
ConcurrentQueue                  mutex, condition variables      MCConcurrentQueue
ChunkProcessor                   hash worker pool
ConcurrentQueueProcessor         piece writer's thread pool
StorageHasher                    H, S == INSTANCE ChunkProcessor,
                                 W == INSTANCE ConcurrentQueueProcessor
QueueLemmas                      positions of items in queues and hands
ConcurrentQueueProofs, ChunkProcessorProofs,
ConcurrentQueueProcessorProofs   theorems about the module of that name
StorageHasherProofs              HP, SP == INSTANCE ChunkProcessorProofs,
                                 WP == INSTANCE ConcurrentQueueProcessorProofs

MerkleTree                       merkle_tree, digests as terms
FileStorage      EXTENDS ^       file_entry, file_storage
HashLayout       EXTENDS ^       readers, hashers, writers, verifiers: the data   MCHashLayout
AnnounceUrlList                  announce_url_list, add_tracker, remove_tracker
Metafile         EXTENDS FileStorage, AnnounceUrlList            fields, writing
MetafileParsing  EXTENDS ^       reading
MagnetUri                        magnet_uri, percent encoding
Torrent          EXTENDS MetafileParsing, MagnetUri              MCTorrent
FileStorageProofs                theorems about FileStorage and MerkleTree
HashLayoutProofs, TorrentProofs  EXTENDS ^, theorems about HashLayout and Torrent
```

The first group models threads and abstracts what they compute; the second
models what is computed.  They meet in HashLayout, which has the reader, the hash
threads and the checksum thread as processes again but with unbounded queues and
no shutdown.

**ConcurrentQueue / AtomicQueue.**  A call of a thread goes through `Call`,
`Lock`, one of the critical sections (`push`, `push_wait`, `try_push`, `pop`,
`pop_wait`, `try_pop`, `size`, `set_capacity`), `Notify` and `Return`.
`condition_variable::wait` releases the mutex and puts the thread into
`not_empty_` or `not_full_`; `notify_all` empties that set after the mutex has
been released, as in the code; a woken thread competes for the mutex and tests
its predicate again; `SpuriousWakeup` is allowed.  AtomicQueue has one `Effect`
between call and return.  The other modules use queue operations as single
steps, which the refinement justifies.

**ChunkProcessor.**  `queue_`, `started_`, `cancelled_`, `done_` are the members
of `chunk_processor_base`; `stop[w]` is the worker's stop token; `pc`, `item` the
position and local of `run()`; `ctl`, `k` the position and loop counter of the
controller in `start`, `request_stop` or `wait`; `terminated` says that a contract
failed.  Every test of an atomic, every queue operation and every join is a step
of its own.  The actions under "The pool among its users" add a producer and a
controller that keep the documented protocol.

**ConcurrentQueueProcessor.**  The same for the writers' pool, whose `run()`
differs: a `nullopt` only restarts the loop, and after setting its flag a worker
sweeps the queue and asserts that only `nullopt` is left.

**StorageHasher.**  The composition.  The client's thread executes `start`,
`wait` or `cancel` as the list of member calls in `StartCalls`, `WaitCalls`
(`VerifierWaitCalls` for `storage_verifier`), `CancelCalls`; a member call is a
controller action of the instance and lasts until the instance's controller is
idle again (`MembersIdle`).  `Reader*` is `run()` of the chunk readers; `free`,
`resources_left`, `refs` are the buffer pool and the `shared_ptr` counts.  One
chunk carries one piece, so hashing a chunk is one push to the writer.

**MerkleTree, FileStorage.**  Value classes: a member function is an operator from
the object before to the object after it, and its contract an operator of its own
(`CanSetLeaf`, `CanSetPieceSize`, `CanSetPieceHash`, `CanAlign`).  A digest is the
term that was hashed, so equal digests mean equal inputs.  `update` has the scalar
and the batched (ISA-L) form.  `MerkleRoot` and `MerkleLevels` are the reference.
`CopyOf` and `Assigned` leave out the members the code leaves out; `Moved` is the
self-move of `checksums_` in the move assignment.

**HashLayout.**  `Init` picks a job (version, ISA-L build, multi buffer, hash or
verify, checksums), a layout of files and the state of every file on disk, and
prepares the storage as the constructors do.  `handle_missing_file`, `SkipPadding`,
`MissingFile2`, `Open`, `Read1`, `Read2`, `ReaderEnd` are the loops of the two
readers; `HashChunk(w)` is `hash_chunk` of a hash thread and leaves the pieces and
leaves it still has to push in `pushing[w]`; `PushPiece(w)` pushes one, which the
writer or verifier handles (`TakeLeaf`, `TakePiece`); `ChecksumChunk` is the
checksum thread.  The queue of hashed pieces is FIFO with one consumer (the run
processor), so handling a piece when it is pushed gives the same order.  A failed
contract puts its name into `terminated`.  A byte is a number that says which
file and offset it is; padding is zero.

**AnnounceUrlList, Metafile, MetafileParsing, MagnetUri.**  Operators again.  A
bencoded dictionary is a function from keys; the library's encoder and decoder are
external.  `write_metafile` builds the dictionary of a version, `parse_metafile`
reads one, and `ReadFails` says when reading ends in an error, an exception or a
failed contract: it never leaves a metafile behind, so these are not told apart.
A magnet URI is a sequence of characters over a small alphabet, with the five
reserved ones texts are made of.

**Torrent.**  The client.  Each behaviour works on one part (trackers through
`metafile`, the list behind `trackers()`, tracker keys of a file made elsewhere,
the storage, the other fields, a magnet URI) with the operations of that part, and
saves and loads.  `SaveAndLoad` may find the file damaged: a key missing, a value
of another type, values the library does not write, too few pieces.  `fresh` says
for which versions the hashes are those of the files; `Hash` uses what HashLayout
checks that hashing leaves.

Operators whose comment begins with "Mutant" are plausible bugs.  They
are used by no specification; replacing the definition that follows by one of
them makes the property named in `PROJECT.json` fail.

## 3. Runs

| Run | Instance | Result |
|---|---|---|
| queue | 2 producers, 2 consumers, capacity 2, blocking and non-blocking calls | `TypeOK`, `CapacityRespected`, `NoLostItem`, `NoLostRoom`; refinement `Linearizable` |
| queue_resize | 2 producers, a consumer, a thread that shrinks 2 -> 1 | `Responsive` under fairness |
| pool | 2 workers, 5 chunks, capacity 4 | `NoContractFailure`, `AtMostOnce`, `AllHashed`, `DoneMeansDone`, `WaitUnblocked`, `StopCompletes` |
| pool_small_queue | 5 workers, capacity 4 | `WaitUnblocked` violated |
| processor | 1 worker, 6 items, unlimited queue | `TypeOK`, `StopIsClean`, `AllHandled`, `InOrder`, `DoneMeansDone`, `StopCompletes` |
| verifier | v1, 2 workers, 5 chunks (one of a missing file), 4 buffers | `AllWritten`, `WaitIsClean` |
| hasher | v2 with a checksum hasher, 5 chunks, 4 buffers | `AllWritten`, `WrittenOnce`, `BuffersConserved` |
| hasher_live | v1, 5 chunks, 4 buffers, fairness | `WaitReturns` |
| hasher_cancel | v2, 6 chunks, fairness | `CancelReturns` violated |
| layout | 1 to 3 files of 0, 1, 4, 6, 8 or 9 bytes, at most 16 together, and one of 24 bytes alone, before or behind a small one; blocks of 2, pieces of 4, chunks of 8; v1, v2, hybrid; hash, hash with checksums, verify with one file missing, corrupt or truncated; single and multi buffer, with and without ISA-L; 2 hash threads | `NoContractFailure`, `PiecesCorrect`, `RootsCorrect`, `VerifierExact`, `ChecksumsExact`, `ProgressComplete`, `RootSetOnce` |
| layout_boundary | v2, one file of 4 or 8 bytes | `PieceIndexInRange` violated |
| torrent | 3 urls, lists of 4; foreign announce lists of up to 3 tiers of 2; 2 files of 3 paths, 5 edits of the storage; 3 edits of fields; magnet URIs of 3 texts, 3 edits | `TrackersWellFormed`, `TierOrderKept`, `TrackersRead`, `StorageConsistent`, `WrittenIsRead`, `InfoHashKept`, `FieldsRoundTrip`, `MagnetRoundTrip` |

Some properties are conjunctions of named parts: `NoContractFailure` of HashLayout,
`BuffersConserved` and `StorageConsistent` contain the type invariant of their
module, `RootsCorrect` contains `LayersVerified`, `InOrder` contains `AtMostOnce`,
`TrackersRead` is `TrackersRoundTrip` and `AnnounceRead`, `StorageConsistent` is
`IndexCurrent`, `FileSpans` and `AlignsOnce`.  `MutexHeld` of ConcurrentQueue is
proved and not model-checked, and so is `Linearizable` for queues that are
resized.

*Bounds.*  `storage_hasher` never makes a queue or pool smaller than 4, so
`Capacity = 4` is the tightest real value; five chunks exceed it, so producers,
`wait()` and the reader really block, and a default-sized pool (`4 * threads`)
satisfies `Capacity >= 2 * ThreadCount` as the passing runs do.  Two workers are
enough for one to take what was meant for the other.  `Unlimited = 100` stands
for the capacity -1 (SIZE_MAX) of the piece queue: no run puts more than ten
items into it.  In queue_resize nobody calls `try_push`: after shrinking, its
test `size() == capacity_` would let the queue grow without bound.  The queue only
shrinks: after growing it, `Responsive` does not hold, for `set_capacity` notifies
nobody and a producer may sleep beside the new room (no part of the library resizes a
queue).
In layout the sizes are scaled down (a block is 16 KiB in the code): a file may be
empty, less than a block, exactly a piece, a piece and a half, exactly a chunk, or
a chunk and a bit, and three of them give every combination of offsets in pieces
and chunks; trees have up to five leaves, so that they are balanced with zero
leaves on two layers; a file of 24 bytes is three whole chunks, the least number whose
tree has room for one leaf more.  The properties were also checked with pieces of one
block, of four blocks and of a whole chunk.  Two hash threads reorder the leaves of a file and of
neighbouring files.  In torrent, four list entries over three urls allow a tier of
two, a gap in the middle and a url that moves across it; two files and five edits
allow add, hash, edit, hash again and save; a bound on edits is `MaxStorageEdits`,
`MaxEdits`.
`CHECK_DEADLOCK FALSE` is set where the system comes to its end: all threads
joined and the client finished, or the process terminated.

*Fairness.*  Each thread of a pool has weak fairness: a thread that can take a
step takes one, which is what the operating system gives and all that the code
relies on.  ConcurrentQueue assumes strong fairness of taking the mutex (a thread
that competes for a mutex that is free again and again gets it), as mutexes and
schedulers provide in practice; without it two threads can starve a third.
Clients are fair only in what they must do for the pool to end: start, finish
producing, stop and wait.  Nobody has to cancel, resize or make another call.

*Findings.*
- pool_small_queue: `wait()` pushes up to two sentinels per thread with a blocking
  push.  With `max_memory` small the queue has 4 places whatever `threads` is;
  with 5 threads every worker can have exited while `wait()` still pushes.
- hasher_cancel: `cancel()` stops the hash workers and then waits for the reader,
  which may be blocked on a full queue or an empty buffer pool.
- layout_boundary: a v2 file whose size is a multiple of the chunk size is followed
  by an empty chunk; for a torrent of one such file its piece index is the piece
  count and `Expects(chunk.piece_index < storage_.get().piece_count())` fails.

*What the properties except.*  The properties of layout and torrent say what holds
for the code as it is; where the code does otherwise the exception is written into
the property and listed here.
- `NoContractFailure` (`KnownFailure`): checksums of a hybrid with padding, v2
  torrents of empty files only, v2 files of whole chunks, a hybrid verified with
  multi buffer hashers (`storage_verifier.cpp:111` asks for v1 pieces that nobody
  takes), v1 files that are shorter on disk.
- `RootsCorrect`, `VerifierExact`: the batched `update` (`merkle_tree.hpp:130`) stores
  the digest of the children i, i+1 at `parent(i)` for even i, which is one node too
  far left, and roots of more than two leaves are wrong in ISA-L builds.
- `LayersVerified`: `verify_piece_layers` accepts a right layer only if its length is
  a power of two greater than 1 or pieces are blocks, because it balances with zero
  hashes.
- `RootsCorrect`, `RootSetOnce` (`ExtraLeaf`): the single buffer hasher makes a leaf of
  the empty chunk behind a v2 file of whole chunks (`v2_chunk_hasher_sb.cpp:70`).
  Where the tree has room for it, the file is completed early or twice and ends with a
  wrong root.
- `ChecksumsExact`: the last file of a v2 torrent, and empty files at the end of a v1
  torrent, get no checksum.
- `VerifierExact`: of a truncated v2 file good pieces may be reported bad.
- `IndexCurrent`: a copied or assigned storage has neither the file mode nor the
  index of its source (`file_storage.cpp:5`).
- `FileSpans`: `get_pieces_offsets` may miss the last piece of a file that does not
  begin at a piece boundary.
- `AlignsOnce`: `optimize_alignment` fails its `Ensures` on a storage with padding.
- `Readable` in `WrittenIsRead`: a v1 single file whose mode was never set is written
  without files; a hybrid single file is written under the torrent's name and without
  attributes.
- `Canonical` in `InfoHashKept`: short `pieces`, `private` other than 1, keys of
  another version.  No property covers such a file: the hashes nobody computed are
  taken for real ones.  A torrent of empty files is taken for v2.
- `FieldsRoundTrip`: `collections` and `similar` of a loaded info dictionary are kept
  among the unknown fields as well.  The property states that after an edit exactly
  these come back, removed or not; without this clause TLC finds a collection that is
  removed after it was loaded and is there again in what is written.
- `AnnounceRead`, `TrackersRoundTrip`: an empty tier or a url in two tiers may fail
  the contract of `add_tracker` while a file is read.
- `MagnetRoundTrip`: two keywords make the encoder loop for ever, one is written
  without its key; topics are written without encoding; `size_` is uninitialised.

*Also seen.*  `set_piece_size` keeps the hashes it is documented to clear
(`file_storage.hpp:182`).  A cancelled `concurrent_queue_processor` asserts that the
work it discards was not there (`concurrent_queue_processor.hpp:162`; the invariant
`~terminated` fails on QueueProcessor.cfg), and with two workers the last sweep of
one takes the wake-ups of the other (`StopCompletes` fails with `ThreadCount = 2`);
the library uses one.  A cancelled v1 reader fails `Ensures(piece_index_ ==
storage.piece_count())` (`v1_chunk_reader.cpp:82`).  A symlink is written under
`symlink path` and looked for under `symlink`.  `directory_count` counts directories
of one name once (`file_storage.cpp:307`); `serialize_json_to` writes to `std::cout`
(`metafile.cpp:338`).

## 4. Proofs

`ConcurrentQueueProofs` (any set of threads, any calls, any capacity):
`TypeCorrectness`, `MutualExclusion`, `CapacityHolds`, `NoItemLost`, `NoRoomLost`
(the latter for a queue that is never resized), and `Refinement`:
`Spec => Linearizable`.  The inductive invariant adds to the properties where
each waiting thread is (the waiting sets contain only threads at "waiting" of the
matching operation) and what `item` and `ret` hold outside a call, which the
refinement mapping needs.  Every step of the queue maps to a call, an effect, a
return or a stutter of AtomicQueue.

`ChunkProcessorProofs` (any number of threads and chunks, any capacity):
`TypeCorrectness`, `ContractsHold`, `HashedAtMostOnce`, `NoChunkLost`,
`DoneIsDone`, and `StopCannotBlock`, which proves `WaitUnblocked` under
`Capacity >= 2 * ThreadCount`; pool_small_queue shows that some bound is needed.
The invariant has two parts.  `PoolInv` speaks of the pool alone: where the
controller is says what it has done, chunks precede sentinels in the queue once
the producer has finished, a worker that has left its loops without cancellation
proves that no chunk was left.  The other part locates every chunk: it is not yet
pushed, in exactly one place of the queue, held by exactly one worker, or hashed;
and it bounds the sentinels by the two loops of `wait()`.

`ConcurrentQueueProcessorProofs` (any number of threads and items, any capacity):
`TypeCorrectness`, `StopContractsHold`, `HandledInOrder`, `NoItemLost`,
`DoneIsDone`.  The parts are those of the hash pool.  Two things differ.  A worker
sets its flag in `done_` before it sweeps the queue, so that `DrainInv` must hold
already when the flag is set.  And order: items queued are ascending, what a worker
holds precedes what is queued, and with one worker what was handled precedes both.

Both modules state what a step of the pool does to `PoolInv` (`PoolStep`), to the
contracts (`PoolContracts`) and to the places of the items (`PushPlaces`,
`TakePlaces`, `DropPlaces`, `LosePlaces` of `QueueLemmas`) without saying who
produces: that is what the composition uses.

`StorageHasherProofs` (any number of threads and chunks, any set of chunks of
missing files, any capacity above 1, v1 or v2, hasher or verifier, with and without
checksums, client that waits or cancels): `NoBufferLost`, `NothingTwice`,
`NothingMissing`, `ContractsHold`.  The two pools' proof modules are instantiated
three times, for the hash workers, the checksum workers and the writer; in each
instance "producing" is what it is in the pipeline: the reader has not exited, or
some hash worker has not.  The proof then has these layers.

- `PoolsInv`: `PoolInv` of the three pools.  The one obligation the composition owes
  is that a pool is not asked to stop while its producer works.
- `ClientInv`, `StageInv`: the calls left in `todo` are in the order of
  `StartCalls`, `WaitCalls` or `CancelCalls`, and each stage is in the state the
  calls already made put it in.  They discharge that obligation: `wait()` waits for
  the reader before it stops the hash workers, and for these before the writer.
- `ReaderInv`, `PlaceInv`: which chunks were pushed where, and that a chunk is with
  the hash workers until it is hashed, with the writer from then until it is
  written, and never twice in one of them.
- `LossInv`: without cancellation a chunk leaves one stage only into the next.
- `RefsInv`, `BufferInv`: the `shared_ptr` count of a chunk is the number of hands
  it is in (the reader's, the hash pool's, the checksum pool's), and buffers free,
  unconstructed, with the reader and referred to are `Capacity` together.

`ContractsHold` proves `WaitIsClean` under `WithChecksum => NullChunks = {}`: the
checksum hashers have `Expects(item.data != nullptr)`, which a missing file's chunk
fails.  A hasher is made for files that are there; a verifier has no checksum
hashers and needs no hypothesis.

`FileStorageProofs`: `UpdateIsMerkleTree`, for any number of leaves and whatever the
inner nodes held before, `merkle_tree::update` leaves the reference's Merkle root and,
on every layer, the reference's level; the batched form does so for at most two leaves.
The root is compared with a definition by levels, from the leaves up, while the code
goes over a flat array from its end: the lemmas in between say that a tree whose
inner nodes are the digests of their children has exactly one value on every layer.
`PiecesOfFile`, for every offset, file size and piece size: the span of
`get_pieces_offsets` begins with the piece of the file's first byte, does not pass its
last piece, and misses at most that one, none if the file begins at a piece boundary.

`HashLayoutProofs` (any files of any sizes, any block, piece and chunk size under
`LayoutAssumption`, any number of hash threads, single and multi buffer, scalar and
batched trees): `FileCompletedOnce` proves `RootSetOnce`, `HashedRootsCorrect` proves
`RootsCorrect` with `LayersVerified`, which except the trees of more than two leaves
that ISA-L builds and say of a file with an extra leaf that its root is wrong.
Neither is inductive: a root is right because of
where every leaf was before.  The invariant `Inv` of `V2Invariant` has two parts.
`Shape` says that the steps leave the files, their sizes and the lengths of the vectors
alone.  `V2Inv`, for a job that hashes v2 data, has these parts.

- `ReaderOK`: the reader is at a whole number of chunks of its file.
- `ChunksOK`, `PiecesOK`: a queued chunk holds the bytes its position promises, and a
  hashed leaf is the digest of the block its index names.
- `LeavesOK`: every leaf of every file, the extra leaf of `ExtraLeaf` included, is in
  exactly one place: still in the file, in one queued chunk, in one hand of one hash
  thread, or in the tree.
- `FilesOK`: a tree holds the digest of each block whose leaf it has taken and zero
  leaves elsewhere, the counter of blocks is the number of leaves taken, and a file has
  a root and a layer exactly when it has taken at least one leaf and its counter has
  reached its block count; they are then those of its tree.

From `LeavesOK` and the counter it follows that a file without an extra leaf is completed
by its last leaf and by no other, in whatever order threads push them.  When all queues are empty each leaf
is in its tree, and `UpdateIsMerkleTree` makes the root the one of the bytes on disk.
For a file with an extra leaf the same argument shows that the root is wrong, which
`RootsCorrect` says as well.

`TorrentProofs` (any urls, lists of any length, announce lists of any number and size of
tiers).  `InsertKeepsTiers`, `EraseKeepsTiers`, `AddTrackerKeeps`,
`RemoveTrackerKeeps`: `insert`, `erase`, `add_tracker` and `remove_tracker` keep a list
ordered by tier and url and its tiers without gaps, and the last two keep every url
unique.  The argument is about positions: where `insert` puts the entry, that `erase`
finds whether the tier is now empty by `get_tier_begin`, and that lowering the tiers
behind keeps the order.  On these rest the three theorems about the client's steps.

- `TrackersStayWellFormed` proves `TrackersWellFormed`.  The inductive invariant
  `TrackInv` adds that the entries are urls with tiers and which file is about to be
  read.  A load replaces the list by what `parse_announce` makes of a file, one made
  elsewhere or one like what was written: with its trackers, without some of them, or
  with something of another type in their place.  `parse_announce` folds `add_tracker`
  over the announces it finds, and the list is well formed after each.
- `TrackersAreRead` proves `TrackersRead`.  The writer's fold over the list puts each url
  into the tier of its number, so that the announces of the tiers, one after the other,
  are the list again (`TiersOfList`); the reader's fold takes announces whose tiers never
  skip one without a failure, each of them, and leaves those that are in order as they are
  (`ReadGradual`).  For a file made elsewhere
  the same fold gives its tiers, and an announce that is in none of them moves all of
  them one tier back (`ShiftIsBefore`).
- `TierOrderIsKept` proves `TierOrderKept`.  `erase` lowers either no tier or exactly those
  behind the emptied one, which is monotonic; a moved url is the one that is excepted;
  loading what was saved gives the list back or, from a damaged file, at most one url of it.

What a fold or a recursive function computes is proved by induction all the same, in a
form the provers take: `Induction` of `FileStorageProofs` speaks of a set of numbers
instead of a predicate, and folds are unrolled into the sequence of their intermediate
values (`ReadSteps`, `ShiftSteps`, `PutSteps`).  To bring Metafile within reach its
exclusive or and its dictionaries are definitions of its own (`exclusive_or`, `Key`,
`++`), not those of Bitwise and TLC, which the prover does not know.

Assumptions are the named ASSUMEs of the modules: at least one thread, a positive
capacity (above 1 in StorageHasher, where `storage_hasher` never makes it smaller
than 4), sentinels distinct from chunks, threads distinct from `NoThread`, a
verifier without checksums; in HashLayout positive sizes, blocks and pieces powers of
two, chunks of whole pieces (the `Expects` of `chunk_reader`) and at least one file; in
Torrent urls that are positive numbers (0 stands for none) and a mistyped value that is
neither a url nor a list of tiers.

Only model-checked:

- liveness (`Responsive`, `StopCompletes`, `WaitReturns`), which needs fairness and
  ENABLED;
- of HashLayout `NoContractFailure`, `PiecesCorrect`, `VerifierExact`, `ChecksumsExact`,
  `ProgressComplete`.  `V2Invariant` is about hashing v2 data; v1 pieces run across files,
  so that their invariant is one about the stream of all bytes, and the other four need
  both;
- of Torrent `StorageConsistent`, which goes through the community modules' sorting of a
  set (TLC's SortSeq, no definition a prover could use), `WrittenIsRead`, `InfoHashKept`
  and `FieldsRoundTrip`, which need the inverse of every parse function, and
  `MagnetRoundTrip`, which is about the scanners of a query string.

## 5. Plan

1. Done: queue, worker pool, writer pool, pipeline; proofs of the first two.
2. Done: what the pipeline computes (MerkleTree, FileStorage, HashLayout); trackers,
   storage, metafile, parsing and serialization, magnet URIs (AnnounceUrlList,
   Metafile, MetafileParsing, MagnetUri, Torrent).
3. Done: proofs of ConcurrentQueueProcessor and StorageHasher, of merkle trees and the
   arithmetic of pieces, of hashing v2 data, of the trackers.
4. Left: an invariant for v1 pieces and for verifying, in the manner of `V2Invariant`;
   the round trip of the files of a metafile, in the manner of `TrackersAreRead`.

## 6. Not modelled

Destructors and object lifetime; exceptions in the reader's thread, which end the
process; the push of the last partial chunk by a cancelled v1 reader
(`v1_chunk_reader.cpp:72`), which `ReaderRead` leaves out (no property that passes
looks there); concurrent calls of `wait()` and `cancel()` on one hasher, which the
class does not synchronise; memory order (every atomic is a flag set once, read
with a loop or a join behind it); digests and their backends; bencode itself; file
I/O and reading a directory tree; JSON output; `current_file_progress` beyond the
byte counter it is computed from; the verifiers' percentages; the command line and
the build.

Abstractions of the data models: attributes that are absent and attributes that are
empty are one value; wrong types occur at the level of a key; no input has a key
`symlink`, whose outcome is undefined; symlinks are stored and written but not
hashed; element access that hands out mutable references (`operator[]`, iterators)
is not an operation of the client; texts, dates, hashes and paths are small numbers,
with the order of paths kept; the layout models take the chunk size as a constant.
