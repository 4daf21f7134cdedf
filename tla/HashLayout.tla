----------------------------- MODULE HashLayout -----------------------------
(* What the pipeline of storage_hasher and storage_verifier computes: how  *)
(* the readers cut files into chunks, the hashers chunks into pieces and   *)
(* blocks, and what the writers, verifiers and checksum hashers make of    *)
(* them, for every layout of small files.  Threads, queues and shutdown    *)
(* are StorageHasher's subject; here the queues are unbounded, no one      *)
(* cancels, and a hashed piece is handled when it is pushed: its queue is  *)
(* FIFO and has one consumer.                                              *)
EXTENDS FileStorage

CONSTANTS
    BlockSize, PieceSize, ChunkSize,  \* v2_block_size, piece size, io_block_size_
    Layouts,                          \* sequences of file sizes
    DiskStates, MaxDamaged,           \* what the disk holds when verifying
    Protocols, Builds,                \* sets of versions; with ISA-L or not
    Workers                           \* hash threads

ASSUME LayoutAssumption ==
    /\ {BlockSize, PieceSize, ChunkSize} \subseteq Nat \ {0}
    /\ has_single_bit(BlockSize) /\ has_single_bit(PieceSize)
    /\ BlockSize <= PieceSize /\ ChunkSize % PieceSize = 0
    /\ \A sizes \in Layouts : sizes \in Seq(Nat) /\ sizes # <<>>
    /\ DiskStates \subseteq {"ok", "missing", "corrupt", "short"}
    /\ Protocols \subseteq {{"v1"}, {"v2"}, {"v1", "v2"}} /\ Builds \subseteq BOOLEAN

VARIABLES
    job,              \* options: protocol, ISA-L build, multi buffer, verify, checksums
    storage,          \* storage_
    disk,             \* state of the i-th regular file on disk, by path
    reader, f_, file_index_, piece_index_, chunk_,   \* chunk_reader
    chunks, sums,     \* queues to the hash threads and to the checksum thread
    pushing,          \* hashed pieces a hash thread has still to push
    bytes_done_,
    trees, file_blocks_hashed_,                      \* v2 writer or verifier
    piece_map_,                                      \* verifier
    current_file_index_, hashed,                     \* checksum hasher, its digest so far
    terminated        \* the contract that failed, or "no"

rvars == <<reader, f_, file_index_, piece_index_, chunk_, chunks, sums>>
wvars == <<storage, trees, file_blocks_hashed_, piece_map_>>
svars == <<current_file_index_, hashed>>
vars == <<job, disk, rvars, pushing, bytes_done_, wvars, svars, terminated>>

V1Reader == job.protocol = {"v1"}
Hybrid == job.protocol = {"v1", "v2"}
FileCount == file_count(storage)
File(i) == storage.files_[i + 1]
BlockCount(e) == div_ceil(e.file_size_, BlockSize)

(* The i-th byte of a file is 100 * path + i, padding is 0; a corrupt file *)
(* differs in its last byte, a short one lacks it.                         *)
Bytes(e) == [i \in 1 .. e.file_size_ |-> IF is_padding_file(e) THEN 0 ELSE 100 * e.path_ + i]
OnDisk(e) ==
    IF e.file_size_ = 0 \/ is_padding_file(e) \/ disk[e.path_] = "ok" THEN Bytes(e)
    ELSE CASE disk[e.path_] = "corrupt" -> Append(Front(Bytes(e)), -1)
           [] disk[e.path_] = "short" -> Front(Bytes(e))
           [] OTHER -> <<>>
Exists(e) == disk[e.path_] # "missing"

-----------------------------------------------------------------------------
(* The references: pieces of the concatenated files, blocks of one file.   *)
Cut(bytes, size) ==
    [i \in 1 .. div_ceil(Len(bytes), size) |->
        SubSeq(bytes, (i - 1) * size + 1,
               IF i * size < Len(bytes) THEN i * size ELSE Len(bytes))]
Stream(Content(_), s) == FlattenSeq([i \in DOMAIN s.files_ |-> Content(s.files_[i])])
PieceHashes(s) == LET pieces == Cut(Stream(Bytes, s), PieceSize)
                  IN  [i \in DOMAIN pieces |-> Digest(pieces[i])]
Leaves(e) == LET blocks == Cut(Bytes(e), BlockSize)
             IN  [i \in DOMAIN blocks |-> Digest(blocks[i])]
PieceLayer(e) ==
    IF e.file_size_ <= PieceSize THEN <<>>
    ELSE SubSeq(MerkleLevels(Leaves(e))[log2_floor(PieceSize) - log2_floor(BlockSize)],
                1, div_ceil(e.file_size_, PieceSize))
WithV2Data(e) ==
    IF is_padding_file(e) \/ e.file_size_ = 0 THEN e
    ELSE set_piece_layer(set_pieces_root(e, MerkleRoot(Leaves(e))), PieceLayer(e))

-----------------------------------------------------------------------------
(* storage_hasher's constructor: a hybrid storage is aligned, v1 pieces    *)
(* are allocated.                                                          *)
PrepareHashing(s, protocol_) ==
    LET aligned == IF protocol_ = {"v1", "v2"} THEN optimize_alignment(s) ELSE s
    IN  IF "v1" \in protocol_ THEN allocate_pieces(aligned) ELSE aligned

(* A verifier is given the storage of a metafile that was made right; an   *)
(* empty file has v2 data once a hasher has seen it.                       *)
PrepareVerifying(s, protocol_) ==
    LET aligned == IF protocol_ = {"v1", "v2"} THEN optimize_alignment(s) ELSE s
        EmptyRoot(e) == IF e.file_size_ = 0
                        THEN set_pieces_root(e, Digest2(Digest(<<>>), ZeroHash)) ELSE e
    IN  [aligned EXCEPT
            !.pieces_ = IF "v1" \in protocol_ THEN PieceHashes(aligned) ELSE <<>>,
            !.files_ = IF "v2" \in protocol_
                       THEN [i \in DOMAIN @ |-> EmptyRoot(WithV2Data(@[i]))] ELSE @]

(* v2_piece_writer::initialize_trees, v2_piece_verifier likewise.          *)
initialize_trees(s) ==
    [i \in DOMAIN s.files_ |->
        IF is_padding_file(s.files_[i]) THEN <<>> ELSE set_leaf_nodes(BlockCount(s.files_[i]))]

(* Entries of the v2 verifier's piece map that belong to a file.           *)
MapEntries(e) ==
    IF is_padding_file(e) THEN 0 ELSE IF e.piece_layer_ = <<>> THEN 1 ELSE Len(e.piece_layer_)
FirstEntry(file_index) ==
    Total([i \in 1 .. file_index |-> MapEntries(storage.files_[i])])

Init ==
    \E p \in Protocols, isal \in Builds, multi \in BOOLEAN, verify, sum \in BOOLEAN :
    \E size \in Layouts :
        LET n == Len(size)
            entries == [i \in 1 .. n |-> file_entry(i, size[i], NoAttributes, 0)]
            s == set_piece_size(add_files(EmptyStorage, entries), PieceSize)
        IN  /\ multi => isal
            /\ isal => p # {"v1"} /\ ~sum    \* v1 pieces and checksums do not depend on it
            /\ verify => ~sum
            /\ job = [protocol |-> p, isal |-> isal, multi |-> multi, verify |-> verify, sum |-> sum]
            /\ disk \in [1 .. n -> IF verify THEN DiskStates ELSE {"ok"}]
            /\ Cardinality({i \in 1 .. n : disk[i] # "ok"}) <= MaxDamaged
            /\ storage = IF verify THEN PrepareVerifying(s, p) ELSE PrepareHashing(s, p)
            /\ trees = IF p = {"v1"} THEN <<>> ELSE initialize_trees(storage)
            /\ file_blocks_hashed_ = [i \in DOMAIN trees |-> 0]
            /\ piece_map_ = [i \in 1 .. IF ~verify THEN 0
                                        ELSE IF p = {"v1"} THEN piece_count(storage)
                                        ELSE FirstEntry(FileCount) |-> FALSE]
            /\ reader = "files" /\ f_ = 0 /\ file_index_ = 0 /\ piece_index_ = 0 /\ chunk_ = <<>>
            /\ chunks = <<>> /\ sums = <<>>
            /\ pushing = [w \in Workers |-> <<>>]
            /\ bytes_done_ = 0
            /\ current_file_index_ = 0 /\ hashed = <<>>
            /\ terminated = "no"

Fail(contract) == terminated' = contract

-----------------------------------------------------------------------------
(* The readers.  A chunk without data stands for a missing piece or file;  *)
(* nobody reads the file index of a v1 chunk.                              *)
Chunk(piece, file, data) == [piece_index |-> piece, file_index |-> file, null |-> FALSE, data |-> data]
NullChunk(piece, file) == [piece_index |-> piece, file_index |-> file, null |-> TRUE, data |-> <<>>]

Submit(pushed) ==
    /\ chunks' = chunks \o pushed
    /\ sums' = IF job.sum THEN sums \o pushed ELSE sums

AtFile == terminated = "no" /\ reader = "files" /\ file_index_ < FileCount

(* v1_chunk_reader::handle_missing_file and ++file_index_, for a file that *)
(* is not on disk and for padding.                                         *)
handle_missing_file ==
    LET e == File(file_index_)
        room == ChunkSize - Len(chunk_)
        fill == IF chunk_ = <<>> THEN 0
                ELSE IF room < e.file_size_ THEN room ELSE e.file_size_
        filled == chunk_ \o [i \in 1 .. fill |-> 0]
        full == Len(filled) = ChunkSize
        first == IF full THEN piece_index_ + ChunkSize \div PieceSize ELSE piece_index_
        missing == e.file_size_ - fill
        nulls == missing \div PieceSize
    IN  /\ AtFile /\ V1Reader
        /\ is_padding_file(e) \/ ~Exists(e)
        /\ Submit((IF full THEN <<Chunk(piece_index_, file_index_, filled)>> ELSE <<>>)
                  \o [i \in 1 .. nulls |-> NullChunk(first + i - 1, file_index_)])
        /\ piece_index_' = first + nulls
        /\ chunk_' = (IF full THEN <<>> ELSE filled) \o [i \in 1 .. missing % PieceSize |-> 0]
        /\ file_index_' = file_index_ + 1
        /\ UNCHANGED <<job, disk, reader, f_, pushing, bytes_done_, wvars, svars, terminated>>

(* v2_chunk_reader::run for a padding file and for a missing one.          *)
SkipPadding ==
    /\ AtFile /\ ~V1Reader /\ is_padding_file(File(file_index_))
    /\ file_index_' = file_index_ + 1
    /\ UNCHANGED <<job, disk, reader, f_, piece_index_, chunk_, chunks, sums, pushing, bytes_done_,
                   wvars, svars, terminated>>

(* v2_chunk_reader::push: the contract, then the queues.                   *)
Push2(piece, file, chunk) ==
    IF piece < piece_count(storage)
    THEN Submit(<<chunk>>) /\ UNCHANGED terminated
    ELSE Fail("v2_chunk_reader::push") /\ UNCHANGED <<chunks, sums>>

MissingFile2 ==
    /\ AtFile /\ ~V1Reader
    /\ ~is_padding_file(File(file_index_)) /\ ~Exists(File(file_index_))
    /\ Push2(0, file_index_, NullChunk(0, file_index_))
    /\ file_index_' = file_index_ + 1
    /\ UNCHANGED <<job, disk, reader, f_, piece_index_, chunk_, pushing, bytes_done_, wvars, svars>>

(* Both readers open a file; v1 counts it now, v2 when it is closed.       *)
Open ==
    /\ AtFile
    /\ ~is_padding_file(File(file_index_)) /\ Exists(File(file_index_))
    /\ reader' = "reading"
    /\ f_' = 0
    /\ file_index_' = IF V1Reader THEN file_index_ + 1 ELSE file_index_
    /\ piece_index_' = IF V1Reader THEN piece_index_ ELSE 0
    /\ UNCHANGED <<job, disk, chunk_, chunks, sums, pushing, bytes_done_, wvars, svars, terminated>>

(* f_.read of up to room bytes, which meets the end of the file only when  *)
(* it asks for more than is left.                                          *)
Got(content, room) ==
    SubSeq(content, f_ + 1, IF f_ + room < Len(content) THEN f_ + room ELSE Len(content))
Eof(content, room) == f_ + room > Len(content)

(* One round of the read loop of v1_chunk_reader::run.                     *)
Read1 ==
    LET content == OnDisk(File(file_index_ - 1))
        room == ChunkSize - Len(chunk_)
        data == chunk_ \o Got(content, room)
    IN  /\ terminated = "no" /\ reader = "reading" /\ V1Reader
        /\ f_' = f_ + Len(Got(content, room))
        /\ IF Len(data) = ChunkSize
           THEN /\ Submit(<<Chunk(piece_index_, file_index_, data)>>)
                /\ piece_index_' = piece_index_ + ChunkSize \div PieceSize
                /\ chunk_' = <<>>
           ELSE chunk_' = data /\ UNCHANGED <<chunks, sums, piece_index_>>
        /\ reader' = IF Eof(content, room) THEN "files" ELSE "reading"
        /\ UNCHANGED <<job, disk, file_index_, pushing, bytes_done_, wvars, svars, terminated>>

(* One round of the read loop of v2_chunk_reader::run: whatever was read,  *)
(* nothing included, is a chunk.                                           *)
Read2 ==
    LET content == OnDisk(File(file_index_))
        data == Got(content, ChunkSize)
        last == Eof(content, ChunkSize)
    IN  /\ terminated = "no" /\ reader = "reading" /\ ~V1Reader
        /\ Push2(piece_index_, file_index_, Chunk(piece_index_, file_index_, data))
        /\ f_' = f_ + Len(data)
        /\ piece_index_' = piece_index_ + ChunkSize \div PieceSize
        /\ reader' = IF last THEN "files" ELSE "reading"
        /\ file_index_' = IF last THEN file_index_ + 1 ELSE file_index_
        /\ UNCHANGED <<job, disk, chunk_, pushing, bytes_done_, wvars, svars>>

(* The end of run(): v1 pushes the last chunk and checks its piece count.  *)
ReaderEnd ==
    LET last == V1Reader /\ chunk_ # <<>>
        pieces == piece_index_ + IF last THEN div_ceil(Len(chunk_), PieceSize) ELSE 0
    IN  /\ terminated = "no" /\ reader = "files" /\ file_index_ = FileCount
        /\ IF last THEN Submit(<<Chunk(piece_index_, file_index_, chunk_)>>) ELSE UNCHANGED <<chunks, sums>>
        /\ reader' = "exited"
        /\ chunk_' = <<>>
        /\ piece_index_' = pieces
        /\ IF V1Reader /\ pieces # piece_count(storage)
           THEN Fail("v1_chunk_reader::run") ELSE UNCHANGED terminated
        /\ UNCHANGED <<job, disk, f_, file_index_, pushing, bytes_done_, wvars, svars>>

Reader == handle_missing_file \/ SkipPadding \/ MissingFile2 \/ Open \/ Read1 \/ Read2 \/ ReaderEnd

-----------------------------------------------------------------------------
(* The hash threads.  Single and multi buffer hashers push the same pieces *)
(* and blocks in the same order; they differ on an empty v2 chunk only.    *)
V1Piece(index, bytes) == [kind |-> "v1", index |-> index, file |-> 0, hash |-> Digest(bytes)]
V2Leaf(index, file, bytes) == [kind |-> "v2", index |-> index, file |-> file, hash |-> Digest(bytes)]

V1HashChunk(c) ==
    LET pieces == Cut(c.data, PieceSize)
    IN  [i \in DOMAIN pieces |-> V1Piece(c.piece_index + i - 1, pieces[i])]

LeavesOf(c) ==
    LET blocks == IF c.data = <<>> /\ ~job.multi THEN <<<<>>>> ELSE Cut(c.data, BlockSize)
        index_offset == (c.piece_index * PieceSize) \div BlockSize
    IN  [i \in DOMAIN blocks |-> V2Leaf(index_offset + i - 1, c.file_index, blocks[i])]

(* initialize_v1_offsets: the index of the first v1 piece of a file.       *)
v1_piece_offset(file_index) ==
    Total([i \in 1 .. file_index |-> div_ceil(RegularSizes(storage.files_)[i], PieceSize)])

(* Mutant: forgets the zeros behind the last piece of a file.              *)
PadUnpadded(c, piece) == piece

(* The last piece of a file is padded with zeros unless the file is one of *)
(* the last two entries.                                                   *)
Pad(c, piece) ==
    IF Len(piece) < PieceSize /\ c.file_index + 1 < FileCount - 1
    THEN piece \o [i \in 1 .. PieceSize - Len(piece) |-> 0] ELSE piece

V1CompatiblePieces(c) ==
    LET pieces == Cut(c.data, PieceSize)
    IN  [i \in DOMAIN pieces |->
            V1Piece(v1_piece_offset(c.file_index) + c.piece_index + i - 1, Pad(c, pieces[i]))]

(* The contracts of the v1 part: padding follows, and someone takes the    *)
(* pieces (a verifier has no v1 queue).                                    *)
V1Compatible == Hybrid /\ (job.verify => job.multi)
V1PartContract(c) ==
    /\ Len(c.data) % PieceSize # 0 /\ c.file_index + 1 < FileCount - 1
           => is_padding_file(File(c.file_index + 1))
    /\ job.verify => c.data = <<>>

V2HashChunk(c) == LeavesOf(c) \o IF V1Compatible THEN V1CompatiblePieces(c) ELSE <<>>

(* Mutant: a missing piece or file does not count.                         *)
DoneBytesRead(c) == Len(c.data)

(* Added to bytes_done_ at the end of hash_chunk; here with the pop, since  *)
(* only a finished run is asked for it.                                     *)
DoneBytes(c) ==
    IF ~c.null THEN Len(c.data)
    ELSE IF V1Reader THEN PieceSize ELSE File(c.file_index).file_size_

HashChunk(w) ==
    LET c == Head(chunks)
    IN  /\ terminated = "no"
        /\ chunks # <<>> /\ pushing[w] = <<>>
        /\ chunks' = Tail(chunks)
        /\ bytes_done_' = bytes_done_ + DoneBytes(c)
        /\ IF V1Compatible /\ ~c.null /\ ~V1PartContract(c)
           THEN Fail("v2_chunk_hasher::hash_chunk") /\ UNCHANGED pushing
           ELSE /\ pushing' = [pushing EXCEPT ![w] =
                                  IF c.null THEN <<>>
                                  ELSE IF V1Reader THEN V1HashChunk(c) ELSE V2HashChunk(c)]
                /\ UNCHANGED terminated
        /\ UNCHANGED <<job, disk, reader, f_, file_index_, piece_index_, chunk_, sums, wvars, svars>>

-----------------------------------------------------------------------------
(* The writers and verifiers.                                              *)
LayerOffset == log2_floor(PieceSize) - log2_floor(BlockSize)

(* Mutant: the whole layer of the tree.                                    *)
LayerViewUncut(tree, e) ==
    IF LayerOffset >= tree_height(tree) THEN <<>>
    ELSE get_layer(tree, tree_height(tree) - LayerOffset)

(* Piece layer of a complete tree: without the nodes that balance it.      *)
LayerView(tree, e) ==
    IF LayerOffset >= tree_height(tree) THEN <<>>
    ELSE SubSeq(get_layer(tree, tree_height(tree) - LayerOffset), 1, div_ceil(e.file_size_, PieceSize))

set_piece_layers_and_root(file, tree) ==
    storage' = [storage EXCEPT !.files_[file + 1] =
                    set_piece_layer(set_pieces_root(@, root(tree)), LayerView(tree, @))]

(* Mutant: a file with a wrong root has no good piece.                     *)
verify_root_only(file, tree) ==
    LET first == FirstEntry(file)
    IN  piece_map_' = [n \in DOMAIN piece_map_ |->
                          IF n - first \in 1 .. MapEntries(File(file))
                          THEN File(file).pieces_root_ = root(tree) ELSE piece_map_[n]]

(* piece_map_ entries of a file from its complete tree.                    *)
verify_piece_layers_and_root(file, tree) ==
    LET e == File(file)
        first == FirstEntry(file)
        whole == e.pieces_root_ = root(tree)
        Good(i) == whole \/ (e.piece_layer_ # <<>> /\ LayerView(tree, e)[i] = e.piece_layer_[i])
    IN  piece_map_' = [n \in DOMAIN piece_map_ |->
                          IF n - first \in 1 .. MapEntries(e) THEN Good(n - first) ELSE piece_map_[n]]

(* Mutant: completes a file one leaf early.                                *)
CompleteEarly(e, hashed_before) == BlockCount(e) <= hashed_before + 2

(* The leaf that arrives is the last of its file.                          *)
Complete(e, hashed_before) == BlockCount(e) <= hashed_before + 1

(* set_finished_piece and verify_finished_piece of the v2 classes.         *)
TakeLeaf(p) ==
    LET file == p.file + 1
        tree == set_leaf(trees[file], p.index, p.hash)
        complete == Complete(storage.files_[file], file_blocks_hashed_[file])
        updated == IF complete THEN update(tree, job.isal) ELSE tree
    IN  IF ~CanSetLeaf(trees[file], p.index)
        THEN Fail("merkle_tree::set_node") /\ UNCHANGED wvars
        ELSE /\ trees' = [trees EXCEPT ![file] = updated]
             /\ file_blocks_hashed_' = [file_blocks_hashed_ EXCEPT ![file] = @ + 1]
             /\ IF complete /\ job.verify
                THEN verify_piece_layers_and_root(p.file, updated) ELSE UNCHANGED piece_map_
             /\ IF complete /\ ~job.verify
                THEN set_piece_layers_and_root(p.file, updated) ELSE UNCHANGED storage
             /\ UNCHANGED terminated

(* set_finished_piece of a v1 piece; verify_finished_piece.                *)
TakePiece(p) ==
    /\ UNCHANGED <<trees, file_blocks_hashed_>>
    /\ IF job.verify
       THEN /\ UNCHANGED storage
            /\ IF p.index < piece_count(storage)
               THEN /\ piece_map_' = [piece_map_ EXCEPT ![p.index + 1] = storage.pieces_[p.index + 1] = p.hash]
                    /\ UNCHANGED terminated
               ELSE Fail("v1_piece_verifier::verify_finished_piece") /\ UNCHANGED piece_map_
       ELSE /\ UNCHANGED piece_map_
            /\ IF CanSetPieceHash(storage, p.index)
               THEN storage' = set_piece_hash(storage, p.index, p.hash) /\ UNCHANGED terminated
               ELSE Fail("file_storage::set_piece_hash") /\ UNCHANGED storage

(* A hash thread pushes a piece, and the writer's thread handles it.       *)
PushPiece(w) ==
    /\ terminated = "no"
    /\ pushing[w] # <<>>
    /\ pushing' = [pushing EXCEPT ![w] = Tail(@)]
    /\ LET p == Head(pushing[w])
       IN  IF p.kind = "v2" THEN TakeLeaf(p) ELSE TakePiece(p)
    /\ UNCHANGED <<job, disk, rvars, bytes_done_, svars>>

-----------------------------------------------------------------------------
(* The checksum thread.  v1_checksum_hasher::hash_chunk goes through the   *)
(* files that end in the chunk as long as it has data left; the files left *)
(* and the bytes hashed of the current one are what remains.               *)
CompletedDigests(c) ==
    LET step[left \in 0 .. Len(c.data), i \in 0 .. FileCount] ==
            \* digests completed from file i on with left bytes of the chunk to go
            LET start == IF i = current_file_index_ THEN hashed ELSE <<>>
                n == File(i).file_size_ - Len(start)
                from == Len(c.data) - left
            IN  IF left = 0 THEN [sums |-> <<>>, hashed |-> start]
                ELSE IF left < n THEN [sums |-> <<>>, hashed |-> start \o SubSeq(c.data, from + 1, Len(c.data))]
                ELSE LET rest == step[left - n, i + 1]
                     IN  [rest EXCEPT !.sums = <<Digest(start \o SubSeq(c.data, from + 1, from + n))>> \o @]
    IN  step[Len(c.data), current_file_index_]

ChecksumV1(c) ==
    LET result == CompletedDigests(c)
    IN  /\ storage' = [storage EXCEPT !.files_ =
                          [i \in DOMAIN @ |->
                              IF i - current_file_index_ \in DOMAIN result.sums
                              THEN add_checksum(@[i], result.sums[i - current_file_index_]) ELSE @[i]]]
        /\ hashed' = result.hashed
        /\ current_file_index_' = current_file_index_ + Len(result.sums)
        /\ UNCHANGED terminated

(* Mutant: the digest of the file before is not reset.                     *)
ChecksumV2Running(c) ==
    LET next == c.file_index > current_file_index_
    IN  /\ IF next
           THEN storage' = [storage EXCEPT !.files_[current_file_index_ + 1] = add_checksum(@, Digest(hashed))]
           ELSE UNCHANGED storage
        /\ current_file_index_' = c.file_index
        /\ hashed' = hashed \o c.data
        /\ UNCHANGED terminated

(* v2_checksum_hasher::hash_chunk: the first chunk of the next file ends   *)
(* the file before it.                                                     *)
ChecksumV2(c) ==
    LET next == c.file_index > current_file_index_
        index == IF next THEN current_file_index_ + 1 ELSE current_file_index_
    IN  /\ IF next
           THEN storage' = [storage EXCEPT !.files_[current_file_index_ + 1] = add_checksum(@, Digest(hashed))]
           ELSE UNCHANGED storage
        /\ current_file_index_' = index
        /\ hashed' = (IF next THEN <<>> ELSE hashed) \o c.data
        /\ IF index = c.file_index THEN UNCHANGED terminated ELSE Fail("v2_checksum_hasher::hash_chunk")

ChecksumChunk ==
    /\ terminated = "no"
    /\ sums # <<>>
    /\ sums' = Tail(sums)
    /\ IF V1Reader THEN ChecksumV1(Head(sums)) ELSE ChecksumV2(Head(sums))
    /\ UNCHANGED <<job, disk, reader, f_, file_index_, piece_index_, chunk_, chunks, pushing, bytes_done_,
                   trees, file_blocks_hashed_, piece_map_>>

Next == Reader \/ ChecksumChunk \/ \E w \in Workers : HashChunk(w) \/ PushPiece(w)

Spec == Init /\ [][Next]_vars

WorkerSymmetry == Permutations(Workers)

-----------------------------------------------------------------------------
Finished ==
    /\ terminated = "no" /\ reader = "exited"
    /\ chunks = <<>> /\ sums = <<>> /\ \A w \in Workers : pushing[w] = <<>>

(* Every index stays within the storage, and a terminated run names the    *)
(* contract that failed.                                                   *)
TypeOK ==
    /\ reader \in {"files", "reading", "exited"}
    /\ file_index_ \in 0 .. FileCount /\ current_file_index_ \in 0 .. FileCount
    /\ f_ \in Nat /\ piece_index_ \in Nat /\ bytes_done_ \in Nat
    /\ Len(chunk_) < ChunkSize
    /\ piece_map_ \in Seq(BOOLEAN)
    /\ DOMAIN file_blocks_hashed_ = DOMAIN trees
    /\ terminated \in {"no", "v2_chunk_reader::push", "v1_chunk_reader::run", "v2_chunk_hasher::hash_chunk",
                       "merkle_tree::set_node", "v1_piece_verifier::verify_finished_piece",
                       "file_storage::set_piece_hash", "v2_checksum_hasher::hash_chunk"}

(* The inputs known to end the process: checksums of a storage with        *)
(* padding between files, v2 torrents of nothing but empty files, v2 files *)
(* of whole chunks (the empty chunk behind them has a piece or a block of  *)
(* its own), a hybrid storage verified with the multi buffer hashers, and  *)
(* v1 files that lost bytes on disk.                                       *)
KnownFailure ==
    \/ Hybrid /\ job.sum /\ \E e \in ToSet(storage.files_) : is_padding_file(e)
    \/ ~V1Reader /\ storage.total_file_size_ = 0
    \/ ~V1Reader /\ \E e \in ToSet(storage.files_) : e.file_size_ > 0 /\ e.file_size_ % ChunkSize = 0
    \/ Hybrid /\ job.verify /\ job.multi
    \/ V1Reader /\ \E i \in DOMAIN disk : disk[i] = "short"

(* No contract of readers, hashers, writers, verifiers and Merkle trees    *)
(* fails for any other layout of files, missing and damaged files          *)
(* included, whatever the order in which pieces arrive; every index stays  *)
(* in its range.                                                           *)
NoContractFailure == TypeOK /\ (terminated # "no" => KnownFailure)

(* "Expects(chunk.piece_index < storage_.get().piece_count())" in          *)
(* v2_chunk_reader::push, for files that are not all empty.                *)
PieceIndexInRange == terminated # "v2_chunk_reader::push"

(* Hashing computes the v1 pieces of the concatenated files, over file and *)
(* chunk boundaries, empty files and, for hybrid torrents, the implicit    *)
(* zeros between the files the v2 reader sees.                             *)
PiecesCorrect ==
    Finished /\ ~job.verify /\ "v1" \in job.protocol => storage.pieces_ = PieceHashes(storage)

(* Behind a file of whole chunks v2_chunk_reader pushes an empty chunk,     *)
(* and the single buffer hasher makes a leaf of it, one more than the file *)
(* has blocks.  A tree without room for it ends the process; in any other  *)
(* the leaf completes the file early or twice.                             *)
ExtraLeaf(e) == ~job.multi /\ e.file_size_ # 0 /\ e.file_size_ % ChunkSize = 0

(* verify_piece_layers takes a layer that hashing made for right exactly if *)
(* the file has 2^k pieces, k > 0, or pieces of one block: a shorter layer *)
(* is balanced with zeros where hashing has the digests of zeros, and one  *)
(* of no pieces has no root to compare.                                    *)
LayersVerified ==
    Finished /\ ~job.verify /\ "v2" \in job.protocol /\ ~job.isal =>
        \A e \in ToSet(storage.files_) :
            ~is_padding_file(e) /\ e.file_size_ # 0 /\ ~ExtraLeaf(e) =>
                (verify_piece_layers(e, FALSE) <=>
                    /\ e.file_size_ > PieceSize
                    /\ PieceSize = BlockSize \/ has_single_bit(div_ceil(e.file_size_, PieceSize)))

(* Hashing sets the Merkle root and the piece layer of every file from     *)
(* leaves that arrive in any order.  The batched update of ISA-L builds    *)
(* puts pairs on wrong parents (merkle_tree.hpp:130) and is right for      *)
(* trees of at most two leaves only; an extra leaf makes the root wrong.   *)
RootsCorrect ==
    /\ LayersVerified
    /\ Finished /\ ~job.verify /\ "v2" \in job.protocol =>
        \A e \in ToSet(storage.files_) :
            ~is_padding_file(e) /\ e.file_size_ # 0 /\ (job.isal => BlockCount(e) <= 2) =>
                /\ e.has_v2_data_
                /\ e.pieces_root_ = MerkleRoot(Leaves(e)) <=> ~ExtraLeaf(e)
                /\ e.piece_layer_ = PieceLayer(e)

(* A file is completed once: its root and layer never change after they    *)
(* are set, unless it has an extra leaf.                                   *)
RootSetOnce ==
    [][\A i \in DOMAIN storage.files_ :
           storage.files_[i].has_v2_data_ /\ ~ExtraLeaf(storage.files_[i]) =>
               storage'.files_[i].pieces_root_ = storage.files_[i].pieces_root_ /\
               storage'.files_[i].piece_layer_ = storage.files_[i].piece_layer_]_storage

(* A verifier marks exactly the pieces all of whose bytes are on disk,     *)
(* next to missing and damaged files.  Of a truncated file a v2 verifier   *)
(* marks no bad piece, but may mark none at all; behind one the v1 pieces  *)
(* are out of step.                                                        *)
Found(e) == IF is_padding_file(e) \/ Exists(e) THEN OnDisk(e) ELSE [i \in 1 .. e.file_size_ |-> 0]
GoodV1Piece(i) == LET good == Cut(Stream(Bytes, storage), PieceSize)
                      found == Cut(Stream(Found, storage), PieceSize)
                  IN  i \in DOMAIN found /\ found[i] = good[i]
GoodV2Piece(e, i) == LET good == Cut(Bytes(e), PieceSize)
                         found == Cut(OnDisk(e), PieceSize)
                     IN  i \in DOMAIN found /\ found[i] = good[i]
VerifierExact ==
    Finished /\ job.verify =>
        IF V1Reader
        THEN \A n \in DOMAIN piece_map_ : piece_map_[n] <=> GoodV1Piece(n)
        ELSE \A f \in 0 .. FileCount - 1 : \A i \in 1 .. MapEntries(File(f)) :
                 (job.isal => BlockCount(File(f)) <= 2) /\ File(f).file_size_ # 0 =>
                     /\ piece_map_[FirstEntry(f) + i] => GoodV2Piece(File(f), i)
                     /\ GoodV2Piece(File(f), i) /\ disk[File(f).path_] # "short"
                            => piece_map_[FirstEntry(f) + i]

(* The checksums of a finished run are those of the files' own bytes; the  *)
(* only files without one are empty v1 files at the end and the last file  *)
(* of a v2 torrent.                                                        *)
ChecksumsExact ==
    Finished /\ job.sum =>
        \A i \in DOMAIN storage.files_ :
            LET e == storage.files_[i]
                skipped == IF V1Reader THEN Total(Sizes(SubSeq(storage.files_, i, FileCount))) = 0
                           ELSE i = FileCount
            IN  e.checksums_ = IF skipped THEN <<>> ELSE <<Digest(Bytes(e))>>

(* The progress counter ends at the last entry of cumulative_file_size_,   *)
(* so that current_file_progress() ends at 100%.                           *)
ProgressComplete ==
    Finished /\ (\A i \in DOMAIN disk : disk[i] # "short") =>
        bytes_done_ = Last(InclusiveScan(IF V1Reader THEN Sizes(storage.files_)
                                         ELSE RegularSizes(storage.files_)))
=============================================================================
