-------------------------- MODULE HashLayoutProofs --------------------------
(***************************************************************************)
(* What hashing computes, for every layout of files, every block, piece    *)
(* and chunk size and any number of hash threads: the Merkle root and the  *)
(* piece layer of every file.                                              *)
(*                                                                         *)
(* The inductive invariant follows the leaves: each leaf of each file is   *)
(* in one place, unread in its file, in one chunk, in one hashed piece, or *)
(* in the tree of its file with the digest of its block.  From it a file   *)
(* is completed with the leaf that makes its tree whole.                   *)
(***************************************************************************)
EXTENDS HashLayout, FileStorageProofs

PiecesPerChunk == ChunkSize \div PieceSize
BlocksPerChunk == ChunkSize \div BlockSize

(* A piece is 2^LayerOffset blocks, a chunk a number of pieces.            *)
LEMMA PowerFacts ==
    ASSUME NEW n \in Nat \ {0}, has_single_bit(n)
    PROVE  log2_floor(n) \in Nat /\ n = pow2[log2_floor(n)]
  BY Log2Floor DEF has_single_bit

(* Blocks, pieces and chunks are multiples of each other.                  *)
LEMMA SizeFacts ==
    /\ BlockSize \in Nat \ {0} /\ PieceSize \in Nat \ {0} /\ ChunkSize \in Nat \ {0}
    /\ LayerOffset \in Nat /\ PieceSize = BlockSize * pow2[LayerOffset]
    /\ PiecesPerChunk \in Nat \ {0} /\ ChunkSize = PieceSize * PiecesPerChunk
    /\ BlocksPerChunk \in Nat \ {0} /\ ChunkSize = BlockSize * BlocksPerChunk
    /\ BlocksPerChunk = pow2[LayerOffset] * PiecesPerChunk
<1>1. BlockSize \in Nat \ {0} /\ PieceSize \in Nat \ {0} /\ ChunkSize \in Nat \ {0}
  BY LayoutAssumption
<1> DEFINE b == log2_floor(BlockSize)
           p == log2_floor(PieceSize)
           o == LayerOffset
           R == PiecesPerChunk
<1>2. b \in Nat /\ BlockSize = pow2[b] /\ p \in Nat /\ PieceSize = pow2[p]
  BY <1>1, LayoutAssumption, PowerFacts
<1>3. b <= p
  <2> SUFFICES ASSUME p < b PROVE FALSE
    BY <1>2
  <2>1. 2 * pow2[p] <= pow2[b]
    BY <1>2, Pow2Monotone
  <2> QED
    BY <1>1, <1>2, <2>1, LayoutAssumption
<1>4. o = p - b /\ o \in Nat
  BY <1>2, <1>3 DEF LayerOffset
<1>5. PieceSize = BlockSize * pow2[o] /\ pow2[o] \in Nat /\ pow2[o] > 0
  <2>1. b + o = p
    BY <1>2, <1>4
  <2>2. pow2[b + o] = pow2[b] * pow2[o]
    BY <1>2, <1>4, Pow2Sum
  <2>3. pow2[o] \in Nat /\ pow2[o] > 0
    BY <1>4, Pow2Facts
  <2> HIDE DEF b, p, o
  <2> QED
    BY <1>2, <2>1, <2>2, <2>3
<1>6. R \in Nat \ {0} /\ ChunkSize = PieceSize * R
  <2>1. R \in Nat /\ ChunkSize % PieceSize = 0
    BY <1>1, LayoutAssumption DEF PiecesPerChunk
  <2>2. ChunkSize = PieceSize * R
    BY <1>1, <2>1 DEF PiecesPerChunk
  <2>3. R # 0
    BY <1>1, <2>2
  <2> QED
    BY <2>1, <2>2, <2>3
<1> HIDE DEF b, p, o, R
<1>7. BlocksPerChunk = pow2[o] * R
  <2>1. pow2[o] * R \in Nat
    BY <1>5, <1>6
  <2>2. ChunkSize = BlockSize * (pow2[o] * R)
    BY <1>1, <1>5, <1>6
  <2>3. \A x \in Nat : (BlockSize * x) \div BlockSize = x
    BY <1>1
  <2> QED
    BY <2>1, <2>2, <2>3 DEF BlocksPerChunk
<1>8. BlocksPerChunk \in Nat \ {0} /\ ChunkSize = BlockSize * BlocksPerChunk
  BY <1>1, <1>5, <1>6, <1>7
<1> QED
  BY <1>1, <1>4, <1>5, <1>6, <1>7, <1>8 DEF o, R

(* The sizes without their products, which slow the solver down.           *)
LEMMA Positive ==
    /\ BlockSize \in Nat \ {0} /\ PieceSize \in Nat \ {0} /\ ChunkSize \in Nat \ {0}
    /\ PieceSize <= ChunkSize /\ ChunkSize \div PieceSize \in Nat \ {0}
<1>1. \A x \in Nat \ {0} : \A y \in Nat \ {0} : x <= x * y
  OBVIOUS
<1> QED
  BY <1>1, SizeFacts DEF PiecesPerChunk

-----------------------------------------------------------------------------
(* A file_entry with all its members.                                      *)
IsEntry(e) ==
    e = [path_ |-> e.path_, file_size_ |-> e.file_size_, attributes_ |-> e.attributes_,
         symlink_path_ |-> e.symlink_path_, has_v2_data_ |-> e.has_v2_data_,
         pieces_root_ |-> e.pieces_root_, piece_layer_ |-> e.piece_layer_,
         checksums_ |-> e.checksums_]

SameCore(e, d) == e.path_ = d.path_ /\ e.file_size_ = d.file_size_ /\ e.attributes_ = d.attributes_
SameV2Data(e, d) == /\ e.has_v2_data_ = d.has_v2_data_ /\ e.pieces_root_ = d.pieces_root_
                    /\ e.piece_layer_ = d.piece_layer_

(* What set_pieces_root and set_piece_layer leave of an entry.             *)
LEMMA SetV2Facts ==
    ASSUME NEW e, IsEntry(e), NEW hash, NEW layer,
           NEW d, d = set_piece_layer(set_pieces_root(e, hash), layer)
    PROVE  /\ IsEntry(d) /\ SameCore(d, e) /\ d.checksums_ = e.checksums_
           /\ d.has_v2_data_ /\ d.pieces_root_ = hash /\ d.piece_layer_ = layer
<1>1. ASSUME NEW c, c = set_pieces_root(e, hash), d = set_piece_layer(c, layer)
      PROVE  /\ IsEntry(d) /\ SameCore(d, e) /\ d.checksums_ = e.checksums_
             /\ d.has_v2_data_ /\ d.pieces_root_ = hash /\ d.piece_layer_ = layer
  <2>1. /\ IsEntry(c) /\ SameCore(c, e) /\ c.checksums_ = e.checksums_ /\ c.pieces_root_ = hash
    BY <1>1 DEF IsEntry, SameCore, set_pieces_root
  <2>2. /\ IsEntry(d) /\ SameCore(d, c) /\ d.checksums_ = c.checksums_
        /\ d.pieces_root_ = c.pieces_root_ /\ d.piece_layer_ = layer
    BY <1>1, <2>1 DEF IsEntry, SameCore, set_piece_layer
  <2>3. d.has_v2_data_
    BY <1>1, <2>1 DEF IsEntry, set_piece_layer
  <2> QED
    BY <2>1, <2>2, <2>3 DEF SameCore
<1> QED
  BY <1>1

(* A checksum leaves the v2 data alone.                                    *)
LEMMA AddChecksumFacts ==
    ASSUME NEW e, IsEntry(e), NEW hash
    PROVE  LET d == add_checksum(e, hash)
           IN  /\ IsEntry(d) /\ SameCore(d, e) /\ SameV2Data(d, e)
               /\ d.checksums_ = IF e.checksums_ # <<>> THEN e.checksums_ ELSE <<hash>>
<1> DEFINE d == add_checksum(e, hash)
<1>1. d = [path_ |-> e.path_, file_size_ |-> e.file_size_, attributes_ |-> e.attributes_,
           symlink_path_ |-> e.symlink_path_, has_v2_data_ |-> e.has_v2_data_,
           pieces_root_ |-> e.pieces_root_, piece_layer_ |-> e.piece_layer_,
           checksums_ |-> IF e.checksums_ # <<>> THEN e.checksums_ ELSE <<hash>>]
  BY DEF IsEntry, add_checksum
<1> HIDE DEF d
<1>2. /\ IsEntry(d) /\ SameCore(d, e) /\ SameV2Data(d, e)
      /\ d.checksums_ = IF e.checksums_ # <<>> THEN e.checksums_ ELSE <<hash>>
  BY <1>1 DEF IsEntry, SameCore, SameV2Data
<1> QED
  BY <1>2 DEF d

(* A storage of n files.                                                   *)
HasFiles(s, n) ==
    /\ IsStorage(s) /\ n \in Nat /\ Len(s.files_) = n /\ IsVector(s.files_, n)
    /\ \A i \in 1 .. n : IsEntry(s.files_[i]) /\ s.files_[i].file_size_ \in Nat

(* One member of a storage changes.                                        *)
LEMMA WithFilesFacts ==
    ASSUME NEW s, NEW n, HasFiles(s, n), NEW files, IsVector(files, n),
           \A i \in 1 .. n : IsEntry(files[i]) /\ SameCore(files[i], s.files_[i]),
           NEW t, t = [s EXCEPT !.files_ = files]
    PROVE  /\ HasFiles(t, n) /\ t.files_ = files
           /\ t.pieces_ = s.pieces_ /\ t.piece_size_ = s.piece_size_
           /\ t.total_file_size_ = s.total_file_size_
<1>1. /\ IsStorage(t) /\ t.files_ = files
      /\ t.pieces_ = s.pieces_ /\ t.piece_size_ = s.piece_size_
      /\ t.total_file_size_ = s.total_file_size_
  BY DEF HasFiles, IsStorage
<1>2. n \in Nat /\ Len(files) = n
  BY VectorFacts DEF HasFiles
<1>3. \A i \in 1 .. n : files[i].file_size_ \in Nat
  BY DEF HasFiles, SameCore
<1> QED
  BY <1>1, <1>2, <1>3 DEF HasFiles

WithFile(s, i, e) == [s EXCEPT !.files_[i] = e]

(* Replacing one entry by one of the same path, size and attributes.       *)
LEMMA WithFileFacts ==
    ASSUME NEW s, NEW n, HasFiles(s, n), NEW i, NEW e, i \in 1 .. n => IsEntry(e) /\ SameCore(e, s.files_[i]),
           NEW t, t = WithFile(s, i, e)
    PROVE  /\ HasFiles(t, n)
           /\ \A k \in 1 .. n : t.files_[k] = IF k = i THEN e ELSE s.files_[k]
           /\ t.pieces_ = s.pieces_ /\ t.piece_size_ = s.piece_size_
           /\ t.total_file_size_ = s.total_file_size_
<1> DEFINE files == [s.files_ EXCEPT ![i] = e]
<1>1. /\ IsStorage(t) /\ t.files_ = files
      /\ t.pieces_ = s.pieces_ /\ t.piece_size_ = s.piece_size_
      /\ t.total_file_size_ = s.total_file_size_
  BY DEF WithFile, HasFiles, IsStorage
<1>2. DOMAIN s.files_ = 1 .. n /\ n \in Nat
  BY VectorFacts DEF HasFiles
<1>3. IsVector(files, n) /\ \A k \in 1 .. n : files[k] = IF k = i THEN e ELSE s.files_[k]
  BY <1>2 DEF IsVector
<1> HIDE DEF files
<1>4. \A k \in 1 .. n : IsEntry(files[k]) /\ files[k].file_size_ \in Nat
  BY <1>3 DEF HasFiles, SameCore
<1>5. Len(files) = n
  BY <1>2, <1>3, VectorFacts
<1> QED
  BY <1>1, <1>2, <1>3, <1>4, <1>5 DEF HasFiles

-----------------------------------------------------------------------------
(* Sequences whatever their values.                                        *)
IsSeq(s) == Len(s) \in Nat /\ IsVector(s, Len(s))

(* Every sequence is one in this sense ...                                 *)
LEMMA SeqOfSet ==
    ASSUME NEW S, NEW s \in Seq(S) PROVE IsSeq(s)
  BY DEF IsSeq, IsVector

(* ... and the other way round.                                            *)
LEMMA SetOfSeq ==
    ASSUME NEW s, IsSeq(s)
    PROVE  (\E S : s \in Seq(S)) /\ Len(s) \in Nat /\ DOMAIN s = 1 .. Len(s)
  BY VectorFacts DEF IsSeq

(* A function on 1 .. n is one of length n.                                *)
LEMMA VectorIsSeq ==
    ASSUME NEW n \in Nat, NEW s, IsVector(s, n) PROVE IsSeq(s) /\ Len(s) = n
  BY VectorFacts DEF IsSeq

(* The empty sequence.                                                     *)
LEMMA EmptyIsSeq == IsSeq(<<>>) /\ Len(<<>>) = 0
  BY DEF IsSeq, IsVector

(* Only the empty sequence has no elements.                                *)
LEMMA NoElements ==
    ASSUME NEW s, IsSeq(s), Len(s) = 0 PROVE s = <<>>
<1>1. PICK S : s \in Seq(S)
  BY SetOfSeq
<1> QED
  BY <1>1

(* A sequence of one element.                                              *)
LEMMA SingleIsSeq ==
    ASSUME NEW x PROVE IsSeq(<<x>>) /\ Len(<<x>>) = 1 /\ <<x>>[1] = x
  BY DEF IsSeq, IsVector

(* Length and elements of a concatenation.                                 *)
LEMMA ConcatFacts ==
    ASSUME NEW s, NEW t, IsSeq(s), IsSeq(t)
    PROVE  /\ IsSeq(s \o t) /\ Len(s \o t) = Len(s) + Len(t)
           /\ \A k \in 1 .. Len(s) : (s \o t)[k] = s[k]
           /\ \A k \in 1 .. Len(t) : (s \o t)[Len(s) + k] = t[k]
<1>1. PICK S : s \in Seq(S)
  BY SetOfSeq
<1>2. PICK T : t \in Seq(T)
  BY SetOfSeq
<1> DEFINE U == S \cup T
<1>3. s \in Seq(U) /\ t \in Seq(U)
  <2>1. /\ s \in [1 .. Len(s) -> S] /\ Len(s) \in Nat
        /\ t \in [1 .. Len(t) -> T] /\ Len(t) \in Nat
    BY <1>1, <1>2
  <2>2. s \in [1 .. Len(s) -> U] /\ t \in [1 .. Len(t) -> U]
    BY <2>1
  <2> HIDE DEF U
  <2> QED
    BY <2>1, <2>2
<1> HIDE DEF U
<1>4. s \o t \in Seq(U) /\ Len(s \o t) = Len(s) + Len(t) /\ Len(s) \in Nat /\ Len(t) \in Nat
  BY <1>3
<1>5. /\ \A k \in 1 .. Len(s) : (s \o t)[k] = s[k]
      /\ \A k \in 1 .. Len(t) : (s \o t)[Len(s) + k] = t[k]
  BY <1>3, <1>4
<1> QED
  BY <1>4, <1>5, SeqOfSet

(* Head and tail of a sequence that is not empty.                          *)
LEMMA TailFacts ==
    ASSUME NEW s, IsSeq(s), s # <<>>
    PROVE  /\ Len(s) \in Nat \ {0} /\ Head(s) = s[1] /\ 1 \in DOMAIN s /\ DOMAIN s = 1 .. Len(s)
           /\ IsSeq(Tail(s)) /\ Len(Tail(s)) = Len(s) - 1 /\ DOMAIN Tail(s) = 1 .. Len(s) - 1
           /\ \A k \in 1 .. Len(s) - 1 : Tail(s)[k] = s[k + 1]
<1>1. PICK S : s \in Seq(S)
  BY SetOfSeq
<1>2. Len(s) \in Nat \ {0} /\ Tail(s) \in Seq(S) /\ Len(Tail(s)) = Len(s) - 1
  BY <1>1
<1>3. /\ Head(s) = s[1] /\ 1 \in DOMAIN s /\ DOMAIN s = 1 .. Len(s)
      /\ DOMAIN Tail(s) = 1 .. Len(s) - 1
      /\ \A k \in 1 .. Len(s) - 1 : Tail(s)[k] = s[k + 1]
  BY <1>1, <1>2
<1> QED
  BY <1>2, <1>3, SeqOfSet

(* Length and elements of a run of a sequence.                             *)
LEMMA SubSeqFacts ==
    ASSUME NEW s, IsSeq(s), NEW a \in Nat \ {0}, NEW b \in Nat, b <= Len(s)
    PROVE  /\ IsSeq(SubSeq(s, a, b))
           /\ Len(SubSeq(s, a, b)) = IF a <= b THEN b - a + 1 ELSE 0
           /\ \A k \in 1 .. Len(SubSeq(s, a, b)) : SubSeq(s, a, b)[k] = s[a + k - 1]
<1>1. PICK S : s \in Seq(S)
  BY SetOfSeq
<1>2. SubSeq(s, a, b) \in Seq(S)
  BY <1>1
<1>3. Len(SubSeq(s, a, b)) = IF a <= b THEN b - a + 1 ELSE 0
  BY <1>1
<1>4. \A k \in 1 .. Len(SubSeq(s, a, b)) : SubSeq(s, a, b)[k] = s[a + k - 1]
  BY <1>1, <1>3
<1> QED
  BY <1>2, <1>3, <1>4, SeqOfSet

(* A file has as many bytes as its size says.                              *)
LEMMA BytesFacts ==
    ASSUME NEW e, e.file_size_ \in Nat
    PROVE  IsSeq(Bytes(e)) /\ Len(Bytes(e)) = e.file_size_
<1>1. IsVector(Bytes(e), e.file_size_)
  BY DEF Bytes, IsVector
<1> QED
  BY <1>1, VectorIsSeq

(* Appending an element.                                                   *)
LEMMA AppendFacts ==
    ASSUME NEW s, IsSeq(s), NEW x PROVE IsSeq(Append(s, x)) /\ Len(Append(s, x)) = Len(s) + 1
<1>1. PICK S : s \in Seq(S)
  BY SetOfSeq
<1>2. s \in [1 .. Len(s) -> S] /\ Len(s) \in Nat
  BY <1>1
<1>3. s \in [1 .. Len(s) -> S \cup {x}]
  BY <1>2
<1>4. s \in Seq(S \cup {x}) /\ x \in S \cup {x}
  BY <1>2, <1>3
<1>5. Append(s, x) \in Seq(S \cup {x}) /\ Len(Append(s, x)) = Len(s) + 1
  BY <1>4
<1> QED
  BY <1>5, SeqOfSet

(* What is on disk is never longer than the file, and an undamaged file is *)
(* all there.                                                              *)
LEMMA OnDiskFacts ==
    ASSUME NEW e, e.file_size_ \in Nat
    PROVE  /\ IsSeq(OnDisk(e)) /\ Len(OnDisk(e)) <= e.file_size_
           /\ disk[e.path_] = "ok" => OnDisk(e) = Bytes(e)
<1>1. IsSeq(Bytes(e)) /\ Len(Bytes(e)) = e.file_size_
  BY BytesFacts
<1>2. CASE e.file_size_ = 0 \/ is_padding_file(e) \/ disk[e.path_] = "ok"
  BY <1>1, <1>2 DEF OnDisk
<1>3. CASE ~(e.file_size_ = 0 \/ is_padding_file(e) \/ disk[e.path_] = "ok")
  <2> DEFINE s == Front(Bytes(e))
  <2>1. IsSeq(s) /\ Len(s) = e.file_size_ - 1
    BY <1>1, <1>3, SubSeqFacts DEF Front
  <2> HIDE DEF s
  <2>2. ASSUME NEW x PROVE IsSeq(Append(s, x)) /\ Len(Append(s, x)) <= e.file_size_
    BY <2>1, AppendFacts
  <2>3. CASE disk[e.path_] = "corrupt"
    <3>1. OnDisk(e) = Append(s, -1)
      BY <1>3, <2>3 DEF OnDisk, s
    <3> QED
      BY <1>3, <2>2, <3>1
  <2>4. CASE disk[e.path_] = "short"
    <3>1. OnDisk(e) = s
      BY <1>3, <2>4 DEF OnDisk, s
    <3> QED
      BY <1>3, <2>1, <3>1
  <2>5. CASE disk[e.path_] # "corrupt" /\ disk[e.path_] # "short"
    <3>1. OnDisk(e) = <<>>
      BY <1>3, <2>5 DEF OnDisk
    <3> QED
      BY <1>3, <3>1, EmptyIsSeq
  <2> QED
    BY <2>3, <2>4, <2>5
<1> QED
  BY <1>2, <1>3

(* What a read returns.                                                    *)
LEMMA GotFacts ==
    ASSUME f_ \in Nat, NEW content, IsSeq(content), NEW room \in Nat
    PROVE  /\ IsSeq(Got(content, room)) /\ Len(Got(content, room)) <= room
           /\ f_ <= Len(content) =>
                  Len(Got(content, room)) = IF Eof(content, room) THEN Len(content) - f_ ELSE room
<1>1. Len(content) \in Nat
  BY DEF IsSeq
<1> DEFINE b == IF f_ + room < Len(content) THEN f_ + room ELSE Len(content)
<1>2. b \in Nat /\ b <= Len(content) /\ f_ + 1 \in Nat \ {0}
  BY <1>1
<1>3. /\ IsSeq(SubSeq(content, f_ + 1, b))
      /\ Len(SubSeq(content, f_ + 1, b)) = IF f_ + 1 <= b THEN b - (f_ + 1) + 1 ELSE 0
  <2> HIDE DEF b
  <2> QED
    BY <1>2, SubSeqFacts
<1> QED
  BY <1>1, <1>2, <1>3 DEF Got, Eof

(* Cut gives div_ceil parts, each a run of the bytes.                      *)
LEMMA CutFacts ==
    ASSUME NEW bytes, IsSeq(bytes), NEW size \in Nat \ {0}
    PROVE  /\ div_ceil(Len(bytes), size) \in Nat
           /\ IsVector(Cut(bytes, size), div_ceil(Len(bytes), size))
           /\ IsSeq(Cut(bytes, size)) /\ Len(Cut(bytes, size)) = div_ceil(Len(bytes), size)
           /\ DOMAIN Cut(bytes, size) = 1 .. div_ceil(Len(bytes), size)
           /\ \A i \in 1 .. div_ceil(Len(bytes), size) :
                  Cut(bytes, size)[i] = SubSeq(bytes, (i - 1) * size + 1,
                                               IF i * size < Len(bytes) THEN i * size ELSE Len(bytes))
<1>1. div_ceil(Len(bytes), size) \in Nat
  BY CeilFacts DEF IsSeq
<1>2. /\ IsVector(Cut(bytes, size), div_ceil(Len(bytes), size))
      /\ DOMAIN Cut(bytes, size) = 1 .. div_ceil(Len(bytes), size)
      /\ \A i \in 1 .. div_ceil(Len(bytes), size) :
             Cut(bytes, size)[i] = SubSeq(bytes, (i - 1) * size + 1,
                                          IF i * size < Len(bytes) THEN i * size ELSE Len(bytes))
  BY DEF Cut, IsVector
<1> QED
  BY <1>1, <1>2, VectorIsSeq

-----------------------------------------------------------------------------
(* What every step keeps, whatever the job.                                *)
JobOK == /\ job.protocol \in {{"v1"}, {"v2"}, {"v1", "v2"}}
         /\ {job.isal, job.multi, job.verify, job.sum} \subseteq BOOLEAN
PathsOK ==
    \A i \in 1 .. FileCount :
        ~is_padding_file(storage.files_[i]) =>
            storage.files_[i].path_ \in Nat /\ (~job.verify => disk[storage.files_[i].path_] = "ok")
ChunkShape(c) ==
    /\ c.piece_index \in Nat /\ c.file_index \in 0 .. FileCount /\ c.null \in BOOLEAN /\ IsSeq(c.data)
    /\ ~V1Reader => c.file_index < FileCount
PieceShape(p) ==
    p.kind = "v2" => ~V1Reader /\ p.file \in 0 .. FileCount - 1 /\ p.index \in Nat
ReaderShape ==
    /\ reader \in {"files", "reading", "exited"}
    /\ f_ \in Nat /\ piece_index_ \in Nat /\ file_index_ \in 0 .. FileCount
    /\ reader = "reading" => IF V1Reader THEN file_index_ > 0 ELSE file_index_ < FileCount
    /\ IsSeq(chunk_) /\ Len(chunk_) < ChunkSize
QueuesOK ==
    /\ IsSeq(chunks) /\ \A k \in 1 .. Len(chunks) : ChunkShape(chunks[k])
    /\ IsSeq(sums) /\ \A k \in 1 .. Len(sums) : ChunkShape(sums[k])
    /\ pushing = [w \in Workers |-> pushing[w]]
    /\ \A w \in Workers : IsSeq(pushing[w]) /\ \A k \in 1 .. Len(pushing[w]) : PieceShape(pushing[w][k])
TreesOK == /\ V1Reader => trees = <<>> /\ file_blocks_hashed_ = <<>>
           /\ ~V1Reader => IsVector(trees, FileCount) /\ IsVector(file_blocks_hashed_, FileCount)
Shape == /\ HasFiles(storage, FileCount)
         /\ JobOK /\ PathsOK /\ ReaderShape /\ QueuesOK /\ TreesOK

(* What the reader sees of the files.                                      *)
Layout == [f \in 0 .. FileCount - 1 |->
              [path_ |-> File(f).path_, file_size_ |-> File(f).file_size_,
               attributes_ |-> File(f).attributes_]]

(* A step may change what was computed of the files, never the files.      *)
SameFiles == /\ HasFiles(storage', FileCount)
             /\ \A i \in 1 .. FileCount : SameCore(storage'.files_[i], storage.files_[i])

(* Entries of the same path, size and attributes are the same layout.      *)
LEMMA LayoutKept ==
    ASSUME Shape, SameFiles, UNCHANGED <<job, disk>>
    PROVE  /\ HasFiles(storage, FileCount)' /\ FileCount' = FileCount
           /\ PathsOK' /\ Layout' = Layout
<1>1. FileCount' = FileCount
  BY DEF SameFiles, HasFiles, FileCount, file_count
<1>2. HasFiles(storage, FileCount)'
  BY <1>1 DEF SameFiles
<1>3. PathsOK'
  BY <1>1 DEF SameFiles, SameCore, PathsOK, Shape, is_padding_file
<1>4. Layout' = Layout
  <2>1. ASSUME NEW f \in 0 .. FileCount - 1
        PROVE  /\ File(f)'.path_ = File(f).path_ /\ File(f)'.file_size_ = File(f).file_size_
               /\ File(f)'.attributes_ = File(f).attributes_
    <3>1. FileCount \in Nat /\ f + 1 \in 1 .. FileCount
      BY DEF Shape, HasFiles
    <3> QED
      BY <3>1 DEF SameFiles, SameCore, File
  <2> QED
    BY <1>1, <2>1 DEF Layout
<1> QED
  BY <1>1, <1>2, <1>3, <1>4

KeepsV2Data == \A i \in 1 .. FileCount : SameV2Data(storage'.files_[i], storage.files_[i])

(* A step that leaves the storage alone leaves all that alone.             *)
LEMMA StorageUnchanged ==
    ASSUME Shape, UNCHANGED storage PROVE SameFiles /\ KeepsV2Data
  BY DEF Shape, SameFiles, KeepsV2Data, SameCore, SameV2Data

(* v1_checksum_hasher and v2_checksum_hasher change checksums only.        *)
LEMMA ChecksumStorage ==
    ASSUME Shape, ChecksumChunk PROVE SameFiles /\ KeepsV2Data
<1> DEFINE n == FileCount
<1>0. HasFiles(storage, n)
  BY DEF Shape
<1>1. ASSUME NEW c, ChecksumV1(c) PROVE SameFiles /\ KeepsV2Data
  <2> DEFINE digests == CompletedDigests(c).sums
             N == DOMAIN digests
             files == [i \in DOMAIN storage.files_ |->
                               IF i - current_file_index_ \in N
                               THEN add_checksum(storage.files_[i], digests[i - current_file_index_])
                               ELSE storage.files_[i]]
  <2>2. DOMAIN storage.files_ = 1 .. n
    BY <1>0, VectorFacts DEF HasFiles
  <2>3. IsVector(files, n)
    BY <2>2 DEF IsVector
  <2>4. ASSUME NEW i \in 1 .. n
        PROVE  IsEntry(files[i]) /\ SameCore(files[i], storage.files_[i]) /\ SameV2Data(files[i], storage.files_[i])
    <3>1. IsEntry(storage.files_[i])
      BY <1>0 DEF HasFiles
    <3>2. files[i] = IF i - current_file_index_ \in N
                     THEN add_checksum(storage.files_[i], digests[i - current_file_index_])
                     ELSE storage.files_[i]
      BY <2>2
    <3> HIDE DEF files
    <3>3. CASE i - current_file_index_ \in N
      BY <3>1, <3>2, <3>3, AddChecksumFacts
    <3>4. CASE i - current_file_index_ \notin N
      BY <3>1, <3>2, <3>4 DEF SameCore, SameV2Data
    <3> QED
      BY <3>3, <3>4
  <2>5. storage' = [storage EXCEPT !.files_ = files]
    BY <1>1, Zenon DEF ChecksumV1
  <2> HIDE DEF files
  <2>6. HasFiles(storage', n) /\ storage'.files_ = files
    BY <1>0, <2>3, <2>4, <2>5, WithFilesFacts
  <2> QED
    BY <2>4, <2>6 DEF SameFiles, KeepsV2Data
<1>2. ASSUME NEW c, ChecksumV2(c) PROVE SameFiles /\ KeepsV2Data
  <2>1. CASE UNCHANGED storage
    BY <2>1, StorageUnchanged
  <2>2. CASE ~(UNCHANGED storage)
    <3> DEFINE i == current_file_index_ + 1
               e == add_checksum(storage.files_[i], Digest(hashed))
    <3>1. storage' = WithFile(storage, i, e)
      BY <1>2, <2>2, Zenon DEF ChecksumV2, WithFile
    <3>2. i \in 1 .. n => IsEntry(e) /\ SameCore(e, storage.files_[i]) /\ SameV2Data(e, storage.files_[i])
      BY <1>0, AddChecksumFacts DEF HasFiles
    <3> HIDE DEF e, i
    <3>3. /\ HasFiles(storage', n)
          /\ \A k \in 1 .. n : storage'.files_[k] = IF k = i THEN e ELSE storage.files_[k]
      BY <1>0, <3>1, <3>2, WithFileFacts
    <3> QED
      BY <3>2, <3>3 DEF SameFiles, KeepsV2Data, SameCore, SameV2Data
  <2> QED
    BY <2>1, <2>2
<1> QED
  BY <1>1, <1>2 DEF ChecksumChunk

(* v1_piece_writer and the verifiers leave the files alone.                *)
LEMMA TakePieceStorage ==
    ASSUME Shape, NEW p, TakePiece(p) PROVE SameFiles /\ KeepsV2Data
<1>1. CASE UNCHANGED storage
  BY <1>1, StorageUnchanged
<1>2. CASE ~(UNCHANGED storage)
  <2>1. storage' = [storage EXCEPT !.pieces_[p.index + 1] = p.hash]
    BY <1>2 DEF TakePiece, set_piece_hash
  <2>2. IsStorage(storage') /\ storage'.files_ = storage.files_
    BY <2>1 DEF Shape, HasFiles, IsStorage
  <2> QED
    BY <2>2 DEF Shape, HasFiles, SameFiles, KeepsV2Data, SameCore, SameV2Data
<1> QED
  BY <1>1, <1>2

(* A completed file gets its root and its layer.                           *)
SetsV2Data(file, tree) ==
    \A i \in 1 .. FileCount :
        IF i = file + 1
        THEN /\ storage'.files_[i].has_v2_data_
             /\ storage'.files_[i].pieces_root_ = root(tree)
             /\ storage'.files_[i].piece_layer_ = LayerView(tree, storage.files_[i])
        ELSE SameV2Data(storage'.files_[i], storage.files_[i])

(* set_piece_layers_and_root changes the v2 data of one file.              *)
LEMMA SetLayersStorage ==
    ASSUME Shape, NEW file, NEW tree, set_piece_layers_and_root(file, tree)
    PROVE  SameFiles /\ SetsV2Data(file, tree)
<1> DEFINE n == FileCount
           i == file + 1
           e == set_piece_layer(set_pieces_root(storage.files_[i], root(tree)), LayerView(tree, storage.files_[i]))
<1>0. HasFiles(storage, n)
  BY DEF Shape
<1>1. storage' = WithFile(storage, i, e)
  BY Zenon DEF set_piece_layers_and_root, WithFile
<1>2. i \in 1 .. n => /\ IsEntry(e) /\ SameCore(e, storage.files_[i])
                      /\ e.has_v2_data_ /\ e.pieces_root_ = root(tree)
                      /\ e.piece_layer_ = LayerView(tree, storage.files_[i])
  <2>1. i \in 1 .. n => IsEntry(storage.files_[i])
    BY <1>0 DEF HasFiles
  <2> DEFINE x == storage.files_[i]
             r == root(tree)
             l == LayerView(tree, storage.files_[i])
  <2>2. ASSUME i \in 1 .. n, NEW d, d = set_piece_layer(set_pieces_root(x, r), l)
        PROVE  /\ IsEntry(d) /\ SameCore(d, x)
               /\ d.has_v2_data_ /\ d.pieces_root_ = r /\ d.piece_layer_ = l
    <3>1. IsEntry(x)
      BY <2>1, <2>2
    <3> HIDE DEF x, r, l
    <3> QED
      BY <2>2, <3>1, SetV2Facts
  <2> QED
    BY <2>2, Zenon
<1> HIDE DEF e, i
<1>3. /\ HasFiles(storage', n)
      /\ \A k \in 1 .. n : storage'.files_[k] = IF k = i THEN e ELSE storage.files_[k]
  BY <1>0, <1>1, <1>2, WithFileFacts
<1>4. SameFiles
  BY <1>2, <1>3 DEF SameFiles, SameCore
<1>5. SetsV2Data(file, tree)
  BY <1>2, <1>3 DEF SetsV2Data, SameV2Data, i
<1> QED
  BY <1>4, <1>5

-----------------------------------------------------------------------------
(* The storage a job starts from, before it is prepared.                   *)
Entries(size) == [i \in 1 .. Len(size) |-> file_entry(i, size[i], NoAttributes, 0)]
Built(size) == set_piece_size(add_files(EmptyStorage, Entries(size)), PieceSize)

(* A storage nobody has hashed, with the paths 1 .. m.                     *)
FreshEntry(e, m) ==
    /\ IsEntry(e) /\ e.file_size_ \in Nat /\ ~e.has_v2_data_
    /\ ~is_padding_file(e) => e.path_ \in 1 .. m
Fresh(s, m) ==
    /\ HasFiles(s, Len(s.files_)) /\ s.piece_size_ = PieceSize
    /\ \A i \in 1 .. Len(s.files_) : FreshEntry(s.files_[i], m)

(* The entries of Init and the padding of optimize_alignment have no v2    *)
(* data.                                                                   *)
LEMMA FileEntryFresh ==
    ASSUME NEW m \in Nat, NEW i \in 1 .. m, NEW n \in Nat
    PROVE  FreshEntry(file_entry(i, n, NoAttributes, 0), m) /\ FreshEntry(make_padding_file_entry(n), m)
<1>1. FreshEntry(file_entry(i, n, NoAttributes, 0), m)
  BY DEF FreshEntry, IsEntry, file_entry, NoAttributes
<1>2. FreshEntry(make_padding_file_entry(n), m)
  BY DEF FreshEntry, IsEntry, make_padding_file_entry, file_entry, is_padding_file
<1> QED
  BY <1>1, <1>2

(* The storage that Init builds from the sizes.                            *)
LEMMA BuiltFresh ==
    ASSUME NEW size \in Seq(Nat)
    PROVE  Fresh(Built(size), Len(size))
<1> DEFINE n == Len(size)
           es == Entries(size)
           a == add_files(EmptyStorage, es)
           s == Built(size)
<1>1. n \in Nat /\ IsVector(es, n) /\ \A i \in 1 .. n : es[i] = file_entry(i, size[i], NoAttributes, 0) /\ size[i] \in Nat
  BY DEF Entries, IsVector
<1> HIDE DEF n, es
<1>2. IsSeq(es) /\ Len(es) = n
  BY <1>1, VectorIsSeq
<1>3. PICK S : es \in Seq(S)
  BY <1>2, SetOfSeq
<1>4. IsStorage(EmptyStorage) /\ EmptyStorage.files_ = <<>>
  BY DEF IsStorage, EmptyStorage
<1>5. IsStorage(a) /\ a.files_ = es
  BY <1>3, <1>4, AddFilesFacts
<1> HIDE DEF a
<1>6. s = set_piece_size(a, PieceSize)
  BY DEF Built, a, es
<1>7. IsStorage(s) /\ s.files_ = es /\ s.piece_size_ = PieceSize
  BY <1>5, <1>6 DEF IsStorage, set_piece_size
<1> HIDE DEF s
<1>8. \A i \in 1 .. n : FreshEntry(es[i], n)
  BY <1>1, FileEntryFresh
<1>9. HasFiles(s, n)
  BY <1>1, <1>2, <1>7, <1>8 DEF HasFiles, FreshEntry
<1> QED
  BY <1>2, <1>7, <1>8, <1>9 DEF Fresh, n, s

(* Aligning it adds padding only.                                          *)
LEMMA AlignedFresh ==
    ASSUME NEW s, NEW m \in Nat, Fresh(s, m)
    PROVE  Fresh(optimize_alignment(s), m)
<1> DEFINE n == Len(s.files_)
           S == {s.files_[i] : i \in 1 .. n} \cup {make_padding_file_entry(k) : k \in Nat}
           parts == [i \in DOMAIN s.files_ |-> <<s.files_[i]>> \o PaddingAfter(s, i)]
           es == FlattenSeq(parts)
           r == optimize_alignment(s)
<1>1. n \in Nat /\ DOMAIN s.files_ = 1 .. n
  BY VectorFacts DEF Fresh, HasFiles
<1>2. ASSUME NEW i \in 1 .. n PROVE <<s.files_[i]>> \o PaddingAfter(s, i) \in Seq(S)
  <2>1. <<s.files_[i]>> \in Seq(S)
    BY <1>2
  <2> DEFINE rest == s.piece_size_ - (s.files_[i].file_size_ % s.piece_size_)
  <2>2. rest \in Nat
    <3>1. s.files_[i].file_size_ \in Nat /\ s.piece_size_ = PieceSize
      BY <1>2 DEF Fresh, FreshEntry
    <3>2. \A x \in Nat : \A y \in Nat \ {0} : y - (x % y) \in Nat
      OBVIOUS
    <3> QED
      BY <3>1, <3>2, SizeFacts
  <2>3. <<make_padding_file_entry(rest)>> \in Seq(S)
    <3> HIDE DEF rest
    <3>1. make_padding_file_entry(rest) \in S
      BY <2>2
    <3> HIDE DEF S
    <3> QED
      BY <3>1
  <2>4. PaddingAfter(s, i) \in {<<>>, <<make_padding_file_entry(rest)>>}
    BY DEF PaddingAfter
  <2> HIDE DEF S
  <2>5. PaddingAfter(s, i) \in Seq(S)
    <3>1. <<>> \in Seq(S)
      OBVIOUS
    <3> QED
      BY <2>3, <2>4, <3>1, Zenon
  <2> QED
    BY <2>1, <2>5
<1>3. parts \in Seq(Seq(S))
  <2>1. parts \in [1 .. n -> Seq(S)]
    BY <1>1, <1>2
  <2> HIDE DEF parts, S
  <2> QED
    BY <1>1, <2>1
<1>4. es \in Seq(S)
  <2>1. ASSUME NEW T, NEW seqs \in Seq(Seq(T)) PROVE FlattenSeq(seqs) \in Seq(T)
    BY FlattenType
  <2> HIDE DEF parts, S
  <2> QED
    BY <1>3, <2>1, Zenon
<1>5. IsStorage(clear(s)) /\ clear(s).files_ = <<>> /\ clear(s).piece_size_ = PieceSize
  <2>1. IsStorage(s) /\ s.piece_size_ = PieceSize
    BY DEF Fresh, HasFiles
  <2>2. ASSUME NEW t, t = clear(s) PROVE IsStorage(t) /\ t.files_ = <<>> /\ t.piece_size_ = PieceSize
    BY <2>1, <2>2 DEF IsStorage, clear
  <2> QED
    BY <2>2
<1>6. r = add_files(clear(s), es)
  BY DEF optimize_alignment
<1> HIDE DEF r, es
<1>7. IsStorage(r) /\ r.files_ = es /\ r.piece_size_ = PieceSize
  <2> HIDE DEF S
  <2>1. ASSUME NEW base, IsStorage(base), base.files_ = <<>>, base.piece_size_ = PieceSize
        PROVE  LET t == add_files(base, es) IN IsStorage(t) /\ t.files_ = es /\ t.piece_size_ = PieceSize
    BY <1>4, <2>1, AddFilesFacts
  <2> QED
    BY <1>5, <1>6, <2>1
<1>8. \A e \in S : FreshEntry(e, m)
  <2>1. ASSUME NEW k \in Nat PROVE FreshEntry(make_padding_file_entry(k), m)
    BY DEF FreshEntry, IsEntry, make_padding_file_entry, file_entry, is_padding_file
  <2> QED
    BY <2>1 DEF Fresh
<1>9. \A i \in 1 .. Len(es) : FreshEntry(es[i], m)
  <2> HIDE DEF S
  <2> QED
    BY <1>4, <1>8
<1>10. IsSeq(es)
  <2> HIDE DEF S
  <2> QED
    BY <1>4, SeqOfSet
<1> QED
  BY <1>7, <1>9, <1>10 DEF Fresh, HasFiles, IsSeq, FreshEntry, r

(* What both constructors rely on: whole entries, and paths on disk.       *)
Prepared(s, m) ==
    /\ HasFiles(s, Len(s.files_))
    /\ \A i \in 1 .. Len(s.files_) : ~is_padding_file(s.files_[i]) => s.files_[i].path_ \in 1 .. m

(* The storage a hasher's constructor leaves.                              *)
LEMMA HashingPrepared ==
    ASSUME NEW s, NEW m \in Nat, Fresh(s, m), NEW p
    PROVE  Fresh(PrepareHashing(s, p), m)
<1> DEFINE a == IF p = {"v1", "v2"} THEN optimize_alignment(s) ELSE s
<1>1. Fresh(a, m)
  BY AlignedFresh
<1> HIDE DEF a
<1>2. ASSUME NEW t, t = allocate_pieces(a) PROVE Fresh(t, m)
  <2>1. IsStorage(a)
    BY <1>1 DEF Fresh, HasFiles
  <2>2. IsStorage(t) /\ t.files_ = a.files_ /\ t.piece_size_ = a.piece_size_
    BY <1>2, <2>1 DEF IsStorage, allocate_pieces
  <2> QED
    BY <1>1, <2>2 DEF Fresh, HasFiles
<1>3. PrepareHashing(s, p) = IF "v1" \in p THEN allocate_pieces(a) ELSE a
  BY DEF PrepareHashing, a
<1> QED
  BY <1>1, <1>2, <1>3

(* set_pieces_root leaves path, size and attributes alone.                 *)
LEMMA SetRootFacts ==
    ASSUME NEW e, IsEntry(e), NEW hash, NEW d, d = set_pieces_root(e, hash)
    PROVE  IsEntry(d) /\ SameCore(d, e)
  BY DEF IsEntry, SameCore, set_pieces_root

EmptyRoot(e) == IF e.file_size_ = 0 THEN set_pieces_root(e, Digest2(Digest(<<>>), ZeroHash)) ELSE e

(* So does the v2 data of a metafile.                                      *)
LEMMA MetafileEntry ==
    ASSUME NEW e, IsEntry(e), NEW d, d = EmptyRoot(WithV2Data(e))
    PROVE  IsEntry(d) /\ SameCore(d, e)
<1>1. ASSUME NEW c, c = WithV2Data(e) PROVE IsEntry(c) /\ SameCore(c, e)
  <2>1. CASE c = e
    BY <2>1 DEF SameCore
  <2>2. CASE c # e
    <3> DEFINE h == MerkleRoot(Leaves(e))
               l == PieceLayer(e)
    <3>1. c = set_piece_layer(set_pieces_root(e, h), l)
      BY <1>1, <2>2 DEF WithV2Data
    <3> HIDE DEF h, l
    <3> QED
      BY <3>1, SetV2Facts
  <2> QED
    BY <2>1, <2>2
<1>2. ASSUME NEW c, IsEntry(c), SameCore(c, e), d = EmptyRoot(c) PROVE IsEntry(d) /\ SameCore(d, e)
  <2>1. CASE d = c
    BY <1>2, <2>1
  <2>2. CASE d # c
    <3> DEFINE h == Digest2(Digest(<<>>), ZeroHash)
    <3>1. d = set_pieces_root(c, h)
      BY <1>2, <2>2 DEF EmptyRoot
    <3> HIDE DEF h
    <3>2. IsEntry(d) /\ SameCore(d, c)
      BY <1>2, <3>1, SetRootFacts
    <3> QED
      BY <1>2, <3>2 DEF SameCore
  <2> QED
    BY <2>1, <2>2
<1> QED
  BY <1>1, <1>2

(* The storage a verifier is given.                                        *)
LEMMA VerifyingPrepared ==
    ASSUME NEW s, NEW m \in Nat, Fresh(s, m), NEW p
    PROVE  Prepared(PrepareVerifying(s, p), m)
<1> DEFINE a == IF p = {"v1", "v2"} THEN optimize_alignment(s) ELSE s
           n == Len(a.files_)
           pieces == IF "v1" \in p THEN PieceHashes(a) ELSE <<>>
           files == IF "v2" \in p THEN [i \in DOMAIN a.files_ |-> EmptyRoot(WithV2Data(a.files_[i]))] ELSE a.files_
           t == PrepareVerifying(s, p)
<1>1. Fresh(a, m)
  BY AlignedFresh
<1>2. t = [a EXCEPT !.pieces_ = pieces, !.files_ = files]
  BY Zenon DEF PrepareVerifying, EmptyRoot
<1> HIDE DEF a, t
<1>3. HasFiles(a, n) /\ n \in Nat /\ DOMAIN a.files_ = 1 .. n
  BY <1>1, VectorFacts DEF Fresh, HasFiles
<1>4. IsVector(files, n)
  BY <1>3 DEF IsVector, HasFiles
<1>5. ASSUME NEW i \in 1 .. n PROVE IsEntry(files[i]) /\ SameCore(files[i], a.files_[i])
  <2>1. IsEntry(a.files_[i])
    BY <1>3 DEF HasFiles
  <2>2. CASE "v2" \in p
    <3> DEFINE e == a.files_[i]
    <3>1. files[i] = EmptyRoot(WithV2Data(e))
      BY <1>3, <2>2
    <3> HIDE DEF e, files
    <3>2. IsEntry(e)
      BY <2>1 DEF e
    <3>3. IsEntry(files[i]) /\ SameCore(files[i], e)
      BY <3>1, <3>2, MetafileEntry
    <3> QED
      BY <3>3 DEF e
  <2>3. CASE "v2" \notin p
    BY <2>1, <2>3 DEF SameCore
  <2> QED
    BY <2>2, <2>3
<1> HIDE DEF files, pieces
<1>6. IsStorage(t) /\ t.files_ = files
  BY <1>2, <1>3 DEF HasFiles, IsStorage
<1>7. Len(files) = n
  BY <1>3, <1>4, VectorFacts
<1> HIDE DEF n
<1>8. \A i \in 1 .. n : /\ files[i].file_size_ \in Nat
                        /\ ~is_padding_file(files[i]) => files[i].path_ \in 1 .. m
  BY <1>1, <1>3, <1>5 DEF Fresh, FreshEntry, SameCore, is_padding_file, n
<1>9. HasFiles(t, n)
  BY <1>3, <1>4, <1>5, <1>6, <1>7, <1>8 DEF HasFiles
<1> QED
  BY <1>6, <1>7, <1>8, <1>9 DEF Prepared, t

(* What a job starts with.                                                 *)
Started ==
    /\ ~job.verify => \A i \in 1 .. FileCount : ~storage.files_[i].has_v2_data_
    /\ ~V1Reader => /\ trees = initialize_trees(storage)
                    /\ file_blocks_hashed_ = [i \in 1 .. FileCount |-> 0]
    /\ reader = "files" /\ file_index_ = 0 /\ chunks = <<>>
    /\ \A w \in Workers : pushing[w] = <<>>

(* The states a job may start in.                                          *)
InitFor(p, isal, multi, verify, sum, size) ==
        LET n == Len(size)
            entries == [i \in 1 .. n |-> file_entry(i, size[i], NoAttributes, 0)]
            s == set_piece_size(add_files(EmptyStorage, entries), PieceSize)
        IN  /\ multi => isal
            /\ isal => p # {"v1"} /\ ~sum    \* v1 pieces and checksums do not depend on it
            /\ verify => ~sum
            /\ job = [protocol |-> p, isal |-> isal, multi |-> multi, verify |-> verify, sum |-> sum]
            /\ disk \in [1 .. n -> IF verify THEN DiskStates ELSE {"ok"}]
            /\ Cardinality({i \in 1 .. n : disk[i] # "ok"}) <= MaxDamaged
            /\ storage = IF verify THEN PrepareVerifying(s, p) ELSE PrepareHashing(s, p)
            /\ trees = IF p = {"v1"} THEN <<>> ELSE initialize_trees(storage)
            /\ file_blocks_hashed_ = [i \in DOMAIN trees |-> 0]
            /\ piece_map_ = [i \in 1 .. IF ~verify THEN 0
                                        ELSE IF p = {"v1"} THEN piece_count(storage)
                                        ELSE FirstEntry(FileCount) |-> FALSE]
            /\ reader = "files" /\ f_ = 0 /\ file_index_ = 0 /\ piece_index_ = 0 /\ chunk_ = <<>>
            /\ chunks = <<>> /\ sums = <<>>
            /\ pushing = [w \in Workers |-> <<>>]
            /\ bytes_done_ = 0
            /\ current_file_index_ = 0 /\ hashed = <<>>
            /\ terminated = "no"

(* Init makes the shape, with nothing read, hashed or taken.               *)
LEMMA InitShape == Init => Shape /\ Started
<1> SUFFICES ASSUME Init PROVE Shape /\ Started
  OBVIOUS
<1>0. PICK p \in Protocols, isal \in Builds, multi \in BOOLEAN, verify, sum \in BOOLEAN :
        \E size \in Layouts : InitFor(p, isal, multi, verify, sum, size)
  BY DEF Init, InitFor
<1>1. PICK size \in Layouts : InitFor(p, isal, multi, verify, sum, size)
  BY <1>0
<1>2. /\ job = [protocol |-> p, isal |-> isal, multi |-> multi, verify |-> verify, sum |-> sum]
      /\ disk \in [1 .. Len(size) -> IF verify THEN DiskStates ELSE {"ok"}]
      /\ storage = IF verify THEN PrepareVerifying(Built(size), p) ELSE PrepareHashing(Built(size), p)
      /\ trees = IF p = {"v1"} THEN <<>> ELSE initialize_trees(storage)
      /\ reader = "files" /\ f_ = 0 /\ file_index_ = 0 /\ piece_index_ = 0 /\ chunk_ = <<>>
      /\ chunks = <<>> /\ sums = <<>> /\ pushing = [w \in Workers |-> <<>>]
      /\ file_blocks_hashed_ = [i \in DOMAIN trees |-> 0]
  BY <1>1 DEF InitFor, Built, Entries
<1> DEFINE m == Len(size)
<1>3. m \in Nat /\ Fresh(Built(size), m)
  BY LayoutAssumption, BuiltFresh
<1>4. JobOK /\ job.protocol = p /\ job.verify = verify
  BY <1>2, LayoutAssumption DEF JobOK
<1> HIDE DEF m
<1>5. Prepared(storage, m) /\ (~verify => \A i \in 1 .. FileCount : ~storage.files_[i].has_v2_data_)
  <2>1. CASE verify
    BY <1>2, <1>3, <2>1, VerifyingPrepared
  <2>2. CASE ~verify
    <3>1. Fresh(storage, m)
      BY <1>2, <1>3, <2>2, HashingPrepared
    <3> QED
      BY <3>1 DEF Fresh, Prepared, FreshEntry, FileCount, file_count
  <2> QED
    BY <2>1, <2>2
<1>6. HasFiles(storage, FileCount) /\ FileCount \in Nat /\ DOMAIN storage.files_ = 1 .. FileCount
  BY <1>5, VectorFacts DEF Prepared, FileCount, file_count, HasFiles
<1>7. PathsOK
  <2> SUFFICES ASSUME NEW i \in 1 .. FileCount, ~is_padding_file(storage.files_[i])
               PROVE  storage.files_[i].path_ \in Nat /\ (~job.verify => disk[storage.files_[i].path_] = "ok")
    BY DEF PathsOK
  <2>1. storage.files_[i].path_ \in 1 .. m
    BY <1>5 DEF Prepared, FileCount, file_count
  <2>2. ~verify => disk \in [1 .. m -> {"ok"}]
    BY <1>2 DEF m
  <2> QED
    BY <1>3, <1>4, <2>1, <2>2
<1>8. ReaderShape
  BY <1>2, <1>6, SizeFacts, EmptyIsSeq DEF ReaderShape
<1>9. QueuesOK
  BY <1>2, EmptyIsSeq DEF QueuesOK
<1>10. ~V1Reader => /\ trees = initialize_trees(storage) /\ IsVector(trees, FileCount)
                    /\ file_blocks_hashed_ = [i \in 1 .. FileCount |-> 0]
                    /\ IsVector(file_blocks_hashed_, FileCount)
  BY <1>2, <1>4, <1>6 DEF initialize_trees, IsVector, V1Reader
<1>11. V1Reader => trees = <<>> /\ file_blocks_hashed_ = <<>>
  BY <1>2, <1>4 DEF V1Reader
<1>12. Shape
  BY <1>4, <1>6, <1>7, <1>8, <1>9, <1>10, <1>11 DEF Shape, TreesOK
<1>13. Started
  BY <1>2, <1>4, <1>5, <1>10 DEF Started
<1> QED
  BY <1>12, <1>13

-----------------------------------------------------------------------------
(* Where the elements of a concatenation come from.                        *)
LEMMA ConcatElements ==
    ASSUME NEW s, NEW t, IsSeq(s), IsSeq(t), NEW k \in 1 .. Len(s \o t)
    PROVE  \/ k \in 1 .. Len(s) /\ (s \o t)[k] = s[k]
           \/ \E l \in 1 .. Len(t) : k = Len(s) + l /\ (s \o t)[k] = t[l]
<1>1. Len(s) \in Nat /\ Len(t) \in Nat
  BY DEF IsSeq
<1>2. CASE k <= Len(s)
  BY <1>1, <1>2, ConcatFacts
<1>3. CASE ~(k <= Len(s))
  <2> DEFINE l == k - Len(s)
  <2>1. k = Len(s) + l /\ l \in 1 .. Len(t)
    BY <1>1, <1>3, ConcatFacts
  <2> HIDE DEF l
  <2> QED
    BY <2>1, ConcatFacts
<1> QED
  BY <1>2, <1>3

ChunksShape(q) == IsSeq(q) /\ \A k \in 1 .. Len(q) : ChunkShape(q[k])
PiecesShape(q) == IsSeq(q) /\ \A k \in 1 .. Len(q) : PieceShape(q[k])

(* Appending chunks of the right shape.                                    *)
LEMMA ConcatChunks ==
    ASSUME NEW s, NEW t, ChunksShape(s), ChunksShape(t) PROVE ChunksShape(s \o t)
  BY ConcatFacts, ConcatElements DEF ChunksShape

(* Appending pieces of the right shape.                                    *)
LEMMA ConcatPieces ==
    ASSUME NEW s, NEW t, PiecesShape(s), PiecesShape(t) PROVE PiecesShape(s \o t)
  BY ConcatFacts, ConcatElements DEF PiecesShape

(* Submit keeps the shape of both queues.                                  *)
LEMMA SubmitShape ==
    ASSUME QueuesOK, NEW pushed, ChunksShape(pushed), Submit(pushed)
    PROVE  ChunksShape(chunks') /\ ChunksShape(sums')
<1>1. ChunksShape(chunks) /\ ChunksShape(sums)
  BY DEF QueuesOK, ChunksShape
<1>2. ChunksShape(chunks \o pushed) /\ ChunksShape(sums \o pushed)
  BY <1>1, ConcatChunks
<1> QED
  BY <1>1, <1>2 DEF Submit

(* The chunks the readers make have it.                                    *)
LEMMA OneChunk ==
    ASSUME NEW piece \in Nat, NEW file \in 0 .. FileCount, ~V1Reader => file < FileCount, NEW data, IsSeq(data)
    PROVE  ChunksShape(<<Chunk(piece, file, data)>>) /\ ChunksShape(<<NullChunk(piece, file)>>)
<1>1. ChunkShape(Chunk(piece, file, data)) /\ ChunkShape(NullChunk(piece, file))
  BY EmptyIsSeq DEF ChunkShape, Chunk, NullChunk
<1> HIDE DEF ChunkShape
<1> QED
  BY <1>1, SingleIsSeq DEF ChunksShape

(* So have empty queues.                                                   *)
LEMMA NoChunk == ChunksShape(<<>>) /\ PiecesShape(<<>>)
  BY EmptyIsSeq DEF ChunksShape, PiecesShape

(* The storage and the files behind it.                                    *)
LEMMA StorageStep ==
    ASSUME Shape, Next PROVE SameFiles /\ UNCHANGED <<job, disk>>
<1>1. UNCHANGED <<job, disk>>
  BY DEF Next, Reader, handle_missing_file, SkipPadding, MissingFile2, Open, Read1, Read2, ReaderEnd,
         ChecksumChunk, HashChunk, PushPiece
<1>2. CASE Reader
  <2>1. UNCHANGED storage
    BY <1>2 DEF Reader, handle_missing_file, SkipPadding, MissingFile2, Open, Read1, Read2, ReaderEnd, wvars
  <2> QED
    BY <1>1, <2>1, StorageUnchanged
<1>3. CASE ChecksumChunk
  BY <1>1, <1>3, ChecksumStorage
<1>4. ASSUME NEW w \in Workers, HashChunk(w) PROVE SameFiles
  <2>1. UNCHANGED storage
    BY <1>4 DEF HashChunk, wvars
  <2> QED
    BY <2>1, StorageUnchanged
<1>5. ASSUME NEW w \in Workers, PushPiece(w) PROVE SameFiles
  <2> DEFINE p == Head(pushing[w])
  <2>1. TakeLeaf(p) \/ TakePiece(p)
    BY <1>5 DEF PushPiece
  <2> HIDE DEF p
  <2>2. CASE TakePiece(p)
    BY <2>2, TakePieceStorage
  <2>3. CASE TakeLeaf(p)
    <3>1. UNCHANGED storage \/ \E tree : set_piece_layers_and_root(p.file, tree)
      BY <2>3, Zenon DEF TakeLeaf, wvars
    <3>2. CASE UNCHANGED storage
      BY <3>2, StorageUnchanged
    <3>3. ASSUME NEW tree, set_piece_layers_and_root(p.file, tree) PROVE SameFiles
      BY <3>3, SetLayersStorage
    <3> QED
      BY <3>1, <3>2, <3>3
  <2> QED
    BY <2>1, <2>2, <2>3
<1> QED
  BY <1>1, <1>2, <1>3, <1>4, <1>5 DEF Next

KeepsShape == Shape' /\ FileCount' = FileCount /\ Layout' = Layout /\ V1Reader' = V1Reader

(* The shape of everything that does not follow from the files.            *)
LEMMA ShapeFrom ==
    ASSUME Shape, SameFiles, UNCHANGED <<job, disk>>,
           reader' \in {"files", "reading", "exited"}, f_' \in Nat, piece_index_' \in Nat,
           file_index_' \in 0 .. FileCount,
           reader' = "reading" => IF V1Reader THEN file_index_' > 0 ELSE file_index_' < FileCount,
           IsSeq(chunk_'), Len(chunk_') < ChunkSize,
           ChunksShape(chunks'), ChunksShape(sums'),
           pushing' = [w \in Workers |-> pushing'[w]], \A w \in Workers : PiecesShape(pushing'[w]),
           V1Reader => UNCHANGED <<trees, file_blocks_hashed_>>,
           ~V1Reader => IsVector(trees', FileCount) /\ IsVector(file_blocks_hashed_', FileCount)
    PROVE  KeepsShape
<1>1. /\ HasFiles(storage, FileCount)' /\ FileCount' = FileCount
      /\ PathsOK' /\ Layout' = Layout
  BY LayoutKept
<1>2. JobOK' /\ V1Reader' = V1Reader
  BY DEF Shape, JobOK, V1Reader
<1>3. ReaderShape'
  BY <1>1, <1>2 DEF ReaderShape
<1>4. QueuesOK'
  <2>1. /\ \A c : ChunkShape(c)' <=> ChunkShape(c)
        /\ \A p : PieceShape(p)' <=> PieceShape(p)
    BY <1>1, <1>2 DEF ChunkShape, PieceShape
  <2> QED
    BY <1>1, <1>2 DEF QueuesOK, ChunksShape, PiecesShape, ChunkShape, PieceShape
<1>5. TreesOK'
  BY <1>1, <1>2 DEF TreesOK, Shape
<1> QED
  BY <1>1, <1>2, <1>3, <1>4, <1>5 DEF Shape, KeepsShape

(* What an action that leaves the queues and trees alone keeps.            *)
LEMMA ShapeParts ==
    ASSUME Shape
    PROVE  /\ ChunksShape(chunks) /\ ChunksShape(sums)
           /\ pushing = [w \in Workers |-> pushing[w]] /\ \A w \in Workers : PiecesShape(pushing[w])
           /\ reader \in {"files", "reading", "exited"} /\ f_ \in Nat /\ piece_index_ \in Nat
           /\ file_index_ \in 0 .. FileCount /\ IsSeq(chunk_) /\ Len(chunk_) < ChunkSize
           /\ ~V1Reader => IsVector(trees, FileCount) /\ IsVector(file_blocks_hashed_, FileCount)
           /\ FileCount \in Nat /\ QueuesOK
           /\ \A f \in 0 .. FileCount - 1 : IsEntry(File(f)) /\ File(f).file_size_ \in Nat
<1>1. \A f \in 0 .. FileCount - 1 : IsEntry(File(f)) /\ File(f).file_size_ \in Nat
  BY DEF Shape, HasFiles, File
<1> QED
  BY <1>1 DEF Shape, QueuesOK, ChunksShape, PiecesShape, ReaderShape, TreesOK, HasFiles

(* A sequence of zeros.                                                    *)
LEMMA ZerosFacts ==
    ASSUME NEW n \in Nat PROVE IsSeq([i \in 1 .. n |-> 0]) /\ Len([i \in 1 .. n |-> 0]) = n
<1>1. ASSUME NEW z, z = [i \in 1 .. n |-> 0] PROVE IsSeq(z) /\ Len(z) = n
  <2>1. IsVector(z, n)
    BY <1>1 DEF IsVector
  <2> QED
    BY <2>1, VectorIsSeq
<1> QED
  BY <1>1

(* handle_missing_file keeps the shape.                                    *)
LEMMA MissingFileShape ==
    ASSUME Shape, handle_missing_file
    PROVE  KeepsShape
<1> DEFINE e == File(file_index_)
           room == ChunkSize - Len(chunk_)
           fill == IF chunk_ = <<>> THEN 0
                   ELSE IF room < e.file_size_ THEN room ELSE e.file_size_
           zeros == [i \in 1 .. fill |-> 0]
           filled == chunk_ \o zeros
           full == Len(filled) = ChunkSize
           first == IF full THEN piece_index_ + ChunkSize \div PieceSize ELSE piece_index_
           missing == e.file_size_ - fill
           nulls == missing \div PieceSize
           behind == [i \in 1 .. missing % PieceSize |-> 0]
           one == IF full THEN <<Chunk(piece_index_, file_index_, filled)>> ELSE <<>>
           many == [i \in 1 .. nulls |-> NullChunk(first + i - 1, file_index_)]
           start == IF full THEN <<>> ELSE filled
<1>1. /\ file_index_ < FileCount /\ V1Reader /\ reader = "files"
      /\ Submit(one \o many) /\ piece_index_' = first + nulls
      /\ chunk_' = start \o behind
      /\ file_index_' = file_index_ + 1
      /\ UNCHANGED <<job, disk, reader, f_, pushing, trees, file_blocks_hashed_, storage>>
  BY DEF handle_missing_file, AtFile, wvars
<1>2. /\ FileCount \in Nat /\ file_index_ \in 0 .. FileCount - 1 /\ piece_index_ \in Nat
      /\ IsSeq(chunk_) /\ Len(chunk_) \in Nat /\ Len(chunk_) < ChunkSize /\ QueuesOK
      /\ e.file_size_ \in Nat
  <2>1. FileCount \in Nat /\ file_index_ \in 0 .. FileCount /\ piece_index_ \in Nat
        /\ IsSeq(chunk_) /\ Len(chunk_) < ChunkSize /\ QueuesOK
    BY ShapeParts, Zenon
  <2>2. \A f \in 0 .. FileCount - 1 : File(f).file_size_ \in Nat
    BY ShapeParts, Zenon
  <2>3. file_index_ < FileCount
    BY <1>1, Zenon
  <2> HIDE DEF e
  <2>4. file_index_ \in 0 .. FileCount - 1
    BY <2>1, <2>3
  <2>5. Len(chunk_) \in Nat
    BY <2>1 DEF IsSeq
  <2>6. e.file_size_ \in Nat
    BY <2>2, <2>4, Zenon DEF e
  <2> QED
    BY <2>1, <2>4, <2>5, <2>6, Zenon
<1>3. room \in Nat \ {0} /\ room + Len(chunk_) = ChunkSize
  BY <1>2, Positive
<1> HIDE DEF e, room
<1>4. /\ fill \in Nat /\ fill <= room /\ missing \in Nat
      /\ chunk_ # <<>> /\ fill < room => missing = 0
  BY <1>2, <1>3
<1> HIDE DEF fill, missing
<1>5. IsSeq(zeros) /\ Len(zeros) = fill
  BY <1>4, ZerosFacts
<1> HIDE DEF zeros
<1>6. IsSeq(filled) /\ Len(filled) = Len(chunk_) + fill
  BY <1>2, <1>5, ConcatFacts
<1>7. nulls \in Nat /\ missing % PieceSize \in Nat /\ missing % PieceSize < PieceSize
  BY <1>4, Positive
<1>8. IsSeq(behind) /\ Len(behind) = missing % PieceSize
  <2> DEFINE k == missing % PieceSize
  <2>1. k \in Nat
    BY <1>7
  <2> HIDE DEF k
  <2>2. IsSeq([i \in 1 .. k |-> 0]) /\ Len([i \in 1 .. k |-> 0]) = k
    BY <2>1, ZerosFacts
  <2> QED
    BY <2>2 DEF k
<1> HIDE DEF filled, nulls, behind
<1>9. first \in Nat
  BY <1>2, Positive
<1>10. IsSeq(start)
  BY <1>6, EmptyIsSeq
<1>11. IsSeq(chunk_') /\ Len(chunk_') < ChunkSize
  <2>1. IsSeq(chunk_') /\ Len(chunk_') = Len(start) + Len(behind)
    BY <1>1, <1>8, <1>10, ConcatFacts
  <2>2. PieceSize <= ChunkSize
    BY Positive
  <2>3. CASE full
    BY <1>7, <1>8, <2>1, <2>2, <2>3, Positive, EmptyIsSeq
  <2>4. CASE ~full
    <3>1. fill < room
      BY <1>2, <1>3, <1>4, <1>6, <2>4, Positive
    <3>2. CASE chunk_ # <<>>
      <4>1. missing = 0 /\ 0 % PieceSize = 0
        BY <1>4, <3>1, <3>2, Positive
      <4> QED
        BY <1>2, <1>3, <1>4, <1>6, <1>8, <2>1, <2>4, <3>1, <4>1, Positive
    <3>3. CASE chunk_ = <<>>
      <4>1. fill = 0
        BY <3>3 DEF fill
      <4>2. Len(start) = 0
        BY <1>6, <2>4, <3>3, <4>1, EmptyIsSeq
      <4> QED
        BY <1>7, <1>8, <2>1, <2>2, <4>2, Positive
    <3> QED
      BY <3>2, <3>3
  <2> QED
    BY <2>3, <2>4
<1>12. ChunksShape(one)
  <2>1. ChunksShape(<<Chunk(piece_index_, file_index_, filled)>>)
    <3>1. V1Reader /\ piece_index_ \in Nat /\ file_index_ \in 0 .. FileCount /\ IsSeq(filled)
      BY <1>1, <1>2, <1>6
    <3> HIDE DEF full, one, many, first, start
    <3> QED
      BY <3>1, OneChunk
  <2> QED
    BY <2>1, NoChunk
<1>13. ChunksShape(many)
  <2>1. IsVector(many, nulls)
    BY DEF IsVector
  <2>2. IsSeq(many) /\ Len(many) = nulls
    <3> HIDE DEF many
    <3> QED
      BY <1>7, <2>1, VectorIsSeq
  <2>3. \A i \in 1 .. nulls : ChunkShape(many[i])
    <3> SUFFICES ASSUME NEW i \in 1 .. nulls PROVE ChunkShape(many[i])
      OBVIOUS
    <3> HIDE DEF first
    <3>1. first + i - 1 \in Nat /\ many[i] = NullChunk(first + i - 1, file_index_)
      BY <1>7, <1>9
    <3> HIDE DEF many
    <3> QED
      BY <1>1, <1>2, <3>1, EmptyIsSeq DEF ChunkShape, NullChunk
  <2> HIDE DEF many
  <2> QED
    BY <2>2, <2>3 DEF ChunksShape
<1> HIDE DEF one, many
<1>14. ChunksShape(chunks') /\ ChunksShape(sums')
  <2>1. ChunksShape(one \o many)
    BY <1>12, <1>13, ConcatChunks
  <2>2. Submit(one \o many) /\ QueuesOK
    BY <1>1, <1>2
  <2> QED
    BY <2>1, <2>2, SubmitShape
<1>15. SameFiles
  BY <1>1, StorageUnchanged
<1>16. piece_index_' \in Nat
  <2> HIDE DEF first
  <2> QED
    BY <1>1, <1>7, <1>9
<1>17. /\ UNCHANGED <<job, disk>> /\ reader' \in {"files", "reading", "exited"} /\ reader' # "reading"
       /\ f_' \in Nat /\ file_index_' \in 0 .. FileCount
       /\ pushing' = [w \in Workers |-> pushing'[w]] /\ \A w \in Workers : PiecesShape(pushing'[w])
       /\ V1Reader /\ UNCHANGED <<trees, file_blocks_hashed_>>
  BY <1>1, <1>2, ShapeParts
<1> QED
  BY <1>11, <1>14, <1>15, <1>16, <1>17, ShapeFrom

(* So do skipping padding and opening a file,                              *)
LEMMA OpenShape ==
    ASSUME Shape, SkipPadding \/ Open PROVE KeepsShape
<1>1. /\ file_index_ < FileCount
      /\ UNCHANGED <<job, disk, chunk_, chunks, sums, pushing, trees, file_blocks_hashed_, storage>>
      /\ reader' \in {"files", "reading", "exited"} /\ f_' \in {0, f_} /\ piece_index_' \in {0, piece_index_}
      /\ file_index_' \in {file_index_, file_index_ + 1}
      /\ reader' = "reading" => IF V1Reader THEN file_index_' = file_index_ + 1 ELSE file_index_' = file_index_
  BY ShapeParts DEF SkipPadding, Open, AtFile, wvars
<1>2. SameFiles
  BY <1>1, StorageUnchanged
<1>3. /\ UNCHANGED <<job, disk>> /\ f_' \in Nat /\ piece_index_' \in Nat /\ file_index_' \in 0 .. FileCount
      /\ reader' = "reading" => IF V1Reader THEN file_index_' > 0 ELSE file_index_' < FileCount
      /\ IsSeq(chunk_') /\ Len(chunk_') < ChunkSize
      /\ pushing' = [w \in Workers |-> pushing'[w]] /\ \A w \in Workers : PiecesShape(pushing'[w])
      /\ V1Reader => UNCHANGED <<trees, file_blocks_hashed_>>
      /\ ~V1Reader => IsVector(trees', FileCount) /\ IsVector(file_blocks_hashed_', FileCount)
      /\ ChunksShape(chunks') /\ ChunksShape(sums')
  BY <1>1, ShapeParts
<1> QED
  BY <1>1, <1>2, <1>3, ShapeFrom

(* a read of the v1 reader,                                                *)
LEMMA Read1Shape ==
    ASSUME Shape, Read1 PROVE KeepsShape
<1> DEFINE content == OnDisk(File(file_index_ - 1))
           room == ChunkSize - Len(chunk_)
           got == Got(content, room)
           data == chunk_ \o got
<1>1. /\ reader = "reading" /\ V1Reader /\ f_' = f_ + Len(got)
      /\ reader' \in {"files", "reading"}
      /\ IF Len(data) = ChunkSize
         THEN /\ Submit(<<Chunk(piece_index_, file_index_, data)>>)
              /\ piece_index_' = piece_index_ + ChunkSize \div PieceSize
              /\ chunk_' = <<>>
         ELSE chunk_' = data /\ UNCHANGED <<chunks, sums, piece_index_>>
      /\ UNCHANGED <<job, disk, file_index_, pushing, trees, file_blocks_hashed_, storage>>
  BY DEF Read1, wvars
<1>2. /\ FileCount \in Nat /\ file_index_ \in 1 .. FileCount /\ piece_index_ \in Nat /\ f_ \in Nat
      /\ IsSeq(chunk_) /\ Len(chunk_) \in Nat /\ Len(chunk_) < ChunkSize /\ QueuesOK
  BY <1>1, ShapeParts DEF Shape, ReaderShape, IsSeq
<1>3. IsSeq(content)
  <2> DEFINE e == File(file_index_ - 1)
  <2>1. e.file_size_ \in Nat
    BY <1>2, ShapeParts
  <2> HIDE DEF e
  <2>2. IsSeq(OnDisk(e))
    BY <2>1, OnDiskFacts
  <2> QED
    BY <2>2 DEF e
<1>4. room \in Nat
  BY <1>2, Positive
<1> HIDE DEF content, room
<1>5. IsSeq(got) /\ Len(got) <= room /\ Len(got) \in Nat
  BY <1>2, <1>3, <1>4, GotFacts DEF IsSeq
<1> HIDE DEF got
<1>6. IsSeq(data) /\ Len(data) = Len(chunk_) + Len(got)
  BY <1>2, <1>5, ConcatFacts
<1>7. Len(data) <= ChunkSize /\ Len(data) \in Nat
  BY <1>2, <1>4, <1>5, <1>6, Positive DEF room
<1> HIDE DEF data
<1>8. ChunksShape(<<Chunk(piece_index_, file_index_, data)>>)
  <2>1. V1Reader /\ piece_index_ \in Nat /\ file_index_ \in 0 .. FileCount /\ IsSeq(data)
    BY <1>1, <1>2, <1>6
  <2> QED
    BY <2>1, OneChunk
<1>9. /\ ChunksShape(chunks') /\ ChunksShape(sums') /\ piece_index_' \in Nat
      /\ IsSeq(chunk_') /\ Len(chunk_') < ChunkSize
  <2>1. CASE Len(data) = ChunkSize
    <3>1. Submit(<<Chunk(piece_index_, file_index_, data)>>) /\ chunk_' = <<>>
      BY <1>1, <2>1
    <3>2. ChunksShape(chunks') /\ ChunksShape(sums')
      BY <1>2, <1>8, <3>1, SubmitShape
    <3>3. IsSeq(chunk_') /\ Len(chunk_') < ChunkSize
      BY <3>1, EmptyIsSeq, Positive
    <3>4. piece_index_' \in Nat
      BY <1>1, <1>2, <2>1, Positive
    <3> QED
      BY <3>2, <3>3, <3>4
  <2>2. CASE Len(data) # ChunkSize
    BY <1>1, <1>2, <1>6, <1>7, <2>2, ShapeParts, Positive, SMTT(30)
  <2> QED
    BY <2>1, <2>2
<1>10. SameFiles
  BY <1>1, StorageUnchanged
<1>11. /\ UNCHANGED <<job, disk>> /\ reader' \in {"files", "reading", "exited"} /\ file_index_' > 0
       /\ f_' \in Nat /\ file_index_' \in 0 .. FileCount
       /\ pushing' = [w \in Workers |-> pushing'[w]] /\ \A w \in Workers : PiecesShape(pushing'[w])
       /\ V1Reader /\ UNCHANGED <<trees, file_blocks_hashed_>>
  BY <1>1, <1>2, <1>5, ShapeParts
<1> QED
  BY <1>9, <1>10, <1>11, ShapeFrom

(* v2_chunk_reader::push,                                                  *)
LEMMA Push2Shape ==
    ASSUME Shape, NEW piece, NEW file, NEW chunk, ChunksShape(<<chunk>>), Push2(piece, file, chunk)
    PROVE  ChunksShape(chunks') /\ ChunksShape(sums')
  BY ShapeParts, SubmitShape DEF Push2

(* a missing file of the v2 reader,                                        *)
LEMMA MissingFile2Shape ==
    ASSUME Shape, MissingFile2 PROVE KeepsShape
<1> DEFINE c == NullChunk(0, file_index_)
<1>1. /\ file_index_ < FileCount /\ ~V1Reader /\ reader = "files"
      /\ Push2(0, file_index_, c) /\ file_index_' = file_index_ + 1
      /\ UNCHANGED <<job, disk, reader, f_, piece_index_, chunk_, pushing, trees, file_blocks_hashed_, storage>>
  BY DEF MissingFile2, AtFile, wvars
<1>2. ChunksShape(<<c>>)
  <2>1. 0 \in Nat /\ file_index_ \in 0 .. FileCount /\ IsSeq(<<>>)
    BY ShapeParts, EmptyIsSeq
  <2> QED
    BY <1>1, <2>1, OneChunk
<1> HIDE DEF c
<1>3. ChunksShape(chunks') /\ ChunksShape(sums')
  BY <1>1, <1>2, Push2Shape
<1>4. SameFiles
  BY <1>1, StorageUnchanged
<1>5. /\ UNCHANGED <<job, disk>> /\ reader' \in {"files", "reading", "exited"} /\ reader' # "reading"
      /\ f_' \in Nat /\ file_index_' \in 0 .. FileCount /\ piece_index_' \in Nat
      /\ IsSeq(chunk_') /\ Len(chunk_') < ChunkSize
      /\ pushing' = [w \in Workers |-> pushing'[w]] /\ \A w \in Workers : PiecesShape(pushing'[w])
      /\ ~V1Reader /\ IsVector(trees', FileCount) /\ IsVector(file_blocks_hashed_', FileCount)
  BY <1>1, ShapeParts
<1> QED
  BY <1>3, <1>4, <1>5, ShapeFrom

(* a read of the v2 reader                                                 *)
LEMMA Read2Shape ==
    ASSUME Shape, Read2 PROVE KeepsShape
<1> DEFINE content == OnDisk(File(file_index_))
           data == Got(content, ChunkSize)
           last == Eof(content, ChunkSize)
           c == Chunk(piece_index_, file_index_, data)
<1>1. /\ ~V1Reader /\ reader = "reading"
      /\ Push2(piece_index_, file_index_, c) /\ f_' = f_ + Len(data)
      /\ piece_index_' = piece_index_ + ChunkSize \div PieceSize
      /\ reader' = IF last THEN "files" ELSE "reading"
      /\ file_index_' = IF last THEN file_index_ + 1 ELSE file_index_
      /\ UNCHANGED <<job, disk, chunk_, pushing, trees, file_blocks_hashed_, storage>>
  BY DEF Read2, wvars
<1>2. file_index_ \in 0 .. FileCount - 1 /\ f_ \in Nat /\ piece_index_ \in Nat /\ FileCount \in Nat
  BY <1>1, ShapeParts DEF Shape, ReaderShape
<1>3. IsSeq(content)
  <2> DEFINE e == File(file_index_)
  <2>1. e.file_size_ \in Nat
    BY <1>2, ShapeParts
  <2> HIDE DEF e
  <2>2. IsSeq(OnDisk(e))
    BY <2>1, OnDiskFacts
  <2> QED
    BY <2>2 DEF e
<1> HIDE DEF content
<1>4. IsSeq(data) /\ Len(data) \in Nat
  BY <1>2, <1>3, Positive, GotFacts DEF IsSeq
<1> HIDE DEF data, last
<1>5. ChunksShape(<<c>>)
  <2>1. /\ piece_index_ \in Nat /\ file_index_ \in 0 .. FileCount /\ file_index_ < FileCount
        /\ IsSeq(data)
    BY <1>2, <1>4
  <2> QED
    BY <2>1, OneChunk
<1> HIDE DEF c
<1>6. ChunksShape(chunks') /\ ChunksShape(sums')
  BY <1>1, <1>5, Push2Shape
<1>7. SameFiles
  BY <1>1, StorageUnchanged
<1>8. /\ UNCHANGED <<job, disk>> /\ reader' \in {"files", "reading", "exited"}
      /\ reader' = "reading" => file_index_' < FileCount
      /\ f_' \in Nat /\ file_index_' \in 0 .. FileCount /\ piece_index_' \in Nat
      /\ IsSeq(chunk_') /\ Len(chunk_') < ChunkSize
      /\ pushing' = [w \in Workers |-> pushing'[w]] /\ \A w \in Workers : PiecesShape(pushing'[w])
      /\ ~V1Reader /\ IsVector(trees', FileCount) /\ IsVector(file_blocks_hashed_', FileCount)
  BY <1>1, <1>2, <1>4, ShapeParts, Positive, SMTT(30)
<1> QED
  BY <1>6, <1>7, <1>8, ShapeFrom

(* and the end of the reader.                                              *)
LEMMA ReaderEndShape ==
    ASSUME Shape, ReaderEnd PROVE KeepsShape
<1> DEFINE last == V1Reader /\ chunk_ # <<>>
           c == Chunk(piece_index_, file_index_, chunk_)
<1>1. /\ reader' = "exited" /\ chunk_' = <<>>
      /\ IF last THEN Submit(<<c>>) ELSE UNCHANGED <<chunks, sums>>
      /\ piece_index_' = piece_index_ + IF last THEN div_ceil(Len(chunk_), PieceSize) ELSE 0
      /\ UNCHANGED <<job, disk, f_, file_index_, pushing, trees, file_blocks_hashed_, storage>>
  BY DEF ReaderEnd, wvars
<1>2. piece_index_' \in Nat
  <2>1. Len(chunk_) \in Nat /\ piece_index_ \in Nat
    BY ShapeParts DEF IsSeq
  <2>2. div_ceil(Len(chunk_), PieceSize) \in Nat
    BY <2>1, Positive, CeilFacts
  <2> QED
    BY <1>1, <2>1, <2>2
<1>3. V1Reader => ChunksShape(<<c>>)
  BY ShapeParts, OneChunk
<1> HIDE DEF c
<1>4. ChunksShape(chunks') /\ ChunksShape(sums')
  BY <1>1, <1>3, ShapeParts, SubmitShape
<1>5. SameFiles
  BY <1>1, StorageUnchanged
<1>6. /\ UNCHANGED <<job, disk>> /\ reader' \in {"files", "reading", "exited"} /\ reader' # "reading"
      /\ f_' \in Nat /\ file_index_' \in 0 .. FileCount
      /\ IsSeq(chunk_') /\ Len(chunk_') < ChunkSize
      /\ pushing' = [w \in Workers |-> pushing'[w]] /\ \A w \in Workers : PiecesShape(pushing'[w])
      /\ V1Reader => UNCHANGED <<trees, file_blocks_hashed_>>
      /\ ~V1Reader => IsVector(trees', FileCount) /\ IsVector(file_blocks_hashed_', FileCount)
  BY <1>1, ShapeParts, EmptyIsSeq, Positive
<1> QED
  BY <1>2, <1>4, <1>5, <1>6, ShapeFrom

(* Popping a chunk ...                                                     *)
LEMMA TailChunks ==
    ASSUME NEW q, ChunksShape(q), q # <<>> PROVE ChunksShape(Tail(q)) /\ ChunkShape(Head(q))
<1>1. /\ IsSeq(q) /\ Len(q) \in Nat \ {0} /\ Head(q) = q[1] /\ IsSeq(Tail(q)) /\ Len(Tail(q)) = Len(q) - 1
      /\ \A k \in 1 .. Len(q) - 1 : Tail(q)[k] = q[k + 1]
  BY TailFacts DEF ChunksShape
<1>2. \A k \in 1 .. Len(q) - 1 : k + 1 \in 1 .. Len(q)
  BY <1>1
<1> QED
  BY <1>1, <1>2 DEF ChunksShape

(* ... and a piece.                                                        *)
LEMMA TailPieces ==
    ASSUME NEW q, PiecesShape(q), q # <<>> PROVE PiecesShape(Tail(q)) /\ PieceShape(Head(q))
<1>1. /\ IsSeq(q) /\ Len(q) \in Nat \ {0} /\ Head(q) = q[1] /\ IsSeq(Tail(q)) /\ Len(Tail(q)) = Len(q) - 1
      /\ \A k \in 1 .. Len(q) - 1 : Tail(q)[k] = q[k + 1]
  BY TailFacts DEF PiecesShape
<1>2. \A k \in 1 .. Len(q) - 1 : k + 1 \in 1 .. Len(q)
  BY <1>1
<1> QED
  BY <1>1, <1>2 DEF PiecesShape

(* The blocks a v2 hasher cuts a chunk into.                               *)
BlocksOf(c) == IF c.data = <<>> /\ ~job.multi THEN <<<<>>>> ELSE Cut(c.data, BlockSize)
FirstLeaf(piece) == (piece * PieceSize) \div BlockSize

(* A piece has pow2[LayerOffset] leaves.                                   *)
LEMMA FirstLeafFacts ==
    ASSUME NEW piece \in Nat PROVE FirstLeaf(piece) \in Nat /\ FirstLeaf(piece) = piece * pow2[LayerOffset]
<1>1. pow2[LayerOffset] \in Nat
  BY SizeFacts, Pow2Facts
<1>2. piece * PieceSize = BlockSize * (piece * pow2[LayerOffset])
  BY <1>1, SizeFacts
<1>3. \A x \in Nat : (BlockSize * x) \div BlockSize = x
  BY Positive
<1>4. piece * pow2[LayerOffset] \in Nat
  BY <1>1
<1> QED
  BY <1>2, <1>3, <1>4 DEF FirstLeaf

(* The leaves of a chunk, one for each of its blocks.                      *)
LEMMA BlocksOfFacts ==
    ASSUME NEW c, IsSeq(c.data)
    PROVE  /\ IsSeq(BlocksOf(c))
           /\ IsVector(LeavesOf(c), Len(BlocksOf(c)))
           /\ IsSeq(LeavesOf(c)) /\ Len(LeavesOf(c)) = Len(BlocksOf(c))
           /\ \A i \in 1 .. Len(BlocksOf(c)) :
                  LeavesOf(c)[i] = V2Leaf(FirstLeaf(c.piece_index) + i - 1, c.file_index, BlocksOf(c)[i])
<1>1. IsSeq(BlocksOf(c))
  BY CutFacts, SingleIsSeq, Positive DEF BlocksOf
<1>2. Len(BlocksOf(c)) \in Nat /\ DOMAIN BlocksOf(c) = 1 .. Len(BlocksOf(c))
  BY <1>1, SetOfSeq
<1>3. LeavesOf(c) = [i \in DOMAIN BlocksOf(c) |->
                        V2Leaf(FirstLeaf(c.piece_index) + i - 1, c.file_index, BlocksOf(c)[i])]
  BY DEF LeavesOf, BlocksOf, FirstLeaf
<1>4. IsVector(LeavesOf(c), Len(BlocksOf(c)))
  BY <1>2, <1>3 DEF IsVector
<1> QED
  BY <1>1, <1>2, <1>3, <1>4, VectorIsSeq

(* They have the shape of pieces,                                          *)
LEMMA LeavesShape ==
    ASSUME ~V1Reader, FileCount \in Nat, NEW c, ChunkShape(c) PROVE PiecesShape(LeavesOf(c))
<1>1. /\ IsSeq(LeavesOf(c)) /\ Len(LeavesOf(c)) = Len(BlocksOf(c)) /\ Len(BlocksOf(c)) \in Nat
      /\ \A i \in 1 .. Len(BlocksOf(c)) :
             LeavesOf(c)[i] = V2Leaf(FirstLeaf(c.piece_index) + i - 1, c.file_index, BlocksOf(c)[i])
  BY BlocksOfFacts DEF ChunkShape, IsSeq
<1>2. FirstLeaf(c.piece_index) \in Nat /\ c.file_index \in 0 .. FileCount - 1
  BY FirstLeafFacts DEF ChunkShape
<1>3. ASSUME NEW i \in 1 .. Len(BlocksOf(c)) PROVE PieceShape(LeavesOf(c)[i])
  <2> DEFINE j == FirstLeaf(c.piece_index) + i - 1
  <2>1. j \in Nat
    BY <1>1, <1>2
  <2>2. LeavesOf(c)[i] = V2Leaf(j, c.file_index, BlocksOf(c)[i])
    BY <1>1
  <2> HIDE DEF j
  <2> QED
    BY <1>2, <2>1, <2>2 DEF PieceShape, V2Leaf
<1> QED
  BY <1>1, <1>3 DEF PiecesShape

(* as v1 pieces have,                                                      *)
LEMMA V1PiecesShape ==
    ASSUME NEW c, ChunkShape(c)
    PROVE  /\ PiecesShape(V1HashChunk(c)) /\ PiecesShape(V1CompatiblePieces(c))
           /\ \A k \in 1 .. Len(V1CompatiblePieces(c)) : V1CompatiblePieces(c)[k].kind = "v1"
<1> DEFINE pieces == Cut(c.data, PieceSize)
           n == div_ceil(Len(c.data), PieceSize)
<1>1. n \in Nat /\ DOMAIN pieces = 1 .. n
  BY CutFacts, Positive DEF ChunkShape
<1>2. V1HashChunk(c) = [i \in 1 .. n |-> V1Piece(c.piece_index + i - 1, pieces[i])]
  BY <1>1 DEF V1HashChunk
<1>3. V1CompatiblePieces(c) =
        [i \in 1 .. n |-> V1Piece(v1_piece_offset(c.file_index) + c.piece_index + i - 1, Pad(c, pieces[i]))]
  BY <1>1 DEF V1CompatiblePieces
<1>4. ASSUME NEW q, IsVector(q, n), \A i \in 1 .. n : q[i].kind = "v1"
      PROVE  PiecesShape(q) /\ Len(q) = n
  BY <1>1, <1>4, VectorIsSeq DEF PiecesShape, PieceShape
<1> HIDE DEF n, pieces
<1>5. IsVector(V1HashChunk(c), n) /\ \A i \in 1 .. n : V1HashChunk(c)[i].kind = "v1"
  <2>1. ASSUME NEW q, q = [i \in 1 .. n |-> V1Piece(c.piece_index + i - 1, pieces[i])]
        PROVE  IsVector(q, n) /\ \A i \in 1 .. n : q[i].kind = "v1"
    BY <2>1 DEF IsVector, V1Piece
  <2> QED
    BY <1>2, <2>1
<1>6. IsVector(V1CompatiblePieces(c), n) /\ \A i \in 1 .. n : V1CompatiblePieces(c)[i].kind = "v1"
  <2> DEFINE o == v1_piece_offset(c.file_index)
  <2>1. ASSUME NEW q, q = [i \in 1 .. n |-> V1Piece(o + c.piece_index + i - 1, Pad(c, pieces[i]))]
        PROVE  IsVector(q, n) /\ \A i \in 1 .. n : q[i].kind = "v1"
    BY <2>1 DEF IsVector, V1Piece
  <2> QED
    BY <1>3, <2>1
<1> QED
  BY <1>4, <1>5, <1>6

(* and what a v2 hasher makes of a chunk.                                  *)
LEMMA V2HashShape ==
    ASSUME ~V1Reader, FileCount \in Nat, NEW c, ChunkShape(c) PROVE PiecesShape(V2HashChunk(c))
<1>1. PiecesShape(LeavesOf(c)) /\ PiecesShape(V1CompatiblePieces(c)) /\ PiecesShape(<<>>)
  BY LeavesShape, V1PiecesShape, NoChunk
<1> QED
  BY <1>1, ConcatPieces DEF V2HashChunk

(* hash_chunk keeps the shape,                                             *)
LEMMA HashChunkShape ==
    ASSUME Shape, NEW w \in Workers, HashChunk(w) PROVE KeepsShape
<1> DEFINE c == Head(chunks)
           q == IF c.null THEN <<>> ELSE IF V1Reader THEN V1HashChunk(c) ELSE V2HashChunk(c)
<1>1. /\ chunks # <<>> /\ chunks' = Tail(chunks)
      /\ UNCHANGED pushing \/ pushing' = [pushing EXCEPT ![w] = q]
      /\ UNCHANGED <<job, disk, reader, f_, file_index_, piece_index_, chunk_, sums, trees, file_blocks_hashed_, storage>>
  BY DEF HashChunk, wvars
<1>2. ChunksShape(chunks') /\ ChunkShape(c)
  BY <1>1, ShapeParts, TailChunks
<1> HIDE DEF c
<1>3. PiecesShape(q)
  BY <1>2, ShapeParts, NoChunk, V1PiecesShape, V2HashShape
<1> HIDE DEF q
<1>4. pushing' = [v \in Workers |-> pushing'[v]] /\ \A v \in Workers : PiecesShape(pushing'[v])
  BY <1>1, <1>3, ShapeParts
<1>5. SameFiles
  BY <1>1, StorageUnchanged
<1>6. /\ UNCHANGED <<job, disk>> /\ reader' \in {"files", "reading", "exited"}
      /\ reader' = "reading" => IF V1Reader THEN file_index_' > 0 ELSE file_index_' < FileCount
      /\ f_' \in Nat /\ file_index_' \in 0 .. FileCount /\ piece_index_' \in Nat
      /\ IsSeq(chunk_') /\ Len(chunk_') < ChunkSize /\ ChunksShape(sums')
      /\ V1Reader => UNCHANGED <<trees, file_blocks_hashed_>>
      /\ ~V1Reader => IsVector(trees', FileCount) /\ IsVector(file_blocks_hashed_', FileCount)
  <2>1. reader = "reading" => IF V1Reader THEN file_index_ > 0 ELSE file_index_ < FileCount
    BY DEF Shape, ReaderShape
  <2> QED
    BY <1>1, <2>1, ShapeParts
<1> QED
  BY <1>2, <1>4, <1>5, <1>6, ShapeFrom

(* as does taking a piece                                                  *)
LEMMA PushPieceShape ==
    ASSUME Shape, NEW w \in Workers, PushPiece(w), SameFiles PROVE KeepsShape
<1> DEFINE p == Head(pushing[w])
           q == Tail(pushing[w])
<1>1. /\ pushing[w] # <<>> /\ pushing' = [pushing EXCEPT ![w] = q]
      /\ IF p.kind = "v2" THEN TakeLeaf(p) ELSE TakePiece(p)
      /\ UNCHANGED <<job, disk, reader, f_, file_index_, piece_index_, chunk_, chunks, sums>>
  BY DEF PushPiece, rvars
<1>2. PiecesShape(q) /\ PieceShape(p)
  BY <1>1, ShapeParts, TailPieces
<1> HIDE DEF p, q
<1>3. pushing' = [v \in Workers |-> pushing'[v]] /\ \A v \in Workers : PiecesShape(pushing'[v])
  BY <1>1, <1>2, ShapeParts
<1>4. /\ V1Reader => UNCHANGED <<trees, file_blocks_hashed_>>
      /\ ~V1Reader => IsVector(trees', FileCount) /\ IsVector(file_blocks_hashed_', FileCount)
  <2>1. UNCHANGED <<trees, file_blocks_hashed_>> \/ (TakeLeaf(p) /\ p.kind = "v2")
    BY <1>1 DEF TakePiece
  <2>2. CASE UNCHANGED <<trees, file_blocks_hashed_>>
    BY <2>2, ShapeParts
  <2>3. CASE TakeLeaf(p) /\ p.kind = "v2"
    <3>1. ~V1Reader
      BY <1>2, <2>3 DEF PieceShape
    <3>2. \/ UNCHANGED <<trees, file_blocks_hashed_>>
          \/ \E t, n : /\ trees' = [trees EXCEPT ![p.file + 1] = t]
                       /\ file_blocks_hashed_' = [file_blocks_hashed_ EXCEPT ![p.file + 1] = n]
      BY <2>3, Zenon DEF TakeLeaf, wvars
    <3>3. ASSUME NEW t, NEW n, trees' = [trees EXCEPT ![p.file + 1] = t],
                 file_blocks_hashed_' = [file_blocks_hashed_ EXCEPT ![p.file + 1] = n]
          PROVE  IsVector(trees', FileCount) /\ IsVector(file_blocks_hashed_', FileCount)
      BY <3>1, <3>3, ShapeParts DEF IsVector
    <3> QED
      BY <3>1, <3>2, <3>3, <2>2
  <2> QED
    BY <2>1, <2>2, <2>3
<1>5. /\ UNCHANGED <<job, disk>> /\ reader' \in {"files", "reading", "exited"}
      /\ reader' = "reading" => IF V1Reader THEN file_index_' > 0 ELSE file_index_' < FileCount
      /\ f_' \in Nat /\ file_index_' \in 0 .. FileCount /\ piece_index_' \in Nat
      /\ IsSeq(chunk_') /\ Len(chunk_') < ChunkSize /\ ChunksShape(chunks') /\ ChunksShape(sums')
  <2>1. reader = "reading" => IF V1Reader THEN file_index_ > 0 ELSE file_index_ < FileCount
    BY DEF Shape, ReaderShape
  <2> QED
    BY <1>1, <2>1, ShapeParts
<1> QED
  BY <1>3, <1>4, <1>5, ShapeFrom

(* and hashing a chunk for the checksums.                                  *)
LEMMA ChecksumShape ==
    ASSUME Shape, ChecksumChunk PROVE KeepsShape
<1>1. /\ sums # <<>> /\ sums' = Tail(sums)
      /\ UNCHANGED <<job, disk, reader, f_, file_index_, piece_index_, chunk_, chunks, pushing, trees, file_blocks_hashed_>>
  BY DEF ChecksumChunk
<1>2. ChunksShape(sums')
  BY <1>1, ShapeParts, TailChunks
<1>3. SameFiles
  BY ChecksumStorage
<1>4. /\ UNCHANGED <<job, disk>> /\ reader' \in {"files", "reading", "exited"}
      /\ reader' = "reading" => IF V1Reader THEN file_index_' > 0 ELSE file_index_' < FileCount
      /\ f_' \in Nat /\ file_index_' \in 0 .. FileCount /\ piece_index_' \in Nat
      /\ IsSeq(chunk_') /\ Len(chunk_') < ChunkSize /\ ChunksShape(chunks')
      /\ pushing' = [v \in Workers |-> pushing'[v]] /\ \A v \in Workers : PiecesShape(pushing'[v])
      /\ V1Reader => UNCHANGED <<trees, file_blocks_hashed_>>
      /\ ~V1Reader => IsVector(trees', FileCount) /\ IsVector(file_blocks_hashed_', FileCount)
  <2>1. reader = "reading" => IF V1Reader THEN file_index_ > 0 ELSE file_index_ < FileCount
    BY DEF Shape, ReaderShape
  <2> QED
    BY <1>1, <2>1, ShapeParts
<1> QED
  BY <1>2, <1>3, <1>4, ShapeFrom

(* Every step keeps the shape of the state and the files.                  *)
LEMMA ShapeStep ==
    ASSUME Shape, Next PROVE KeepsShape /\ UNCHANGED <<job, disk>>
<1>1. SameFiles /\ UNCHANGED <<job, disk>>
  BY StorageStep
<1> QED
  BY <1>1, MissingFileShape, OpenShape, MissingFile2Shape, Read1Shape, Read2Shape, ReaderEndShape,
     HashChunkShape, PushPieceShape, ChecksumShape DEF Next, Reader

-----------------------------------------------------------------------------
-----------------------------------------------------------------------------
(* The v2 part of a hashing job.  A leaf of a regular file is waiting to   *)
(* be read, in a chunk, in a piece to be pushed or in the tree of its file *)
(* and in one of these places only.                                        *)
RegularFiles == {f \in 0 .. FileCount - 1 : ~is_padding_file(Layout[f])}
Size(f) == Layout[f].file_size_
LeafSet(f) ==
    {j \in Nat : \/ j * BlockSize < Size(f)
                 \/ j * BlockSize = Size(f) /\ ~job.multi /\ Size(f) % ChunkSize = 0}
Least(a, b) == IF a < b THEN a ELSE b
Block(f, j) == SubSeq(Bytes(Layout[f]), j * BlockSize + 1, Least((j + 1) * BlockSize, Size(f)))

Unread(f, j) == \/ file_index_ < f
                \/ file_index_ = f /\ (reader = "reading" => FirstLeaf(piece_index_) <= j)
Covers(c, f, j) == /\ c.file_index = f
                   /\ FirstLeaf(c.piece_index) <= j /\ j < FirstLeaf(c.piece_index) + BlocksPerChunk
Holds(p, f, j) == p.kind = "v2" /\ p.file = f /\ p.index = j

(* The m-th chunk of a file.                                               *)
ChunkData(f, m) == SubSeq(Bytes(Layout[f]), m * ChunkSize + 1, Least(m * ChunkSize + ChunkSize, Size(f)))
ChunkOK(c) ==
    /\ c.file_index \in RegularFiles /\ ~c.null
    /\ \E m \in Nat : /\ c.piece_index = m * PiecesPerChunk /\ m * ChunkSize <= Size(c.file_index)
                      /\ c.data = ChunkData(c.file_index, m)

(* The layout says of a file what its entry says.                          *)
LEMMA LayoutFacts ==
    ASSUME Shape, NEW f \in 0 .. FileCount - 1
    PROVE  /\ Size(f) \in Nat /\ Size(f) = File(f).file_size_ /\ Layout[f].path_ = File(f).path_
           /\ is_padding_file(Layout[f]) <=> is_padding_file(File(f))
           /\ Bytes(Layout[f]) = Bytes(File(f))
           /\ IsSeq(Bytes(Layout[f])) /\ Len(Bytes(Layout[f])) = Size(f)
<1>1. /\ Layout[f].file_size_ = File(f).file_size_ /\ Layout[f].path_ = File(f).path_
      /\ Layout[f].attributes_ = File(f).attributes_
  BY DEF Layout
<1>2. File(f).file_size_ \in Nat
  BY ShapeParts
<1>3. is_padding_file(Layout[f]) <=> is_padding_file(File(f))
  BY <1>1 DEF is_padding_file
<1>4. Bytes(Layout[f]) = Bytes(File(f))
  BY <1>1, <1>3 DEF Bytes
<1>5. IsSeq(Bytes(Layout[f])) /\ Len(Bytes(Layout[f])) = Size(f)
  BY <1>1, <1>2, BytesFacts DEF Size
<1> QED
  BY <1>1, <1>2, <1>3, <1>4, <1>5 DEF Size

(* Cutting what was cut out.                                               *)
LEMMA SubSeqTwice ==
    ASSUME NEW s, IsSeq(s), NEW a \in Nat, NEW b \in Nat, a <= b, b <= Len(s),
           NEW c \in Nat, NEW d \in Nat, c <= d, d <= b - a
    PROVE  SubSeq(SubSeq(s, a + 1, b), c + 1, d) = SubSeq(s, a + c + 1, a + d)
<1>0. Len(s) \in Nat
  BY DEF IsSeq
<1> DEFINE t == SubSeq(s, a + 1, b)
           x == SubSeq(t, c + 1, d)
           y == SubSeq(s, a + c + 1, a + d)
<1>1. IsSeq(t) /\ Len(t) = b - a /\ \A k \in 1 .. Len(t) : t[k] = s[(a + 1) + k - 1]
  BY <1>0, SubSeqFacts
<1> HIDE DEF t
<1>2. IsSeq(x) /\ Len(x) = d - c /\ \A k \in 1 .. Len(x) : x[k] = t[(c + 1) + k - 1]
  BY <1>0, <1>1, SubSeqFacts
<1>3. IsSeq(y) /\ Len(y) = d - c /\ \A k \in 1 .. Len(y) : y[k] = s[(a + c + 1) + k - 1]
  <2>1. a + c + 1 \in Nat \ {0} /\ a + d \in Nat /\ a + d <= Len(s)
    BY <1>0
  <2>2. a + d - (a + c + 1) + 1 = d - c /\ (a + c + 1 <= a + d <=> c < d)
    OBVIOUS
  <2> QED
    BY <2>1, <2>2, SubSeqFacts
<1> HIDE DEF x, y
<1>4. ASSUME NEW k \in 1 .. d - c PROVE x[k] = y[k]
  <2>1. (c + 1) + k - 1 \in 1 .. Len(t) /\ (a + 1) + ((c + 1) + k - 1) - 1 = (a + c + 1) + k - 1
    BY <1>1
  <2>2. x[k] = t[(c + 1) + k - 1] /\ y[k] = s[(a + c + 1) + k - 1]
    BY <1>2, <1>3
  <2>3. t[(c + 1) + k - 1] = s[(a + 1) + ((c + 1) + k - 1) - 1]
    BY <1>1, <2>1
  <2> QED
    BY <2>1, <2>2, <2>3
<1>5. x = y
  BY <1>2, <1>3, <1>4 DEF IsSeq, IsVector
<1> QED
  BY <1>5 DEF x, y, t

(* The blocks of the m-th chunk of a file of n bytes are the blocks of the *)
(* file from block m * BlocksPerChunk on.                                  *)
LEMMA ChunkArithmetic ==
    ASSUME NEW n \in Nat, NEW m \in Nat, m * ChunkSize <= n,
           NEW l, l = Least(m * ChunkSize + ChunkSize, n) - m * ChunkSize,
           NEW i \in Nat \ {0}, NEW j, j = m * BlocksPerChunk + i - 1
    PROVE  /\ l \in Nat /\ l <= ChunkSize /\ j \in Nat
           /\ j * BlockSize = m * ChunkSize + (i - 1) * BlockSize
           /\ (j + 1) * BlockSize = m * ChunkSize + i * BlockSize
           /\ i <= div_ceil(l, BlockSize) <=> j * BlockSize < n /\ i <= BlocksPerChunk
           /\ i <= div_ceil(l, BlockSize) => (i - 1) * BlockSize < l /\ i * BlockSize <= ChunkSize
<1> DEFINE B == BlockSize
           K == BlocksPerChunk
           C == ChunkSize
           mC == m * C
           d == div_ceil(l, B)
<1>1. B \in Nat \ {0} /\ K \in Nat \ {0} /\ C \in Nat \ {0} /\ C = B * K
  BY SizeFacts
<1> HIDE DEF B, K, C, d
<1>2. mC \in Nat /\ l \in Nat /\ l <= C /\ (l = C \/ l = n - mC) /\ l <= n - mC
  BY <1>1 DEF Least, C
<1>3. mC = B * (m * K) /\ m * K \in Nat
  BY <1>1
<1> HIDE DEF mC
<1>4. j \in Nat
  BY <1>3 DEF K
<1>5. B * (m * K + (i - 1)) = B * (m * K) + B * (i - 1) /\ B * (m * K + i) = B * (m * K) + B * i
  BY <1>1, <1>3
<1>6. j * B = mC + (i - 1) * B /\ (j + 1) * B = mC + i * B
  <2>1. j = m * K + (i - 1) /\ j + 1 = m * K + i
    BY <1>3 DEF K
  <2>2. j * B = B * j /\ (j + 1) * B = B * (j + 1) /\ (i - 1) * B = B * (i - 1) /\ i * B = B * i
    BY <1>1, <1>4
  <2> QED
    BY <1>3, <1>5, <2>1, <2>2
<1>7. d \in Nat /\ l <= B * d /\ B * d < l + B
  BY <1>1, <1>2, CeilFacts DEF d
<1> DEFINE x == B * (i - 1)
<1>8. x \in Nat /\ B * i = x + B /\ (i - 1) * B = x /\ i * B = x + B
  BY <1>1
<1>9. ASSUME i <= d PROVE x < l
  <2>1. B * i <= B * d
    BY <1>1, <1>7, <1>9
  <2> HIDE DEF x
  <2> QED
    BY <1>1, <1>2, <1>7, <1>8, <2>1
<1>10. ASSUME x < l PROVE i <= d /\ i <= K
  <2>1. B * (i - 1) < B * d /\ B * (i - 1) < B * K
    BY <1>1, <1>2, <1>7, <1>10
  <2>2. i - 1 < d /\ i - 1 < K
    BY <1>1, <1>7, <2>1, Monotone
  <2> QED
    BY <1>1, <1>7, <2>2
<1>11. ASSUME i <= K PROVE x + B <= C
  <2>1. B * i <= B * K
    BY <1>1, <1>11
  <2> QED
    BY <1>1, <1>8, <2>1
<1>12. i <= d <=> j * B < n /\ i <= K
  <2> HIDE DEF x
  <2>1. ASSUME i <= d PROVE j * B < n /\ i <= K
    BY <1>1, <1>2, <1>6, <1>8, <1>9, <1>10, <2>1
  <2>2. ASSUME j * B < n, i <= K PROVE i <= d
    <3>1. x < n - mC
      BY <1>2, <1>6, <1>8, <2>2
    <3>2. x < C
      BY <1>1, <1>8, <1>11, <2>2
    <3> QED
      BY <1>2, <1>10, <3>1, <3>2
  <2> QED
    BY <2>1, <2>2
<1>13. i <= d => x < l /\ x + B <= C
  <2> HIDE DEF x
  <2> QED
    BY <1>9, <1>10, <1>11
<1> HIDE DEF x
<1>15. /\ j * B = mC + (i - 1) * B /\ (j + 1) * B = mC + i * B
       /\ i <= d <=> j * B < n /\ i <= K
       /\ i <= d => (i - 1) * B < l /\ i * B <= C
  BY <1>6, <1>8, <1>12, <1>13
<1> QED
  BY <1>2, <1>4, <1>15 DEF B, K, C, d, mC

(* The empty block behind a file of whole chunks is in the chunk of its    *)
(* own.                                                                    *)
LEMMA LastChunk ==
    ASSUME NEW n \in Nat, n % ChunkSize = 0, NEW j \in Nat, j * BlockSize = n,
           NEW m \in Nat, m * BlocksPerChunk <= j, j < m * BlocksPerChunk + BlocksPerChunk
    PROVE  n = m * ChunkSize /\ j = m * BlocksPerChunk
<1> DEFINE B == BlockSize
           K == BlocksPerChunk
           C == ChunkSize
           q == n \div C
<1>1. B \in Nat \ {0} /\ K \in Nat \ {0} /\ C \in Nat \ {0} /\ C = B * K
  BY SizeFacts
<1>2. q \in Nat /\ C * q = n
  BY <1>1, DivFacts
<1> HIDE DEF q
<1>3. B * (K * q) = B * j /\ K * q \in Nat
  BY <1>1, <1>2
<1>4. j = K * q
  <2>1. ~(K * q < j) /\ ~(j < K * q)
    <3>1. \A x, y \in Nat : B * x = B * y => ~(x < y)
      BY <1>1
    <3> QED
      BY <1>3, <3>1
  <2> QED
    BY <1>3, <2>1
<1>5. q = m
  <2>1. K * q < K * (m + 1)
    BY <1>1, <1>4
  <2>2. q < m + 1
    BY <1>1, <1>2, <2>1, Monotone
  <2>3. ~(q < m)
    <3> SUFFICES ASSUME q < m PROVE FALSE
      OBVIOUS
    <3>1. K * (q + 1) <= K * m
      BY <1>1, <1>2
    <3>2. K * (q + 1) = K * q + K /\ K * m = m * K
      BY <1>1, <1>2
    <3> QED
      BY <1>1, <1>3, <1>4, <3>1, <3>2
  <2> QED
    BY <1>2, <2>2, <2>3
<1> QED
  BY <1>1, <1>2, <1>4, <1>5

(* A chunk is hashed to the leaves it covers.                              *)
LEMMA ChunkLeaves ==
    ASSUME Shape, NEW c, ChunkOK(c), IsSeq(c.data)
    PROVE  LET f == c.file_index
               o == FirstLeaf(c.piece_index)
           IN  /\ o \in Nat /\ Len(LeavesOf(c)) \in Nat
               /\ \A i \in 1 .. Len(LeavesOf(c)) :
                      /\ LeavesOf(c)[i] = V2Leaf(o + i - 1, f, Block(f, o + i - 1))
                      /\ o + i - 1 \in LeafSet(f) /\ Covers(c, f, o + i - 1)
               /\ \A j \in LeafSet(f) : Covers(c, f, j) => j - o + 1 \in 1 .. Len(LeavesOf(c))
<1> DEFINE f == c.file_index
           o == FirstLeaf(c.piece_index)
           n == Size(f)
           s == Bytes(Layout[f])
<1>1. PICK m \in Nat : c.piece_index = m * PiecesPerChunk /\ m * ChunkSize <= n /\ c.data = ChunkData(f, m)
  BY DEF ChunkOK
<1>2. f \in RegularFiles /\ f \in 0 .. FileCount - 1
  BY DEF ChunkOK, RegularFiles
<1>3. n \in Nat /\ IsSeq(s) /\ Len(s) = n
  BY <1>2, LayoutFacts
<1>4. o \in Nat /\ o = m * BlocksPerChunk
  <2>1. PiecesPerChunk \in Nat /\ pow2[LayerOffset] \in Nat /\ BlocksPerChunk = pow2[LayerOffset] * PiecesPerChunk
    BY SizeFacts, Pow2Facts
  <2>2. m * PiecesPerChunk \in Nat
    BY <2>1
  <2>3. o \in Nat /\ o = (m * PiecesPerChunk) * pow2[LayerOffset]
    BY <1>1, <2>2, FirstLeafFacts
  <2> QED
    BY <2>1, <2>3
<1> DEFINE b == Least(m * ChunkSize + ChunkSize, n)
           l == b - m * ChunkSize
           L == Len(LeavesOf(c))
<1>5. m * ChunkSize \in Nat /\ b \in Nat /\ m * ChunkSize <= b /\ b <= n /\ BlocksPerChunk \in Nat \ {0}
  <2>1. BlocksPerChunk \in Nat \ {0}
    BY SizeFacts
  <2> DEFINE v == m * ChunkSize
  <2>2. v \in Nat /\ v <= n /\ ChunkSize \in Nat
    BY <1>1, Positive
  <2> HIDE DEF v
  <2>3. Least(v + ChunkSize, n) \in Nat /\ v <= Least(v + ChunkSize, n) /\ Least(v + ChunkSize, n) <= n
    BY <1>3, <2>2 DEF Least
  <2> QED
    BY <2>1, <2>2, <2>3 DEF v
<1>6. Len(c.data) = l /\ c.data = SubSeq(s, m * ChunkSize + 1, b)
  <2>1. c.data = SubSeq(s, m * ChunkSize + 1, b)
    BY <1>1 DEF ChunkData
  <2>2. Len(c.data) = IF m * ChunkSize + 1 <= b THEN b - (m * ChunkSize + 1) + 1 ELSE 0
    <3> HIDE DEF b, s, f
    <3> QED
      BY <1>3, <1>5, <2>1, SubSeqFacts
  <2> HIDE DEF b
  <2> QED
    BY <1>5, <2>1, <2>2
<1> HIDE DEF s, n, o, f
<1>7. /\ L = Len(BlocksOf(c)) /\ L \in Nat
      /\ \A i \in 1 .. L : LeavesOf(c)[i] = V2Leaf(o + i - 1, f, BlocksOf(c)[i])
  BY BlocksOfFacts DEF IsSeq, o, f
<1> HIDE DEF L
<1>8. CASE c.data = <<>> /\ ~job.multi
  <2>1. BlocksOf(c) = <<<<>>>> /\ L = 1 /\ BlocksOf(c)[1] = <<>>
    BY <1>7, <1>8 DEF BlocksOf
  <2>2. l = 0 /\ n = m * ChunkSize
    <3>1. l = 0
      BY <1>6, <1>8, EmptyIsSeq
    <3> QED
      BY <1>3, <1>5, <3>1, Positive DEF Least
  <2>3. o * BlockSize = n /\ n % ChunkSize = 0 /\ o \in LeafSet(f)
    <3>1. o * BlockSize = m * ChunkSize
      BY <1>4, SizeFacts
    <3>2. (m * ChunkSize) % ChunkSize = 0
      BY Positive
    <3> QED
      BY <1>4, <1>8, <2>2, <3>1, <3>2 DEF LeafSet, n
  <2>4. Block(f, o) = <<>>
    <3> DEFINE z == Least((o + 1) * BlockSize, n)
    <3>1. z = n
      <4>1. (o + 1) * BlockSize = o * BlockSize + BlockSize
        BY <1>4, Positive
      <4> QED
        BY <1>3, <2>3, <4>1, Positive DEF Least
    <3>2. Block(f, o) = SubSeq(s, n + 1, n)
      BY <2>3, <3>1 DEF Block, s, n
    <3>3. IsSeq(SubSeq(s, n + 1, n)) /\ Len(SubSeq(s, n + 1, n)) = 0
      BY <1>3, SubSeqFacts
    <3> QED
      BY <3>2, <3>3, NoElements
  <2>5. ASSUME NEW i \in 1 .. L
        PROVE  /\ LeavesOf(c)[i] = V2Leaf(o + i - 1, f, Block(f, o + i - 1))
               /\ o + i - 1 \in LeafSet(f) /\ Covers(c, f, o + i - 1)
    <3>1. i = 1 /\ o + i - 1 = o
      BY <1>4, <2>1
    <3>2. LeavesOf(c)[i] = V2Leaf(o + i - 1, f, <<>>)
      BY <1>7, <2>1, <3>1
    <3> QED
      BY <1>4, <1>5, <2>3, <2>4, <3>1, <3>2 DEF Covers, o, f
  <2>6. ASSUME NEW j \in LeafSet(f), Covers(c, f, j) PROVE j - o + 1 \in 1 .. L
    <3>1. j \in Nat /\ m * BlocksPerChunk <= j
      BY <1>4, <2>6 DEF LeafSet, Covers, o
    <3>2. o * BlockSize <= j * BlockSize
      BY <1>4, <3>1, Positive
    <3>3. j * BlockSize = n
      BY <1>3, <2>3, <2>6, <3>1, <3>2, Positive DEF LeafSet, n
    <3>4. j = o
      <4>1. \A x, y \in Nat : x * BlockSize = y * BlockSize => ~(x < y)
        BY Positive
      <4> QED
        BY <1>4, <2>3, <3>1, <3>3, <4>1
    <3> QED
      BY <1>4, <2>1, <3>4
  <2> QED
    BY <1>4, <1>7, <2>5, <2>6 DEF L, o, f
<1>9. CASE ~(c.data = <<>> /\ ~job.multi)
  <2>1. BlocksOf(c) = Cut(c.data, BlockSize)
    BY <1>9 DEF BlocksOf
  <2>2. /\ L = div_ceil(l, BlockSize)
        /\ \A i \in 1 .. L : BlocksOf(c)[i] = SubSeq(c.data, (i - 1) * BlockSize + 1, Least(i * BlockSize, l))
    <3> DEFINE x == c.data
    <3>1. IsSeq(x) /\ Len(x) = l
      BY <1>6
    <3> HIDE DEF x, l
    <3>2. /\ Len(Cut(x, BlockSize)) = div_ceil(Len(x), BlockSize)
          /\ \A i \in 1 .. div_ceil(Len(x), BlockSize) :
                 Cut(x, BlockSize)[i] = SubSeq(x, (i - 1) * BlockSize + 1, Least(i * BlockSize, Len(x)))
      BY <3>1, CutFacts, Positive DEF Least
    <3> QED
      BY <1>7, <2>1, <3>1, <3>2 DEF x
  <2>3. ASSUME NEW i \in Nat \ {0}, NEW j, j = o + i - 1
        PROVE  /\ l \in Nat /\ l <= ChunkSize /\ j \in Nat
               /\ j * BlockSize = m * ChunkSize + (i - 1) * BlockSize
               /\ (j + 1) * BlockSize = m * ChunkSize + i * BlockSize
               /\ i <= L <=> j * BlockSize < n /\ i <= BlocksPerChunk
               /\ i <= L => (i - 1) * BlockSize < l /\ i * BlockSize <= ChunkSize
    <3>1. j = m * BlocksPerChunk + i - 1
      BY <1>4, <2>3
    <3> HIDE DEF l
    <3>2. l = Least(m * ChunkSize + ChunkSize, n) - m * ChunkSize
      BY DEF l
    <3> QED
      BY <1>1, <1>3, <2>2, <3>1, <3>2, ChunkArithmetic
  <2>4. ASSUME NEW i \in 1 .. L
        PROVE  /\ LeavesOf(c)[i] = V2Leaf(o + i - 1, f, Block(f, o + i - 1))
               /\ o + i - 1 \in LeafSet(f) /\ Covers(c, f, o + i - 1)
    <3> DEFINE j == o + i - 1
               x == (i - 1) * BlockSize
               y == Least(i * BlockSize, l)
    <3>1. /\ l \in Nat /\ j \in Nat /\ j * BlockSize = m * ChunkSize + x
          /\ (j + 1) * BlockSize = m * ChunkSize + i * BlockSize
          /\ j * BlockSize < n /\ i <= BlocksPerChunk /\ x < l /\ i * BlockSize <= ChunkSize
      BY <1>7, <2>3
    <3>2. x \in Nat /\ i * BlockSize \in Nat /\ x <= i * BlockSize
      BY <1>7, Positive
    <3>3. y \in Nat /\ x <= y /\ y <= l
      BY <3>1, <3>2 DEF Least
    <3>4. m * ChunkSize + y = Least((j + 1) * BlockSize, n)
      <4> DEFINE u == i * BlockSize
                 v == m * ChunkSize
                 z == (j + 1) * BlockSize
      <4>1. /\ u \in Nat /\ v \in Nat /\ z = v + u /\ u <= ChunkSize /\ n \in Nat
            /\ ChunkSize \in Nat /\ v <= n
        BY <1>1, <1>3, <1>5, <3>1, <3>2, Positive
      <4>2. l = Least(v + ChunkSize, n) - v /\ y = Least(u, l)
        OBVIOUS
      <4> HIDE DEF u, v, z, y, l
      <4>3. v + y = Least(z, n)
        BY <4>1, <4>2 DEF Least
      <4> QED
        BY <4>3 DEF v, z
    <3>5. SubSeq(c.data, x + 1, y) = SubSeq(s, m * ChunkSize + x + 1, m * ChunkSize + y)
      <4> DEFINE v == m * ChunkSize
      <4>1. v \in Nat /\ b \in Nat /\ v <= b /\ b <= Len(s) /\ x \in Nat /\ y \in Nat /\ x <= y /\ y <= b - v
        BY <1>3, <1>5, <3>2, <3>3
      <4>2. c.data = SubSeq(s, v + 1, b)
        BY <1>6
      <4> HIDE DEF v, b, x, y, l
      <4>3. SubSeq(SubSeq(s, v + 1, b), x + 1, y) = SubSeq(s, v + x + 1, v + y)
        BY <1>3, <4>1, SubSeqTwice
      <4> QED
        BY <4>2, <4>3 DEF v
    <3>6. BlocksOf(c)[i] = Block(f, j)
      <4>1. Block(f, j) = SubSeq(s, j * BlockSize + 1, Least((j + 1) * BlockSize, n))
        BY DEF Block, s, n
      <4>2. BlocksOf(c)[i] = SubSeq(c.data, x + 1, y)
        BY <2>2
      <4> HIDE DEF j, x, y
      <4> QED
        BY <3>1, <3>4, <3>5, <4>1, <4>2
    <3>7. j \in LeafSet(f) /\ Covers(c, f, j)
      BY <1>4, <1>5, <1>7, <3>1 DEF LeafSet, Covers, n, o, f
    <3> QED
      BY <1>7, <3>6, <3>7
  <2>5. ASSUME NEW j \in LeafSet(f), Covers(c, f, j) PROVE j - o + 1 \in 1 .. L
    <3> DEFINE i == j - o + 1
    <3>1. j \in Nat /\ o <= j /\ j < o + BlocksPerChunk
      BY <2>5 DEF LeafSet, Covers, o
    <3>2. i \in Nat \ {0} /\ j = o + i - 1 /\ i <= BlocksPerChunk
      BY <1>4, <1>5, <3>1
    <3>3. j * BlockSize < n
      <4> SUFFICES ASSUME ~(j * BlockSize < n) PROVE FALSE
        OBVIOUS
      <4>1. j * BlockSize = n /\ ~job.multi /\ n % ChunkSize = 0
        BY <2>5 DEF LeafSet, n
      <4>2. n = m * ChunkSize
        BY <1>3, <1>4, <3>1, <4>1, LastChunk
      <4>3. l = 0
        BY <1>3, <4>2, Positive DEF Least
      <4>4. c.data = <<>>
        <5>1. IsSeq(c.data) /\ Len(c.data) = 0
          BY <1>6, <4>3
        <5> QED
          BY <5>1, NoElements
      <4> QED
        BY <1>9, <4>1, <4>4
    <3> HIDE DEF i
    <3>4. i <= L
      BY <2>3, <3>2, <3>3
    <3> QED
      BY <1>7, <3>2, <3>4 DEF i
  <2> QED
    BY <1>4, <1>7, <2>4, <2>5 DEF L, o, f
<1> QED
  BY <1>8, <1>9

-----------------------------------------------------------------------------
(* The tree of a file and the leaves it has.                               *)
Height(f) == IF BlockCount(Layout[f]) # 0 THEN log2_ceil(BlockCount(Layout[f])) ELSE 1
Leaf(f, j) == trees[f + 1][pow2[Height(f)] + j]
Taken(f) == {j \in 0 .. pow2[Height(f)] - 1 : Leaf(f, j) # ZeroHash}

(* A queue of chunks, or of pieces, without leaf j of file f, and with it  *)
(* in one element.                                                         *)
NotIn(q, f, j) == \A k \in 1 .. Len(q) : ~Covers(q[k], f, j)
OnceIn(q, f, j) ==
    \E k \in 1 .. Len(q) : Covers(q[k], f, j) /\ \A l \in 1 .. Len(q) : Covers(q[l], f, j) => l = k
NotHeld(q, f, j) == \A k \in 1 .. Len(q) : ~Holds(q[k], f, j)
OnceHeld(q, f, j) ==
    \E k \in 1 .. Len(q) : Holds(q[k], f, j) /\ \A l \in 1 .. Len(q) : Holds(q[l], f, j) => l = k
NotPushed(f, j) == \A w \in Workers : NotHeld(pushing[w], f, j)
OncePushed(f, j) ==
    \E w \in Workers : /\ OnceHeld(pushing[w], f, j)
                       /\ \A v \in Workers \ {w} : NotHeld(pushing[v], f, j)

InFile(f, j) == Unread(f, j) /\ NotIn(chunks, f, j) /\ NotPushed(f, j) /\ j \notin Taken(f)
InChunk(f, j) == ~Unread(f, j) /\ OnceIn(chunks, f, j) /\ NotPushed(f, j) /\ j \notin Taken(f)
InPiece(f, j) == ~Unread(f, j) /\ NotIn(chunks, f, j) /\ OncePushed(f, j) /\ j \notin Taken(f)
InTree(f, j) == ~Unread(f, j) /\ NotIn(chunks, f, j) /\ NotPushed(f, j) /\ j \in Taken(f)
Place(f, j) == InFile(f, j) \/ InChunk(f, j) \/ InPiece(f, j) \/ InTree(f, j)

ReaderOK ==
    /\ reader = "exited" => file_index_ = FileCount
    /\ reader = "reading" =>
          /\ file_index_ \in RegularFiles
          /\ \E m \in Nat : /\ piece_index_ = m * PiecesPerChunk /\ f_ = m * ChunkSize
                            /\ m * ChunkSize <= Size(file_index_)
PieceOK(p) ==
    p.kind = "v2" => /\ p.file \in RegularFiles /\ p.index \in LeafSet(p.file)
                     /\ p.hash = Digest(Block(p.file, p.index))
TreeOK(f) ==
    /\ IsTree(trees[f + 1], Height(f))
    /\ \A j \in Taken(f) : j \in LeafSet(f) /\ Leaf(f, j) = Digest(Block(f, j))
    /\ file_blocks_hashed_[f + 1] = Cardinality(Taken(f))

(* A file has its v2 data once as many leaves as it has blocks are taken.  *)
Done(f) == Taken(f) # {} /\ BlockCount(Layout[f]) <= Cardinality(Taken(f))
Completed(f) ==
    /\ File(f).has_v2_data_ <=> Done(f)
    /\ Done(f) => /\ File(f).pieces_root_ = root(trees[f + 1])
                  /\ File(f).piece_layer_ = LayerView(trees[f + 1], Layout[f])
                  /\ (job.isal => BlockCount(Layout[f]) <= 2) => IsHeap(trees[f + 1], Height(f))

ChunksOK == \A k \in 1 .. Len(chunks) : ChunkOK(chunks[k])
PiecesOK == \A w \in Workers : \A k \in 1 .. Len(pushing[w]) : PieceOK(pushing[w][k])
FilesOK == \A f \in RegularFiles : TreeOK(f) /\ Completed(f)
LeavesOK == \A f \in RegularFiles : \A j \in LeafSet(f) : Place(f, j)

Hashing == ~job.verify /\ ~V1Reader /\ terminated = "no"
V2Inv == ReaderOK /\ ChunksOK /\ PiecesOK /\ FilesOK /\ LeavesOK
Inv == Shape /\ (Hashing => V2Inv)

-----------------------------------------------------------------------------
(* The height of the tree of a file: room for a leaf for every block.      *)
LEMMA HeightFacts ==
    ASSUME Shape, NEW f \in 0 .. FileCount - 1
    PROVE  /\ BlockCount(Layout[f]) \in Nat /\ BlockCount(Layout[f]) = BlockCount(File(f))
           /\ BlockCount(Layout[f]) = div_ceil(Size(f), BlockSize)
           /\ Height(f) \in Nat /\ BlockCount(Layout[f]) <= pow2[Height(f)]
           /\ pow2[Height(f)] \in Nat \ {0}
<1>1. /\ BlockCount(Layout[f]) = div_ceil(Size(f), BlockSize) /\ Size(f) \in Nat
      /\ BlockCount(Layout[f]) = BlockCount(File(f))
  BY LayoutFacts DEF BlockCount, Size
<1>2. BlockCount(Layout[f]) \in Nat
  BY <1>1, Positive, CeilFacts
<1>3. Height(f) \in Nat /\ BlockCount(Layout[f]) <= pow2[Height(f)]
  BY <1>2, SetLeafNodesFacts DEF Height
<1> QED
  BY <1>1, <1>2, <1>3, Pow2Facts

(* No block has the digest value_type{}.                                   *)
LEMMA BlockIsNotZero ==
    ASSUME Shape, NEW f \in RegularFiles, NEW j \in LeafSet(f)
    PROVE  Digest(Block(f, j)) # ZeroHash
<1> DEFINE s == Bytes(Layout[f])
           b == Block(f, j)
           n == Size(f)
<1>1. /\ f \in 0 .. FileCount - 1 /\ ~is_padding_file(Layout[f]) /\ j \in Nat
      /\ j * BlockSize <= n
  <2>1. f \in 0 .. FileCount - 1 /\ ~is_padding_file(Layout[f]) /\ j \in Nat
    BY DEF RegularFiles, LeafSet
  <2>2. n \in Nat /\ j * BlockSize \in Nat
    BY <2>1, LayoutFacts, Positive
  <2> QED
    BY <2>1, <2>2 DEF LeafSet
<1>2. n \in Nat /\ IsSeq(s) /\ Len(s) = n /\ Layout[f].path_ \in Nat
  <2>1. ~is_padding_file(storage.files_[f + 1]) /\ f + 1 \in 1 .. FileCount /\ Layout[f].path_ = File(f).path_
    BY <1>1, LayoutFacts, ShapeParts DEF File
  <2> QED
    BY <1>1, <2>1, LayoutFacts DEF Shape, PathsOK, File
<1>3. \A k \in 1 .. n : s[k] # -1
  <2>1. \A k \in 1 .. n : s[k] = 100 * Layout[f].path_ + k
    BY <1>1 DEF Bytes, Size
  <2> QED
    BY <1>2, <2>1
<1> HIDE DEF s, n
<1>4. \A k \in 1 .. Len(b) : b[k] # -1
  <2> DEFINE z == Least((j + 1) * BlockSize, n)
             a == j * BlockSize
  <2>1. a \in Nat /\ z \in Nat /\ z <= n
    BY <1>1, <1>2, Positive DEF Least
  <2>2. b = SubSeq(s, a + 1, z)
    BY DEF Block, s, n
  <2> HIDE DEF z, a, b
  <2>3. /\ Len(b) = IF a + 1 <= z THEN z - (a + 1) + 1 ELSE 0
        /\ \A k \in 1 .. Len(b) : b[k] = s[a + 1 + k - 1]
    BY <1>2, <2>1, <2>2, SubSeqFacts
  <2>4. \A k \in 1 .. Len(b) : a + 1 + k - 1 \in 1 .. n
    BY <1>2, <2>1, <2>3
  <2> QED
    BY <1>3, <2>3, <2>4
<1>5. b # <<-1>>
  <2> SUFFICES ASSUME b = <<-1>> PROVE FALSE
    OBVIOUS
  <2> HIDE DEF b
  <2>1. Len(b) = 1 /\ b[1] = -1
    OBVIOUS
  <2> QED
    BY <1>4, <2>1
<1> HIDE DEF b
<1> QED
  BY <1>5 DEF Digest, ZeroHash, b

-----------------------------------------------------------------------------
(* What depends on the files and the job only does not change.             *)
Frozen ==
    /\ RegularFiles' = RegularFiles /\ FileCount' = FileCount /\ Layout' = Layout
    /\ \A f : /\ Size(f)' = Size(f) /\ LeafSet(f)' = LeafSet(f) /\ Height(f)' = Height(f)
              /\ BlockCount(Layout[f])' = BlockCount(Layout[f])
              /\ \A j : Block(f, j)' = Block(f, j)
              /\ \A m : ChunkData(f, m)' = ChunkData(f, m)

(* Every step keeps them.                                                  *)
LEMMA FrozenStep ==
    ASSUME KeepsShape, UNCHANGED job PROVE Frozen
<1>1. Layout' = Layout /\ FileCount' = FileCount
  BY DEF KeepsShape
<1>2. RegularFiles' = RegularFiles
  BY <1>1 DEF RegularFiles, is_padding_file
<1>3. ASSUME NEW f PROVE /\ Size(f)' = Size(f) /\ LeafSet(f)' = LeafSet(f)
                         /\ BlockCount(Layout[f])' = BlockCount(Layout[f])
  BY <1>1 DEF Size, LeafSet, BlockCount
<1>4. ASSUME NEW f PROVE Height(f)' = Height(f)
  BY <1>3 DEF Height
<1>5. ASSUME NEW f PROVE Bytes(Layout[f])' = Bytes(Layout[f])
  BY <1>1 DEF Bytes, is_padding_file
<1>6. ASSUME NEW f, NEW j PROVE Block(f, j)' = Block(f, j)
  BY <1>3, <1>5 DEF Block
<1>7. ASSUME NEW f, NEW m PROVE ChunkData(f, m)' = ChunkData(f, m)
  BY <1>3, <1>5 DEF ChunkData
<1> QED
  BY <1>1, <1>2, <1>3, <1>4, <1>6, <1>7 DEF Frozen

(* So what a chunk is stays true of it,                                    *)
LEMMA ChunkKept ==
    ASSUME Frozen, NEW c, ChunkOK(c) PROVE ChunkOK(c)'
  BY DEF Frozen, ChunkOK

(* and of a piece.                                                         *)
LEMMA PieceKept ==
    ASSUME Frozen, NEW p, PieceOK(p) PROVE PieceOK(p)'
  BY DEF Frozen, PieceOK

(* A tree that does not change keeps its leaves.                           *)
LEMMA TakenKept ==
    ASSUME Frozen, NEW f, trees'[f + 1] = trees[f + 1] PROVE Taken(f)' = Taken(f) /\ Done(f)' = Done(f)
<1>1. Height(f)' = Height(f) /\ BlockCount(Layout[f])' = BlockCount(Layout[f])
  BY DEF Frozen
<1>2. \A j : Leaf(f, j)' = Leaf(f, j)
  BY <1>1 DEF Leaf
<1>3. Taken(f)' = Taken(f)
  BY <1>1, <1>2 DEF Taken
<1> QED
  BY <1>1, <1>3 DEF Done

(* A file whose tree and v2 data stay as they are.                         *)
LEMMA FileKept ==
    ASSUME Shape, Frozen, UNCHANGED job, NEW f \in RegularFiles, TreeOK(f), Completed(f),
           trees'[f + 1] = trees[f + 1], file_blocks_hashed_'[f + 1] = file_blocks_hashed_[f + 1],
           SameV2Data(storage'.files_[f + 1], storage.files_[f + 1])
    PROVE  TreeOK(f)' /\ Completed(f)'
<1>1. Taken(f)' = Taken(f) /\ Done(f)' = Done(f)
  BY TakenKept
<1>2. /\ Height(f)' = Height(f) /\ LeafSet(f)' = LeafSet(f) /\ BlockCount(Layout[f])' = BlockCount(Layout[f])
      /\ \A j : Block(f, j)' = Block(f, j)
  BY DEF Frozen
<1>3. \A j : Leaf(f, j)' = Leaf(f, j)
  BY <1>2 DEF Leaf
<1>4. TreeOK(f)'
  BY <1>1, <1>2, <1>3 DEF TreeOK, IsTree, IsVector
<1>5. /\ File(f)'.has_v2_data_ = File(f).has_v2_data_ /\ File(f)'.pieces_root_ = File(f).pieces_root_
      /\ File(f)'.piece_layer_ = File(f).piece_layer_
  BY DEF File, SameV2Data
<1>6. LayerView(trees[f + 1], Layout[f])' = LayerView(trees[f + 1], Layout[f])
  BY DEF LayerView, Frozen
<1>7. root(trees[f + 1])' = root(trees[f + 1])
  BY DEF root
<1>8. IsHeap(trees[f + 1], Height(f)) => IsHeap(trees[f + 1], Height(f))'
  BY <1>2 DEF IsHeap
<1>9. Completed(f)'
  BY <1>1, <1>2, <1>5, <1>6, <1>7, <1>8 DEF Completed
<1> QED
  BY <1>4, <1>9

-----------------------------------------------------------------------------
(* How a leaf moves through a queue.                                       *)
LEMMA NotInAppend ==
    ASSUME NEW q, IsSeq(q), NEW c, NEW f, NEW j, NotIn(q, f, j)
    PROVE  IF Covers(c, f, j) THEN OnceIn(q \o <<c>>, f, j) ELSE NotIn(q \o <<c>>, f, j)
<1> DEFINE r == q \o <<c>>
           n == Len(q)
<1>1. n \in Nat /\ Len(r) = n + 1 /\ r[n + 1] = c /\ \A k \in 1 .. n : r[k] = q[k]
  <2>1. IsSeq(<<c>>) /\ Len(<<c>>) = 1 /\ <<c>>[1] = c
    BY SingleIsSeq
  <2>2. /\ Len(r) = Len(q) + Len(<<c>>) /\ \A k \in 1 .. Len(q) : r[k] = q[k]
        /\ \A k \in 1 .. Len(<<c>>) : r[Len(q) + k] = <<c>>[k]
    BY <2>1, ConcatFacts
  <2> HIDE DEF r
  <2> QED
    BY <2>1, <2>2 DEF IsSeq
<1> HIDE DEF r
<1>2. \A k \in 1 .. n : ~Covers(r[k], f, j)
  BY <1>1 DEF NotIn
<1>3. \A k \in 1 .. n + 1 : k \in 1 .. n \/ k = n + 1
  BY <1>1
<1>4. CASE Covers(c, f, j)
  <2>1. OnceIn(r, f, j)
    BY <1>1, <1>2, <1>3, <1>4 DEF OnceIn
  <2> QED
    BY <1>4, <2>1 DEF r
<1>5. CASE ~Covers(c, f, j)
  <2>1. NotIn(r, f, j)
    BY <1>1, <1>2, <1>3, <1>5 DEF NotIn
  <2> QED
    BY <1>5, <2>1 DEF r
<1> QED
  BY <1>4, <1>5

(* A chunk without the leaf, behind the one with it.                       *)
LEMMA OnceInAppend ==
    ASSUME NEW q, IsSeq(q), NEW c, NEW f, NEW j, OnceIn(q, f, j), ~Covers(c, f, j)
    PROVE  OnceIn(q \o <<c>>, f, j)
<1> DEFINE r == q \o <<c>>
           n == Len(q)
<1>1. n \in Nat /\ Len(r) = n + 1 /\ r[n + 1] = c /\ \A k \in 1 .. n : r[k] = q[k]
  <2>1. IsSeq(<<c>>) /\ Len(<<c>>) = 1 /\ <<c>>[1] = c
    BY SingleIsSeq
  <2>2. /\ Len(r) = Len(q) + Len(<<c>>) /\ \A k \in 1 .. Len(q) : r[k] = q[k]
        /\ \A k \in 1 .. Len(<<c>>) : r[Len(q) + k] = <<c>>[k]
    BY <2>1, ConcatFacts
  <2> HIDE DEF r
  <2> QED
    BY <2>1, <2>2 DEF IsSeq
<1> HIDE DEF r
<1>2. PICK k \in 1 .. n : Covers(q[k], f, j) /\ \A l \in 1 .. n : Covers(q[l], f, j) => l = k
  BY DEF OnceIn
<1>3. k \in 1 .. n + 1 /\ Covers(r[k], f, j)
  BY <1>1, <1>2
<1>4. \A l \in 1 .. n + 1 : Covers(r[l], f, j) => l = k
  <2>1. \A l \in 1 .. n + 1 : l \in 1 .. n \/ l = n + 1
    BY <1>1
  <2> QED
    BY <1>1, <1>2, <2>1
<1>5. OnceIn(r, f, j)
  BY <1>1, <1>3, <1>4 DEF OnceIn
<1> QED
  BY <1>5 DEF r

(* The first chunk is popped.                                              *)
LEMMA InTail ==
    ASSUME NEW q, IsSeq(q), q # <<>>, NEW f, NEW j
    PROVE  /\ NotIn(q, f, j) => ~Covers(Head(q), f, j) /\ NotIn(Tail(q), f, j)
           /\ OnceIn(q, f, j) => IF Covers(Head(q), f, j) THEN NotIn(Tail(q), f, j) ELSE OnceIn(Tail(q), f, j)
<1> DEFINE r == Tail(q)
           c == Head(q)
           n == Len(q)
<1>1. /\ n \in Nat \ {0} /\ c = q[1] /\ Len(r) = n - 1
      /\ \A k \in 1 .. n - 1 : r[k] = q[k + 1]
  BY TailFacts
<1> HIDE DEF r, c
<1>2. \A k \in 1 .. n - 1 : k + 1 \in 1 .. n /\ k + 1 # 1
  BY <1>1
<1>3. 1 \in 1 .. n
  BY <1>1
<1>4. NotIn(q, f, j) => ~Covers(c, f, j) /\ NotIn(r, f, j)
  BY <1>1, <1>2, <1>3 DEF NotIn
<1>5. ASSUME OnceIn(q, f, j), Covers(c, f, j) PROVE NotIn(r, f, j)
  BY <1>1, <1>2, <1>3, <1>5 DEF NotIn, OnceIn
<1>6. ASSUME OnceIn(q, f, j), ~Covers(c, f, j) PROVE OnceIn(r, f, j)
  <2>1. PICK k \in 1 .. n : Covers(q[k], f, j) /\ \A l \in 1 .. n : Covers(q[l], f, j) => l = k
    BY <1>6 DEF OnceIn
  <2>2. k # 1
    BY <1>1, <1>6, <2>1
  <2>3. k - 1 \in 1 .. n - 1 /\ k - 1 + 1 = k
    BY <1>1, <2>2
  <2>4. Covers(r[k - 1], f, j)
    BY <1>1, <2>1, <2>3
  <2>5. ASSUME NEW l \in 1 .. n - 1, Covers(r[l], f, j) PROVE l = k - 1
    <3>1. l + 1 = k
      BY <1>1, <1>2, <2>1, <2>5
    <3> QED
      BY <3>1
  <2> QED
    BY <1>1, <2>3, <2>4, <2>5 DEF OnceIn
<1> QED
  BY <1>4, <1>5, <1>6 DEF r, c

(* The first piece is popped.                                              *)
LEMMA HeldTail ==
    ASSUME NEW q, IsSeq(q), q # <<>>, NEW f, NEW j
    PROVE  /\ NotHeld(q, f, j) => ~Holds(Head(q), f, j) /\ NotHeld(Tail(q), f, j)
           /\ OnceHeld(q, f, j) => IF Holds(Head(q), f, j) THEN NotHeld(Tail(q), f, j) ELSE OnceHeld(Tail(q), f, j)
<1> DEFINE r == Tail(q)
           c == Head(q)
           n == Len(q)
<1>1. /\ n \in Nat \ {0} /\ c = q[1] /\ Len(r) = n - 1
      /\ \A k \in 1 .. n - 1 : r[k] = q[k + 1]
  BY TailFacts
<1> HIDE DEF r, c
<1>2. \A k \in 1 .. n - 1 : k + 1 \in 1 .. n /\ k + 1 # 1
  BY <1>1
<1>3. 1 \in 1 .. n
  BY <1>1
<1>4. NotHeld(q, f, j) => ~Holds(c, f, j) /\ NotHeld(r, f, j)
  BY <1>1, <1>2, <1>3 DEF NotHeld
<1>5. ASSUME OnceHeld(q, f, j), Holds(c, f, j) PROVE NotHeld(r, f, j)
  BY <1>1, <1>2, <1>3, <1>5 DEF NotHeld, OnceHeld
<1>6. ASSUME OnceHeld(q, f, j), ~Holds(c, f, j) PROVE OnceHeld(r, f, j)
  <2>1. PICK k \in 1 .. n : Holds(q[k], f, j) /\ \A l \in 1 .. n : Holds(q[l], f, j) => l = k
    BY <1>6 DEF OnceHeld
  <2>2. k # 1
    BY <1>1, <1>6, <2>1
  <2>3. k - 1 \in 1 .. n - 1 /\ k - 1 + 1 = k
    BY <1>1, <2>2
  <2>4. Holds(r[k - 1], f, j)
    BY <1>1, <2>1, <2>3
  <2>5. ASSUME NEW l \in 1 .. n - 1, Holds(r[l], f, j) PROVE l = k - 1
    <3>1. l + 1 = k
      BY <1>1, <1>2, <2>1, <2>5
    <3> QED
      BY <3>1
  <2> QED
    BY <1>1, <2>3, <2>4, <2>5 DEF OnceHeld
<1> QED
  BY <1>4, <1>5, <1>6 DEF r, c

(* Empty queues have no leaf.                                              *)
LEMMA EmptyHolds ==
    ASSUME NEW f, NEW j PROVE NotIn(<<>>, f, j) /\ NotHeld(<<>>, f, j)
  BY EmptyIsSeq DEF NotIn, NotHeld

-----------------------------------------------------------------------------
(* At the start every leaf is in its file.                                 *)
LEMMA InitInv == Init => Inv
<1> SUFFICES ASSUME Init PROVE Inv
  OBVIOUS
<1>1. Shape /\ Started
  BY InitShape
<1> SUFFICES ASSUME Hashing PROVE V2Inv
  BY <1>1 DEF Inv
<1>2. /\ trees = initialize_trees(storage) /\ file_blocks_hashed_ = [i \in 1 .. FileCount |-> 0]
      /\ reader = "files" /\ file_index_ = 0 /\ chunks = <<>> /\ \A w \in Workers : pushing[w] = <<>>
      /\ \A i \in 1 .. FileCount : ~storage.files_[i].has_v2_data_
  BY <1>1 DEF Started, Hashing
<1>3. ReaderOK /\ ChunksOK /\ PiecesOK
  BY <1>2, EmptyIsSeq DEF ReaderOK, ChunksOK, PiecesOK
<1>4. ASSUME NEW f \in RegularFiles
      PROVE  /\ IsTree(trees[f + 1], Height(f)) /\ Taken(f) = {} /\ file_blocks_hashed_[f + 1] = 0
             /\ ~File(f).has_v2_data_
  <2>1. f \in 0 .. FileCount - 1 /\ f + 1 \in 1 .. FileCount /\ DOMAIN storage.files_ = 1 .. FileCount
    BY <1>1, ShapeParts, VectorFacts DEF RegularFiles, Shape, HasFiles
  <2>2. ~is_padding_file(storage.files_[f + 1])
    BY <1>1, <2>1, LayoutFacts DEF RegularFiles, File
  <2>3. trees[f + 1] = set_leaf_nodes(BlockCount(Layout[f]))
    BY <1>1, <1>2, <2>1, <2>2, HeightFacts DEF initialize_trees, File
  <2> DEFINE m == BlockCount(Layout[f])
  <2>4. m \in Nat /\ pow2[Height(f)] \in Nat \ {0}
    BY <1>1, <2>1, HeightFacts
  <2>5. Height(f) = IF m # 0 THEN log2_ceil(m) ELSE 1
    BY DEF Height
  <2> HIDE DEF m
  <2>6. /\ Height(f) \in Nat /\ IsTree(set_leaf_nodes(m), Height(f))
        /\ \A n \in 1 .. pow2[Height(f) + 1] - 1 : set_leaf_nodes(m)[n] = ZeroHash
    BY <2>4, <2>5, SetLeafNodesFacts
  <2>7. \A j \in 0 .. pow2[Height(f)] - 1 : pow2[Height(f)] + j \in 1 .. pow2[Height(f) + 1] - 1
    BY <2>4, <2>6, Pow2Facts
  <2>8. Taken(f) = {}
    BY <2>3, <2>6, <2>7 DEF Taken, Leaf, m
  <2> QED
    BY <1>2, <2>1, <2>3, <2>6, <2>8 DEF m, File
<1>5. FilesOK
  BY <1>4, FS_EmptySet DEF FilesOK, TreeOK, Completed, Done
<1>6. LeavesOK
  <2> SUFFICES ASSUME NEW f \in RegularFiles, NEW j \in LeafSet(f) PROVE InFile(f, j)
    BY DEF LeavesOK, Place
  <2>1. Unread(f, j)
    BY <1>2 DEF Unread, RegularFiles
  <2> QED
    BY <1>2, <1>4, <2>1, EmptyHolds DEF InFile, NotPushed
<1> QED
  BY <1>3, <1>5, <1>6 DEF V2Inv

-----------------------------------------------------------------------------
(* A step of the reader or a hash thread leaves the files alone.           *)
LEMMA FilesKept ==
    ASSUME Shape, V2Inv, Frozen, UNCHANGED <<job, trees, file_blocks_hashed_>>, KeepsV2Data
    PROVE  FilesOK' /\ \A f \in RegularFiles : Taken(f)' = Taken(f)
<1>1. ASSUME NEW f \in RegularFiles PROVE TreeOK(f)' /\ Completed(f)' /\ Taken(f)' = Taken(f)
  <2>1. f + 1 \in 1 .. FileCount
    BY ShapeParts DEF RegularFiles
  <2>2. TreeOK(f) /\ Completed(f)
    BY DEF V2Inv, FilesOK
  <2>3. SameV2Data(storage'.files_[f + 1], storage.files_[f + 1])
    BY <2>1 DEF KeepsV2Data
  <2> QED
    BY <2>2, <2>3, FileKept, TakenKept
<1> QED
  BY <1>1 DEF FilesOK, Frozen

(* Nothing but the reader's position changes, and no leaf becomes read.    *)
LEMMA ReaderStep ==
    ASSUME Shape, V2Inv, KeepsShape, UNCHANGED <<job, disk, chunks, pushing, trees, file_blocks_hashed_, storage>>,
           ReaderOK', \A f \in RegularFiles : \A j \in LeafSet(f) : Unread(f, j)' <=> Unread(f, j)
    PROVE  V2Inv'
<1>1. Frozen
  BY FrozenStep
<1>2. FilesOK' /\ \A f \in RegularFiles : Taken(f)' = Taken(f)
  BY <1>1, StorageUnchanged, FilesKept
<1>3. ChunksOK' /\ PiecesOK'
  BY <1>1, ChunkKept, PieceKept DEF V2Inv, ChunksOK, PiecesOK
<1>4. LeavesOK'
  <2> SUFFICES ASSUME NEW f \in RegularFiles, NEW j \in LeafSet(f) PROVE Place(f, j)'
    BY <1>1 DEF LeavesOK, Frozen
  <2>1. Place(f, j)
    BY DEF V2Inv, LeavesOK
  <2>2. /\ NotIn(chunks, f, j)' <=> NotIn(chunks, f, j)
        /\ OnceIn(chunks, f, j)' <=> OnceIn(chunks, f, j)
        /\ NotPushed(f, j)' <=> NotPushed(f, j)
        /\ OncePushed(f, j)' <=> OncePushed(f, j)
    BY DEF NotIn, OnceIn, NotPushed, OncePushed, NotHeld, OnceHeld, Covers, Holds
  <2> QED
    BY <1>2, <2>1, <2>2 DEF Place, InFile, InChunk, InPiece, InTree
<1> QED
  BY <1>2, <1>3, <1>4 DEF V2Inv

(* Padding has no leaves.                                                  *)
LEMMA SkipPaddingInv ==
    ASSUME Shape, Hashing, V2Inv, KeepsShape, SkipPadding PROVE V2Inv'
<1>1. /\ file_index_ < FileCount /\ is_padding_file(File(file_index_)) /\ reader = "files"
      /\ file_index_' = file_index_ + 1
      /\ UNCHANGED <<job, disk, reader, f_, piece_index_, chunks, pushing, trees, file_blocks_hashed_, storage>>
  BY DEF SkipPadding, AtFile, wvars
<1>2. file_index_ \notin RegularFiles /\ file_index_ \in Nat
  <2>1. file_index_ \in 0 .. FileCount - 1
    BY <1>1, ShapeParts
  <2> QED
    BY <1>1, <2>1, LayoutFacts DEF RegularFiles
<1>3. ReaderOK'
  BY <1>1 DEF ReaderOK
<1>4. ASSUME NEW f \in RegularFiles, NEW j \in LeafSet(f) PROVE Unread(f, j)' <=> Unread(f, j)
  <2>1. f \in Nat /\ f # file_index_
    BY <1>2 DEF RegularFiles
  <2> QED
    BY <1>1, <1>2, <2>1 DEF Unread
<1> QED
  BY <1>1, <1>3, <1>4, ReaderStep

(* Opening a file reads none of its leaves.                                *)
LEMMA OpenInv ==
    ASSUME Shape, Hashing, V2Inv, KeepsShape, Open PROVE V2Inv'
<1>1. /\ file_index_ < FileCount /\ ~is_padding_file(File(file_index_)) /\ reader = "files"
      /\ reader' = "reading" /\ f_' = 0 /\ piece_index_' = 0
      /\ UNCHANGED <<job, disk, file_index_, chunks, pushing, trees, file_blocks_hashed_, storage>>
  BY DEF Open, AtFile, wvars, Hashing
<1>2. Frozen
  BY <1>1, FrozenStep
<1>3. file_index_ \in RegularFiles /\ Size(file_index_) \in Nat
  <2>1. file_index_ \in 0 .. FileCount - 1
    BY <1>1, ShapeParts
  <2> QED
    BY <1>1, <2>1, LayoutFacts DEF RegularFiles
<1>4. FirstLeaf(0) = 0
  BY FirstLeafFacts, SizeFacts, Pow2Facts
<1>5. ReaderOK'
  <2>1. file_index_' \in RegularFiles' /\ Size(file_index_)' = Size(file_index_)
    BY <1>1, <1>2, <1>3 DEF Frozen
  <2>2. 0 = 0 * PiecesPerChunk /\ 0 = 0 * ChunkSize
    BY SizeFacts
  <2>3. \E m \in Nat : /\ piece_index_' = m * PiecesPerChunk /\ f_' = m * ChunkSize
                       /\ m * ChunkSize <= Size(file_index_)
    BY <1>1, <1>3, <2>2
  <2> QED
    BY <1>1, <2>1, <2>3 DEF ReaderOK
<1>6. ASSUME NEW f \in RegularFiles, NEW j \in LeafSet(f) PROVE Unread(f, j)' <=> Unread(f, j)
  BY <1>1, <1>4 DEF Unread, LeafSet, FirstLeaf
<1> QED
  BY <1>1, <1>5, <1>6, ReaderStep

(* At the end of the files none is unread.                                 *)
LEMMA ReaderEndInv ==
    ASSUME Shape, Hashing, V2Inv, KeepsShape, ReaderEnd PROVE V2Inv'
<1>1. /\ file_index_ = FileCount /\ reader = "files" /\ reader' = "exited"
      /\ UNCHANGED <<job, disk, f_, file_index_, chunks, pushing, trees, file_blocks_hashed_, storage>>
  BY DEF ReaderEnd, wvars, Hashing
<1>2. FileCount' = FileCount
  BY DEF KeepsShape
<1>3. ReaderOK'
  BY <1>1, <1>2 DEF ReaderOK
<1>4. ASSUME NEW f \in RegularFiles, NEW j \in LeafSet(f) PROVE Unread(f, j)' <=> Unread(f, j)
  <2>1. ~(file_index_ < f) /\ file_index_ # f
    BY <1>1, ShapeParts DEF RegularFiles
  <2> QED
    BY <1>1, <2>1 DEF Unread
<1> QED
  BY <1>1, <1>3, <1>4, ReaderStep

(* A read takes the leaves of one chunk of the file.                       *)
LEMMA Read2Inv ==
    ASSUME Shape, Hashing, V2Inv, KeepsShape, Read2, terminated' = "no" PROVE V2Inv'
<1> DEFINE f == file_index_
           n == Size(f)
           content == OnDisk(File(file_index_))
           data == Got(content, ChunkSize)
           last == Eof(content, ChunkSize)
           c == Chunk(piece_index_, f, data)
<1>1. /\ reader = "reading" /\ Push2(piece_index_, f, c) /\ f_' = f_ + Len(data)
      /\ piece_index_' = piece_index_ + PiecesPerChunk
      /\ reader' = IF last THEN "files" ELSE "reading"
      /\ file_index_' = IF last THEN f + 1 ELSE f
      /\ UNCHANGED <<job, disk, pushing, trees, file_blocks_hashed_, storage>>
  BY DEF Read2, wvars, PiecesPerChunk
<1>2. chunks' = chunks \o <<c>>
  BY <1>1 DEF Push2, Submit, Fail
<1>3. PICK m \in Nat : piece_index_ = m * PiecesPerChunk /\ f_ = m * ChunkSize /\ m * ChunkSize <= n
  BY <1>1 DEF V2Inv, ReaderOK
<1>4. f \in RegularFiles /\ f \in 0 .. FileCount - 1 /\ n \in Nat /\ f \in Nat
  BY <1>1, LayoutFacts DEF V2Inv, ReaderOK, RegularFiles
<1> HIDE DEF c
<1>5. content = Bytes(Layout[f]) /\ IsSeq(content) /\ Len(content) = n
  <2>1. f + 1 \in 1 .. FileCount /\ ~is_padding_file(storage.files_[f + 1])
    BY <1>4, LayoutFacts, ShapeParts DEF RegularFiles, File
  <2>2. disk[File(f).path_] = "ok"
    BY <2>1 DEF Shape, PathsOK, File, Hashing
  <2> DEFINE e == File(f)
  <2>3. e.file_size_ \in Nat
    BY <1>4, ShapeParts
  <2> HIDE DEF e
  <2>4. disk[e.path_] = "ok" => OnDisk(e) = Bytes(e)
    BY <2>3, OnDiskFacts
  <2> QED
    BY <1>4, <2>2, <2>4, LayoutFacts DEF e
<1> HIDE DEF content
<1> DEFINE v == m * ChunkSize
<1>6. v \in Nat /\ v <= n /\ f_ = v /\ ChunkSize \in Nat \ {0}
  BY <1>3, Positive
<1> HIDE DEF v
<1>7. data = ChunkData(f, m)
  <2>1. data = SubSeq(content, v + 1, Least(v + ChunkSize, n))
    BY <1>5, <1>6 DEF Got, Least
  <2> QED
    BY <1>5, <2>1 DEF ChunkData, v
<1>8. /\ last <=> v + ChunkSize > n
      /\ ~last => Len(data) = ChunkSize
  <2>1. f_ \in Nat /\ f_ <= Len(content) /\ ChunkSize \in Nat
    BY <1>5, <1>6
  <2>2. Len(data) = IF last THEN Len(content) - f_ ELSE ChunkSize
    BY <1>5, <2>1, GotFacts
  <2> QED
    BY <1>5, <1>6, <2>2 DEF Eof
<1> HIDE DEF data, last
<1>9. c.file_index = f /\ c.piece_index = piece_index_ /\ ~c.null /\ c.data = data
  BY DEF c, Chunk
<1>10. ChunkOK(c)
  BY <1>3, <1>4, <1>7, <1>9 DEF ChunkOK
<1> DEFINE K == BlocksPerChunk
<1>11. /\ K \in Nat \ {0} /\ m * K \in Nat /\ FirstLeaf(piece_index_) = m * K
       /\ FirstLeaf(piece_index_ + PiecesPerChunk) = m * K + K
       /\ m * K * BlockSize = v /\ (m * K + K) * BlockSize = v + ChunkSize
       /\ piece_index_ + PiecesPerChunk = (m + 1) * PiecesPerChunk
  <2> DEFINE p == pow2[LayerOffset]
             R == PiecesPerChunk
  <2>1. /\ R \in Nat \ {0} /\ p \in Nat /\ K = p * R /\ K \in Nat \ {0} /\ ChunkSize = BlockSize * K
        /\ BlockSize \in Nat
    BY SizeFacts, Pow2Facts
  <2>2. piece_index_ \in Nat /\ piece_index_ + R \in Nat
    BY <1>3, <2>1
  <2>3. FirstLeaf(piece_index_) = piece_index_ * p /\ FirstLeaf(piece_index_ + R) = (piece_index_ + R) * p
    BY <2>2, FirstLeafFacts
  <2> HIDE DEF p, R, K
  <2>4. piece_index_ = m * R
    BY <1>3 DEF R
  <2>5. (m * R) * p = m * K /\ (m * R + R) * p = m * K + K /\ m * R + R = (m + 1) * R
    BY <2>1
  <2>6. m * K * BlockSize = m * ChunkSize /\ (m * K + K) * BlockSize = m * ChunkSize + ChunkSize /\ m * K \in Nat
    BY <2>1
  <2> QED
    BY <2>1, <2>3, <2>4, <2>5, <2>6 DEF R, v
<1> HIDE DEF K
<1>12. Frozen
  BY <1>1, FrozenStep
<1>13. ReaderOK'
  <2>1. CASE last
    BY <1>1, <2>1 DEF ReaderOK
  <2>2. CASE ~last
    <3>1. file_index_' \in RegularFiles' /\ file_index_' = f /\ reader' = "reading"
      BY <1>1, <1>4, <1>12, <2>2 DEF Frozen
    <3>2. Size(file_index_)' = n
      BY <1>12, <3>1 DEF Frozen, Size
    <3>3. (m + 1) * ChunkSize = v + ChunkSize /\ m + 1 \in Nat
      BY <1>6 DEF v
    <3>4. f_' = (m + 1) * ChunkSize /\ (m + 1) * ChunkSize <= n
      BY <1>1, <1>4, <1>6, <1>8, <2>2, <3>3
    <3>5. piece_index_' = (m + 1) * PiecesPerChunk
      BY <1>1, <1>11
    <3> QED
      BY <3>1, <3>2, <3>3, <3>4, <3>5 DEF ReaderOK
  <2> QED
    BY <2>1, <2>2
<1>14. ASSUME NEW g \in RegularFiles, NEW j \in LeafSet(g)
       PROVE  /\ Unread(g, j)' <=> Unread(g, j) /\ ~Covers(c, g, j)
              /\ Covers(c, g, j) => Unread(g, j)
  <2>1. g \in Nat /\ j \in Nat
    BY DEF RegularFiles, LeafSet
  <2>2. Covers(c, g, j) <=> f = g /\ m * K <= j /\ j < m * K + K
    BY <1>9, <1>11 DEF Covers, K
  <2>3. Unread(g, j) <=> f < g \/ (f = g /\ m * K <= j)
    BY <1>1, <1>11 DEF Unread
  <2>4. CASE ~last
    <3>1. Unread(g, j)' <=> f < g \/ (f = g /\ m * K + K <= j)
      BY <1>1, <1>11, <2>4 DEF Unread, FirstLeaf
    <3> QED
      BY <1>4, <1>11, <2>1, <2>2, <2>3, <3>1
  <2>5. CASE last
    <3>1. Unread(g, j)' <=> f < g
      BY <1>1, <1>4, <2>1, <2>5 DEF Unread
    <3>2. f = g => j < m * K + K
      <4> SUFFICES ASSUME f = g, m * K + K <= j PROVE FALSE
        BY <1>11, <2>1
      <4>1. (m * K + K) * BlockSize <= j * BlockSize
        BY <1>11, <2>1, Positive
      <4>2. j * BlockSize <= n
        <5>1. j * BlockSize \in Nat
          BY <2>1, Positive
        <5> QED
          BY <1>4, <5>1 DEF LeafSet
      <4>3. j * BlockSize \in Nat
        BY <2>1, Positive
      <4> HIDE DEF n
      <4> QED
        BY <1>4, <1>6, <1>8, <1>11, <2>5, <4>1, <4>2, <4>3
    <3> QED
      BY <1>4, <1>11, <2>1, <2>2, <2>3, <3>1, <3>2
  <2> QED
    BY <2>4, <2>5
<1>15. FilesOK' /\ \A g \in RegularFiles : Taken(g)' = Taken(g)
  BY <1>1, <1>12, StorageUnchanged, FilesKept
<1>16. PiecesOK'
  BY <1>1, <1>12, PieceKept DEF V2Inv, PiecesOK
<1>17. IsSeq(chunks) /\ ChunksOK'
  <2>1. IsSeq(chunks) /\ IsSeq(<<c>>) /\ Len(<<c>>) = 1 /\ <<c>>[1] = c
    BY SingleIsSeq, ShapeParts DEF ChunksShape
  <2>2. ASSUME NEW k \in 1 .. Len(chunks') PROVE ChunkOK(chunks'[k])
    <3>1. \/ k \in 1 .. Len(chunks) /\ chunks'[k] = chunks[k]
          \/ \E l \in 1 .. Len(<<c>>) : k = Len(chunks) + l /\ chunks'[k] = <<c>>[l]
      BY <1>2, <2>1, ConcatElements
    <3>2. chunks'[k] = c \/ (k \in 1 .. Len(chunks) /\ chunks'[k] = chunks[k])
      BY <2>1, <3>1
    <3> QED
      BY <1>10, <3>2 DEF V2Inv, ChunksOK
  <2> QED
    BY <1>12, <2>1, <2>2 DEF ChunksOK, ChunkOK, Frozen
<1>18. LeavesOK'
  <2> SUFFICES ASSUME NEW g \in RegularFiles, NEW j \in LeafSet(g) PROVE Place(g, j)'
    BY <1>12 DEF LeavesOK, Frozen
  <2>1. Place(g, j)
    BY DEF V2Inv, LeavesOK
  <2>2. /\ NotPushed(g, j)' <=> NotPushed(g, j)
        /\ OncePushed(g, j)' <=> OncePushed(g, j)
        /\ Taken(g)' = Taken(g)
    BY <1>1, <1>15 DEF NotPushed, OncePushed, NotHeld, OnceHeld, Holds
  <2>3. /\ NotIn(chunks, g, j)' <=> NotIn(chunks \o <<c>>, g, j)
        /\ OnceIn(chunks, g, j)' <=> OnceIn(chunks \o <<c>>, g, j)
    BY <1>2 DEF NotIn, OnceIn, Covers, FirstLeaf
  <2>4. NotIn(chunks, g, j) => IF Covers(c, g, j) THEN OnceIn(chunks \o <<c>>, g, j)
                               ELSE NotIn(chunks \o <<c>>, g, j)
    BY <1>17, NotInAppend
  <2>5. OnceIn(chunks, g, j) /\ ~Covers(c, g, j) => OnceIn(chunks \o <<c>>, g, j)
    BY <1>17, OnceInAppend
  <2>6. Unread(g, j)' <=> Unread(g, j) /\ ~Covers(c, g, j)
    BY <1>14
  <2>7. Covers(c, g, j) => Unread(g, j)
    BY <1>14
  <2> QED
    BY <2>1, <2>2, <2>3, <2>4, <2>5, <2>6, <2>7 DEF Place, InFile, InChunk, InPiece, InTree
<1> QED
  BY <1>13, <1>15, <1>16, <1>17, <1>18 DEF V2Inv

-----------------------------------------------------------------------------
(* The pieces a chunk is hashed to hold each leaf it covers once.          *)
LEMMA HashedLeaves ==
    ASSUME Shape, ~V1Reader, NEW c, ChunkOK(c), ChunkShape(c), NEW q, q = V2HashChunk(c)
    PROVE  /\ IsSeq(q) /\ \A k \in 1 .. Len(q) : PieceOK(q[k])
           /\ \A g \in RegularFiles : \A j \in LeafSet(g) :
                  IF Covers(c, g, j) THEN OnceHeld(q, g, j) ELSE NotHeld(q, g, j)
<1> DEFINE f == c.file_index
           o == FirstLeaf(c.piece_index)
           x == LeavesOf(c)
           y == IF V1Compatible THEN V1CompatiblePieces(c) ELSE <<>>
           l == Len(x)
<1>0. IsSeq(c.data) /\ f \in RegularFiles
  BY DEF ChunkShape, ChunkOK
<1>1. /\ o \in Nat /\ l \in Nat
      /\ \A i \in 1 .. l : /\ x[i] = V2Leaf(o + i - 1, f, Block(f, o + i - 1))
                           /\ o + i - 1 \in LeafSet(f) /\ Covers(c, f, o + i - 1)
      /\ \A j \in LeafSet(f) : Covers(c, f, j) => j - o + 1 \in 1 .. l
  BY <1>0, ChunkLeaves
<1>2. IsSeq(x)
  BY <1>0, BlocksOfFacts
<1>3. IsSeq(y) /\ \A k \in 1 .. Len(y) : y[k].kind = "v1"
  <2>1. CASE V1Compatible
    BY <2>1, V1PiecesShape DEF PiecesShape
  <2>2. CASE ~V1Compatible
    BY <2>2, EmptyIsSeq
  <2> QED
    BY <2>1, <2>2
<1>4. q = x \o y
  BY DEF V2HashChunk
<1> HIDE DEF f, o, x, y
<1>5. /\ IsSeq(q) /\ Len(q) = l + Len(y) /\ Len(y) \in Nat /\ \A k \in 1 .. l : q[k] = x[k] /\ k \in 1 .. Len(q)
      /\ \A k \in 1 .. Len(q) : k \in 1 .. l \/ q[k].kind = "v1"
  <2>1. Len(y) \in Nat
    BY <1>3 DEF IsSeq
  <2>2. IsSeq(q) /\ Len(q) = l + Len(y) /\ \A k \in 1 .. l : q[k] = x[k]
    BY <1>2, <1>3, <1>4, ConcatFacts
  <2>3. ASSUME NEW k \in 1 .. Len(q) PROVE k \in 1 .. l \/ q[k].kind = "v1"
    BY <1>2, <1>3, <1>4, <2>3, ConcatElements
  <2> QED
    BY <1>1, <2>1, <2>2, <2>3
<1>6. ASSUME NEW k \in 1 .. l
      PROVE  /\ q[k].kind = "v2" /\ q[k].file = f /\ q[k].index = o + k - 1
             /\ q[k].hash = Digest(Block(f, o + k - 1))
  <2>1. q[k] = V2Leaf(o + k - 1, f, Block(f, o + k - 1))
    BY <1>1, <1>5
  <2> QED
    BY <2>1 DEF V2Leaf
<1>7. \A k \in 1 .. Len(q) : PieceOK(q[k])
  <2> SUFFICES ASSUME NEW k \in 1 .. Len(q) PROVE PieceOK(q[k])
    OBVIOUS
  <2>1. CASE k \in 1 .. l
    BY <1>0, <1>1, <1>6, <2>1 DEF PieceOK, f
  <2>2. CASE k \notin 1 .. l
    BY <1>5, <2>2 DEF PieceOK
  <2> QED
    BY <2>1, <2>2
<1>8. ASSUME NEW g \in RegularFiles, NEW j \in LeafSet(g), Covers(c, g, j) PROVE OnceHeld(q, g, j)
  <2>1. g = f /\ j \in Nat
    BY <1>8 DEF Covers, LeafSet, f
  <2> DEFINE k == j - o + 1
  <2>2. k \in 1 .. l /\ o + k - 1 = j
    BY <1>1, <1>8, <2>1
  <2> HIDE DEF k
  <2>3. Holds(q[k], g, j) /\ k \in 1 .. Len(q)
    BY <1>5, <1>6, <2>1, <2>2 DEF Holds
  <2>4. ASSUME NEW i \in 1 .. Len(q), Holds(q[i], g, j) PROVE i = k
    <3>1. i \in 1 .. l
      BY <1>5, <2>4 DEF Holds
    <3>2. o + i - 1 = j
      BY <1>6, <2>4, <3>1 DEF Holds
    <3> QED
      BY <1>1, <2>1, <2>2, <3>1, <3>2
  <2> QED
    BY <2>3, <2>4 DEF OnceHeld
<1>9. ASSUME NEW g \in RegularFiles, NEW j \in LeafSet(g), ~Covers(c, g, j) PROVE NotHeld(q, g, j)
  <2> SUFFICES ASSUME NEW k \in 1 .. Len(q), Holds(q[k], g, j) PROVE FALSE
    BY DEF NotHeld
  <2>1. k \in 1 .. l
    BY <1>5 DEF Holds
  <2>2. f = g /\ o + k - 1 = j
    BY <1>6, <2>1 DEF Holds
  <2> QED
    BY <1>1, <1>9, <2>1, <2>2
<1> QED
  BY <1>5, <1>7, <1>8, <1>9

(* A hash thread takes a chunk.                                            *)
LEMMA HashChunkInv ==
    ASSUME Shape, Hashing, V2Inv, KeepsShape, NEW w \in Workers, HashChunk(w), terminated' = "no" PROVE V2Inv'
<1> DEFINE c == Head(chunks)
           q == V2HashChunk(c)
<1>1. /\ chunks # <<>> /\ chunks' = Tail(chunks) /\ pushing[w] = <<>>
      /\ UNCHANGED <<job, disk, reader, f_, file_index_, piece_index_, trees, file_blocks_hashed_, storage>>
  BY DEF HashChunk, wvars
<1>2. IsSeq(chunks) /\ ChunkShape(c)
  BY <1>1, ShapeParts, TailChunks DEF ChunksShape
<1>3. /\ c = chunks[1] /\ Len(chunks) \in Nat \ {0} /\ Len(Tail(chunks)) = Len(chunks) - 1
      /\ \A k \in 1 .. Len(chunks) - 1 : Tail(chunks)[k] = chunks[k + 1]
  BY <1>1, <1>2, TailFacts
<1>4. ChunkOK(c)
  BY <1>3 DEF V2Inv, ChunksOK
<1>5. pushing' = [pushing EXCEPT ![w] = q]
  BY <1>4 DEF HashChunk, Fail, Hashing, ChunkOK
<1>6. Frozen
  BY <1>1, FrozenStep
<1>7. /\ IsSeq(q) /\ \A k \in 1 .. Len(q) : PieceOK(q[k])
      /\ \A g \in RegularFiles : \A j \in LeafSet(g) :
             IF Covers(c, g, j) THEN OnceHeld(q, g, j) ELSE NotHeld(q, g, j)
  <2> HIDE DEF c
  <2> QED
    BY <1>2, <1>4, HashedLeaves DEF Hashing
<1> HIDE DEF c, q
<1>8. pushing'[w] = q /\ \A v \in Workers \ {w} : pushing'[v] = pushing[v]
  BY <1>5, ShapeParts
<1>9. ReaderOK'
  BY <1>1, <1>6 DEF ReaderOK, V2Inv, Frozen, Size
<1>10. ChunksOK'
  <2>1. \A k \in 1 .. Len(chunks') : ChunkOK(chunks'[k])
    <3>1. \A k \in 1 .. Len(chunks) - 1 : k + 1 \in 1 .. Len(chunks)
      BY <1>3
    <3> QED
      BY <1>1, <1>3, <3>1 DEF V2Inv, ChunksOK
  <2> QED
    BY <1>6, <2>1 DEF ChunksOK, ChunkOK, Frozen
<1>11. PiecesOK'
  <2>1. \A v \in Workers : \A k \in 1 .. Len(pushing'[v]) : PieceOK(pushing'[v][k])
    BY <1>7, <1>8 DEF V2Inv, PiecesOK
  <2> QED
    BY <1>6, <2>1 DEF PiecesOK, PieceOK, Frozen
<1>12. FilesOK' /\ \A g \in RegularFiles : Taken(g)' = Taken(g)
  BY <1>1, <1>6, StorageUnchanged, FilesKept
<1>13. LeavesOK'
  <2> SUFFICES ASSUME NEW g \in RegularFiles, NEW j \in LeafSet(g) PROVE Place(g, j)'
    BY <1>6 DEF LeavesOK, Frozen
  <2>1. Place(g, j)
    BY DEF V2Inv, LeavesOK
  <2>2. Taken(g)' = Taken(g) /\ (Unread(g, j)' <=> Unread(g, j))
    BY <1>1, <1>12 DEF Unread
  <2>3. /\ NotIn(chunks, g, j)' <=> NotIn(Tail(chunks), g, j)
        /\ OnceIn(chunks, g, j)' <=> OnceIn(Tail(chunks), g, j)
    BY <1>1 DEF NotIn, OnceIn, Covers, FirstLeaf
  <2>4. /\ NotIn(chunks, g, j) => ~Covers(c, g, j) /\ NotIn(Tail(chunks), g, j)
        /\ OnceIn(chunks, g, j) => IF Covers(c, g, j) THEN NotIn(Tail(chunks), g, j) ELSE OnceIn(Tail(chunks), g, j)
    BY <1>1, <1>2, InTail DEF c
  <2>5. IF Covers(c, g, j) THEN OnceHeld(q, g, j) ELSE NotHeld(q, g, j)
    BY <1>7
  <2>6. ~Covers(c, g, j) /\ NotPushed(g, j) => NotPushed(g, j)'
    BY <1>8, <2>5 DEF NotPushed, NotHeld, Holds
  <2>7. ~Covers(c, g, j) /\ OncePushed(g, j) => OncePushed(g, j)'
    <3> SUFFICES ASSUME ~Covers(c, g, j), OncePushed(g, j) PROVE OncePushed(g, j)'
      OBVIOUS
    <3>1. PICK v \in Workers : OnceHeld(pushing[v], g, j) /\ \A u \in Workers \ {v} : NotHeld(pushing[u], g, j)
      BY DEF OncePushed
    <3>2. v # w
      BY <1>1, <3>1, EmptyIsSeq DEF OnceHeld
    <3>3. OnceHeld(pushing'[v], g, j) /\ \A u \in Workers \ {v} : NotHeld(pushing'[u], g, j)
      BY <1>8, <2>5, <3>1, <3>2
    <3> QED
      BY <3>3 DEF OncePushed, OnceHeld, NotHeld, Holds
  <2>8. Covers(c, g, j) /\ NotPushed(g, j) => OncePushed(g, j)'
    <3> SUFFICES ASSUME Covers(c, g, j), NotPushed(g, j) PROVE OncePushed(g, j)'
      OBVIOUS
    <3>1. OnceHeld(pushing'[w], g, j) /\ \A u \in Workers \ {w} : NotHeld(pushing'[u], g, j)
      BY <1>8, <2>5 DEF NotPushed
    <3> QED
      BY <3>1 DEF OncePushed, OnceHeld, NotHeld, Holds
  <2> QED
    BY <2>1, <2>2, <2>3, <2>4, <2>6, <2>7, <2>8 DEF Place, InFile, InChunk, InPiece, InTree
<1> QED
  BY <1>9, <1>10, <1>11, <1>12, <1>13 DEF V2Inv

-----------------------------------------------------------------------------
(* A hash thread pushes the first of its pieces.                           *)
LEMMA PoppedLeaf ==
    ASSUME Shape, NEW w \in Workers, pushing[w] # <<>>, pushing' = [pushing EXCEPT ![w] = Tail(@)],
           NEW f, NEW j
    PROVE  /\ NotPushed(f, j) => ~Holds(Head(pushing[w]), f, j) /\ NotPushed(f, j)'
           /\ OncePushed(f, j) => IF Holds(Head(pushing[w]), f, j) THEN NotPushed(f, j)' ELSE OncePushed(f, j)'
           /\ Holds(Head(pushing[w]), f, j) => ~NotPushed(f, j)
<1> DEFINE p == Head(pushing[w])
           q == pushing[w]
<1>1. IsSeq(q) /\ pushing'[w] = Tail(q) /\ \A v \in Workers \ {w} : pushing'[v] = pushing[v]
  BY ShapeParts DEF PiecesShape
<1>2. /\ NotHeld(q, f, j) => ~Holds(p, f, j) /\ NotHeld(Tail(q), f, j)
      /\ OnceHeld(q, f, j) => IF Holds(p, f, j) THEN NotHeld(Tail(q), f, j) ELSE OnceHeld(Tail(q), f, j)
  BY <1>1, HeldTail
<1> HIDE DEF p
<1>3. ASSUME NotPushed(f, j) PROVE ~Holds(p, f, j) /\ NotPushed(f, j)'
  <2>1. ~Holds(p, f, j) /\ \A v \in Workers : NotHeld(pushing'[v], f, j)
    BY <1>1, <1>2, <1>3 DEF NotPushed
  <2> QED
    BY <2>1 DEF NotPushed, NotHeld, Holds
<1>4. ASSUME OncePushed(f, j) PROVE IF Holds(p, f, j) THEN NotPushed(f, j)' ELSE OncePushed(f, j)'
  <2>1. PICK v \in Workers : OnceHeld(pushing[v], f, j) /\ \A u \in Workers \ {v} : NotHeld(pushing[u], f, j)
    BY <1>4 DEF OncePushed
  <2>2. CASE v = w
    <3>1. \A u \in Workers \ {w} : NotHeld(pushing'[u], f, j)
      BY <1>1, <2>1, <2>2
    <3>2. IF Holds(p, f, j) THEN NotHeld(pushing'[w], f, j) ELSE OnceHeld(pushing'[w], f, j)
      BY <1>1, <1>2, <2>1, <2>2
    <3>3. CASE Holds(p, f, j)
      <4>1. \A u \in Workers : NotHeld(pushing'[u], f, j)
        BY <3>1, <3>2, <3>3
      <4>2. NotPushed(f, j)'
        BY <4>1 DEF NotPushed, NotHeld, Holds
      <4> QED
        BY <3>3, <4>2
    <3>4. CASE ~Holds(p, f, j)
      <4>1. OncePushed(f, j)'
        BY <3>1, <3>2, <3>4 DEF OncePushed, OnceHeld, NotHeld, Holds
      <4> QED
        BY <3>4, <4>1
    <3> QED
      BY <3>3, <3>4
  <2>3. CASE v # w
    <3>1. ~Holds(p, f, j) /\ NotHeld(pushing'[w], f, j)
      BY <1>1, <1>2, <2>1, <2>3
    <3>2. OnceHeld(pushing'[v], f, j) /\ \A u \in Workers \ {v} : NotHeld(pushing'[u], f, j)
      BY <1>1, <2>1, <2>3, <3>1
    <3>3. OncePushed(f, j)'
      BY <3>2 DEF OncePushed, OnceHeld, NotHeld, Holds
    <3> QED
      BY <3>1, <3>3
  <2> QED
    BY <2>2, <2>3
<1> QED
  BY <1>3, <1>4 DEF p

(* The leaf of the piece it pushed is in the tree now, any other leaf is   *)
(* where it was.                                                           *)
LEMMA PushStep ==
    ASSUME Shape, V2Inv, KeepsShape, NEW w \in Workers, pushing[w] # <<>>,
           pushing' = [pushing EXCEPT ![w] = Tail(@)],
           UNCHANGED <<job, disk, reader, f_, file_index_, piece_index_, chunks>>, FilesOK',
           \A g \in RegularFiles : \A j \in LeafSet(g) :
               j \in Taken(g)' <=> j \in Taken(g) \/ Holds(Head(pushing[w]), g, j)
    PROVE  V2Inv'
<1> DEFINE p == Head(pushing[w])
<1>1. Frozen
  BY FrozenStep
<1>2. ReaderOK'
  BY <1>1 DEF ReaderOK, V2Inv, Frozen, Size
<1>3. ChunksOK'
  BY <1>1, ChunkKept DEF V2Inv, ChunksOK
<1>4. PiecesOK'
  <2>1. IsSeq(pushing[w]) /\ pushing'[w] = Tail(pushing[w]) /\ \A v \in Workers \ {w} : pushing'[v] = pushing[v]
    BY ShapeParts DEF PiecesShape
  <2>2. /\ Len(pushing[w]) \in Nat \ {0} /\ Len(Tail(pushing[w])) = Len(pushing[w]) - 1
        /\ \A k \in 1 .. Len(pushing[w]) - 1 : Tail(pushing[w])[k] = pushing[w][k + 1]
    BY <2>1, TailFacts
  <2>3. \A k \in 1 .. Len(pushing[w]) - 1 : k + 1 \in 1 .. Len(pushing[w])
    BY <2>2
  <2>4. \A v \in Workers : \A k \in 1 .. Len(pushing'[v]) : PieceOK(pushing'[v][k])
    BY <2>1, <2>2, <2>3 DEF V2Inv, PiecesOK
  <2> QED
    BY <1>1, <2>4, ZenonT(30) DEF PiecesOK, PieceOK, Frozen
<1>5. LeavesOK'
  <2> SUFFICES ASSUME NEW g \in RegularFiles, NEW j \in LeafSet(g) PROVE Place(g, j)'
    BY <1>1 DEF LeavesOK, Frozen
  <2>1. Place(g, j)
    BY DEF V2Inv, LeavesOK
  <2>2. /\ NotPushed(g, j) => ~Holds(p, g, j) /\ NotPushed(g, j)'
        /\ OncePushed(g, j) => IF Holds(p, g, j) THEN NotPushed(g, j)' ELSE OncePushed(g, j)'
    BY PoppedLeaf
  <2>3. j \in Taken(g)' <=> j \in Taken(g) \/ Holds(p, g, j)
    OBVIOUS
  <2>4. /\ NotIn(chunks, g, j)' <=> NotIn(chunks, g, j)
        /\ OnceIn(chunks, g, j)' <=> OnceIn(chunks, g, j)
        /\ Unread(g, j)' <=> Unread(g, j)
    BY DEF NotIn, OnceIn, Covers, Unread, FirstLeaf
  <2> HIDE DEF p
  <2> QED
    BY <2>1, <2>2, <2>3, <2>4 DEF Place, InFile, InChunk, InPiece, InTree
<1> QED
  BY <1>2, <1>3, <1>4, <1>5 DEF V2Inv

(* The checksum thread touches neither leaves nor v2 data.                 *)
LEMMA ChecksumInv ==
    ASSUME Shape, Hashing, V2Inv, KeepsShape, ChecksumChunk PROVE V2Inv'
<1>1. UNCHANGED <<job, disk, reader, f_, file_index_, piece_index_, chunks, pushing, trees, file_blocks_hashed_>>
  BY DEF ChecksumChunk
<1>2. Frozen
  BY <1>1, FrozenStep
<1>3. FilesOK' /\ \A f \in RegularFiles : Taken(f)' = Taken(f)
  BY <1>1, <1>2, ChecksumStorage, FilesKept
<1>4. ChunksOK' /\ PiecesOK'
  BY <1>1, <1>2, ChunkKept, PieceKept DEF V2Inv, ChunksOK, PiecesOK
<1>5. ReaderOK'
  BY <1>1, <1>2 DEF ReaderOK, V2Inv, Frozen, Size
<1>6. LeavesOK'
  <2> SUFFICES ASSUME NEW f \in RegularFiles, NEW j \in LeafSet(f) PROVE Place(f, j)'
    BY <1>2 DEF LeavesOK, Frozen
  <2>1. Place(f, j)
    BY DEF V2Inv, LeavesOK
  <2>2. /\ NotIn(chunks, f, j)' <=> NotIn(chunks, f, j)
        /\ OnceIn(chunks, f, j)' <=> OnceIn(chunks, f, j)
        /\ NotPushed(f, j)' <=> NotPushed(f, j)
        /\ OncePushed(f, j)' <=> OncePushed(f, j)
        /\ Unread(f, j)' <=> Unread(f, j)
    BY <1>1 DEF NotIn, OnceIn, NotPushed, OncePushed, NotHeld, OnceHeld, Covers, Holds, Unread, FirstLeaf
  <2> QED
    BY <1>3, <2>1, <2>2 DEF Place, InFile, InChunk, InPiece, InTree
<1> QED
  BY <1>3, <1>4, <1>5, <1>6 DEF V2Inv

(* A v1 piece does not touch the trees.                                    *)
LEMMA PushV1Inv ==
    ASSUME Shape, Hashing, V2Inv, KeepsShape, NEW w \in Workers, PushPiece(w), Head(pushing[w]).kind # "v2"
    PROVE  V2Inv'
<1> DEFINE p == Head(pushing[w])
<1>1. /\ pushing[w] # <<>> /\ pushing' = [pushing EXCEPT ![w] = Tail(@)] /\ TakePiece(p)
      /\ UNCHANGED <<job, disk, reader, f_, file_index_, piece_index_, chunks>>
  BY DEF PushPiece, rvars
<1>2. UNCHANGED <<trees, file_blocks_hashed_>>
  BY <1>1 DEF TakePiece
<1>3. Frozen
  BY <1>1, FrozenStep
<1>4. FilesOK' /\ \A f \in RegularFiles : Taken(f)' = Taken(f)
  BY <1>1, <1>2, <1>3, TakePieceStorage, FilesKept
<1>5. ASSUME NEW g \in RegularFiles, NEW j \in LeafSet(g)
      PROVE  j \in Taken(g)' <=> j \in Taken(g) \/ Holds(p, g, j)
  BY <1>4 DEF Holds
<1> QED
  BY <1>1, <1>4, <1>5, PushStep

(* Leaves can be counted.                                                  *)
LEMMA TakenFinite ==
    ASSUME Shape, NEW f \in RegularFiles
    PROVE  IsFiniteSet(Taken(f)) /\ Cardinality(Taken(f)) \in Nat
<1>1. pow2[Height(f)] \in Nat \ {0}
  BY HeightFacts DEF RegularFiles
<1>2. IsFiniteSet(0 .. pow2[Height(f)] - 1)
  BY <1>1, FS_Interval
<1>3. Taken(f) \subseteq 0 .. pow2[Height(f)] - 1
  BY DEF Taken
<1>4. IsFiniteSet(Taken(f))
  BY <1>2, <1>3, FS_Subset
<1> QED
  BY <1>4, FS_CardinalityType

(* Two blocks make a tree of height one at most.                           *)
LEMMA SmallTree ==
    ASSUME Shape, NEW f \in RegularFiles, BlockCount(Layout[f]) <= 2
    PROVE  Height(f) <= 1
<1> DEFINE m == BlockCount(Layout[f])
           h == Height(f)
<1>1. m \in Nat /\ h \in Nat /\ h = IF m # 0 THEN log2_ceil(m) ELSE 1
  BY HeightFacts DEF RegularFiles, Height
<1>2. m <= 2
  OBVIOUS
<1> HIDE DEF m, h
<1>3. CASE m # 0 /\ h > 1
  <2>1. pow2[h - 1] < m
    BY <1>1, <1>3, Log2Ceil
  <2>2. h - 1 \in Nat /\ h - 1 < pow2[h - 1] /\ pow2[h - 1] \in Nat
    <3>1. h - 1 \in Nat
      BY <1>1, <1>3
    <3> QED
      BY <3>1, Pow2Above, Pow2Facts
  <2> QED
    BY <1>1, <1>2, <1>3, <2>1, <2>2
<1> QED
  BY <1>1, <1>3 DEF h

(* What the writer does with a leaf that its tree does not have yet.       *)
LEMMA TakeLeafFile ==
    ASSUME Shape, Hashing, V2Inv, KeepsShape, UNCHANGED job, terminated' = "no",
           NEW p, p.kind = "v2", PieceOK(p), p.index \notin Taken(p.file), TakeLeaf(p)
    PROVE  /\ Taken(p.file)' = Taken(p.file) \cup {p.index}
           /\ TreeOK(p.file)' /\ Completed(p.file)'
           /\ \A g \in RegularFiles : g # p.file =>
                  /\ trees'[g + 1] = trees[g + 1] /\ file_blocks_hashed_'[g + 1] = file_blocks_hashed_[g + 1]
                  /\ SameV2Data(storage'.files_[g + 1], storage.files_[g + 1])
<1> DEFINE f == p.file
           i == p.index
           h == Height(f)
           t == trees[f + 1]
           s == set_leaf(t, i, p.hash)
           complete == Complete(storage.files_[f + 1], file_blocks_hashed_[f + 1])
           u == IF complete THEN update(s, job.isal) ELSE s
           m == BlockCount(Layout[f])
<1>1. /\ f \in RegularFiles /\ f \in 0 .. FileCount - 1 /\ f + 1 \in 1 .. FileCount /\ i \in LeafSet(f) /\ i \in Nat
      /\ p.hash = Digest(Block(f, i)) /\ p.hash # ZeroHash
  <2>1. f \in RegularFiles /\ i \in LeafSet(f) /\ p.hash = Digest(Block(f, i))
    BY DEF PieceOK
  <2> QED
    BY <2>1, BlockIsNotZero, ShapeParts, SMTT(30) DEF RegularFiles, LeafSet
<1>2. Frozen
  BY FrozenStep
<1>3. /\ h \in Nat /\ m \in Nat /\ pow2[h] \in Nat \ {0} /\ pow2[h + 1] = 2 * pow2[h] /\ m = BlockCount(File(f))
      /\ m <= pow2[h]
  BY <1>1, HeightFacts, Pow2Facts
<1>4. TreeOK(f) /\ Completed(f) /\ IsTree(t, h)
  BY <1>1 DEF V2Inv, FilesOK, TreeOK
<1>5. /\ CanSetLeaf(t, i) /\ trees' = [trees EXCEPT ![f + 1] = u]
      /\ file_blocks_hashed_' = [file_blocks_hashed_ EXCEPT ![f + 1] = @ + 1]
      /\ IF complete THEN set_piece_layers_and_root(f, u) ELSE UNCHANGED storage
  BY DEF TakeLeaf, Fail, Hashing
<1>6. /\ trees'[f + 1] = u /\ file_blocks_hashed_'[f + 1] = file_blocks_hashed_[f + 1] + 1
      /\ \A g \in 0 .. FileCount - 1 : g # f => /\ trees'[g + 1] = trees[g + 1]
                                                /\ file_blocks_hashed_'[g + 1] = file_blocks_hashed_[g + 1]
  <2>1. IsVector(trees, FileCount) /\ IsVector(file_blocks_hashed_, FileCount) /\ FileCount \in Nat
    BY ShapeParts DEF Hashing
  <2>2. DOMAIN trees = 1 .. FileCount /\ DOMAIN file_blocks_hashed_ = 1 .. FileCount
    BY <2>1, VectorFacts
  <2> HIDE DEF u
  <2> QED
    BY <1>1, <1>5, <2>2
<1> HIDE DEF f, i, h, t, m
<1>7. /\ i < pow2[h] /\ IsTree(s, h)
      /\ \A n \in 1 .. pow2[h + 1] - 1 : s[n] = IF n = pow2[h] + i THEN p.hash ELSE t[n]
  BY <1>1, <1>3, <1>4, <1>5, SetLeafFacts
<1> HIDE DEF s
<1>8. job.isal \in BOOLEAN
  BY DEF Shape, JobOK
<1>9. IsTree(u, h) /\ \A n \in pow2[h] .. pow2[h + 1] - 1 : u[n] = s[n]
  <2>1. CASE complete
    BY <1>3, <1>7, <1>8, <2>1, UpdateKeepsLeaves
  <2>2. CASE ~complete
    BY <1>7, <2>2
  <2> QED
    BY <2>1, <2>2
<1>10. \A j \in 0 .. pow2[h] - 1 : u[pow2[h] + j] = IF j = i THEN p.hash ELSE t[pow2[h] + j]
  <2> SUFFICES ASSUME NEW j \in 0 .. pow2[h] - 1 PROVE u[pow2[h] + j] = IF j = i THEN p.hash ELSE t[pow2[h] + j]
    OBVIOUS
  <2>1. /\ pow2[h] + j \in pow2[h] .. pow2[h + 1] - 1 /\ pow2[h] + j \in 1 .. pow2[h + 1] - 1
        /\ pow2[h] + j = pow2[h] + i <=> j = i
    BY <1>1, <1>3
  <2> QED
    BY <1>7, <1>9, <2>1
<1>11. Height(f)' = h /\ LeafSet(f)' = LeafSet(f) /\ BlockCount(Layout[f])' = m /\ \A j : Block(f, j)' = Block(f, j)
  BY <1>2 DEF Frozen, h, m
<1>12. f' = f /\ \A j : Leaf(f, j)' = u[pow2[h] + j] /\ Leaf(f, j) = t[pow2[h] + j]
  <2>1. f' = f
    BY DEF f
  <2> QED
    BY <1>6, <1>11, <2>1 DEF Leaf, h, t
<1> HIDE DEF u
<1>13. Taken(f)' = Taken(f) \cup {i}
  <2>1. Taken(f)' = {j \in 0 .. pow2[h] - 1 : u[pow2[h] + j] # ZeroHash}
    BY <1>11, <1>12 DEF Taken
  <2>2. Taken(f) = {j \in 0 .. pow2[h] - 1 : t[pow2[h] + j] # ZeroHash}
    BY <1>12 DEF Taken, h
  <2>3. i \in 0 .. pow2[h] - 1
    BY <1>1, <1>3, <1>7
  <2> QED
    BY <1>1, <1>10, <2>1, <2>2, <2>3
<1> DEFINE k == Cardinality(Taken(f))
<1>14. k \in Nat /\ Cardinality(Taken(f))' = k + 1 /\ file_blocks_hashed_[f + 1] = k
  <2>1. IsFiniteSet(Taken(f)) /\ k \in Nat
    BY <1>1, TakenFinite
  <2>2. i \notin Taken(f)
    BY DEF i, f
  <2>3. Cardinality(Taken(f) \cup {i}) = k + 1
    BY <2>1, <2>2, FS_AddElement
  <2> QED
    BY <1>4, <1>13, <2>1, <2>3 DEF TreeOK
<1>15. TreeOK(f)'
  <2>1. IsTree(trees[f + 1], Height(f))'
    BY <1>6, <1>9, <1>11, <1>12 DEF IsTree, IsVector
  <2>2. ASSUME NEW j \in Taken(f)' PROVE j \in LeafSet(f) /\ Leaf(f, j)' = Digest(Block(f, j))
    <3>1. CASE j = i
      <4>1. i \in 0 .. pow2[h] - 1
        BY <1>1, <1>3, <1>7
      <4> QED
        BY <1>1, <1>10, <1>12, <3>1, <4>1
    <3>2. CASE j # i
      <4>1. j \in Taken(f) /\ j \in 0 .. pow2[h] - 1
        BY <1>13, <2>2, <3>2 DEF Taken, h
      <4>2. j \in LeafSet(f) /\ Leaf(f, j) = Digest(Block(f, j))
        BY <1>4, <4>1 DEF TreeOK
      <4> QED
        BY <1>10, <1>12, <3>2, <4>1, <4>2
    <3> QED
      BY <3>1, <3>2
  <2>3. file_blocks_hashed_'[f + 1] = Cardinality(Taken(f))'
    BY <1>6, <1>14
  <2> QED
    BY <1>11, <1>12, <2>1, <2>2, <2>3 DEF TreeOK
<1>16. complete <=> m <= k + 1
  BY <1>3, <1>14 DEF Complete, File, m, f
<1>17. Done(f)' <=> complete
  <2>1. Taken(f)' # {}
    BY <1>13
  <2> QED
    BY <1>11, <1>14, <1>16, <2>1 DEF Done
<1> HIDE DEF complete
<1>18. Completed(f)'
  <2>1. CASE complete
    <3>1. SetsV2Data(f, u)
      BY <1>5, <2>1, SetLayersStorage DEF f
    <3>2. /\ storage'.files_[f + 1].has_v2_data_ /\ storage'.files_[f + 1].pieces_root_ = root(u)
          /\ storage'.files_[f + 1].piece_layer_ = LayerView(u, storage.files_[f + 1])
      BY <1>1, <3>1 DEF SetsV2Data
    <3>3. LayerView(u, storage.files_[f + 1]) = LayerView(u, Layout[f])
      <4>1. storage.files_[f + 1].file_size_ = Layout[f].file_size_
        BY <1>1, LayoutFacts DEF Size, File
      <4> QED
        BY <4>1 DEF LayerView
    <3>4. LayerView(trees[f + 1], Layout[f])' = LayerView(u, Layout[f])
      BY <1>2, <1>6, <1>12 DEF LayerView, Frozen
    <3>5. root(trees[f + 1])' = root(u)
      BY <1>6, <1>12 DEF root
    <3>6. ASSUME job.isal => m <= 2 PROVE IsHeap(trees[f + 1], Height(f))'
      <4>1. job.isal => h <= 1
        BY <1>1, <3>6, SmallTree DEF h, m
      <4>2. IsHeap(u, h)
        BY <1>3, <1>7, <1>8, <2>1, <4>1, UpdateFacts DEF u
      <4> QED
        BY <1>6, <1>11, <1>12, <4>2 DEF IsHeap
    <3>7. /\ File(f)'.has_v2_data_ /\ File(f)'.pieces_root_ = root(trees[f + 1])'
          /\ File(f)'.piece_layer_ = LayerView(trees[f + 1], Layout[f])'
      BY <1>12, <3>2, <3>3, <3>4, <3>5 DEF File
    <3> QED
      BY <1>11, <1>12, <1>17, <2>1, <3>6, <3>7 DEF Completed
  <2>2. CASE ~complete
    <3>1. storage' = storage
      BY <1>5, <2>2
    <3>2. ~Done(f)
      BY <1>3, <1>14, <1>16, <2>2 DEF Done, m
    <3>3. ~File(f).has_v2_data_
      BY <1>4, <3>2 DEF Completed
    <3>4. ~File(f)'.has_v2_data_
      BY <1>12, <3>1, <3>3 DEF File
    <3> QED
      BY <1>12, <1>17, <2>2, <3>4 DEF Completed
  <2> QED
    BY <2>1, <2>2
<1>19. ASSUME NEW g \in RegularFiles, g # f
       PROVE  /\ trees'[g + 1] = trees[g + 1] /\ file_blocks_hashed_'[g + 1] = file_blocks_hashed_[g + 1]
              /\ SameV2Data(storage'.files_[g + 1], storage.files_[g + 1])
  <2>1. g \in 0 .. FileCount - 1 /\ g + 1 \in 1 .. FileCount /\ g + 1 # f + 1
    BY <1>1, <1>19, ShapeParts DEF RegularFiles
  <2>2. CASE complete
    <3>1. SetsV2Data(f, u)
      BY <1>5, <2>2, SetLayersStorage DEF f
    <3> QED
      BY <1>6, <1>19, <2>1, <3>1 DEF SetsV2Data
  <2>3. CASE ~complete
    BY <1>5, <1>6, <1>19, <2>1, <2>3 DEF SameV2Data
  <2> QED
    BY <2>2, <2>3
<1> QED
  BY <1>13, <1>15, <1>18, <1>19 DEF f, i

(* The writer takes a leaf: it was in no tree before.                      *)
LEMMA PushV2Inv ==
    ASSUME Shape, Hashing, V2Inv, KeepsShape, NEW w \in Workers, PushPiece(w), Head(pushing[w]).kind = "v2",
           terminated' = "no"
    PROVE  V2Inv'
<1>0. PICK p : p = Head(pushing[w])
  OBVIOUS
<1>1. /\ pushing[w] # <<>> /\ pushing' = [pushing EXCEPT ![w] = Tail(@)] /\ TakeLeaf(p)
      /\ UNCHANGED <<job, disk, reader, f_, file_index_, piece_index_, chunks>>
  BY <1>0 DEF PushPiece, rvars
<1>2. PieceOK(p)
  <2>1. IsSeq(pushing[w])
    BY ShapeParts DEF PiecesShape
  <2>2. p = pushing[w][1] /\ 1 \in 1 .. Len(pushing[w])
    BY <1>0, <1>1, <2>1, TailFacts
  <2> QED
    BY <2>2 DEF V2Inv, PiecesOK
<1>3. p.file \in RegularFiles /\ p.index \in LeafSet(p.file)
  BY <1>0, <1>2 DEF PieceOK
<1>4. p.index \notin Taken(p.file)
  <2>1. ~NotPushed(p.file, p.index)
    <3>1. Holds(p, p.file, p.index)
      BY <1>0 DEF Holds
    <3> QED
      BY <1>0, <1>1, <3>1, PoppedLeaf
  <2>2. Place(p.file, p.index)
    BY <1>3 DEF V2Inv, LeavesOK
  <2> QED
    BY <2>1, <2>2 DEF Place, InFile, InChunk, InPiece, InTree
<1>5. p.kind = "v2" /\ UNCHANGED job
  BY <1>0, <1>1
<1>6. /\ Taken(p.file)' = Taken(p.file) \cup {p.index}
      /\ TreeOK(p.file)' /\ Completed(p.file)'
      /\ \A g \in RegularFiles : g # p.file =>
             /\ trees'[g + 1] = trees[g + 1] /\ file_blocks_hashed_'[g + 1] = file_blocks_hashed_[g + 1]
             /\ SameV2Data(storage'.files_[g + 1], storage.files_[g + 1])
  BY <1>1, <1>2, <1>4, <1>5, TakeLeafFile
<1>7. Frozen
  BY <1>5, FrozenStep
<1>9. ASSUME NEW g \in RegularFiles, g # p.file PROVE TreeOK(g)' /\ Completed(g)' /\ Taken(g)' = Taken(g)
  <2>1. TreeOK(g) /\ Completed(g)
    BY DEF V2Inv, FilesOK
  <2>2. /\ trees'[g + 1] = trees[g + 1] /\ file_blocks_hashed_'[g + 1] = file_blocks_hashed_[g + 1]
        /\ SameV2Data(storage'.files_[g + 1], storage.files_[g + 1])
    BY <1>6, <1>9
  <2> QED
    BY <1>5, <1>7, <2>1, <2>2, FileKept, TakenKept
<1>10. FilesOK'
  <2>1. \A g \in RegularFiles : TreeOK(g)' /\ Completed(g)'
    BY <1>6, <1>9
  <2> QED
    BY <1>7, <2>1 DEF FilesOK, Frozen
<1>11. ASSUME NEW g \in RegularFiles, NEW j \in LeafSet(g)
       PROVE  j \in Taken(g)' <=> j \in Taken(g) \/ Holds(p, g, j)
  <2>1. CASE g = p.file
    BY <1>5, <1>6, <2>1 DEF Holds
  <2>2. CASE g # p.file
    BY <1>9, <2>2 DEF Holds
  <2> QED
    BY <2>1, <2>2
<1> QED
  BY <1>0, <1>1, <1>10, <1>11, PushStep

-----------------------------------------------------------------------------
(* Every step keeps the invariant.                                         *)
LEMMA InvStep == Inv /\ [Next]_vars => Inv'
<1> SUFFICES ASSUME Inv, [Next]_vars PROVE Inv'
  OBVIOUS
<1>1. CASE Next
  <2>1. Shape /\ KeepsShape /\ UNCHANGED <<job, disk>>
    BY <1>1, ShapeStep DEF Inv
  <2> SUFFICES ASSUME Hashing' PROVE V2Inv'
    BY <2>1 DEF Inv, KeepsShape
  <2>2. terminated' = "no" /\ ~job.verify /\ ~V1Reader
    BY <2>1 DEF Hashing, V1Reader
  <2>3. terminated = "no"
    BY <1>1 DEF Next, Reader, handle_missing_file, SkipPadding, MissingFile2, Open, AtFile, Read1, Read2,
                ReaderEnd, ChecksumChunk, HashChunk, PushPiece
  <2>4. Hashing /\ V2Inv
    BY <2>2, <2>3 DEF Hashing, Inv
  <2>5. ~MissingFile2
    <3> SUFFICES ASSUME MissingFile2 PROVE FALSE
      OBVIOUS
    <3>1. /\ file_index_ < FileCount /\ ~is_padding_file(storage.files_[file_index_ + 1])
          /\ disk[storage.files_[file_index_ + 1].path_] = "missing"
      BY DEF MissingFile2, AtFile, Exists, File
    <3>2. file_index_ + 1 \in 1 .. FileCount
      BY <2>1, <3>1, ShapeParts
    <3> QED
      BY <2>1, <2>2, <3>1, <3>2 DEF Shape, PathsOK
  <2>6. ~handle_missing_file /\ ~Read1
    BY <2>2 DEF handle_missing_file, Read1
  <2>7. ASSUME NEW w \in Workers, PushPiece(w) PROVE V2Inv'
    BY <2>1, <2>2, <2>4, <2>7, PushV1Inv, PushV2Inv
  <2> QED
    BY <1>1, <2>1, <2>2, <2>4, <2>5, <2>6, <2>7, SkipPaddingInv, OpenInv, ReaderEndInv, Read2Inv, HashChunkInv,
       ChecksumInv DEF Next, Reader
<1>2. CASE UNCHANGED vars
  <2>1. UNCHANGED <<job, disk, reader, f_, file_index_, piece_index_, chunk_, chunks, sums, pushing,
                    storage, trees, file_blocks_hashed_, terminated>>
    BY <1>2 DEF vars, rvars, wvars
  <2>2. Shape /\ SameFiles
    BY <2>1, StorageUnchanged DEF Inv
  <2>3. KeepsShape
    <3>1. UNCHANGED <<job, disk>> /\ V1Reader' = V1Reader
      BY <2>1 DEF V1Reader
    <3>2. /\ reader' \in {"files", "reading", "exited"} /\ f_' \in Nat /\ piece_index_' \in Nat
          /\ file_index_' \in 0 .. FileCount
          /\ reader' = "reading" => IF V1Reader THEN file_index_' > 0 ELSE file_index_' < FileCount
          /\ IsSeq(chunk_') /\ Len(chunk_') < ChunkSize
      BY <2>1, <2>2 DEF Shape, ReaderShape
    <3>3. /\ ChunksShape(chunks') /\ ChunksShape(sums')
          /\ pushing' = [w \in Workers |-> pushing'[w]] /\ \A w \in Workers : PiecesShape(pushing'[w])
          /\ V1Reader => UNCHANGED <<trees, file_blocks_hashed_>>
          /\ ~V1Reader => IsVector(trees', FileCount) /\ IsVector(file_blocks_hashed_', FileCount)
      BY <2>1, <2>2, ShapeParts
    <3> QED
      BY <2>2, <3>1, <3>2, <3>3, ShapeFrom
  <2> SUFFICES ASSUME Hashing' PROVE V2Inv'
    BY <2>3 DEF Inv, KeepsShape
  <2>4. Hashing /\ V2Inv
    BY <2>1 DEF Hashing, V1Reader, Inv
  <2>5. Frozen
    BY <2>1, <2>3, FrozenStep
  <2>6. ReaderOK'
    BY <2>1, <2>4, <2>5 DEF ReaderOK, V2Inv, Frozen, Size
  <2>7. ASSUME NEW f \in RegularFiles, NEW j \in LeafSet(f) PROVE Unread(f, j)' <=> Unread(f, j)
    BY <2>1 DEF Unread, FirstLeaf
  <2> QED
    BY <2>1, <2>2, <2>3, <2>4, <2>6, <2>7, ReaderStep
<1> QED
  BY <1>1, <1>2

(* The leaves of a v2 job are each in one place, and every tree holds the  *)
(* digests of the blocks whose leaves it has taken.                        *)
THEOREM V2Invariant == Spec => []Inv
  BY InitInv, InvStep, PTL DEF Spec

-----------------------------------------------------------------------------
(* The leaves of a file are its blocks, the one behind a file of whole     *)
(* chunks, and the one of an empty file.                                   *)
LEMMA LeafSetFacts ==
    ASSUME Shape, NEW f \in RegularFiles, NEW b, b = BlockCount(Layout[f])
    PROVE  /\ b \in Nat /\ (b = 0 <=> Size(f) = 0)
           /\ ExtraLeaf(Layout[f]) => LeafSet(f) = 0 .. b /\ b * BlockSize = Size(f)
           /\ ~ExtraLeaf(Layout[f]) /\ Size(f) # 0 => LeafSet(f) = 0 .. b - 1
           /\ ~ExtraLeaf(Layout[f]) /\ Size(f) = 0 => LeafSet(f) \subseteq {0}
<1> DEFINE n == Size(f)
           y == BlockSize
<1>1. n \in Nat /\ b \in Nat /\ b = div_ceil(n, y) /\ y \in Nat \ {0}
  BY HeightFacts, LayoutFacts, Positive DEF RegularFiles
<1> HIDE DEF n
<1>2. n <= y * b /\ y * b < n + y
  BY <1>1, CeilFacts
<1>3. ASSUME NEW j \in Nat PROVE j * y < n <=> j < b
  BY <1>1, CeilBelow
<1>4. b = 0 <=> n = 0
  <2>1. 0 * y = 0
    BY <1>1
  <2> QED
    BY <1>1, <1>3, <2>1
<1>5. ExtraLeaf(Layout[f]) <=> ~job.multi /\ n # 0 /\ n % ChunkSize = 0
  BY DEF ExtraLeaf, Size, n
<1>6. ASSUME NEW j \in Nat
      PROVE j \in LeafSet(f) <=> j < b \/ (j * y = n /\ ~job.multi /\ n % ChunkSize = 0)
  BY <1>3 DEF LeafSet, n
<1>7. ASSUME NEW j \in Nat, j * y = n PROVE j = b
  BY <1>1, <1>7, ExactCeil
<1>8. n % ChunkSize = 0 => b * y = n
  <2> SUFFICES ASSUME n % ChunkSize = 0 PROVE b * y = n
    OBVIOUS
  <2> DEFINE K == BlocksPerChunk
             q == n \div ChunkSize
  <2>1. K \in Nat \ {0} /\ ChunkSize \in Nat \ {0} /\ ChunkSize = y * K
    BY SizeFacts
  <2>2. q \in Nat /\ ChunkSize * q = n
    BY <1>1, <2>1, DivFacts
  <2> HIDE DEF K, q
  <2>3. (K * q) * y = (y * K) * q /\ K * q \in Nat
    BY <1>1, <2>1, <2>2
  <2>4. (K * q) * y = n
    BY <2>1, <2>2, <2>3
  <2> QED
    BY <1>7, <2>3, <2>4
<1>9. LeafSet(f) \subseteq Nat
  BY DEF LeafSet
<1>10. ASSUME ExtraLeaf(Layout[f]) PROVE LeafSet(f) = 0 .. b
  <2>1. ~job.multi /\ n % ChunkSize = 0 /\ b * y = n
    BY <1>5, <1>8, <1>10
  <2>2. ASSUME NEW j \in Nat PROVE j \in LeafSet(f) <=> j <= b
    <3>1. j * y = n <=> j = b
      BY <1>7, <2>1
    <3> QED
      BY <1>1, <1>6, <2>1, <3>1
  <2>3. ASSUME NEW j PROVE j \in LeafSet(f) <=> j \in 0 .. b
    BY <1>1, <1>9, <2>2
  <2> QED
    BY <2>3, Zenon
<1>11. ASSUME ~ExtraLeaf(Layout[f]), n # 0 PROVE LeafSet(f) = 0 .. b - 1
  <2>1. \A j \in Nat : j \in LeafSet(f) <=> j < b
    <3>1. ~(~job.multi /\ n % ChunkSize = 0)
      BY <1>5, <1>11
    <3> QED
      BY <1>6, <3>1
  <2>3. ASSUME NEW j PROVE j \in LeafSet(f) <=> j \in 0 .. b - 1
    BY <1>1, <1>9, <2>1
  <2> QED
    BY <2>3, Zenon
<1>12. ASSUME n = 0 PROVE LeafSet(f) \subseteq {0}
  <2>1. ASSUME NEW j \in Nat, j \in LeafSet(f) PROVE j = 0
    <3>1. ~(j < b) /\ b = 0
      BY <1>1, <1>4, <1>12
    <3>2. j * y = n
      BY <1>6, <2>1, <3>1
    <3> QED
      BY <1>7, <3>1, <3>2
  <2> QED
    BY <1>9, <2>1
<1> QED
  BY <1>1, <1>4, <1>5, <1>8, <1>10, <1>11, <1>12 DEF n

(* A completed file without an extra leaf has no leaf left to take.        *)
LEMMA NoLeafLeft ==
    ASSUME Shape, NEW f \in RegularFiles, TreeOK(f), Done(f), ~ExtraLeaf(Layout[f]), NEW i \in LeafSet(f)
    PROVE  i \in Taken(f)
<1> SUFFICES ASSUME i \notin Taken(f) PROVE FALSE
  OBVIOUS
<1> DEFINE b == BlockCount(Layout[f])
           m == IF b = 0 THEN 1 ELSE b
<1>1. b \in Nat /\ m \in Nat /\ LeafSet(f) \subseteq 0 .. m - 1
  BY LeafSetFacts
<1>2. Taken(f) \subseteq (0 .. m - 1) \ {i} /\ i \in 0 .. m - 1
  BY <1>1 DEF TreeOK
<1>3. Taken(f) # {} /\ b <= Cardinality(Taken(f)) /\ IsFiniteSet(Taken(f)) /\ Cardinality(Taken(f)) \in Nat
  BY TakenFinite DEF Done
<1> HIDE DEF m, b
<1>4. IsFiniteSet(0 .. m - 1) /\ Cardinality(0 .. m - 1) = m
  <2>1. m - 1 \in Int /\ 0 \in Int /\ (IF 0 > m - 1 THEN 0 ELSE m - 1 - 0 + 1) = m
    BY <1>1, <1>2
  <2> QED
    BY <2>1, FS_Interval
<1>5. IsFiniteSet((0 .. m - 1) \ {i}) /\ Cardinality((0 .. m - 1) \ {i}) = m - 1
  BY <1>2, <1>4, FS_RemoveElement
<1>6. Cardinality(Taken(f)) <= m - 1
  BY <1>2, <1>5, FS_Subset
<1>7. Cardinality(Taken(f)) # 0
  BY <1>3, FS_EmptySet
<1> QED
  BY <1>1, <1>3, <1>6, <1>7 DEF m

(* The step that a file's root and layer survive.                          *)
RootsKept ==
    \A i \in DOMAIN storage.files_ :
        storage.files_[i].has_v2_data_ /\ ~ExtraLeaf(storage.files_[i]) =>
            storage'.files_[i].pieces_root_ = storage.files_[i].pieces_root_ /\
            storage'.files_[i].piece_layer_ = storage.files_[i].piece_layer_

(* Steps that keep all v2 data keep roots and layers.                      *)
LEMMA KeepsRoots ==
    ASSUME Shape, KeepsV2Data PROVE RootsKept
<1>1. DOMAIN storage.files_ = 1 .. FileCount
  BY ShapeParts, VectorFacts DEF Shape, HasFiles
<1> QED
  BY <1>1 DEF KeepsV2Data, SameV2Data, RootsKept

(* No step changes a root or a layer that is set.                          *)
LEMMA RootsStep == Inv /\ [Next]_vars => [RootsKept]_storage
<1> SUFFICES ASSUME Inv, Next, storage' # storage PROVE RootsKept
  BY DEF vars, wvars
<1>1. Shape
  BY DEF Inv
<1>2. CASE ChecksumChunk
  BY <1>1, <1>2, ChecksumStorage, KeepsRoots
<1>3. ASSUME NEW w \in Workers, PushPiece(w) PROVE RootsKept
  <2>0. PICK p : p = Head(pushing[w])
    OBVIOUS
  <2>1. pushing[w] # <<>> /\ terminated = "no" /\ IF p.kind = "v2" THEN TakeLeaf(p) ELSE TakePiece(p)
    BY <1>3, <2>0 DEF PushPiece
  <2>2. CASE p.kind # "v2"
    BY <1>1, <2>1, <2>2, TakePieceStorage, KeepsRoots
  <2>3. CASE p.kind = "v2"
    <3>1. IsSeq(pushing[w]) /\ PieceShape(p)
      BY <1>1, <2>0, <2>1, ShapeParts, TailPieces DEF PiecesShape
    <3>2. ~V1Reader /\ p.file \in 0 .. FileCount - 1
      BY <2>3, <3>1 DEF PieceShape
    <3>3. PICK u : ~job.verify /\ set_piece_layers_and_root(p.file, u)
      BY <2>1, <2>3 DEF TakeLeaf, wvars
    <3>4. V2Inv
      BY <2>1, <3>2, <3>3 DEF Inv, Hashing
    <3>5. PieceOK(p)
      <4>1. p = pushing[w][1] /\ 1 \in 1 .. Len(pushing[w])
        BY <2>0, <2>1, <3>1, TailFacts
      <4> QED
        BY <3>4, <4>1 DEF V2Inv, PiecesOK
    <3>6. p.file \in RegularFiles /\ p.index \in LeafSet(p.file)
      BY <2>3, <3>5 DEF PieceOK
    <3>7. p.index \notin Taken(p.file)
      <4>1. Holds(p, p.file, p.index)
        BY <2>3 DEF Holds
      <4>2. pushing' = [pushing EXCEPT ![w] = Tail(@)]
        BY <1>3 DEF PushPiece
      <4>3. ~NotPushed(p.file, p.index)
        BY <1>1, <2>0, <2>1, <4>1, <4>2, PoppedLeaf
      <4>4. Place(p.file, p.index)
        BY <3>4, <3>6 DEF V2Inv, LeavesOK
      <4> QED
        BY <4>3, <4>4 DEF Place, InFile, InChunk, InPiece, InTree
    <3>8. File(p.file).has_v2_data_ => ExtraLeaf(Layout[p.file])
      <4>1. TreeOK(p.file) /\ Completed(p.file)
        BY <3>4, <3>6 DEF V2Inv, FilesOK
      <4> QED
        BY <1>1, <3>6, <3>7, <4>1, NoLeafLeft DEF Completed
    <3>9. ExtraLeaf(Layout[p.file]) <=> ExtraLeaf(File(p.file))
      BY <1>1, <3>2, LayoutFacts DEF ExtraLeaf, Size
    <3>10. SetsV2Data(p.file, u)
      BY <1>1, <3>3, SetLayersStorage
    <3>11. DOMAIN storage.files_ = 1 .. FileCount
      BY <1>1, ShapeParts, VectorFacts DEF Shape, HasFiles
    <3> QED
      BY <3>8, <3>9, <3>10, <3>11 DEF RootsKept, SetsV2Data, SameV2Data, File
  <2> QED
    BY <2>2, <2>3
<1> QED
  BY <1>2, <1>3 DEF Next, Reader, handle_missing_file, SkipPadding, MissingFile2, Open, Read1, Read2, ReaderEnd,
                    HashChunk, wvars

(* A file is completed once.                                               *)
THEOREM FileCompletedOnce == Spec => RootSetOnce
<1>1. RootSetOnce <=> [][RootsKept]_storage
  BY DEF RootSetOnce, RootsKept
<1> QED
  BY <1>1, V2Invariant, RootsStep, PTL DEF Spec

-----------------------------------------------------------------------------
(* The tree of the reference: some heap over the balanced leaves.          *)
IsReference(v, leaves, h) ==
    /\ IsTree(v, h) /\ IsHeap(v, h) /\ root(v) = MerkleRoot(leaves)
    /\ \A i \in 1 .. pow2[h] : v[pow2[h] + i - 1] = Balanced(leaves, h)[i]
    /\ \A k \in 0 .. h : get_layer(v, h - k) = MerkleLevels(leaves)[k]

(* There is one: what update() makes of the leaves.                        *)
LEMMA ReferenceExists ==
    ASSUME NEW leaves, Len(leaves) \in Nat \ {0}, NEW h, h = log2_ceil(Len(leaves))
    PROVE  \E v : IsReference(v, leaves, h)
<1>0. PICK batched \in BOOLEAN : ~batched
  OBVIOUS
<1> DEFINE base == Balanced(leaves, h)
           t == [n \in 1 .. pow2[h + 1] - 1 |-> IF n >= pow2[h] THEN base[n - pow2[h] + 1] ELSE ZeroHash]
           v == update(t, batched)
<1>1. h \in Nat /\ pow2[h] \in Nat \ {0} /\ pow2[h + 1] = 2 * pow2[h]
  <2>1. h \in Nat
    BY Log2Ceil
  <2> QED
    <3>1. pow2[h] \in Nat /\ pow2[h] > 0 /\ pow2[h + 1] = 2 * pow2[h]
      BY <2>1, Pow2Facts
    <3> HIDE DEF base
    <3> QED
      BY <2>1, <3>1
<1>2. IsTree(t, h)
  <2> HIDE DEF base
  <2> QED
    BY DEF IsTree, IsVector
<1>3. \A n \in 1 .. pow2[h + 1] - 1 : n >= pow2[h] => t[n] = base[n - pow2[h] + 1]
  <2> HIDE DEF base
  <2> QED
    OBVIOUS
<1> HIDE DEF base, t
<1>4. \A i \in 1 .. pow2[h] : t[pow2[h] + i - 1] = base[i] /\ pow2[h] + i - 1 \in pow2[h] .. pow2[h + 1] - 1
  <2> SUFFICES ASSUME NEW i \in 1 .. pow2[h]
               PROVE  t[pow2[h] + i - 1] = base[i] /\ pow2[h] + i - 1 \in pow2[h] .. pow2[h + 1] - 1
    OBVIOUS
  <2>1. PICK n : n = pow2[h] + i - 1
    OBVIOUS
  <2>2. n \in 1 .. pow2[h + 1] - 1 /\ n >= pow2[h] /\ n - pow2[h] + 1 = i /\ n \in pow2[h] .. pow2[h + 1] - 1
    BY <1>1, <2>1, SMTT(30)
  <2>3. t[n] = base[n - pow2[h] + 1]
    BY <1>3, <2>2, Zenon
  <2>4. t[n] = base[i]
    BY <2>2, <2>3, Zenon
  <2> QED
    BY <2>1, <2>2, <2>4, Zenon
<1>5. root(v) = MerkleRoot(leaves) /\ \A k \in 0 .. h : get_layer(v, h - k) = MerkleLevels(leaves)[k]
  <2>1. (batched => h <= 1) /\ \A i \in 1 .. pow2[h] : t[pow2[h] + i - 1] = Balanced(leaves, h)[i]
    BY <1>0, <1>4 DEF base
  <2> QED
    BY <1>2, <2>1, UpdateIsMerkleTree
<1>6. IsTree(v, h) /\ IsHeap(v, h) /\ \A n \in pow2[h] .. pow2[h + 1] - 1 : v[n] = t[n]
  <2>1. batched => h <= 1
    BY <1>0
  <2> QED
    BY <1>1, <1>2, <2>1, UpdateFacts
<1> HIDE DEF v
<1>7. IsReference(v, leaves, h)
  BY <1>4, <1>5, <1>6 DEF IsReference, base
<1> QED
  BY <1>7

(* Two heaps that agree on their first m leaves agree, c layers up, on     *)
(* every node over these leaves.                                           *)
LEMMA LocalHeap ==
    ASSUME NEW h \in Nat, NEW u, NEW v, IsHeap(u, h), IsHeap(v, h), NEW m \in 0 .. pow2[h],
           \A j \in 0 .. m - 1 : u[pow2[h] + j] = v[pow2[h] + j],
           NEW c \in 0 .. h, NEW i \in Nat, (i + 1) * pow2[c] <= m
    PROVE  u[pow2[h - c] + i] = v[pow2[h - c] + i]
<1> DEFINE A == {k \in Nat : k <= h => \A l \in Nat : (l + 1) * pow2[k] <= m =>
                                           u[pow2[h - k] + l] = v[pow2[h - k] + l]}
<1>0. pow2[h] \in Nat /\ m \in Nat /\ m <= pow2[h]
  BY Pow2Facts
<1>1. 0 \in A
  <2> SUFFICES ASSUME NEW l \in Nat, (l + 1) * pow2[0] <= m PROVE u[pow2[h - 0] + l] = v[pow2[h - 0] + l]
    OBVIOUS
  <2>1. l \in 0 .. m - 1 /\ h - 0 = h
    BY <1>0, Pow2Facts
  <2> QED
    BY <2>1
<1>2. ASSUME NEW k \in A PROVE k + 1 \in A
  <2> SUFFICES ASSUME k + 1 <= h, NEW l \in Nat, (l + 1) * pow2[k + 1] <= m
               PROVE  u[pow2[h - (k + 1)] + l] = v[pow2[h - (k + 1)] + l]
    BY <1>2
  <2> DEFINE p == pow2[k]
             d == h - (k + 1)
             x == pow2[d]
             n == x + l
  <2>1. k \in Nat /\ d \in Nat /\ h - k = d + 1 /\ k <= h /\ d + (k + 1) = h
    BY <1>2
  <2>2. /\ p \in Nat \ {0} /\ pow2[k + 1] = 2 * p /\ x \in Nat \ {0} /\ pow2[h - k] = 2 * x
        /\ pow2[h] = x * pow2[k + 1]
    <3>1. pow2[d + (k + 1)] = pow2[d] * pow2[k + 1]
      BY <2>1, Pow2Sum
    <3> QED
      BY <2>1, <3>1, Pow2Facts
  <2>3. \A g \in Nat : (g + 1) * p <= m => u[2 * x + g] = v[2 * x + g]
    BY <1>2, <2>1, <2>2
  <2>4. (2 * l + 1) * p <= m /\ (2 * l + 2) * p <= m
    <3> HIDE DEF p
    <3>1. /\ (l + 1) * (2 * p) = (2 * l + 2) * p /\ (2 * l + 2) * p = (2 * l + 1) * p + p
          /\ (2 * l + 1) * p \in Nat
      BY <2>2
    <3>2. (2 * l + 2) * p <= m
      BY <2>2, <3>1
    <3> QED
      BY <1>0, <2>2, <3>1, <3>2
  <2>5. l < x
    <3> SUFFICES ASSUME x <= l PROVE FALSE
      BY <2>2
    <3> DEFINE y == pow2[k + 1]
    <3>1. y \in Nat \ {0} /\ l - x \in Nat
      BY <2>2
    <3> HIDE DEF y, x
    <3>2. (l + 1) * y = x * y + (l - x) * y + y /\ x * y \in Nat /\ (l - x) * y \in Nat
      BY <2>2, <3>1
    <3>3. (l + 1) * y <= m /\ m <= x * y
      BY <1>0, <2>2 DEF y
    <3> QED
      BY <1>0, <3>1, <3>2, <3>3
  <2>6. n \in 1 .. pow2[h] - 1
    <3>1. x + l < 2 * x /\ 2 * x <= pow2[h]
      <4>1. 2 * x = pow2[h - k] /\ h - k \in Nat /\ h - k <= h
        BY <2>1, <2>2
      <4>2. pow2[h - k] <= pow2[h]
        BY <4>1, Pow2Monotone
      <4> QED
        BY <2>2, <2>5, <4>1, <4>2
    <3> QED
      BY <1>0, <2>2, <3>1
  <2>7. /\ 2 * n = 2 * x + 2 * l /\ 2 * n + 1 = 2 * x + (2 * l + 1)
        /\ 2 * l \in Nat /\ 2 * l + 1 \in Nat /\ (2 * l + 1) + 1 = 2 * l + 2
    BY <2>2
  <2>8. u[2 * n] = v[2 * n] /\ u[2 * n + 1] = v[2 * n + 1]
    BY <2>3, <2>4, <2>7
  <2>9. u[n] = v[n]
    BY <2>6, <2>8 DEF IsHeap
  <2> QED
    BY <2>9
<1>3. A \in SUBSET Nat
  OBVIOUS
<1> HIDE DEF A
<1>4. A = Nat
  BY <1>1, <1>2, <1>3, Induction
<1>5. c \in A /\ c <= h
  BY <1>4
<1> QED
  BY <1>5 DEF A

-----------------------------------------------------------------------------
(* The piece layer of a file with more than one piece is the layer of its  *)
(* tree whose height is that of a tree over the pieces.                    *)
LEMMA PieceTree ==
    ASSUME Shape, NEW f \in RegularFiles, Size(f) # 0,
           NEW n, n = Size(f), NEW o, o = LayerOffset, NEW h, h = Height(f), NEW q, q = div_ceil(n, PieceSize)
    PROVE  /\ h \in Nat /\ o \in Nat /\ q \in Nat \ {0}
           /\ n <= PieceSize <=> o >= h
           /\ o < h => /\ h - o \in 1 .. h /\ q <= pow2[h - o] /\ pow2[h - o - 1] < q
                       /\ log2_ceil(q) = h - o
<1> DEFINE b == BlockCount(Layout[f])
           y == BlockSize
<1>1. n \in Nat \ {0} /\ b \in Nat \ {0} /\ b = div_ceil(n, y) /\ h = log2_ceil(b)
  BY HeightFacts, LayoutFacts, LeafSetFacts DEF RegularFiles, Height
<1>2. y \in Nat \ {0} /\ PieceSize \in Nat \ {0} /\ o \in Nat /\ PieceSize = y * pow2[o]
  BY SizeFacts
<1>3. h \in Nat /\ b <= pow2[h] /\ (h > 0 => pow2[h - 1] < b) /\ pow2[h] \in Nat /\ pow2[o] \in Nat \ {0}
  <2>1. h \in Nat /\ b <= pow2[h] /\ (h > 0 => pow2[h - 1] < b)
    BY <1>1, Log2Ceil
  <2>2. pow2[h] \in Nat /\ pow2[o] \in Nat /\ pow2[o] > 0
    BY <1>2, <2>1, Pow2Facts
  <2> QED
    BY <2>1, <2>2
<1> HIDE DEF b, y
<1>4. q \in Nat /\ (\A k \in Nat : k * PieceSize < n <=> k < q) /\ (\A k \in Nat : k * y < n <=> k < b)
  <2>1. q \in Nat
    BY <1>1, <1>2, CeilFacts
  <2>2. \A k \in Nat : k * PieceSize < n <=> k < q
    BY <1>1, <1>2, CeilBelow
  <2>3. \A k \in Nat : k * y < n <=> k < b
    BY <1>1, <1>2, CeilBelow
  <2> QED
    BY <2>1, <2>2, <2>3
<1>5. q # 0
  <2>1. 0 * PieceSize = 0
    BY <1>2
  <2> QED
    BY <1>1, <1>4, <2>1
<1>6. n <= PieceSize <=> b <= pow2[o]
  <2>1. pow2[o] * y = PieceSize
    BY <1>2, <1>3
  <2>2. pow2[o] * y < n <=> pow2[o] < b
    BY <1>3, <1>4
  <2> QED
    BY <1>1, <1>2, <1>3, <2>1, <2>2
<1>7. n <= PieceSize <=> o >= h
  <2>1. CASE o >= h
    <3>1. pow2[h] <= pow2[o]
      BY <1>2, <1>3, <2>1, Pow2Monotone
    <3> QED
      BY <1>1, <1>3, <1>6, <2>1, <3>1
  <2>2. CASE o < h
    <3>1. h - 1 \in Nat /\ o <= h - 1
      BY <1>2, <1>3, <2>2
    <3>2. pow2[o] <= pow2[h - 1] /\ pow2[h - 1] \in Nat
      BY <1>2, <3>1, Pow2Monotone, Pow2Facts
    <3> QED
      BY <1>1, <1>2, <1>3, <1>6, <2>2, <3>2
  <2> QED
    BY <1>2, <1>3, <2>1, <2>2
<1>8. ASSUME o < h PROVE h - o \in 1 .. h /\ q <= pow2[h - o] /\ pow2[h - o - 1] < q /\ log2_ceil(q) = h - o
  <2> DEFINE d == h - o
  <2>1. d \in 1 .. h /\ d \in Nat /\ d - 1 \in Nat /\ d + o = h /\ (d - 1) + o = h - 1
    BY <1>2, <1>3, <1>8
  <2>2. pow2[h] = pow2[d] * pow2[o] /\ pow2[h - 1] = pow2[d - 1] * pow2[o] /\ pow2[d] \in Nat /\ pow2[d - 1] \in Nat
    <3>1. pow2[d + o] = pow2[d] * pow2[o] /\ pow2[(d - 1) + o] = pow2[d - 1] * pow2[o]
      <4> HIDE DEF d
      <4> QED
        BY <1>2, <2>1, Pow2Sum
    <3> QED
      BY <2>1, <3>1, Pow2Facts
  <2> HIDE DEF d
  <2>3. pow2[d] * PieceSize = pow2[h] * y /\ pow2[d - 1] * PieceSize = pow2[h - 1] * y
    <3> DEFINE r == pow2[o]
               a == pow2[d]
               c == pow2[d - 1]
    <3>1. r \in Nat /\ a \in Nat /\ c \in Nat /\ PieceSize = y * r /\ pow2[h] = a * r /\ pow2[h - 1] = c * r
      BY <1>2, <1>3, <2>2
    <3> HIDE DEF r, a, c
    <3>2. a * (y * r) = (a * r) * y /\ c * (y * r) = (c * r) * y
      BY <1>2, <3>1
    <3> QED
      BY <3>1, <3>2 DEF a, c
  <2>4. ~(pow2[h] * y < n) /\ pow2[h - 1] * y < n
    <3>1. h > 0 /\ pow2[h - 1] \in Nat
      BY <1>2, <1>3, <1>8, <2>1, Pow2Facts
    <3> QED
      BY <1>1, <1>3, <1>4, <3>1
  <2>5. ~(pow2[d] < q) /\ pow2[d - 1] < q
    BY <1>4, <2>2, <2>3, <2>4
  <2>6. q <= pow2[d] /\ d > 0
    BY <1>4, <2>1, <2>2, <2>5
  <2>7. log2_ceil(q) = d
    BY <1>4, <1>5, <2>1, <2>5, <2>6, Log2CeilUnique
  <2> QED
    BY <2>1, <2>5, <2>6, <2>7 DEF d
<1> QED
  BY <1>2, <1>3, <1>4, <1>5, <1>7, <1>8

(* The digests of the blocks, as the reference counts them.                *)
LEMMA LeavesFacts ==
    ASSUME Shape, NEW f \in RegularFiles, NEW b, b = BlockCount(Layout[f]), NEW l, l = Leaves(Layout[f])
    PROVE  /\ b \in Nat /\ Len(l) = b
           /\ \A i \in 1 .. b : l[i] = Digest(Block(f, i - 1))
<1> DEFINE s == Bytes(Layout[f])
           x == Cut(s, BlockSize)
<1>1. b \in Nat /\ b = div_ceil(Size(f), BlockSize) /\ IsSeq(s) /\ Len(s) = Size(f) /\ Size(f) \in Nat
  BY HeightFacts, LayoutFacts DEF RegularFiles
<1> HIDE DEF s
<1>2. /\ DOMAIN x = 1 .. b
      /\ \A i \in 1 .. b : x[i] = SubSeq(s, (i - 1) * BlockSize + 1,
                                         IF i * BlockSize < Len(s) THEN i * BlockSize ELSE Len(s))
  BY <1>1, CutFacts, Positive
<1>3. l = [i \in DOMAIN x |-> Digest(x[i])]
  BY DEF Leaves, s
<1> HIDE DEF x
<1>4. IsVector(l, b) /\ \A i \in 1 .. b : l[i] = Digest(x[i])
  BY <1>2, <1>3 DEF IsVector
<1>5. Len(l) = b
  BY <1>1, <1>4, VectorFacts
<1>6. ASSUME NEW i \in 1 .. b PROVE x[i] = Block(f, i - 1)
  <2>1. (i - 1) + 1 = i
    BY <1>1
  <2> QED
    BY <1>1, <1>2, <2>1 DEF Block, Least, s
<1> QED
  BY <1>1, <1>4, <1>5, <1>6

-----------------------------------------------------------------------------
(* What is left when a v2 job of hashing is done: every leaf is taken.     *)
LEMMA AllTaken ==
    ASSUME Shape, V2Inv, Finished, NEW f \in RegularFiles, Size(f) # 0
    PROVE  /\ Taken(f) = LeafSet(f) /\ Done(f) /\ TreeOK(f) /\ Completed(f)
<1>1. TreeOK(f) /\ Completed(f)
  BY DEF V2Inv, FilesOK
<1>2. ASSUME NEW j \in LeafSet(f) PROVE j \in Taken(f)
  <2>1. Place(f, j)
    BY DEF V2Inv, LeavesOK
  <2>2. ~Unread(f, j)
    <3>1. file_index_ = FileCount /\ f \in 0 .. FileCount - 1 /\ FileCount \in Nat
      BY ShapeParts DEF Finished, V2Inv, ReaderOK, RegularFiles
    <3> QED
      BY <3>1 DEF Unread
  <2>3. ~OnceIn(chunks, f, j)
    BY EmptyIsSeq DEF Finished, OnceIn
  <2>4. ~OncePushed(f, j)
    BY EmptyIsSeq DEF Finished, OncePushed, OnceHeld
  <2> QED
    BY <2>1, <2>2, <2>3, <2>4 DEF Place, InFile, InChunk, InPiece, InTree
<1>3. Taken(f) \subseteq LeafSet(f)
  BY <1>1 DEF TreeOK
<1>4. Taken(f) = LeafSet(f)
  BY <1>2, <1>3
<1> DEFINE b == BlockCount(Layout[f])
<1>5. b \in Nat \ {0} /\ 0 .. b - 1 \subseteq LeafSet(f)
  <2>1. /\ b \in Nat \ {0}
        /\ ExtraLeaf(Layout[f]) => LeafSet(f) = 0 .. b
        /\ ~ExtraLeaf(Layout[f]) => LeafSet(f) = 0 .. b - 1
    BY LeafSetFacts
  <2> HIDE DEF b
  <2> QED
    BY <2>1
<1> HIDE DEF b
<1>6. IsFiniteSet(0 .. b - 1) /\ Cardinality(0 .. b - 1) = b
  <2>1. b - 1 \in Int /\ 0 \in Int /\ (IF 0 > b - 1 THEN 0 ELSE b - 1 - 0 + 1) = b
    BY <1>5
  <2> QED
    BY <2>1, FS_Interval
<1>7. IsFiniteSet(Taken(f)) /\ Cardinality(Taken(f)) \in Nat
  BY TakenFinite
<1>8. Cardinality(0 .. b - 1) <= Cardinality(Taken(f))
  <2>1. 0 .. b - 1 \subseteq Taken(f)
    BY <1>4, <1>5
  <2> QED
    BY <1>7, <2>1, FS_Subset
<1>9. Done(f)
  <2>1. 0 \in 0 .. b - 1
    BY <1>5
  <2> QED
    BY <1>4, <1>5, <1>6, <1>8, <2>1 DEF Done, b
<1> QED
  BY <1>1, <1>4, <1>9

(* Its tree: the leaves of a finished file.                                *)
LEMMA FinishedLeaves ==
    ASSUME Shape, NEW f \in RegularFiles, Size(f) # 0, TreeOK(f), Taken(f) = LeafSet(f),
           NEW t, t = trees[f + 1], NEW h, h = Height(f), NEW b, b = BlockCount(Layout[f]),
           NEW l, l = Leaves(Layout[f])
    PROVE  /\ h \in Nat /\ b \in Nat \ {0} /\ b <= pow2[h] /\ pow2[h] \in Nat /\ h = log2_ceil(Len(l)) /\ Len(l) = b
           /\ IsTree(t, h)
           /\ \A i \in 1 .. b : t[pow2[h] + i - 1] = l[i] /\ l[i] # ZeroHash
           /\ \A i \in b + 1 .. pow2[h] :
                  IF ExtraLeaf(Layout[f]) /\ i = b + 1 THEN t[pow2[h] + i - 1] # ZeroHash
                  ELSE t[pow2[h] + i - 1] = ZeroHash
           /\ ExtraLeaf(Layout[f]) => b + 1 <= pow2[h]
<1>1. h \in Nat /\ b \in Nat \ {0} /\ b <= pow2[h] /\ pow2[h] \in Nat
  <2>1. h \in Nat /\ b \in Nat /\ b <= pow2[h] /\ pow2[h] \in Nat
    BY HeightFacts DEF RegularFiles
  <2> QED
    BY <2>1, LeafSetFacts
<1>2. Len(l) = b /\ h = log2_ceil(b) /\ \A i \in 1 .. b : l[i] = Digest(Block(f, i - 1))
  BY <1>1, LeavesFacts DEF Height
<1>3. IsTree(t, h)
  BY DEF TreeOK
<1>4. \A j \in 0 .. pow2[h] - 1 : j \in LeafSet(f) <=> t[pow2[h] + j] # ZeroHash
  <2>1. LeafSet(f) = {j \in 0 .. pow2[h] - 1 : t[pow2[h] + j] # ZeroHash}
    BY DEF Taken, Leaf
  <2> QED
    BY <2>1
<1>5. \A j \in LeafSet(f) : j \in 0 .. pow2[h] - 1 /\ t[pow2[h] + j] = Digest(Block(f, j))
  <2>1. \A j \in LeafSet(f) : j \in 0 .. pow2[h] - 1
    BY DEF Taken
  <2>2. \A j \in LeafSet(f) : t[pow2[h] + j] = Digest(Block(f, j))
    BY DEF TreeOK, Leaf
  <2> QED
    BY <2>1, <2>2
<1>6. /\ ExtraLeaf(Layout[f]) => LeafSet(f) = 0 .. b
      /\ ~ExtraLeaf(Layout[f]) => LeafSet(f) = 0 .. b - 1
  BY LeafSetFacts
<1>7. \A i \in 1 .. b : i - 1 \in LeafSet(f)
  BY <1>1, <1>6
<1>8. ASSUME NEW i \in 1 .. b PROVE t[pow2[h] + i - 1] = l[i] /\ l[i] # ZeroHash
  <2>1. pow2[h] + (i - 1) = pow2[h] + i - 1
    BY <1>1
  <2>2. t[pow2[h] + (i - 1)] = Digest(Block(f, i - 1)) /\ Digest(Block(f, i - 1)) # ZeroHash
    BY <1>5, <1>7, BlockIsNotZero
  <2> QED
    BY <1>2, <2>1, <2>2
<1>9. ASSUME NEW i \in b + 1 .. pow2[h]
      PROVE  IF ExtraLeaf(Layout[f]) /\ i = b + 1 THEN t[pow2[h] + i - 1] # ZeroHash
             ELSE t[pow2[h] + i - 1] = ZeroHash
  <2>1. pow2[h] + (i - 1) = pow2[h] + i - 1 /\ i - 1 \in 0 .. pow2[h] - 1 /\ i \in Nat
    BY <1>1
  <2>2. i - 1 \in LeafSet(f) <=> ExtraLeaf(Layout[f]) /\ i = b + 1
    BY <1>1, <1>6, <2>1
  <2> QED
    BY <1>4, <2>1, <2>2
<1>10. ExtraLeaf(Layout[f]) => b + 1 <= pow2[h]
  <2> SUFFICES ASSUME ExtraLeaf(Layout[f]) PROVE b + 1 <= pow2[h]
    OBVIOUS
  <2>1. b \in LeafSet(f)
    BY <1>1, <1>6
  <2>2. b \in 0 .. pow2[h] - 1
    BY <1>5, <2>1
  <2> QED
    BY <1>1, <2>2
<1> QED
  BY <1>1, <1>2, <1>3, <1>8, <1>9, <1>10

(* The reference layer is the view of the reference tree.                  *)
LEMMA ReferenceLayer ==
    ASSUME Shape, NEW f \in RegularFiles, Size(f) # 0, NEW e, e = Layout[f], NEW h, h = Height(f),
           NEW v, IsReference(v, Leaves(e), h)
    PROVE  LayerView(v, e) = PieceLayer(e)
<1> DEFINE o == LayerOffset
<1>1. h \in Nat /\ o \in Nat /\ (e.file_size_ <= PieceSize <=> o >= h)
  BY PieceTree DEF Size
<1>2. tree_height(v) = h
  BY <1>1, TreeFacts DEF IsReference
<1>3. \A k \in 0 .. h : get_layer(v, h - k) = MerkleLevels(Leaves(e))[k]
  BY DEF IsReference
<1>4. o < h => get_layer(v, h - o) = MerkleLevels(Leaves(e))[o]
  BY <1>1, <1>3
<1>5. CASE o >= h
  BY <1>1, <1>2, <1>5 DEF LayerView, PieceLayer
<1>6. CASE o < h
  <2>1. ~(o >= h)
    BY <1>1, <1>6
  <2> QED
    BY <1>1, <1>2, <1>4, <1>6, <2>1 DEF LayerView, PieceLayer, LayerOffset
<1> QED
  BY <1>1, <1>5, <1>6

-----------------------------------------------------------------------------
(* Sequences with the same elements are the same.                          *)
LEMMA SameSeq ==
    ASSUME NEW s, NEW t, IsSeq(s), IsSeq(t), Len(s) = Len(t), \A k \in 1 .. Len(s) : s[k] = t[k]
    PROVE  s = t
<1>1. s = [k \in 1 .. Len(s) |-> s[k]] /\ t = [k \in 1 .. Len(s) |-> t[k]]
  BY DEF IsSeq, IsVector
<1>2. [k \in 1 .. Len(s) |-> s[k]] = [k \in 1 .. Len(s) |-> t[k]]
  OBVIOUS
<1> QED
  BY <1>1, <1>2, Zenon

(* The view of the piece layer, element by element.                        *)
LEMMA LayerViewFacts ==
    ASSUME NEW h \in Nat, NEW t, IsTree(t, h), NEW e, NEW o, o = LayerOffset, o \in Nat,
           NEW q \in Nat, q = div_ceil(e.file_size_, PieceSize), o < h => q <= pow2[h - o]
    PROVE  /\ o >= h => LayerView(t, e) = <<>>
           /\ o < h => /\ IsSeq(LayerView(t, e)) /\ Len(LayerView(t, e)) = q
                       /\ \A i \in 1 .. q : LayerView(t, e)[i] = t[pow2[h - o] + i - 1]
<1>1. tree_height(t) = h
  BY TreeFacts
<1>2. ASSUME o < h
      PROVE  /\ IsSeq(LayerView(t, e)) /\ Len(LayerView(t, e)) = q
             /\ \A i \in 1 .. q : LayerView(t, e)[i] = t[pow2[h - o] + i - 1]
  <2> DEFINE w == pow2[h - o]
             s == LayerOf(t, w)
  <2>1. h - o \in 0 .. h /\ h - o \in Nat /\ ~(o >= h)
    BY <1>2
  <2>2. w \in Nat /\ q <= w
    BY <1>2, <2>1, Pow2Facts
  <2>3. get_layer(t, h - o) = s
    BY <2>1, GetLayerFacts
  <2>4. LayerView(t, e) = SubSeq(s, 1, q)
    BY <1>1, <2>1, <2>3 DEF LayerView
  <2> HIDE DEF w
  <2>5. IsVector(s, w) /\ \A i \in 1 .. w : s[i] = t[w + i - 1]
    BY DEF LayerOf, IsVector
  <2> HIDE DEF s
  <2>6. IsSeq(s) /\ Len(s) = w
    BY <2>2, <2>5, VectorIsSeq
  <2>7. /\ IsSeq(SubSeq(s, 1, q)) /\ Len(SubSeq(s, 1, q)) = IF 1 <= q THEN q - 1 + 1 ELSE 0
        /\ \A k \in 1 .. Len(SubSeq(s, 1, q)) : SubSeq(s, 1, q)[k] = s[1 + k - 1]
    BY <2>2, <2>6, SubSeqFacts
  <2>8. Len(SubSeq(s, 1, q)) = q
    BY <2>7
  <2>9. \A i \in 1 .. q : i \in 1 .. w /\ 1 + i - 1 = i
    BY <2>2
  <2>10. \A i \in 1 .. q : SubSeq(s, 1, q)[i] = t[w + i - 1]
    BY <2>5, <2>7, <2>8, <2>9
  <2> QED
    BY <2>4, <2>7, <2>8, <2>10 DEF w
<1>3. o >= h => LayerView(t, e) = <<>>
  BY <1>1 DEF LayerView
<1> QED
  BY <1>2, <1>3

(* A file of whole chunks has whole pieces.                                *)
LEMMA WholePieces ==
    ASSUME Shape, NEW f \in RegularFiles, ExtraLeaf(Layout[f]),
           NEW b, b = BlockCount(Layout[f]), NEW q, q = div_ceil(Size(f), PieceSize)
    PROVE  q \in Nat /\ q * pow2[LayerOffset] = b
<1> DEFINE n == Size(f)
           r == pow2[LayerOffset]
           R == PiecesPerChunk
           x == n \div ChunkSize
<1>1. n \in Nat /\ b = div_ceil(n, BlockSize) /\ n % ChunkSize = 0
  BY HeightFacts, LayoutFacts DEF RegularFiles, ExtraLeaf, Size
<1>2. /\ BlockSize \in Nat \ {0} /\ PieceSize \in Nat \ {0} /\ ChunkSize \in Nat \ {0}
      /\ r \in Nat /\ PieceSize = BlockSize * r /\ R \in Nat /\ ChunkSize = PieceSize * R
  BY SizeFacts, Pow2Facts
<1> HIDE DEF n, r, R
<1>3. x \in Nat /\ ChunkSize * x = n
  BY <1>1, <1>2, DivFacts
<1> HIDE DEF x
<1>4. R * x \in Nat /\ (R * x) * PieceSize = n
  <2>1. R * x \in Nat /\ (R * x) * PieceSize = (PieceSize * R) * x
    BY <1>2, <1>3
  <2> QED
    BY <1>2, <1>3, <2>1
<1>5. q = R * x
  BY <1>1, <1>2, <1>4, ExactCeil DEF n
<1>6. q \in Nat /\ q * r \in Nat /\ (q * r) * BlockSize = n
  <2>1. q \in Nat /\ q * PieceSize = n
    BY <1>4, <1>5
  <2>2. q * r \in Nat /\ (q * r) * BlockSize = q * (BlockSize * r)
    BY <1>2, <2>1
  <2> QED
    BY <1>2, <2>1, <2>2
<1>7. b = q * r
  <2> DEFINE k == q * r
  <2>1. k \in Nat /\ k * BlockSize = n
    BY <1>6
  <2> HIDE DEF k
  <2>2. div_ceil(n, BlockSize) = k
    BY <1>1, <1>2, <2>1, ExactCeil
  <2> QED
    BY <1>1, <2>2 DEF k
<1> QED
  BY <1>6, <1>7 DEF r

(* Root and layer of a finished file against the reference.                *)
LEMMA FinishedFile ==
    ASSUME Shape, V2Inv, Finished, NEW f \in RegularFiles, Size(f) # 0, NEW e, e = Layout[f],
           job.isal => BlockCount(e) <= 2, NEW t, t = trees[f + 1], NEW h, h = Height(f)
    PROVE  /\ File(f).has_v2_data_ /\ File(f).pieces_root_ = root(t) /\ File(f).piece_layer_ = LayerView(t, e)
           /\ IsTree(t, h) /\ IsHeap(t, h)
           /\ root(t) = MerkleRoot(Leaves(e)) <=> ~ExtraLeaf(e)
           /\ LayerView(t, e) = PieceLayer(e)
<1> DEFINE b == BlockCount(e)
           l == Leaves(e)
           o == LayerOffset
           q == div_ceil(e.file_size_, PieceSize)
<1>1. Taken(f) = LeafSet(f) /\ Done(f) /\ TreeOK(f) /\ Completed(f)
  BY AllTaken
<1>2. /\ File(f).has_v2_data_ /\ File(f).pieces_root_ = root(t) /\ File(f).piece_layer_ = LayerView(t, e)
      /\ IsHeap(t, h)
  BY <1>1 DEF Completed
<1>3. /\ h \in Nat /\ b \in Nat \ {0} /\ b <= pow2[h] /\ pow2[h] \in Nat /\ h = log2_ceil(Len(l)) /\ Len(l) = b
      /\ IsTree(t, h)
      /\ \A i \in 1 .. b : t[pow2[h] + i - 1] = l[i] /\ l[i] # ZeroHash
      /\ \A i \in b + 1 .. pow2[h] :
             IF ExtraLeaf(e) /\ i = b + 1 THEN t[pow2[h] + i - 1] # ZeroHash
             ELSE t[pow2[h] + i - 1] = ZeroHash
      /\ ExtraLeaf(e) => b + 1 <= pow2[h]
  BY <1>1, FinishedLeaves, SMTT(30)
<1>4. PICK v : IsReference(v, l, h)
  <2> HIDE DEF l
  <2> QED
    BY <1>3, ReferenceExists
<1>5. LayerView(v, e) = PieceLayer(e)
  BY <1>4, ReferenceLayer
<1>6. /\ o \in Nat /\ q \in Nat \ {0} /\ (o < h => q <= pow2[h - o] /\ h - o \in 1 .. h)
      /\ q = div_ceil(Size(f), PieceSize)
  <2>1. q = div_ceil(Size(f), PieceSize)
    BY DEF Size
  <2>2. o \in Nat /\ q \in Nat \ {0} /\ (o < h => q <= pow2[h - o] /\ h - o \in 1 .. h)
    BY <2>1, PieceTree
  <2> QED
    BY <2>1, <2>2
<1> HIDE DEF b, l
<1>7. /\ IsTree(v, h) /\ IsHeap(v, h) /\ root(v) = MerkleRoot(l)
      /\ \A i \in 1 .. pow2[h] : v[pow2[h] + i - 1] = IF i <= b THEN l[i] ELSE ZeroHash
  <2>1. \A i \in 1 .. pow2[h] : Balanced(l, h)[i] = IF i <= b THEN l[i] ELSE ZeroHash
    BY <1>3 DEF Balanced
  <2> QED
    BY <1>4, <2>1 DEF IsReference
<1>8. pow2[h + 1] = 2 * pow2[h]
  BY <1>3, Pow2Facts
<1>9. h \in Nat /\ IsTree(t, h) /\ IsTree(v, h) /\ IsHeap(t, h) /\ IsHeap(v, h)
  BY <1>2, <1>3, <1>7
<1>10. o \in Nat /\ q \in Nat \ {0} /\ (o < h => q <= pow2[h - o])
  BY <1>6
<1>11. CASE ~ExtraLeaf(e)
  <2>1. ASSUME NEW n \in pow2[h] .. pow2[h + 1] - 1 PROVE t[n] = v[n]
    <3> DEFINE i == n - pow2[h] + 1
    <3>1. i \in 1 .. pow2[h] /\ pow2[h] + i - 1 = n
      <4>1. pow2[h] \in Nat
        BY <1>3, Zenon
      <4> QED
        BY <1>8, <4>1
    <3> HIDE DEF i
    <3>4. v[n] = IF i <= b THEN l[i] ELSE ZeroHash
      <4>1. v[pow2[h] + i - 1] = IF i <= b THEN l[i] ELSE ZeroHash
        BY <1>7, <3>1, Zenon
      <4> QED
        BY <3>1, <4>1, Zenon
    <3>2. CASE i <= b
      <4>1. i \in 1 .. b
        BY <1>3, <3>1, <3>2
      <4>2. t[pow2[h] + i - 1] = l[i]
        BY <1>3, <4>1, Zenon
      <4>3. t[n] = l[i] /\ v[n] = l[i]
        BY <3>1, <3>2, <3>4, <4>2, Zenon
      <4> QED
        BY <4>3, Zenon
    <3>3. CASE ~(i <= b)
      <4>1. i \in b + 1 .. pow2[h]
        BY <1>3, <3>1, <3>3
      <4>2. t[pow2[h] + i - 1] = ZeroHash
        BY <1>3, <1>11, <4>1, Zenon
      <4>3. t[n] = ZeroHash /\ v[n] = ZeroHash
        BY <3>1, <3>3, <3>4, <4>2, Zenon
      <4> QED
        BY <4>3, Zenon
    <3> QED
      BY <3>2, <3>3
  <2>2. \A n \in 1 .. pow2[h + 1] - 1 : t[n] = v[n]
    BY <1>9, <2>1, LeavesDetermineHeap
  <2>3. t = v
    <3>1. t = [n \in 1 .. pow2[h + 1] - 1 |-> t[n]] /\ v = [n \in 1 .. pow2[h + 1] - 1 |-> v[n]]
      BY <1>3, <1>7 DEF IsTree, IsVector
    <3>2. [n \in 1 .. pow2[h + 1] - 1 |-> t[n]] = [n \in 1 .. pow2[h + 1] - 1 |-> v[n]]
      BY <2>2
    <3> QED
      BY <3>1, <3>2, Zenon
  <2> QED
    BY <1>2, <1>3, <1>5, <1>7, <1>11, <2>3 DEF l
<1>12. CASE ExtraLeaf(e)
  <2>1. root(t) # MerkleRoot(l)
    <3> SUFFICES ASSUME root(t) = MerkleRoot(l) PROVE FALSE
      OBVIOUS
    <3>1. t[1] = v[1]
      BY <1>7 DEF root
    <3>2. \A n \in 1 .. pow2[h + 1] - 1 : t[n] = v[n]
      BY <1>9, <3>1, RootDeterminesHeap
    <3> DEFINE i == b + 1
    <3>3. i \in b + 1 .. pow2[h] /\ i \in 1 .. pow2[h] /\ ~(i <= b) /\ pow2[h] + i - 1 \in 1 .. pow2[h + 1] - 1
      BY <1>3, <1>8, <1>12
    <3>4. t[pow2[h] + i - 1] # ZeroHash /\ v[pow2[h] + i - 1] = ZeroHash
      BY <1>3, <1>7, <1>12, <3>3
    <3> QED
      BY <3>2, <3>3, <3>4
  <2>2. LayerView(t, e) = LayerView(v, e)
    <3>1. CASE o >= h
      <4>1. tree_height(t) = h /\ tree_height(v) = h
        BY <1>9, TreeFacts, Zenon
      <4>2. LayerView(t, e) = <<>> /\ LayerView(v, e) = <<>>
        BY <3>1, <4>1, Zenon DEF LayerView
      <4> QED
        BY <4>2, Zenon
    <3>2. CASE o < h
      <4>1. /\ IsSeq(LayerView(t, e)) /\ Len(LayerView(t, e)) = q
            /\ \A i \in 1 .. q : LayerView(t, e)[i] = t[pow2[h - o] + i - 1]
        BY <1>9, <1>10, <3>2, LayerViewFacts
      <4>2. /\ IsSeq(LayerView(v, e)) /\ Len(LayerView(v, e)) = q
            /\ \A i \in 1 .. q : LayerView(v, e)[i] = v[pow2[h - o] + i - 1]
        BY <1>9, <1>10, <3>2, LayerViewFacts
      <4>3. q * pow2[o] = b
        BY <1>6, <1>12, WholePieces DEF b
      <4>4. b \in 0 .. pow2[h] /\ \A j \in 0 .. b - 1 : t[pow2[h] + j] = v[pow2[h] + j]
        <5>1. ASSUME NEW j \in 0 .. b - 1 PROVE t[pow2[h] + j] = v[pow2[h] + j]
          <6>1. j + 1 \in 1 .. b /\ j + 1 \in 1 .. pow2[h] /\ pow2[h] + (j + 1) - 1 = pow2[h] + j /\ j + 1 <= b
            BY <1>3
          <6> QED
            BY <1>3, <1>7, <6>1
        <5> QED
          BY <1>3, <5>1
      <4> HIDE DEF q, o
      <4>5. ASSUME NEW i \in 1 .. q PROVE t[pow2[h - o] + i - 1] = v[pow2[h - o] + i - 1]
        <5> DEFINE k == i - 1
                   p == pow2[o]
        <5>1. k \in Nat /\ o \in 0 .. h /\ p \in Nat /\ q - (k + 1) \in Nat
          <6>1. o \in Nat /\ o \in 0 .. h
            BY <1>9, <1>10, <3>2
          <6>2. p \in Nat
            BY <6>1, Pow2Facts
          <6>3. k \in Nat /\ q - (k + 1) \in Nat
            BY <1>10
          <6> QED
            BY <6>1, <6>2, <6>3
        <5>2. (k + 1) * p <= b
          <6> HIDE DEF k, p
          <6>1. q * p = (k + 1) * p + (q - (k + 1)) * p /\ (q - (k + 1)) * p \in Nat /\ (k + 1) * p \in Nat
            BY <1>6, <5>1
          <6>2. q * p = b
            BY <4>3 DEF p
          <6> QED
            BY <1>3, <6>1, <6>2
        <5> HIDE DEF k
        <5>3. t[pow2[h - o] + k] = v[pow2[h - o] + k]
          BY <1>9, <4>4, <5>1, <5>2, LocalHeap DEF p
        <5>4. pow2[h - o] + k = pow2[h - o] + i - 1
          <6>1. h - o \in Nat
            BY <1>3, <5>1
          <6>2. pow2[h - o] \in Nat
            BY <6>1, Pow2Facts
          <6> QED
            BY <6>2 DEF k
        <5> QED
          BY <5>3, <5>4
      <4>6. \A i \in 1 .. q : LayerView(t, e)[i] = LayerView(v, e)[i]
        BY <4>1, <4>2, <4>5
      <4> QED
        BY <4>1, <4>2, <4>6, SameSeq
    <3> QED
      BY <1>3, <1>6, <3>1, <3>2
  <2> QED
    BY <1>2, <1>3, <1>5, <1>12, <2>1, <2>2 DEF l
<1> QED
  BY <1>11, <1>12

-----------------------------------------------------------------------------
(* The tree that verify_piece_layers makes of a layer.                     *)
LayerLeaves(layers) ==
    LET tree == set_leaf_nodes(Len(layers))
        Slot(n) == n - get_flat_index(tree_height(tree), 0)
    IN  [n \in DOMAIN tree |-> IF Slot(n) \in DOMAIN layers THEN layers[Slot(n)] ELSE tree[n]]

(* Its leaves are the layer, then zeros.                                   *)
LEMMA LayerLeavesFacts ==
    ASSUME NEW s, IsSeq(s), NEW g, g = IF Len(s) # 0 THEN log2_ceil(Len(s)) ELSE 1, NEW u, u = LayerLeaves(s)
    PROVE  /\ g \in Nat /\ IsTree(u, g)
           /\ \A i \in 1 .. pow2[g] : u[pow2[g] + i - 1] = IF i <= Len(s) THEN s[i] ELSE ZeroHash
<1> DEFINE m == Len(s)
           tree == set_leaf_nodes(m)
<1>1. m \in Nat /\ DOMAIN s = 1 .. m
  BY SetOfSeq
<1> HIDE DEF m
<1>2. g \in Nat /\ IsTree(tree, g) /\ \A n \in 1 .. pow2[g + 1] - 1 : tree[n] = ZeroHash
  BY <1>1, SetLeafNodesFacts DEF m
<1>3. u = [n \in DOMAIN tree |-> IF n - get_flat_index(tree_height(tree), 0) \in DOMAIN s
                                 THEN s[n - get_flat_index(tree_height(tree), 0)] ELSE tree[n]]
  BY DEF LayerLeaves, m
<1> HIDE DEF tree
<1>4. DOMAIN tree = 1 .. pow2[g + 1] - 1 /\ tree_height(tree) = g
  BY <1>2, TreeFacts
<1>5. pow2[g] \in Nat /\ pow2[g] > 0 /\ pow2[g + 1] = 2 * pow2[g] /\ get_flat_index(g, 0) = pow2[g] - 1
  <2>1. pow2[g] \in Nat /\ pow2[g] > 0 /\ pow2[g + 1] = 2 * pow2[g]
    BY <1>2, Pow2Facts
  <2> QED
    BY <2>1 DEF get_flat_index
<1>6. IsTree(u, g)
  BY <1>3, <1>4 DEF IsTree, IsVector
<1>7. ASSUME NEW i \in 1 .. pow2[g] PROVE u[pow2[g] + i - 1] = IF i <= m THEN s[i] ELSE ZeroHash
  <2> DEFINE n == pow2[g] + i - 1
  <2>1. n \in 1 .. pow2[g + 1] - 1 /\ n - (pow2[g] - 1) = i /\ (i \in 1 .. m <=> i <= m)
    BY <1>1, <1>5
  <2>2. u[n] = IF n - (pow2[g] - 1) \in DOMAIN s THEN s[n - (pow2[g] - 1)] ELSE tree[n]
    <3> HIDE DEF n
    <3> QED
      BY <1>3, <1>4, <1>5, <2>1
  <2> HIDE DEF n
  <2>3. u[n] = IF i \in 1 .. m THEN s[i] ELSE ZeroHash
    BY <1>1, <1>2, <2>1, <2>2
  <2> QED
    BY <2>1, <2>3 DEF n
<1> QED
  BY <1>2, <1>6, <1>7 DEF m

Verified(e) == verify_piece_layers(e, FALSE)

(* The heap over a layer that verify_piece_layers compares the root of.    *)
LEMMA VerifiedHeap ==
    ASSUME NEW e, IsSeq(e.piece_layer_), NEW s, s = e.piece_layer_,
           NEW g, g = IF Len(s) # 0 THEN log2_ceil(Len(s)) ELSE 1
    PROVE  g \in Nat /\ \E w : /\ IsHeap(w, g) /\ (Verified(e) <=> w[1] = e.pieces_root_)
                               /\ \A i \in 1 .. pow2[g] :
                                      w[pow2[g] + i - 1] = IF i <= Len(s) THEN s[i] ELSE ZeroHash
<1> DEFINE u == LayerLeaves(s)
<1>1. /\ g \in Nat /\ IsTree(u, g)
      /\ \A i \in 1 .. pow2[g] : u[pow2[g] + i - 1] = IF i <= Len(s) THEN s[i] ELSE ZeroHash
  BY LayerLeavesFacts
<1>2. Verified(e) <=> root(update(u, FALSE)) = e.pieces_root_
  BY DEF Verified, verify_piece_layers, LayerLeaves
<1> HIDE DEF u
<1>3. PICK batched : batched = FALSE
  OBVIOUS
<1> DEFINE w == update(u, batched)
<1>4. IsHeap(w, g) /\ \A n \in pow2[g] .. pow2[g + 1] - 1 : w[n] = u[n]
  <2>1. batched \in BOOLEAN /\ (batched => g <= 1)
    BY <1>3
  <2> QED
    BY <1>1, <2>1, UpdateFacts
<1>5. Verified(e) <=> w[1] = e.pieces_root_
  BY <1>2, <1>3 DEF root
<1> HIDE DEF w
<1>6. ASSUME NEW i \in 1 .. pow2[g] PROVE w[pow2[g] + i - 1] = IF i <= Len(s) THEN s[i] ELSE ZeroHash
  <2>1. pow2[g] \in Nat /\ pow2[g + 1] = 2 * pow2[g]
    BY <1>1, Pow2Facts
  <2>2. pow2[g] + i - 1 \in pow2[g] .. pow2[g + 1] - 1
    BY <2>1
  <2> QED
    BY <1>1, <1>4, <2>2
<1> QED
  BY <1>1, <1>4, <1>5, <1>6

(* A digest of two digests is neither value_type{} nor that of bytes.      *)
LEMMA PairIsNotZero ==
    ASSUME NEW l, NEW r, NEW x, NEW y, NEW s
    PROVE  /\ Digest2(l, r) # ZeroHash /\ Digest2(l, r) # Digest(s)
           /\ Digest2(l, r) = Digest2(x, y) => l = x /\ r = y
<1>1. Digest2(l, r).kids = <<l, r>> /\ ZeroHash.kids = <<>> /\ Digest(s).kids = <<>> /\ Digest2(x, y).kids = <<x, y>>
  BY DEF Digest2, ZeroHash, Digest
<1>2. <<l, r>> # <<>>
  OBVIOUS
<1>3. <<l, r>> = <<x, y>> => l = x /\ r = y
  OBVIOUS
<1> QED
  BY <1>1, <1>2, <1>3, Zenon

(* A power of two is the power it rounds up to.                            *)
LEMMA SingleBit ==
    ASSUME NEW q \in Nat \ {0} PROVE has_single_bit(q) <=> q = pow2[log2_ceil(q)]
<1> DEFINE g == log2_ceil(q)
           e == log2_floor(q)
<1>1. g \in Nat /\ e \in Nat
  BY Log2Ceil, Log2Floor
<1>2. has_single_bit(q) <=> pow2[e] = q
  BY DEF has_single_bit
<1> HIDE DEF g, e
<1>3. ASSUME pow2[e] = q PROVE g = e
  <2>1. e > 0 => pow2[e - 1] < q
    <3> SUFFICES ASSUME e > 0 PROVE pow2[e - 1] < q
      OBVIOUS
    <3>1. e - 1 \in Nat /\ (e - 1) + 1 = e
      BY <1>1
    <3>2. pow2[e - 1] \in Nat /\ pow2[e - 1] > 0 /\ pow2[(e - 1) + 1] = 2 * pow2[e - 1]
      BY <3>1, Pow2Facts
    <3> QED
      BY <1>3, <3>1, <3>2
  <2>2. q <= pow2[e]
    BY <1>3
  <2> QED
    BY <1>1, <2>1, <2>2, Log2CeilUnique DEF g
<1>4. ASSUME pow2[g] = q PROVE e = g
  <2>1. pow2[g] <= q /\ q < pow2[g + 1]
    BY <1>1, <1>4, Pow2Facts
  <2> QED
    BY <1>1, <2>1, Log2Unique DEF e
<1> QED
  BY <1>2, <1>3, <1>4 DEF g

(* verify_piece_layers of a file that hashing finished.                    *)
LEMMA LayerVerified ==
    ASSUME Shape, V2Inv, Finished, ~job.isal, NEW f \in RegularFiles, Size(f) # 0, ~ExtraLeaf(Layout[f]),
           NEW e, e = File(f), NEW n, n = Size(f)
    PROVE  Verified(e) <=>
               n > PieceSize /\ (PieceSize = BlockSize \/ has_single_bit(div_ceil(n, PieceSize)))
<1> DEFINE t == trees[f + 1]
           h == Height(f)
           o == LayerOffset
           q == div_ceil(n, PieceSize)
           b == BlockCount(Layout[f])
           l == Leaves(Layout[f])
           s == e.piece_layer_
           g == IF Len(s) # 0 THEN log2_ceil(Len(s)) ELSE 1
<1>1. /\ e.pieces_root_ = t[1] /\ s = LayerView(t, Layout[f]) /\ IsTree(t, h) /\ IsHeap(t, h)
  BY FinishedFile DEF root
<1>2. /\ h \in Nat /\ o \in Nat /\ q \in Nat \ {0} /\ n \in Nat
      /\ n <= PieceSize <=> o >= h
      /\ o < h => /\ h - o \in 1 .. h /\ q <= pow2[h - o] /\ log2_ceil(q) = h - o
  BY PieceTree, LayoutFacts DEF RegularFiles
<1>3. q = div_ceil(Layout[f].file_size_, PieceSize)
  BY DEF Size
<1>4. /\ b \in Nat \ {0} /\ b <= pow2[h] /\ pow2[h] \in Nat /\ h = log2_ceil(b)
      /\ \A i \in 1 .. b : t[pow2[h] + i - 1] = l[i] /\ l[i] # ZeroHash
      /\ \A i \in b + 1 .. pow2[h] : t[pow2[h] + i - 1] = ZeroHash
      /\ l[1] = Digest(Block(f, 0))
  <2>1. Taken(f) = LeafSet(f) /\ TreeOK(f)
    BY AllTaken
  <2>2. /\ b \in Nat \ {0} /\ b <= pow2[h] /\ pow2[h] \in Nat /\ h = log2_ceil(Len(l)) /\ Len(l) = b
        /\ \A i \in 1 .. b : t[pow2[h] + i - 1] = l[i] /\ l[i] # ZeroHash
        /\ \A i \in b + 1 .. pow2[h] : t[pow2[h] + i - 1] = ZeroHash
    BY <2>1, FinishedLeaves
  <2>3. l[1] = Digest(Block(f, 1 - 1))
    <3>1. 1 \in 1 .. b
      BY <2>2
    <3> QED
      BY <3>1, LeavesFacts
  <2>4. 1 - 1 = 0
    OBVIOUS
  <2> QED
    BY <2>2, <2>3, <2>4
<1>5. PieceSize = BlockSize <=> o = 0
  <2>1. PieceSize = BlockSize * pow2[o] /\ BlockSize \in Nat \ {0} /\ o \in Nat
    BY SizeFacts
  <2> HIDE DEF o
  <2>2. CASE o = 0
    <3>1. pow2[o] = 1
      BY <2>2, Pow2Facts
    <3> QED
      BY <2>1, <2>2, <3>1
  <2>3. CASE o # 0
    <3>1. o - 1 \in Nat /\ (o - 1) + 1 = o
      BY <2>1, <2>3
    <3>2. pow2[o] = 2 * pow2[o - 1] /\ pow2[o - 1] \in Nat /\ pow2[o - 1] > 0
      BY <3>1, Pow2Facts
    <3> DEFINE r == pow2[o - 1]
    <3> HIDE DEF r
    <3>3. r \in Nat /\ r - 1 \in Nat /\ PieceSize = BlockSize * (2 * r)
      BY <2>1, <3>2 DEF r
    <3>4. BlockSize * (2 * r) = 2 * BlockSize + 2 * (BlockSize * (r - 1)) /\ BlockSize * (r - 1) \in Nat
      BY <2>1, <3>3
    <3> QED
      BY <2>1, <2>3, <3>3, <3>4
  <2> QED
    BY <2>2, <2>3
<1>6. PieceSize \in Nat \ {0}
  BY Positive
<1> HIDE DEF t, h, o, q, b, l, s, g
<1>7. CASE o >= h
  <2>1. s = <<>> /\ IsSeq(s) /\ Len(s) = 0
    <3>1. tree_height(t) = h
      BY <1>1, <1>2, TreeFacts
    <3>2. s = <<>>
      BY <1>1, <1>7, <3>1 DEF LayerView, o
    <3> QED
      BY <3>2, EmptyIsSeq
  <2>2. g = 1
    BY <2>1 DEF g
  <2>3. PICK w : /\ IsHeap(w, 1) /\ (Verified(e) <=> w[1] = e.pieces_root_)
                 /\ \A i \in 1 .. pow2[1] : w[pow2[1] + i - 1] = IF i <= Len(s) THEN s[i] ELSE ZeroHash
    <3>1. IsSeq(e.piece_layer_) /\ s = e.piece_layer_ /\ g = IF Len(s) # 0 THEN log2_ceil(Len(s)) ELSE 1
      BY <2>1 DEF s, g
    <3>2. \E w : /\ IsHeap(w, g) /\ (Verified(e) <=> w[1] = e.pieces_root_)
                 /\ \A i \in 1 .. pow2[g] : w[pow2[g] + i - 1] = IF i <= Len(s) THEN s[i] ELSE ZeroHash
      BY <3>1, VerifiedHeap
    <3> QED
      BY <2>2, <3>2
  <2>4. pow2[1] = 2 /\ pow2[0] = 1
    <3>1. pow2[0] = 1 /\ pow2[0 + 1] = 2 * pow2[0] /\ 0 + 1 = 1
      BY Pow2Facts
    <3> QED
      BY <3>1
  <2>5. w[1] = Digest2(ZeroHash, ZeroHash)
    <3>1. w[1] = Digest2(w[2 * 1], w[2 * 1 + 1])
      BY <2>3, <2>4 DEF IsHeap
    <3>2. w[2 + 1 - 1] = ZeroHash /\ w[2 + 2 - 1] = ZeroHash
      BY <2>1, <2>3, <2>4
    <3>3. 2 * 1 = 2 + 1 - 1 /\ 2 * 1 + 1 = 2 + 2 - 1
      OBVIOUS
    <3> QED
      BY <3>1, <3>2, <3>3
  <2>6. t[1] # Digest2(ZeroHash, ZeroHash)
    <3>0. t[pow2[h]] = Digest(Block(f, 0)) /\ t[pow2[h]] # ZeroHash
      <4>1. 1 \in 1 .. b /\ pow2[h] + 1 - 1 = pow2[h]
        BY <1>4
      <4> QED
        BY <1>4, <4>1
    <3>1. CASE h = 0
      BY <2>4, <3>0, <3>1, PairIsNotZero
    <3>2. CASE h # 0
      <4>1. t[1] = Digest2(t[2], t[3])
        <5>1. 1 \in 1 .. pow2[h] - 1 /\ 2 * 1 = 2 /\ 2 * 1 + 1 = 3
          <6>1. h - 0 \in Nat /\ 0 < h /\ 0 \in Nat
            BY <1>2, <3>2
          <6>2. 2 * pow2[0] <= pow2[h]
            BY <1>2, <6>1, Pow2Monotone
          <6> QED
            BY <1>4, <2>4, <6>2
        <5> QED
          BY <1>1, <5>1 DEF IsHeap
      <4>2. t[2] # ZeroHash
        <5>1. CASE h = 1
          BY <2>4, <3>0, <5>1
        <5>2. CASE h # 1
          <6>1. 2 \in 1 .. pow2[h] - 1
            <7>1. 1 < h /\ 1 \in Nat
              BY <1>2, <3>2, <5>2
            <7>2. 2 * pow2[1] <= pow2[h]
              BY <1>2, <7>1, Pow2Monotone
            <7> QED
              BY <1>4, <2>4, <7>2
          <6>2. t[2] = Digest2(t[2 * 2], t[2 * 2 + 1])
            BY <1>1, <6>1 DEF IsHeap
          <6> QED
            BY <6>2, PairIsNotZero
        <5> QED
          BY <5>1, <5>2
      <4> QED
        BY <4>1, <4>2, PairIsNotZero
    <3> QED
      BY <3>1, <3>2
  <2> QED
    BY <1>1, <1>2, <1>6, <1>7, <2>3, <2>5, <2>6
<1>8. CASE o < h
  <2> DEFINE d == h - o
  <2>1. d \in 1 .. h /\ d \in Nat /\ q <= pow2[d] /\ log2_ceil(q) = d
    BY <1>2, <1>8
  <2>2. IsSeq(s) /\ Len(s) = q /\ \A i \in 1 .. q : s[i] = t[pow2[d] + i - 1]
    <3>1. o = LayerOffset /\ (o < h => q <= pow2[h - o])
      BY <1>2 DEF o
    <3>2. PICK x : x = Layout[f]
      OBVIOUS
    <3>3. h \in Nat /\ IsTree(t, h) /\ o \in Nat /\ q \in Nat /\ q = div_ceil(x.file_size_, PieceSize) /\ s = LayerView(t, x)
      BY <1>1, <1>2, <1>3, <3>2
    <3>4. /\ IsSeq(LayerView(t, x)) /\ Len(LayerView(t, x)) = q
          /\ \A i \in 1 .. q : LayerView(t, x)[i] = t[pow2[h - o] + i - 1]
      BY <1>8, <3>1, <3>3, LayerViewFacts DEF o
    <3>5. s = LayerView(t, x)
      BY <3>3
    <3> QED
      BY <3>4, <3>5, Zenon DEF d
  <2> HIDE DEF d
  <2>3. PICK w : /\ IsHeap(w, d) /\ (Verified(e) <=> w[1] = e.pieces_root_)
                 /\ \A i \in 1 .. pow2[d] : w[pow2[d] + i - 1] = IF i <= q THEN s[i] ELSE ZeroHash
    <3>1. IsSeq(e.piece_layer_) /\ s = e.piece_layer_ /\ d = IF Len(s) # 0 THEN log2_ceil(Len(s)) ELSE 1
      BY <1>2, <2>1, <2>2 DEF s
    <3> QED
      BY <2>2, <3>1, VerifiedHeap
  <2>4. pow2[d] \in Nat /\ pow2[d] > 0 /\ pow2[d + 1] = 2 * pow2[d]
    BY <2>1, Pow2Facts
  <2>5. IsHeap(t, d)
    <3>1. pow2[d] <= pow2[h]
      BY <1>2, <2>1, Pow2Monotone
    <3>2. \A k \in 1 .. pow2[d] - 1 : k \in 1 .. pow2[h] - 1
      BY <1>4, <2>4, <3>1
    <3> QED
      BY <1>1, <3>2 DEF IsHeap
  <2>6. Verified(e) <=> \A i \in q + 1 .. pow2[d] : t[pow2[d] + i - 1] = ZeroHash
    <3>1. ASSUME t[1] = w[1], NEW i \in q + 1 .. pow2[d] PROVE t[pow2[d] + i - 1] = ZeroHash
      <4>1. \A k \in 1 .. pow2[d + 1] - 1 : t[k] = w[k]
        BY <2>1, <2>3, <2>5, <3>1, RootDeterminesHeap
      <4>2. i \in 1 .. pow2[d] /\ ~(i <= q) /\ pow2[d] + i - 1 \in 1 .. pow2[d + 1] - 1
        BY <1>2, <2>4
      <4> QED
        BY <2>3, <4>1, <4>2
    <3>2. ASSUME \A i \in q + 1 .. pow2[d] : t[pow2[d] + i - 1] = ZeroHash PROVE t[1] = w[1]
      <4>1. ASSUME NEW k \in pow2[d] .. pow2[d + 1] - 1 PROVE t[k] = w[k]
        <5> DEFINE i == k - pow2[d] + 1
        <5>1. i \in 1 .. pow2[d] /\ pow2[d] + i - 1 = k
          BY <2>4
        <5> HIDE DEF i
        <5>2. CASE i <= q
          <6>1. i \in 1 .. q
            BY <1>2, <5>1, <5>2
          <6> QED
            BY <2>2, <2>3, <5>1, <5>2, <6>1
        <5>3. CASE ~(i <= q)
          <6>1. i \in q + 1 .. pow2[d]
            BY <1>2, <2>4, <5>1, <5>3
          <6> QED
            BY <2>3, <3>2, <5>1, <5>3, <6>1
        <5> QED
          BY <5>2, <5>3
      <4>2. \A k \in 1 .. pow2[d + 1] - 1 : t[k] = w[k]
        BY <2>1, <2>3, <2>5, <4>1, LeavesDetermineHeap
      <4>3. 1 \in 1 .. pow2[d + 1] - 1
        BY <2>4
      <4> QED
        BY <4>2, <4>3
    <3> QED
      BY <1>1, <2>3, <3>1, <3>2
  <2>7. CASE o = 0
    <3>1. d = h
      BY <1>2, <2>7 DEF d
    <3>2. q = b
      <4>1. PieceSize = BlockSize
        BY <1>5, <2>7
      <4> QED
        BY <4>1 DEF q, b, BlockCount, Size
    <3>3. \A i \in q + 1 .. pow2[d] : t[pow2[d] + i - 1] = ZeroHash
      BY <1>4, <3>1, <3>2
    <3> QED
      BY <1>2, <1>5, <1>6, <1>8, <2>6, <2>7, <3>3
  <2>8. CASE o # 0
    <3>1. ASSUME NEW i \in 1 .. pow2[d] PROVE t[pow2[d] + i - 1] # ZeroHash
      <4> DEFINE k == pow2[d] + i - 1
      <4>1. d < h
        BY <1>2, <2>8 DEF d
      <4>2. 2 * pow2[d] <= pow2[h]
        BY <1>2, <2>1, <4>1, Pow2Monotone
      <4>3. k \in 1 .. pow2[h] - 1
        BY <1>4, <2>4, <4>2
      <4>4. t[k] = Digest2(t[2 * k], t[2 * k + 1])
        BY <1>1, <4>3 DEF IsHeap
      <4> QED
        BY <4>4, PairIsNotZero
    <3>2. (\A i \in q + 1 .. pow2[d] : t[pow2[d] + i - 1] = ZeroHash) <=> q = pow2[d]
      <4>1. ASSUME \A i \in q + 1 .. pow2[d] : t[pow2[d] + i - 1] = ZeroHash, q # pow2[d] PROVE FALSE
        <5>1. q + 1 \in q + 1 .. pow2[d] /\ q + 1 \in 1 .. pow2[d]
          BY <1>2, <2>1, <2>4, <4>1
        <5> QED
          BY <3>1, <4>1, <5>1
      <4>2. ASSUME q = pow2[d] PROVE q + 1 .. pow2[d] = {}
        BY <1>2, <4>2
      <4> QED
        BY <4>1, <4>2
    <3>3. has_single_bit(q) <=> q = pow2[d]
      BY <1>2, <2>1, SingleBit
    <3> QED
      BY <1>2, <1>5, <1>6, <1>8, <2>6, <2>8, <3>2, <3>3 DEF q
  <2> QED
    BY <2>7, <2>8
<1> QED
  BY <1>2, <1>7, <1>8

-----------------------------------------------------------------------------
(* An entry of a finished job is a file of the invariant.                  *)
LEMMA FinishedEntry ==
    ASSUME Inv, Finished, ~job.verify, "v2" \in job.protocol, NEW e \in ToSet(storage.files_),
           ~is_padding_file(e), e.file_size_ # 0
    PROVE  Shape /\ V2Inv /\ \E f \in RegularFiles : /\ e = File(f) /\ Size(f) = e.file_size_ /\ Size(f) # 0
                                                     /\ Leaves(Layout[f]) = Leaves(e)
                                                     /\ PieceLayer(Layout[f]) = PieceLayer(e)
                                                     /\ BlockCount(Layout[f]) = BlockCount(e)
                                                     /\ ExtraLeaf(Layout[f]) <=> ExtraLeaf(e)
<1>1. Shape /\ V2Inv
  <2>1. job.protocol # {"v1"}
    OBVIOUS
  <2> QED
    BY <2>1 DEF Inv, Hashing, Finished, V1Reader
<1>2. DOMAIN storage.files_ = 1 .. FileCount /\ FileCount \in Nat
  BY <1>1, ShapeParts, VectorFacts DEF Shape, HasFiles
<1>3. PICK i \in 1 .. FileCount : e = storage.files_[i]
  BY <1>2 DEF ToSet
<1> DEFINE f == i - 1
<1>4. f \in 0 .. FileCount - 1 /\ f + 1 = i
  BY <1>2
<1>5. e = File(f)
  BY <1>3, <1>4 DEF File
<1> HIDE DEF f
<1>6. Size(f) = e.file_size_ /\ Bytes(Layout[f]) = Bytes(e) /\ ~is_padding_file(Layout[f])
  BY <1>1, <1>4, <1>5, LayoutFacts
<1>7. f \in RegularFiles
  BY <1>4, <1>6 DEF RegularFiles
<1>8. Leaves(Layout[f]) = Leaves(e)
  BY <1>6 DEF Leaves
<1>9. Layout[f].file_size_ = e.file_size_
  BY <1>6 DEF Size
<1>10. PieceLayer(Layout[f]) = PieceLayer(e)
  BY <1>8, <1>9 DEF PieceLayer
<1>11. BlockCount(Layout[f]) = BlockCount(e) /\ (ExtraLeaf(Layout[f]) <=> ExtraLeaf(e))
  BY <1>9 DEF BlockCount, ExtraLeaf
<1> QED
  BY <1>1, <1>5, <1>6, <1>7, <1>8, <1>10, <1>11

(* The layers of a finished job, as verify_piece_layers sees them.         *)
LEMMA InvLayers == Inv => LayersVerified
<1> SUFFICES ASSUME Inv, Finished, ~job.verify, "v2" \in job.protocol, ~job.isal,
                    NEW e \in ToSet(storage.files_), ~is_padding_file(e), e.file_size_ # 0, ~ExtraLeaf(e)
             PROVE  Verified(e) <=> /\ e.file_size_ > PieceSize
                                    /\ PieceSize = BlockSize \/ has_single_bit(div_ceil(e.file_size_, PieceSize))
  BY DEF LayersVerified, Verified
<1>1. Shape /\ V2Inv
  BY FinishedEntry
<1>2. PICK f \in RegularFiles : /\ e = File(f) /\ Size(f) = e.file_size_ /\ Size(f) # 0
                                /\ ExtraLeaf(Layout[f]) <=> ExtraLeaf(e)
  BY FinishedEntry
<1> QED
  BY <1>1, <1>2, LayerVerified

(* The roots and layers of a finished job.                                 *)
LEMMA InvRoots == Inv => RootsCorrect
<1> SUFFICES ASSUME Inv, Finished, ~job.verify, "v2" \in job.protocol,
                    NEW e \in ToSet(storage.files_), ~is_padding_file(e), e.file_size_ # 0,
                    job.isal => BlockCount(e) <= 2
             PROVE  /\ e.has_v2_data_
                    /\ e.pieces_root_ = MerkleRoot(Leaves(e)) <=> ~ExtraLeaf(e)
                    /\ e.piece_layer_ = PieceLayer(e)
  BY InvLayers DEF RootsCorrect
<1>1. Shape /\ V2Inv
  BY FinishedEntry
<1>2. PICK f \in RegularFiles : /\ e = File(f) /\ Size(f) # 0 /\ Leaves(Layout[f]) = Leaves(e)
                                /\ PieceLayer(Layout[f]) = PieceLayer(e)
                                /\ BlockCount(Layout[f]) = BlockCount(e)
                                /\ ExtraLeaf(Layout[f]) <=> ExtraLeaf(e)
  BY FinishedEntry
<1>3. job.isal => BlockCount(Layout[f]) <= 2
  BY <1>2
<1> DEFINE t == trees[f + 1]
           d == Layout[f]
<1>4. /\ File(f).has_v2_data_ /\ File(f).pieces_root_ = root(t) /\ File(f).piece_layer_ = LayerView(t, d)
      /\ root(t) = MerkleRoot(Leaves(d)) <=> ~ExtraLeaf(d)
      /\ LayerView(t, d) = PieceLayer(d)
  BY <1>1, <1>2, <1>3, FinishedFile
<1> QED
  BY <1>2, <1>4

(* Hashing sets the right roots and layers.                                *)
THEOREM HashedRootsCorrect == Spec => []RootsCorrect
  BY V2Invariant, InvRoots, PTL
=============================================================================
