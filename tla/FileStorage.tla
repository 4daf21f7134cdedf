---------------------------- MODULE FileStorage ----------------------------
(* file_entry and file_storage as values: every member function is an      *)
(* operator from the storage before to the storage after it.  Sizes are in *)
(* small units; MinPieceSize stands for 16 KiB.  Paths of regular files    *)
(* are positive numbers in the order of the paths; ".pad/N" is -N.         *)
EXTENDS MerkleTree, SequencesExt

CONSTANT MinPieceSize

ASSUME MinPieceSizeAssumption == \E e \in 0..16 : MinPieceSize = 2^e

NoAttributes == {}

file_entry(path, size, attributes, symlink_path) ==
    [path_ |-> path, file_size_ |-> size, attributes_ |-> attributes,
     symlink_path_ |-> symlink_path, has_v2_data_ |-> FALSE,
     pieces_root_ |-> ZeroHash, piece_layer_ |-> <<>>, checksums_ |-> <<>>]

is_symlink(e) == "symlink" \in e.attributes_
is_padding_file(e) == "padding_file" \in e.attributes_

(* The constructors' contract: a symlink has a target and no size.         *)
EntryContract(e) == is_symlink(e) => e.symlink_path_ # 0 /\ e.file_size_ = 0

make_padding_file_entry(size) == file_entry(-size, size, {"padding_file"}, 0)

set_pieces_root(e, hash) == [e EXCEPT !.pieces_root_ = hash, !.has_v2_data_ = TRUE]
set_piece_layer(e, layer) == [e EXCEPT !.piece_layer_ = layer, !.has_v2_data_ = TRUE]

(* emplace does not replace a checksum that is already there.              *)
add_checksum(e, hash) ==
    IF e.checksums_ # <<>> THEN e ELSE [e EXCEPT !.checksums_ = <<hash>>]

-----------------------------------------------------------------------------
EmptyStorage == [files_ |-> <<>>, total_file_size_ |-> 0, piece_size_ |-> 0,
                 root_directory_ |-> 0, file_mode_ |-> "empty", pieces_ |-> <<>>,
                 index_valid_ |-> FALSE, files_index_ |-> <<>>]

file_count(s) == Len(s.files_)
Sizes(files) == [i \in DOMAIN files |-> files[i].file_size_]
RegularSizes(files) ==
    [i \in DOMAIN files |-> IF is_padding_file(files[i]) THEN 0 ELSE files[i].file_size_]
Total(sizes) == FoldSeq(+, 0, sizes)

(* Computed from the files; total_regular_file_size_ is never read.        *)
total_regular_file_size(s) == Total(RegularSizes(s.files_))

(* inclusive_file_size_scan_v1 / _v2 of the sizes and the regular sizes.   *)
InclusiveScan(sizes) == [i \in DOMAIN sizes |-> Total(SubSeq(sizes, 1, i))]

(* Mutant: leaves the index valid.                                         *)
add_file_indexed(s, e) == [s EXCEPT !.files_ = Append(@, e), !.total_file_size_ = @ + e.file_size_]

add_file(s, e) == [s EXCEPT !.files_ = Append(@, e), !.total_file_size_ = @ + e.file_size_,
                            !.index_valid_ = FALSE]

add_files(s, entries) == FoldLeft(add_file, s, entries)

(* file_entry's move assignment: "checksums_ = std::move(checksums_)" moves *)
(* from itself, and libstdc++'s map is empty afterwards.                   *)
Moved(e) == [e EXCEPT !.checksums_ = <<>>]

(* Entries are compared by path; erase() moves the entries behind it one   *)
(* place forward.                                                          *)
remove_file(s, e) ==
    LET Same(x) == x.path_ = e.path_
        i == SelectInSeq(s.files_, Same)
    IN  IF i = 0 THEN [s EXCEPT !.index_valid_ = FALSE]
        ELSE [s EXCEPT !.index_valid_ = FALSE,
                       !.total_file_size_ = @ - s.files_[i].file_size_,
                       !.files_ = [j \in 1 .. Len(@) - 1 |->
                                      IF j < i THEN @[j] ELSE Moved(@[j + 1])]]

(* clear() keeps piece_size_, file_mode_ and pieces_.                      *)
clear(s) == [s EXCEPT !.files_ = <<>>, !.total_file_size_ = 0, !.index_valid_ = FALSE]

set_file_mode(s, mode) == [s EXCEPT !.file_mode_ = mode]

file_mode(s) ==
    CASE file_count(s) = 0 -> "empty"
      [] file_count(s) = 1 -> s.file_mode_
      [] OTHER -> "multi"

(* The copy constructor and the copy assignment leave file_mode_ and the   *)
(* index out; index_valid_ of a new storage has no initial value.          *)
CopyOf(s, garbage) == [s EXCEPT !.file_mode_ = "empty", !.index_valid_ = garbage,
                                !.files_index_ = <<>>]
Assigned(to, from) == [from EXCEPT !.file_mode_ = to.file_mode_,
                                   !.index_valid_ = to.index_valid_,
                                   !.files_index_ = to.files_index_]

(* index(): the positions of the files (from 0) in the order of the paths. *)
Indexed(s) ==
    LET Before(i, j) == s.files_[i].path_ < s.files_[j].path_
        order == SetToSortSeq(DOMAIN s.files_, Before)
    IN  [s EXCEPT !.files_index_ = [k \in DOMAIN order |-> order[k] - 1], !.index_valid_ = TRUE]

(* protocol() as the set of versions.                                      *)
protocol(s) ==
    LET v1 == s.pieces_ # <<>>
        v2 == \A e \in ToSet(s.files_) :
                  is_padding_file(e) \/ is_symlink(e) \/ e.file_size_ = 0 \/ e.has_v2_data_
    IN  (IF v1 THEN {"v1"} ELSE {}) \cup (IF v2 THEN {"v2"} ELSE {})

piece_count(s) ==
    IF s.piece_size_ = 0 THEN 0 ELSE div_ceil(s.total_file_size_, s.piece_size_)

has_single_bit(n) == n > 0 /\ pow2[log2_floor(n)] = n

CanSetPieceSize(size) == size >= MinPieceSize /\ has_single_bit(size)
set_piece_size(s, size) == [s EXCEPT !.piece_size_ = size]

(* 2^(log2 of the bytes - 9), between 2^15 and 2^24; MinPieceSize is 2^14. *)
ChosenExponent(s, low, high) ==
    LET exp == log2_floor((s.total_file_size_ * 2^14) \div MinPieceSize) - 9
    IN  IF exp < low THEN low ELSE IF exp > high THEN high ELSE exp

choose_piece_size(s) == set_piece_size(s, (MinPieceSize * 2^ChosenExponent(s, 15, 24)) \div 2^14)

allocate_pieces(s) == [s EXCEPT !.pieces_ = [i \in 1 .. piece_count(s) |-> ZeroHash]]

CanSetPieceHash(s, index) == index < Len(s.pieces_) /\ Len(s.pieces_) = piece_count(s)
set_piece_hash(s, index, hash) == [s EXCEPT !.pieces_[index + 1] = hash]

(* [first, last) of the pieces of a file; count ignores where the file     *)
(* begins in its first piece.                                              *)
get_pieces_offsets(s, file_index) ==
    LET offset == Total(SubSeq(Sizes(s.files_), 1, file_index)) \div s.piece_size_
    IN  [first |-> offset,
         last |-> offset + div_ceil(s.files_[file_index + 1].file_size_, s.piece_size_)]

(* What verify_piece_layers answers for a file: its layer as the leaves of *)
(* a tree of its own.                                                      *)
verify_piece_layers(e, batched) ==
    LET layers == e.piece_layer_
        tree == set_leaf_nodes(Len(layers))
        Leaf(n) == n - get_flat_index(tree_height(tree), 0)
        leaves == [n \in DOMAIN tree |->
                      IF Leaf(n) \in DOMAIN layers THEN layers[Leaf(n)] ELSE tree[n]]
    IN  root(update(leaves, batched)) = e.pieces_root_

is_piece_aligned(s) ==
    \A i \in DOMAIN s.files_ :
        is_padding_file(s.files_[i]) \/ Total(SubSeq(Sizes(s.files_), 1, i - 1)) % s.piece_size_ = 0

(* What optimize_alignment adds behind the i-th entry, whatever that is.   *)
PaddingAfter(s, i) ==
    LET rest == s.piece_size_ - (s.files_[i].file_size_ % s.piece_size_)
    IN  IF i = file_count(s) \/ rest = s.piece_size_ THEN <<>>
        ELSE <<make_padding_file_entry(rest)>>

optimize_alignment(s) ==
    add_files(clear(s), FlattenSeq([i \in DOMAIN s.files_ |-> <<s.files_[i]>> \o PaddingAfter(s, i)]))

(* Its contract: there are files, and at the end all padding is its own.   *)
CanAlign(s) ==
    /\ s.piece_size_ # 0 /\ file_count(s) # 0
    /\ LET added == FlattenSeq([i \in DOMAIN s.files_ |-> PaddingAfter(s, i)])
           after == optimize_alignment(s)
       IN  after.total_file_size_ = total_regular_file_size(after) + Total(Sizes(added))
=============================================================================
