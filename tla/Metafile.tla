------------------------------ MODULE Metafile ------------------------------
(* metafile, its serialisation to a bencoded dictionary and its parsing,    *)
(* as operators.  A dictionary is a function from keys; texts are numbers   *)
(* and 0 is the empty text; a path is 10 * directory + file name; the       *)
(* nested dictionaries of a file tree are one function from paths.          *)
(* Encoding and decoding themselves are the bencode library's.              *)
EXTENDS AnnounceUrlList, FileStorage

CONSTANT Mistyped            \* a bencoded value of a type the reader does not expect

Versions == {{"v1"}, {"v2"}, {"v1", "v2"}}

metafile == [storage_ |-> EmptyStorage, announce_list_ |-> <<>>, http_seeds_ |-> <<>>,
             web_seeds_ |-> <<>>, dht_nodes_ |-> <<>>, name_ |-> 0, comment_ |-> 0,
             created_by_ |-> 0, creation_date_ |-> 0, source_ |-> 0, private_ |-> FALSE,
             similar_torrents_ |-> {}, collections_ |-> {},
             enable_cross_seeding_ |-> FALSE, other_info_fields_ |-> <<>>]

(* add_/remove_ http_seed, web_seed and dht_node.                           *)
AddOnce(list, x) == IF Contains(list, x) THEN list ELSE Append(list, x)
RemoveOnce(list, x) == RemoveFirst(list, x)

(* info_hash as a value: a hybrid one has both hashes.                      *)
info_hash(version, id) == [version |-> version, id |-> id]

-----------------------------------------------------------------------------
(* Writing.  A dictionary of one key, and two in one: the keys of the left  *)
(* one win, so that what is assigned last stands first.                     *)
Key(key, value) == [k \in {key} |-> value]
d ++ e == [k \in DOMAIN d \cup DOMAIN e |-> IF k \in DOMAIN d THEN d[k] ELSE e[k]]
Opt(cond, key, value) == IF cond THEN Key(key, value) ELSE <<>>

AttributeText == <<"x", "l", "h", "p">>
AttributeOf == [x |-> "executable", l |-> "symlink", h |-> "hidden", p |-> "padding_file"]
attributes_to_string(attributes) ==
    SelectSeq(AttributeText, LAMBDA c : AttributeOf[c] \in attributes)

(* Keys that the v1 list and the v2 tree have in common.                    *)
FileInfo(e) ==
    Opt(is_symlink(e), "symlink path", e.symlink_path_)
    ++ Opt(e.attributes_ # NoAttributes, "attr", attributes_to_string(e.attributes_))
    ++ Key("length", e.file_size_)
Checksums(e) == Opt(e.checksums_ # <<>>, "sha1", Head(e.checksums_))
FileInfoV1(e) == Checksums(e) ++ FileInfo(e) ++ Key("path", e.path_)
FileInfoV2(e) == FileInfo(e) ++ Opt(e.file_size_ # 0, "pieces root", e.pieces_root_)

filename(path) == path % 10
Name(m) == IF m.name_ = 0 THEN filename(m.storage_.root_directory_) ELSE m.name_

FilesV1(m) ==
    LET s == m.storage_
    IN  CASE file_mode(s) = "single" -> Key("length", s.files_[1].file_size_)
                                        ++ Key("name", filename(s.files_[1].path_))
          [] file_mode(s) = "multi" -> Key("files", [i \in DOMAIN s.files_ |-> FileInfoV1(s.files_[i])])
          [] OTHER -> <<>>

(* Each path with the dictionary of its file; a later file of the same path *)
(* replaces the earlier one.                                                *)
FileTree(files, infos) ==
    LET At(path) == CHOOSE i \in DOMAIN files :
            files[i].path_ = path /\ \A j \in DOMAIN files : files[j].path_ = path => j <= i
    IN  [path \in {files[i].path_ : i \in DOMAIN files} |-> infos[At(path)]]

(* The operator ^ of integers.                                              *)
exclusive_or[a, b \in Nat] ==
    IF a = 0 THEN b ELSE ((a + b) % 2) + 2 * exclusive_or[a \div 2, b \div 2]

(* std::hash of the list: an exclusive or of its size, its tiers and the    *)
(* hashes of its urls.                                                      *)
make_cross_seed_hash(list) ==
    LET Mix(h, a) == exclusive_or[h, a.tier]
        odd == {u \in ToSet(Urls(list)) : Len(SelectSeq(list, LAMBDA a : a.url = u)) % 2 = 1}
    IN  <<FoldLeft(Mix, Len(list), list), odd>>

InfoTail(m) ==
    Opt(m.enable_cross_seeding_, "cross_seed_entry", make_cross_seed_hash(m.announce_list_))
    ++ m.other_info_fields_
    ++ Opt(m.source_ # 0, "source", m.source_)
    ++ Opt(m.private_, "private", 1)

make_bvalue_infodict_v1(m) ==
    LET s == m.storage_
    IN  InfoTail(m) ++ Key("pieces", s.pieces_) ++ Key("piece length", s.piece_size_)
        ++ Opt(file_mode(s) = "multi", "name", Name(m)) ++ FilesV1(m)

make_bvalue_infodict_v2(m) ==
    LET s == m.storage_
        infos == [i \in DOMAIN s.files_ |-> Checksums(s.files_[i]) ++ FileInfoV2(s.files_[i])]
    IN  InfoTail(m) ++ Key("file tree", FileTree(s.files_, infos))
        ++ Key("piece length", s.piece_size_) ++ Key("meta version", 2) ++ Key("name", Name(m))

(* Padding is left out of the tree, and so are checksums.                   *)
make_bvalue_infodict_hybrid(m) ==
    LET s == m.storage_
        regular == SelectSeq(s.files_, LAMBDA e : ~is_padding_file(e))
        infos == [i \in DOMAIN regular |-> FileInfoV2(regular[i])]
    IN  InfoTail(m) ++ Key("meta version", 2) ++ Key("pieces", s.pieces_)
        ++ Key("piece length", s.piece_size_) ++ Key("name", Name(m))
        ++ Key("file tree", FileTree(regular, infos)) ++ FilesV1(m)

(* A hybrid info hash is written as two; the order is the set's.            *)
SimilarList(hashes) ==
    LET Halves(h) == IF h.version = {"v1", "v2"}
                     THEN <<info_hash({"v1"}, h.id), info_hash({"v2"}, h.id)>> ELSE <<h>>
        order == SetToSeq(hashes)
    IN  FlattenSeq([i \in DOMAIN order |-> Halves(order[i])])

make_bvalue_common(m) ==
    Opt(m.dht_nodes_ # <<>>, "nodes", m.dht_nodes_)
    ++ Opt(m.web_seeds_ # <<>>, "url-list", m.web_seeds_)
    ++ Opt(m.similar_torrents_ # {}, "similar", SimilarList(m.similar_torrents_))
    ++ Opt(m.http_seeds_ # <<>>, "httpseeds", m.http_seeds_)
    ++ Opt(m.collections_ # {}, "collections", SetToSeq(m.collections_))
    ++ Opt(m.creation_date_ # 0, "creation date", m.creation_date_)
    ++ Opt(m.created_by_ # 0, "created by", m.created_by_)
    ++ Opt(m.comment_ # 0, "comment", m.comment_)
    ++ Opt(m.announce_list_ # <<>>, "announce-list", Tiers(m.announce_list_))
    ++ Opt(m.announce_list_ # <<>>, "announce", Head(m.announce_list_).url)

PieceLayers(s) ==
    LET large == {e \in ToSet(s.files_) : e.file_size_ > s.piece_size_}
    IN  [hash \in {e.pieces_root_ : e \in large} |->
            (CHOOSE e \in large : e.pieces_root_ = hash).piece_layer_]

make_bvalue_v1(m) == Key("info", make_bvalue_infodict_v1(m)) ++ make_bvalue_common(m)
make_bvalue_v2(m) ==
    Key("piece layers", PieceLayers(m.storage_))
    ++ Key("info", make_bvalue_infodict_v2(m)) ++ make_bvalue_common(m)
make_bvalue_hybrid(m) ==
    Key("piece layers", PieceLayers(m.storage_))
    ++ Key("info", make_bvalue_infodict_hybrid(m)) ++ make_bvalue_common(m)

(* pieces_root() throws for an entry without v2 data; the v2 writer asks    *)
(* padding files for theirs too.                                            *)
CanWrite(m, version) ==
    \A e \in ToSet(m.storage_.files_) :
        \/ version = {"v1"} \/ e.file_size_ = 0 \/ e.has_v2_data_
        \/ version = {"v1", "v2"} /\ is_padding_file(e)

write_metafile(m, version) ==
    CASE version = {"v1"} -> make_bvalue_v1(m)
      [] version = {"v2"} -> make_bvalue_v2(m)
      [] OTHER -> make_bvalue_hybrid(m)

(* What info_hash_v1 and info_hash_v2 hash.                                 *)
InfoDict(m, v) ==
    CASE protocol(m.storage_) = {"v1", "v2"} -> make_bvalue_infodict_hybrid(m)
      [] v = "v1" -> make_bvalue_infodict_v1(m)
      [] OTHER -> make_bvalue_infodict_v2(m)
=============================================================================
