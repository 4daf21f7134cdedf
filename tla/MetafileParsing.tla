-------------------------- MODULE MetafileParsing --------------------------
(* parse_metafile.  What a parse function leaves in the metafile and when   *)
(* it fails are operators of their own: a failure, be it a parse_error,     *)
(* another exception or a contract, leaves no metafile behind, so that      *)
(* ReadFails is their disjunction.                                          *)
EXTENDS Metafile

Has(d, key) == key \in DOMAIN d
Get(d, key, default) == IF Has(d, key) THEN d[key] ELSE default

(* get_string, get_integer, get_list of one of the keys throw bad_access.   *)
BadAccess(d, keys) == \E key \in keys : Has(d, key) /\ d[key] = Mistyped

(* The announce-list, one add_tracker after another; the contract of        *)
(* add_tracker may fail on the way.                                         *)
Announces(tiers) ==
    FlattenSeq([t \in DOMAIN tiers |->
        [i \in DOMAIN tiers[t] |-> announce_url(tiers[t][i], t - 1)]])
AddAll(tiers) ==
    LET Add(acc, a) ==
            IF acc.ok /\ CanInsert(acc.list, a)
            THEN [acc EXCEPT !.list = add_tracker(@, a)] ELSE [acc EXCEPT !.ok = FALSE]
    IN  FoldLeft(Add, [ok |-> TRUE, list |-> <<>>], Announces(tiers))

(* Mutant: an announce that is not in the list joins the first tier.        *)
parse_announce_joining(d) ==
    LET list == AddAll(Get(d, "announce-list", <<>>)).list
    IN  IF ~Has(d, "announce") THEN list ELSE add_tracker(list, announce_url(d["announce"], 0))

(* An announce that is not in the list becomes the first tier.              *)
parse_announce(d) ==
    LET list == AddAll(Get(d, "announce-list", <<>>)).list
        Behind(acc, a) == insert(acc, announce_url(a.url, a.tier + 1))
    IN  IF ~Has(d, "announce") \/ contains(list, d["announce"]) THEN list
        ELSE FoldLeft(Behind, <<announce_url(d["announce"], 0)>>, list)

AnnounceFails(d) ==
    \/ BadAccess(d, {"announce", "announce-list"})
    \/ ~AddAll(Get(d, "announce-list", <<>>)).ok

(* The values at a key, each one added if it is not there yet.              *)
ParseOnce(d, key) == FoldLeft(AddOnce, <<>>, Get(d, key, <<>>))
parse_http_seeds(d) == ParseOnce(d, "httpseeds")
parse_web_seeds(d) == ParseOnce(d, "url-list")

(* Ports are cut to 16 bits.                                                *)
parse_dht_nodes(d) ==
    LET Add(nodes, n) == AddOnce(nodes, <<n[1], n[2] % 2^16>>)
    IN  FoldLeft(Add, <<>>, Get(d, "nodes", <<>>))

(* Mutant: looks inside the info dictionary only.                           *)
parse_similar_torrents_inner(d) == ToSet(Get(d.info, "similar", <<>>))

(* Inside and outside the info dictionary are merged.                       *)
Merged(d, key) == ToSet(Get(d.info, key, <<>>)) \cup ToSet(Get(d, key, <<>>))
parse_collections(d) == Merged(d, "collections")
parse_similar_torrents(d) == Merged(d, "similar")

KnownKeys == {"length", "name", "files", "file tree", "piece length", "pieces",
              "meta version", "private", "source"}

(* Mutant: "similar" and "collections" count as known.                      *)
parse_other_info_fields_strict(info) ==
    [key \in DOMAIN info \ (KnownKeys \cup {"similar", "collections"}) |-> info[key]]

(* "similar", "collections" and "cross_seed_entry" are not known: what was  *)
(* read from the info dictionary is kept here as well.                      *)
parse_other_info_fields(info) == [key \in DOMAIN info \ KnownKeys |-> info[key]]

parse_private(info) == Get(info, "private", 0) # 0

CommonFails(d) ==
    \/ AnnounceFails(d)
    \/ BadAccess(d, {"comment", "created by", "creation date", "collections", "httpseeds",
                     "url-list", "nodes", "similar"})
    \/ BadAccess(d.info, {"private", "collections", "similar", "name", "source",
                          "piece length", "pieces", "meta version"})
    \/ Get(d.info, "private", 0) > 1
    \/ ~Has(d.info, "piece length") \/ ~CanSetPieceSize(d.info["piece length"])

-----------------------------------------------------------------------------
make_file_attributes(text) == {AttributeOf[text[i]] : i \in DOMAIN text}
parse_file_attributes(info) == make_file_attributes(Get(info, "attr", <<>>))

(* The symlink's target is looked for under "symlink": that the writers     *)
(* write "symlink path" makes the entry's contract fail.                    *)
ParseEntry(info, path) ==
    LET e == file_entry(path, info["length"], parse_file_attributes(info), 0)
    IN  IF Has(info, "sha1") THEN add_checksum(e, info["sha1"]) ELSE e

parse_file_entry_v1(info) == ParseEntry(info, Get(info, "path", Get(info, "name", 0)))
EntryFailsV1(info) ==
    \/ ~Has(info, "path") /\ ~Has(info, "name")
    \/ ~Has(info, "length") \/ BadAccess(info, {"path", "name", "length", "attr", "sha1"})
    \/ ~EntryContract(parse_file_entry_v1(info))

parse_file_entry_v2(info, path) ==
    LET e == ParseEntry(info, path)
    IN  IF Has(info, "pieces root") THEN set_pieces_root(e, info["pieces root"]) ELSE e
EntryFailsV2(info) ==
    \/ ~Has(info, "length") \/ BadAccess(info, {"length", "attr", "sha1", "pieces root"})
    \/ ~Has(info, "pieces root") /\ info["length"] > 0
    \/ ~EntryContract(ParseEntry(info, 0))

(* Mutant: does not set the mode of a single file.                          *)
parse_file_list_v1_modeless(s, info) ==
    IF Has(info, "files")
    THEN set_file_mode(add_files(s, [i \in DOMAIN info["files"] |->
                                        parse_file_entry_v1(info["files"][i])]), "multi")
    ELSE add_file(s, parse_file_entry_v1(info))

parse_file_list_v1(s, info) ==
    IF Has(info, "files")
    THEN set_file_mode(add_files(s, [i \in DOMAIN info["files"] |->
                                        parse_file_entry_v1(info["files"][i])]), "multi")
    ELSE set_file_mode(add_file(s, parse_file_entry_v1(info)), "single")
ListFails(info) ==
    IF Has(info, "files")
    THEN BadAccess(info, {"files"}) \/ \E i \in DOMAIN info["files"] : EntryFailsV1(info["files"][i])
    ELSE EntryFailsV1(info)

(* Depth first, each dictionary in the order of its keys.                   *)
TreeEntries(tree) ==
    LET paths == SetToSortSeq(DOMAIN tree, <)
    IN  [i \in DOMAIN paths |-> parse_file_entry_v2(tree[paths[i]], paths[i])]
TreeFails(info) ==
    \/ ~Has(info, "file tree") \/ BadAccess(info, {"file tree"})
    \/ \E path \in DOMAIN info["file tree"] : EntryFailsV2(info["file tree"][path])

parse_file_tree_v2(s, info) == add_files(s, TreeEntries(info["file tree"]))

(* The first file of the list with the path of an entry of the tree gets    *)
(* its root; no file with that path is a dereferenced end().                *)
Position(files, path) == SelectInSeq(files, LAMBDA e : e.path_ = path)
parse_file_list_and_tree_hybrid(s, info) ==
    LET Root(acc, e) ==
            IF e.file_size_ = 0 THEN acc
            ELSE [acc EXCEPT !.files_[Position(acc.files_, e.path_)] =
                                 set_pieces_root(@, e.pieces_root_)]
    IN  FoldLeft(Root, parse_file_list_v1(s, info), TreeEntries(info["file tree"]))
HybridFails(info) ==
    \/ ListFails(info) \/ TreeFails(info)
    \/ \E e \in ToSet(TreeEntries(info["file tree"])) :
           e.file_size_ > 0 /\ Position(parse_file_list_v1(EmptyStorage, info).files_, e.path_) = 0

(* allocate_pieces() for the files' sizes, then the hashes that are there.  *)
parse_pieces_v1(s, info) ==
    LET zeros == allocate_pieces(s).pieces_
    IN  [s EXCEPT !.pieces_ = [i \in DOMAIN zeros |->
                                  IF i \in DOMAIN info["pieces"] THEN info["pieces"][i] ELSE zeros[i]]]
PiecesFail(s, info) == ~Has(info, "pieces") \/ Len(info["pieces"]) > piece_count(s)

HasLayer(s, e) == e.file_size_ >= s.piece_size_ /\ ~is_padding_file(e)
parse_piece_layers_v2(s, layers) ==
    LET Layer(e) == IF HasLayer(s, e) /\ Has(layers, e.pieces_root_)
                    THEN set_piece_layer(e, layers[e.pieces_root_]) ELSE e
    IN  [s EXCEPT !.files_ = [i \in DOMAIN @ |-> Layer(@[i])]]
LayersFail(s, d) ==
    \/ ~Has(d, "piece layers") \/ BadAccess(d, {"piece layers"})
    \/ \E e \in ToSet(s.files_) : HasLayer(s, e) /\ ~e.has_v2_data_

(* "meta version" 2 is v2 or hybrid, anything else v1.                      *)
parse_protocol(info) == IF Get(info, "meta version", 1) = 2 THEN {"v2"} ELSE {"v1"}
check_if_hybrid(info) == Get(info, "pieces", <<>>) # <<>>

ParseStorage(d) ==
    LET s == set_piece_size(EmptyStorage, d.info["piece length"])
        hybrid == parse_file_list_and_tree_hybrid(s, d.info)
    IN  IF parse_protocol(d.info) = {"v1"} THEN parse_pieces_v1(parse_file_list_v1(s, d.info), d.info)
        ELSE IF check_if_hybrid(d.info)
        THEN parse_pieces_v1(parse_piece_layers_v2(hybrid, d["piece layers"]), d.info)
        ELSE parse_piece_layers_v2(parse_file_tree_v2(s, d.info), d["piece layers"])
StorageFails(d) ==
    LET s == set_piece_size(EmptyStorage, d.info["piece length"])
    IN  IF parse_protocol(d.info) = {"v1"}
        THEN ListFails(d.info) \/ PiecesFail(parse_file_list_v1(s, d.info), d.info)
        ELSE IF check_if_hybrid(d.info)
        THEN \/ HybridFails(d.info)
             \/ LayersFail(parse_file_list_and_tree_hybrid(s, d.info), d)
             \/ PiecesFail(parse_file_list_v1(s, d.info), d.info)
        ELSE TreeFails(d.info) \/ LayersFail(parse_file_tree_v2(s, d.info), d)

ReadFails(d) ==
    \/ ~Has(d, "info") \/ BadAccess(d, {"info"})
    \/ CommonFails(d) \/ StorageFails(d)

(* read_metafile, load_metafile: parse_metafile of the decoded file.        *)
parse_metafile(d) ==
    [metafile EXCEPT
        !.storage_ = ParseStorage(d), !.announce_list_ = parse_announce(d),
        !.http_seeds_ = parse_http_seeds(d), !.web_seeds_ = parse_web_seeds(d),
        !.dht_nodes_ = parse_dht_nodes(d), !.name_ = Get(d.info, "name", 0),
        !.comment_ = Get(d, "comment", 0), !.created_by_ = Get(d, "created by", 0),
        !.creation_date_ = Get(d, "creation date", 0), !.source_ = Get(d.info, "source", 0),
        !.private_ = parse_private(d.info), !.similar_torrents_ = parse_similar_torrents(d),
        !.collections_ = parse_collections(d), !.other_info_fields_ = parse_other_info_fields(d.info)]
=============================================================================
