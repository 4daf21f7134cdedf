------------------------------- MODULE Torrent -------------------------------
(* A client that builds a metafile, edits it, hashes its files, saves and   *)
(* loads it and makes magnet URIs of it.  One behaviour works on one part   *)
(* of the metafile: the trackers, the list behind trackers(), the trackers  *)
(* of a file made elsewhere, the storage, the other fields, or a magnet     *)
(* URI.  The parts share no state but through what is saved and loaded.     *)
EXTENDS MetafileParsing, MagnetUri

CONSTANTS
    Parts0,                    \* the parts the behaviours are about
    TrackerUrls, MaxAnnounces, \* urls; entries of the tracker list
    MaxTiers, MaxInTier,       \* the announce lists of files made elsewhere
    Paths, FileKinds,          \* file paths; [size, attributes, link] of a file
    PieceSizes, MaxFiles,
    MagnetTexts,
    MaxStorageEdits, MaxEdits  \* edits of the storage; of the fields or a magnet URI

ASSUME TorrentAssumption ==
    /\ Parts0 \subseteq {"trackers", "list", "announce", "storage", "fields", "magnet"}
    /\ \A size \in PieceSizes : CanSetPieceSize(size)
    /\ TrackerUrls \subseteq Nat \ {0} /\ TrackerUrls # {} /\ MaxTiers \in Nat /\ MaxInTier \in Nat
    /\ Mistyped \notin Nat /\ Mistyped \notin Seq(Seq(Nat))
    /\ MaxEdits \in Nat /\ MaxStorageEdits \in Nat /\ MaxAnnounces \in Nat /\ MaxFiles \in Nat

VARIABLES
    part,      \* what this behaviour works on
    m,         \* the metafile
    file,      \* the decoded file m was, or is to be, read from; none once m is edited
    fresh,     \* the versions whose hashes are those of the files as they are
    assigned,  \* the storage was copied or assigned since its files changed
    magnet,    \* a magnet_uri
    edits

vars == <<part, m, file, fresh, assigned, magnet, edits>>

NoFile == <<>>
Storage == m.storage_
List == m.announce_list_

-----------------------------------------------------------------------------
(* What storage_hasher leaves in the storage (HashLayout shows that it      *)
(* does): pieces of the files in a row, a root for every file that is not   *)
(* padding, a layer for those longer than a piece.                          *)
WithRoot(e, piece_size) ==
    LET layer == IF e.file_size_ <= piece_size THEN <<>>
                 ELSE [i \in 1 .. div_ceil(e.file_size_, piece_size) |-> Digest(<<e.path_, i>>)]
    IN  IF is_padding_file(e) THEN e
        ELSE set_piece_layer(set_pieces_root(e, Digest(<<e.path_, e.file_size_>>)), layer)

Prepared(s, version) ==
    LET sized == IF s.piece_size_ = 0 THEN choose_piece_size(s) ELSE s
    IN  IF version = {"v1", "v2"} THEN optimize_alignment(sized) ELSE sized

Hashed(s, version, checksums) ==
    LET p == Prepared(s, version)
        Sum(e) == IF checksums /\ ~is_padding_file(e)
                  THEN add_checksum(e, Digest(<<e.path_, 0>>)) ELSE e
        Root(e) == IF "v2" \in version THEN WithRoot(e, p.piece_size_) ELSE e
    IN  [p EXCEPT
            !.pieces_ = IF "v1" \in version
                        THEN [i \in 1 .. piece_count(p) |-> Digest(<<0, i>>)] ELSE @,
            !.files_ = [i \in DOMAIN @ |-> Root(Sum(@[i]))]]

Sample(version) ==
    Hashed(set_piece_size(add_files(EmptyStorage,
               <<file_entry(11, 3, NoAttributes, 0), file_entry(12, 6, NoAttributes, 0)>>),
               MinPieceSize), version, FALSE)

(* Files made elsewhere, told apart by their announce keys.                 *)
BoundedSeqs(S, n) == UNION {[1 .. k -> S] : k \in 0 .. n}
AnnounceFiles ==
    LET sample == write_metafile([metafile EXCEPT !.storage_ = Sample({"v1"}), !.name_ = 1], {"v1"})
    IN  {Key("announce-list", tiers) ++ Opt(url # 0, "announce", url) ++ sample :
            tiers \in BoundedSeqs(BoundedSeqs(TrackerUrls, MaxInTier), MaxTiers),
            url \in TrackerUrls \cup {0}}

Init ==
    /\ part \in Parts0
    /\ fresh \in CASE part = "storage" -> {{}}
                   [] part = "fields" -> {{"v1"}, {"v1", "v2"}}
                   [] OTHER -> {{"v1"}}
    /\ m = [metafile EXCEPT
               !.storage_ = IF part = "storage" THEN [EmptyStorage EXCEPT !.root_directory_ = 9]
                            ELSE Sample(fresh)]
    /\ file \in IF part = "announce" THEN AnnounceFiles ELSE {NoFile}
    /\ assigned = FALSE
    /\ magnet = magnet_uri(0)
    /\ edits = 0

(* An edit of the metafile or of the magnet URI.                            *)
Edit(metafile_, fresh_) ==
    /\ m' = metafile_ /\ fresh' = fresh_ /\ file' = NoFile
    /\ UNCHANGED <<part, magnet>>
Bound == IF part = "storage" THEN MaxStorageEdits ELSE MaxEdits
Count == edits < Bound /\ edits' = edits + 1

-----------------------------------------------------------------------------
(* Trackers.                                                                *)
SetTrackers(list) ==
    /\ Edit([m EXCEPT !.announce_list_ = list], fresh) /\ UNCHANGED <<assigned, edits>>

OnTrackers == part \in {"trackers", "list"}

(* add_tracker(url, tier); with no tier it is tier_count(), one of its own. *)
AddTracker(url, tier) ==
    LET a == announce_url(url, tier)
    IN  /\ OnTrackers /\ CanInsert(List, a)
        /\ Len(add_tracker(List, a)) <= MaxAnnounces
        /\ SetTrackers(add_tracker(List, a))
RemoveTracker(url) == OnTrackers /\ SetTrackers(remove_tracker(List, url))
RemoveAnnounce(url, tier) ==
    OnTrackers /\ SetTrackers(erase_announce(List, announce_url(url, tier)))
ClearTrackers == OnTrackers /\ SetTrackers(<<>>)

(* insert or emplace on the list that trackers() hands out.                 *)
ListInsert(url, tier) ==
    LET a == announce_url(url, tier)
    IN  /\ part = "list" /\ CanInsert(List, a) /\ Len(List) < MaxAnnounces
        /\ SetTrackers(insert(List, a))

EnableCrossSeeding(flag) ==
    /\ part = "trackers"
    /\ Edit([m EXCEPT !.enable_cross_seeding_ = flag], fresh) /\ UNCHANGED <<assigned, edits>>

TrackerStep ==
    \/ \E url \in TrackerUrls, tier \in 0 .. MaxAnnounces : AddTracker(url, tier)
    \/ \E url \in TrackerUrls : RemoveTracker(url)
    \/ \E url \in TrackerUrls, tier \in 0 .. MaxAnnounces : RemoveAnnounce(url, tier)
    \/ ClearTrackers
    \/ \E url \in TrackerUrls, tier \in 0 .. MaxAnnounces : ListInsert(url, tier)
    \/ \E flag \in BOOLEAN : EnableCrossSeeding(flag)

-----------------------------------------------------------------------------
(* The storage.                                                             *)
SetStorage(s, fresh_, assigned_) ==
    /\ part = "storage" /\ Count
    /\ Edit([m EXCEPT !.storage_ = s], fresh_) /\ assigned' = assigned_

AddFile(path, kind) ==
    LET e == file_entry(path, kind.size, kind.attributes, kind.link)
    IN  /\ EntryContract(e) /\ file_count(Storage) < MaxFiles
        /\ \A i \in DOMAIN Storage.files_ : Storage.files_[i].path_ # path
        /\ SetStorage(add_file(Storage, e), {}, FALSE)
RemoveFile(i) == SetStorage(remove_file(Storage, Storage.files_[i]), {}, FALSE)
ClearFiles == Storage.files_ # <<>> /\ SetStorage(clear(Storage), {}, FALSE)
SetFileMode(mode) == SetStorage(set_file_mode(Storage, mode), fresh, assigned)
SetPieceSize(size) ==
    size # Storage.piece_size_ /\ SetStorage(set_piece_size(Storage, size), {}, assigned)
Align ==
    /\ CanAlign(Storage)
    /\ SetStorage(optimize_alignment(Storage), fresh \ {"v1"}, FALSE)

(* directory_contents() makes the index if it is not valid.                 *)
ListDirectory == SetStorage(IF Storage.index_valid_ THEN Storage ELSE Indexed(Storage), fresh, assigned)

(* A copied metafile replaces the original; another storage is assigned     *)
(* over this one.                                                           *)
Copy(garbage) == SetStorage(CopyOf(Storage, garbage), fresh, TRUE)
AssignSample == SetStorage(Assigned(Storage, Sample({"v1"})), {"v1"}, TRUE)

Hash(version, checksums) ==
    /\ Storage.files_ # <<>>
    /\ version = {"v1", "v2"} => CanAlign(Prepared(Storage, {"v1"}))
    /\ \A i \in DOMAIN Storage.files_ : ~is_symlink(Storage.files_[i])
    /\ LET s == Hashed(Storage, version, checksums)
           realigned == s.total_file_size_ # Storage.total_file_size_
       IN  SetStorage(s, version \cup (IF realigned THEN fresh \ {"v1"} ELSE fresh),
                      assigned /\ ~realigned)

StorageStep ==
    \/ \E path \in Paths, kind \in FileKinds : AddFile(path, kind)
    \/ \E i \in DOMAIN Storage.files_ : RemoveFile(i)
    \/ ClearFiles
    \/ \E mode \in {"single", "multi"} : SetFileMode(mode)
    \/ \E size \in PieceSizes : SetPieceSize(size)
    \/ Align \/ ListDirectory \/ AssignSample
    \/ \E garbage \in BOOLEAN : Copy(garbage)
    \/ \E version \in Versions, checksums \in BOOLEAN : Hash(version, checksums)

-----------------------------------------------------------------------------
(* The other fields: 1 and 2 stand for texts, dates and hashes.             *)
SetField(metafile_) ==
    /\ part = "fields" /\ Count
    /\ Edit(metafile_, fresh) /\ UNCHANGED assigned

SetText(x) ==
    \/ SetField([m EXCEPT !.comment_ = x]) \/ SetField([m EXCEPT !.created_by_ = x])
    \/ SetField([m EXCEPT !.creation_date_ = x]) \/ SetField([m EXCEPT !.source_ = x])
    \/ SetField([m EXCEPT !.name_ = x])
AddValue(x) ==
    \/ SetField([m EXCEPT !.http_seeds_ = AddOnce(@, x)])
    \/ SetField([m EXCEPT !.web_seeds_ = AddOnce(@, x)])
    \/ SetField([m EXCEPT !.dht_nodes_ = AddOnce(@, <<x, 1>>)])
    \/ SetField([m EXCEPT !.collections_ = @ \cup {x}])
    \/ \E version \in Versions :
           SetField([m EXCEPT !.similar_torrents_ = @ \cup {info_hash(version, x)}])
RemoveValue(x) ==
    \/ SetField([m EXCEPT !.http_seeds_ = RemoveOnce(@, x)])
    \/ SetField([m EXCEPT !.web_seeds_ = RemoveOnce(@, x)])
    \/ SetField([m EXCEPT !.dht_nodes_ = RemoveOnce(@, <<x, 1>>)])
    \/ SetField([m EXCEPT !.collections_ = @ \ {x}])
    \/ \E version \in Versions :
           SetField([m EXCEPT !.similar_torrents_ = @ \ {info_hash(version, x)}])
ClearValues ==
    SetField([m EXCEPT !.http_seeds_ = <<>>, !.web_seeds_ = <<>>, !.dht_nodes_ = <<>>,
                       !.collections_ = {}, !.similar_torrents_ = {}])

FieldStep ==
    \/ \E x \in {1, 2} : SetText(x) \/ AddValue(x) \/ RemoveValue(x)
    \/ SetText(0) \/ ClearValues
    \/ \E flag \in BOOLEAN : SetField([m EXCEPT !.private_ = flag])

-----------------------------------------------------------------------------
(* Saving and loading.  A file may come from elsewhere: it may lack a key,  *)
(* have one of another type, other values than the library writes, or too   *)
(* few pieces.                                                              *)
Without(d, key) == [k \in DOMAIN d \ {key} |-> d[k]]
WithInfo(d, info) == Key("info", info) ++ d
Damaged(d) ==
    {Without(d, key) : key \in DOMAIN d} \cup {Key(key, Mistyped) ++ d : key \in DOMAIN d}
    \cup UNION {{WithInfo(d, Without(d.info, key)), WithInfo(d, Key(key, Mistyped) ++ d.info)} :
                    key \in DOMAIN d.info}
Foreign(d) ==
    {WithInfo(d, Key("private", x) ++ d.info) : x \in -1 .. 2}
    \cup {WithInfo(d, Key("collections", <<1>>) ++ d.info),
          WithInfo(d, Key("similar", <<info_hash({"v2"}, 1)>>) ++ d.info),
          Key("nodes", <<<<1, 2^16 + 1>>, <<1, 1>>>>) ++ d}
Truncated(d) ==
    {WithInfo(d, Key("pieces", Front(d.info["pieces"])) ++ d.info) :
        x \in {y \in {1} : Get(d.info, "pieces", <<>>) # <<>>}}

FilesLike(d) ==
    {d} \cup CASE part = "storage" -> Damaged(d) \cup Truncated(d)
               [] part = "fields" -> Foreign(d)
               [] OTHER -> {Without(d, "announce-list"), Without(d, "announce")}

Load(d, fresh_) ==
    /\ ~ReadFails(d)
    /\ m' = parse_metafile(d) /\ file' = d /\ fresh' = fresh_ /\ assigned' = FALSE
    /\ UNCHANGED <<part, magnet>>

SaveAndLoad(version) ==
    /\ part \in {"trackers", "list", "storage", "fields"}
    /\ part = "storage" => version \subseteq fresh
    /\ CanWrite(m, version)
    /\ \E d \in FilesLike(write_metafile(m, version)) :
           Load(d, IF d = write_metafile(m, version) THEN version \cap fresh ELSE {})
    /\ IF part \in {"storage", "fields"} THEN Count ELSE UNCHANGED edits

LoadAnnounce == part = "announce" /\ m.announce_list_ = <<>> /\ file # NoFile
                /\ Load(file, {}) /\ UNCHANGED edits

-----------------------------------------------------------------------------
(* Magnet URIs.                                                             *)
SetMagnet(x) ==
    /\ part \in {"magnet", "fields"} /\ Count
    /\ magnet' = x /\ UNCHANGED <<part, m, file, fresh, assigned>>

AddParam(text) ==
    /\ part = "magnet"
    /\ \/ \E member \in {ListMember[k] : k \in DOMAIN ListMember} :
              SetMagnet([magnet EXCEPT ![member] = Append(@, text)])
       \/ \E member \in {TextMember[k] : k \in DOMAIN TextMember} :
              SetMagnet([magnet EXCEPT ![member] = text])
       \/ SetMagnet([magnet EXCEPT !.keywords_ = @ \cup {text}])
SetSize(n) == part = "magnet" /\ SetMagnet([magnet EXCEPT !.size_ = n])

(* make_magnet_uri of a metafile; a topic names the info hash.              *)
MagnetFor(version) ==
    LET s == Storage
        both == protocol(s) = {"v1", "v2"}
        Topic(v) == IF v \in protocol(s) /\ (both => v \in version) THEN <<<<"urn", v>>>> ELSE <<>>
        TextOf(x) == IF x = 0 THEN <<>> ELSE <<ToString(x)>>
        Texts(list) == [i \in DOMAIN list |-> TextOf(list[i])]
    IN  [magnet_uri(0) EXCEPT
            !.topics_ = Topic("v1") \o Topic("v2"), !.display_name_ = TextOf(m.name_),
            !.trackers_ = Texts(Urls(List)), !.web_seeds_ = Texts(m.web_seeds_),
            !.peer_addresses_ = [i \in DOMAIN m.dht_nodes_ |->
                <<ToString(m.dht_nodes_[i][1]), ":", ToString(m.dht_nodes_[i][2])>>]]
MakeMagnet(version) ==
    part = "fields" /\ protocol(Storage) # {} /\ SetMagnet(MagnetFor(version))

Reparse(garbage) ==
    /\ CanEncode(magnet) /\ ~DecodeFails(encode_magnet_uri(magnet))
    /\ SetMagnet(make_magnet_uri(encode_magnet_uri(magnet), garbage))

MagnetStep ==
    \/ \E text \in MagnetTexts : AddParam(text)
    \/ \E n \in {0, 7} : SetSize(n) \/ Reparse(n)
    \/ \E version \in Versions : MakeMagnet(version)

Next ==
    \/ TrackerStep \/ StorageStep \/ FieldStep \/ MagnetStep \/ LoadAnnounce
    \/ \E version \in Versions : SaveAndLoad(version)

Spec == Init /\ [][Next]_vars
-----------------------------------------------------------------------------
(* The variables' types.  The storage never has more entries than files and *)
(* their padding, and its piece size, chosen, set or read, is one that      *)
(* set_piece_size accepts.                                                  *)
TypeOK ==
    /\ part \in Parts0 /\ fresh \subseteq {"v1", "v2"} /\ assigned \in BOOLEAN
    /\ edits \in 0 .. Bound
    /\ Len(List) <= MaxAnnounces \/ part = "announce"
    /\ file_count(Storage) < 2 * MaxFiles
    /\ Storage.piece_size_ = 0 \/ CanSetPieceSize(Storage.piece_size_)
    /\ Storage.file_mode_ \in {"empty", "single", "multi"}

(* announce_url_list: whatever is inserted, moved between tiers and erased, *)
(* the list stays ordered by tier and url, which its binary searches rely   *)
(* on, tiers stay numbered without gaps, which insert's contract and the    *)
(* serialiser rely on; through metafile alone no url is there twice.        *)
TrackersWellFormed ==
    /\ Sorted(List) /\ NoGap(List)
    /\ part # "list" => UniqueUrls(List)

(* metafile::add_tracker, remove_tracker: a step adds, removes or moves one *)
(* url; any two others stay in one tier or in the same order of tiers.      *)
TierOf(list, url) == list[find(list, url)].tier
Listed(list) == {u \in TrackerUrls : find(list, u) # 0}
TierOrderKept ==
    [][UniqueUrls(List) /\ UniqueUrls(List') =>
        LET changed == (Listed(List) \cup Listed(List')) \ (Listed(List) \cap Listed(List'))
        IN  \E touched \in IF changed = {} THEN TrackerUrls ELSE changed :
                \A u, v \in (Listed(List) \cap Listed(List')) \ {touched} :
                    TierOf(List, u) < TierOf(List, v) <=> TierOf(List', u) < TierOf(List', v)]_vars

(* A list without double urls is read back from announce and announce-list  *)
(* as it was written (a double one, inserted through trackers(), may make   *)
(* add_tracker's contract fail when the file is read).                      *)
TrackersRoundTrip ==
    LET d == make_bvalue_common(m)
    IN  UniqueUrls(List) => ~AnnounceFails(d) /\ parse_announce(d) = List

(* parse_announce on files made elsewhere: with no empty tier and no url    *)
(* twice, reading succeeds and keeps the tiers, an announce of its own      *)
(* before them; whenever it succeeds, no url is lost or doubled.            *)
AnnounceRead ==
    LET tiers == file["announce-list"]
        all == FlattenSeq(tiers)
        list == parse_announce(file)
        alone == Has(file, "announce") /\ ~Contains(all, file["announce"])
    IN  part = "announce" /\ file # NoFile =>
            /\ (\A t \in DOMAIN tiers : tiers[t] # <<>>) /\ IsInjective(all) =>
                   /\ ~AnnounceFails(file)
                   /\ [t \in 1 .. tier_count(list) |-> ToSet(as_nested_vector(list)[t])] =
                      (IF alone THEN <<{file["announce"]}>> ELSE <<>>)
                      \o [t \in DOMAIN tiers |-> ToSet(tiers[t])]
            /\ ~AnnounceFails(file) =>
                   /\ UniqueUrls(list) /\ Sorted(list) /\ NoGap(list)
                   /\ ToSet(Urls(list)) =
                      ToSet(all) \cup (IF Has(file, "announce") THEN {file["announce"]} ELSE {})

(* Trackers are read as they were written, by the library or by others.     *)
TrackersRead == TrackersRoundTrip /\ AnnounceRead

(* file_storage: its running total is the size of its files, and a valid    *)
(* index lists every file once, in the order of the paths (unless the       *)
(* storage was copied or assigned, which keep the target's index).          *)
IndexCurrent ==
    /\ Storage.total_file_size_ = Total(Sizes(Storage.files_))
    /\ Storage.index_valid_ /\ ~assigned =>
           /\ ToSet(Storage.files_index_) = 0 .. file_count(Storage) - 1
           /\ \A i, j \in DOMAIN Storage.files_index_ :
                  i < j => Storage.files_[Storage.files_index_[i] + 1].path_
                           <= Storage.files_[Storage.files_index_[j] + 1].path_

(* get_pieces_offsets of a file begins with the piece its first byte is in, *)
(* and ends with the piece of its last byte if the file begins a piece;     *)
(* else it may miss the last one, never more.                               *)
FileSpans ==
    Storage.piece_size_ # 0 =>
        \A i \in DOMAIN Storage.files_ :
            LET offset == Total(SubSeq(Sizes(Storage.files_), 1, i - 1))
                size == Storage.files_[i].file_size_
                span == get_pieces_offsets(Storage, i - 1)
                behind == div_ceil(offset + size, Storage.piece_size_)
            IN  /\ span.first = offset \div Storage.piece_size_
                /\ size > 0 => span.last \in {behind, behind - 1}
                /\ size > 0 /\ offset % Storage.piece_size_ = 0 => span.last = behind

(* optimize_alignment meets its own postcondition exactly on storages       *)
(* without padding, puts every file at a piece boundary and keeps the files *)
(* and their order.  (Hashing a hybrid twice therefore fails.)              *)
AlignsOnce ==
    LET Regular(s) == SelectSeq(s.files_, LAMBDA e : ~is_padding_file(e))
    IN  Storage.files_ # <<>> /\ Storage.piece_size_ # 0 =>
            /\ CanAlign(Storage) <=> Regular(Storage) = Storage.files_
            /\ CanAlign(Storage) =>
                   /\ is_piece_aligned(optimize_alignment(Storage))
                   /\ Regular(optimize_alignment(Storage)) = Storage.files_

(* A storage stays consistent whatever is done to it: totals and index      *)
(* follow the files, pieces are found and files aligned where they are.     *)
StorageConsistent == TypeOK /\ IndexCurrent /\ FileSpans /\ AlignsOnce

(* What the library can read of what it writes: not a single file whose     *)
(* mode was never set, for v1; not a hybrid single file that is called      *)
(* other than the torrent, nor its attributes; a hybrid of empty files has  *)
(* no pieces and is read as v2; not a tracker list with double urls.        *)
Readable(version) ==
    /\ UniqueUrls(List)
    /\ "v1" \in version => file_mode(Storage) # "empty"
    /\ version = {"v1", "v2"} =>
           /\ Storage.pieces_ # <<>>
           /\ file_mode(Storage) = "single" =>
                  Storage.files_[1].path_ = Name(m) /\ Storage.files_[1].attributes_ = NoAttributes

(* A metafile whose hashes are those of its files, in a version it can be   *)
(* written in, is read back from what is written, and writing it again      *)
(* gives the same info dictionary (the same info hash) and piece layers.    *)
WrittenIsRead ==
    \A version \in Versions :
        version \subseteq fresh /\ CanWrite(m, version) /\ Readable(version) =>
            LET d == write_metafile(m, version)
                again == write_metafile(parse_metafile(d), version)
            IN  /\ ~ReadFails(d)
                /\ again.info = d.info
                /\ "v2" \in version => again["piece layers"] = d["piece layers"]

(* The version of a file, and the files written the way the library does:   *)
(* a name, "private" absent or 1, all pieces, no keys of another version,   *)
(* no attributes of a hybrid single file.                                   *)
VersionOf(info) ==
    CASE parse_protocol(info) = {"v1"} -> {"v1"}
      [] check_if_hybrid(info) -> {"v1", "v2"}
      [] OTHER -> {"v2"}
Canonical(info) ==
    /\ Has(info, "name") /\ Get(info, "private", 1) = 1
    /\ VersionOf(info) = {"v1"} => DOMAIN info \cap {"file tree", "meta version"} = {}
    /\ VersionOf(info) = {"v1", "v2"} /\ Has(info, "length") =>
           \A path \in DOMAIN info["file tree"] : ~Has(info["file tree"][path], "attr")
    /\ VersionOf(info) = {"v2"} => DOMAIN info \cap {"files", "length", "pieces"} = {}
    /\ "v1" \in VersionOf(info) => Len(info["pieces"]) = Len(Storage.pieces_)
                                  /\ ZeroHash \notin ToSet(Storage.pieces_)

(* A file that was loaded and not edited is written again with the info     *)
(* dictionary it had, unknown keys and cross_seed_entry included, and its   *)
(* storage is of the version the file was, so that info_hash_v1 and _v2     *)
(* are the file's (a v1 file of empty files is taken for v2).               *)
InfoHashKept ==
    file # NoFile /\ part # "announce" /\ Canonical(file.info) =>
        LET version == VersionOf(file.info)
        IN  /\ CanWrite(m, version)
            /\ write_metafile(m, version).info = file.info
            /\ Storage.total_file_size_ > 0 =>
                   /\ protocol(Storage) = version
                   /\ \A v \in version : InfoDict(m, v) = file.info

(* Every other field is read back as it was set: seeds and nodes in order   *)
(* and once, a hybrid similar torrent as its two hashes.  Collections and   *)
(* similar torrents are read back together with those that the info         *)
(* dictionary of the loaded file lists, which it still lists after they     *)
(* were removed or cleared.                                                 *)
FieldsRoundTrip ==
    LET d == write_metafile(m, protocol(Storage))
        r == parse_metafile(d)
        StillListed(key) == ToSet(Get(m.other_info_fields_, key, <<>>))
    IN  part = "fields" =>
            /\ ~ReadFails(d)
            /\ r.http_seeds_ = m.http_seeds_ /\ r.web_seeds_ = m.web_seeds_
            /\ r.dht_nodes_ = m.dht_nodes_ /\ r.comment_ = m.comment_
            /\ r.created_by_ = m.created_by_ /\ r.creation_date_ = m.creation_date_
            /\ r.source_ = m.source_ /\ r.private_ = m.private_ /\ r.name_ = Name(m)
            /\ r.collections_ = m.collections_ \cup StillListed("collections")
            /\ r.similar_torrents_ =
                   ToSet(SimilarList(m.similar_torrents_)) \cup StillListed("similar")

(* encode_magnet_uri and make_magnet_uri: without keywords, with a topic,   *)
(* and with topics that need no encoding, every parameter is read back as   *)
(* it was set, reserved characters included; a size of 0 is not written and *)
(* comes back as whatever the memory held.                                  *)
MagnetRoundTrip ==
    LET uri == encode_magnet_uri(magnet)
        Plain(topic) == ToSet(topic) \cap {"%", "&"} = {}
    IN  magnet.keywords_ = {} /\ magnet.topics_ # <<>> /\ (\A t \in ToSet(magnet.topics_) : Plain(t)) =>
            /\ ~DecodeFails(uri)
            /\ \A garbage \in {0, 7} :
                   make_magnet_uri(uri, garbage) =
                       [magnet EXCEPT !.size_ = IF @ = 0 THEN garbage ELSE @]
=============================================================================
