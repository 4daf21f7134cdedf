--------------------------- MODULE TorrentProofs ---------------------------
(***************************************************************************)
(* The trackers of a metafile, for every list, url, tier and file:         *)
(* announce_url_list's insert and erase and metafile's add_tracker and     *)
(* remove_tracker keep the list well formed; the writer's tiers and the    *)
(* reader's fold of add_tracker over them are inverses; a client's steps   *)
(* keep all of it.  What a fold computes is proved by induction over its   *)
(* steps, with the set form of induction of FileStorageProofs.             *)
(***************************************************************************)
EXTENDS Torrent, FileStorageProofs, WellFoundedInduction, TLAPS

(* What entries of a list are, and what every operation keeps of a list.    *)
AnnounceUrls == [url : Nat, tier : Nat]

WellFormed(list) == list \in Seq(AnnounceUrls) /\ Sorted(list) /\ NoGap(list)

-----------------------------------------------------------------------------
(* The operators on sequences and sets that the list is built from.        *)

(* A set of naturals that is not empty has a least element.                *)
LEMMA MinFacts ==
    ASSUME NEW I \in SUBSET Nat, I # {}
    PROVE  Min(I) \in I /\ \A i \in I : Min(I) <= i
<1>1. \E x \in I : \A y \in I : ~(<<y, x>> \in OpToRel(<, Nat))
  BY WFMin, NatLessThanWellFounded, Zenon
<1>2. PICK x \in I : \A y \in I : ~(y < x)
  BY <1>1 DEF OpToRel
<1>3. \A y \in I : x <= y
  BY <1>2
<1> QED
  BY <1>3 DEF Min

(* InsertAt, by index.                                                     *)
LEMMA InsertAtFacts ==
    ASSUME NEW S, NEW s \in Seq(S), NEW e \in S, NEW p \in 1 .. Len(s) + 1
    PROVE  /\ InsertAt(s, p, e) \in Seq(S)
           /\ Len(InsertAt(s, p, e)) = Len(s) + 1
           /\ InsertAt(s, p, e)[p] = e
           /\ \A i \in 1 .. p - 1 : InsertAt(s, p, e)[i] = s[i]
           /\ \A i \in p + 1 .. Len(s) + 1 : InsertAt(s, p, e)[i] = s[i - 1]
<1> DEFINE front == SubSeq(s, 1, p - 1)
           back == SubSeq(s, p, Len(s))
<1>1. /\ front \in Seq(S) /\ Len(front) = p - 1
      /\ \A i \in 1 .. p - 1 : front[i] = s[i]
  OBVIOUS
<1>2. /\ back \in Seq(S) /\ Len(back) = Len(s) - p + 1
      /\ \A i \in 1 .. Len(s) - p + 1 : back[i] = s[p + i - 1]
  OBVIOUS
<1> HIDE DEF front, back
<1>3. /\ front \o <<e>> \in Seq(S) /\ Len(front \o <<e>>) = p
      /\ \A i \in 1 .. p - 1 : (front \o <<e>>)[i] = s[i]
      /\ (front \o <<e>>)[p] = e
  BY <1>1
<1>4. InsertAt(s, p, e) = (front \o <<e>>) \o back
  BY DEF InsertAt, front, back
<1> DEFINE start == front \o <<e>>
<1>5. /\ start \in Seq(S) /\ Len(start) = p
      /\ \A i \in 1 .. p - 1 : start[i] = s[i]
      /\ start[p] = e
  BY <1>3
<1> HIDE DEF start
<1>6. /\ start \o back \in Seq(S) /\ Len(start \o back) = Len(s) + 1
      /\ \A i \in 1 .. p : (start \o back)[i] = start[i]
      /\ \A i \in p + 1 .. Len(s) + 1 : (start \o back)[i] = back[i - p]
  BY <1>2, <1>5
<1>7. \A i \in p + 1 .. Len(s) + 1 : back[i - p] = s[i - 1]
  BY <1>2
<1> QED
  BY <1>4, <1>5, <1>6, <1>7 DEF start

(* RemoveAt, by index.                                                     *)
LEMMA RemoveAtFacts ==
    ASSUME NEW S, NEW s \in Seq(S), NEW p \in 1 .. Len(s)
    PROVE  /\ RemoveAt(s, p) \in Seq(S)
           /\ Len(RemoveAt(s, p)) = Len(s) - 1
           /\ \A i \in 1 .. p - 1 : RemoveAt(s, p)[i] = s[i]
           /\ \A i \in p .. Len(s) - 1 : RemoveAt(s, p)[i] = s[i + 1]
<1> DEFINE front == SubSeq(s, 1, p - 1)
           back == SubSeq(s, p + 1, Len(s))
<1>1. /\ front \in Seq(S) /\ Len(front) = p - 1
      /\ \A i \in 1 .. p - 1 : front[i] = s[i]
  OBVIOUS
<1>2. /\ back \in Seq(S) /\ Len(back) = Len(s) - p
      /\ \A i \in 1 .. Len(s) - p : back[i] = s[p + i]
  OBVIOUS
<1> HIDE DEF front, back
<1>3. front \o back \in Seq(S) /\ Len(front \o back) = Len(s) - 1
  <2>0. front \in Seq(S) /\ back \in Seq(S)
    BY <1>1, <1>2
  <2>1. front \o back \in Seq(S) /\ Len(front \o back) = Len(front) + Len(back)
    BY <2>0
  <2> QED
    BY <1>1, <1>2, <2>1
<1>7. \A i \in 1 .. p - 1 : (front \o back)[i] = front[i]
  BY <1>1, <1>2
<1>6. ASSUME NEW i \in p .. Len(s) - 1 PROVE (front \o back)[i] = back[i - p + 1]
  <2>1. i \in Len(front) + 1 .. Len(front) + Len(back) /\ i - Len(front) = i - p + 1
    BY <1>1, <1>2
  <2>2. (front \o back)[i] = back[i - Len(front)]
    BY <1>1, <1>2, <2>1
  <2> QED
    BY <2>1, <2>2
<1>4. RemoveAt(s, p) = front \o back
  BY DEF RemoveAt, front, back
<1>5. ASSUME NEW i \in p .. Len(s) - 1 PROVE back[i - p + 1] = s[i + 1]
  <2>1. Len(s) \in Nat
    OBVIOUS
  <2>2. i - p + 1 \in 1 .. Len(s) - p /\ p + (i - p + 1) = i + 1
    BY <2>1
  <2>3. back[i - p + 1] = s[p + (i - p + 1)]
    BY <1>2, <2>2
  <2> QED
    BY <2>2, <2>3
<1> QED
  BY <1>1, <1>3, <1>4, <1>5, <1>6, <1>7

(* SelectInSeq's first index, where the test is one of the three used.     *)
LEMMA FindFacts ==
    ASSUME NEW list \in Seq(AnnounceUrls), NEW url \in Nat
    PROVE  /\ find(list, url) = 0 => \A i \in 1 .. Len(list) : list[i].url # url
           /\ find(list, url) # 0 => /\ find(list, url) \in 1 .. Len(list)
                                     /\ list[find(list, url)].url = url
           /\ find(list, url) \in 0 .. Len(list)
<1> DEFINE I == {i \in 1 .. Len(list) : list[i].url = url}
<1>1. find(list, url) = IF I # {} THEN Min(I) ELSE 0
  BY DEF find, SelectInSeq
<1>2. I \in SUBSET Nat
  OBVIOUS
<1>3. I # {} => Min(I) \in I
  BY <1>2, MinFacts, Zenon
<1> QED
  BY <1>1, <1>3

(* The same for the search for an announce_url.                            *)
LEMMA FindAnnounceFacts ==
    ASSUME NEW list \in Seq(AnnounceUrls), NEW a \in AnnounceUrls
    PROVE  /\ find_announce(list, a) = 0 => \A i \in 1 .. Len(list) : list[i] # a
           /\ find_announce(list, a) # 0 => /\ find_announce(list, a) \in 1 .. Len(list)
                                            /\ list[find_announce(list, a)] = a
<1> DEFINE I == {i \in 1 .. Len(list) : list[i] = a}
<1>1. find_announce(list, a) = IF I # {} THEN Min(I) ELSE 0
  BY DEF find_announce, SelectInSeq
<1>2. I \in SUBSET Nat
  OBVIOUS
<1>3. I # {} => Min(I) \in I
  BY <1>2, MinFacts, Zenon
<1> QED
  BY <1>1, <1>3

(* Entries whose tiers move together keep their order.                     *)
LEMMA LessShift ==
    ASSUME NEW a, NEW b, NEW c, NEW d, a.tier \in Nat, b.tier \in Nat,
           c.url = a.url, d.url = b.url,
           \/ c.tier = a.tier /\ d.tier = b.tier
           \/ c.tier = a.tier + 1 /\ d.tier = b.tier + 1
           \/ c.tier = a.tier - 1 /\ d.tier = b.tier - 1
    PROVE  Less(c, d) <=> Less(a, b)
<1>1. ASSUME NEW x \in Int, NEW y \in Int, NEW v \in Int, NEW w \in Int,
             \/ v = x /\ w = y
             \/ v = x + 1 /\ w = y + 1
             \/ v = x - 1 /\ w = y - 1
      PROVE  (v < w <=> x < y) /\ (v = w <=> x = y)
  BY <1>1
<1>2. a.tier \in Int /\ b.tier \in Int /\ c.tier \in Int /\ d.tier \in Int
  OBVIOUS
<1>3. (c.tier < d.tier <=> a.tier < b.tier) /\ (c.tier = d.tier <=> a.tier = b.tier)
  BY <1>1, <1>2
<1> QED
  BY <1>3, Zenon DEF Less

(* As in the list behind an announce of its own.                           *)
LEMMA LessBehind ==
    ASSUME NEW a, NEW b, NEW c, NEW d, a.tier \in Nat, b.tier \in Nat,
           c.url = a.url, d.url = b.url, c.tier = a.tier + 1, d.tier = b.tier + 1, ~Less(a, b)
    PROVE  ~Less(c, d)
  BY LessShift, Zenon

(* operator<=> is a total preorder of the entries.                         *)
LEMMA LessFacts ==
    ASSUME NEW x \in AnnounceUrls, NEW y \in AnnounceUrls, NEW z \in AnnounceUrls
    PROVE  /\ Less(x, y) => ~Less(y, x)
           /\ ~Less(y, x) /\ ~Less(z, y) => ~Less(z, x)
           /\ Less(x, y) /\ ~Less(z, y) => Less(x, z)
           /\ ~Less(y, x) => x.tier <= y.tier
           /\ x.tier < y.tier => ~Less(y, x)
  BY DEF Less, AnnounceUrls

(* The entries of a list, and their fields.                                *)
LEMMA EntryTypes ==
    ASSUME NEW list \in Seq(AnnounceUrls), NEW i \in 1 .. Len(list)
    PROVE  list[i] \in AnnounceUrls /\ list[i].tier \in Nat /\ list[i].url \in Nat
<1>1. list[i] \in AnnounceUrls
  OBVIOUS
<1> QED
  BY <1>1 DEF AnnounceUrls

(* In a well-formed list tiers do not decrease, and all of 0 up to the     *)
(* last one occur.                                                         *)
LEMMA TierFacts ==
    ASSUME NEW list, WellFormed(list), Len(list) > 0
    PROVE  /\ \A i, j \in 1 .. Len(list) : i <= j => list[i].tier <= list[j].tier
           /\ tier_count(list) = list[Len(list)].tier + 1
           /\ \A t \in 0 .. list[Len(list)].tier : \E i \in 1 .. Len(list) : list[i].tier = t
<1>0. list \in Seq(AnnounceUrls) /\ DOMAIN list = 1 .. Len(list) /\ list # <<>>
      /\ Len(list) \in Nat
  BY DEF WellFormed
<1>1. ASSUME NEW i \in 1 .. Len(list), NEW j \in 1 .. Len(list), i <= j
      PROVE  list[i].tier <= list[j].tier
  <2>1. list[i] \in AnnounceUrls /\ list[j] \in AnnounceUrls /\ list[i].tier \in Nat
    BY <1>0, EntryTypes
  <2>2. CASE i = j
    BY <2>1, <2>2
  <2>3. CASE i < j
    <3>1. ~Less(list[j], list[i])
      BY <1>0, <2>3 DEF WellFormed, Sorted
    <3> QED
      BY <2>1, <3>1, LessFacts
  <2> QED
    BY <1>1, <1>0, <2>2, <2>3
<1>2. tier_count(list) = list[Len(list)].tier + 1
  BY <1>0 DEF tier_count, Last
<1>3. Len(list) \in 1 .. Len(list)
  BY <1>0
<1>4. list[Len(list)].tier \in Nat
  BY <1>0, <1>3, EntryTypes
<1>5. tier_count(list) - 1 = list[Len(list)].tier
  BY <1>2, <1>4
<1> QED
  BY <1>0, <1>1, <1>2, <1>5 DEF WellFormed, NoGap

(* Uniqueness, on the entries.                                             *)
LEMMA UniqueDef ==
    ASSUME NEW list \in Seq(AnnounceUrls)
    PROVE  UniqueUrls(list) <=>
               \A i, j \in 1 .. Len(list) : list[i].url = list[j].url => i = j
<1>1. DOMAIN list = 1 .. Len(list)
  OBVIOUS
<1> QED
  BY <1>1 DEF UniqueUrls, Urls, IsInjective

-----------------------------------------------------------------------------
(* insert.                                                                 *)

(* upper_bound on a sorted list: everything before the place is not        *)
(* greater than the new entry, everything from the place on is.            *)
LEMMA InsertPlace ==
    ASSUME NEW list, WellFormed(list), NEW a \in AnnounceUrls
    PROVE  \E p \in 1 .. Len(list) + 1 :
              /\ insert(list, a) = InsertAt(list, p, a)
              /\ \A i \in 1 .. p - 1 : ~Less(a, list[i])
              /\ \A i \in p .. Len(list) : Less(a, list[i])
<1> DEFINE I == {i \in 1 .. Len(list) : Less(a, list[i])}
           p == IF I # {} THEN Min(I) ELSE Len(list) + 1
<1>0. list \in Seq(AnnounceUrls) /\ Len(list) \in Nat /\ DOMAIN list = 1 .. Len(list)
  BY DEF WellFormed
<1>1. I \in SUBSET Nat /\ 0 \notin I
  BY <1>0
<1>2. I # {} => Min(I) \in I /\ \A i \in I : Min(I) <= i
  BY <1>1, MinFacts, Zenon
<1>3. insert(list, a) = InsertAt(list, p, a)
  <2>1. SelectInSeq(list, LAMBDA x : Less(a, x)) = IF I # {} THEN Min(I) ELSE 0
    BY DEF SelectInSeq
  <2>2. (IF (IF I # {} THEN Min(I) ELSE 0) = 0 THEN Len(list) + 1
         ELSE (IF I # {} THEN Min(I) ELSE 0)) = p
    BY <1>1, <1>2
  <2> QED
    BY <2>1, <2>2 DEF insert, SelectInSeq
<1>4. p \in 1 .. Len(list) + 1
  BY <1>0, <1>2
<1>5. \A i \in 1 .. p - 1 : ~Less(a, list[i])
  <2>1. \A i \in 1 .. p - 1 : i \in 1 .. Len(list) /\ i \notin I
    BY <1>0, <1>2
  <2> QED
    BY <2>1
<1>6. ASSUME NEW i \in p .. Len(list) PROVE Less(a, list[i])
  <2>1. I # {} /\ p \in 1 .. Len(list) /\ Less(a, list[p]) /\ i \in 1 .. Len(list)
    BY <1>0, <1>2, <1>6
  <2>2. list[i] \in AnnounceUrls /\ list[p] \in AnnounceUrls
    BY <1>0, <2>1, EntryTypes
  <2>3. CASE i = p
    BY <2>1, <2>3
  <2>4. CASE i # p
    <3>1. ~Less(list[i], list[p])
      BY <1>0, <2>1, <2>4 DEF WellFormed, Sorted
    <3> QED
      BY <2>1, <2>2, <3>1, LessFacts
  <2> QED
    BY <2>3, <2>4
<1> HIDE DEF p
<1> QED
  BY <1>3, <1>4, <1>5, <1>6

(* insert keeps the list ordered and its tiers without gaps.               *)
THEOREM InsertKeepsTiers ==
    ASSUME NEW list, WellFormed(list), NEW a \in AnnounceUrls, CanInsert(list, a)
    PROVE  WellFormed(insert(list, a))
<1>0. list \in Seq(AnnounceUrls) /\ Len(list) \in Nat /\ DOMAIN list = 1 .. Len(list)
  BY DEF WellFormed
<1>p. PICK p \in 1 .. Len(list) + 1 :
         /\ insert(list, a) = InsertAt(list, p, a)
         /\ \A i \in 1 .. p - 1 : ~Less(a, list[i])
         /\ \A i \in p .. Len(list) : Less(a, list[i])
  BY InsertPlace
<1> DEFINE r == insert(list, a)
<1>1. /\ r \in Seq(AnnounceUrls) /\ Len(r) = Len(list) + 1 /\ r[p] = a
      /\ \A i \in 1 .. p - 1 : r[i] = list[i]
      /\ \A i \in p + 1 .. Len(list) + 1 : r[i] = list[i - 1]
  <2>1. r = InsertAt(list, p, a)
    BY <1>p
  <2>2. a \in AnnounceUrls /\ p \in 1 .. Len(list) + 1 /\ list \in Seq(AnnounceUrls)
    BY <1>0, <1>p
  <2> HIDE DEF r
  <2>3. /\ InsertAt(list, p, a) \in Seq(AnnounceUrls)
        /\ Len(InsertAt(list, p, a)) = Len(list) + 1
        /\ InsertAt(list, p, a)[p] = a
        /\ \A i \in 1 .. p - 1 : InsertAt(list, p, a)[i] = list[i]
        /\ \A i \in p + 1 .. Len(list) + 1 : InsertAt(list, p, a)[i] = list[i - 1]
    BY ONLY <2>2, InsertAtFacts
  <2> QED
    BY <2>1, <2>3
<1> HIDE DEF r
<1>d. DOMAIN r = 1 .. Len(list) + 1
  BY <1>1
<1>2. Sorted(r)
  <2> SUFFICES ASSUME NEW i \in 1 .. Len(list) + 1, NEW j \in 1 .. Len(list) + 1, i < j
               PROVE  ~Less(r[j], r[i])
    BY <1>d DEF Sorted
  <2>1. CASE i < p /\ j < p
    <3>1. i \in 1 .. Len(list) /\ j \in 1 .. Len(list) /\ r[i] = list[i] /\ r[j] = list[j]
      BY <1>0, <1>1, <2>1
    <3> QED
      BY <1>0, <3>1 DEF WellFormed, Sorted
  <2>2. CASE i < p /\ j = p
    BY <1>0, <1>1, <1>p, <2>2
  <2>3. CASE i < p /\ j > p
    <3>1. /\ i \in 1 .. Len(list) /\ j - 1 \in 1 .. Len(list) /\ i <= j - 1
          /\ r[i] = list[i] /\ r[j] = list[j - 1]
          /\ ~Less(a, list[i]) /\ Less(a, list[j - 1])
      BY <1>0, <1>1, <1>p, <2>3
    <3>2. list[i] \in AnnounceUrls /\ list[j - 1] \in AnnounceUrls
      BY <1>0, <3>1, EntryTypes
    <3>3. i < j - 1
      BY <3>1
    <3> QED
      BY <1>0, <3>1, <3>3 DEF WellFormed, Sorted
  <2>4. CASE i = p
    <3>1. j - 1 \in 1 .. Len(list) /\ r[i] = a /\ r[j] = list[j - 1] /\ Less(a, list[j - 1])
      BY <1>0, <1>1, <1>p, <2>4
    <3>2. list[j - 1] \in AnnounceUrls
      BY <1>0, <3>1, EntryTypes
    <3> QED
      BY <3>1, <3>2, LessFacts
  <2>5. CASE i > p
    <3>1. /\ i - 1 \in 1 .. Len(list) /\ j - 1 \in 1 .. Len(list) /\ i - 1 < j - 1
          /\ r[i] = list[i - 1] /\ r[j] = list[j - 1]
      BY <1>0, <1>1, <2>5
    <3> QED
      BY <1>0, <3>1 DEF WellFormed, Sorted
  <2> QED
    BY <2>1, <2>2, <2>3, <2>4, <2>5
<1>3. NoGap(r)
  <2>0. ASSUME NEW i \in 1 .. Len(list)
        PROVE  \E j \in DOMAIN r : r[j] = list[i]
    <3>1. CASE i < p
      BY <1>0, <1>1, <1>d, <3>1
    <3>2. CASE i >= p
      <4>1. i + 1 \in p + 1 .. Len(list) + 1 /\ i + 1 \in DOMAIN r /\ (i + 1) - 1 = i
        BY <1>0, <1>d, <3>2
      <4> QED
        BY <1>1, <4>1
    <3> QED
      BY <3>1, <3>2
  <2>1. p \in DOMAIN r /\ a.tier \in Nat
    BY <1>0, <1>d DEF AnnounceUrls
  <2>2. tier_count(r) = r[Len(list) + 1].tier + 1
    <3>1. r # <<>>
      BY <1>0, <1>1
    <3> QED
      BY <1>1, <3>1 DEF tier_count, Last
  <2>3. CASE Len(list) = 0
    <3>1. tier_count(list) = 0 /\ p = 1 /\ Len(list) + 1 = 1
      BY <1>0, <2>3 DEF tier_count
    <3>2. a.tier = 0
      BY <2>1, <3>1 DEF CanInsert
    <3>3. tier_count(r) = 1
      BY <1>1, <2>2, <3>1, <3>2
    <3> QED
      BY <1>1, <2>1, <3>2, <3>3 DEF NoGap
  <2>4. CASE Len(list) > 0
    <3>1. /\ tier_count(list) = list[Len(list)].tier + 1
          /\ \A t \in 0 .. list[Len(list)].tier : \E i \in 1 .. Len(list) : list[i].tier = t
      BY <2>4, TierFacts
    <3>2. list[Len(list)].tier \in Nat
      BY <1>0, <2>4, EntryTypes
    <3>3. \A t \in 0 .. list[Len(list)].tier : \E j \in DOMAIN r : r[j].tier = t
      BY <2>0, <3>1
    <3>4. CASE p = Len(list) + 1
      <4>1. tier_count(r) = a.tier + 1 /\ a.tier <= list[Len(list)].tier + 1
        BY <1>1, <2>2, <3>1, <3>4 DEF CanInsert
      <4>2. \A t \in 0 .. tier_count(r) - 1 : t = a.tier \/ t \in 0 .. list[Len(list)].tier
        BY <2>1, <3>2, <4>1
      <4> QED
        BY <1>1, <2>1, <3>3, <4>2 DEF NoGap
    <3>5. CASE p # Len(list) + 1
      <4>1. r[Len(list) + 1] = list[Len(list)]
        <5>1. Len(list) + 1 \in p + 1 .. Len(list) + 1 /\ (Len(list) + 1) - 1 = Len(list)
          BY <1>0, <3>5
        <5> QED
          BY <1>1, <5>1
      <4>2. tier_count(r) - 1 = list[Len(list)].tier
        BY <2>2, <3>2, <4>1
      <4> QED
        BY <3>3, <4>2 DEF NoGap
    <3> QED
      BY <3>4, <3>5
  <2> QED
    BY <1>0, <2>3, <2>4
<1> QED
  BY <1>1, <1>2, <1>3 DEF WellFormed, r

-----------------------------------------------------------------------------
(* erase.                                                                  *)

(* The list after an erase, entry by entry.                                *)
LEMMA EraseShape ==
    ASSUME NEW list, WellFormed(list), NEW pos \in 1 .. Len(list)
    PROVE  \E gap \in BOOLEAN :
              /\ erase(list, pos) \in Seq(AnnounceUrls)
              /\ Len(erase(list, pos)) = Len(list) - 1
              /\ \A i \in 1 .. pos - 1 : erase(list, pos)[i] = list[i]
              /\ \A i \in pos .. Len(list) - 1 :
                    /\ erase(list, pos)[i].url = list[i + 1].url
                    /\ erase(list, pos)[i].tier =
                          IF gap THEN list[i + 1].tier - 1 ELSE list[i + 1].tier
              /\ gap => /\ pos < Len(list)
                        /\ \A i \in 1 .. pos - 1 : list[i].tier < list[pos].tier
                        /\ \A i \in pos + 1 .. Len(list) : list[i].tier > list[pos].tier
              /\ ~gap /\ pos < Len(list) =>
                    \E i \in 1 .. Len(list) : i # pos /\ list[i].tier = list[pos].tier
<1> DEFINE rest == RemoveAt(list, pos)
           tier == list[pos].tier
           gap == /\ pos <= Len(rest) /\ rest[pos].tier # tier
                  /\ rest[get_tier_begin(rest, tier)].tier # tier
           r == erase(list, pos)
<1>0. list \in Seq(AnnounceUrls) /\ Len(list) \in Nat /\ Len(list) > 0
  BY DEF WellFormed
<1>1. /\ rest \in Seq(AnnounceUrls) /\ Len(rest) = Len(list) - 1
      /\ \A i \in 1 .. pos - 1 : rest[i] = list[i]
      /\ \A i \in pos .. Len(list) - 1 : rest[i] = list[i + 1]
  BY <1>0, RemoveAtFacts
<1>2. \A i, j \in 1 .. Len(list) : i <= j => list[i].tier <= list[j].tier
  BY <1>0, TierFacts
<1>t. \A i \in 1 .. Len(list) : list[i] \in AnnounceUrls /\ list[i].tier \in Nat
  BY <1>0, EntryTypes
<1>3. r = [i \in DOMAIN rest |->
              IF gap /\ i >= pos THEN [rest[i] EXCEPT !.tier = @ - 1] ELSE rest[i]]
  BY DEF erase
<1>d. DOMAIN rest = 1 .. Len(list) - 1 /\ gap \in BOOLEAN /\ tier \in Nat
  BY <1>1, <1>t
<1> HIDE DEF rest
<1>4. ASSUME pos < Len(list), rest[pos].tier # tier
      PROVE  /\ list[pos + 1].tier > tier
             /\ get_tier_begin(rest, tier) \in 1 .. pos
             /\ rest[get_tier_begin(rest, tier)].tier >= tier
             /\ \A i \in 1 .. Len(list) - 1 :
                   rest[i].tier >= tier => get_tier_begin(rest, tier) <= i
  <2> DEFINE I == {i \in 1 .. Len(rest) : rest[i].tier >= tier}
  <2>1. pos + 1 \in 1 .. Len(list) /\ pos \in pos .. Len(list) - 1 /\ pos <= pos + 1
    BY <1>0, <1>4
  <2>2. list[pos + 1].tier >= tier /\ list[pos + 1].tier # tier /\ list[pos + 1].tier \in Nat
    BY <1>1, <1>2, <1>4, <1>t, <2>1
  <2>3. pos \in I
    BY <1>0, <1>1, <1>4, <2>1, <2>2
  <2>4. I \in SUBSET Nat
    BY <1>1
  <2>5. Min(I) \in I /\ \A i \in I : Min(I) <= i
    BY <2>3, <2>4, MinFacts, Zenon
  <2>6. get_tier_begin(rest, tier) = Min(I)
    BY <2>3 DEF get_tier_begin, SelectInSeq
  <2>7. \A i \in 1 .. Len(list) - 1 : rest[i].tier >= tier => i \in I
    BY <1>1
  <2>8. Min(I) \in 1 .. pos
    BY <1>0, <1>1, <2>3, <2>5
  <2> QED
    <3>1. list[pos + 1].tier > tier
      BY <1>d, <2>2
    <3>2. rest[get_tier_begin(rest, tier)].tier >= tier /\ get_tier_begin(rest, tier) \in 1 .. pos
      <4>1. rest[Min(I)].tier >= tier
        BY <2>5, Zenon
      <4> QED
        BY <2>6, <2>8, <4>1, Zenon
    <3>3. ASSUME NEW i \in 1 .. Len(list) - 1, rest[i].tier >= tier PROVE get_tier_begin(rest, tier) <= i
      BY <2>5, <2>6, <2>7, <3>3, Zenon
    <3> QED
      BY <3>1, <3>2, <3>3, Zenon
<1>5. ASSUME gap
      PROVE  /\ pos < Len(list)
             /\ \A i \in 1 .. pos - 1 : list[i].tier < tier
             /\ \A i \in pos + 1 .. Len(list) : list[i].tier > tier
  <2>1. pos < Len(list) /\ rest[pos].tier # tier
    BY <1>0, <1>1, <1>5
  <2>2. ASSUME NEW i \in 1 .. pos - 1 PROVE list[i].tier < tier
    <3> DEFINE b == get_tier_begin(rest, tier)
    <3>1. i \in 1 .. Len(list) /\ i \in 1 .. Len(list) - 1 /\ i <= pos
      BY <1>0
    <3>2. list[i].tier <= tier /\ list[i].tier \in Nat /\ rest[i] = list[i]
      BY <1>1, <1>2, <1>t, <3>1
    <3>3. ASSUME list[i].tier = tier PROVE FALSE
      <4>1. b \in 1 .. i
        BY <1>4, <1>d, <2>1, <3>1, <3>2, <3>3
      <4>2. b \in 1 .. Len(list) /\ rest[b] = list[b] /\ b <= i
        BY <1>1, <3>1, <4>1
      <4>3. list[b].tier <= tier /\ list[b].tier \in Nat /\ list[b].tier # tier
        BY <1>2, <1>5, <1>t, <3>1, <3>3, <4>2
      <4>4. list[b].tier >= tier
        BY <1>4, <2>1, <4>2
      <4> QED
        BY <1>d, <4>3, <4>4
    <3> QED
      BY <1>d, <3>2, <3>3
  <2>3. ASSUME NEW i \in pos + 1 .. Len(list) PROVE list[i].tier > tier
    <3>1. pos + 1 \in 1 .. Len(list) /\ i \in 1 .. Len(list) /\ pos + 1 <= i
      BY <1>0
    <3>2. list[pos + 1].tier <= list[i].tier /\ list[pos + 1].tier > tier
      BY <1>2, <1>4, <2>1, <3>1
    <3> QED
      BY <1>d, <1>t, <3>1, <3>2
  <2> QED
    BY <2>1, <2>2, <2>3
<1>6. ASSUME ~gap, pos < Len(list)
      PROVE  \E i \in 1 .. Len(list) : i # pos /\ list[i].tier = tier
  <2>1. CASE rest[pos].tier = tier
    <3>1. pos + 1 \in 1 .. Len(list) /\ pos + 1 # pos /\ pos \in pos .. Len(list) - 1
      BY <1>0, <1>6
    <3> QED
      BY <1>1, <2>1, <3>1
  <2>2. CASE rest[pos].tier # tier
    <3> DEFINE b == get_tier_begin(rest, tier)
    <3>1. b \in 1 .. pos /\ rest[b].tier = tier
      BY <1>0, <1>1, <1>4, <1>6, <2>2
    <3>2. b \in 1 .. pos - 1
      BY <2>2, <3>1
    <3>3. b \in 1 .. Len(list) /\ b # pos /\ rest[b] = list[b]
      BY <1>0, <1>1, <3>2
    <3> QED
      BY <3>1, <3>3
  <2> QED
    BY <2>1, <2>2
<1>7. r \in Seq(AnnounceUrls) /\ Len(r) = Len(list) - 1
  <2>1. ASSUME NEW i \in 1 .. Len(list) - 1
        PROVE  (IF gap /\ i >= pos THEN [rest[i] EXCEPT !.tier = @ - 1] ELSE rest[i])
               \in AnnounceUrls
    <3>1. rest[i] \in AnnounceUrls
      BY <1>1
    <3>2. CASE gap /\ i >= pos
      <4>1. i \in pos .. Len(list) - 1 /\ i + 1 \in pos + 1 .. Len(list)
            /\ i + 1 \in 1 .. Len(list)
        BY <1>0, <3>2
      <4>2. rest[i].tier - 1 \in Nat
        BY <1>1, <1>5, <1>d, <1>t, <3>2, <4>1
      <4> QED
        BY <3>1, <3>2, <4>2 DEF AnnounceUrls
    <3> QED
      BY <3>1, <3>2
  <2>2. r \in [1 .. Len(list) - 1 -> AnnounceUrls]
    BY <1>3, <1>d, <2>1
  <2>3. Len(list) - 1 \in Nat
    BY <1>0
  <2> HIDE DEF r
  <2> QED
    BY <2>2, <2>3
<1>8. \A i \in 1 .. pos - 1 : r[i] = list[i]
  <2>1. \A i \in 1 .. pos - 1 : i \in DOMAIN rest /\ ~(i >= pos) /\ rest[i] = list[i]
    BY <1>0, <1>1, <1>d
  <2> QED
    BY <1>3, <2>1
<1>9. ASSUME NEW i \in pos .. Len(list) - 1
      PROVE  /\ r[i].url = list[i + 1].url
             /\ r[i].tier = IF gap THEN list[i + 1].tier - 1 ELSE list[i + 1].tier
  <2>1. i \in DOMAIN rest /\ i >= pos /\ rest[i] = list[i + 1] /\ i + 1 \in 1 .. Len(list)
    BY <1>0, <1>1, <1>d
  <2>2. rest[i] \in AnnounceUrls
    BY <1>t, <2>1
  <2>3. r[i] = IF gap THEN [rest[i] EXCEPT !.tier = @ - 1] ELSE rest[i]
    BY <1>3, <2>1
  <2> QED
    BY <2>1, <2>2, <2>3 DEF AnnounceUrls
<1> gap \in BOOLEAN
  BY <1>d
<1> HIDE DEF r, gap
<1> WITNESS gap \in BOOLEAN
<1> QED
  BY <1>5, <1>6, <1>7, <1>8, <1>9 DEF r

(* erase keeps the list ordered and its tiers without gaps: it moves the   *)
(* tiers behind up exactly when it emptied one.                            *)
THEOREM EraseKeepsTiers ==
    ASSUME NEW list, WellFormed(list), NEW pos \in 1 .. Len(list)
    PROVE  WellFormed(erase(list, pos))
<1> DEFINE r == erase(list, pos)
           tier == list[pos].tier
<1>0. list \in Seq(AnnounceUrls) /\ Len(list) \in Nat /\ Len(list) > 0
      /\ DOMAIN list = 1 .. Len(list)
  BY DEF WellFormed
<1>g. PICK gap \in BOOLEAN :
         /\ r \in Seq(AnnounceUrls)
         /\ Len(r) = Len(list) - 1
         /\ \A i \in 1 .. pos - 1 : r[i] = list[i]
         /\ \A i \in pos .. Len(list) - 1 :
               /\ r[i].url = list[i + 1].url
               /\ r[i].tier = IF gap THEN list[i + 1].tier - 1 ELSE list[i + 1].tier
         /\ gap => /\ pos < Len(list)
                   /\ \A i \in 1 .. pos - 1 : list[i].tier < tier
                   /\ \A i \in pos + 1 .. Len(list) : list[i].tier > tier
         /\ ~gap /\ pos < Len(list) =>
               \E i \in 1 .. Len(list) : i # pos /\ list[i].tier = tier
  BY EraseShape
<1> HIDE DEF r
<1>1. \A i, j \in 1 .. Len(list) : i <= j => list[i].tier <= list[j].tier
  BY <1>0, TierFacts
<1>t. \A i \in 1 .. Len(list) :
         list[i] \in AnnounceUrls /\ list[i].tier \in Nat /\ list[i].url \in Nat
  BY <1>0, EntryTypes
<1>r. \A i \in 1 .. Len(list) - 1 :
         r[i] \in AnnounceUrls /\ r[i].tier \in Nat /\ r[i].url \in Nat
  BY <1>g, EntryTypes
<1>d. DOMAIN r = 1 .. Len(list) - 1 /\ tier \in Nat
  BY <1>g, <1>t
<1>2. Sorted(r)
  <2> SUFFICES ASSUME NEW i \in 1 .. Len(list) - 1, NEW j \in 1 .. Len(list) - 1, i < j
               PROVE  ~Less(r[j], r[i])
    BY <1>d DEF Sorted
  <2>1. CASE j < pos
    <3>1. /\ i \in 1 .. Len(list) /\ j \in 1 .. Len(list)
          /\ r[i] = list[i] /\ r[j] = list[j]
      BY <1>0, <1>g, <2>1
    <3> QED
      BY <1>0, <3>1 DEF WellFormed, Sorted
  <2>2. CASE i >= pos
    <3>1. /\ i + 1 \in 1 .. Len(list) /\ j + 1 \in 1 .. Len(list) /\ i + 1 < j + 1
          /\ i \in pos .. Len(list) - 1 /\ j \in pos .. Len(list) - 1
      BY <1>0, <2>2
    <3>2. ~Less(list[j + 1], list[i + 1])
      BY <1>0, <3>1 DEF WellFormed, Sorted
    <3>3. /\ r[i].url = list[i + 1].url /\ r[j].url = list[j + 1].url
          /\ \/ r[i].tier = list[i + 1].tier /\ r[j].tier = list[j + 1].tier
             \/ r[i].tier = list[i + 1].tier - 1 /\ r[j].tier = list[j + 1].tier - 1
      BY <1>g, <3>1
    <3>4. /\ list[i + 1].tier \in Nat /\ list[j + 1].tier \in Nat
          /\ list[i + 1].url \in Nat /\ list[j + 1].url \in Nat
      BY <1>t, <3>1
    <3> QED
      BY <3>2, <3>3, <3>4, LessShift, Zenon
  <2>3. CASE i < pos /\ j >= pos
    <3>1. /\ i \in 1 .. pos - 1 /\ i \in 1 .. Len(list) /\ r[i] = list[i]
          /\ j \in pos .. Len(list) - 1 /\ j + 1 \in 1 .. Len(list) /\ i < j + 1
          /\ j + 1 \in pos + 1 .. Len(list)
      BY <1>0, <1>g, <2>3
    <3>2. CASE gap
      <4>1. list[i].tier < tier /\ list[j + 1].tier > tier /\ r[j].tier = list[j + 1].tier - 1
        BY <1>g, <3>1, <3>2
      <4>2. list[i].tier \in Nat /\ list[j + 1].tier \in Nat /\ r[i].tier = list[i].tier
        BY <1>t, <3>1
      <4>3. r[i].tier < r[j].tier
        BY <1>d, <4>1, <4>2
      <4> QED
        BY <1>r, <4>3, LessFacts
    <3>3. CASE ~gap
      <4>1. ~Less(list[j + 1], list[i])
        BY <1>0, <3>1 DEF WellFormed, Sorted
      <4>2. r[j].url = list[j + 1].url /\ r[j].tier = list[j + 1].tier
        BY <1>g, <3>1, <3>3
      <4> QED
        BY <3>1, <4>1, <4>2 DEF Less
    <3> QED
      BY <3>2, <3>3
  <2> QED
    BY <2>1, <2>2, <2>3
<1>3. NoGap(r)
  <2>1. CASE Len(list) = 1
    <3>1. r = <<>>
      BY <1>g, <2>1
    <3>2. tier_count(r) = 0
      BY <3>1 DEF tier_count
    <3> QED
      BY <3>2 DEF NoGap
  <2>2. CASE Len(list) > 1
    <3> DEFINE n == Len(list)
    <3>0. /\ n - 1 \in 1 .. n - 1 /\ n \in 1 .. n /\ n - 1 \in 1 .. n
          /\ n = (n - 1) + 1
      BY <1>0, <2>2
    <3>1. tier_count(r) = r[n - 1].tier + 1 /\ r[n - 1].tier \in Nat
      <4>1. r # <<>> /\ Len(r) = n - 1
        BY <1>g, <3>0
      <4> QED
        BY <1>r, <3>0, <4>1 DEF tier_count, Last
    <3>2. \A t \in 0 .. list[n].tier : \E i \in 1 .. n : list[i].tier = t
      BY <1>0, TierFacts
    <3> SUFFICES ASSUME NEW t \in 0 .. r[n - 1].tier
                 PROVE  \E i \in 1 .. n - 1 : r[i].tier = t
      <4>1. tier_count(r) - 1 = r[n - 1].tier
        BY <3>1
      <4> QED
        BY <1>d, <4>1 DEF NoGap
    <3>3. CASE gap
      <4>1. n - 1 \in pos .. n - 1
        BY <1>0, <1>g, <3>3
      <4>2. r[n - 1].tier = list[n].tier - 1 /\ list[n].tier \in Nat
        BY <1>g, <1>t, <3>0, <3>3, <4>1
      <4>3. CASE t < tier
        <5>0. t \in 0 .. list[n].tier
          BY <4>2
        <5>1. PICK i \in 1 .. n : list[i].tier = t
          BY <3>2, <5>0
        <5>2. i \in 1 .. pos - 1
          <6>1. ~(pos <= i)
            BY <1>1, <1>d, <1>t, <4>3, <5>1
          <6> QED
            BY <1>0, <6>1
        <5>3. i \in 1 .. n - 1 /\ r[i] = list[i]
          BY <1>0, <1>g, <5>2
        <5> QED
          BY <5>1, <5>3
      <4>4. CASE t >= tier
        <5>0. t + 1 \in 0 .. list[n].tier
          BY <4>2
        <5>1. PICK i \in 1 .. n : list[i].tier = t + 1
          BY <3>2, <5>0
        <5>2. i \in pos + 1 .. n
          <6>1. ~(i <= pos)
            BY <1>1, <1>d, <1>t, <4>4, <5>1
          <6> QED
            BY <1>0, <6>1
        <5>3. i - 1 \in pos .. n - 1 /\ (i - 1) + 1 = i /\ i - 1 \in 1 .. n - 1
          BY <1>0, <5>2
        <5>4. r[i - 1].tier = list[i].tier - 1
          BY <1>g, <3>3, <5>3
        <5>5. r[i - 1].tier = t
          BY <5>1, <5>4
        <5> QED
          BY <5>3, <5>5
      <4> QED
        BY <1>d, <4>3, <4>4
    <3>4. CASE ~gap
      <4>0. ASSUME NEW i \in 1 .. n, i # pos
            PROVE  \E j \in 1 .. n - 1 : r[j].tier = list[i].tier
        <5>1. CASE i < pos
          <6>1. i \in 1 .. pos - 1 /\ i \in 1 .. n - 1
            BY <1>0, <5>1
          <6> QED
            BY <1>g, <6>1
        <5>2. CASE i > pos
          <6>1. i - 1 \in pos .. n - 1 /\ (i - 1) + 1 = i /\ i - 1 \in 1 .. n - 1
            BY <1>0, <5>2
          <6>2. r[i - 1].tier = list[i].tier
            BY <1>g, <3>4, <6>1
          <6> QED
            BY <6>1, <6>2
        <5> QED
          BY <1>0, <4>0, <5>1, <5>2
      <4>1. CASE pos < n
        <5>1. n - 1 \in pos .. n - 1
          BY <1>0, <4>1
        <5>2. r[n - 1].tier = list[n].tier
          BY <1>g, <3>0, <3>4, <5>1
        <5>3. PICK i \in 1 .. n : list[i].tier = t
          BY <3>2, <5>2
        <5>4. \E k \in 1 .. n : k # pos /\ list[k].tier = t
          BY <1>g, <3>4, <4>1, <5>3
        <5> QED
          BY <4>0, <5>4
      <4>2. CASE pos = n
        <5>1. r[n - 1] = list[n - 1]
          BY <1>g, <3>0, <4>2
        <5>2. list[n - 1].tier <= list[n].tier /\ list[n - 1].tier \in Nat
              /\ list[n].tier \in Nat
          BY <1>1, <1>t, <3>0
        <5>3. t \in 0 .. list[n].tier /\ t <= list[n - 1].tier
          BY <5>1, <5>2
        <5>4. PICK i \in 1 .. n : list[i].tier = t
          BY <3>2, <5>3
        <5>5. CASE i # pos
          BY <4>0, <5>4, <5>5
        <5>6. CASE i = pos
          <6>1. r[n - 1].tier = t
            BY <4>2, <5>1, <5>2, <5>3, <5>4, <5>6
          <6> QED
            BY <3>0, <6>1
        <5> QED
          BY <5>5, <5>6
      <4>3. pos < n \/ pos = n
        <5>1. pos \in Int /\ pos <= Len(list) /\ Len(list) \in Int
          BY <1>0
        <5> QED
          BY <5>1
      <4> QED
        BY <4>1, <4>2, <4>3
    <3> QED
      BY <3>3, <3>4
  <2> QED
    BY <1>0, <2>1, <2>2
<1> QED
  BY <1>2, <1>3, <1>g DEF WellFormed, r

(* erase(const announce_url&) does so too, whether or not it is there.     *)
LEMMA EraseAnnounceKeepsTiers ==
    ASSUME NEW list, WellFormed(list), NEW a \in AnnounceUrls
    PROVE  WellFormed(erase_announce(list, a))
<1>1. list \in Seq(AnnounceUrls)
  BY DEF WellFormed
<1> QED
  BY <1>1, FindAnnounceFacts, EraseKeepsTiers DEF erase_announce

-----------------------------------------------------------------------------
(* metafile: no url is there twice.                                        *)

(* erase takes out the url at pos and no other.                            *)
LEMMA EraseUrls ==
    ASSUME NEW list, WellFormed(list), NEW pos \in 1 .. Len(list),
           \A i, j \in (1 .. Len(list)) \ {pos} : list[i].url = list[j].url => i = j
    PROVE  UniqueUrls(erase(list, pos))
<1> DEFINE r == erase(list, pos)
<1>0. list \in Seq(AnnounceUrls) /\ Len(list) \in Nat
  BY DEF WellFormed
<1>1. /\ r \in Seq(AnnounceUrls) /\ Len(r) = Len(list) - 1
      /\ \A i \in 1 .. pos - 1 : r[i].url = list[i].url
      /\ \A i \in pos .. Len(list) - 1 : r[i].url = list[i + 1].url
  BY EraseShape
<1> HIDE DEF r
<1>2. ASSUME NEW i \in 1 .. Len(r), NEW j \in 1 .. Len(r), r[i].url = r[j].url
      PROVE  i = j
  <2> DEFINE Old(k) == IF k < pos THEN k ELSE k + 1
  <2>1. \A k \in 1 .. Len(r) : /\ Old(k) \in (1 .. Len(list)) \ {pos}
                               /\ r[k].url = list[Old(k)].url
    BY <1>0, <1>1
  <2>2. Old(i) = Old(j)
    <3>1. /\ Old(i) \in (1 .. Len(list)) \ {pos} /\ Old(j) \in (1 .. Len(list)) \ {pos}
          /\ list[Old(i)].url = list[Old(j)].url
      BY <1>2, <2>1
    <3> HIDE DEF Old
    <3> QED
      BY <3>1
  <2> QED
    BY <1>0, <1>1, <2>2
<1> QED
  BY <1>1, <1>2, UniqueDef DEF r

(* metafile::remove_tracker keeps the list well formed and its urls        *)
(* unique.                                                                 *)
THEOREM RemoveTrackerKeeps ==
    ASSUME NEW list, WellFormed(list), UniqueUrls(list), NEW url \in Nat
    PROVE  WellFormed(remove_tracker(list, url)) /\ UniqueUrls(remove_tracker(list, url))
<1>0. list \in Seq(AnnounceUrls)
  BY DEF WellFormed
<1>1. CASE find(list, url) = 0
  BY <1>1 DEF remove_tracker
<1>2. CASE find(list, url) # 0
  <2>1. find(list, url) \in 1 .. Len(list)
    BY <1>0, <1>2, FindFacts
  <2>2. remove_tracker(list, url) = erase(list, find(list, url))
    BY <1>2 DEF remove_tracker
  <2>3. \A i, j \in 1 .. Len(list) : list[i].url = list[j].url => i = j
    BY <1>0, UniqueDef
  <2> QED
    BY <2>1, <2>2, <2>3, EraseKeepsTiers, EraseUrls
<1> QED
  BY <1>1, <1>2

(* metafile::add_tracker keeps the list well formed and its urls unique,   *)
(* also when the url is there already and changes its tier: for a moment   *)
(* it is there twice, and its old tier may vanish with it.                 *)
THEOREM AddTrackerKeeps ==
    ASSUME NEW list, WellFormed(list), UniqueUrls(list),
           NEW a \in AnnounceUrls, CanInsert(list, a)
    PROVE  WellFormed(add_tracker(list, a)) /\ UniqueUrls(add_tracker(list, a))
<1> DEFINE f == find(list, a.url)
           r == insert(list, a)
<1>0. list \in Seq(AnnounceUrls) /\ Len(list) \in Nat /\ a.url \in Nat
  BY DEF WellFormed, AnnounceUrls
<1>1. /\ f = 0 => \A i \in 1 .. Len(list) : list[i].url # a.url
      /\ f # 0 => f \in 1 .. Len(list) /\ list[f].url = a.url
  BY <1>0, FindFacts
<1>2. \A i, j \in 1 .. Len(list) : list[i].url = list[j].url => i = j
  BY <1>0, UniqueDef
<1>3. WellFormed(r) /\ r \in Seq(AnnounceUrls)
  BY InsertKeepsTiers DEF WellFormed
<1>p. PICK p \in 1 .. Len(list) + 1 : r = InsertAt(list, p, a)
  BY InsertPlace
<1> HIDE DEF r, f
<1>4. /\ Len(r) = Len(list) + 1 /\ r[p] = a
      /\ \A i \in 1 .. p - 1 : r[i] = list[i]
      /\ \A i \in p + 1 .. Len(list) + 1 : r[i] = list[i - 1]
  <2>1. a \in AnnounceUrls /\ p \in 1 .. Len(list) + 1 /\ list \in Seq(AnnounceUrls)
    BY <1>0
  <2>2. /\ Len(InsertAt(list, p, a)) = Len(list) + 1 /\ InsertAt(list, p, a)[p] = a
        /\ \A i \in 1 .. p - 1 : InsertAt(list, p, a)[i] = list[i]
        /\ \A i \in p + 1 .. Len(list) + 1 : InsertAt(list, p, a)[i] = list[i - 1]
    BY ONLY <2>1, InsertAtFacts, SMTT(30)
  <2> QED
    BY <1>p, <2>2
<1> DEFINE Old(k) == IF k < p THEN k ELSE k - 1
<1>5. /\ \A k \in 1 .. Len(r) : k # p => Old(k) \in 1 .. Len(list) /\ r[k] = list[Old(k)]
      /\ \A k, l \in 1 .. Len(r) : k # p /\ l # p /\ Old(k) = Old(l) => k = l
  <2>1. ASSUME NEW k \in 1 .. Len(r), k # p PROVE Old(k) \in 1 .. Len(list) /\ r[k] = list[Old(k)]
    <3>1. CASE k < p
      <4>1. k \in 1 .. p - 1 /\ k \in 1 .. Len(list)
        BY <1>0, <3>1
      <4> QED
        BY <1>4, <3>1, <4>1, Zenon
    <3>2. CASE ~(k < p)
      <4>1. k \in p + 1 .. Len(list) + 1 /\ k - 1 \in 1 .. Len(list)
        BY <1>0, <1>4, <2>1, <3>2
      <4> QED
        BY <1>4, <3>2, <4>1, Zenon
    <3> QED
      BY <3>1, <3>2
  <2>2. ASSUME NEW k \in 1 .. Len(r), NEW l \in 1 .. Len(r), k # p, l # p, Old(k) = Old(l) PROVE k = l
    BY <1>0, <2>2
  <2> QED
    BY <2>1, <2>2
<1> HIDE DEF Old
<1>6. CASE f = 0
  <2>1. add_tracker(list, a) = r
    BY <1>6 DEF add_tracker, f, r
  <2>2. \A k, l \in 1 .. Len(r) : r[k].url = r[l].url => k = l
    <3>1. ASSUME NEW k \in 1 .. Len(r), k # p PROVE r[k].url # r[p].url
      BY <1>1, <1>2, <1>4, <1>5, <1>6, <3>1
    <3>2. ASSUME NEW k \in 1 .. Len(r), NEW l \in 1 .. Len(r), k # p, l # p, r[k].url = r[l].url
          PROVE  k = l
      BY <1>2, <1>5, <3>2
    <3> QED
      BY <3>1, <3>2
  <2> QED
    BY <1>3, <2>1, <2>2, UniqueDef
<1>7. CASE f # 0 /\ list[f].tier = a.tier
  BY <1>7 DEF add_tracker, f
<1>8. CASE f # 0 /\ list[f].tier # a.tier
  <2> DEFINE old == list[f]
             pos == find_announce(r, old)
  <2>0. add_tracker(list, a) = erase_announce(r, old)
    BY <1>8 DEF add_tracker, f, r
  <2>1. f \in 1 .. Len(list) /\ old.url = a.url /\ old # a /\ old \in AnnounceUrls
    BY <1>0, <1>1, <1>8, EntryTypes
  <2>2. \E k \in 1 .. Len(r) : r[k] = old
    <3>1. CASE f < p
      BY <1>0, <1>4, <2>1, <3>1
    <3>2. CASE f >= p
      <4>1. f + 1 \in p + 1 .. Len(list) + 1 /\ (f + 1) - 1 = f /\ f + 1 \in 1 .. Len(r)
        BY <1>0, <1>4, <2>1, <3>2
      <4> QED
        BY <1>4, <4>1
    <3> QED
      BY <1>0, <2>1, <3>1, <3>2
  <2> HIDE DEF old
  <2>3. pos \in 1 .. Len(r) /\ r[pos] = old /\ pos # 0
    BY <1>3, <2>1, <2>2, FindAnnounceFacts
  <2>4. add_tracker(list, a) = erase(r, pos)
    BY <2>0, <2>3 DEF erase_announce
  <2> HIDE DEF pos
  <2>5. pos # p /\ Old(pos) = f
    <3>1. pos # p
      BY <1>4, <2>1, <2>3
    <3>2. Old(pos) \in 1 .. Len(list) /\ list[Old(pos)].url = list[f].url
      BY <1>5, <2>3, <3>1 DEF old
    <3> QED
      BY <1>2, <2>1, <3>1, <3>2
  <2>6. \A k \in (1 .. Len(r)) \ {pos} : k # p => r[k].url # a.url
    BY <1>2, <1>5, <2>1, <2>3, <2>5 DEF old
  <2>7. ASSUME NEW k \in (1 .. Len(r)) \ {pos}, NEW l \in (1 .. Len(r)) \ {pos},
               r[k].url = r[l].url
        PROVE  k = l
    <3>1. CASE k = p \/ l = p
      BY <1>4, <2>6, <2>7, <3>1
    <3>2. CASE k # p /\ l # p
      <4>1. /\ Old(k) \in 1 .. Len(list) /\ Old(l) \in 1 .. Len(list)
            /\ list[Old(k)].url = list[Old(l)].url
        BY <1>5, <2>7, <3>2
      <4> QED
        BY <1>2, <1>5, <3>2, <4>1
    <3> QED
      BY <3>1, <3>2
  <2> QED
    BY <1>3, <2>3, <2>4, <2>7, EraseKeepsTiers, EraseUrls
<1> QED
  BY <1>6, <1>7, <1>8

-----------------------------------------------------------------------------
(* What a fold computes, one step at a time.                               *)

(* FlattenSeq of a longer sequence of sequences.                           *)
LEMMA FlattenAppend ==
    ASSUME NEW S, NEW s \in Seq(Seq(S)), NEW x \in Seq(S)
    PROVE  FlattenSeq(Append(s, x)) = FlattenSeq(s) \o x
<1> DEFINE n == Len(s)
           t == Append(s, x)
<1>1. /\ n \in Nat /\ Len(t) = n + 1 /\ t[n + 1] = x /\ \A i \in 1 .. n : t[i] = s[i]
      /\ t \in Seq(Seq(S))
  OBVIOUS
<1>2. FlattenSeq(s) \in Seq(S)
  BY FlattenType
<1> HIDE DEF n, t
<1>3. PICK f : IsFlat(f, t) /\ FlattenSeq(t) = f[n + 1]
  <2>1. t \in Seq(Seq(S)) /\ Len(t) = n + 1
    BY <1>1
  <2>2. PICK f : IsFlat(f, t) /\ FlattenSeq(t) = f[Len(t)]
    <3>1. Len(t) \in Nat \ {0}
      BY <1>1
    <3> QED
      BY <3>1, FlattenFacts, Zenon
  <2> QED
    BY <2>1, <2>2, Zenon
<1>4. \A i \in 1 .. n + 1 : f[i] = IF i = 1 THEN t[i] ELSE f[i - 1] \o t[i]
  BY <1>1, <1>3, Zenon DEF IsFlat
<1>5. CASE n = 0
  <2>1. f[1] = x
    BY <1>1, <1>4, <1>5
  <2>2. FlattenSeq(s) = <<>>
    BY <1>5 DEF FlattenSeq, n
  <2>3. <<>> \o x = x
    OBVIOUS
  <2> QED
    BY <1>3, <1>5, <2>1, <2>2, <2>3 DEF t
<1>6. CASE n # 0
  <2>1. Len(s) \in Nat \ {0}
    BY <1>1, <1>6 DEF n
  <2>2. PICK g : IsFlat(g, s) /\ FlattenSeq(s) = g[n]
    BY <2>1, FlattenFacts DEF n
  <2>3. \A i \in 1 .. n : g[i] = IF i = 1 THEN s[i] ELSE g[i - 1] \o s[i]
    BY <2>2, Zenon DEF IsFlat, n
  <2> DEFINE A == {i \in Nat : i \in 1 .. n => f[i] = g[i]}
  <2>4. 0 \in A /\ A \in SUBSET Nat
    OBVIOUS
  <2>5. ASSUME NEW i \in A PROVE i + 1 \in A
    <3> SUFFICES ASSUME i + 1 \in 1 .. n PROVE f[i + 1] = g[i + 1]
      OBVIOUS
    <3>1. i + 1 \in 1 .. n + 1 /\ (i + 1) - 1 = i /\ (i # 0 => i \in 1 .. n) /\ i \in Nat
      BY <1>1
    <3>2. t[i + 1] = s[i + 1]
      BY <1>1
    <3>3. f[i + 1] = IF i + 1 = 1 THEN t[i + 1] ELSE f[i] \o t[i + 1]
      BY <1>4, <3>1
    <3>4. g[i + 1] = IF i + 1 = 1 THEN s[i + 1] ELSE g[i] \o s[i + 1]
      BY <2>3, <3>1
    <3>5. i # 0 => f[i] = g[i]
      BY <3>1
    <3> QED
      BY <3>1, <3>2, <3>3, <3>4, <3>5
  <2>6. A = Nat
    <3> HIDE DEF A
    <3> QED
      BY <2>4, <2>5, Induction
  <2>7. f[n] = g[n]
    <3>1. n \in A
      BY <1>1, <2>6
    <3> QED
      BY <1>1, <1>6, <3>1
  <2>8. f[n + 1] = f[n] \o x
    <3>1. n + 1 \in 1 .. n + 1 /\ n + 1 # 1 /\ (n + 1) - 1 = n
      BY <1>1, <1>6
    <3>2. f[n + 1] = f[(n + 1) - 1] \o t[n + 1]
      BY <1>4, <3>1, Zenon
    <3> QED
      BY <1>1, <3>1, <3>2
  <2> QED
    BY <1>3, <2>2, <2>7, <2>8 DEF t
<1> QED
  BY <1>5, <1>6

(* FlattenSeq of no sequences.                                             *)
LEMMA FlattenEmpty == FlattenSeq(<<>>) = <<>>
  BY DEF FlattenSeq

(* A sequence that is longer by one.                                       *)
LEMMA SubSeqGrows ==
    ASSUME NEW S, NEW s \in Seq(S), NEW k \in 0 .. Len(s) - 1
    PROVE  /\ SubSeq(s, 1, k + 1) = Append(SubSeq(s, 1, k), s[k + 1])
           /\ SubSeq(s, 1, k) \in Seq(S) /\ Len(SubSeq(s, 1, k)) = k
           /\ \A i \in 1 .. k : SubSeq(s, 1, k)[i] = s[i]
           /\ s[k + 1] \in S
  OBVIOUS

(* Sequences are equal if they have one length and the same elements.      *)
LEMMA SeqEqual ==
    ASSUME NEW S, NEW s \in Seq(S), NEW t \in Seq(S), Len(s) = Len(t),
           \A i \in 1 .. Len(s) : s[i] = t[i]
    PROVE  s = t
  OBVIOUS

(* The greatest element of a set of indices.                               *)
LEMMA MaxOfSet ==
    ASSUME NEW k \in Nat, NEW s \in SUBSET (1 .. k + 1), k + 1 \in s
    PROVE  Max(s) = k + 1
<1>1. /\ \A y \in s : k + 1 >= y
      /\ \A x \in s : (\A y \in s : x >= y) => x = k + 1
  OBVIOUS
<1> QED
  BY <1>1 DEF Max

-----------------------------------------------------------------------------
(* parse_announce: one add_tracker of AddAll.                              *)
ReadStep(acc, a) ==
    IF acc.ok /\ CanInsert(acc.list, a)
    THEN [acc EXCEPT !.list = add_tracker(@, a)] ELSE [acc EXCEPT !.ok = FALSE]

(* The fold over all announces to read, and the function FoldLeft defines.  *)
ReadAll(base, es) == FoldLeft(ReadStep, base, es)
ReadFold(it, base, es) ==
    it = [s \in SUBSET DOMAIN es |->
             IF s = {} THEN base ELSE ReadStep(it[s \ {Max(s)}], es[Max(s)])]

(* The fold of AddAll is well defined ...                                  *)
LEMMA ReadFoldExists ==
    ASSUME NEW base, NEW es, NEW n \in Nat, DOMAIN es = 1 .. n
    PROVE  \E it : ReadFold(it, base, es)
<1> DEFINE Good(it, k) == it = [s \in SUBSET (1 .. k) |->
                                   IF s = {} THEN base ELSE ReadStep(it[s \ {Max(s)}], es[Max(s)])]
           A == {k \in Nat : \E it : Good(it, k)}
<1>1. 0 \in A /\ A \in SUBSET Nat
  <2> DEFINE it == [s \in SUBSET (1 .. 0) |-> base]
  <2>1. Good(it, 0)
    <3>1. \A s \in SUBSET (1 .. 0) : s = {}
      OBVIOUS
    <3> QED
      BY <3>1, Zenon
  <2>2. \E b : Good(b, 0)
    BY <2>1
  <2> HIDE DEF Good
  <2> QED
    BY <2>2
<1>2. ASSUME NEW k \in A PROVE k + 1 \in A
  <2>1. PICK it : Good(it, k)
    OBVIOUS
  <2> DEFINE g == [s \in SUBSET (1 .. k + 1) |->
                      IF k + 1 \in s THEN ReadStep(it[s \ {Max(s)}], es[Max(s)]) ELSE it[s]]
  <2>2. ASSUME NEW s \in SUBSET (1 .. k + 1)
        PROVE  g[s] = IF s = {} THEN base ELSE ReadStep(g[s \ {Max(s)}], es[Max(s)])
    <3>1. CASE k + 1 \in s
      <4>1. Max(s) = k + 1
        BY <3>1, MaxOfSet
      <4>2. g[s \ {k + 1}] = it[s \ {k + 1}]
        <5>1. s \ {k + 1} \in SUBSET (1 .. k + 1) /\ k + 1 \notin s \ {k + 1}
          OBVIOUS
        <5> QED
          BY <5>1
      <4> QED
        BY <3>1, <4>1, <4>2
    <3>2. CASE k + 1 \notin s
      <4>1. s \in SUBSET (1 .. k) /\ k \in Nat
        BY <3>2
      <4>2. g[s] = it[s]
        BY <3>2
      <4>3. s # {} => g[s \ {Max(s)}] = it[s \ {Max(s)}]
        <5>1. s \ {Max(s)} \in SUBSET (1 .. k + 1) /\ k + 1 \notin s \ {Max(s)}
          BY <3>2
        <5> QED
          BY <5>1
      <4>4. it[s] = IF s = {} THEN base ELSE ReadStep(it[s \ {Max(s)}], es[Max(s)])
        BY <2>1, <4>1, Zenon
      <4> HIDE DEF g
      <4> QED
        BY <4>2, <4>3, <4>4
    <3> QED
      BY <3>1, <3>2
  <2>3. Good(g, k + 1)
    <3>1. g = [s \in SUBSET (1 .. k + 1) |-> g[s]]
      OBVIOUS
    <3> HIDE DEF g
    <3> QED
      BY <2>2, <3>1, Zenon
  <2>4. \E b : Good(b, k + 1)
    BY <2>3
  <2> HIDE DEF Good
  <2> QED
    BY <2>4
<1>3. A = Nat
  <2> HIDE DEF A
  <2> QED
    BY <1>1, <1>2, Induction
<1>4. \E it : Good(it, n)
  <2> HIDE DEF Good
  <2> QED
    BY <1>3
<1> QED
  BY <1>4 DEF ReadFold

(* The values of that fold: r[k] is the one after k announces.              *)
ReadRun(r, base, es, n) ==
    /\ r[0] = base /\ r[n] = ReadAll(base, es)
    /\ \A k \in 1 .. n : r[k] = ReadStep(r[k - 1], es[k])

(* ... and goes from the first announce to the last.                       *)
LEMMA ReadSteps ==
    ASSUME NEW base, NEW es, NEW n \in Nat, DOMAIN es = 1 .. n
    PROVE  \E r : ReadRun(r, base, es, n)
<1>1. PICK it : ReadFold(it, base, es) /\ ReadAll(base, es) = it[DOMAIN es]
  <2>1. ReadAll(base, es) = (CHOOSE it : ReadFold(it, base, es))[DOMAIN es]
    BY Zenon DEF ReadAll, FoldLeft, MapThenFoldSet, ReadFold
  <2>2. \E it : ReadFold(it, base, es)
    BY ReadFoldExists
  <2> QED
    BY <2>1, <2>2, Zenon
<1> DEFINE r == [k \in 0 .. n |-> it[1 .. k]]
<1>2. r[0] = base /\ r[n] = ReadAll(base, es)
  <2>1. 1 .. 0 = {} /\ {} \in SUBSET DOMAIN es
    OBVIOUS
  <2>2. it[{}] = base
    BY <1>1, <2>1 DEF ReadFold
  <2>3. r[0] = it[1 .. 0] /\ r[n] = it[1 .. n]
    OBVIOUS
  <2> QED
    BY <1>1, <2>1, <2>2, <2>3, Zenon
<1>3. ASSUME NEW k \in 1 .. n PROVE r[k] = ReadStep(r[k - 1], es[k])
  <2>1. 1 .. k \in SUBSET DOMAIN es /\ 1 .. k # {} /\ k - 1 \in 0 .. n /\ k \in 0 .. n
    <3>1. k \in 1 .. k /\ k - 1 \in 0 .. n /\ k \in 0 .. n /\ \A i \in 1 .. k : i \in 1 .. n
      OBVIOUS
    <3> QED
      BY <3>1
  <2>2. Max(1 .. k) = k
    BY DEF Max
  <2>3. (1 .. k) \ {k} = 1 .. k - 1
    OBVIOUS
  <2>4. it[1 .. k] = ReadStep(it[(1 .. k) \ {Max(1 .. k)}], es[Max(1 .. k)])
    BY <1>1, <2>1, Zenon DEF ReadFold
  <2> QED
    BY <2>1, <2>2, <2>3, <2>4
<1> HIDE DEF r
<1> QED
  BY <1>2, <1>3, Zenon DEF ReadRun

-----------------------------------------------------------------------------
(* parse_announce: one entry moved behind an announce of its own.          *)
ShiftStep(acc, a) == insert(acc, announce_url(a.url, a.tier + 1))

(* The fold over all entries to move, and its function.                     *)
ShiftAll(base, es) == FoldLeft(ShiftStep, base, es)
ShiftFold(it, base, es) ==
    it = [s \in SUBSET DOMAIN es |->
             IF s = {} THEN base ELSE ShiftStep(it[s \ {Max(s)}], es[Max(s)])]

(* The fold of parse_announce is well defined ...                          *)
LEMMA ShiftFoldExists ==
    ASSUME NEW base, NEW es, NEW n \in Nat, DOMAIN es = 1 .. n
    PROVE  \E it : ShiftFold(it, base, es)
<1> DEFINE Good(it, k) == it = [s \in SUBSET (1 .. k) |->
                                   IF s = {} THEN base ELSE ShiftStep(it[s \ {Max(s)}], es[Max(s)])]
           A == {k \in Nat : \E it : Good(it, k)}
<1>1. 0 \in A /\ A \in SUBSET Nat
  <2> DEFINE it == [s \in SUBSET (1 .. 0) |-> base]
  <2>1. Good(it, 0)
    <3>1. \A s \in SUBSET (1 .. 0) : s = {}
      OBVIOUS
    <3> QED
      BY <3>1, Zenon
  <2>2. \E b : Good(b, 0)
    BY <2>1
  <2> HIDE DEF Good
  <2> QED
    BY <2>2
<1>2. ASSUME NEW k \in A PROVE k + 1 \in A
  <2>1. PICK it : Good(it, k)
    OBVIOUS
  <2> DEFINE g == [s \in SUBSET (1 .. k + 1) |->
                      IF k + 1 \in s THEN ShiftStep(it[s \ {Max(s)}], es[Max(s)]) ELSE it[s]]
  <2>2. ASSUME NEW s \in SUBSET (1 .. k + 1)
        PROVE  g[s] = IF s = {} THEN base ELSE ShiftStep(g[s \ {Max(s)}], es[Max(s)])
    <3>1. CASE k + 1 \in s
      <4>1. Max(s) = k + 1
        BY <3>1, MaxOfSet
      <4>2. g[s \ {k + 1}] = it[s \ {k + 1}]
        <5>1. s \ {k + 1} \in SUBSET (1 .. k + 1) /\ k + 1 \notin s \ {k + 1}
          OBVIOUS
        <5> QED
          BY <5>1
      <4> QED
        BY <3>1, <4>1, <4>2
    <3>2. CASE k + 1 \notin s
      <4>1. s \in SUBSET (1 .. k) /\ k \in Nat
        BY <3>2
      <4>2. g[s] = it[s]
        BY <3>2
      <4>3. s # {} => g[s \ {Max(s)}] = it[s \ {Max(s)}]
        <5>1. s \ {Max(s)} \in SUBSET (1 .. k + 1) /\ k + 1 \notin s \ {Max(s)}
          BY <3>2
        <5> QED
          BY <5>1
      <4>4. it[s] = IF s = {} THEN base ELSE ShiftStep(it[s \ {Max(s)}], es[Max(s)])
        BY <2>1, <4>1, Zenon
      <4> HIDE DEF g
      <4> QED
        BY <4>2, <4>3, <4>4
    <3> QED
      BY <3>1, <3>2
  <2>3. Good(g, k + 1)
    <3>1. g = [s \in SUBSET (1 .. k + 1) |-> g[s]]
      OBVIOUS
    <3> HIDE DEF g
    <3> QED
      BY <2>2, <3>1, Zenon
  <2>4. \E b : Good(b, k + 1)
    BY <2>3
  <2> HIDE DEF Good
  <2> QED
    BY <2>4
<1>3. A = Nat
  <2> HIDE DEF A
  <2> QED
    BY <1>1, <1>2, Induction
<1>4. \E it : Good(it, n)
  <2> HIDE DEF Good
  <2> QED
    BY <1>3
<1> QED
  BY <1>4 DEF ShiftFold

(* The values of that fold after each entry.                                *)
ShiftRun(r, base, es, n) ==
    /\ r[0] = base /\ r[n] = ShiftAll(base, es)
    /\ \A k \in 1 .. n : r[k] = ShiftStep(r[k - 1], es[k])

(* ... and goes from the first entry to the last.                          *)
LEMMA ShiftSteps ==
    ASSUME NEW base, NEW es, NEW n \in Nat, DOMAIN es = 1 .. n
    PROVE  \E r : ShiftRun(r, base, es, n)
<1>1. PICK it : ShiftFold(it, base, es) /\ ShiftAll(base, es) = it[DOMAIN es]
  <2>1. ShiftAll(base, es) = (CHOOSE it : ShiftFold(it, base, es))[DOMAIN es]
    BY Zenon DEF ShiftAll, FoldLeft, MapThenFoldSet, ShiftFold
  <2>2. \E it : ShiftFold(it, base, es)
    BY ShiftFoldExists
  <2> QED
    BY <2>1, <2>2, Zenon
<1> DEFINE r == [k \in 0 .. n |-> it[1 .. k]]
<1>2. r[0] = base /\ r[n] = ShiftAll(base, es)
  <2>1. 1 .. 0 = {} /\ {} \in SUBSET DOMAIN es
    OBVIOUS
  <2>2. it[{}] = base
    BY <1>1, <2>1 DEF ShiftFold
  <2>3. r[0] = it[1 .. 0] /\ r[n] = it[1 .. n]
    OBVIOUS
  <2> QED
    BY <1>1, <2>1, <2>2, <2>3, Zenon
<1>3. ASSUME NEW k \in 1 .. n PROVE r[k] = ShiftStep(r[k - 1], es[k])
  <2>1. 1 .. k \in SUBSET DOMAIN es /\ 1 .. k # {} /\ k - 1 \in 0 .. n /\ k \in 0 .. n
    <3>1. k \in 1 .. k /\ k - 1 \in 0 .. n /\ k \in 0 .. n /\ \A i \in 1 .. k : i \in 1 .. n
      OBVIOUS
    <3> QED
      BY <3>1
  <2>2. Max(1 .. k) = k
    BY DEF Max
  <2>3. (1 .. k) \ {k} = 1 .. k - 1
    OBVIOUS
  <2>4. it[1 .. k] = ShiftStep(it[(1 .. k) \ {Max(1 .. k)}], es[Max(1 .. k)])
    BY <1>1, <2>1, Zenon DEF ShiftFold
  <2> QED
    BY <2>1, <2>2, <2>3, <2>4
<1> HIDE DEF r
<1> QED
  BY <1>2, <1>3, Zenon DEF ShiftRun

-----------------------------------------------------------------------------
(* The serialiser's step for one entry.                                    *)
PutStep(acc, a) ==
    IF a.tier = acc.current
    THEN [acc EXCEPT !.lists = Append(Front(@), Append(Last(@), a.url))]
    ELSE [current |-> acc.current + 1, lists |-> Append(acc.lists, <<a.url>>)]

(* The fold over all entries to write, and its function.                    *)
PutAll(base, es) == FoldLeft(PutStep, base, es)
PutFold(it, base, es) ==
    it = [s \in SUBSET DOMAIN es |->
             IF s = {} THEN base ELSE PutStep(it[s \ {Max(s)}], es[Max(s)])]

(* The fold of the serialiser is well defined ...                          *)
LEMMA PutFoldExists ==
    ASSUME NEW base, NEW es, NEW n \in Nat, DOMAIN es = 1 .. n
    PROVE  \E it : PutFold(it, base, es)
<1> DEFINE Good(it, k) == it = [s \in SUBSET (1 .. k) |->
                                   IF s = {} THEN base ELSE PutStep(it[s \ {Max(s)}], es[Max(s)])]
           A == {k \in Nat : \E it : Good(it, k)}
<1>1. 0 \in A /\ A \in SUBSET Nat
  <2> DEFINE it == [s \in SUBSET (1 .. 0) |-> base]
  <2>1. Good(it, 0)
    <3>1. \A s \in SUBSET (1 .. 0) : s = {}
      OBVIOUS
    <3> QED
      BY <3>1, Zenon
  <2>2. \E b : Good(b, 0)
    BY <2>1
  <2> HIDE DEF Good
  <2> QED
    BY <2>2
<1>2. ASSUME NEW k \in A PROVE k + 1 \in A
  <2>1. PICK it : Good(it, k)
    OBVIOUS
  <2> DEFINE g == [s \in SUBSET (1 .. k + 1) |->
                      IF k + 1 \in s THEN PutStep(it[s \ {Max(s)}], es[Max(s)]) ELSE it[s]]
  <2>2. ASSUME NEW s \in SUBSET (1 .. k + 1)
        PROVE  g[s] = IF s = {} THEN base ELSE PutStep(g[s \ {Max(s)}], es[Max(s)])
    <3>1. CASE k + 1 \in s
      <4>1. Max(s) = k + 1
        BY <3>1, MaxOfSet
      <4>2. g[s \ {k + 1}] = it[s \ {k + 1}]
        <5>1. s \ {k + 1} \in SUBSET (1 .. k + 1) /\ k + 1 \notin s \ {k + 1}
          OBVIOUS
        <5> QED
          BY <5>1
      <4> QED
        BY <3>1, <4>1, <4>2
    <3>2. CASE k + 1 \notin s
      <4>1. s \in SUBSET (1 .. k) /\ k \in Nat
        BY <3>2
      <4>2. g[s] = it[s]
        BY <3>2
      <4>3. s # {} => g[s \ {Max(s)}] = it[s \ {Max(s)}]
        <5>1. s \ {Max(s)} \in SUBSET (1 .. k + 1) /\ k + 1 \notin s \ {Max(s)}
          BY <3>2
        <5> QED
          BY <5>1
      <4>4. it[s] = IF s = {} THEN base ELSE PutStep(it[s \ {Max(s)}], es[Max(s)])
        BY <2>1, <4>1, Zenon
      <4> HIDE DEF g
      <4> QED
        BY <4>2, <4>3, <4>4
    <3> QED
      BY <3>1, <3>2
  <2>3. Good(g, k + 1)
    <3>1. g = [s \in SUBSET (1 .. k + 1) |-> g[s]]
      OBVIOUS
    <3> HIDE DEF g
    <3> QED
      BY <2>2, <3>1, Zenon
  <2>4. \E b : Good(b, k + 1)
    BY <2>3
  <2> HIDE DEF Good
  <2> QED
    BY <2>4
<1>3. A = Nat
  <2> HIDE DEF A
  <2> QED
    BY <1>1, <1>2, Induction
<1>4. \E it : Good(it, n)
  <2> HIDE DEF Good
  <2> QED
    BY <1>3
<1> QED
  BY <1>4 DEF PutFold

(* The values of that fold after each entry.                                *)
PutRun(r, base, es, n) ==
    /\ r[0] = base /\ r[n] = PutAll(base, es)
    /\ \A k \in 1 .. n : r[k] = PutStep(r[k - 1], es[k])

(* ... and goes from the first entry to the last.                          *)
LEMMA PutSteps ==
    ASSUME NEW base, NEW es, NEW n \in Nat, DOMAIN es = 1 .. n
    PROVE  \E r : PutRun(r, base, es, n)
<1>1. PICK it : PutFold(it, base, es) /\ PutAll(base, es) = it[DOMAIN es]
  <2>1. PutAll(base, es) = (CHOOSE it : PutFold(it, base, es))[DOMAIN es]
    BY Zenon DEF PutAll, FoldLeft, MapThenFoldSet, PutFold
  <2>2. \E it : PutFold(it, base, es)
    BY PutFoldExists
  <2> QED
    BY <2>1, <2>2, Zenon
<1> DEFINE r == [k \in 0 .. n |-> it[1 .. k]]
<1>2. r[0] = base /\ r[n] = PutAll(base, es)
  <2>1. 1 .. 0 = {} /\ {} \in SUBSET DOMAIN es
    OBVIOUS
  <2>2. it[{}] = base
    BY <1>1, <2>1 DEF PutFold
  <2>3. r[0] = it[1 .. 0] /\ r[n] = it[1 .. n]
    OBVIOUS
  <2> QED
    BY <1>1, <2>1, <2>2, <2>3, Zenon
<1>3. ASSUME NEW k \in 1 .. n PROVE r[k] = PutStep(r[k - 1], es[k])
  <2>1. 1 .. k \in SUBSET DOMAIN es /\ 1 .. k # {} /\ k - 1 \in 0 .. n /\ k \in 0 .. n
    <3>1. k \in 1 .. k /\ k - 1 \in 0 .. n /\ k \in 0 .. n /\ \A i \in 1 .. k : i \in 1 .. n
      OBVIOUS
    <3> QED
      BY <3>1
  <2>2. Max(1 .. k) = k
    BY DEF Max
  <2>3. (1 .. k) \ {k} = 1 .. k - 1
    OBVIOUS
  <2>4. it[1 .. k] = PutStep(it[(1 .. k) \ {Max(1 .. k)}], es[Max(1 .. k)])
    BY <1>1, <2>1, Zenon DEF PutFold
  <2> QED
    BY <2>1, <2>2, <2>3, <2>4
<1> HIDE DEF r
<1> QED
  BY <1>2, <1>3, Zenon DEF PutRun

(* The folds of the model, with their steps named.                         *)
LEMMA AddAllIsFold ==
    ASSUME NEW tiers
    PROVE  AddAll(tiers) = ReadAll([ok |-> TRUE, list |-> <<>>], Announces(tiers))
  BY Zenon DEF AddAll, ReadAll, ReadStep, FoldLeft, MapThenFoldSet

(* Likewise for parse_announce ...                                         *)
LEMMA ParseIsFold ==
    ASSUME NEW d
    PROVE  LET list == AddAll(Get(d, "announce-list", <<>>)).list
           IN  parse_announce(d) =
                 IF ~Has(d, "announce") \/ contains(list, d["announce"]) THEN list
                 ELSE ShiftAll(<<announce_url(d["announce"], 0)>>, list)
  BY Zenon DEF parse_announce, ShiftAll, ShiftStep, FoldLeft, MapThenFoldSet

(* ... and for the serialiser.                                             *)
LEMMA TiersIsFold ==
    ASSUME NEW list
    PROVE  Tiers(list) = IF list = <<>> THEN <<>>
                         ELSE PutAll([current |-> 0, lists |-> <<<<>>>>], list).lists
  BY Zenon DEF Tiers, PutAll, PutStep, FoldLeft, MapThenFoldSet

(* insert behind everything if nothing is greater.                         *)
LEMMA InsertLast ==
    ASSUME NEW list, WellFormed(list), NEW a \in AnnounceUrls,
           \A i \in 1 .. Len(list) : ~Less(a, list[i])
    PROVE  insert(list, a) = Append(list, a)
<1>0. list \in Seq(AnnounceUrls) /\ Len(list) \in Nat
  BY DEF WellFormed
<1>1. PICK p \in 1 .. Len(list) + 1 :
         insert(list, a) = InsertAt(list, p, a) /\ \A i \in p .. Len(list) : Less(a, list[i])
  BY InsertPlace
<1>2. p = Len(list) + 1
  BY <1>0, <1>1
<1> DEFINE r == InsertAt(list, p, a)
<1>3. /\ r \in Seq(AnnounceUrls) /\ Len(r) = Len(list) + 1 /\ r[p] = a
      /\ \A i \in 1 .. p - 1 : r[i] = list[i]
  BY <1>0, <1>1, InsertAtFacts
<1> HIDE DEF r
<1>4. /\ Append(list, a) \in Seq(AnnounceUrls) /\ Len(Append(list, a)) = Len(list) + 1
      /\ \A i \in 1 .. Len(list) : Append(list, a)[i] = list[i]
      /\ Append(list, a)[Len(list) + 1] = a
  BY <1>0
<1>5. r = Append(list, a)
  BY <1>0, <1>2, <1>3, <1>4, SeqEqual
<1> QED
  BY <1>1, <1>5 DEF r

(* The entries and the urls of a list as sets.                             *)
EntrySet(list) == {list[i] : i \in 1 .. Len(list)}
UrlSet(list) == {list[i].url : i \in 1 .. Len(list)}

(* The first index with a property, as SelectInSeq finds it.               *)
LEMMA MinOrZero ==
    ASSUME NEW I \in SUBSET Nat, 0 \notin I, NEW i, i = IF I # {} THEN Min(I) ELSE 0
    PROVE  /\ i = 0 => I = {}
           /\ i # 0 => i \in I /\ \A j \in I : i <= j
           /\ i \in Nat
  BY MinFacts, Zenon

(* equal_range finds the entries of a tier, all of them and no others.     *)
LEMMA TierEntries ==
    ASSUME NEW list, WellFormed(list), NEW t \in Nat
    PROVE  /\ get_tier(list, t) \in Seq(AnnounceUrls)
           /\ EntrySet(get_tier(list, t)) = {a \in EntrySet(list) : a.tier = t}
<1>0. list \in Seq(AnnounceUrls) /\ Len(list) \in Nat
  BY DEF WellFormed
<1>1. \A i \in 1 .. Len(list) : list[i].tier \in Nat /\ list[i] \in AnnounceUrls
  BY <1>0, EntryTypes
<1>2. \A i, j \in 1 .. Len(list) : i <= j => list[i].tier <= list[j].tier
  BY <1>0, TierFacts
<1> DEFINE I == {i \in 1 .. Len(list) : list[i].tier >= t}
           J == {i \in 1 .. Len(list) : list[i].tier > t}
           begin == get_tier_begin(list, t)
           end == SelectInSeq(list, LAMBDA a : a.tier > t)
           last == IF end = 0 THEN Len(list) ELSE end - 1
<1>3. begin = (IF I # {} THEN Min(I) ELSE 0) /\ end = (IF J # {} THEN Min(J) ELSE 0)
  BY DEF get_tier_begin, SelectInSeq
<1>4. I \in SUBSET Nat /\ J \in SUBSET Nat /\ 0 \notin I /\ 0 \notin J
  BY <1>0
<1>5. get_tier(list, t) = IF begin = 0 THEN <<>> ELSE SubSeq(list, begin, last)
  BY DEF get_tier
<1> HIDE DEF begin, end
<1>6. /\ begin = 0 => I = {}
      /\ begin # 0 => begin \in I /\ \A j \in I : begin <= j
  <2> HIDE DEF I, J
  <2> QED
    BY <1>3, <1>4, MinOrZero
<1>7. /\ end = 0 => J = {}
      /\ end # 0 => end \in J /\ \A j \in J : end <= j
  <2> HIDE DEF I, J
  <2> QED
    BY <1>3, <1>4, MinOrZero
<1>8. CASE begin = 0
  <2>1. \A i \in 1 .. Len(list) : list[i].tier # t
    BY <1>1, <1>6, <1>8
  <2>2. get_tier(list, t) = <<>> /\ <<>> \in Seq(AnnounceUrls)
    BY <1>5, <1>8
  <2>3. EntrySet(<<>>) = {}
    BY DEF EntrySet
  <2>4. {a \in EntrySet(list) : a.tier = t} = {}
    BY <2>1 DEF EntrySet
  <2> QED
    BY <2>2, <2>3, <2>4
<1>9. CASE begin # 0
  <2>1. begin \in 1 .. Len(list) /\ last \in Nat /\ last <= Len(list) /\ begin <= last + 1
    BY <1>0, <1>1, <1>2, <1>6, <1>7, <1>9
  <2>2. \A i \in 1 .. Len(list) : list[i].tier = t <=> i \in begin .. last
    <3>1. ASSUME NEW i \in 1 .. Len(list), list[i].tier = t PROVE i \in begin .. last
      BY <1>0, <1>1, <1>2, <1>6, <1>7, <1>9, <3>1
    <3>2. ASSUME NEW i \in 1 .. Len(list), i \in begin .. last PROVE list[i].tier = t
      <4>1. list[i].tier >= t
        BY <1>1, <1>2, <1>6, <1>9, <2>1, <3>2
      <4>2. i \notin J
        BY <1>7, <3>2
      <4> QED
        BY <1>1, <4>1, <4>2
    <3> QED
      BY <3>1, <3>2
  <2> HIDE DEF last, I, J
  <2> DEFINE s == SubSeq(list, begin, last)
  <2>3. /\ s \in Seq(AnnounceUrls) /\ Len(s) = last - begin + 1
        /\ \A k \in 1 .. last - begin + 1 : s[k] = list[begin + k - 1]
    BY <1>0, <2>1
  <2> HIDE DEF s
  <2>4. EntrySet(s) = {a \in EntrySet(list) : a.tier = t}
    <3>1. ASSUME NEW k \in 1 .. Len(s) PROVE s[k] \in EntrySet(list) /\ s[k].tier = t
      <4>1. begin + k - 1 \in begin .. last /\ begin + k - 1 \in 1 .. Len(list) /\ s[k] = list[begin + k - 1]
        BY <1>0, <2>1, <2>3
      <4> QED
        BY <2>2, <4>1 DEF EntrySet
    <3>2. ASSUME NEW i \in 1 .. Len(list), list[i].tier = t PROVE \E k \in 1 .. Len(s) : s[k] = list[i]
      <4>1. i \in begin .. last
        BY <2>2, <3>2
      <4>2. i - begin + 1 \in 1 .. Len(s) /\ begin + (i - begin + 1) - 1 = i /\ i - begin + 1 \in 1 .. last - begin + 1
        BY <2>1, <2>3, <4>1
      <4>3. s[i - begin + 1] = list[i]
        BY <2>3, <4>2
      <4> QED
        BY <4>2, <4>3
    <3> QED
      BY <3>1, <3>2 DEF EntrySet
  <2> QED
    BY <1>5, <1>9, <2>3, <2>4 DEF s
<1> QED
  BY <1>8, <1>9

(* contains looks through all tiers.                                       *)
LEMMA ContainsFacts ==
    ASSUME NEW list, WellFormed(list), NEW url
    PROVE  contains(list, url) <=> url \in UrlSet(list)
<1>0. list \in Seq(AnnounceUrls) /\ Len(list) \in Nat
  BY DEF WellFormed
<1>1. \A t \in Nat : ToSet(get_tier(list, t)) = {a \in EntrySet(list) : a.tier = t}
  <2>1. ASSUME NEW t \in Nat PROVE ToSet(get_tier(list, t)) = {a \in EntrySet(list) : a.tier = t}
    <3>1. DOMAIN get_tier(list, t) = 1 .. Len(get_tier(list, t))
      BY TierEntries
    <3> QED
      BY <3>1, TierEntries DEF ToSet, EntrySet
  <2> QED
    BY <2>1
<1>2. tier_count(list) \in Nat /\ \A i \in 1 .. Len(list) : list[i].tier \in 0 .. tier_count(list)
  <2>1. CASE Len(list) = 0
    BY <1>0, <2>1 DEF tier_count
  <2>2. CASE Len(list) > 0
    <3>1. \A i \in 1 .. Len(list) : list[i].tier \in Nat
      BY <1>0, EntryTypes
    <3>2. /\ \A i, j \in 1 .. Len(list) : i <= j => list[i].tier <= list[j].tier
          /\ tier_count(list) = list[Len(list)].tier + 1
      BY <2>2, TierFacts
    <3> QED
      BY <1>0, <2>2, <3>1, <3>2
  <2> QED
    BY <1>0, <2>1, <2>2
<1>3. ASSUME contains(list, url) PROVE url \in UrlSet(list)
  <2>1. PICK t \in 0 .. tier_count(list) : \E a \in ToSet(get_tier(list, t)) : a.url = url
    BY <1>3 DEF contains
  <2>2. t \in Nat
    BY <1>2
  <2>3. PICK a \in EntrySet(list) : a.url = url
    BY <1>1, <2>1, <2>2
  <2> QED
    BY <2>3 DEF EntrySet, UrlSet
<1>4. ASSUME url \in UrlSet(list) PROVE contains(list, url)
  <2>1. PICK i \in 1 .. Len(list) : list[i].url = url
    BY <1>4 DEF UrlSet
  <2>2. list[i].tier \in 0 .. tier_count(list) /\ list[i].tier \in Nat
    BY <1>2
  <2>3. list[i] \in ToSet(get_tier(list, list[i].tier))
    BY <1>1, <2>2 DEF EntrySet
  <2> QED
    BY <2>1, <2>2, <2>3 DEF contains
<1> QED
  BY <1>3, <1>4

(* What insert, erase and add_tracker do to the entries.                   *)
LEMMA InsertEntries ==
    ASSUME NEW list, WellFormed(list), NEW a \in AnnounceUrls
    PROVE  EntrySet(insert(list, a)) = EntrySet(list) \cup {a}
<1>0. list \in Seq(AnnounceUrls) /\ Len(list) \in Nat
  BY DEF WellFormed
<1>1. PICK p \in 1 .. Len(list) + 1 : insert(list, a) = InsertAt(list, p, a)
  BY InsertPlace
<1> DEFINE r == InsertAt(list, p, a)
<1>2. /\ Len(r) = Len(list) + 1 /\ r[p] = a
      /\ \A i \in 1 .. p - 1 : r[i] = list[i]
      /\ \A i \in p + 1 .. Len(list) + 1 : r[i] = list[i - 1]
  BY <1>0, InsertAtFacts, SMTT(30)
<1> HIDE DEF r
<1>3. ASSUME NEW k \in 1 .. Len(r) PROVE r[k] \in EntrySet(list) \cup {a}
  <2>1. CASE k < p
    BY <1>0, <1>2, <2>1 DEF EntrySet
  <2>2. CASE k > p
    <3>1. k \in p + 1 .. Len(list) + 1 /\ k - 1 \in 1 .. Len(list)
      BY <1>0, <1>2, <2>2
    <3> QED
      BY <1>2, <3>1 DEF EntrySet
  <2>3. CASE k = p
    BY <1>2, <2>3
  <2> QED
    BY <1>2, <2>1, <2>2, <2>3
<1>4. ASSUME NEW i \in 1 .. Len(list) PROVE \E k \in 1 .. Len(r) : r[k] = list[i]
  <2>1. CASE i < p
    BY <1>0, <1>2, <2>1
  <2>2. CASE i >= p
    <3>1. i + 1 \in p + 1 .. Len(list) + 1 /\ (i + 1) - 1 = i /\ i + 1 \in 1 .. Len(r)
      BY <1>0, <1>2, <2>2
    <3> QED
      BY <1>2, <3>1
  <2> QED
    BY <1>0, <2>1, <2>2
<1>5. p \in 1 .. Len(r)
  BY <1>0, <1>2
<1>6. EntrySet(r) = EntrySet(list) \cup {a}
  BY <1>2, <1>3, <1>4, <1>5 DEF EntrySet
<1> QED
  BY <1>1, <1>6 DEF r

(* erase takes one url out.                                                *)
LEMMA EraseUrlSet ==
    ASSUME NEW list, WellFormed(list), NEW pos \in 1 .. Len(list)
    PROVE  UrlSet(erase(list, pos)) = {list[i].url : i \in (1 .. Len(list)) \ {pos}}
<1> DEFINE r == erase(list, pos)
<1>0. list \in Seq(AnnounceUrls) /\ Len(list) \in Nat
  BY DEF WellFormed
<1>1. /\ Len(r) = Len(list) - 1
      /\ \A i \in 1 .. pos - 1 : r[i].url = list[i].url
      /\ \A i \in pos .. Len(list) - 1 : r[i].url = list[i + 1].url
  BY EraseShape
<1> HIDE DEF r
<1>2. ASSUME NEW k \in 1 .. Len(r) PROVE \E i \in (1 .. Len(list)) \ {pos} : r[k].url = list[i].url
  <2>1. CASE k < pos
    <3>1. k \in 1 .. pos - 1 /\ k \in (1 .. Len(list)) \ {pos}
      BY <1>0, <1>1, <2>1
    <3> QED
      BY <1>1, <3>1
  <2>2. CASE k >= pos
    <3>1. k \in pos .. Len(list) - 1 /\ k + 1 \in (1 .. Len(list)) \ {pos}
      BY <1>0, <1>1, <2>2
    <3> QED
      BY <1>1, <3>1
  <2> QED
    BY <1>0, <1>1, <2>1, <2>2
<1>3. ASSUME NEW i \in (1 .. Len(list)) \ {pos} PROVE \E k \in 1 .. Len(r) : r[k].url = list[i].url
  <2>1. CASE i < pos
    <3>1. i \in 1 .. pos - 1 /\ i \in 1 .. Len(r)
      BY <1>0, <1>1, <2>1
    <3> QED
      BY <1>1, <3>1
  <2>2. CASE i > pos
    <3>1. i - 1 \in pos .. Len(list) - 1 /\ i - 1 \in 1 .. Len(r) /\ (i - 1) + 1 = i
      BY <1>0, <1>1, <2>2
    <3> QED
      BY <1>1, <3>1
  <2> QED
    BY <1>0, <2>1, <2>2
<1>4. UrlSet(r) = {list[i].url : i \in (1 .. Len(list)) \ {pos}}
  <2> DEFINE U == {list[i].url : i \in (1 .. Len(list)) \ {pos}}
  <2>1. ASSUME NEW u \in UrlSet(r) PROVE u \in U
    BY <1>2 DEF UrlSet
  <2>2. ASSUME NEW u \in U PROVE u \in UrlSet(r)
    BY <1>3 DEF UrlSet
  <2> HIDE DEF U
  <2>3. UrlSet(r) = U
    BY <2>1, <2>2
  <2> QED
    BY <2>3 DEF U
<1> QED
  BY <1>4 DEF r

-----------------------------------------------------------------------------
(* The announce-list of a file as a row of entries.                        *)

(* Append.                                                                 *)
LEMMA AppendFacts ==
    ASSUME NEW S, NEW s \in Seq(S), NEW x \in S
    PROVE  /\ Append(s, x) \in Seq(S) /\ Len(s) \in Nat /\ Len(Append(s, x)) = Len(s) + 1
           /\ Append(s, x)[Len(s) + 1] = x
           /\ \A i \in 1 .. Len(s) : Append(s, x)[i] = s[i]
  OBVIOUS

(* The urls are those of the entries.                                      *)
LEMMA UrlsOfEntries ==
    ASSUME NEW list PROVE UrlSet(list) = {e.url : e \in EntrySet(list)}
<1>1. ASSUME NEW u \in UrlSet(list) PROVE u \in {e.url : e \in EntrySet(list)}
  BY DEF UrlSet, EntrySet
<1>2. ASSUME NEW u \in {e.url : e \in EntrySet(list)} PROVE u \in UrlSet(list)
  BY DEF UrlSet, EntrySet
<1> QED
  BY <1>1, <1>2

(* add_tracker adds its url to the urls that are there, or moves it.       *)
LEMMA AddTrackerUrls ==
    ASSUME NEW list, WellFormed(list), UniqueUrls(list), NEW a \in AnnounceUrls, CanInsert(list, a)
    PROVE  /\ UrlSet(add_tracker(list, a)) = UrlSet(list) \cup {a.url}
           /\ a.url \notin UrlSet(list) => add_tracker(list, a) = insert(list, a)
<1> DEFINE f == find(list, a.url)
           r == insert(list, a)
<1>0. list \in Seq(AnnounceUrls) /\ Len(list) \in Nat /\ a.url \in Nat
  BY DEF WellFormed, AnnounceUrls
<1>1. /\ f = 0 => a.url \notin UrlSet(list)
      /\ f # 0 => f \in 1 .. Len(list) /\ list[f].url = a.url
  BY <1>0, FindFacts DEF UrlSet
<1>2. f # 0 => a.url \in UrlSet(list)
  BY <1>1 DEF UrlSet
<1>3. WellFormed(r) /\ r \in Seq(AnnounceUrls)
  BY InsertKeepsTiers DEF WellFormed
<1>4. EntrySet(r) = EntrySet(list) \cup {a}
  BY InsertEntries
<1>5. UrlSet(r) = UrlSet(list) \cup {a.url}
  BY <1>4, UrlsOfEntries
<1> HIDE DEF r, f
<1>6. CASE f = 0
  <2>1. add_tracker(list, a) = r
    BY <1>6 DEF add_tracker, f, r
  <2> QED
    BY <1>5, <2>1 DEF r
<1>7. CASE f # 0 /\ list[f].tier = a.tier
  <2>1. add_tracker(list, a) = list
    BY <1>7 DEF add_tracker, f
  <2> QED
    BY <1>2, <1>7, <2>1
<1>8. CASE f # 0 /\ list[f].tier # a.tier
  <2> DEFINE old == list[f]
             pos == find_announce(r, old)
  <2>0. add_tracker(list, a) = erase_announce(r, old)
    BY <1>8 DEF add_tracker, f, r
  <2>1. f \in 1 .. Len(list) /\ old.url = a.url /\ old # a /\ old \in AnnounceUrls
    BY <1>0, <1>1, <1>8, EntryTypes
  <2>2. old \in EntrySet(list)
    BY <2>1 DEF EntrySet
  <2> HIDE DEF old
  <2>3. \E k \in 1 .. Len(r) : r[k] = old
    BY <1>4, <2>2 DEF EntrySet
  <2>4. pos \in 1 .. Len(r) /\ r[pos] = old /\ pos # 0
    BY <1>3, <2>1, <2>3, FindAnnounceFacts
  <2>5. add_tracker(list, a) = erase(r, pos)
    BY <2>0, <2>4 DEF erase_announce
  <2> HIDE DEF pos
  <2>6. PICK p \in 1 .. Len(r) : r[p] = a
    BY <1>4 DEF EntrySet
  <2>7. p # pos
    BY <2>1, <2>4, <2>6
  <2> DEFINE U == {r[i].url : i \in (1 .. Len(r)) \ {pos}}
  <2>8. UrlSet(erase(r, pos)) = U
    BY <1>3, <2>4, EraseUrlSet
  <2>9. U = UrlSet(r)
    <3>1. ASSUME NEW i \in 1 .. Len(r) PROVE r[i].url \in U
      <4>1. CASE i = pos
        <5>1. r[i].url = r[p].url /\ p \in (1 .. Len(r)) \ {pos}
          BY <2>1, <2>4, <2>6, <2>7, <4>1
        <5> QED
          BY <5>1
      <4>2. CASE i # pos
        BY <4>2
      <4> QED
        BY <4>1, <4>2
    <3> QED
      BY <3>1 DEF UrlSet
  <2> QED
    BY <1>2, <1>5, <1>8, <2>5, <2>8, <2>9
<1> QED
  BY <1>6, <1>7, <1>8

-----------------------------------------------------------------------------
(* The entries a tier of a file stands for.                                *)
TierOfFile(urls, t) == [i \in DOMAIN urls |-> announce_url(urls[i], t)]

(* They are entries.                                                       *)
LEMMA TierOfFileType ==
    ASSUME NEW urls \in Seq(Nat), NEW t \in Nat
    PROVE  /\ TierOfFile(urls, t) \in Seq(AnnounceUrls) /\ Len(TierOfFile(urls, t)) = Len(urls)
           /\ \A i \in 1 .. Len(urls) : TierOfFile(urls, t)[i] = announce_url(urls[i], t)
<1>1. DOMAIN urls = 1 .. Len(urls) /\ Len(urls) \in Nat
  OBVIOUS
<1>2. \A i \in 1 .. Len(urls) : announce_url(urls[i], t) \in AnnounceUrls
  BY DEF announce_url, AnnounceUrls
<1>3. TierOfFile(urls, t) = [i \in 1 .. Len(urls) |-> announce_url(urls[i], t)]
  BY <1>1 DEF TierOfFile
<1>4. TierOfFile(urls, t) \in Seq(AnnounceUrls)
  BY <1>1, <1>2, <1>3
<1> QED
  BY <1>1, <1>3, <1>4

TiersOfFile(tiers) == [t \in DOMAIN tiers |-> TierOfFile(tiers[t], t - 1)]

(* One tier more.                                                          *)
LEMMA TiersOfFileAppend ==
    ASSUME NEW tiers \in Seq(Seq(Nat)), NEW urls \in Seq(Nat)
    PROVE  /\ TiersOfFile(tiers) \in Seq(Seq(AnnounceUrls))
           /\ TiersOfFile(Append(tiers, urls)) = Append(TiersOfFile(tiers), TierOfFile(urls, Len(tiers)))
<1> DEFINE n == Len(tiers)
           more == Append(tiers, urls)
<1>1. /\ n \in Nat /\ DOMAIN tiers = 1 .. n /\ \A t \in 1 .. n : tiers[t] \in Seq(Nat)
      /\ Len(more) = n + 1 /\ DOMAIN more = 1 .. n + 1 /\ more[n + 1] = urls
      /\ \A t \in 1 .. n : more[t] = tiers[t]
  OBVIOUS
<1> HIDE DEF n, more
<1>2. \A t \in 1 .. n : TierOfFile(tiers[t], t - 1) \in Seq(AnnounceUrls)
  <2>1. ASSUME NEW t \in 1 .. n PROVE TierOfFile(tiers[t], t - 1) \in Seq(AnnounceUrls)
    <3>1. tiers[t] \in Seq(Nat) /\ t - 1 \in Nat
      BY <1>1
    <3> QED
      BY <3>1, TierOfFileType
  <2> QED
    BY <2>1
<1>3. TiersOfFile(tiers) = [t \in 1 .. n |-> TierOfFile(tiers[t], t - 1)]
  BY <1>1 DEF TiersOfFile
<1>4. TiersOfFile(tiers) \in Seq(Seq(AnnounceUrls)) /\ Len(TiersOfFile(tiers)) = n
  BY <1>1, <1>2, <1>3
<1>5. TierOfFile(urls, n) \in Seq(AnnounceUrls)
  BY <1>1, TierOfFileType
<1>6. TiersOfFile(more) = [t \in 1 .. n + 1 |-> TierOfFile(more[t], t - 1)]
  BY <1>1 DEF TiersOfFile
<1>7. \A t \in 1 .. n + 1 : TierOfFile(more[t], t - 1) = IF t = n + 1 THEN TierOfFile(urls, n) ELSE TierOfFile(tiers[t], t - 1)
  <2>1. ASSUME NEW t \in 1 .. n + 1
        PROVE  TierOfFile(more[t], t - 1) = IF t = n + 1 THEN TierOfFile(urls, n) ELSE TierOfFile(tiers[t], t - 1)
    <3>1. CASE t = n + 1
      <4>1. more[t] = urls /\ t - 1 = n
        BY <1>1, <3>1
      <4> QED
        BY <3>1, <4>1
    <3>2. CASE t # n + 1
      <4>1. more[t] = tiers[t]
        BY <1>1, <3>2
      <4> QED
        BY <3>2, <4>1
    <3> QED
      BY <3>1, <3>2
  <2> QED
    BY <2>1
<1> DEFINE l == TiersOfFile(more)
           r == Append(TiersOfFile(tiers), TierOfFile(urls, n))
<1>8. /\ r \in Seq(Seq(AnnounceUrls)) /\ Len(r) = n + 1 /\ r[n + 1] = TierOfFile(urls, n)
      /\ \A t \in 1 .. n : r[t] = TiersOfFile(tiers)[t]
  BY <1>4, <1>5, AppendFacts
<1>9. /\ Len(l) = n + 1 /\ l \in Seq(Seq(AnnounceUrls))
      /\ \A t \in 1 .. n + 1 : l[t] = TierOfFile(more[t], t - 1)
  <2>1. \A t \in 1 .. n + 1 : TierOfFile(more[t], t - 1) \in Seq(AnnounceUrls)
    BY <1>1, <1>2, <1>5, <1>7
  <2> QED
    BY <1>1, <1>6, <2>1
<1>10. \A t \in 1 .. n + 1 : l[t] = r[t]
  <2> HIDE DEF l, r
  <2>1. \A t \in 1 .. n : TiersOfFile(tiers)[t] = TierOfFile(tiers[t], t - 1)
    BY <1>3
  <2> QED
    BY <1>1, <1>7, <1>8, <1>9, <2>1
<1>11. l = r
  <2> HIDE DEF l, r
  <2> QED
    BY <1>8, <1>9, <1>10, SeqEqual
<1> QED
  BY <1>4, <1>11 DEF n, more

(* Announces is the tiers' entries in a row.                               *)
LEMMA AnnouncesFacts ==
    ASSUME NEW tiers \in Seq(Seq(Nat)), NEW urls \in Seq(Nat)
    PROVE  /\ Announces(<<>>) = <<>>
           /\ Announces(tiers) \in Seq(AnnounceUrls)
           /\ Announces(Append(tiers, urls)) = Announces(tiers) \o TierOfFile(urls, Len(tiers))
<1>1. ASSUME NEW s PROVE Announces(s) = FlattenSeq(TiersOfFile(s))
  BY Zenon DEF Announces, TiersOfFile, TierOfFile
<1>2. TiersOfFile(<<>>) = <<>>
  BY DEF TiersOfFile
<1>3. TierOfFile(urls, Len(tiers)) \in Seq(AnnounceUrls)
  BY TierOfFileType
<1>4. FlattenSeq(Append(TiersOfFile(tiers), TierOfFile(urls, Len(tiers)))) =
      FlattenSeq(TiersOfFile(tiers)) \o TierOfFile(urls, Len(tiers))
  BY <1>3, TiersOfFileAppend, FlattenAppend
<1>5. FlattenSeq(TiersOfFile(tiers)) \in Seq(AnnounceUrls)
  BY TiersOfFileAppend, FlattenType
<1> QED
  BY <1>1, <1>2, <1>4, <1>5, FlattenEmpty, TiersOfFileAppend

-----------------------------------------------------------------------------
(* Reading a row: add_tracker, one after another.                          *)

(* The accumulator of AddAll.                                              *)
Fine(list) == [ok |-> TRUE, list |-> list]
Failed(list) == [ok |-> FALSE, list |-> list]

(* Its two fields.                                                         *)
LEMMA AccFields ==
    ASSUME NEW b, NEW c, NEW list, NEW n, NEW x, x = [ok |-> b, list |-> list]
    PROVE  /\ [x EXCEPT !.list = n] = [ok |-> b, list |-> n]
           /\ [x EXCEPT !.ok = c] = [ok |-> c, list |-> list]
  OBVIOUS

(* One add_tracker, or the contract has failed for good.                   *)
LEMMA ReadStepFacts ==
    ASSUME NEW list, NEW a
    PROVE  /\ CanInsert(list, a) => ReadStep(Fine(list), a) = Fine(add_tracker(list, a))
           /\ ~CanInsert(list, a) => ReadStep(Fine(list), a) = Failed(list)
           /\ ReadStep(Failed(list), a) = Failed(list)
<1> DEFINE n == add_tracker(list, a)
<1>1. Fine(list).ok = TRUE /\ Fine(list).list = list /\ Failed(list).ok = FALSE
  BY DEF Fine, Failed
<1>0. PICK b, c, x, y : b = TRUE /\ c = FALSE /\ x = Fine(list) /\ y = Failed(list)
  OBVIOUS
<1>2. x = [ok |-> b, list |-> list] /\ y = [ok |-> c, list |-> list] /\ Fine(n) = [ok |-> b, list |-> n]
  <2> HIDE DEF n
  <2> QED
    BY <1>0, Zenon DEF Fine, Failed
<1>3. [x EXCEPT !.list = add_tracker(@, a)] = Fine(n)
  <2> HIDE DEF n
  <2>1. [x EXCEPT !.list = n] = Fine(n)
    BY <1>2, AccFields
  <2>2. x.list = list
    BY <1>0, <1>1
  <2> QED
    BY <2>1, <2>2, Zenon DEF n
<1>4. [x EXCEPT !.ok = c] = y /\ [y EXCEPT !.ok = c] = y
  BY <1>2, AccFields
<1>5. CanInsert(list, a) => ReadStep(Fine(list), a) = Fine(n)
  BY <1>0, <1>1, <1>3, Zenon DEF ReadStep
<1>6. ~CanInsert(list, a) => ReadStep(Fine(list), a) = Failed(list)
  BY <1>0, <1>1, <1>4, Zenon DEF ReadStep
<1>7. ReadStep(Failed(list), a) = Failed(list)
  BY <1>0, <1>1, <1>4, Zenon DEF ReadStep
<1> QED
  BY <1>5, <1>6, <1>7

(* The empty list.                                                         *)
LEMMA EmptyList == WellFormed(<<>>) /\ UniqueUrls(<<>>) /\ EntrySet(<<>>) = {} /\ UrlSet(<<>>) = {}
<1>1. <<>> \in Seq(AnnounceUrls) /\ Len(<<>>) = 0 /\ DOMAIN <<>> = {}
  OBVIOUS
<1>2. Sorted(<<>>)
  BY <1>1 DEF Sorted
<1>3. NoGap(<<>>)
  BY DEF NoGap, tier_count
<1>4. UniqueUrls(<<>>)
  <2>1. \A i, j \in 1 .. Len(<<>>) : <<>>[i].url = <<>>[j].url => i = j
    BY <1>1
  <2> QED
    BY <1>1, <2>1, UniqueDef
<1> QED
  BY <1>1, <1>2, <1>3, <1>4 DEF WellFormed, EntrySet, UrlSet

(* The entries up to the k-th.                                             *)
FirstEntries(es, k) == {es[i] : i \in 1 .. k}
FirstUrls(es, k) == {es[i].url : i \in 1 .. k}
(* What the first k entries have, one by one.                              *)
LEMMA FirstFacts ==
    ASSUME NEW es, NEW k \in Nat
    PROVE  /\ FirstEntries(es, 0) = {} /\ FirstUrls(es, 0) = {}
           /\ FirstEntries(es, k + 1) = FirstEntries(es, k) \cup {es[k + 1]}
           /\ FirstUrls(es, k + 1) = FirstUrls(es, k) \cup {es[k + 1].url}
<1>1. 1 .. 0 = {} /\ 1 .. k + 1 = (1 .. k) \cup {k + 1}
  OBVIOUS
<1> QED
  BY <1>1 DEF FirstEntries, FirstUrls

(* Reading a row of announces leaves a well formed list of its urls, each  *)
(* of them once.                                                           *)
LEMMA ReadRow ==
    ASSUME NEW es \in Seq(AnnounceUrls)
    PROVE  \E list : /\ WellFormed(list) /\ UniqueUrls(list)
                     /\ \/ ReadAll(Fine(<<>>), es) = Failed(list)
                        \/ ReadAll(Fine(<<>>), es) = Fine(list) /\ UrlSet(list) = UrlSet(es)
<1> DEFINE n == Len(es)
           base == Fine(<<>>)
<1>1. n \in Nat /\ DOMAIN es = 1 .. n /\ \A i \in 1 .. n : es[i] \in AnnounceUrls
  OBVIOUS
<1> HIDE DEF base
<1>2. PICK r : /\ r[0] = base /\ r[n] = ReadAll(base, es)
               /\ \A k \in 1 .. n : r[k] = ReadStep(r[k - 1], es[k])
  <2> HIDE DEF n
  <2>1. PICK r : ReadRun(r, base, es, n)
    BY <1>1, ReadSteps
  <2> QED
    BY <2>1, Zenon DEF ReadRun
<1> DEFINE Good(k) == \E list : /\ WellFormed(list) /\ UniqueUrls(list)
                                /\ \/ r[k] = Failed(list)
                                   \/ r[k] = Fine(list) /\ UrlSet(list) = FirstUrls(es, k)
           A == {k \in Nat : k <= n => Good(k)}
<1>3. 0 \in A /\ A \in SUBSET Nat
  <2>1. Good(0)
    BY <1>2, EmptyList, FirstFacts DEF base
  <2> HIDE DEF Good
  <2> QED
    BY <2>1
<1>4. ASSUME NEW k \in A PROVE k + 1 \in A
  <2> SUFFICES ASSUME k + 1 <= n PROVE Good(k + 1)
    OBVIOUS
  <2>1. k \in Nat /\ k + 1 \in 1 .. n /\ (k + 1) - 1 = k /\ k <= n
    BY <1>1
  <2>2. PICK list : /\ WellFormed(list) /\ UniqueUrls(list)
                    /\ \/ r[k] = Failed(list)
                       \/ r[k] = Fine(list) /\ UrlSet(list) = FirstUrls(es, k)
    <3>1. Good(k)
      BY <2>1
    <3> QED
      BY <3>1
  <2> DEFINE a == es[k + 1]
             l == add_tracker(list, a)
  <2>3. r[k + 1] = ReadStep(r[k], a) /\ a \in AnnounceUrls
    BY <1>1, <1>2, <2>1
  <2>5. FirstUrls(es, k + 1) = FirstUrls(es, k) \cup {a.url}
    BY <2>1, FirstFacts
  <2> HIDE DEF a
  <2>6. CASE r[k] = Fine(list) /\ UrlSet(list) = FirstUrls(es, k) /\ CanInsert(list, a)
    <3>1. r[k + 1] = Fine(l)
      BY <2>3, <2>6, ReadStepFacts
    <3>2. WellFormed(l) /\ UniqueUrls(l)
      BY <2>2, <2>3, <2>6, AddTrackerKeeps
    <3>3. UrlSet(l) = UrlSet(list) \cup {a.url}
      BY <2>2, <2>3, <2>6, AddTrackerUrls
    <3> HIDE DEF l
    <3> QED
      BY <2>5, <2>6, <3>1, <3>2, <3>3
  <2>7. CASE r[k] = Failed(list) \/ (r[k] = Fine(list) /\ ~CanInsert(list, a))
    <3>1. r[k + 1] = Failed(list)
      BY <2>3, <2>7, ReadStepFacts
    <3> QED
      BY <2>2, <3>1
  <2> QED
    BY <2>2, <2>6, <2>7
<1>5. A = Nat
  <2> HIDE DEF A
  <2> QED
    BY <1>3, <1>4, Induction
<1>6. Good(n)
  <2>1. n \in A
    BY <1>1, <1>5
  <2> HIDE DEF Good
  <2> QED
    BY <1>1, <2>1
<1>7. FirstUrls(es, n) = UrlSet(es)
  BY DEF UrlSet, FirstUrls
<1> QED
  BY <1>2, <1>6, <1>7 DEF base

(* The number of tiers follows from the entries.                           *)
LEMMA TierCountOf ==
    ASSUME NEW list, WellFormed(list), NEW t \in Nat,
           \E a \in EntrySet(list) : a.tier = t, \A a \in EntrySet(list) : a.tier <= t
    PROVE  tier_count(list) = t + 1
<1>0. list \in Seq(AnnounceUrls) /\ Len(list) \in Nat
  BY DEF WellFormed
<1>1. PICK i \in 1 .. Len(list) : list[i].tier = t
  BY DEF EntrySet
<1>2. Len(list) > 0 /\ Len(list) \in 1 .. Len(list)
  BY <1>0, <1>1
<1>3. /\ \A j \in 1 .. Len(list) : i <= j => list[i].tier <= list[j].tier
      /\ tier_count(list) = list[Len(list)].tier + 1
  BY <1>2, TierFacts
<1>4. list[i].tier <= list[Len(list)].tier /\ list[Len(list)].tier \in Nat
  BY <1>0, <1>1, <1>2, <1>3, EntryTypes
<1>5. list[Len(list)].tier <= t
  BY <1>2 DEF EntrySet
<1> QED
  BY <1>1, <1>3, <1>4, <1>5

(* Announces of tiers in a row, each url once.                             *)
Gradual(es) ==
    /\ es # <<>> => es[1].tier = 0
    /\ \A i \in 1 .. Len(es) - 1 : es[i + 1].tier \in {es[i].tier, es[i].tier + 1}
    /\ UniqueUrls(es)

(* Tiers ascend.                                                           *)
LEMMA GradualAscends ==
    ASSUME NEW es \in Seq(AnnounceUrls), Gradual(es)
    PROVE  \A k \in 1 .. Len(es) : \A i \in 1 .. k : es[i].tier <= es[k].tier
<1> DEFINE A == {k \in Nat : k \in 1 .. Len(es) => \A i \in 1 .. k : es[i].tier <= es[k].tier}
<1>0. Len(es) \in Nat
  OBVIOUS
<1>1. 0 \in A /\ A \in SUBSET Nat
  OBVIOUS
<1>2. ASSUME NEW k \in A PROVE k + 1 \in A
  <2> SUFFICES ASSUME k + 1 \in 1 .. Len(es), NEW i \in 1 .. k + 1 PROVE es[i].tier <= es[k + 1].tier
    OBVIOUS
  <2>1. k \in Nat /\ i \in 1 .. Len(es)
    BY <1>0
  <2>2. es[i].tier \in Nat /\ es[k + 1].tier \in Nat
    BY <2>1, EntryTypes
  <2>3. CASE i = k + 1
    BY <2>2, <2>3
  <2>4. CASE i # k + 1
    <3>1. k \in 1 .. Len(es) /\ k \in 1 .. Len(es) - 1 /\ i \in 1 .. k
      BY <1>0, <2>1, <2>4
    <3>2. es[i].tier <= es[k].tier /\ es[k].tier \in Nat
      BY <3>1, EntryTypes
    <3>3. es[k + 1].tier \in {es[k].tier, es[k].tier + 1}
      BY <3>1 DEF Gradual
    <3> QED
      BY <2>2, <3>2, <3>3
  <2> QED
    BY <2>3, <2>4
<1>3. A = Nat
  <2> HIDE DEF A
  <2> QED
    BY <1>1, <1>2, Induction
<1> QED
  BY <1>0, <1>3

(* Such a row is read without a failure, every entry of it.  If it is in   *)
(* order as well, it is the list that results.                             *)
LEMMA ReadGradual ==
    ASSUME NEW es \in Seq(AnnounceUrls), Gradual(es)
    PROVE  \E list : /\ ReadAll(Fine(<<>>), es) = Fine(list)
                     /\ WellFormed(list) /\ UniqueUrls(list) /\ EntrySet(list) = EntrySet(es)
                     /\ Sorted(es) => list = es
<1> DEFINE n == Len(es)
           base == Fine(<<>>)
<1>1. n \in Nat /\ DOMAIN es = 1 .. n /\ \A i \in 1 .. n : es[i] \in AnnounceUrls /\ es[i].tier \in Nat
  BY EntryTypes
<1> HIDE DEF base
<1>2. PICK r : /\ r[0] = base /\ r[n] = ReadAll(base, es)
               /\ \A k \in 1 .. n : r[k] = ReadStep(r[k - 1], es[k])
  <2> HIDE DEF n
  <2>1. PICK r : ReadRun(r, base, es, n)
    BY <1>1, ReadSteps
  <2> QED
    BY <2>1, Zenon DEF ReadRun
<1> DEFINE Good(k) == \E list : /\ r[k] = Fine(list) /\ WellFormed(list) /\ UniqueUrls(list)
                                /\ EntrySet(list) = FirstEntries(es, k)
                                /\ Sorted(es) => list = SubSeq(es, 1, k)
           A == {k \in Nat : k <= n => Good(k)}
<1>3. 0 \in A /\ A \in SUBSET Nat
  <2>1. SubSeq(es, 1, 0) = <<>>
    BY <1>1
  <2>2. Good(0)
    BY <1>2, <2>1, EmptyList, FirstFacts DEF base
  <2> HIDE DEF Good
  <2> QED
    BY <2>2
<1>4. ASSUME NEW k \in A PROVE k + 1 \in A
  <2> SUFFICES ASSUME k + 1 <= n PROVE Good(k + 1)
    OBVIOUS
  <2>1. k \in Nat /\ k + 1 \in 1 .. n /\ (k + 1) - 1 = k /\ k <= n /\ k \in 0 .. n - 1
    BY <1>1
  <2>2. PICK l : /\ r[k] = Fine(l) /\ WellFormed(l) /\ UniqueUrls(l)
                 /\ EntrySet(l) = FirstEntries(es, k)
                 /\ Sorted(es) => l = SubSeq(es, 1, k)
    <3>1. Good(k)
      BY <2>1
    <3> QED
      BY <3>1
  <2> DEFINE a == es[k + 1]
  <2>3. r[k + 1] = ReadStep(r[k], a)
    BY <1>2, <2>1
  <2>4. a \in AnnounceUrls /\ a.tier \in Nat
    BY <1>1, <2>1
  <2>5. FirstEntries(es, k + 1) = FirstEntries(es, k) \cup {a}
    BY <2>1, FirstFacts
  <2>7. \A i \in 1 .. n : es[i].url = a.url => i = k + 1
    BY <2>1, UniqueDef DEF Gradual
  <2>8. a.url \notin UrlSet(l)
    <3>1. \A e \in FirstEntries(es, k) : e.url # a.url
      <4>1. ASSUME NEW i \in 1 .. k PROVE es[i].url # a.url
        <5>1. i \in 1 .. n /\ i # k + 1
          BY <1>1, <2>1
        <5> QED
          BY <2>7, <5>1
      <4> QED
        BY <4>1 DEF FirstEntries
    <3> QED
      BY <2>2, <3>1, UrlsOfEntries
  <2>9. CanInsert(l, a)
    <3>1. CASE k = 0
      <4>1. a.tier = 0
        <5>1. es # <<>> /\ a = es[1]
          BY <1>1, <2>1, <3>1
        <5> QED
          BY <5>1 DEF Gradual
      <4>2. tier_count(l) \in Nat
        <5>1. l = <<>>
          <6>1. EntrySet(l) = {}
            BY <2>2, <3>1, FirstFacts
          <6>2. Len(l) \in Nat /\ l \in Seq(AnnounceUrls)
            BY <2>2 DEF WellFormed
          <6>3. Len(l) = 0
            <7> SUFFICES ASSUME Len(l) # 0 PROVE FALSE
              OBVIOUS
            <7>1. 1 \in 1 .. Len(l)
              BY <6>2
            <7>2. l[1] \in EntrySet(l)
              BY <7>1 DEF EntrySet
            <7> QED
              BY <6>1, <7>2
          <6> QED
            BY <6>2, <6>3
        <5> QED
          BY <5>1 DEF tier_count
      <4> QED
        BY <4>1, <4>2 DEF CanInsert
    <3>2. CASE k # 0
      <4>1. k \in 1 .. n /\ k \in 1 .. n - 1
        BY <1>1, <2>1, <3>2
      <4>2. a.tier \in {es[k].tier, es[k].tier + 1}
        BY <4>1 DEF Gradual
      <4>3. es[k].tier \in Nat /\ es[k] \in EntrySet(l)
        BY <1>1, <2>2, <4>1 DEF FirstEntries
      <4>4. \A e \in EntrySet(l) : e.tier <= es[k].tier
        <5>1. \A i \in 1 .. k : es[i].tier <= es[k].tier
          BY <4>1, GradualAscends
        <5> QED
          BY <2>2, <5>1 DEF FirstEntries
      <4>5. tier_count(l) = es[k].tier + 1
        BY <2>2, <4>3, <4>4, TierCountOf
      <4> QED
        BY <2>4, <4>2, <4>3, <4>5 DEF CanInsert
    <3> QED
      BY <3>1, <3>2
  <2> DEFINE s == insert(l, a)
  <2>14. ASSUME Sorted(es) PROVE s = SubSeq(es, 1, k + 1)
    <3>1. l = SubSeq(es, 1, k)
      BY <2>2, <2>14
    <3>2. /\ SubSeq(es, 1, k + 1) = Append(l, a) /\ Len(l) = k
          /\ \A i \in 1 .. k : l[i] = es[i]
      BY <2>1, <3>1, SubSeqGrows
    <3>3. \A i \in 1 .. Len(l) : ~Less(a, l[i])
      <4>1. ASSUME NEW i \in 1 .. k PROVE ~Less(a, es[i])
        <5>1. i \in DOMAIN es /\ k + 1 \in DOMAIN es /\ i < k + 1
          BY <1>1, <2>1
        <5> QED
          BY <2>14, <5>1 DEF Sorted
      <4> QED
        BY <3>2, <4>1
    <3> HIDE DEF a
    <3>4. s = Append(l, a)
      BY <2>2, <2>4, <3>3, InsertLast
    <3> QED
      BY <3>2, <3>4
  <2> HIDE DEF a
  <2>10. r[k + 1] = Fine(add_tracker(l, a))
    BY <2>2, <2>3, <2>9, ReadStepFacts
  <2>11. add_tracker(l, a) = s
    BY <2>2, <2>4, <2>8, <2>9, AddTrackerUrls
  <2>12. WellFormed(s) /\ UniqueUrls(s)
    BY <2>2, <2>4, <2>9, <2>11, AddTrackerKeeps
  <2>13. EntrySet(s) = FirstEntries(es, k + 1)
    BY <2>2, <2>4, <2>5, InsertEntries
  <2> HIDE DEF s
  <2> QED
    BY <2>10, <2>11, <2>12, <2>13, <2>14
<1>5. A = Nat
  <2> HIDE DEF A
  <2> QED
    BY <1>3, <1>4, Induction
<1>6. Good(n)
  <2>1. n \in A
    BY <1>1, <1>5
  <2> HIDE DEF Good
  <2> QED
    BY <1>1, <2>1
<1>7. SubSeq(es, 1, n) = es /\ FirstEntries(es, n) = EntrySet(es)
  BY DEF FirstEntries, EntrySet
<1> QED
  BY <1>2, <1>6, <1>7 DEF base

-----------------------------------------------------------------------------
(* The row of a file with tiers.                                           *)

(* One sequence behind another.                                            *)
LEMMA ConcatFacts ==
    ASSUME NEW S, NEW s \in Seq(S), NEW t \in Seq(S), NEW c, c = s \o t
    PROVE  /\ c \in Seq(S) /\ Len(s) \in Nat /\ Len(t) \in Nat /\ Len(c) = Len(s) + Len(t)
           /\ \A i \in 1 .. Len(s) : c[i] = s[i]
           /\ \A i \in 1 .. Len(t) : c[Len(s) + i] = t[i]
  OBVIOUS

(* No entries, and the fields of one.                                      *)
LEMMA EmptyFacts ==
    ASSUME NEW a, a = <<>>
    PROVE  /\ Len(a) = 0 /\ 1 .. Len(a) = {} /\ 1 .. Len(a) - 1 = {}
           /\ a \in Seq(AnnounceUrls) /\ a \in Seq(Nat)
  OBVIOUS

(* A url and its tier.                                                     *)
LEMMA AnnounceFields ==
    ASSUME NEW u, NEW t
    PROVE  announce_url(u, t).url = u /\ announce_url(u, t).tier = t
  BY DEF announce_url

(* What stands where in the one is in the first or in the second.          *)
LEMMA ConcatIndex ==
    ASSUME NEW n \in Nat, NEW k \in Nat, NEW i \in 1 .. n + k
    PROVE  \/ i \in 1 .. n
           \/ i \notin 1 .. n /\ i - n \in 1 .. k /\ i = n + (i - n)
  OBVIOUS

(* The n-th of the first k tiers of a file.                                *)
Named(tiers, k, e) == \E t \in 1 .. k : \E i \in 1 .. Len(tiers[t]) : e = announce_url(tiers[t][i], t - 1)

(* Tiers of a file as a row of announces: one for every url, in order ...  *)
LEMMA RowOfTiers ==
    ASSUME NEW tiers \in Seq(Seq(Nat))
    PROVE  /\ Announces(tiers) \in Seq(AnnounceUrls) /\ FlattenSeq(tiers) \in Seq(Nat)
           /\ Len(Announces(tiers)) = Len(FlattenSeq(tiers))
           /\ \A i \in 1 .. Len(FlattenSeq(tiers)) : Announces(tiers)[i].url = FlattenSeq(tiers)[i]
           /\ \A e : e \in EntrySet(Announces(tiers)) <=> Named(tiers, Len(tiers), e)
<1> DEFINE n == Len(tiers)
           an(k) == Announces(SubSeq(tiers, 1, k))
           fl(k) == FlattenSeq(SubSeq(tiers, 1, k))
           Good(k) == /\ an(k) \in Seq(AnnounceUrls) /\ fl(k) \in Seq(Nat) /\ Len(an(k)) = Len(fl(k))
                      /\ \A i \in 1 .. Len(fl(k)) : an(k)[i].url = fl(k)[i]
                      /\ \A e : e \in EntrySet(an(k)) <=> Named(tiers, k, e)
           A == {k \in Nat : k <= n => Good(k)}
<1>0. n \in Nat
  OBVIOUS
<1>1. 0 \in A /\ A \in SUBSET Nat
  <2>1. SubSeq(tiers, 1, 0) = <<>> /\ <<>> \in Seq(Seq(Nat)) /\ <<>> \in Seq(Nat)
    BY <1>0
  <2>2. an(0) = <<>> /\ fl(0) = <<>>
    BY <2>1, AnnouncesFacts, FlattenEmpty
  <2>3. \A e : ~Named(tiers, 0, e)
    <3>1. 1 .. 0 = {}
      OBVIOUS
    <3> QED
      BY <3>1, Zenon DEF Named
  <2>5. <<>> \in Seq(AnnounceUrls) /\ Len(<<>>) = 0 /\ EntrySet(<<>>) = {}
    BY EmptyList
  <2>4. Good(0)
    <3> PICK a, f : a = an(0) /\ f = fl(0)
      OBVIOUS
    <3>1. a = <<>> /\ f = <<>>
      BY <2>2
    <3>2. /\ a \in Seq(AnnounceUrls) /\ f \in Seq(Nat) /\ Len(a) = Len(f)
          /\ \A i \in 1 .. Len(f) : a[i].url = f[i]
          /\ \A e : e \in EntrySet(a) <=> Named(tiers, 0, e)
      <4>1. Len(a) = 0 /\ Len(f) = 0 /\ 1 .. Len(f) = {} /\ a \in Seq(AnnounceUrls) /\ f \in Seq(Nat)
        BY <3>1, EmptyFacts
      <4>2. \A e : e \in EntrySet(a) <=> Named(tiers, 0, e)
        BY <2>3, <2>5, <3>1, Zenon
      <4> QED
        BY <4>1, <4>2, Zenon
    <3> HIDE DEF an, fl
    <3> QED
      BY <3>2
  <2> HIDE DEF Good
  <2> QED
    BY <2>4
<1>2. ASSUME NEW k \in A PROVE k + 1 \in A
  <2> SUFFICES ASSUME k + 1 <= n PROVE Good(k + 1)
    OBVIOUS
  <2>1. k \in Nat /\ k \in 0 .. n - 1 /\ k <= n /\ k + 1 \in 1 .. n
    BY <1>0
  <2>2. Good(k)
    BY <2>1
  <2> DEFINE s == SubSeq(tiers, 1, k)
             x == tiers[k + 1]
             y == TierOfFile(x, k)
  <2>3. SubSeq(tiers, 1, k + 1) = Append(s, x) /\ s \in Seq(Seq(Nat)) /\ Len(s) = k /\ x \in Seq(Nat)
    BY <2>1, SubSeqGrows
  <2>4. an(k + 1) = Announces(s) \o y /\ fl(k + 1) = FlattenSeq(s) \o x
    <3> HIDE DEF s, x
    <3> QED
      BY <2>3, AnnouncesFacts, FlattenAppend
  <2>5. /\ y \in Seq(AnnounceUrls) /\ Len(y) = Len(x)
        /\ \A i \in 1 .. Len(x) : y[i] = announce_url(x[i], k)
    BY <2>1, <2>3, TierOfFileType
  <2> DEFINE a == Announces(s)
             f == FlattenSeq(s)
             b == an(k + 1)
             g == fl(k + 1)
  <2>6. /\ a \in Seq(AnnounceUrls) /\ f \in Seq(Nat) /\ Len(a) = Len(f)
        /\ \A i \in 1 .. Len(f) : a[i].url = f[i]
        /\ \A e : e \in EntrySet(a) <=> Named(tiers, k, e)
    BY <2>2
  <2>7. b = a \o y /\ g = f \o x
    BY <2>4
  <2>8. x = tiers[k + 1]
    OBVIOUS
  <2> SUFFICES /\ b \in Seq(AnnounceUrls) /\ g \in Seq(Nat) /\ Len(b) = Len(g)
               /\ \A i \in 1 .. Len(g) : b[i].url = g[i]
               /\ \A e : e \in EntrySet(b) <=> Named(tiers, k + 1, e)
    OBVIOUS
  <2> HIDE DEF a, f, b, g, s, x, y, an, fl, Good, A
  <2>9. /\ b \in Seq(AnnounceUrls) /\ Len(a) \in Nat /\ Len(y) \in Nat /\ Len(b) = Len(a) + Len(y)
        /\ \A i \in 1 .. Len(a) : b[i] = a[i]
        /\ \A i \in 1 .. Len(y) : b[Len(a) + i] = y[i]
    <3>1. a \in Seq(AnnounceUrls) /\ y \in Seq(AnnounceUrls) /\ b = a \o y
      BY <2>5, <2>6, <2>7
    <3> QED
      BY <3>1, ConcatFacts
  <2>10. /\ g \in Seq(Nat) /\ Len(g) = Len(f) + Len(x) /\ Len(f) \in Nat /\ Len(x) \in Nat
         /\ \A i \in 1 .. Len(f) : g[i] = f[i]
         /\ \A i \in 1 .. Len(x) : g[Len(f) + i] = x[i]
    <3>1. f \in Seq(Nat) /\ x \in Seq(Nat) /\ g = f \o x
      BY <2>3, <2>6, <2>7
    <3> QED
      BY <3>1, ConcatFacts
  <2>11. \A i \in 1 .. Len(x) : y[i].url = x[i]
    BY <2>5, AnnounceFields
  <2>12. ASSUME NEW i \in 1 .. Len(g) PROVE b[i].url = g[i]
    <3>1. CASE i \in 1 .. Len(f)
      BY <2>6, <2>9, <2>10, <3>1
    <3>2. CASE i - Len(f) \in 1 .. Len(x) /\ i = Len(f) + (i - Len(f))
      <4> DEFINE j == i - Len(f)
      <4>1. j \in 1 .. Len(x) /\ i = Len(f) + j
        BY <3>2
      <4> HIDE DEF j
      <4>2. b[Len(a) + j] = y[j] /\ g[Len(f) + j] = x[j] /\ y[j].url = x[j]
        BY <2>5, <2>9, <2>10, <2>11, <4>1
      <4> QED
        BY <2>6, <4>1, <4>2
    <3> QED
      BY <2>10, <3>1, <3>2, ConcatIndex
  <2>13. ASSUME NEW e, e \in EntrySet(b) PROVE Named(tiers, k + 1, e)
    <3>1. PICK i \in 1 .. Len(b) : e = b[i]
      BY <2>13 DEF EntrySet
    <3>2. CASE i \in 1 .. Len(a)
      <4>1. e \in EntrySet(a)
        BY <2>9, <3>1, <3>2 DEF EntrySet
      <4>2. Named(tiers, k, e)
        BY <2>6, <4>1
      <4>3. \A t \in 1 .. k : t \in 1 .. k + 1
        BY <2>1
      <4> QED
        BY <4>2, <4>3 DEF Named
    <3>3. CASE i - Len(a) \in 1 .. Len(y) /\ i = Len(a) + (i - Len(a))
      <4> DEFINE j == i - Len(a)
      <4>1. j \in 1 .. Len(x) /\ i = Len(a) + j
        BY <2>5, <3>3
      <4> HIDE DEF j
      <4>2. e = announce_url(x[j], k)
        BY <2>5, <2>9, <3>1, <4>1
      <4>3. k + 1 \in 1 .. k + 1 /\ (k + 1) - 1 = k
        BY <2>1
      <4> QED
        BY <2>8, <4>1, <4>2, <4>3 DEF Named
    <3> QED
      BY <2>9, <3>1, <3>2, <3>3, ConcatIndex
  <2>14. ASSUME NEW e, Named(tiers, k + 1, e) PROVE e \in EntrySet(b)
    <3>0. PICK t \in 1 .. k + 1 : \E i \in 1 .. Len(tiers[t]) : e = announce_url(tiers[t][i], t - 1)
      BY <2>14 DEF Named
    <3>1. PICK i \in 1 .. Len(tiers[t]) : e = announce_url(tiers[t][i], t - 1)
      BY <3>0
    <3>2. CASE t = k + 1
      <4>1. i \in 1 .. Len(x) /\ t - 1 = k /\ e = announce_url(x[i], k)
        BY <2>1, <2>8, <3>1, <3>2
      <4>2. Len(a) + i \in 1 .. Len(b) /\ b[Len(a) + i] = e
        BY <2>5, <2>9, <4>1
      <4> QED
        BY <4>2 DEF EntrySet
    <3>3. CASE t # k + 1
      <4>1. t \in 1 .. k
        BY <2>1, <3>3
      <4>2. Named(tiers, k, e)
        BY <3>1, <4>1 DEF Named
      <4>3. e \in EntrySet(a)
        BY <2>6, <4>2
      <4>4. PICK j \in 1 .. Len(a) : e = a[j]
        BY <4>3 DEF EntrySet
      <4>5. j \in 1 .. Len(b) /\ b[j] = e
        BY <2>9, <4>4
      <4> QED
        BY <4>5 DEF EntrySet
    <3> QED
      BY <3>2, <3>3
  <2> QED
    BY <2>5, <2>6, <2>9, <2>10, <2>12, <2>13, <2>14
<1>3. A = Nat
  <2> HIDE DEF A
  <2> QED
    BY <1>1, <1>2, Induction
<1>4. Good(n)
  <2>1. n \in A
    BY <1>0, <1>3
  <2> HIDE DEF Good
  <2> QED
    BY <1>0, <2>1
<1>5. SubSeq(tiers, 1, n) = tiers
  OBVIOUS
<1> QED
  BY <1>4, <1>5

(* ... and, if no tier is empty, tiers that go up one by one.              *)
LEMMA RowClimbs ==
    ASSUME NEW tiers \in Seq(Seq(Nat)), \A t \in 1 .. Len(tiers) : tiers[t] # <<>>
    PROVE  /\ Announces(tiers) # <<>> => Announces(tiers)[1].tier = 0
           /\ \A i \in 1 .. Len(Announces(tiers)) - 1 :
                 Announces(tiers)[i + 1].tier \in {Announces(tiers)[i].tier, Announces(tiers)[i].tier + 1}
<1> DEFINE n == Len(tiers)
           an(k) == Announces(SubSeq(tiers, 1, k))
           Good(k) == /\ an(k) \in Seq(AnnounceUrls)
                      /\ k = 0 => an(k) = <<>>
                      /\ k > 0 => /\ Len(an(k)) > 0 /\ an(k)[1].tier = 0
                                  /\ an(k)[Len(an(k))].tier = k - 1
                      /\ \A i \in 1 .. Len(an(k)) - 1 : an(k)[i + 1].tier \in {an(k)[i].tier, an(k)[i].tier + 1}
           A == {k \in Nat : k <= n => Good(k)}
<1>0. n \in Nat
  OBVIOUS
<1>1. 0 \in A /\ A \in SUBSET Nat
  <2>1. SubSeq(tiers, 1, 0) = <<>> /\ <<>> \in Seq(AnnounceUrls) /\ Len(<<>>) = 0
        /\ <<>> \in Seq(Seq(Nat)) /\ <<>> \in Seq(Nat)
    BY <1>0
  <2>2. an(0) = <<>>
    BY <2>1, AnnouncesFacts
  <2>3. Good(0)
    <3> PICK a : a = an(0)
      OBVIOUS
    <3>1. a = <<>>
      BY <2>2
    <3>2. /\ a \in Seq(AnnounceUrls) /\ a = <<>>
          /\ \A i \in 1 .. Len(a) - 1 : a[i + 1].tier \in {a[i].tier, a[i].tier + 1}
      <4>1. 1 .. Len(a) - 1 = {} /\ a \in Seq(AnnounceUrls)
        BY <3>1, EmptyFacts
      <4> QED
        BY <3>1, <4>1, Zenon
    <3> HIDE DEF an
    <3> QED
      BY <3>2
  <2> HIDE DEF Good
  <2> QED
    BY <2>3
<1>2. ASSUME NEW k \in A PROVE k + 1 \in A
  <2> SUFFICES ASSUME k + 1 <= n PROVE Good(k + 1)
    OBVIOUS
  <2>1. k \in Nat /\ k \in 0 .. n - 1 /\ k <= n /\ k + 1 \in 1 .. n
    BY <1>0
  <2>2. Good(k)
    BY <2>1
  <2> DEFINE s == SubSeq(tiers, 1, k)
             x == tiers[k + 1]
             y == TierOfFile(x, k)
             a == Announces(s)
             b == an(k + 1)
  <2>3. SubSeq(tiers, 1, k + 1) = Append(s, x) /\ s \in Seq(Seq(Nat)) /\ Len(s) = k /\ x \in Seq(Nat)
    BY <2>1, SubSeqGrows
  <2>4. b = a \o y
    <3> HIDE DEF s, x
    <3> QED
      BY <2>3, AnnouncesFacts
  <2>5. /\ y \in Seq(AnnounceUrls) /\ Len(y) = Len(x)
        /\ \A i \in 1 .. Len(x) : y[i] = announce_url(x[i], k)
    BY <2>1, <2>3, TierOfFileType
  <2>6. /\ a \in Seq(AnnounceUrls) /\ (k = 0 => a = <<>>)
        /\ k > 0 => Len(a) > 0 /\ a[1].tier = 0 /\ a[Len(a)].tier = k - 1
        /\ \A i \in 1 .. Len(a) - 1 : a[i + 1].tier \in {a[i].tier, a[i].tier + 1}
    BY <2>2
  <2>7. x # <<>>
    BY <2>1
  <2> SUFFICES /\ b \in Seq(AnnounceUrls) /\ Len(b) > 0 /\ b[1].tier = 0 /\ b[Len(b)].tier = k
               /\ \A i \in 1 .. Len(b) - 1 : b[i + 1].tier \in {b[i].tier, b[i].tier + 1}
    BY <2>1
  <2> HIDE DEF s, x, y, a, b, an, Good, A
  <2>8. Len(x) \in Nat /\ Len(x) > 0
    BY <2>3, <2>7
  <2>9. /\ b \in Seq(AnnounceUrls) /\ Len(a) \in Nat /\ Len(y) \in Nat /\ Len(b) = Len(a) + Len(y)
        /\ \A i \in 1 .. Len(a) : b[i] = a[i]
        /\ \A i \in 1 .. Len(y) : b[Len(a) + i] = y[i]
    <3>1. a \in Seq(AnnounceUrls) /\ y \in Seq(AnnounceUrls) /\ b = a \o y
      BY <2>4, <2>5, <2>6
    <3> QED
      BY <3>1, ConcatFacts
  <2>10. \A i \in 1 .. Len(y) : b[Len(a) + i].tier = k
    <3>1. \A i \in 1 .. Len(y) : y[i].tier = k
      BY <2>5, AnnounceFields
    <3> QED
      BY <2>9, <3>1
  <2>11. Len(b) > 0 /\ b[Len(b)].tier = k
    <3>1. Len(y) \in 1 .. Len(y) /\ Len(b) = Len(a) + Len(y)
      BY <2>5, <2>8, <2>9
    <3>2. b[Len(a) + Len(y)].tier = k
      BY <2>10, <3>1
    <3> QED
      BY <2>5, <2>8, <2>9, <3>1, <3>2
  <2>12. b[1].tier = 0
    <3>1. CASE k = 0
      <4>1. Len(a) = 0
        BY <2>6, <3>1
      <4>2. 1 \in 1 .. Len(y) /\ Len(a) + 1 = 1
        BY <2>5, <2>8, <4>1
      <4>3. b[Len(a) + 1].tier = k
        BY <2>10, <4>2
      <4> QED
        BY <3>1, <4>2, <4>3
    <3>2. CASE k > 0
      <4>1. 1 \in 1 .. Len(a) /\ a[1].tier = 0
        BY <2>6, <2>9, <3>2
      <4> QED
        BY <2>9, <4>1
    <3> QED
      BY <2>1, <3>1, <3>2
  <2>13. ASSUME NEW i \in 1 .. Len(b) - 1 PROVE b[i + 1].tier \in {b[i].tier, b[i].tier + 1}
    <3>1. CASE i < Len(a)
      <4>1. i \in 1 .. Len(a) - 1 /\ i \in 1 .. Len(a) /\ i + 1 \in 1 .. Len(a)
        BY <2>9, <3>1
      <4> QED
        BY <2>6, <2>9, <4>1
    <3>2. CASE i = Len(a)
      <4>1. i \in 1 .. Len(a) /\ k > 0
        <5>1. Len(a) # 0
          BY <2>9, <3>2
        <5>2. k # 0
          BY <2>6, <5>1
        <5> QED
          BY <2>1, <2>9, <3>2, <5>2
      <4>2. b[i].tier = k - 1
        BY <2>6, <2>9, <3>2, <4>1
      <4>3. 1 \in 1 .. Len(y) /\ i + 1 = Len(a) + 1
        BY <2>5, <2>8, <3>2
      <4>4. b[i + 1].tier = k
        BY <2>10, <4>3
      <4> QED
        BY <2>1, <4>2, <4>4
    <3>3. CASE i > Len(a)
      <4> DEFINE j == i - Len(a)
      <4>1. j \in 1 .. Len(y) /\ j + 1 \in 1 .. Len(y) /\ Len(a) + j = i /\ Len(a) + (j + 1) = i + 1
        BY <2>9, <3>3
      <4> HIDE DEF j
      <4>2. b[Len(a) + j].tier = k /\ b[Len(a) + (j + 1)].tier = k
        BY <2>10, <4>1
      <4> QED
        BY <4>1, <4>2
    <3> QED
      BY <2>9, <3>1, <3>2, <3>3
  <2> QED
    BY <2>9, <2>11, <2>12, <2>13
<1>3. A = Nat
  <2> HIDE DEF A
  <2> QED
    BY <1>1, <1>2, Induction
<1>4. Good(n)
  <2>1. n \in A
    BY <1>0, <1>3
  <2> HIDE DEF Good
  <2> QED
    BY <1>0, <2>1
<1>5. SubSeq(tiers, 1, n) = tiers
  OBVIOUS
<1>6. n = 0 \/ n > 0
  BY <1>0
<1> QED
  BY <1>4, <1>5, <1>6

-----------------------------------------------------------------------------
(* Writing a list, and its tiers as a row.                                 *)

(* The tiers of a well formed list climb one by one.                       *)
LEMMA ListClimbs ==
    ASSUME NEW list, WellFormed(list)
    PROVE  /\ list # <<>> => list[1].tier = 0
           /\ \A i \in 1 .. Len(list) - 1 : list[i + 1].tier \in {list[i].tier, list[i].tier + 1}
<1>0. list \in Seq(AnnounceUrls) /\ Len(list) \in Nat
  BY DEF WellFormed
<1>1. CASE Len(list) = 0
  BY <1>0, <1>1
<1>2. CASE Len(list) > 0
  <2>1. /\ \A i, j \in 1 .. Len(list) : i <= j => list[i].tier <= list[j].tier
        /\ \A t \in 0 .. list[Len(list)].tier : \E i \in 1 .. Len(list) : list[i].tier = t
    BY <1>2, TierFacts
  <2>2. \A i \in 1 .. Len(list) : list[i].tier \in Nat
    BY <1>0, EntryTypes
  <2>3. 1 \in 1 .. Len(list) /\ Len(list) \in 1 .. Len(list)
    BY <1>0, <1>2
  <2>4. list[1].tier = 0
    <3>1. 0 \in 0 .. list[Len(list)].tier
      BY <2>2, <2>3
    <3>2. PICK i \in 1 .. Len(list) : list[i].tier = 0
      BY <2>1, <3>1
    <3>3. list[1].tier <= list[i].tier
      BY <2>1, <2>3, <3>2
    <3> QED
      BY <2>2, <2>3, <3>2, <3>3
  <2>5. ASSUME NEW i \in 1 .. Len(list) - 1 PROVE list[i + 1].tier \in {list[i].tier, list[i].tier + 1}
    <3>1. i \in 1 .. Len(list) /\ i + 1 \in 1 .. Len(list)
      BY <1>0
    <3>2. list[i].tier <= list[i + 1].tier /\ list[i + 1].tier <= list[Len(list)].tier
      BY <2>1, <2>3, <3>1
    <3>3. list[i].tier \in Nat /\ list[i + 1].tier \in Nat /\ list[Len(list)].tier \in Nat
      BY <2>2, <2>3, <3>1
    <3> SUFFICES ASSUME list[i + 1].tier > list[i].tier + 1 PROVE FALSE
      BY <3>2, <3>3, SMTT(30)
    <3>4. list[i].tier + 1 \in 0 .. list[Len(list)].tier
      BY <3>2, <3>3
    <3>5. PICK j \in 1 .. Len(list) : list[j].tier = list[i].tier + 1
      BY <2>1, <3>4
    <3>6. j <= i => list[j].tier <= list[i].tier
      BY <2>1, <3>1
    <3>7. i + 1 <= j => list[i + 1].tier <= list[j].tier
      BY <2>1, <3>1
    <3> QED
      BY <3>1, <3>3, <3>5, <3>6, <3>7
  <2> QED
    BY <2>4, <2>5
<1> QED
  BY <1>0, <1>1, <1>2

(* The first entries of a well formed list are one.                        *)
LEMMA PrefixWellFormed ==
    ASSUME NEW list, WellFormed(list), NEW k \in 0 .. Len(list)
    PROVE  WellFormed(SubSeq(list, 1, k))
<1> DEFINE s == SubSeq(list, 1, k)
<1>0. list \in Seq(AnnounceUrls) /\ Len(list) \in Nat /\ DOMAIN list = 1 .. Len(list)
  BY DEF WellFormed
<1>1. s \in Seq(AnnounceUrls) /\ Len(s) = k /\ DOMAIN s = 1 .. k /\ \A i \in 1 .. k : s[i] = list[i]
  BY <1>0
<1> HIDE DEF s
<1>2. \A i \in 1 .. k : i \in 1 .. Len(list)
  BY <1>0
<1>3. Sorted(s)
  BY <1>0, <1>1, <1>2 DEF Sorted, WellFormed
<1>4. NoGap(s)
  <2>1. CASE k = 0
    <3>1. s = <<>>
      BY <1>1, <2>1
    <3> QED
      BY <3>1, EmptyList DEF WellFormed
  <2>2. CASE k > 0
    <3>1. Len(list) > 0 /\ k \in 1 .. k /\ k \in 1 .. Len(list) /\ Len(list) \in 1 .. Len(list)
      BY <1>0, <2>2
    <3>2. /\ \A i, j \in 1 .. Len(list) : i <= j => list[i].tier <= list[j].tier
          /\ \A t \in 0 .. list[Len(list)].tier : \E i \in 1 .. Len(list) : list[i].tier = t
      BY <3>1, TierFacts
    <3>3. list[k].tier \in Nat /\ list[Len(list)].tier \in Nat /\ list[k].tier <= list[Len(list)].tier
      BY <1>0, <3>1, <3>2, EntryTypes
    <3>4. s # <<>> /\ Last(s) = list[k]
      BY <1>1, <2>2, <3>1 DEF Last
    <3>5. tier_count(s) = list[k].tier + 1
      BY <3>4 DEF tier_count
    <3>6. ASSUME NEW t \in 0 .. list[k].tier PROVE \E i \in 1 .. k : s[i].tier = t
      <4>1. t \in 0 .. list[Len(list)].tier
        BY <3>3
      <4>2. PICK i \in 1 .. Len(list) : list[i].tier = t
        BY <3>2, <4>1
      <4>3. CASE i <= k
        BY <1>1, <4>2, <4>3
      <4>4. CASE i > k
        <5>1. list[k].tier <= list[i].tier
          BY <3>1, <3>2, <4>2, <4>4
        <5>2. list[k].tier = t
          BY <3>3, <4>2, <5>1
        <5> QED
          BY <1>1, <3>1, <5>2
      <4> QED
        BY <4>2, <4>3, <4>4
    <3>7. 0 .. tier_count(s) - 1 = 0 .. list[k].tier
      BY <3>3, <3>5
    <3> QED
      BY <1>1, <3>6, <3>7 DEF NoGap
  <2> QED
    BY <2>1, <2>2
<1> QED
  BY <1>1, <1>3, <1>4 DEF WellFormed, s

-----------------------------------------------------------------------------
(* The serialiser: the tiers it writes stand for the entries of the list.  *)
Written(current, lists) == [current |-> current, lists |-> lists]

(* An entry of the tier it is at, and one of the next.                     *)
LEMMA PutStepFacts ==
    ASSUME NEW c \in Nat, NEW ls \in Seq(Seq(Nat)), Len(ls) = c + 1, NEW a \in AnnounceUrls,
           a.tier \in {c, c + 1}
    PROVE  \E ms \in Seq(Seq(Nat)) :
              /\ PutStep(Written(c, ls), a) = Written(a.tier, ms)
              /\ Len(ms) = a.tier + 1 /\ Announces(ms) = Append(Announces(ls), a)
<1>0. a.url \in Nat /\ a.tier \in Nat /\ a = announce_url(a.url, a.tier)
  BY DEF AnnounceUrls, announce_url
<1>1. Written(c, ls).current = c /\ Written(c, ls).lists = ls
  BY DEF Written
<1> DEFINE u == a.url
           an == Announces(ls)
<1>2. an \in Seq(AnnounceUrls)
  <2>1. <<>> \in Seq(Nat)
    OBVIOUS
  <2> QED
    BY <2>1, AnnouncesFacts
<1>3. CASE a.tier = c
  <2> DEFINE f == Front(ls)
             l == Last(ls)
             l2 == Append(l, u)
             ms == Append(f, l2)
  <2>1. f \in Seq(Seq(Nat)) /\ Len(f) = c /\ l \in Seq(Nat) /\ ls = Append(f, l)
    BY DEF Front, Last
  <2> HIDE DEF f, l
  <2>2. l2 \in Seq(Nat) /\ Len(l2) = Len(l) + 1 /\ l2[Len(l) + 1] = u /\ Len(l) \in Nat
        /\ \A i \in 1 .. Len(l) : l2[i] = l[i]
    BY <1>0, <2>1, AppendFacts
  <2> HIDE DEF l2
  <2>3. ms \in Seq(Seq(Nat)) /\ Len(ms) = c + 1
    BY <2>1, <2>2, AppendFacts
  <2>4. an = Announces(f) \o TierOfFile(l, c) /\ Announces(f) \in Seq(AnnounceUrls)
    BY <2>1, AnnouncesFacts
  <2>5. Announces(ms) = Announces(f) \o TierOfFile(l2, c)
    BY <2>1, <2>2, AnnouncesFacts
  <2> DEFINE x == TierOfFile(l, c)
             y == TierOfFile(l2, c)
  <2>6. /\ x \in Seq(AnnounceUrls) /\ Len(x) = Len(l)
        /\ \A i \in 1 .. Len(l) : x[i] = announce_url(l[i], c)
    BY <2>1, TierOfFileType
  <2>7. /\ y \in Seq(AnnounceUrls) /\ Len(y) = Len(l2)
        /\ \A i \in 1 .. Len(l2) : y[i] = announce_url(l2[i], c)
    BY <2>2, TierOfFileType
  <2> HIDE DEF x, y
  <2> DEFINE z == Append(x, a)
  <2>8. /\ z \in Seq(AnnounceUrls) /\ Len(z) = Len(l) + 1 /\ z[Len(l) + 1] = a
        /\ \A i \in 1 .. Len(l) : z[i] = x[i]
    <3>1. x \in Seq(AnnounceUrls) /\ Len(x) = Len(l)
      BY <2>6
    <3> QED
      BY <3>1, AppendFacts
  <2> HIDE DEF z
  <2>9. \A i \in 1 .. Len(l) + 1 : y[i] = z[i]
    <3>1. ASSUME NEW i \in 1 .. Len(l) + 1 PROVE y[i] = z[i]
      <4>1. CASE i = Len(l) + 1
        <5>1. i \in 1 .. Len(l2) /\ l2[i] = u /\ z[i] = a
          BY <2>2, <2>8, <4>1
        <5>2. y[i] = announce_url(u, c)
          BY <2>7, <5>1
        <5> QED
          BY <1>0, <1>3, <5>1, <5>2
      <4>2. CASE i # Len(l) + 1
        <5>1. i \in 1 .. Len(l2) /\ i \in 1 .. Len(l)
          BY <2>2, <4>2
        <5> QED
          BY <2>2, <2>6, <2>7, <2>8, <5>1
      <4> QED
        BY <4>1, <4>2
    <3> QED
      BY <3>1
  <2>10. y = z
    BY <2>2, <2>7, <2>8, <2>9, SeqEqual
  <2>11. Announces(ms) = Append(an, a)
    <3>1. PICK g : g = Announces(f) /\ g \in Seq(AnnounceUrls)
      BY <2>4
    <3>2. x \in Seq(AnnounceUrls)
      BY <2>6
    <3>3. g \o Append(x, a) = Append(g \o x, a)
      BY <3>1, <3>2
    <3>4. Announces(ms) = g \o Append(x, a) /\ an = g \o x
      BY <2>4, <2>5, <2>10, <3>1, Zenon DEF x, y, z
    <3> QED
      BY <3>3, <3>4, Zenon
  <2>12. PutStep(Written(c, ls), a) = Written(c, ms)
    <3>1. PutStep(Written(c, ls), a) =
          [Written(c, ls) EXCEPT !.lists = Append(Front(@), Append(Last(@), a.url))]
      BY <1>1, <1>3 DEF PutStep
    <3>2. Append(Front(ls), Append(Last(ls), a.url)) = ms
      BY Zenon DEF f, l, l2
    <3>3. [Written(c, ls) EXCEPT !.lists = ms] = Written(c, ms)
      <4> HIDE DEF ms
      <4> QED
        BY DEF Written
    <3> QED
      BY <1>1, <3>1, <3>2, <3>3, Zenon
  <2> HIDE DEF ms
  <2> QED
    BY <1>3, <2>3, <2>11, <2>12
<1>4. CASE a.tier = c + 1
  <2> DEFINE l == <<u>>
             ms == Append(ls, l)
  <2>1. l \in Seq(Nat) /\ Len(l) = 1 /\ l[1] = u
    BY <1>0
  <2> HIDE DEF l
  <2>2. ms \in Seq(Seq(Nat)) /\ Len(ms) = c + 2
    BY <2>1, AppendFacts
  <2>3. Announces(ms) = an \o TierOfFile(l, c + 1)
    BY <2>1, AnnouncesFacts
  <2>4. /\ TierOfFile(l, c + 1) \in Seq(AnnounceUrls) /\ Len(TierOfFile(l, c + 1)) = 1
        /\ TierOfFile(l, c + 1)[1] = a
    <3>1. c + 1 \in Nat /\ 1 \in 1 .. Len(l)
      BY <2>1
    <3>2. /\ TierOfFile(l, c + 1) \in Seq(AnnounceUrls) /\ Len(TierOfFile(l, c + 1)) = Len(l)
          /\ TierOfFile(l, c + 1)[1] = announce_url(l[1], c + 1)
      BY <2>1, <3>1, TierOfFileType
    <3> QED
      BY <1>0, <1>4, <2>1, <3>2
  <2>5. PICK x : x = TierOfFile(l, c + 1)
    OBVIOUS
  <2>6. x = <<a>>
    BY <2>4, <2>5
  <2>7. an \o <<a>> = Append(an, a)
    <3> HIDE DEF an
    <3> QED
      BY <1>2
  <2>8. PutStep(Written(c, ls), a) = Written(c + 1, ms)
    <3>1. a.tier # Written(c, ls).current
      BY <1>1, <1>4
    <3>2. PutStep(Written(c, ls), a) = [current |-> c + 1, lists |-> ms]
      BY <1>1, <3>1, Zenon DEF PutStep, l
    <3> QED
      BY <3>2 DEF Written
  <2> HIDE DEF ms, an
  <2>9. Announces(ms) = Append(an, a)
    BY <2>3, <2>5, <2>6, <2>7
  <2> QED
    <3>1. /\ PutStep(Written(c, ls), a) = Written(a.tier, ms)
          /\ Len(ms) = a.tier + 1 /\ Announces(ms) = Append(Announces(ls), a)
      <4>1. c + 2 = (c + 1) + 1
        OBVIOUS
      <4> QED
        BY <1>4, <2>2, <2>8, <2>9, <4>1 DEF an
    <3> QED
      BY <2>2, <3>1
<1> QED
  BY <1>3, <1>4

(* What is written of a list is its entries, tier by tier.                 *)
LEMMA TiersOfList ==
    ASSUME NEW list, WellFormed(list)
    PROVE  Tiers(list) \in Seq(Seq(Nat)) /\ Announces(Tiers(list)) = list
<1> DEFINE n == Len(list)
           base == Written(0, <<<<>>>>)
<1>1. n \in Nat /\ DOMAIN list = 1 .. n /\ list \in Seq(AnnounceUrls)
      /\ \A i \in 1 .. n : list[i] \in AnnounceUrls /\ list[i].tier \in Nat
  BY EntryTypes DEF WellFormed
<1>2. CASE list = <<>>
  <2>1. Tiers(list) = <<>> /\ <<>> \in Seq(Seq(Nat)) /\ <<>> \in Seq(Nat)
    BY <1>2, TiersIsFold
  <2> QED
    BY <1>2, <2>1, AnnouncesFacts
<1>3. CASE list # <<>>
  <2> HIDE DEF base
  <2>1. PICK r : /\ r[0] = base /\ r[n] = PutAll(base, list)
                 /\ \A k \in 1 .. n : r[k] = PutStep(r[k - 1], list[k])
    <3> HIDE DEF n
    <3>1. PICK r : PutRun(r, base, list, n)
      BY <1>1, PutSteps
    <3> QED
      BY <3>1, Zenon DEF PutRun
  <2> DEFINE Good(k) == \E c \in Nat, ls \in Seq(Seq(Nat)) :
                           /\ r[k] = Written(c, ls) /\ Len(ls) = c + 1
                           /\ Announces(ls) = SubSeq(list, 1, k)
                           /\ c = IF k = 0 THEN 0 ELSE list[k].tier
             A == {k \in Nat : k <= n => Good(k)}
  <2>2. 0 \in A /\ A \in SUBSET Nat
    <3>1. SubSeq(list, 1, 0) = <<>> /\ <<>> \in Seq(Nat) /\ <<>> \in Seq(Seq(Nat))
      BY <1>1
    <3>2. <<<<>>>> \in Seq(Seq(Nat)) /\ Len(<<<<>>>>) = 1 /\ <<<<>>>> = Append(<<>>, <<>>) /\ Len(<<>>) = 0
      OBVIOUS
    <3>3. Announces(<<<<>>>>) = <<>>
      <4>1. Announces(Append(<<>>, <<>>)) = Announces(<<>>) \o TierOfFile(<<>>, Len(<<>>)) /\ Announces(<<>>) = <<>>
        BY <3>1, AnnouncesFacts
      <4>2. TierOfFile(<<>>, Len(<<>>)) = <<>>
        BY DEF TierOfFile
      <4>3. <<>> \o <<>> = <<>>
        OBVIOUS
      <4> QED
        BY <3>2, <4>1, <4>2, <4>3
    <3>4. Good(0)
      <4>1. PICK ls : ls = <<<<>>>>
        OBVIOUS
      <4>2. /\ r[0] = Written(0, ls) /\ Len(ls) = 0 + 1 /\ ls \in Seq(Seq(Nat))
            /\ Announces(ls) = SubSeq(list, 1, 0) /\ 0 \in Nat
        BY <2>1, <3>1, <3>2, <3>3, <4>1 DEF base
      <4> QED
        BY <4>2
    <3> HIDE DEF Good
    <3> QED
      BY <3>4
  <2>3. ASSUME NEW k \in A PROVE k + 1 \in A
    <3> SUFFICES ASSUME k + 1 <= n PROVE Good(k + 1)
      OBVIOUS
    <3>1. k \in Nat /\ k + 1 \in 1 .. n /\ (k + 1) - 1 = k /\ k <= n /\ k \in 0 .. n - 1
      BY <1>1
    <3>2. PICK c \in Nat, ls \in Seq(Seq(Nat)) :
             /\ r[k] = Written(c, ls) /\ Len(ls) = c + 1
             /\ Announces(ls) = SubSeq(list, 1, k)
             /\ c = IF k = 0 THEN 0 ELSE list[k].tier
      <4>1. Good(k)
        BY <3>1
      <4> QED
        BY <4>1
    <3> DEFINE a == list[k + 1]
    <3>3. r[k + 1] = PutStep(r[k], a) /\ a \in AnnounceUrls
      BY <1>1, <2>1, <3>1
    <3>4. a.tier \in {c, c + 1}
      <4>1. CASE k = 0
        BY <1>3, <3>2, <4>1, ListClimbs
      <4>2. CASE k # 0
        <5>1. k \in 1 .. Len(list) - 1
          BY <1>1, <3>1, <4>2
        <5> QED
          BY <3>2, <4>2, <5>1, ListClimbs
      <4> QED
        BY <4>1, <4>2
    <3>5. SubSeq(list, 1, k + 1) = Append(SubSeq(list, 1, k), a)
      BY <1>1, <3>1, SubSeqGrows
    <3>6. k + 1 # 0 /\ a.tier = list[k + 1].tier /\ a.tier \in Nat
      BY <1>1, <3>1
    <3> HIDE DEF a
    <3>7. PICK ms \in Seq(Seq(Nat)) :
              /\ PutStep(Written(c, ls), a) = Written(a.tier, ms)
              /\ Len(ms) = a.tier + 1 /\ Announces(ms) = Append(Announces(ls), a)
      BY <3>2, <3>3, <3>4, PutStepFacts
    <3>8. r[k + 1] = Written(a.tier, ms) /\ Announces(ms) = SubSeq(list, 1, k + 1)
      BY <3>2, <3>3, <3>5, <3>7
    <3> QED
      BY <3>6, <3>7, <3>8
  <2>4. A = Nat
    <3> HIDE DEF A
    <3> QED
      BY <2>2, <2>3, Induction
  <2>5. Good(n)
    <3>1. n \in A
      <4> HIDE DEF A, n
      <4> QED
        BY <1>1, <2>4
    <3> HIDE DEF Good
    <3> QED
      BY <1>1, <3>1
  <2>6. PICK c \in Nat, ls \in Seq(Seq(Nat)) : r[n] = Written(c, ls) /\ Announces(ls) = SubSeq(list, 1, n)
    BY <2>5
  <2>7. SubSeq(list, 1, n) = list
    BY <1>1
  <2>8. Tiers(list) = PutAll(base, list).lists
    BY <1>3, TiersIsFold, Zenon DEF base, Written
  <2>9. Tiers(list) = ls
    <3>1. PutAll(base, list) = Written(c, ls)
      BY <2>1, <2>6
    <3>2. Written(c, ls).lists = ls
      BY DEF Written
    <3> QED
      BY <2>8, <3>1, <3>2, Zenon
  <2> QED
    BY <2>6, <2>7, <2>9
<1> QED
  BY <1>2, <1>3

-----------------------------------------------------------------------------
(* An announce of its own becomes the first tier.                          *)

(* An announce of its own before the tiers of a list.                      *)
Before(u, list) ==
    [i \in 1 .. Len(list) + 1 |->
        IF i = 1 THEN announce_url(u, 0) ELSE announce_url(list[i - 1].url, list[i - 1].tier + 1)]

(* Its entries.                                                            *)
LEMMA BeforeFacts ==
    ASSUME NEW list \in Seq(AnnounceUrls), NEW u \in Nat
    PROVE  /\ Before(u, list) \in Seq(AnnounceUrls) /\ Len(Before(u, list)) = Len(list) + 1
           /\ Before(u, list)[1].url = u /\ Before(u, list)[1].tier = 0
           /\ Before(u, list)[1] = announce_url(u, 0)
           /\ \A i \in 1 .. Len(list) :
                 /\ Before(u, list)[i + 1].url = list[i].url
                 /\ Before(u, list)[i + 1].tier = list[i].tier + 1
                 /\ Before(u, list)[i + 1] = announce_url(list[i].url, list[i].tier + 1)
<1> DEFINE E(i) == IF i = 1 THEN announce_url(u, 0) ELSE announce_url(list[i - 1].url, list[i - 1].tier + 1)
           n == Len(list)
<1>0. n \in Nat /\ \A i \in 1 .. n : list[i].url \in Nat /\ list[i].tier \in Nat
  BY EntryTypes
<1>1. ASSUME NEW i \in 1 .. n + 1 PROVE E(i) \in AnnounceUrls
  <2>1. CASE i = 1
    BY <2>1 DEF announce_url, AnnounceUrls
  <2>2. CASE i # 1
    <3>1. i - 1 \in 1 .. n
      BY <1>0, <2>2
    <3>2. list[i - 1].url \in Nat /\ list[i - 1].tier + 1 \in Nat
      BY <1>0, <3>1
    <3> QED
      BY <2>2, <3>2 DEF announce_url, AnnounceUrls
  <2> QED
    BY <2>1, <2>2
<1>2. Before(u, list) = [i \in 1 .. n + 1 |-> E(i)]
  BY DEF Before
<1> HIDE DEF E, n
<1>3. Before(u, list) \in Seq(AnnounceUrls) /\ Len(Before(u, list)) = n + 1
      /\ \A i \in 1 .. n + 1 : Before(u, list)[i] = E(i)
  BY <1>0, <1>1, <1>2
<1>4. 1 \in 1 .. n + 1 /\ E(1) = announce_url(u, 0)
  BY <1>0 DEF E
<1>5. ASSUME NEW i \in 1 .. n PROVE i + 1 \in 1 .. n + 1 /\ E(i + 1) = announce_url(list[i].url, list[i].tier + 1)
  <2>1. i + 1 \in 1 .. n + 1 /\ i + 1 # 1 /\ (i + 1) - 1 = i
    BY <1>0
  <2> QED
    BY <2>1 DEF E
<1> QED
  BY <1>3, <1>4, <1>5, AnnounceFields DEF n

(* It is well formed, and has no url twice.                                *)
LEMMA BeforeWellFormed ==
    ASSUME NEW list, WellFormed(list), NEW u \in Nat
    PROVE  /\ WellFormed(Before(u, list))
           /\ UniqueUrls(list) /\ u \notin UrlSet(list) => UniqueUrls(Before(u, list))
           /\ UrlSet(Before(u, list)) = UrlSet(list) \cup {u}
<1> DEFINE b == Before(u, list)
           n == Len(list)
<1>0. list \in Seq(AnnounceUrls) /\ n \in Nat /\ DOMAIN list = 1 .. n
  BY DEF WellFormed
<1>1. /\ b \in Seq(AnnounceUrls) /\ Len(b) = n + 1 /\ b[1].url = u /\ b[1].tier = 0
      /\ \A i \in 1 .. n : b[i + 1].url = list[i].url /\ b[i + 1].tier = list[i].tier + 1
  BY <1>0, BeforeFacts
<1>2. \A i \in 1 .. n : list[i].tier \in Nat /\ list[i].url \in Nat
  BY <1>0, EntryTypes
<1>3. DOMAIN b = 1 .. n + 1
  BY <1>1
<1> HIDE DEF b
<1>4. ASSUME NEW i \in 1 .. n + 1 PROVE i = 1 \/ (i - 1 \in 1 .. n /\ (i - 1) + 1 = i)
  BY <1>0
<1>5. Sorted(b)
  <2>1. ASSUME NEW i \in 1 .. n + 1, NEW j \in 1 .. n + 1, i < j PROVE ~Less(b[j], b[i])
    <3>1. j - 1 \in 1 .. n /\ (j - 1) + 1 = j
      BY <1>0, <2>1
    <3>2. b[j].tier = list[j - 1].tier + 1 /\ b[j].url = list[j - 1].url /\ list[j - 1].tier \in Nat /\ list[j - 1].url \in Nat
      BY <1>1, <1>2, <3>1
    <3>3. CASE i = 1
      BY <1>1, <3>2, <3>3 DEF Less
    <3>4. CASE i # 1
      <4>1. i - 1 \in 1 .. n /\ (i - 1) + 1 = i /\ i - 1 < j - 1
        BY <1>0, <2>1, <3>4
      <4>2. b[i].tier = list[i - 1].tier + 1 /\ b[i].url = list[i - 1].url /\ list[i - 1].tier \in Nat /\ list[i - 1].url \in Nat
        BY <1>1, <1>2, <4>1
      <4>3. ~Less(list[j - 1], list[i - 1])
        BY <1>0, <3>1, <4>1 DEF WellFormed, Sorted
      <4> QED
        BY <3>2, <4>2, <4>3, LessBehind, Zenon
    <3> QED
      BY <3>3, <3>4
  <2> QED
    BY <1>3, <2>1 DEF Sorted
<1>6. NoGap(b)
  <2>1. Last(b) = b[n + 1] /\ b # <<>>
    BY <1>0, <1>1 DEF Last
  <2>2. tier_count(b) = b[n + 1].tier + 1
    BY <2>1 DEF tier_count
  <2>3. CASE n = 0
    <3>1. 0 .. tier_count(b) - 1 = {0} /\ 1 \in DOMAIN b
      BY <1>1, <1>3, <2>2, <2>3
    <3> QED
      BY <1>1, <3>1 DEF NoGap
  <2>4. CASE n > 0
    <3>1. n \in 1 .. n /\ b[n + 1].tier = list[n].tier + 1 /\ list[n].tier \in Nat
      BY <1>0, <1>1, <1>2, <2>4
    <3>2. \A t \in 0 .. list[n].tier : \E i \in 1 .. n : list[i].tier = t
      BY <2>4, TierFacts
    <3>3. ASSUME NEW t \in 0 .. tier_count(b) - 1 PROVE \E i \in DOMAIN b : b[i].tier = t
      <4>1. CASE t = 0
        <5>1. 1 \in DOMAIN b /\ b[1].tier = t
          BY <1>0, <1>1, <1>3, <4>1
        <5> QED
          BY <5>1
      <4>2. CASE t # 0
        <5>1. t - 1 \in 0 .. list[n].tier
          BY <2>2, <3>1, <4>2
        <5>2. PICK i \in 1 .. n : list[i].tier = t - 1
          BY <3>2, <5>1
        <5>3. i + 1 \in DOMAIN b /\ b[i + 1].tier = t
          BY <1>0, <1>1, <1>3, <5>1, <5>2
        <5> QED
          BY <5>3
      <4> QED
        BY <4>1, <4>2
    <3> QED
      BY <3>3 DEF NoGap
  <2> QED
    BY <1>0, <2>3, <2>4
<1>7. ASSUME UniqueUrls(list), u \notin UrlSet(list) PROVE UniqueUrls(b)
  <2>1. \A i, j \in 1 .. n : list[i].url = list[j].url => i = j
    BY <1>0, <1>7, UniqueDef
  <2>2. \A i \in 1 .. n : list[i].url # u
    BY <1>7 DEF UrlSet
  <2>3. ASSUME NEW i \in 1 .. n + 1, NEW j \in 1 .. n + 1, b[i].url = b[j].url PROVE i = j
    <3>1. \A k \in 1 .. n + 1 : k # 1 => k - 1 \in 1 .. n /\ b[k].url = list[k - 1].url
      <4>1. ASSUME NEW k \in 1 .. n + 1, k # 1 PROVE k - 1 \in 1 .. n /\ b[k].url = list[k - 1].url
        <5>1. k - 1 \in 1 .. n /\ (k - 1) + 1 = k
          BY <1>4, <4>1
        <5> QED
          BY <1>1, <5>1
      <4> QED
        BY <4>1
    <3>2. CASE i = 1 /\ j # 1
      BY <1>1, <2>2, <2>3, <3>1, <3>2
    <3>3. CASE i # 1 /\ j = 1
      BY <1>1, <2>2, <2>3, <3>1, <3>3
    <3>4. CASE i # 1 /\ j # 1
      <4>1. i - 1 = j - 1
        BY <2>1, <2>3, <3>1, <3>4
      <4> QED
        BY <4>1
    <3> QED
      BY <3>2, <3>3, <3>4
  <2> QED
    BY <1>1, <2>3, UniqueDef
<1>8. UrlSet(b) = UrlSet(list) \cup {u}
  <2>1. ASSUME NEW x \in UrlSet(b) PROVE x \in UrlSet(list) \cup {u}
    <3>1. PICK i \in 1 .. n + 1 : x = b[i].url
      BY <1>1 DEF UrlSet
    <3>2. CASE i = 1
      BY <1>1, <3>1, <3>2
    <3>3. CASE i - 1 \in 1 .. n /\ (i - 1) + 1 = i
      <4>1. x = list[i - 1].url
        BY <1>1, <3>1, <3>3
      <4> QED
        BY <3>3, <4>1 DEF UrlSet
    <3> QED
      BY <1>4, <3>2, <3>3
  <2>2. ASSUME NEW x \in UrlSet(list) PROVE x \in UrlSet(b)
    <3>1. PICK i \in 1 .. n : x = list[i].url
      BY DEF UrlSet
    <3>2. i + 1 \in 1 .. Len(b) /\ b[i + 1].url = x
      BY <1>0, <1>1, <3>1
    <3> QED
      BY <3>2 DEF UrlSet
  <2>3. u \in UrlSet(b)
    <3>1. 1 \in 1 .. Len(b) /\ b[1].url = u
      BY <1>0, <1>1
    <3> QED
      BY <3>1 DEF UrlSet
  <2> QED
    BY <2>1, <2>2, <2>3
<1> QED
  BY <1>1, <1>5, <1>6, <1>7, <1>8 DEF WellFormed, b

(* The loop of parse_announce puts every entry behind those before it.     *)
LEMMA ShiftIsBefore ==
    ASSUME NEW list, WellFormed(list), NEW u \in Nat
    PROVE  ShiftAll(<<announce_url(u, 0)>>, list) = Before(u, list)
<1> DEFINE n == Len(list)
           b == Before(u, list)
           base == <<announce_url(u, 0)>>
<1>1. n \in Nat /\ DOMAIN list = 1 .. n /\ list \in Seq(AnnounceUrls)
  BY DEF WellFormed
<1>2. /\ b \in Seq(AnnounceUrls) /\ Len(b) = n + 1 /\ b[1] = announce_url(u, 0)
      /\ \A i \in 1 .. n : b[i + 1] = announce_url(list[i].url, list[i].tier + 1)
  BY <1>1, BeforeFacts
<1>3. WellFormed(b)
  BY BeforeWellFormed
<1> HIDE DEF base, b
<1>4. PICK r : /\ r[0] = base /\ r[n] = ShiftAll(base, list)
               /\ \A k \in 1 .. n : r[k] = ShiftStep(r[k - 1], list[k])
  <2> HIDE DEF n
  <2>1. PICK r : ShiftRun(r, base, list, n)
    BY <1>1, ShiftSteps
  <2> QED
    BY <2>1, Zenon DEF ShiftRun
<1> DEFINE A == {k \in Nat : k <= n => r[k] = SubSeq(b, 1, k + 1)}
<1>5. 0 \in A /\ A \in SUBSET Nat
  <2>1. base = SubSeq(b, 1, 1)
    BY <1>1, <1>2 DEF base
  <2> QED
    BY <1>4, <2>1
<1>6. ASSUME NEW k \in A PROVE k + 1 \in A
  <2> SUFFICES ASSUME k + 1 <= n PROVE r[k + 1] = SubSeq(b, 1, (k + 1) + 1)
    OBVIOUS
  <2>1. k \in Nat /\ k + 1 \in 1 .. n /\ (k + 1) - 1 = k /\ k <= n /\ k + 1 \in 0 .. Len(b) /\ k + 1 \in 0 .. Len(b) - 1
    BY <1>1, <1>2
  <2> DEFINE s == SubSeq(b, 1, k + 1)
             a == b[(k + 1) + 1]
  <2>2. r[k] = s
    BY <2>1
  <2>3. r[k + 1] = insert(s, a)
    <3>1. r[k + 1] = ShiftStep(r[k], list[k + 1])
      BY <1>4, <2>1
    <3>2. a = announce_url(list[k + 1].url, list[k + 1].tier + 1)
      BY <1>2, <2>1
    <3> HIDE DEF s, a
    <3> QED
      BY <2>2, <3>1, <3>2 DEF ShiftStep
  <2>4. /\ SubSeq(b, 1, (k + 1) + 1) = Append(s, a) /\ Len(s) = k + 1 /\ a \in AnnounceUrls
        /\ \A i \in 1 .. k + 1 : s[i] = b[i]
    BY <1>2, <2>1, SubSeqGrows
  <2>5. WellFormed(s)
    BY <1>3, <2>1, PrefixWellFormed
  <2>6. \A i \in 1 .. Len(s) : ~Less(a, s[i])
    <3>1. ASSUME NEW i \in 1 .. k + 1 PROVE ~Less(a, b[i])
      <4>1. i \in DOMAIN b /\ (k + 1) + 1 \in DOMAIN b /\ i < (k + 1) + 1
        BY <1>2, <2>1
      <4> QED
        BY <1>3, <4>1 DEF WellFormed, Sorted
    <3> QED
      BY <2>4, <3>1
  <2> HIDE DEF s, a
  <2>7. insert(s, a) = Append(s, a)
    BY <2>4, <2>5, <2>6, InsertLast
  <2> QED
    BY <2>3, <2>4, <2>7
<1>7. A = Nat
  <2> HIDE DEF A
  <2> QED
    BY <1>5, <1>6, Induction
<1>8. r[n] = SubSeq(b, 1, n + 1)
  <2>1. n \in A
    <3> HIDE DEF A, n
    <3> QED
      BY <1>1, <1>7
  <2> QED
    BY <1>1, <2>1
<1>9. SubSeq(b, 1, n + 1) = b
  BY <1>2
<1> QED
  BY <1>4, <1>8, <1>9 DEF b, base

-----------------------------------------------------------------------------
(* What parse_announce is given: a list of tiers or none, a url or none.   *)
TiersIn(d) == Get(d, "announce-list", <<>>)
AnnounceIn(d) == IF Has(d, "announce") THEN {d["announce"]} ELSE {}

(* The two records of AddAll told apart.                                   *)
LEMMA AddAllFacts ==
    ASSUME NEW tiers \in Seq(Seq(Nat))
    PROVE  /\ WellFormed(AddAll(tiers).list) /\ UniqueUrls(AddAll(tiers).list)
           /\ AddAll(tiers).ok => UrlSet(AddAll(tiers).list) = UrlSet(Announces(tiers))
<1> DEFINE es == Announces(tiers)
<1>1. es \in Seq(AnnounceUrls)
  BY RowOfTiers
<1>2. AddAll(tiers) = ReadAll(Fine(<<>>), es)
  BY AddAllIsFold, Zenon DEF Fine
<1> HIDE DEF es
<1>3. PICK list : /\ WellFormed(list) /\ UniqueUrls(list)
                  /\ \/ ReadAll(Fine(<<>>), es) = Failed(list)
                     \/ ReadAll(Fine(<<>>), es) = Fine(list) /\ UrlSet(list) = UrlSet(es)
  BY <1>1, ReadRow
<1>4. CASE AddAll(tiers) = Failed(list)
  <2>0. Failed(list).list = list /\ Failed(list).ok = FALSE
    BY DEF Failed
  <2>1. AddAll(tiers).list = list /\ AddAll(tiers).ok = FALSE
    BY <1>4, <2>0, Zenon
  <2> QED
    BY <1>3, <2>1, Zenon
<1>5. CASE AddAll(tiers) = Fine(list) /\ UrlSet(list) = UrlSet(es)
  <2>0. Fine(list).list = list
    BY DEF Fine
  <2>1. AddAll(tiers).list = list
    BY <1>5, <2>0, Zenon
  <2> QED
    BY <1>3, <1>5, <2>1, Zenon DEF es
<1> QED
  BY <1>2, <1>3, <1>4, <1>5

(* parse_announce leaves a well formed list without double urls whatever   *)
(* it is given, of all the urls it is given unless the contract fails.     *)
LEMMA ParseFacts ==
    ASSUME NEW d, TiersIn(d) \in Seq(Seq(Nat)), AnnounceIn(d) \in SUBSET Nat
    PROVE  /\ WellFormed(parse_announce(d)) /\ UniqueUrls(parse_announce(d))
           /\ AddAll(TiersIn(d)).ok =>
                 UrlSet(parse_announce(d)) = UrlSet(Announces(TiersIn(d))) \cup AnnounceIn(d)
<1> DEFINE list == AddAll(TiersIn(d)).list
           u == d["announce"]
<1>1. /\ WellFormed(list) /\ UniqueUrls(list)
      /\ AddAll(TiersIn(d)).ok => UrlSet(list) = UrlSet(Announces(TiersIn(d)))
  BY AddAllFacts
<1>2. parse_announce(d) = IF ~Has(d, "announce") \/ contains(list, u) THEN list
                          ELSE ShiftAll(<<announce_url(u, 0)>>, list)
  BY ParseIsFold, Zenon DEF TiersIn
<1> HIDE DEF list, u
<1>3. CASE ~Has(d, "announce")
  <2>1. parse_announce(d) = list /\ AnnounceIn(d) = {}
    BY <1>2, <1>3 DEF AnnounceIn
  <2> QED
    BY <1>1, <2>1
<1>4. CASE Has(d, "announce") /\ contains(list, u)
  <2>1. parse_announce(d) = list /\ AnnounceIn(d) = {u}
    BY <1>2, <1>4 DEF AnnounceIn, u
  <2>2. u \in UrlSet(list)
    BY <1>1, <1>4, ContainsFacts
  <2> QED
    BY <1>1, <2>1, <2>2
<1>5. CASE Has(d, "announce") /\ ~contains(list, u)
  <2>1. parse_announce(d) = ShiftAll(<<announce_url(u, 0)>>, list) /\ AnnounceIn(d) = {u} /\ u \in Nat
    BY <1>2, <1>5 DEF AnnounceIn, u
  <2>2. u \notin UrlSet(list)
    BY <1>1, <1>5, ContainsFacts
  <2>3. parse_announce(d) = Before(u, list)
    BY <1>1, <2>1, ShiftIsBefore
  <2>4. /\ WellFormed(Before(u, list)) /\ UniqueUrls(Before(u, list))
        /\ UrlSet(Before(u, list)) = UrlSet(list) \cup {u}
    BY <1>1, <2>1, <2>2, BeforeWellFormed
  <2> QED
    BY <1>1, <2>1, <2>3, <2>4
<1> QED
  BY <1>3, <1>4, <1>5

-----------------------------------------------------------------------------
(* Dictionaries: what is written under the announce keys.                  *)

(* The keys of a file that carry trackers.                                  *)
AnnounceKeys == {"announce", "announce-list"}

(* Two dictionaries in one.                                                *)
LEMMA MergeFacts ==
    ASSUME NEW d, NEW e, NEW k
    PROVE  /\ k \in DOMAIN (d ++ e) <=> k \in DOMAIN d \/ k \in DOMAIN e
           /\ k \in DOMAIN d => (d ++ e)[k] = d[k]
           /\ k \notin DOMAIN d /\ k \in DOMAIN e => (d ++ e)[k] = e[k]
<1>1. d ++ e = [j \in DOMAIN d \cup DOMAIN e |-> IF j \in DOMAIN d THEN d[j] ELSE e[j]]
  BY SMTT(30) DEF ++
<1>2. PICK f : f = d ++ e
  OBVIOUS
<1>3. DOMAIN f = DOMAIN d \cup DOMAIN e
  BY <1>1, <1>2, Zenon
<1>4. k \in DOMAIN f => f[k] = IF k \in DOMAIN d THEN d[k] ELSE e[k]
  BY <1>1, <1>2, Zenon
<1> QED
  BY <1>2, <1>3, <1>4, Zenon

(* A dictionary of one key, or of none.                                    *)
LEMMA KeyFacts ==
    ASSUME NEW key, NEW value, NEW d, d = Key(key, value)
    PROVE  DOMAIN d = {key} /\ d[key] = value
  BY DEF Key

(* It lacks other keys.                                                    *)
LEMMA OptLacks ==
    ASSUME NEW key, NEW value, NEW d, d = Key(key, value) \/ d = <<>>, NEW k, k # key
    PROVE  k \notin DOMAIN d
  BY DEF Key

(* None of the left dictionaries has the key.                              *)
LEMMA MergeLacks ==
    ASSUME NEW d, NEW e, NEW k, k \notin DOMAIN d, k \notin DOMAIN e
    PROVE  k \notin DOMAIN (d ++ e)
  BY MergeFacts

(* make_bvalue_common: what is written of the trackers, and that nothing   *)
(* else is written under their keys.                                       *)
LEMMA CommonKeys ==
    ASSUME NEW mm
    PROVE  LET d == make_bvalue_common(mm)
               list == mm.announce_list_
           IN  /\ \A k \in AnnounceKeys : k \in DOMAIN d <=> list # <<>>
               /\ list # <<>> => d["announce-list"] = Tiers(list) /\ d["announce"] = Head(list).url
<1> DEFINE list == mm.announce_list_
           o1 == Opt(mm.dht_nodes_ # <<>>, "nodes", mm.dht_nodes_)
           o2 == Opt(mm.web_seeds_ # <<>>, "url-list", mm.web_seeds_)
           o3 == Opt(mm.similar_torrents_ # {}, "similar", SimilarList(mm.similar_torrents_))
           o4 == Opt(mm.http_seeds_ # <<>>, "httpseeds", mm.http_seeds_)
           o5 == Opt(mm.collections_ # {}, "collections", SetToSeq(mm.collections_))
           o6 == Opt(mm.creation_date_ # 0, "creation date", mm.creation_date_)
           o7 == Opt(mm.created_by_ # 0, "created by", mm.created_by_)
           o8 == Opt(mm.comment_ # 0, "comment", mm.comment_)
           o9 == Opt(list # <<>>, "announce-list", Tiers(list))
           o10 == Opt(list # <<>>, "announce", Head(list).url)
           l8 == o1 ++ o2 ++ o3 ++ o4 ++ o5 ++ o6 ++ o7 ++ o8
           l9 == l8 ++ o9
           d == make_bvalue_common(mm)
<1>1. d = l9 ++ o10
  BY DEF make_bvalue_common
<1>2. /\ \E v : o1 = Key("nodes", v) \/ o1 = <<>>
      /\ \E v : o2 = Key("url-list", v) \/ o2 = <<>>
      /\ \E v : o3 = Key("similar", v) \/ o3 = <<>>
      /\ \E v : o4 = Key("httpseeds", v) \/ o4 = <<>>
      /\ \E v : o5 = Key("collections", v) \/ o5 = <<>>
      /\ \E v : o6 = Key("creation date", v) \/ o6 = <<>>
      /\ \E v : o7 = Key("created by", v) \/ o7 = <<>>
      /\ \E v : o8 = Key("comment", v) \/ o8 = <<>>
  BY Zenon DEF Opt
<1>3. /\ list # <<>> => o9 = Key("announce-list", Tiers(list)) /\ o10 = Key("announce", Head(list).url)
      /\ list = <<>> => o9 = <<>> /\ o10 = <<>>
  BY Zenon DEF Opt
<1> HIDE DEF o1, o2, o3, o4, o5, o6, o7, o8, o9, o10
<1>4. ASSUME NEW k \in AnnounceKeys PROVE k \notin DOMAIN l8
  <2>1. k # "nodes" /\ k # "url-list" /\ k # "similar" /\ k # "httpseeds" /\ k # "collections"
        /\ k # "creation date" /\ k # "created by" /\ k # "comment"
    BY DEF AnnounceKeys
  <2>2. k \notin DOMAIN o1 /\ k \notin DOMAIN o2 /\ k \notin DOMAIN o3 /\ k \notin DOMAIN o4
    BY <1>2, <2>1, OptLacks
  <2>3. k \notin DOMAIN o5 /\ k \notin DOMAIN o6 /\ k \notin DOMAIN o7 /\ k \notin DOMAIN o8
    BY <1>2, <2>1, OptLacks
  <2> DEFINE l4 == o1 ++ o2 ++ o3 ++ o4
  <2>4. k \notin DOMAIN l4
    BY <2>2, MergeLacks
  <2>5. l8 = l4 ++ o5 ++ o6 ++ o7 ++ o8
    BY Zenon
  <2> HIDE DEF l4, l8
  <2> QED
    BY <2>3, <2>4, <2>5, MergeLacks
<1> HIDE DEF l8
<1>5. "announce" \notin DOMAIN l8 /\ "announce-list" \notin DOMAIN l8
  BY <1>4 DEF AnnounceKeys
<1>6. CASE list # <<>>
  <2>1. /\ DOMAIN o9 = {"announce-list"} /\ o9["announce-list"] = Tiers(list)
        /\ DOMAIN o10 = {"announce"} /\ o10["announce"] = Head(list).url
    <3>1. o9 = Key("announce-list", Tiers(list))
      BY <1>3, <1>6, Zenon
    <3>2. o10 = Key("announce", Head(list).url)
      BY <1>3, <1>6, Zenon
    <3>3. PICK u : u = Head(list).url
      OBVIOUS
    <3>4. PICK ts : ts = Tiers(list)
      OBVIOUS
    <3> HIDE DEF list
    <3>5. DOMAIN o9 = {"announce-list"} /\ o9["announce-list"] = ts
      BY <3>1, <3>4, KeyFacts
    <3>6. DOMAIN o10 = {"announce"} /\ o10["announce"] = u
      BY <3>2, <3>3, KeyFacts
    <3> QED
      BY <3>3, <3>4, <3>5, <3>6, Zenon
  <2>2. /\ "announce-list" \in DOMAIN l9 /\ l9["announce-list"] = Tiers(list) /\ "announce" \notin DOMAIN l9
    BY <1>5, <2>1, MergeFacts
  <2> HIDE DEF l9, d, list
  <2>3. /\ "announce-list" \in DOMAIN d /\ d["announce-list"] = Tiers(list)
        /\ "announce" \in DOMAIN d /\ d["announce"] = Head(list).url
    BY <1>1, <2>1, <2>2, MergeFacts
  <2> QED
    BY <1>6, <2>3 DEF AnnounceKeys, d, list
<1>7. CASE list = <<>>
  <2>1. DOMAIN o9 = {} /\ DOMAIN o10 = {}
    BY <1>3, <1>7
  <2>2. ASSUME NEW k \in AnnounceKeys PROVE k \notin DOMAIN d
    <3>1. k \notin DOMAIN l8 /\ k \notin DOMAIN o9 /\ k \notin DOMAIN o10
      BY <1>4, <2>1
    <3>2. k \notin DOMAIN l9
      BY <3>1, MergeLacks
    <3> HIDE DEF l9, d, list
    <3> QED
      BY <1>1, <3>1, <3>2, MergeLacks
  <2> QED
    BY <1>7, <2>2
<1> QED
  BY <1>6, <1>7

(* The other parts of a file have other keys.                              *)
LEMMA WrittenKeys ==
    ASSUME NEW mm, NEW version
    PROVE  LET d == write_metafile(mm, version)
               list == mm.announce_list_
           IN  /\ \A k \in AnnounceKeys : k \in DOMAIN d <=> list # <<>>
               /\ list # <<>> => d["announce-list"] = Tiers(list) /\ d["announce"] = Head(list).url
<1> DEFINE list == mm.announce_list_
           d == write_metafile(mm, version)
           c == make_bvalue_common(mm)
           p == Key("piece layers", PieceLayers(mm.storage_))
<1>1. \/ d = Key("info", make_bvalue_infodict_v1(mm)) ++ c
      \/ d = p ++ Key("info", make_bvalue_infodict_v2(mm)) ++ c
      \/ d = p ++ Key("info", make_bvalue_infodict_hybrid(mm)) ++ c
  BY Zenon DEF write_metafile, make_bvalue_v1, make_bvalue_v2, make_bvalue_hybrid
<1>2. PICK v, q : \/ d = Key("info", v) ++ c
                  \/ d = Key("piece layers", q) ++ Key("info", v) ++ c
  BY <1>1, Zenon
<1> HIDE DEF d
<1>3. \E e : d = e ++ c /\ \A k \in AnnounceKeys : k \notin DOMAIN e
  <2>1. ASSUME NEW k \in AnnounceKeys PROVE k # "info" /\ k # "piece layers"
    BY DEF AnnounceKeys
  <2>2. ASSUME NEW k \in AnnounceKeys PROVE k \notin DOMAIN Key("info", v) /\ k \notin DOMAIN Key("piece layers", q)
    BY <2>1, OptLacks
  <2>3. ASSUME NEW k \in AnnounceKeys PROVE k \notin DOMAIN (Key("piece layers", q) ++ Key("info", v))
    BY <2>2, MergeLacks
  <2>4. CASE d = Key("info", v) ++ c
    BY <2>2, <2>4, Zenon
  <2>5. CASE d = Key("piece layers", q) ++ Key("info", v) ++ c
    BY <2>3, <2>5, Zenon
  <2> QED
    BY <1>2, <2>4, <2>5
<1>4. PICK e : d = e ++ c /\ \A k \in AnnounceKeys : k \notin DOMAIN e
  BY <1>3
<1>5. /\ \A k \in AnnounceKeys : k \in DOMAIN c <=> list # <<>>
      /\ list # <<>> => c["announce-list"] = Tiers(list) /\ c["announce"] = Head(list).url
  BY CommonKeys
<1>6. "announce" \in AnnounceKeys /\ "announce-list" \in AnnounceKeys
  BY DEF AnnounceKeys
<1> HIDE DEF c, list
<1>7. \A k \in AnnounceKeys : (k \in DOMAIN d <=> k \in DOMAIN c) /\ (k \in DOMAIN c => d[k] = c[k])
  BY <1>4, MergeFacts
<1>8. /\ \A k \in AnnounceKeys : k \in DOMAIN d <=> list # <<>>
      /\ list # <<>> => d["announce-list"] = Tiers(list) /\ d["announce"] = Head(list).url
  BY <1>5, <1>6, <1>7
<1> QED
  BY <1>8 DEF d, list

-----------------------------------------------------------------------------
(* Files that are like what was written.                                   *)

(* What d has under the announce keys is what w has there, or of a wrong   *)
(* type.                                                                   *)
Same(d, w) ==
    \A k \in AnnounceKeys : k \in DOMAIN d => (k \in DOMAIN w /\ d[k] = w[k]) \/ d[k] = Mistyped

(* A file is like itself,                                                  *)
LEMMA SameItself == ASSUME NEW d PROVE Same(d, d)
  BY DEF Same

(* without one of its keys,                                                *)
LEMMA SameWithout == ASSUME NEW w, NEW key PROVE Same(Without(w, key), w)
<1> DEFINE d == Without(w, key)
<1>1. DOMAIN d = DOMAIN w \ {key} /\ \A k \in DOMAIN w \ {key} : d[k] = w[k]
  BY DEF Without
<1> HIDE DEF d
<1>2. Same(d, w)
  BY <1>1 DEF Same
<1> QED
  BY <1>2 DEF d

(* with another value of another type or under another key,                *)
LEMMA SameKey ==
    ASSUME NEW w, NEW key, NEW value, key \notin AnnounceKeys \/ value = Mistyped
    PROVE  Same(Key(key, value) ++ w, w)
<1> DEFINE d == Key(key, value) ++ w
<1>1. PICK e : e = Key(key, value)
  OBVIOUS
<1>2. DOMAIN e = {key} /\ e[key] = value
  BY <1>1, KeyFacts
<1>3. d = e ++ w
  BY <1>1
<1> HIDE DEF d
<1>4. ASSUME NEW k \in AnnounceKeys, k \in DOMAIN d
      PROVE  (k \in DOMAIN w /\ d[k] = w[k]) \/ d[k] = Mistyped
  <2>1. CASE k = key
    <3>1. value = Mistyped
      BY <2>1
    <3>2. d[k] = e[k]
      BY <1>2, <1>3, <2>1, MergeFacts
    <3> QED
      BY <1>2, <2>1, <3>1, <3>2
  <2>2. CASE k # key
    BY <1>2, <1>3, <1>4, <2>2, MergeFacts
  <2> QED
    BY <2>1, <2>2
<1> QED
  BY <1>4 DEF Same, d

(* or with another info dictionary.                                        *)
LEMMA SameInfo == ASSUME NEW w, NEW info PROVE Same(WithInfo(w, info), w)
<1>1. "info" \notin AnnounceKeys
  BY DEF AnnounceKeys
<1> QED
  BY <1>1, SameKey DEF WithInfo

(* The files that are like what was written have its trackers, or none, or *)
(* something of another type in their place.                               *)
LEMMA LikeFacts ==
    ASSUME NEW w, NEW d \in FilesLike(w) PROVE Same(d, w)
<1>1. ASSUME d \in Damaged(w) PROVE Same(d, w)
  <2>1. CASE \E key : d = Without(w, key)
    BY <2>1, SameWithout, Zenon
  <2>2. CASE \E key : d = Key(key, Mistyped) ++ w
    <3>1. PICK key : d = Key(key, Mistyped) ++ w
      BY <2>2
    <3> QED
      BY <3>1, SameKey
  <2>3. CASE \E info : d = WithInfo(w, info)
    BY <2>3, SameInfo, Zenon
  <2>4. \/ d \in {Without(w, key) : key \in DOMAIN w}
        \/ d \in {Key(key, Mistyped) ++ w : key \in DOMAIN w}
        \/ d \in UNION {{WithInfo(w, Without(w.info, key)), WithInfo(w, Key(key, Mistyped) ++ w.info)} :
                            key \in DOMAIN w.info}
    BY <1>1, Zenon DEF Damaged
  <2>5. CASE d \in UNION {{WithInfo(w, Without(w.info, key)), WithInfo(w, Key(key, Mistyped) ++ w.info)} :
                            key \in DOMAIN w.info}
    BY <2>3, <2>5, Zenon
  <2> QED
    BY <2>1, <2>2, <2>4, <2>5, Zenon
<1>2. ASSUME d \in Truncated(w) PROVE Same(d, w)
  <2>1. \E info : d = WithInfo(w, info)
    BY <1>2, Zenon DEF Truncated
  <2> QED
    BY <2>1, SameInfo, Zenon
<1>3. ASSUME d \in Foreign(w) PROVE Same(d, w)
  <2>1. \/ \E info : d = WithInfo(w, info)
        \/ \E v : d = Key("nodes", v) ++ w
    BY <1>3, Zenon DEF Foreign
  <2>2. CASE \E info : d = WithInfo(w, info)
    BY <2>2, SameInfo, Zenon
  <2>3. CASE \E v : d = Key("nodes", v) ++ w
    <3>1. PICK v : d = Key("nodes", v) ++ w
      BY <2>3
    <3>2. "nodes" \notin AnnounceKeys
      BY DEF AnnounceKeys
    <3> QED
      BY <3>1, <3>2, SameKey
  <2> QED
    BY <2>1, <2>2, <2>3
<1>4. \/ d = w \/ d \in Damaged(w) \/ d \in Truncated(w) \/ d \in Foreign(w)
      \/ d = Without(w, "announce-list") \/ d = Without(w, "announce")
  BY Zenon DEF FilesLike
<1> QED
  BY <1>1, <1>2, <1>3, <1>4, SameItself, SameWithout, Zenon

(* Reading what is like a written file: the trackers are well formed.      *)
LEMMA LikeTiers ==
    ASSUME NEW mm, NEW version, WellFormed(mm.announce_list_),
           NEW w, w = write_metafile(mm, version),
           NEW d, Same(d, w), ~BadAccess(d, AnnounceKeys)
    PROVE  TiersIn(d) \in Seq(Seq(Nat)) /\ AnnounceIn(d) \in SUBSET Nat
<1> DEFINE list == mm.announce_list_
<1>1. /\ \A k \in AnnounceKeys : k \in DOMAIN w <=> list # <<>>
      /\ list # <<>> => w["announce-list"] = Tiers(list) /\ w["announce"] = Head(list).url
  BY WrittenKeys
<1>2. \A k \in AnnounceKeys : k \in DOMAIN d => k \in DOMAIN w /\ d[k] = w[k]
  BY DEF Same, BadAccess, Has
<1>3. "announce" \in AnnounceKeys /\ "announce-list" \in AnnounceKeys
  BY DEF AnnounceKeys
<1>4. Tiers(list) \in Seq(Seq(Nat))
  BY TiersOfList
<1>5. list # <<>> => Head(list).url \in Nat
  <2>1. list \in Seq(AnnounceUrls)
    BY DEF WellFormed
  <2> HIDE DEF list
  <2>2. ASSUME list # <<>> PROVE Head(list) \in AnnounceUrls
    BY <2>1, <2>2
  <2> QED
    BY <2>2 DEF AnnounceUrls
<1> HIDE DEF list
<1>6. TiersIn(d) \in Seq(Seq(Nat))
  <2>1. CASE "announce-list" \in DOMAIN d
    <3>1. TiersIn(d) = Tiers(list)
      BY <1>1, <1>2, <1>3, <2>1 DEF TiersIn, Get, Has
    <3> QED
      BY <1>4, <3>1
  <2>2. CASE "announce-list" \notin DOMAIN d
    <3>1. TiersIn(d) = <<>>
      BY <2>2 DEF TiersIn, Get, Has
    <3> QED
      BY <3>1
  <2> QED
    BY <2>1, <2>2
<1>7. AnnounceIn(d) \in SUBSET Nat
  <2>1. CASE "announce" \in DOMAIN d
    <3>1. d["announce"] = Head(list).url /\ list # <<>>
      BY <1>1, <1>2, <1>3, <2>1
    <3> QED
      BY <1>5, <2>1, <3>1 DEF AnnounceIn, Has
  <2>2. CASE "announce" \notin DOMAIN d
    BY <2>2 DEF AnnounceIn, Has
  <2> QED
    BY <2>1, <2>2
<1> QED
  BY <1>6, <1>7

(* parse_metafile puts what parse_announce finds into the list.            *)
LEMMA ParsedList ==
    ASSUME NEW d
    PROVE  "announce_list_" \in DOMAIN parse_metafile(d)
           /\ parse_metafile(d).announce_list_ = parse_announce(d)
  BY DEF parse_metafile, metafile

(* A file that is read has nothing of another type under its announce keys. *)
LEMMA FailsOnAccess ==
    ASSUME NEW d, ~ReadFails(d) PROVE ~AnnounceFails(d) /\ ~BadAccess(d, AnnounceKeys)
  BY DEF ReadFails, CommonFails, AnnounceFails, AnnounceKeys

(* A file made elsewhere.                                                  *)
LEMMA AnnounceFileFacts ==
    ASSUME NEW f \in AnnounceFiles
    PROVE  /\ Has(f, "announce-list") /\ f["announce-list"] \in Seq(Seq(Nat))
           /\ TiersIn(f) = f["announce-list"]
           /\ AnnounceIn(f) \in SUBSET Nat
<1> DEFINE mm == [metafile EXCEPT !.storage_ = Sample({"v1"}), !.name_ = 1]
           sample == write_metafile(mm, {"v1"})
<1>1. PICK tiers \in BoundedSeqs(BoundedSeqs(TrackerUrls, MaxInTier), MaxTiers),
           url \in TrackerUrls \cup {0} :
         f = Key("announce-list", tiers) ++ Opt(url # 0, "announce", url) ++ sample
  <2>1. f \in {Key("announce-list", tiers) ++ Opt(url # 0, "announce", url) ++ sample :
                   tiers \in BoundedSeqs(BoundedSeqs(TrackerUrls, MaxInTier), MaxTiers),
                   url \in TrackerUrls \cup {0}}
    BY DEF AnnounceFiles
  <2> HIDE DEF sample
  <2> QED
    BY <2>1
<1>2. mm.announce_list_ = <<>>
  BY DEF metafile
<1>3. "announce" \notin DOMAIN sample
  <2>1. "announce" \in AnnounceKeys
    BY DEF AnnounceKeys
  <2> HIDE DEF mm
  <2> QED
    BY <1>2, <2>1, WrittenKeys
<1> HIDE DEF sample
<1>4. tiers \in Seq(Seq(Nat))
  <2>1. ASSUME NEW n \in Nat, NEW S PROVE BoundedSeqs(S, n) \subseteq Seq(S)
    <3>1. ASSUME NEW s \in BoundedSeqs(S, n) PROVE s \in Seq(S)
      <4>1. PICK k \in 0 .. n : s \in [1 .. k -> S]
        BY <3>1, Zenon DEF BoundedSeqs
      <4> QED
        BY <4>1
    <3> QED
      BY <3>1
  <2>2. BoundedSeqs(TrackerUrls, MaxInTier) \subseteq Seq(Nat)
    <3>1. BoundedSeqs(TrackerUrls, MaxInTier) \subseteq Seq(TrackerUrls)
      BY <2>1, TorrentAssumption
    <3>2. \A u \in TrackerUrls : u \in Nat
      BY TorrentAssumption
    <3>3. ASSUME NEW s \in Seq(TrackerUrls) PROVE s \in Seq(Nat)
      BY <3>2
    <3> QED
      BY <3>1, <3>3
  <2>3. tiers \in Seq(BoundedSeqs(TrackerUrls, MaxInTier))
    BY <1>1, <2>1, TorrentAssumption
  <2> QED
    BY <2>2, <2>3
<1>5. PICK a, b : a = Key("announce-list", tiers) /\ b = Opt(url # 0, "announce", url)
  OBVIOUS
<1>6. DOMAIN a = {"announce-list"} /\ a["announce-list"] = tiers
  BY <1>5, KeyFacts
<1>7. b # <<>> => DOMAIN b = {"announce"} /\ b["announce"] = url
  <2>1. b = <<>> \/ b = Key("announce", url)
    BY <1>5, Zenon DEF Opt
  <2>2. PICK e : e = Key("announce", url)
    OBVIOUS
  <2>3. DOMAIN e = {"announce"} /\ e["announce"] = url
    BY <2>2, KeyFacts
  <2>4. ASSUME b # <<>> PROVE b = e
    BY <2>1, <2>2, <2>4, Zenon
  <2>5. ASSUME b # <<>> PROVE DOMAIN b = {"announce"} /\ b["announce"] = url
    BY <2>3, <2>4, <2>5, Zenon
  <2> QED
    BY <2>5
<1>8. f = (a ++ b) ++ sample
  BY <1>1, <1>5, Zenon
<1>9. PICK c : c = a ++ b
  OBVIOUS
<1>10. "announce-list" \in DOMAIN c /\ c["announce-list"] = tiers
  BY <1>6, <1>9, MergeFacts
<1>11. "announce" \in DOMAIN c => c["announce"] = url
  <2>1. ASSUME "announce" \in DOMAIN c PROVE c["announce"] = url
    <3>1. "announce" \notin DOMAIN a
      BY <1>6
    <3>2. "announce" \in DOMAIN b
      BY <1>9, <2>1, <3>1, MergeFacts
    <3>3. b["announce"] = url
      BY <1>7, <3>2
    <3> QED
      BY <1>9, <3>1, <3>2, <3>3, MergeFacts
  <2> QED
    BY <2>1
<1>12. f = c ++ sample
  BY <1>8, <1>9
<1>13. "announce-list" \in DOMAIN f /\ f["announce-list"] = tiers
  BY <1>10, <1>12, MergeFacts
<1>14. "announce" \in DOMAIN f => f["announce"] = url
  BY <1>3, <1>11, <1>12, MergeFacts
<1>15. url \in Nat
  BY TorrentAssumption
<1>16. AnnounceIn(f) \in SUBSET Nat
  BY <1>14, <1>15 DEF AnnounceIn, Has
<1> QED
  BY <1>4, <1>13, <1>16 DEF Has, Get, TiersIn

-----------------------------------------------------------------------------
(* The invariant of a client.                                              *)

(* Nothing in the list has the url twice, erase_announce or not.           *)
LEMMA EraseAnnounceUnique ==
    ASSUME NEW list, WellFormed(list), UniqueUrls(list), NEW a \in AnnounceUrls
    PROVE  UniqueUrls(erase_announce(list, a))
<1> DEFINE i == find_announce(list, a)
<1>1. list \in Seq(AnnounceUrls)
  BY DEF WellFormed
<1>2. i # 0 => i \in 1 .. Len(list)
  BY <1>1, FindAnnounceFacts
<1>3. CASE i = 0
  BY <1>3 DEF erase_announce
<1>4. CASE i # 0
  <2>1. erase_announce(list, a) = erase(list, i)
    BY <1>4 DEF erase_announce
  <2>2. \A j, k \in (1 .. Len(list)) \ {i} : list[j].url = list[k].url => j = k
    BY <1>1, UniqueDef
  <2> HIDE DEF i
  <2>3. UniqueUrls(erase(list, i))
    BY <1>2, <1>4, <2>2, EraseUrls
  <2> QED
    BY <2>1, <2>3
<1> QED
  BY <1>3, <1>4

(* Also in a list with double urls, adding and removing keep the tiers.    *)
LEMMA AddTrackerFormed ==
    ASSUME NEW list, WellFormed(list), NEW a \in AnnounceUrls, CanInsert(list, a)
    PROVE  WellFormed(add_tracker(list, a))
<1> DEFINE i == find(list, a.url)
<1>1. list \in Seq(AnnounceUrls)
  BY DEF WellFormed
<1>2. a.url \in Nat
  BY DEF AnnounceUrls
<1>3. WellFormed(insert(list, a))
  BY InsertKeepsTiers
<1>4. i # 0 => list[i] \in AnnounceUrls
  BY <1>1, <1>2, FindFacts, EntryTypes
<1>5. \/ add_tracker(list, a) = insert(list, a)
      \/ add_tracker(list, a) = list
      \/ i # 0 /\ add_tracker(list, a) = erase_announce(insert(list, a), list[i])
  BY Zenon DEF add_tracker
<1> HIDE DEF i
<1>6. ASSUME i # 0 PROVE WellFormed(erase_announce(insert(list, a), list[i]))
  BY <1>3, <1>4, <1>6, EraseAnnounceKeepsTiers
<1> QED
  BY <1>3, <1>5, <1>6

(* ... and removing a url keeps them.                                      *)
LEMMA RemoveTrackerFormed ==
    ASSUME NEW list, WellFormed(list), NEW url \in Nat
    PROVE  WellFormed(remove_tracker(list, url))
<1> DEFINE i == find(list, url)
<1>1. list \in Seq(AnnounceUrls)
  BY DEF WellFormed
<1>2. i # 0 => i \in 1 .. Len(list)
  BY <1>1, FindFacts
<1>3. remove_tracker(list, url) = IF i = 0 THEN list ELSE erase(list, i)
  BY DEF remove_tracker
<1> HIDE DEF i
<1> QED
  BY <1>2, <1>3, EraseKeepsTiers

(* Behind TrackersWellFormed: what metafile keeps of its trackers.         *)
TrackInv ==
    /\ "announce_list_" \in DOMAIN m
    /\ WellFormed(List)
    /\ part # "list" => UniqueUrls(List)
    /\ part = "announce" => file \in AnnounceFiles

(* A new metafile has no trackers.                                         *)
LEMMA TrackInit == Init => TrackInv
<1> SUFFICES ASSUME Init PROVE TrackInv
  OBVIOUS
<1>1. "announce_list_" \in DOMAIN m /\ m.announce_list_ = <<>>
  BY DEF Init, metafile
<1>2. part = "announce" => file \in AnnounceFiles
  BY DEF Init
<1> QED
  BY <1>1, <1>2, EmptyList DEF TrackInv, List

(* A step that sets the list of trackers.                                  *)
LEMMA SetTrackersKeeps ==
    ASSUME TrackInv, OnTrackers, NEW l, WellFormed(l), part # "list" => UniqueUrls(l), SetTrackers(l)
    PROVE  TrackInv'
<1>1. m' = [m EXCEPT !.announce_list_ = l] /\ part' = part
  BY DEF SetTrackers, Edit
<1>2. "announce_list_" \in DOMAIN m' /\ m'.announce_list_ = l
  BY <1>1 DEF TrackInv
<1>3. part # "announce"
  BY DEF OnTrackers
<1> QED
  BY <1>1, <1>2, <1>3 DEF TrackInv, List

(* A step that leaves the list alone.                                      *)
KeepsList ==
    /\ DOMAIN m' = DOMAIN m /\ m'.announce_list_ = m.announce_list_
    /\ part' = part /\ part # "announce"

(* Such a step keeps the invariant.                                        *)
LEMMA KeepsListKeeps == TrackInv /\ KeepsList => TrackInv'
  BY DEF TrackInv, KeepsList, List

(* The tracker operations of metafile and of the list behind trackers().   *)
LEMMA TrackerStepKeeps == TrackInv /\ TrackerStep => TrackInv'
<1> SUFFICES ASSUME TrackInv, TrackerStep PROVE TrackInv'
  OBVIOUS
<1>1. TrackerUrls \subseteq Nat /\ MaxAnnounces \in Nat
  BY TorrentAssumption
<1>2. ASSUME NEW url \in TrackerUrls, NEW tier \in 0 .. MaxAnnounces
      PROVE  announce_url(url, tier) \in AnnounceUrls
  BY <1>1 DEF announce_url, AnnounceUrls
<1>3. WellFormed(List) /\ (part # "list" => UniqueUrls(List))
  BY DEF TrackInv
<1>4. ASSUME NEW url \in TrackerUrls, NEW tier \in 0 .. MaxAnnounces, AddTracker(url, tier) PROVE TrackInv'
  <2> DEFINE a == announce_url(url, tier)
             l == add_tracker(List, a)
  <2>1. a \in AnnounceUrls /\ CanInsert(List, a) /\ OnTrackers /\ SetTrackers(l)
    BY <1>2, <1>4 DEF AddTracker
  <2> HIDE DEF a
  <2>2. WellFormed(l)
    BY <1>3, <2>1, AddTrackerFormed
  <2>3. part # "list" => UniqueUrls(l)
    BY <1>3, <2>1, AddTrackerKeeps
  <2> HIDE DEF l
  <2> QED
    BY <2>1, <2>2, <2>3, SetTrackersKeeps
<1>5. ASSUME NEW url \in TrackerUrls, RemoveTracker(url) PROVE TrackInv'
  <2> DEFINE l == remove_tracker(List, url)
  <2>1. url \in Nat /\ OnTrackers /\ SetTrackers(l)
    BY <1>1, <1>5 DEF RemoveTracker
  <2>2. WellFormed(l)
    BY <1>3, <2>1, RemoveTrackerFormed
  <2>3. part # "list" => UniqueUrls(l)
    BY <1>3, <2>1, RemoveTrackerKeeps
  <2> HIDE DEF l
  <2> QED
    BY <2>1, <2>2, <2>3, SetTrackersKeeps
<1>6. ASSUME NEW url \in TrackerUrls, NEW tier \in 0 .. MaxAnnounces, RemoveAnnounce(url, tier) PROVE TrackInv'
  <2> DEFINE a == announce_url(url, tier)
             l == erase_announce(List, a)
  <2>1. a \in AnnounceUrls /\ OnTrackers /\ SetTrackers(l)
    BY <1>2, <1>6 DEF RemoveAnnounce
  <2> HIDE DEF a
  <2>2. WellFormed(l)
    BY <1>3, <2>1, EraseAnnounceKeepsTiers
  <2>3. part # "list" => UniqueUrls(l)
    BY <1>3, <2>1, EraseAnnounceUnique
  <2> HIDE DEF l
  <2> QED
    BY <2>1, <2>2, <2>3, SetTrackersKeeps
<1>7. ASSUME ClearTrackers PROVE TrackInv'
  <2>1. OnTrackers /\ SetTrackers(<<>>)
    BY <1>7 DEF ClearTrackers
  <2> QED
    BY <2>1, EmptyList, SetTrackersKeeps
<1>8. ASSUME NEW url \in TrackerUrls, NEW tier \in 0 .. MaxAnnounces, ListInsert(url, tier) PROVE TrackInv'
  <2> DEFINE a == announce_url(url, tier)
             l == insert(List, a)
  <2>1. a \in AnnounceUrls /\ CanInsert(List, a) /\ part = "list" /\ SetTrackers(l)
    BY <1>2, <1>8 DEF ListInsert
  <2>2. OnTrackers
    BY <2>1 DEF OnTrackers
  <2> HIDE DEF a
  <2>3. WellFormed(l)
    BY <1>3, <2>1, InsertKeepsTiers
  <2> HIDE DEF l
  <2> QED
    BY <2>1, <2>2, <2>3, SetTrackersKeeps
<1>9. ASSUME NEW flag \in BOOLEAN, EnableCrossSeeding(flag) PROVE TrackInv'
  <2>1. m' = [m EXCEPT !.enable_cross_seeding_ = flag] /\ part' = part /\ part = "trackers"
    BY <1>9 DEF EnableCrossSeeding, Edit
  <2>2. KeepsList
    BY <2>1 DEF KeepsList, TrackInv
  <2> QED
    BY <2>2, KeepsListKeeps
<1> QED
  BY <1>4, <1>5, <1>6, <1>7, <1>8, <1>9 DEF TrackerStep

(* Edits of the storage.                                                   *)
LEMMA SetStorageKeeps ==
    ASSUME TrackInv, NEW s, NEW f, NEW b, SetStorage(s, f, b)
    PROVE  TrackInv'
<1>1. m' = [m EXCEPT !.storage_ = s] /\ part' = part /\ part = "storage"
  BY DEF SetStorage, Edit
<1>2. KeepsList
  BY <1>1 DEF KeepsList, TrackInv
<1> QED
  BY <1>2, KeepsListKeeps

(* None of them touches the trackers.                                      *)
LEMMA StorageStepKeeps == TrackInv /\ StorageStep => TrackInv'
<1> SUFFICES ASSUME TrackInv, StorageStep PROVE TrackInv'
  OBVIOUS
<1>1. \E s, f, b : SetStorage(s, f, b)
  BY Zenon DEF StorageStep, AddFile, RemoveFile, ClearFiles, SetFileMode, SetPieceSize, Align,
     ListDirectory, AssignSample, Copy, Hash
<1> QED
  BY <1>1, SetStorageKeeps

(* Edits of the other fields.                                              *)
LEMMA FieldStepLeaves ==
    ASSUME "announce_list_" \in DOMAIN m, FieldStep
    PROVE  DOMAIN m' = DOMAIN m /\ List' = List /\ part' = part /\ part = "fields"
<1>0. "announce_list_" \in DOMAIN m
  OBVIOUS
<1> DEFINE Other(mm) == DOMAIN mm = DOMAIN m /\ mm.announce_list_ = m.announce_list_
           Step == \E mm : SetField(mm) /\ Other(mm)
<1>1. ASSUME NEW x, SetText(x) PROVE Step
  <2>1. /\ Other([m EXCEPT !.comment_ = x]) /\ Other([m EXCEPT !.created_by_ = x])
        /\ Other([m EXCEPT !.creation_date_ = x]) /\ Other([m EXCEPT !.source_ = x])
        /\ Other([m EXCEPT !.name_ = x])
    BY <1>0
  <2> HIDE DEF Other
  <2> QED
    BY <1>1, <2>1, Zenon DEF SetText
<1>2. ASSUME NEW x, AddValue(x) PROVE Step
  <2>1. /\ Other([m EXCEPT !.http_seeds_ = AddOnce(@, x)])
        /\ Other([m EXCEPT !.web_seeds_ = AddOnce(@, x)])
        /\ Other([m EXCEPT !.dht_nodes_ = AddOnce(@, <<x, 1>>)])
        /\ Other([m EXCEPT !.collections_ = @ \cup {x}])
    BY <1>0
  <2>2. ASSUME NEW v PROVE Other([m EXCEPT !.similar_torrents_ = @ \cup {info_hash(v, x)}])
    BY <1>0
  <2> HIDE DEF Other
  <2> QED
    BY <1>2, <2>1, <2>2, Zenon DEF AddValue
<1>3. ASSUME NEW x, RemoveValue(x) PROVE Step
  <2>1. /\ Other([m EXCEPT !.http_seeds_ = RemoveOnce(@, x)])
        /\ Other([m EXCEPT !.web_seeds_ = RemoveOnce(@, x)])
        /\ Other([m EXCEPT !.dht_nodes_ = RemoveOnce(@, <<x, 1>>)])
        /\ Other([m EXCEPT !.collections_ = @ \ {x}])
    BY <1>0
  <2>2. ASSUME NEW v PROVE Other([m EXCEPT !.similar_torrents_ = @ \ {info_hash(v, x)}])
    BY <1>0
  <2> HIDE DEF Other
  <2> QED
    BY <1>3, <2>1, <2>2, Zenon DEF RemoveValue
<1>4. ASSUME ClearValues PROVE Step
  <2>1. Other([m EXCEPT !.http_seeds_ = <<>>, !.web_seeds_ = <<>>, !.dht_nodes_ = <<>>,
                       !.collections_ = {}, !.similar_torrents_ = {}])
    BY <1>0
  <2> HIDE DEF Other
  <2> QED
    BY <1>4, <2>1, Zenon DEF ClearValues
<1>5. ASSUME NEW flag, SetField([m EXCEPT !.private_ = flag]) PROVE Step
  <2>1. Other([m EXCEPT !.private_ = flag])
    BY <1>0
  <2> HIDE DEF Other
  <2> QED
    BY <1>5, <2>1, Zenon
<1> HIDE DEF Step
<1>6. Step
  BY <1>1, <1>2, <1>3, <1>4, <1>5, Zenon DEF FieldStep
<1> QED
  BY <1>6 DEF Step, SetField, Edit, List

(* So they keep the invariant.                                             *)
LEMMA FieldStepKeeps == TrackInv /\ FieldStep => TrackInv'
<1> SUFFICES ASSUME TrackInv, FieldStep PROVE TrackInv'
  OBVIOUS
<1>1. KeepsList
  BY FieldStepLeaves DEF KeepsList, TrackInv, List
<1> QED
  BY <1>1, KeepsListKeeps

(* Reading a file.                                                         *)
LEMMA LoadKeeps ==
    ASSUME NEW d, NEW f, Load(d, f), TiersIn(d) \in Seq(Seq(Nat)), AnnounceIn(d) \in SUBSET Nat,
           part = "announce" => d \in AnnounceFiles
    PROVE  TrackInv'
<1>1. m' = parse_metafile(d) /\ file' = d /\ part' = part
  BY DEF Load
<1>2. WellFormed(parse_announce(d)) /\ UniqueUrls(parse_announce(d))
  BY ParseFacts
<1>3. "announce_list_" \in DOMAIN m' /\ m'.announce_list_ = parse_announce(d)
  BY <1>1, ParsedList
<1> QED
  BY <1>1, <1>2, <1>3 DEF TrackInv, List

(* Every step keeps the invariant: one case for each kind of step.         *)
LEMMA TrackNext == TrackInv /\ [Next]_vars => TrackInv'
<1> SUFFICES ASSUME TrackInv, [Next]_vars PROVE TrackInv'
  OBVIOUS
<1>1. CASE TrackerStep
  BY <1>1, TrackerStepKeeps
<1>2. CASE StorageStep
  BY <1>2, StorageStepKeeps
<1>3. CASE FieldStep
  BY <1>3, FieldStepKeeps
<1>4. CASE MagnetStep
  <2>1. \E x : SetMagnet(x)
    BY <1>4, Zenon DEF MagnetStep, AddParam, SetSize, Reparse, MakeMagnet
  <2>2. UNCHANGED <<part, m, file>>
    BY <2>1 DEF SetMagnet
  <2> QED
    BY <2>2 DEF TrackInv, List
<1>5. CASE LoadAnnounce
  <2>1. Load(file, {}) /\ part = "announce"
    BY <1>5 DEF LoadAnnounce
  <2>2. file \in AnnounceFiles
    BY <2>1 DEF TrackInv
  <2> QED
    BY <2>1, <2>2, AnnounceFileFacts, LoadKeeps
<1>6. ASSUME NEW version \in Versions, SaveAndLoad(version) PROVE TrackInv'
  <2> DEFINE w == write_metafile(m, version)
  <2>0. PICK d \in FilesLike(w) : \E f : Load(d, f)
    BY <1>6, Zenon DEF SaveAndLoad
  <2>1. PICK f : Load(d, f)
    BY <2>0
  <2>2. part # "announce"
    BY <1>6 DEF SaveAndLoad
  <2>3. Same(d, w)
    BY <2>1, LikeFacts
  <2>4. ~BadAccess(d, AnnounceKeys)
    BY <2>1, FailsOnAccess DEF Load
  <2>5. WellFormed(m.announce_list_)
    BY DEF TrackInv, List
  <2>6. TiersIn(d) \in Seq(Seq(Nat)) /\ AnnounceIn(d) \in SUBSET Nat
    BY <2>3, <2>4, <2>5, LikeTiers
  <2> QED
    BY <2>1, <2>2, <2>6, LoadKeeps
<1>7. CASE UNCHANGED vars
  BY <1>7 DEF vars, TrackInv, List
<1> QED
  BY <1>1, <1>2, <1>3, <1>4, <1>5, <1>6, <1>7 DEF Next

(* TrackInv is an invariant of the client.                                 *)
LEMMA TrackInvariant == Spec => []TrackInv
  BY TrackInit, TrackNext, PTL DEF Spec

(* announce_url_list: whatever a client does with the trackers of a metafile, *)
(* and whatever file it loads, the list stays ordered by tier and url, its *)
(* tiers are numbered without gaps, and through metafile alone no url is   *)
(* there twice.                                                            *)
THEOREM TrackersStayWellFormed == Spec => []TrackersWellFormed
<1>1. TrackInv => TrackersWellFormed
  BY DEF TrackInv, WellFormed, TrackersWellFormed
<1> QED
  BY <1>1, TrackInvariant, PTL

-----------------------------------------------------------------------------
(* Reading what was written.                                               *)

(* A list without double urls is a row that add_tracker can read.          *)
LEMMA ListGradual ==
    ASSUME NEW list, WellFormed(list), UniqueUrls(list) PROVE Gradual(list)
<1>1. list \in Seq(AnnounceUrls)
  BY DEF WellFormed
<1>2. \A i, j \in 1 .. Len(list) : list[i].url = list[j].url => i = j
  BY <1>1, UniqueDef
<1> QED
  BY <1>1, <1>2, ListClimbs DEF Gradual

(* parse_announce adds such a row one by one; no contract fails, and a row *)
(* in order is the list.                                                   *)
LEMMA AddAllOfRow ==
    ASSUME NEW tiers \in Seq(Seq(Nat)), Gradual(Announces(tiers))
    PROVE  \E list : /\ AddAll(tiers) = Fine(list)
                     /\ WellFormed(list) /\ UniqueUrls(list) /\ EntrySet(list) = EntrySet(Announces(tiers))
                     /\ Sorted(Announces(tiers)) => list = Announces(tiers)
<1>1. Announces(tiers) \in Seq(AnnounceUrls)
  BY RowOfTiers
<1>2. AddAll(tiers) = ReadAll(Fine(<<>>), Announces(tiers))
  BY AddAllIsFold DEF Fine
<1> QED
  BY <1>1, <1>2, ReadGradual

(* What make_bvalue_common writes of the trackers, parse_announce reads.   *)
LEMMA RoundTrip ==
    ASSUME NEW mm, WellFormed(mm.announce_list_), UniqueUrls(mm.announce_list_),
           NEW d, d = make_bvalue_common(mm)
    PROVE  ~AnnounceFails(d) /\ parse_announce(d) = mm.announce_list_
<1>1. PICK list : list = mm.announce_list_
  OBVIOUS
<1>2. WellFormed(list) /\ UniqueUrls(list) /\ list \in Seq(AnnounceUrls) /\ Sorted(list)
  BY <1>1 DEF WellFormed
<1>3. /\ \A k \in AnnounceKeys : k \in DOMAIN d <=> list # <<>>
      /\ list # <<>> => d["announce-list"] = Tiers(list) /\ d["announce"] = Head(list).url
  BY <1>1, CommonKeys
<1>4. "announce" \in AnnounceKeys /\ "announce-list" \in AnnounceKeys
  BY DEF AnnounceKeys
<1>5. Tiers(list) \in Seq(Seq(Nat)) /\ Announces(Tiers(list)) = list
  BY <1>2, TiersOfList
<1>6. Get(d, "announce-list", <<>>) = Tiers(list)
  <2>1. CASE list = <<>>
    <3>1. Tiers(list) = <<>>
      BY <2>1, Zenon DEF Tiers
    <3>2. "announce-list" \notin DOMAIN d
      BY <1>3, <1>4, <2>1
    <3> QED
      BY <3>1, <3>2 DEF Get, Has
  <2>2. CASE list # <<>>
    BY <1>3, <1>4, <2>2 DEF Get, Has
  <2> QED
    BY <2>1, <2>2
<1>7. AddAll(Tiers(list)) = Fine(list)
  <2>1. Gradual(list)
    BY <1>2, ListGradual
  <2>2. PICK l : AddAll(Tiers(list)) = Fine(l) /\ (Sorted(Announces(Tiers(list))) => l = Announces(Tiers(list)))
    BY <1>5, <2>1, AddAllOfRow
  <2> QED
    BY <1>2, <1>5, <2>2
<1>8. AddAll(Get(d, "announce-list", <<>>)).ok /\ AddAll(Get(d, "announce-list", <<>>)).list = list
  BY <1>6, <1>7 DEF Fine
<1>9. list # <<>> => Head(list).url \in UrlSet(list) /\ Head(list).url \in Nat
  <2>1. ASSUME list # <<>> PROVE Head(list) = list[1] /\ 1 \in 1 .. Len(list)
    BY <1>2, <2>1
  <2> QED
    BY <1>2, <2>1, EntryTypes DEF UrlSet
<1>10. ~BadAccess(d, AnnounceKeys)
  <2>1. \A k \in AnnounceKeys : k \in DOMAIN d => d[k] # Mistyped
    BY <1>3, <1>4, <1>5, <1>9, TorrentAssumption DEF AnnounceKeys
  <2> QED
    BY <2>1 DEF BadAccess, Has
<1>11. ~AnnounceFails(d)
  BY <1>8, <1>10 DEF AnnounceFails, AnnounceKeys
<1>12. ~Has(d, "announce") \/ contains(list, d["announce"])
  <2>1. ASSUME "announce" \in DOMAIN d PROVE d["announce"] \in UrlSet(list)
    BY <1>3, <1>4, <1>9, <2>1
  <2> QED
    BY <1>2, <2>1, ContainsFacts DEF Has
<1>13. parse_announce(d) = list
  BY <1>8, <1>12, ParseIsFold
<1> QED
  BY <1>1, <1>11, <1>13

(* The first half of TrackersRead.                                         *)
LEMMA TrackersAreReadBack == TrackInv => TrackersRoundTrip
<1> SUFFICES ASSUME TrackInv, UniqueUrls(List)
             PROVE  ~AnnounceFails(make_bvalue_common(m)) /\ parse_announce(make_bvalue_common(m)) = List
  BY DEF TrackersRoundTrip
<1>1. WellFormed(m.announce_list_) /\ UniqueUrls(m.announce_list_)
  BY DEF TrackInv, List
<1> QED
  BY <1>1, RoundTrip DEF List

-----------------------------------------------------------------------------
(* Reading what others have written.                                       *)

(* The urls of a list as a set, told in two ways.                          *)
LEMMA UrlsAsSet ==
    ASSUME NEW list \in Seq(AnnounceUrls) PROVE ToSet(Urls(list)) = UrlSet(list)
<1>1. DOMAIN list = 1 .. Len(list)
  OBVIOUS
<1>2. DOMAIN Urls(list) = 1 .. Len(list) /\ \A i \in 1 .. Len(list) : Urls(list)[i] = list[i].url
  BY <1>1 DEF Urls
<1> QED
  BY <1>2 DEF ToSet, UrlSet

(* The urls of a file's announce-list are those of its row.                *)
LEMMA RowUrls ==
    ASSUME NEW tiers \in Seq(Seq(Nat)) PROVE UrlSet(Announces(tiers)) = ToSet(FlattenSeq(tiers))
<1>1. PICK all : all = FlattenSeq(tiers)
  OBVIOUS
<1>2. PICK es : es = Announces(tiers)
  OBVIOUS
<1>3. all \in Seq(Nat) /\ Len(es) = Len(all) /\ \A i \in 1 .. Len(all) : es[i].url = all[i]
  BY <1>1, <1>2, RowOfTiers
<1>4. DOMAIN all = 1 .. Len(all)
  BY <1>3
<1>5. UrlSet(es) = ToSet(all)
  BY <1>3, <1>4 DEF UrlSet, ToSet
<1> QED
  BY <1>1, <1>2, <1>5

(* What as_nested_vector shows of a list, as sets; a list whose first n    *)
(* tiers, and no others, have the urls in the sets T.                      *)
Nested(list) == [t \in 1 .. tier_count(list) |-> ToSet(as_nested_vector(list)[t])]
InTiers(list, n, T) ==
    \A e : e \in EntrySet(list) <=> \E t \in 1 .. n : \E v \in T[t] : e = announce_url(v, t - 1)

(* as_nested_vector shows just these tiers.                                *)
LEMMA NestedFacts ==
    ASSUME NEW list, WellFormed(list), NEW n \in Nat, NEW T, T \in [1 .. n -> SUBSET Nat],
           \A t \in 1 .. n : T[t] # {},
           InTiers(list, n, T)
    PROVE  Nested(list) = T
<1>0. \A e : e \in EntrySet(list) <=> \E t \in 1 .. n : \E v \in T[t] : e = announce_url(v, t - 1)
  BY Zenon DEF InTiers
<1>1. tier_count(list) = n
  <2>1. CASE n = 0
    <3>1. EntrySet(list) = {}
      BY <1>0, <2>1
    <3>2. list \in Seq(AnnounceUrls)
      BY DEF WellFormed
    <3>3. list = <<>>
      <4>1. ASSUME Len(list) > 0 PROVE FALSE
        <5>1. 1 \in 1 .. Len(list)
          BY <3>2, <4>1
        <5> QED
          BY <3>1, <5>1 DEF EntrySet
      <4> QED
        BY <3>2, <4>1
    <3> QED
      BY <2>1, <3>3 DEF tier_count
  <2>2. CASE n > 0
    <3>1. \A e \in EntrySet(list) : e.tier <= n - 1
      <4>1. ASSUME NEW e \in EntrySet(list) PROVE e.tier <= n - 1
        <5>1. PICK t \in 1 .. n : \E v \in T[t] : e = announce_url(v, t - 1)
          BY <1>0
        <5>2. e.tier = t - 1
          BY <5>1, AnnounceFields
        <5> QED
          BY <5>2
      <4> QED
        BY <4>1
    <3>2. \E e \in EntrySet(list) : e.tier = n - 1
      <4>1. PICK v : v \in T[n]
        BY <2>2
      <4>2. announce_url(v, n - 1) \in EntrySet(list)
        BY <1>0, <2>2, <4>1
      <4> QED
        BY <4>2, AnnounceFields
    <3>3. n - 1 \in Nat /\ n = n - 1 + 1
      BY <2>2
    <3> QED
      BY <3>1, <3>2, <3>3, TierCountOf
  <2> QED
    BY <2>1, <2>2
<1>2. ASSUME NEW t \in 1 .. n PROVE ToSet(as_nested_vector(list)[t]) = T[t]
  <2>1. as_nested_vector(list)[t] = Urls(get_tier(list, t - 1))
    BY <1>1 DEF as_nested_vector
  <2>2. t - 1 \in Nat
    OBVIOUS
  <2>3. PICK g : g = get_tier(list, t - 1)
    OBVIOUS
  <2>4. g \in Seq(AnnounceUrls) /\ EntrySet(g) = {a \in EntrySet(list) : a.tier = t - 1}
    BY <2>2, <2>3, TierEntries
  <2>5. ToSet(Urls(g)) = {e.url : e \in EntrySet(g)}
    BY <2>4, UrlsAsSet, UrlsOfEntries
  <2>6. ASSUME NEW e \in EntrySet(g) PROVE e.url \in T[t]
    <3>1. e \in EntrySet(list) /\ e.tier = t - 1
      BY <2>4
    <3>2. PICK s \in 1 .. n : \E v \in T[s] : e = announce_url(v, s - 1)
      BY <1>0, <3>1
    <3>3. PICK v \in T[s] : e = announce_url(v, s - 1)
      BY <3>2
    <3>4. e.url = v /\ e.tier = s - 1
      BY <3>3, AnnounceFields
    <3>5. s = t
      BY <3>1, <3>4
    <3> QED
      BY <3>3, <3>4, <3>5
  <2>7. ASSUME NEW v \in T[t] PROVE \E e \in EntrySet(g) : v = e.url
    <3>1. PICK e : e = announce_url(v, t - 1)
      OBVIOUS
    <3>2. e \in EntrySet(list)
      BY <1>0, <3>1
    <3>3. e.url = v /\ e.tier = t - 1
      BY <3>1, AnnounceFields
    <3>4. e \in EntrySet(g)
      BY <2>4, <3>2, <3>3
    <3> QED
      BY <3>3, <3>4, Zenon
  <2>8. ToSet(Urls(g)) = T[t]
    <3>1. ASSUME NEW v \in ToSet(Urls(g)) PROVE v \in T[t]
      <4>1. PICK e \in EntrySet(g) : v = e.url
        BY <2>5, <3>1, Zenon
      <4> QED
        BY <2>6, <4>1, Zenon
    <3>2. ASSUME NEW v \in T[t] PROVE v \in ToSet(Urls(g))
      BY <2>5, <2>7, <3>2, Zenon
    <3> QED
      BY <3>1, <3>2, Zenon
  <2> QED
    BY <2>1, <2>3, <2>8
<1>3. PICK r : r = [t \in 1 .. tier_count(list) |-> ToSet(as_nested_vector(list)[t])]
  OBVIOUS
<1>4. DOMAIN r = 1 .. n /\ \A t \in 1 .. n : r[t] = T[t]
  BY <1>1, <1>2, <1>3
<1>5. r = [t \in 1 .. n |-> r[t]] /\ T = [t \in 1 .. n |-> T[t]]
  BY <1>1, <1>3
<1>6. r = T
  BY <1>4, <1>5
<1> QED
  BY <1>3, <1>6 DEF Nested

(* A row of tiers that are not empty, with no url twice.                   *)
LEMMA FileGradual ==
    ASSUME NEW tiers \in Seq(Seq(Nat)), \A t \in DOMAIN tiers : tiers[t] # <<>>, IsInjective(FlattenSeq(tiers))
    PROVE  Gradual(Announces(tiers))
<1>1. PICK all : all = FlattenSeq(tiers)
  OBVIOUS
<1>2. PICK es : es = Announces(tiers)
  OBVIOUS
<1>3. /\ all \in Seq(Nat) /\ es \in Seq(AnnounceUrls) /\ Len(es) = Len(all)
      /\ \A i \in 1 .. Len(all) : es[i].url = all[i]
  BY <1>1, <1>2, RowOfTiers
<1>4. \A i, j \in 1 .. Len(all) : all[i] = all[j] => i = j
  <2>1. IsInjective(all) /\ DOMAIN all = 1 .. Len(all)
    BY <1>1, <1>3
  <2> QED
    BY <2>1, Zenon DEF IsInjective
<1>5. UniqueUrls(es)
  BY <1>3, <1>4, UniqueDef
<1>6. DOMAIN tiers = 1 .. Len(tiers)
  OBVIOUS
<1>7. /\ es # <<>> => es[1].tier = 0
      /\ \A i \in 1 .. Len(es) - 1 : es[i + 1].tier \in {es[i].tier, es[i].tier + 1}
  BY <1>2, <1>6, RowClimbs
<1> QED
  BY <1>2, <1>5, <1>7 DEF Gradual

(* The urls of the tiers, as sets.                                         *)
UrlSets(tiers) == [t \in DOMAIN tiers |-> ToSet(tiers[t])]

(* They are sets of urls, and name the entries of the row.                 *)
LEMMA UrlSetsFacts ==
    ASSUME NEW tiers \in Seq(Seq(Nat))
    PROVE  /\ UrlSets(tiers) \in [1 .. Len(tiers) -> SUBSET Nat]
           /\ UrlSets(tiers) \in Seq(SUBSET Nat) /\ Len(UrlSets(tiers)) = Len(tiers)
           /\ \A t \in 1 .. Len(tiers) : tiers[t] # <<>> => UrlSets(tiers)[t] # {}
           /\ \A l : (\A e : e \in EntrySet(l) <=> Named(tiers, Len(tiers), e)) =>
                  InTiers(l, Len(tiers), UrlSets(tiers))
<1>1. DOMAIN tiers = 1 .. Len(tiers) /\ Len(tiers) \in Nat
  OBVIOUS
<1>2. ASSUME NEW t \in 1 .. Len(tiers)
      PROVE  /\ tiers[t] \in Seq(Nat) /\ UrlSets(tiers)[t] = {tiers[t][i] : i \in 1 .. Len(tiers[t])}
             /\ UrlSets(tiers)[t] \in SUBSET Nat /\ (tiers[t] # <<>> => UrlSets(tiers)[t] # {})
  <2>1. PICK s : s = tiers[t]
    OBVIOUS
  <2>2. s \in Seq(Nat)
    BY <2>1
  <2>3. UrlSets(tiers)[t] = ToSet(s)
    BY <1>1, <2>1 DEF UrlSets
  <2>4. ToSet(s) = {s[i] : i \in 1 .. Len(s)}
    BY <2>2 DEF ToSet
  <2>5. \A i \in 1 .. Len(s) : s[i] \in Nat
    BY <2>2
  <2>6. ASSUME s # <<>> PROVE 1 \in 1 .. Len(s)
    BY <2>2, <2>6
  <2>7. UrlSets(tiers)[t] = {s[i] : i \in 1 .. Len(s)}
    BY <2>3, <2>4
  <2>8. UrlSets(tiers)[t] \in SUBSET Nat
    BY <2>5, <2>7
  <2>9. ASSUME s # <<>> PROVE UrlSets(tiers)[t] # {}
    BY <2>6, <2>7, <2>9
  <2> QED
    BY <2>1, <2>2, <2>7, <2>8, <2>9, Zenon
<1>3. PICK T : T = UrlSets(tiers)
  OBVIOUS
<1>4. T = [t \in 1 .. Len(tiers) |-> ToSet(tiers[t])]
  BY <1>1, <1>3 DEF UrlSets
<1>5. DOMAIN T = 1 .. Len(tiers) /\ \A t \in 1 .. Len(tiers) : T[t] \in SUBSET Nat
  BY <1>2, <1>3, <1>4
<1>6. T \in [1 .. Len(tiers) -> SUBSET Nat]
  BY <1>4, <1>5
<1>7. T \in Seq(SUBSET Nat) /\ Len(T) = Len(tiers)
  <2>1. PICK n \in Nat : n = Len(tiers)
    BY <1>1
  <2>2. PICK S : S = SUBSET Nat
    OBVIOUS
  <2>3. T \in [1 .. n -> S]
    BY <1>6, <2>1, <2>2
  <2>4. T \in Seq(S) /\ Len(T) = n
    BY <2>3
  <2> QED
    BY <2>1, <2>2, <2>4
<1>8. \A t \in 1 .. Len(tiers) : tiers[t] # <<>> => T[t] # {}
  BY <1>2, <1>3
<1>9. ASSUME NEW e
      PROVE  Named(tiers, Len(tiers), e) <=>
                 \E t \in 1 .. Len(tiers) : \E v \in T[t] : e = announce_url(v, t - 1)
  <2>1. ASSUME NEW t \in 1 .. Len(tiers)
        PROVE  (\E i \in 1 .. Len(tiers[t]) : e = announce_url(tiers[t][i], t - 1))
               <=> \E v \in T[t] : e = announce_url(v, t - 1)
    <3>1. T[t] = {tiers[t][i] : i \in 1 .. Len(tiers[t])}
      BY <1>2, <1>3
    <3> QED
      BY <3>1
  <2> QED
    BY <2>1, Zenon DEF Named
<1>10. ASSUME NEW l, \A e : e \in EntrySet(l) <=> Named(tiers, Len(tiers), e)
       PROVE  InTiers(l, Len(tiers), T)
  BY <1>9, <1>10, Zenon DEF InTiers
<1> QED
  BY <1>3, <1>6, <1>7, <1>8, <1>10

(* A sequence is a function.                                               *)
LEMMA SeqAsFunction ==
    ASSUME NEW S, NEW s \in Seq(S) PROVE s \in [1 .. Len(s) -> S]
  OBVIOUS

(* ... and with a tier before them.                                        *)
Preceded(x, T) == <<x>> \o T

(* The first of them is new ...                                            *)
LEMMA PrecededFacts ==
    ASSUME NEW S, NEW x \in S, NEW T \in Seq(S)
    PROVE  /\ Preceded(x, T) \in Seq(S) /\ Len(Preceded(x, T)) = Len(T) + 1
           /\ Preceded(x, T)[1] = x
  BY DEF Preceded

(* ... and the others are behind it.                                       *)
LEMMA PrecededAt ==
    ASSUME NEW S, NEW x \in S, NEW T \in Seq(S), NEW i \in 1 .. Len(T), NEW j, j = i + 1
    PROVE  Preceded(x, T)[j] = T[i]
  BY DEF Preceded

(* Both, as a function.                                                    *)
LEMMA BeforeTier ==
    ASSUME NEW S, NEW x \in S, NEW T \in Seq(S)
    PROVE  /\ Preceded(x, T) \in [1 .. Len(T) + 1 -> S] /\ Preceded(x, T)[1] = x
           /\ \A t \in 1 .. Len(T) : Preceded(x, T)[t + 1] = T[t]
<1>1. PICK k \in Nat : k = Len(T) + 1
  OBVIOUS
<1>2. Preceded(x, T) \in Seq(S) /\ Len(Preceded(x, T)) = k /\ Preceded(x, T)[1] = x
  BY <1>1, PrecededFacts
<1>3. Preceded(x, T) \in [1 .. k -> S]
  BY <1>2, SeqAsFunction
<1>4. ASSUME NEW t \in 1 .. Len(T) PROVE Preceded(x, T)[t + 1] = T[t]
  <2>1. PICK j : j = t + 1
    OBVIOUS
  <2>2. Preceded(x, T)[j] = T[t]
    BY <2>1, PrecededAt
  <2> QED
    BY <2>1, <2>2
<1> QED
  BY <1>1, <1>2, <1>3, <1>4

(* An announce of its own before the list has its tiers behind it.         *)
LEMMA BeforeEntries ==
    ASSUME NEW list \in Seq(AnnounceUrls), NEW u \in Nat, NEW n \in Nat, NEW T \in Seq(SUBSET Nat), Len(T) = n,
           InTiers(list, n, T), NEW R, R[1] = {u}, \A t \in 1 .. n : R[t + 1] = T[t]
    PROVE  InTiers(Before(u, list), n + 1, R)
<1>0. \A e : e \in EntrySet(list) <=> \E t \in 1 .. n : \E v \in T[t] : e = announce_url(v, t - 1)
  BY Zenon DEF InTiers
<1>1. PICK b : b = Before(u, list)
  OBVIOUS
<1>a. /\ Len(Before(u, list)) = Len(list) + 1 /\ Before(u, list)[1] = announce_url(u, 0)
      /\ \A i \in 1 .. Len(list) : Before(u, list)[i + 1] = announce_url(list[i].url, list[i].tier + 1)
  <2>1. ASSUME NEW i \in 1 .. Len(list)
        PROVE  Before(u, list)[i + 1] = announce_url(list[i].url, list[i].tier + 1)
    BY BeforeFacts, Zenon
  <2>2. Len(Before(u, list)) = Len(list) + 1 /\ Before(u, list)[1] = announce_url(u, 0)
    BY BeforeFacts, Zenon
  <2> QED
    BY <2>1, <2>2, Zenon
<1>2. /\ Len(b) = Len(list) + 1 /\ b[1] = announce_url(u, 0)
      /\ \A i \in 1 .. Len(list) : b[i + 1] = announce_url(list[i].url, list[i].tier + 1)
  BY <1>1, <1>a, ZenonT(30)
<1>3. R[1] = {u} /\ \A t \in 1 .. n : R[t + 1] = T[t]
  OBVIOUS
<1>4. ASSUME NEW e \in EntrySet(b)
      PROVE  \E t \in 1 .. n + 1 : \E v \in R[t] : e = announce_url(v, t - 1)
  <2>1. PICK i \in 1 .. Len(b) : e = b[i]
    BY <1>4 DEF EntrySet
  <2>2. CASE i = 1
    <3>1. 1 \in 1 .. n + 1 /\ u \in R[1] /\ 1 - 1 = 0
      BY <1>3
    <3>2. e = announce_url(u, 1 - 1)
      BY <1>2, <2>1, <2>2, <3>1
    <3> QED
      BY <3>1, <3>2
  <2>3. CASE i # 1
    <3>1. i - 1 \in 1 .. Len(list) /\ i = (i - 1) + 1
      BY <1>2, <2>1, <2>3
    <3>2. e = announce_url(list[i - 1].url, list[i - 1].tier + 1)
      BY <1>2, <2>1, <3>1
    <3>3. list[i - 1] \in EntrySet(list)
      BY <3>1 DEF EntrySet
    <3>4. PICK t \in 1 .. n : \E v \in T[t] : list[i - 1] = announce_url(v, t - 1)
      BY <1>0, <3>3
    <3>5. PICK v \in T[t] : list[i - 1] = announce_url(v, t - 1)
      BY <3>4
    <3>6. list[i - 1].url = v /\ list[i - 1].tier = t - 1
      BY <3>5, AnnounceFields
    <3>7. t + 1 \in 1 .. n + 1 /\ (t - 1) + 1 = (t + 1) - 1 /\ v \in R[t + 1]
      BY <1>3
    <3>8. e = announce_url(v, (t + 1) - 1)
      BY <3>2, <3>6, <3>7
    <3> QED
      BY <3>7, <3>8
  <2> QED
    BY <2>2, <2>3
<1>5. ASSUME NEW e, NEW t \in 1 .. n + 1, NEW v \in R[t], e = announce_url(v, t - 1)
      PROVE  e \in EntrySet(b)
  <2>1. CASE t = 1
    <3>1. v = u /\ t - 1 = 0 /\ 1 \in 1 .. Len(b)
      BY <1>2, <1>3, <1>5, <2>1
    <3> QED
      BY <1>2, <1>5, <3>1 DEF EntrySet
  <2>2. CASE t # 1
    <3>1. t - 1 \in 1 .. n /\ t = (t - 1) + 1 /\ t - 1 = ((t - 1) - 1) + 1
      BY <2>2
    <3>2. v \in T[t - 1]
      BY <1>3, <1>5, <3>1
    <3>3. announce_url(v, (t - 1) - 1) \in EntrySet(list)
      BY <1>0, <3>1, <3>2
    <3>4. PICK i \in 1 .. Len(list) : list[i] = announce_url(v, (t - 1) - 1)
      BY <3>3 DEF EntrySet
    <3>5. list[i].url = v /\ list[i].tier = (t - 1) - 1
      BY <3>4, AnnounceFields
    <3>6. b[i + 1] = announce_url(v, t - 1)
      BY <1>2, <3>1, <3>4, <3>5
    <3>7. i + 1 \in 1 .. Len(b)
      BY <1>2
    <3> QED
      BY <1>5, <3>6, <3>7 DEF EntrySet
  <2> QED
    BY <2>1, <2>2
<1> QED
  BY <1>1, <1>4, <1>5 DEF InTiers

(* The tiers of a file with no empty tier and no url twice are read as     *)
(* they are.                                                               *)
LEMMA ReadTiers ==
    ASSUME NEW tiers \in Seq(Seq(Nat)), \A t \in DOMAIN tiers : tiers[t] # <<>>, IsInjective(FlattenSeq(tiers))
    PROVE  \E l : /\ AddAll(tiers) = Fine(l) /\ WellFormed(l)
                  /\ UrlSet(l) = ToSet(FlattenSeq(tiers))
                  /\ InTiers(l, Len(tiers), UrlSets(tiers))
<1>1. PICK l : /\ AddAll(tiers) = Fine(l) /\ WellFormed(l)
               /\ EntrySet(l) = EntrySet(Announces(tiers))
  BY FileGradual, AddAllOfRow
<1>2. \A e : e \in EntrySet(l) <=> Named(tiers, Len(tiers), e)
  BY <1>1, RowOfTiers
<1>3. InTiers(l, Len(tiers), UrlSets(tiers))
  BY <1>2, UrlSetsFacts
<1>4. UrlSet(l) = ToSet(FlattenSeq(tiers))
  BY <1>1, UrlsOfEntries, RowUrls
<1> QED
  BY <1>1, <1>3, <1>4

(* What is seen of a list with the tiers of a file, and with an announce   *)
(* of its own before them.                                                 *)
LEMMA NestedOfTiers ==
    ASSUME NEW tiers \in Seq(Seq(Nat)), \A t \in DOMAIN tiers : tiers[t] # <<>>, NEW l, WellFormed(l),
           InTiers(l, Len(tiers), UrlSets(tiers))
    PROVE  /\ Nested(l) = UrlSets(tiers)
           /\ \A u \in Nat : Nested(Before(u, l)) = Preceded({u}, UrlSets(tiers))
<1>1. PICK n \in Nat : n = Len(tiers)
  OBVIOUS
<1>2. PICK T : T = UrlSets(tiers)
  OBVIOUS
<1>3. /\ T \in [1 .. n -> SUBSET Nat] /\ T \in Seq(SUBSET Nat) /\ Len(T) = n
      /\ \A t \in 1 .. n : T[t] # {}
  <2>1. DOMAIN tiers = 1 .. n
    BY <1>1
  <2>2. \A t \in 1 .. n : tiers[t] # <<>>
    BY <2>1, Zenon
  <2>3. /\ T \in [1 .. n -> SUBSET Nat] /\ T \in Seq(SUBSET Nat) /\ Len(T) = n
        /\ \A t \in 1 .. n : tiers[t] # <<>> => T[t] # {}
    BY <1>1, <1>2, UrlSetsFacts, Zenon
  <2> QED
    BY <2>2, <2>3, Zenon
<1>4. InTiers(l, n, T)
  BY <1>1, <1>2
<1>5. Nested(l) = T
  BY <1>3, <1>4, NestedFacts
<1>6. ASSUME NEW u \in Nat PROVE Nested(Before(u, l)) = Preceded({u}, T)
  <2>1. PICK S : S = SUBSET Nat
    OBVIOUS
  <2>2. PICK x : x = {u}
    OBVIOUS
  <2>3. x \in S /\ T \in Seq(S)
    BY <1>3, <2>1, <2>2
  <2>4. PICK R : R = Preceded(x, T)
    OBVIOUS
  <2>5. R \in [1 .. n + 1 -> S] /\ R[1] = x /\ \A t \in 1 .. n : R[t + 1] = T[t]
    <3>1. Preceded(x, T) \in [1 .. Len(T) + 1 -> S] /\ Preceded(x, T)[1] = x
      BY <2>3, BeforeTier
    <3>3. ASSUME NEW t \in 1 .. Len(T) PROVE Preceded(x, T)[t + 1] = T[t]
      BY <2>3, BeforeTier
    <3>2. Len(T) = n
      BY <1>3
    <3> QED
      BY <2>4, <3>1, <3>2, <3>3, Zenon
  <2>6. l \in Seq(AnnounceUrls)
    BY DEF WellFormed
  <2>7. R[1] = {u}
    BY <2>2, <2>5
  <2>8. InTiers(Before(u, l), n + 1, R)
    BY <1>3, <1>4, <2>5, <2>6, <2>7, BeforeEntries
  <2>9. WellFormed(Before(u, l))
    BY BeforeWellFormed
  <2>10. R \in [1 .. n + 1 -> SUBSET Nat] /\ \A t \in 1 .. n + 1 : R[t] # {}
    <3>1. ASSUME NEW t \in 1 .. n + 1, t # 1 PROVE R[t] # {}
      <4>1. t - 1 \in 1 .. n /\ t = (t - 1) + 1
        BY <3>1
      <4>2. R[t] = T[t - 1]
        BY <2>5, <4>1
      <4> QED
        BY <1>3, <4>1, <4>2
    <3>2. R[1] # {}
      BY <2>7
    <3>3. \A t \in 1 .. n + 1 : R[t] # {}
      BY <3>1, <3>2
    <3> QED
      BY <2>1, <2>5, <3>3
  <2>11. n + 1 \in Nat
    OBVIOUS
  <2>12. Nested(Before(u, l)) = R
    BY <2>8, <2>9, <2>10, <2>11, NestedFacts
  <2> QED
    BY <2>2, <2>4, <2>12
<1> QED
  BY <1>2, <1>5, <1>6

(* Both halves of AnnounceRead for a file f.                               *)
LEMMA FileIsRead ==
    ASSUME NEW f, Has(f, "announce-list"), NEW tiers \in Seq(Seq(Nat)), tiers = f["announce-list"],
           TiersIn(f) = tiers, AnnounceIn(f) \in SUBSET Nat,
           \A t \in DOMAIN tiers : tiers[t] # <<>>, IsInjective(FlattenSeq(tiers))
    PROVE  /\ ~AnnounceFails(f)
           /\ Nested(parse_announce(f)) =
                (IF Has(f, "announce") /\ ~Contains(FlattenSeq(tiers), f["announce"])
                 THEN <<{f["announce"]}>> ELSE <<>>) \o UrlSets(tiers)
<1>1. PICK l : /\ AddAll(tiers) = Fine(l) /\ WellFormed(l)
               /\ UrlSet(l) = ToSet(FlattenSeq(tiers))
               /\ InTiers(l, Len(tiers), UrlSets(tiers))
  BY ReadTiers
<1>2. Get(f, "announce-list", <<>>) = tiers
  BY DEF TiersIn
<1>3. AddAll(Get(f, "announce-list", <<>>)).ok /\ AddAll(Get(f, "announce-list", <<>>)).list = l
  BY <1>1, <1>2 DEF Fine
<1>4. Has(f, "announce") => f["announce"] \in Nat
  BY DEF AnnounceIn
<1>5. ~AnnounceFails(f)
  <2>1. ~BadAccess(f, {"announce", "announce-list"})
    BY <1>4, TorrentAssumption DEF BadAccess
  <2> QED
    BY <1>3, <2>1 DEF AnnounceFails
<1>6. PICK all : all = FlattenSeq(tiers)
  OBVIOUS
<1>7. all \in Seq(Nat)
  BY <1>6, RowOfTiers
<1>8. \A u : contains(l, u) <=> Contains(all, u)
  <2>1. \A u : contains(l, u) <=> u \in ToSet(all)
    BY <1>1, <1>6, ContainsFacts
  <2>2. DOMAIN all = 1 .. Len(all)
    BY <1>7
  <2> QED
    BY <2>1, <2>2 DEF ToSet, Contains
<1>9. Nested(l) = UrlSets(tiers) /\ \A u \in Nat : Nested(Before(u, l)) = Preceded({u}, UrlSets(tiers))
  BY <1>1, NestedOfTiers
<1>10. parse_announce(f) = IF ~Has(f, "announce") \/ contains(l, f["announce"]) THEN l
                           ELSE ShiftAll(<<announce_url(f["announce"], 0)>>, l)
  BY <1>3, ParseIsFold
<1>11. CASE Has(f, "announce") /\ ~Contains(all, f["announce"])
  <2>1. PICK u \in Nat : u = f["announce"]
    BY <1>4, <1>11
  <2>2. parse_announce(f) = ShiftAll(<<announce_url(u, 0)>>, l)
    BY <1>8, <1>10, <1>11, <2>1
  <2>3. parse_announce(f) = Before(u, l)
    BY <1>1, <2>2, ShiftIsBefore
  <2>4. Nested(parse_announce(f)) = <<{u}>> \o UrlSets(tiers)
    BY <1>9, <2>3, Zenon DEF Preceded
  <2> QED
    BY <1>5, <1>6, <1>11, <2>1, <2>4, Zenon
<1>12. CASE ~(Has(f, "announce") /\ ~Contains(all, f["announce"]))
  <2>1. parse_announce(f) = l
    BY <1>8, <1>10, <1>12
  <2>2. UrlSets(tiers) = <<>> \o UrlSets(tiers)
    <3>1. PICK T : T = UrlSets(tiers)
      OBVIOUS
    <3>2. T \in Seq(SUBSET Nat)
      BY <3>1, UrlSetsFacts
    <3>3. T = <<>> \o T
      BY <3>2
    <3> QED
      BY <3>1, <3>3
  <2>3. Nested(parse_announce(f)) = <<>> \o UrlSets(tiers)
    BY <1>9, <2>1, <2>2, Zenon
  <2> QED
    BY <1>5, <1>6, <1>12, <2>3, Zenon
<1> QED
  BY <1>11, <1>12

(* The second half of TrackersRead: files made elsewhere.                  *)
LEMMA AnnounceIsRead == TrackInv => AnnounceRead
<1> SUFFICES ASSUME TrackInv, part = "announce" PROVE AnnounceRead
  BY Zenon DEF AnnounceRead
<1>1. file \in AnnounceFiles
  BY DEF TrackInv
<1>2. /\ Has(file, "announce-list") /\ file["announce-list"] \in Seq(Seq(Nat))
      /\ TiersIn(file) = file["announce-list"] /\ AnnounceIn(file) \in SUBSET Nat
  BY <1>1, AnnounceFileFacts
<1>3. PICK tiers : tiers = file["announce-list"]
  OBVIOUS
<1>4. PICK list : list = parse_announce(file)
  OBVIOUS
<1>5. ASSUME \A t \in DOMAIN tiers : tiers[t] # <<>>, IsInjective(FlattenSeq(tiers))
      PROVE  /\ ~AnnounceFails(file)
             /\ [t \in 1 .. tier_count(list) |-> ToSet(as_nested_vector(list)[t])] =
                (IF Has(file, "announce") /\ ~Contains(FlattenSeq(tiers), file["announce"])
                 THEN <<{file["announce"]}>> ELSE <<>>)
                \o [t \in DOMAIN tiers |-> ToSet(tiers[t])]
  <2>1. /\ ~AnnounceFails(file)
        /\ Nested(parse_announce(file)) =
             (IF Has(file, "announce") /\ ~Contains(FlattenSeq(tiers), file["announce"])
              THEN <<{file["announce"]}>> ELSE <<>>) \o UrlSets(tiers)
    BY <1>2, <1>3, <1>5, FileIsRead, Zenon
  <2> QED
    BY <1>4, <2>1, Zenon DEF Nested, UrlSets
<1>6. ASSUME ~AnnounceFails(file)
      PROVE  /\ UniqueUrls(list) /\ Sorted(list) /\ NoGap(list)
             /\ ToSet(Urls(list)) =
                ToSet(FlattenSeq(tiers)) \cup (IF Has(file, "announce") THEN {file["announce"]} ELSE {})
  <2>1. AddAll(TiersIn(file)).ok
    BY <1>6 DEF AnnounceFails, TiersIn
  <2>2. /\ WellFormed(list) /\ UniqueUrls(list)
        /\ UrlSet(list) = UrlSet(Announces(tiers)) \cup AnnounceIn(file)
    BY <1>2, <1>3, <1>4, <2>1, ParseFacts
  <2>3. ToSet(Urls(list)) = UrlSet(list)
    BY <2>2, UrlsAsSet DEF WellFormed
  <2>4. UrlSet(Announces(tiers)) = ToSet(FlattenSeq(tiers))
    BY <1>2, <1>3, RowUrls
  <2> QED
    BY <2>2, <2>3, <2>4, Zenon DEF WellFormed, AnnounceIn
<1> QED
  BY <1>3, <1>4, <1>5, <1>6, Zenon DEF AnnounceRead

(* make_bvalue_common, parse_announce: a list without double urls is read  *)
(* back as it was written; of a file made elsewhere with no empty tier and *)
(* no url twice, every tier is kept, an announce of its own before them;   *)
(* and whenever reading succeeds no url is lost or doubled.                *)
THEOREM TrackersAreRead == Spec => []TrackersRead
<1>1. TrackInv => TrackersRead
  BY TrackersAreReadBack, AnnounceIsRead DEF TrackersRead
<1> QED
  BY <1>1, TrackInvariant, PTL

-----------------------------------------------------------------------------
(* The order of the tiers.                                                 *)

(* The tier that TierOf finds is that of the url's entry.                  *)
LEMMA TierOfEntry ==
    ASSUME NEW list \in Seq(AnnounceUrls), UniqueUrls(list), NEW e \in EntrySet(list)
    PROVE  TierOf(list, e.url) = e.tier
<1>1. PICK i \in 1 .. Len(list) : e = list[i]
  BY DEF EntrySet
<1>2. e.url \in Nat
  BY <1>1, EntryTypes
<1>3. PICK j : j = find(list, e.url)
  OBVIOUS
<1>4. j # 0
  BY <1>1, <1>2, <1>3, FindFacts
<1>5. j \in 1 .. Len(list) /\ list[j].url = e.url
  BY <1>2, <1>3, <1>4, FindFacts
<1>6. j = i
  BY <1>1, <1>5, UniqueDef
<1> QED
  BY <1>1, <1>3, <1>6 DEF TierOf

(* The urls that find finds are those in the list.                         *)
LEMMA ListedUrls ==
    ASSUME NEW list \in Seq(AnnounceUrls) PROVE Listed(list) = TrackerUrls \cap UrlSet(list)
<1>1. \A u \in TrackerUrls : u \in Nat
  BY TorrentAssumption
<1>2. ASSUME NEW u \in TrackerUrls PROVE find(list, u) # 0 <=> u \in UrlSet(list)
  <2>1. u \in Nat
    BY <1>1
  <2>2. find(list, u) # 0 => find(list, u) \in 1 .. Len(list) /\ list[find(list, u)].url = u
    BY <2>1, FindFacts
  <2>3. find(list, u) = 0 => \A i \in 1 .. Len(list) : list[i].url # u
    BY <2>1, FindFacts
  <2> QED
    BY <2>2, <2>3 DEF UrlSet
<1> QED
  BY <1>2 DEF Listed

(* Their tiers are numbers.                                                *)
LEMMA TierType ==
    ASSUME NEW list \in Seq(AnnounceUrls), NEW u \in Listed(list) PROVE TierOf(list, u) \in Nat
<1>1. u \in Nat /\ find(list, u) # 0
  BY TorrentAssumption DEF Listed
<1>2. find(list, u) \in 1 .. Len(list)
  BY <1>1, FindFacts
<1> QED
  BY <1>2, EntryTypes DEF TierOf

(* TierOrderKept of two lists.                                             *)
OrderKept(l1, l2, touched) ==
    \A u, v \in (Listed(l1) \cap Listed(l2)) \ {touched} :
        TierOf(l1, u) < TierOf(l1, v) <=> TierOf(l2, u) < TierOf(l2, v)
Changed(l1, l2) == (Listed(l1) \cup Listed(l2)) \ (Listed(l1) \cap Listed(l2))
Kept(l1, l2) ==
    \E touched \in IF Changed(l1, l2) = {} THEN TrackerUrls ELSE Changed(l1, l2) : OrderKept(l1, l2, touched)

(* One url is touched, and the others keep their order.                    *)
LEMMA KeptByOne ==
    ASSUME NEW l1, NEW l2, NEW url \in TrackerUrls, OrderKept(l1, l2, url),
           \A u \in TrackerUrls \ {url} : u \in Listed(l1) <=> u \in Listed(l2)
    PROVE  Kept(l1, l2)
<1>1. Changed(l1, l2) \subseteq {url}
  BY DEF Changed, Listed
<1>2. Changed(l1, l2) = {} \/ Changed(l1, l2) = {url}
  BY <1>1
<1> QED
  BY <1>2 DEF Kept

(* A list that stays as it is.                                             *)
LEMMA KeptUnchanged ==
    ASSUME NEW l1, NEW l2, l1 = l2, TrackerUrls # {} PROVE Kept(l1, l2)
<1>1. PICK url : url \in TrackerUrls
  OBVIOUS
<1>2. OrderKept(l1, l2, url)
  BY Zenon DEF OrderKept
<1> QED
  BY <1>1, <1>2, KeptByOne

(* Of the urls in both lists there is at most one.                         *)
LEMMA KeptByFew ==
    ASSUME NEW l1 \in Seq(AnnounceUrls), NEW l2 \in Seq(AnnounceUrls), TrackerUrls # {},
           \A u, v \in Listed(l1) \cap Listed(l2) : u = v
    PROVE  Kept(l1, l2)
<1>1. ASSUME NEW x PROVE OrderKept(l1, l2, x)
  <2>1. ASSUME NEW u \in (Listed(l1) \cap Listed(l2)) \ {x}, NEW v \in (Listed(l1) \cap Listed(l2)) \ {x}
        PROVE  TierOf(l1, u) < TierOf(l1, v) <=> TierOf(l2, u) < TierOf(l2, v)
    <3>1. u = v
      BY <2>1
    <3>2. TierOf(l1, u) \in Nat /\ TierOf(l2, u) \in Nat
      BY TierType
    <3> QED
      BY <3>1, <3>2
  <2> QED
    BY <2>1 DEF OrderKept
<1>2. \E x : x \in IF Changed(l1, l2) = {} THEN TrackerUrls ELSE Changed(l1, l2)
  OBVIOUS
<1> QED
  BY <1>1, <1>2 DEF Kept

(* A url of a list, by its entry.                                          *)
LEMMA ListedEntry ==
    ASSUME NEW list \in Seq(AnnounceUrls), UniqueUrls(list), NEW u \in Listed(list)
    PROVE  \E e \in EntrySet(list) : e.url = u /\ e.tier = TierOf(list, u) /\ e.tier \in Nat
<1>1. u \in UrlSet(list)
  BY ListedUrls
<1>2. PICK e \in EntrySet(list) : e.url = u
  BY <1>1, UrlsOfEntries
<1>3. TierOf(list, u) = e.tier
  BY <1>2, TierOfEntry
<1> QED
  BY <1>2, <1>3, TierType

(* insert leaves the others where they are.                                *)
LEMMA InsertKept ==
    ASSUME NEW list, WellFormed(list), UniqueUrls(list), NEW a \in AnnounceUrls, CanInsert(list, a),
           a.url \in TrackerUrls, UniqueUrls(insert(list, a))
    PROVE  Kept(list, insert(list, a))
<1>1. PICK l : l = insert(list, a)
  OBVIOUS
<1>2. WellFormed(l) /\ UniqueUrls(l) /\ list \in Seq(AnnounceUrls) /\ l \in Seq(AnnounceUrls)
  BY <1>1, InsertKeepsTiers DEF WellFormed
<1>3. EntrySet(l) = EntrySet(list) \cup {a}
  BY <1>1, InsertEntries
<1>4. ASSUME NEW u \in Listed(list) \cap Listed(l) PROVE TierOf(l, u) = TierOf(list, u)
  <2>1. PICK e \in EntrySet(list) : e.url = u /\ e.tier = TierOf(list, u)
    BY <1>2, ListedEntry
  <2>2. e \in EntrySet(l)
    BY <1>3
  <2> QED
    BY <1>2, <2>1, <2>2, TierOfEntry
<1>5. OrderKept(list, l, a.url)
  BY <1>4 DEF OrderKept
<1>6. UrlSet(l) = UrlSet(list) \cup {a.url}
  BY <1>3, UrlsOfEntries
<1>7. \A u \in TrackerUrls \ {a.url} : u \in Listed(list) <=> u \in Listed(l)
  BY <1>2, <1>6, ListedUrls
<1> QED
  BY <1>1, <1>5, <1>7, KeptByOne

(* erase moves the tiers behind an emptied one, and nothing overtakes.     *)
Shifted(gap, t, tier) == IF gap /\ tier > t THEN tier - 1 ELSE tier

(* Every other entry is still there, in its tier or one before.            *)
LEMMA EraseEntries ==
    ASSUME NEW list, WellFormed(list), NEW pos \in 1 .. Len(list)
    PROVE  \E gap \in BOOLEAN :
              \A i \in (1 .. Len(list)) \ {pos} :
                 /\ gap => list[i].tier # list[pos].tier
                 /\ \E e \in EntrySet(erase(list, pos)) :
                       e.url = list[i].url /\ e.tier = Shifted(gap, list[pos].tier, list[i].tier)
<1>1. PICK r : r = erase(list, pos)
  OBVIOUS
<1>2. list \in Seq(AnnounceUrls) /\ Sorted(list)
  BY DEF WellFormed
<1>0. PICK gap \in BOOLEAN :
              /\ erase(list, pos) \in Seq(AnnounceUrls)
              /\ Len(erase(list, pos)) = Len(list) - 1
              /\ \A i \in 1 .. pos - 1 : erase(list, pos)[i] = list[i]
              /\ \A i \in pos .. Len(list) - 1 :
                    /\ erase(list, pos)[i].url = list[i + 1].url
                    /\ erase(list, pos)[i].tier =
                          IF gap THEN list[i + 1].tier - 1 ELSE list[i + 1].tier
              /\ gap => /\ pos < Len(list)
                        /\ \A i \in 1 .. pos - 1 : list[i].tier < list[pos].tier
                        /\ \A i \in pos + 1 .. Len(list) : list[i].tier > list[pos].tier
              /\ ~gap /\ pos < Len(list) =>
                    \E i \in 1 .. Len(list) : i # pos /\ list[i].tier = list[pos].tier
  BY EraseShape, Zenon
<1>3. /\ Len(r) = Len(list) - 1
      /\ \A i \in 1 .. pos - 1 : r[i] = list[i]
      /\ \A i \in pos .. Len(list) - 1 :
            /\ r[i].url = list[i + 1].url
            /\ r[i].tier = IF gap THEN list[i + 1].tier - 1 ELSE list[i + 1].tier
      /\ gap => /\ pos < Len(list)
                /\ \A i \in 1 .. pos - 1 : list[i].tier < list[pos].tier
                /\ \A i \in pos + 1 .. Len(list) : list[i].tier > list[pos].tier
  BY <1>0, <1>1, Zenon
<1>4. \A i \in 1 .. Len(list) : list[i].tier \in Nat
  BY <1>2, EntryTypes
<1>5. ASSUME NEW i \in 1 .. Len(list), i # pos
      PROVE  /\ gap => list[i].tier # list[pos].tier
             /\ \E e \in EntrySet(r) : e.url = list[i].url /\ e.tier = Shifted(gap, list[pos].tier, list[i].tier)
  <2>1. CASE i < pos
    <3>1. i \in 1 .. pos - 1 /\ i \in 1 .. Len(r)
      BY <1>3, <2>1
    <3>2. r[i] = list[i] /\ r[i] \in EntrySet(r)
      BY <1>3, <3>1 DEF EntrySet
    <3>3. gap => list[i].tier < list[pos].tier
      BY <1>3, <3>1
    <3>4. Shifted(gap, list[pos].tier, list[i].tier) = list[i].tier
      BY <1>4, <3>3 DEF Shifted
    <3>5. gap => list[i].tier # list[pos].tier
      BY <1>4, <3>3
    <3> QED
      BY <3>2, <3>4, <3>5
  <2>2. CASE i > pos
    <3>1. i - 1 \in pos .. Len(list) - 1 /\ i = (i - 1) + 1 /\ i - 1 \in 1 .. Len(r) /\ i \in pos + 1 .. Len(list)
      BY <1>3, <2>2
    <3>2. /\ r[i - 1].url = list[i].url /\ r[i - 1] \in EntrySet(r)
          /\ r[i - 1].tier = IF gap THEN list[i].tier - 1 ELSE list[i].tier
      BY <1>3, <3>1 DEF EntrySet
    <3>3. gap => list[i].tier > list[pos].tier
      BY <1>3, <3>1
    <3>4. Shifted(gap, list[pos].tier, list[i].tier) = r[i - 1].tier
      BY <1>4, <3>2, <3>3 DEF Shifted
    <3>5. gap => list[i].tier # list[pos].tier
      BY <1>4, <3>3
    <3> QED
      BY <3>2, <3>4, <3>5
  <2> QED
    BY <1>5, <2>1, <2>2
<1> QED
  BY <1>1, <1>5

(* Tiers are shifted in order.                                             *)
LEMMA ShiftedOrder ==
    ASSUME NEW gap \in BOOLEAN, NEW t \in Nat, NEW x \in Nat, NEW y \in Nat, gap => x # t /\ y # t
    PROVE  x < y <=> Shifted(gap, t, x) < Shifted(gap, t, y)
  BY DEF Shifted

(* list is what there was, big has one of its urls twice at most, of which *)
(* the one at pos is erased.                                               *)
LEMMA EraseKept ==
    ASSUME NEW list, WellFormed(list), UniqueUrls(list), NEW big, WellFormed(big), NEW pos \in 1 .. Len(big),
           NEW url \in TrackerUrls, big[pos].url = url,
           EntrySet(list) \subseteq EntrySet(big), UrlSet(big) = UrlSet(list) \cup {url},
           UniqueUrls(erase(big, pos))
    PROVE  Kept(list, erase(big, pos))
<1>1. PICK l : l = erase(big, pos)
  OBVIOUS
<1>2. WellFormed(l) /\ UniqueUrls(l) /\ list \in Seq(AnnounceUrls) /\ l \in Seq(AnnounceUrls)
  BY <1>1, EraseKeepsTiers DEF WellFormed
<1>3. PICK gap \in BOOLEAN :
              \A i \in (1 .. Len(big)) \ {pos} :
                 /\ gap => big[i].tier # big[pos].tier
                 /\ \E e \in EntrySet(l) :
                       e.url = big[i].url /\ e.tier = Shifted(gap, big[pos].tier, big[i].tier)
  BY <1>1, EraseEntries
<1>4. big[pos].tier \in Nat
  BY EntryTypes DEF WellFormed
<1>5. ASSUME NEW u \in Listed(list), u # url
      PROVE  /\ TierOf(list, u) \in Nat /\ (gap => TierOf(list, u) # big[pos].tier)
             /\ u \in UrlSet(l)
             /\ TierOf(l, u) = Shifted(gap, big[pos].tier, TierOf(list, u))
  <2>1. PICK e \in EntrySet(list) : e.url = u /\ e.tier = TierOf(list, u) /\ e.tier \in Nat
    BY <1>2, ListedEntry
  <2>2. PICK i \in 1 .. Len(big) : big[i] = e
    BY <2>1 DEF EntrySet
  <2>3. i # pos
    BY <1>5, <2>1, <2>2
  <2>4. PICK f \in EntrySet(l) : f.url = u /\ f.tier = Shifted(gap, big[pos].tier, e.tier)
    BY <1>3, <2>1, <2>2, <2>3
  <2>5. gap => e.tier # big[pos].tier
    BY <1>3, <2>2, <2>3
  <2>6. TierOf(l, u) = f.tier
    BY <1>2, <2>4, TierOfEntry
  <2>7. u \in UrlSet(l)
    BY <2>4, UrlsOfEntries
  <2> QED
    BY <2>1, <2>4, <2>5, <2>6, <2>7
<1>6. OrderKept(list, l, url)
  <2>1. ASSUME NEW u \in (Listed(list) \cap Listed(l)) \ {url}, NEW v \in (Listed(list) \cap Listed(l)) \ {url}
        PROVE  TierOf(list, u) < TierOf(list, v) <=> TierOf(l, u) < TierOf(l, v)
    BY <1>4, <1>5, ShiftedOrder
  <2> QED
    BY <2>1 DEF OrderKept
<1>7. UrlSet(l) \subseteq UrlSet(big)
  <2>1. UrlSet(l) = {big[i].url : i \in (1 .. Len(big)) \ {pos}}
    BY <1>1, EraseUrlSet, Zenon
  <2>2. UrlSet(big) = {big[i].url : i \in 1 .. Len(big)}
    BY Zenon DEF UrlSet
  <2> QED
    BY <2>1, <2>2
<1>8. ASSUME NEW u \in TrackerUrls \ {url} PROVE u \in Listed(list) <=> u \in Listed(l)
  <2>1. u \in Listed(list) => u \in UrlSet(l)
    BY <1>5, <1>8
  <2>2. u \in UrlSet(l) => u \in UrlSet(list)
    BY <1>7
  <2> QED
    BY <1>2, <2>1, <2>2, ListedUrls
<1> QED
  BY <1>1, <1>6, <1>8, KeptByOne

(* An entry of the list.                                                   *)
LEMMA UrlInSet ==
    ASSUME NEW list, NEW i \in 1 .. Len(list) PROVE list[i].url \in UrlSet(list) /\ list[i] \in EntrySet(list)
  BY DEF UrlSet, EntrySet

(* remove_tracker and erase_announce.                                      *)
LEMMA RemoveKept ==
    ASSUME NEW list, WellFormed(list), UniqueUrls(list), NEW pos \in 1 .. Len(list), list[pos].url \in TrackerUrls,
           UniqueUrls(erase(list, pos))
    PROVE  Kept(list, erase(list, pos))
<1>1. UrlSet(list) = UrlSet(list) \cup {list[pos].url}
  BY UrlInSet
<1> QED
  BY <1>1, EraseKept

(* remove_tracker keeps the order of the others.                           *)
LEMMA RemoveTrackerKept ==
    ASSUME NEW list, WellFormed(list), UniqueUrls(list), NEW url \in TrackerUrls
    PROVE  Kept(list, remove_tracker(list, url))
<1>1. url \in Nat /\ list \in Seq(AnnounceUrls) /\ TrackerUrls # {}
  BY TorrentAssumption DEF WellFormed
<1>2. PICK i : i = find(list, url)
  OBVIOUS
<1>3. i # 0 => i \in 1 .. Len(list) /\ list[i].url = url
  BY <1>1, <1>2, FindFacts
<1>4. CASE i = 0
  <2>1. remove_tracker(list, url) = list
    BY <1>2, <1>4 DEF remove_tracker
  <2> QED
    BY <1>1, <2>1, KeptUnchanged
<1>5. CASE i # 0
  <2>1. remove_tracker(list, url) = erase(list, i)
    BY <1>2, <1>5 DEF remove_tracker
  <2>2. UniqueUrls(remove_tracker(list, url))
    BY <1>1, RemoveTrackerKeeps
  <2> QED
    BY <1>3, <1>5, <2>1, <2>2, RemoveKept
<1> QED
  BY <1>4, <1>5

(* So does erase_announce.                                                 *)
LEMMA EraseAnnounceKept ==
    ASSUME NEW list, WellFormed(list), UniqueUrls(list), NEW a \in AnnounceUrls, a.url \in TrackerUrls
    PROVE  Kept(list, erase_announce(list, a))
<1>1. list \in Seq(AnnounceUrls) /\ TrackerUrls # {}
  BY DEF WellFormed
<1>2. PICK i : i = find_announce(list, a)
  OBVIOUS
<1>3. i # 0 => i \in 1 .. Len(list) /\ list[i] = a
  BY <1>1, <1>2, FindAnnounceFacts
<1>4. CASE i = 0
  <2>1. erase_announce(list, a) = list
    BY <1>2, <1>4 DEF erase_announce
  <2> QED
    BY <1>1, <2>1, KeptUnchanged
<1>5. CASE i # 0
  <2>1. erase_announce(list, a) = erase(list, i)
    BY <1>2, <1>5 DEF erase_announce
  <2>2. UniqueUrls(erase_announce(list, a))
    BY EraseAnnounceUnique
  <2> QED
    BY <1>3, <1>5, <2>1, <2>2, RemoveKept
<1> QED
  BY <1>4, <1>5

(* add_tracker: a new url, the same tier, or a move.                       *)
LEMMA AddTrackerKept ==
    ASSUME NEW list, WellFormed(list), UniqueUrls(list), NEW a \in AnnounceUrls, CanInsert(list, a),
           a.url \in TrackerUrls
    PROVE  Kept(list, add_tracker(list, a))
<1>1. a.url \in Nat /\ list \in Seq(AnnounceUrls) /\ TrackerUrls # {}
  BY TorrentAssumption DEF WellFormed
<1>2. UniqueUrls(add_tracker(list, a))
  BY AddTrackerKeeps
<1>3. PICK i : i = find(list, a.url)
  OBVIOUS
<1>4. i # 0 => i \in 1 .. Len(list) /\ list[i].url = a.url
  BY <1>1, <1>3, FindFacts
<1>5. CASE add_tracker(list, a) = list
  BY <1>1, <1>5, KeptUnchanged
<1>6. CASE add_tracker(list, a) = insert(list, a)
  BY <1>2, <1>6, InsertKept
<1>7. CASE i # 0 /\ add_tracker(list, a) = erase_announce(insert(list, a), list[i])
  <2>1. PICK big : big = insert(list, a)
    OBVIOUS
  <2>2. WellFormed(big) /\ EntrySet(big) = EntrySet(list) \cup {a}
    BY <2>1, InsertKeepsTiers, InsertEntries
  <2>3. list[i] \in EntrySet(list) /\ list[i] \in AnnounceUrls /\ a.url \in UrlSet(list)
    BY <1>1, <1>4, <1>7, UrlInSet, EntryTypes
  <2>4. PICK pos : pos = find_announce(big, list[i])
    OBVIOUS
  <2>5. big \in Seq(AnnounceUrls)
    BY <2>2 DEF WellFormed
  <2>6. pos # 0
    <3>1. PICK k \in 1 .. Len(big) : big[k] = list[i]
      BY <2>2, <2>3 DEF EntrySet
    <3>2. pos = 0 => \A j \in 1 .. Len(big) : big[j] # list[i]
      BY <2>3, <2>4, <2>5, FindAnnounceFacts
    <3> QED
      BY <3>1, <3>2
  <2>7. pos \in 1 .. Len(big) /\ big[pos] = list[i]
    BY <2>3, <2>4, <2>5, <2>6, FindAnnounceFacts
  <2>8. add_tracker(list, a) = erase(big, pos)
    BY <1>7, <2>1, <2>4, <2>6 DEF erase_announce
  <2>9. UrlSet(big) = UrlSet(list) \cup {a.url}
    BY <2>2, UrlsOfEntries
  <2>10. big[pos].url = a.url /\ UniqueUrls(erase(big, pos))
    BY <1>2, <1>4, <1>7, <2>7, <2>8
  <2>11. EntrySet(list) \subseteq EntrySet(big)
    BY <2>2
  <2> QED
    BY <2>2, <2>7, <2>8, <2>9, <2>10, <2>11, EraseKept
<1>8. \/ add_tracker(list, a) = insert(list, a)
      \/ add_tracker(list, a) = list
      \/ i # 0 /\ add_tracker(list, a) = erase_announce(insert(list, a), list[i])
  BY <1>3, Zenon DEF add_tracker
<1> QED
  BY <1>5, <1>6, <1>7, <1>8

(* Nothing is listed.                                                      *)
LEMMA EmptyListed == Listed(<<>>) = {} /\ <<>> \in Seq(AnnounceUrls)
<1>1. PICK a : a = <<>>
  OBVIOUS
<1>2. a \in Seq(AnnounceUrls) /\ UrlSet(a) = {}
  BY <1>1, EmptyList DEF WellFormed
<1>3. Listed(a) = {}
  BY <1>2, ListedUrls
<1> QED
  BY <1>1, <1>2, <1>3

(* One of the lists is empty.                                              *)
LEMMA KeptWhenEmpty ==
    ASSUME NEW l1, NEW l2, WellFormed(l1), WellFormed(l2), l1 = <<>> \/ l2 = <<>>, TrackerUrls # {}
    PROVE  Kept(l1, l2)
<1>1. Listed(l1) \cap Listed(l2) = {}
  BY EmptyListed
<1>2. l1 \in Seq(AnnounceUrls) /\ l2 \in Seq(AnnounceUrls)
  BY DEF WellFormed
<1> QED
  BY <1>1, <1>2, KeptByFew

(* Reading what is like a written file keeps the order.                    *)
LEMMA LikeKept ==
    ASSUME NEW mm, NEW version, WellFormed(mm.announce_list_), UniqueUrls(mm.announce_list_),
           NEW w, w = write_metafile(mm, version),
           NEW d, Same(d, w), ~BadAccess(d, AnnounceKeys)
    PROVE  Kept(mm.announce_list_, parse_announce(d))
<1>1. PICK list : list = mm.announce_list_
  OBVIOUS
<1>2. WellFormed(list) /\ UniqueUrls(list) /\ list \in Seq(AnnounceUrls) /\ Sorted(list)
  BY <1>1 DEF WellFormed
<1>3. /\ \A k \in AnnounceKeys : k \in DOMAIN w <=> list # <<>>
      /\ list # <<>> => w["announce-list"] = Tiers(list) /\ w["announce"] = Head(list).url
  BY <1>1, WrittenKeys
<1>4. "announce" \in AnnounceKeys /\ "announce-list" \in AnnounceKeys
  BY DEF AnnounceKeys
<1>5. \A k \in AnnounceKeys : k \in DOMAIN d => k \in DOMAIN w /\ d[k] = w[k]
  BY DEF Same, BadAccess, Has
<1>6. ASSUME Has(d, "announce")
      PROVE  d["announce"] = Head(list).url /\ d["announce"] \in UrlSet(list) /\ d["announce"] \in Nat
  <2>1. list # <<>> /\ d["announce"] = Head(list).url
    BY <1>3, <1>4, <1>5, <1>6 DEF Has
  <2>2. Head(list) = list[1] /\ 1 \in 1 .. Len(list)
    BY <1>2, <2>1
  <2> QED
    BY <1>2, <2>1, <2>2, UrlInSet, EntryTypes
<1>7. TrackerUrls # {}
  BY TorrentAssumption
<1>8. CASE Has(d, "announce-list")
  <2>1. Get(d, "announce-list", <<>>) = Tiers(list)
    BY <1>3, <1>4, <1>5, <1>8 DEF Get, Has
  <2>2. Tiers(list) \in Seq(Seq(Nat)) /\ Announces(Tiers(list)) = list
    BY <1>2, TiersOfList
  <2>3. Gradual(list)
    BY <1>2, ListGradual
  <2>4. PICK l : AddAll(Tiers(list)) = Fine(l) /\ (Sorted(Announces(Tiers(list))) => l = Announces(Tiers(list)))
    BY <2>2, <2>3, AddAllOfRow
  <2>5. AddAll(Get(d, "announce-list", <<>>)).list = list
    BY <1>2, <2>1, <2>2, <2>4 DEF Fine
  <2>6. ~Has(d, "announce") \/ contains(list, d["announce"])
    BY <1>2, <1>6, ContainsFacts
  <2>7. parse_announce(d) = list
    BY <2>5, <2>6, ParseIsFold
  <2> QED
    BY <1>1, <1>7, <2>7, KeptUnchanged
<1>9. CASE ~Has(d, "announce-list")
  <2>1. PICK e : e = <<>>
    OBVIOUS
  <2>2. Get(d, "announce-list", <<>>) = e
    BY <1>9, <2>1 DEF Get
  <2>3. TiersIn(d) \in Seq(Seq(Nat)) /\ AnnounceIn(d) \in SUBSET Nat
    BY LikeTiers
  <2>4. WellFormed(parse_announce(d)) /\ parse_announce(d) \in Seq(AnnounceUrls)
    BY <2>3, ParseFacts DEF WellFormed
  <2>5. UrlSet(parse_announce(d)) = AnnounceIn(d)
    <3>1. e \in Seq(Seq(Nat)) /\ Announces(e) = <<>>
      <4>1. <<>> \in Seq(Seq(Nat)) /\ <<>> \in Seq(Nat)
        OBVIOUS
      <4>2. Announces(<<>>) = <<>>
        BY <4>1, AnnouncesFacts
      <4> QED
        BY <2>1, <4>1, <4>2
    <3>2. Gradual(Announces(e))
      BY <3>1, EmptyList, ListGradual
    <3>3. PICK l : AddAll(e) = Fine(l)
      BY <3>1, <3>2, AddAllOfRow
    <3>4. AddAll(TiersIn(d)).ok /\ TiersIn(d) = e
      BY <2>2, <3>3 DEF Fine, TiersIn
    <3>5. UrlSet(Announces(TiersIn(d))) = {}
      BY <3>1, <3>4, EmptyList
    <3> QED
      BY <2>3, <3>4, <3>5, ParseFacts
  <2>6. \A u, v \in UrlSet(parse_announce(d)) : u = v
    BY <2>5 DEF AnnounceIn
  <2>7. \A u, v \in Listed(list) \cap Listed(parse_announce(d)) : u = v
    BY <2>4, <2>6, ListedUrls
  <2> QED
    BY <1>1, <1>2, <1>7, <2>4, <2>7, KeptByFew
<1> QED
  BY <1>8, <1>9

(* A step of the client.                                                   *)
LEMMA StepKept ==
    ASSUME TrackInv, TrackInv', [Next]_vars, UniqueUrls(List), UniqueUrls(List')
    PROVE  Kept(List, List')
<1>1. WellFormed(List) /\ WellFormed(List') /\ "announce_list_" \in DOMAIN m
  BY DEF TrackInv
<1>2. TrackerUrls # {} /\ TrackerUrls \subseteq Nat /\ MaxAnnounces \in Nat
  BY TorrentAssumption
<1>3. ASSUME List' = List PROVE Kept(List, List')
  BY <1>2, <1>3, KeptUnchanged
<1>4. ASSUME NEW l, SetTrackers(l) PROVE List' = l
  <2>1. m' = [m EXCEPT !.announce_list_ = l]
    BY <1>4 DEF SetTrackers, Edit
  <2> QED
    BY <1>1, <2>1 DEF List
<1>5. CASE TrackerStep
  <2>1. ASSUME NEW url \in TrackerUrls, NEW tier \in 0 .. MaxAnnounces
        PROVE  announce_url(url, tier) \in AnnounceUrls /\ announce_url(url, tier).url = url
    BY <1>2 DEF announce_url, AnnounceUrls
  <2>2. ASSUME NEW url \in TrackerUrls, NEW tier \in 0 .. MaxAnnounces, AddTracker(url, tier)
        PROVE  Kept(List, List')
    <3>1. PICK a : a = announce_url(url, tier)
      OBVIOUS
    <3>2. CanInsert(List, a) /\ SetTrackers(add_tracker(List, a))
      BY <2>2, <3>1 DEF AddTracker
    <3>3. List' = add_tracker(List, a)
      BY <1>4, <3>2
    <3>4. a \in AnnounceUrls /\ a.url \in TrackerUrls
      BY <2>1, <3>1
    <3> QED
      BY <1>1, <3>2, <3>3, <3>4, AddTrackerKept
  <2>3. ASSUME NEW url \in TrackerUrls, RemoveTracker(url) PROVE Kept(List, List')
    <3>1. List' = remove_tracker(List, url)
      BY <1>4, <2>3 DEF RemoveTracker
    <3> QED
      BY <1>1, <3>1, RemoveTrackerKept
  <2>4. ASSUME NEW url \in TrackerUrls, NEW tier \in 0 .. MaxAnnounces, RemoveAnnounce(url, tier)
        PROVE  Kept(List, List')
    <3>1. PICK a : a = announce_url(url, tier)
      OBVIOUS
    <3>2. List' = erase_announce(List, a)
      BY <1>4, <2>4, <3>1 DEF RemoveAnnounce
    <3>3. a \in AnnounceUrls /\ a.url \in TrackerUrls
      BY <2>1, <3>1
    <3> QED
      BY <1>1, <3>2, <3>3, EraseAnnounceKept
  <2>5. ASSUME ClearTrackers PROVE Kept(List, List')
    <3>1. List' = <<>>
      BY <1>4, <2>5 DEF ClearTrackers
    <3> QED
      BY <1>1, <1>2, <3>1, KeptWhenEmpty
  <2>6. ASSUME NEW url \in TrackerUrls, NEW tier \in 0 .. MaxAnnounces, ListInsert(url, tier)
        PROVE  Kept(List, List')
    <3>1. PICK a : a = announce_url(url, tier)
      OBVIOUS
    <3>2. CanInsert(List, a) /\ SetTrackers(insert(List, a))
      BY <2>6, <3>1 DEF ListInsert
    <3>3. List' = insert(List, a)
      BY <1>4, <3>2
    <3>4. a \in AnnounceUrls /\ a.url \in TrackerUrls
      BY <2>1, <3>1
    <3>5. UniqueUrls(insert(List, a))
      BY <3>3
    <3> QED
      BY <1>1, <3>2, <3>3, <3>4, <3>5, InsertKept
  <2>7. ASSUME NEW flag \in BOOLEAN, EnableCrossSeeding(flag) PROVE Kept(List, List')
    <3>1. m' = [m EXCEPT !.enable_cross_seeding_ = flag]
      BY <2>7 DEF EnableCrossSeeding, Edit
    <3>2. List' = List
      BY <1>1, <3>1 DEF List
    <3> QED
      BY <1>3, <3>2
  <2> QED
    BY <1>5, <2>2, <2>3, <2>4, <2>5, <2>6, <2>7 DEF TrackerStep
<1>6. CASE StorageStep
  <2>1. \E s, f, b : SetStorage(s, f, b)
    BY <1>6, Zenon DEF StorageStep, AddFile, RemoveFile, ClearFiles, SetFileMode, SetPieceSize, Align,
       ListDirectory, AssignSample, Copy, Hash
  <2>2. PICK s : m' = [m EXCEPT !.storage_ = s]
    BY <2>1 DEF SetStorage, Edit
  <2>3. List' = List
    BY <1>1, <2>2 DEF List
  <2> QED
    BY <1>3, <2>3
<1>7. CASE FieldStep
  BY <1>3, <1>7, FieldStepLeaves DEF TrackInv
<1>8. CASE MagnetStep
  <2>1. \E x : SetMagnet(x)
    BY <1>8, Zenon DEF MagnetStep, AddParam, SetSize, Reparse, MakeMagnet
  <2>2. List' = List
    BY <2>1 DEF SetMagnet, List
  <2> QED
    BY <1>3, <2>2
<1>9. CASE LoadAnnounce
  <2>1. List = <<>>
    BY <1>9 DEF LoadAnnounce, List
  <2> QED
    BY <1>1, <1>2, <2>1, KeptWhenEmpty
<1>10. ASSUME NEW version \in Versions, SaveAndLoad(version) PROVE Kept(List, List')
  <2>1. PICK w : w = write_metafile(m, version)
    OBVIOUS
  <2>0. PICK d \in FilesLike(w) : \E f : Load(d, f)
    BY <1>10, <2>1, Zenon DEF SaveAndLoad
  <2>2. PICK f : Load(d, f)
    BY <2>0
  <2>3. Same(d, w)
    BY <2>2, LikeFacts
  <2>4. ~BadAccess(d, AnnounceKeys)
    BY <2>2, FailsOnAccess DEF Load
  <2>5. List' = parse_announce(d)
    BY <2>2, ParsedList DEF Load, List
  <2>6. WellFormed(m.announce_list_) /\ UniqueUrls(m.announce_list_)
    BY <1>1 DEF List
  <2>7. Kept(m.announce_list_, parse_announce(d))
    BY <2>1, <2>3, <2>4, <2>6, LikeKept
  <2> QED
    BY <2>5, <2>7 DEF List
<1>11. CASE UNCHANGED vars
  <2>1. List' = List
    BY <1>11 DEF vars, List
  <2> QED
    BY <1>3, <2>1
<1> QED
  BY <1>5, <1>6, <1>7, <1>8, <1>9, <1>10, <1>11 DEF Next

(* metafile::add_tracker, remove_tracker: a step adds, removes or moves one *)
(* url; any two others stay in one tier or in the same order of tiers, also *)
(* when the metafile is saved and read again.                              *)
THEOREM TierOrderIsKept == Spec => TierOrderKept
<1>1. ASSUME TrackInv, TrackInv', [Next]_vars
      PROVE  [UniqueUrls(List) /\ UniqueUrls(List') =>
        LET changed == (Listed(List) \cup Listed(List')) \ (Listed(List) \cap Listed(List'))
        IN  \E touched \in IF changed = {} THEN TrackerUrls ELSE changed :
                \A u, v \in (Listed(List) \cap Listed(List')) \ {touched} :
                    TierOf(List, u) < TierOf(List, v) <=> TierOf(List', u) < TierOf(List', v)]_vars
  <2>1. ASSUME UniqueUrls(List), UniqueUrls(List') PROVE Kept(List, List')
    BY <1>1, <2>1, StepKept
  <2> QED
    BY <2>1, Zenon DEF Kept, Changed, OrderKept
<1> QED
  BY <1>1, TrackInvariant, PTL DEF Spec, TierOrderKept
=============================================================================
