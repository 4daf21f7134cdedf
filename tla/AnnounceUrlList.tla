-------------------------- MODULE AnnounceUrlList --------------------------
(* announce_url_list: the trackers of a torrent in one vector, ordered by   *)
(* tier and, in a tier, by url; tiers are numbered from 0 without gaps.     *)
(* Member functions are operators from the list before to the list after.   *)
(* Urls are numbers in the order of the strings.                            *)
EXTENDS Integers, Sequences, SequencesExt, FiniteSets

announce_url(url, tier) == [url |-> url, tier |-> tier]

(* operator<=>: the tier first, then the url.                               *)
Less(a, b) == a.tier < b.tier \/ (a.tier = b.tier /\ a.url < b.url)

tier_count(list) == IF list = <<>> THEN 0 ELSE Last(list).tier + 1

(* lower_bound by tier, 0 for end(), and equal_range.                       *)
get_tier_begin(list, tier) == SelectInSeq(list, LAMBDA a : a.tier >= tier)
get_tier(list, tier) ==
    LET begin == get_tier_begin(list, tier)
        end == SelectInSeq(list, LAMBDA a : a.tier > tier)
    IN  IF begin = 0 THEN <<>> ELSE SubSeq(list, begin, IF end = 0 THEN Len(list) ELSE end - 1)

(* The contract of insert and emplace: at most one new tier, at the end.    *)
CanInsert(list, a) == a.tier <= tier_count(list)

(* upper_bound: behind everything that is not greater.                      *)
insert(list, a) ==
    LET Greater(x) == Less(a, x)
        i == SelectInSeq(list, Greater)
    IN  InsertAt(list, IF i = 0 THEN Len(list) + 1 ELSE i, a)

(* erase(iterator): when that empties a tier with others behind it, these   *)
(* move up by one.                                                          *)
erase(list, pos) ==
    LET rest == RemoveAt(list, pos)
        tier == list[pos].tier
        gap == /\ pos <= Len(rest) /\ rest[pos].tier # tier
               /\ rest[get_tier_begin(rest, tier)].tier # tier
    IN  [i \in DOMAIN rest |->
            IF gap /\ i >= pos THEN [rest[i] EXCEPT !.tier = @ - 1] ELSE rest[i]]

(* find(url) and find(announce_url): the index, 0 for end().                *)
find(list, url) == SelectInSeq(list, LAMBDA x : x.url = url)
find_announce(list, a) == SelectInSeq(list, LAMBDA x : x = a)

erase_announce(list, a) ==
    IF find_announce(list, a) = 0 THEN list ELSE erase(list, find_announce(list, a))

contains(list, url) ==
    \E tier \in 0 .. tier_count(list) : \E a \in ToSet(get_tier(list, tier)) : a.url = url

Urls(list) == [i \in DOMAIN list |-> list[i].url]

(* The serialiser opens a new inner list whenever the tier is not the one   *)
(* it counts, and then counts one further.                                  *)
Tiers(list) ==
    LET Put(acc, a) ==
            IF a.tier = acc.current
            THEN [acc EXCEPT !.lists = Append(Front(@), Append(Last(@), a.url))]
            ELSE [current |-> acc.current + 1, lists |-> Append(acc.lists, <<a.url>>)]
    IN  IF list = <<>> THEN <<>> ELSE FoldLeft(Put, [current |-> 0, lists |-> <<<<>>>>], list).lists

as_nested_vector(list) == [t \in 1 .. tier_count(list) |-> Urls(get_tier(list, t - 1))]

-----------------------------------------------------------------------------
(* What metafile does with its list.                                        *)

(* A url that is there already changes its tier: the new one goes in, then  *)
(* the old one out.                                                         *)
add_tracker(list, a) ==
    LET i == find(list, a.url)
    IN  CASE i = 0 -> insert(list, a)
          [] i # 0 /\ list[i].tier = a.tier -> list
          [] OTHER -> erase_announce(insert(list, a), list[i])

(* Mutant: takes the url out of the vector without closing the gap.         *)
remove_tracker_gap(list, url) ==
    IF find(list, url) = 0 THEN list ELSE RemoveAt(list, find(list, url))

(* Mutant: moves the tiers behind up although the url's tier is not empty.  *)
remove_tracker_closing(list, url) ==
    LET i == find(list, url)
        rest == RemoveAt(list, i)
        Up(a) == [a EXCEPT !.tier = IF a.tier > list[i].tier THEN @ - 1 ELSE @]
    IN  IF i = 0 THEN list ELSE FoldLeft(insert, <<>>, [j \in DOMAIN rest |-> Up(rest[j])])

(* remove_tracker(url): wherever it is first.                               *)
remove_tracker(list, url) ==
    IF find(list, url) = 0 THEN list ELSE erase(list, find(list, url))

-----------------------------------------------------------------------------
Sorted(list) == \A i, j \in DOMAIN list : i < j => ~Less(list[j], list[i])
NoGap(list) == \A t \in 0 .. tier_count(list) - 1 : \E i \in DOMAIN list : list[i].tier = t
UniqueUrls(list) == IsInjective(Urls(list))
=============================================================================
