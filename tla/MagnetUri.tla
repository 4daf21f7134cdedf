----------------------------- MODULE MagnetUri -----------------------------
(* magnet_uri, its encoding as a URI and back, with the percent encoding it *)
(* rests on.  A text is a sequence of characters; a parameter's name is one *)
(* character, and so is the introducer "magnet:?".                          *)
EXTENDS Integers, Sequences, SequencesExt, FiniteSets, TLC

(* The reserved characters texts are made of, with their codes; every other *)
(* one is unreserved (is_unreserved, byte_to_hex_uppercase).                *)
HexOf == ("&" :> <<"2", "6">>) @@ ("=" :> <<"3", "D">>) @@ ("%" :> <<"2", "5">>)
         @@ ("+" :> <<"2", "B">>) @@ (":" :> <<"3", "A">>)
is_reserved(c) == c \in DOMAIN HexOf

(* Mutant: leaves the '%' as it is.                                         *)
percent_encode_char_lenient(c) == IF is_reserved(c) /\ c # "%" THEN <<"%">> \o HexOf[c] ELSE <<c>>

percent_encode_char(c) == IF is_reserved(c) THEN <<"%">> \o HexOf[c] ELSE <<c>>
percent_encode(text) == FlattenSeq([i \in DOMAIN text |-> percent_encode_char(text[i])])

(* hex_to_byte; "?" stands for every character that has no code above.      *)
hex_to_byte(hex) ==
    IF \E c \in DOMAIN HexOf : HexOf[c] = hex
    THEN CHOOSE c \in DOMAIN HexOf : HexOf[c] = hex ELSE "?"

(* Two characters behind a '%' are collected in buffer; the first one that  *)
(* is not alphanumerical ends the decoding, and the caller does not ask.    *)
percent_decode(text) ==
    LET Step(acc, c) ==
            CASE acc.done -> acc
              [] ~acc.done /\ c = "%" -> [acc EXCEPT !.copying = TRUE]
              [] ~acc.done /\ c # "%" /\ ~acc.copying -> [acc EXCEPT !.out = Append(@, c)]
              [] ~acc.done /\ acc.copying /\ is_reserved(c) /\ c # "%" -> [acc EXCEPT !.done = TRUE]
              [] OTHER ->
                  IF acc.buffer = <<>> THEN [acc EXCEPT !.buffer = <<c>>]
                  ELSE [acc EXCEPT !.out = Append(@, hex_to_byte(Append(acc.buffer, c))),
                                   !.copying = FALSE, !.buffer = <<>>]
    IN  FoldLeft(Step, [out |-> <<>>, copying |-> FALSE, buffer |-> <<>>, done |-> FALSE], text).out

-----------------------------------------------------------------------------
(* size_ has no initial value: garbage, unless the object is value          *)
(* initialised.                                                             *)
magnet_uri(garbage) ==
    [topics_ |-> <<>>, display_name_ |-> <<>>, size_ |-> garbage, trackers_ |-> <<>>,
     web_seeds_ |-> <<>>, acceptable_sources_ |-> <<>>, exact_source_ |-> <<>>,
     keywords_ |-> {}, manifest_ |-> <<>>, peer_addresses_ |-> <<>>]

(* The parameters: those that are collected, and those with one value.      *)
ListMember == [xt |-> "topics_", tr |-> "trackers_", ws |-> "web_seeds_",
               as |-> "acceptable_sources_"] @@ ("x.pe" :> "peer_addresses_")
TextMember == [dn |-> "display_name_", xs |-> "exact_source_", mt |-> "manifest_"]
SizeDigits == 1 .. 9

Param(key, text) == <<"&", key, "=">> \o percent_encode(text)
Params(key, texts) == FlattenSeq([i \in DOMAIN texts |-> Param(key, texts[i])])
OptParam(key, text) == IF text = <<>> THEN <<>> ELSE Param(key, text)

(* Topics are written as they are.                                          *)
TopicParams(topics) ==
    FlattenSeq([i \in DOMAIN topics |->
        (IF i = 1 THEN <<>> ELSE <<"&">>) \o <<"xt", "=">> \o topics[i]])

(* Two or more keywords: the loop never advances its iterator.              *)
CanEncode(m) == Cardinality(m.keywords_) <= 1

(* A keyword follows without a parameter of its own.                        *)
encode_magnet_uri(m) ==
    <<"magnet:?">> \o TopicParams(m.topics_)
    \o OptParam("dn", m.display_name_)
    \o (IF m.size_ = 0 THEN <<>> ELSE Param("xl", <<ToString(m.size_)>>))
    \o Params("tr", m.trackers_) \o Params("ws", m.web_seeds_)
    \o Params("as", m.acceptable_sources_) \o OptParam("xs", m.exact_source_)
    \o FlattenSeq(SetToSeq({percent_encode(k) : k \in m.keywords_}))
    \o OptParam("mt", m.manifest_) \o Params("x.pe", m.peer_addresses_)

-----------------------------------------------------------------------------
(* split_query_string and split_keywords_string: a separator at the end     *)
(* opens no part, one at the beginning closes an empty one.                 *)
Split(text, separator) ==
    LET Step(parts, c) ==
            IF c = separator THEN Append(parts, <<>>) ELSE Append(Front(parts), Append(Last(parts), c))
        parts == FoldLeft(Step, <<<<>>>>, text)
    IN  IF Last(parts) = <<>> THEN Front(parts) ELSE parts
split_query_string(query) == Split(query, "&")
split_keywords_string(keywords) == Split(keywords, "+")

(* split_key_value_pair throws without a '='.                               *)
IsPair(part) == Contains(part, "=")
KeyOf(part) == SubSeq(part, 1, SelectInSeq(part, LAMBDA c : c = "=") - 1)
ValueOf(part) == SubSeq(part, SelectInSeq(part, LAMBDA c : c = "=") + 1, Len(part))

(* from_chars: the value is one number.                                     *)
IsSize(text) == Len(text) = 1 /\ \E n \in SizeDigits : text = <<ToString(n)>>
SizeOf(text) == CHOOSE n \in SizeDigits : text = <<ToString(n)>>

Parts(uri) == split_query_string(Tail(uri))
DecodeFails(uri) ==
    \/ uri = <<>> \/ Head(uri) # "magnet:?"
    \/ \E i \in DOMAIN Parts(uri) :
           ~IsPair(Parts(uri)[i]) \/ (KeyOf(Parts(uri)[i]) = <<"xl">> /\ ~IsSize(ValueOf(Parts(uri)[i])))

make_magnet_uri(uri, garbage) ==
    LET Apply(m, part) ==
            LET key == IF Len(KeyOf(part)) = 1 THEN Head(KeyOf(part)) ELSE "unknown"
                value == percent_decode(ValueOf(part))
            IN  CASE key \in DOMAIN ListMember -> [m EXCEPT ![ListMember[key]] = Append(@, value)]
                  [] key \in DOMAIN TextMember -> [m EXCEPT ![TextMember[key]] = value]
                  [] key = "xl" -> [m EXCEPT !.size_ = SizeOf(ValueOf(part))]
                  [] key = "kt" -> [m EXCEPT !.keywords_ = @ \cup ToSet(split_keywords_string(value))]
                  [] OTHER -> m
    IN  FoldLeft(Apply, magnet_uri(garbage), Parts(uri))
=============================================================================
