----------------------------- MODULE MCTorrent -----------------------------
(* The instance of Torrent that TLC checks.                                 *)
EXTENDS Torrent

(* An empty file, one of a piece, one longer than two small pieces, and a   *)
(* symlink.                                                                 *)
MCFileKinds ==
    {[size |-> 0, attributes |-> {}, link |-> 0],
     [size |-> 4, attributes |-> {"executable"}, link |-> 0],
     [size |-> 9, attributes |-> {}, link |-> 0],
     [size |-> 0, attributes |-> {"symlink"}, link |-> 1]}

(* Texts without reserved characters, with separators and with a '%'.       *)
MCMagnetTexts == {<<"a">>, <<"&", "=">>, <<"%", "2">>}
============================================================================
