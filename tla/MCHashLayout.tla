---------------------------- MODULE MCHashLayout ----------------------------
(* The instances of HashLayout that TLC checks: a block is 2 bytes, a piece *)
(* 4 and a chunk 8.                                                         *)
EXTENDS HashLayout

(* Up to three files that end before, at and behind every boundary; and a   *)
(* file of three whole chunks, whose tree has room for one block more.      *)
MaxTotal == 16
MCLayouts ==
    {sizes \in UNION {[1 .. n -> {0, 1, 4, 6, 8, 9}] : n \in 1 .. 3} : Total(sizes) <= MaxTotal}
    \cup {<<24>>, <<24, 1>>, <<1, 24>>}

MCBoundaryLayouts == {<<4>>, <<8>>}
=============================================================================
