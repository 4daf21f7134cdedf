----------------------------- MODULE MerkleTree -----------------------------
(* merkle_tree<sha256>: a complete binary tree kept in a flat vector, node *)
(* (layer, i) at 2^layer - 1 + i, the root at 0.  A tree is the sequence   *)
(* data_; the code's indices count from 0.                                 *)
(*                                                                         *)
(* A digest is abstracted to what was hashed, so that two digests are      *)
(* equal exactly if their inputs are.                                      *)
EXTENDS Integers, Sequences

(* The digest of a run of bytes, of two digests, and value_type{}.         *)
Digest(bytes) == [bytes |-> bytes, kids |-> <<>>]
Digest2(left, right) == [bytes |-> <<>>, kids |-> <<left, right>>]
ZeroHash == [bytes |-> <<-1>>, kids |-> <<>>]

div_ceil(x, y) == (x + y - 1) \div y

pow2[n \in Nat] == IF n = 0 THEN 1 ELSE 2 * pow2[n - 1]

log2_floor(x) == IF x = 0 THEN 0 ELSE CHOOSE e \in 0..x : pow2[e] <= x /\ x < pow2[e + 1]

log2_ceil(x) == log2_floor(2 * x - 1)

total_node_count_for_height(height) == pow2[height + 1] - 1

nodes_in_layer(layer) == pow2[layer]

get_flat_index(layer, index) == pow2[layer] - 1 + index

tree_height(tree) == log2_floor(Len(tree))

(* Mutant: rounds the height of the tree down.                             *)
set_leaf_nodes_rounded_down(leaf_nodes) ==
    [n \in 1 .. total_node_count_for_height(log2_floor(leaf_nodes)) |-> ZeroHash]

(* set_leaf_nodes: all nodes are value_type{}; no leaves give height 1.    *)
set_leaf_nodes(leaf_nodes) ==
    LET height == IF leaf_nodes # 0 THEN log2_ceil(leaf_nodes) ELSE 1
    IN  [n \in 1 .. total_node_count_for_height(height) |-> ZeroHash]

get_node(tree, layer, index) == tree[get_flat_index(layer, index) + 1]

(* The contract of set_leaf, and what it does when that holds.             *)
CanSetLeaf(tree, index) == index < nodes_in_layer(tree_height(tree))
set_leaf(tree, index, value) ==
    [tree EXCEPT ![get_flat_index(tree_height(tree), index) + 1] = value]

parent(flat_idx) == IF flat_idx = 0 THEN 0 ELSE (flat_idx - 1) \div 2

(* One pass of update() over a layer.  The digest of the pair i is stored  *)
(* at parent(2i + 1) of the layer above, by the batched (ISA-L) update at  *)
(* parent(2i); the last pair stored at a node wins.                        *)
UpdateLayer(tree, layer, batched) ==
    LET Target(i) == parent(IF batched THEN 2 * i ELSE 2 * i + 1)
        Pairs(n) == {i \in 0 .. nodes_in_layer(layer) \div 2 - 1 :
                         get_flat_index(layer - 1, Target(i)) + 1 = n}
        Last(S) == CHOOSE i \in S : \A j \in S : j <= i
    IN  [n \in DOMAIN tree |->
            IF Pairs(n) = {} THEN tree[n]
            ELSE LET i == Last(Pairs(n))
                 IN  Digest2(get_node(tree, layer, 2 * i), get_node(tree, layer, 2 * i + 1))]

update(tree, batched) ==
    LET height == tree_height(tree)
        after[layer \in 0 .. height] ==
            IF layer = height THEN tree ELSE UpdateLayer(after[layer + 1], layer + 1, batched)
    IN  after[0]

root(tree) == tree[1]

get_layer(tree, depth) ==
    SubSeq(tree, get_flat_index(depth, 0) + 1, get_flat_index(depth, 0) + nodes_in_layer(depth))

-----------------------------------------------------------------------------
(* The reference: leaves padded with zero digests to a power of two, then  *)
(* joined two by two; level 0 is the leaves.                               *)
MerkleLevels(leaves) ==
    LET height == log2_ceil(Len(leaves))
        level[h \in 0 .. height] ==
            IF h = 0
            THEN [i \in 1 .. pow2[height] |-> IF i <= Len(leaves) THEN leaves[i] ELSE ZeroHash]
            ELSE [i \in 1 .. pow2[height - h] |-> Digest2(level[h-1][2*i - 1], level[h-1][2*i])]
    IN  level

MerkleRoot(leaves) == MerkleLevels(leaves)[log2_ceil(Len(leaves))][1]
=============================================================================
