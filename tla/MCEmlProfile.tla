---------------------------- MODULE MCEmlProfile ----------------------------
(***************************************************************************)
(* EmlProfile with the hash of the code, and values for it.  A tree is a   *)
(* sequence of words, the last one the 0 that ends it.  The accumulator of *)
(* the code has 32 bits and its tag 8; here the tag has TagBits and the    *)
(* accumulator four times as many.                                         *)
(***************************************************************************)
EXTENDS EmlProfile, Sequences

CONSTANT TagBits

Tags == 0 .. 2 ^ TagBits - 1

\* Bit b of h.
LOCAL Bit(h, b) == (h \div 2 ^ b) % 2

\* The words the loop visits: up to the depth, or to the word that is 0.
Visited(tree, depth) ==
    { n \in 1 .. Len(tree) : n <= depth /\ \A m \in 1 .. n : tree[m] # 0 }

\* hash * 33 + word, from the seed 5381.
Djb2(tree) ==
    LET h[n \in 0 .. Len(tree)] ==
            IF n = 0 THEN 5381 % 2 ^ (4 * TagBits)
            ELSE (33 * h[n - 1] + tree[n]) % 2 ^ (4 * TagBits)
    IN h

\* The exclusive or of the four quarters of the accumulator.
Fold(hash) ==
    LET parity(b) == (Bit(hash, b) + Bit(hash, b + TagBits)
                        + Bit(hash, b + 2 * TagBits) + Bit(hash, b + 3 * TagBits)) % 2
        tag[b \in 0 .. TagBits] ==
            IF b = 0 THEN 0 ELSE tag[b - 1] + parity(b - 1) * 2 ^ (b - 1)
    IN tag[TagBits]

\* eml_hash_expr: a depth of 0 gives 0, as a null pointer does.
ExprHash(tree, depth) ==
    IF depth = 0 THEN 0
    ELSE LET visited == Visited(tree, depth)
             last == IF visited = {} THEN 0
                     ELSE CHOOSE n \in visited : \A m \in visited : m <= n
         IN Fold(Djb2(tree)[last])
-----------------------------------------------------------------------------
(* Tags of two bits and as many slots as tags.                             *)

MCTrees == { <<1, 1, 0>>, <<1, 3, 0>>, <<2, 1, 0>>, <<2, 0>> }

\* Every tag occurs, 0 for a depth other than 0 too, and two trees share one.
ASSUME TreesAssumption ==
    /\ { ExprHash(t, d) : t \in MCTrees, d \in {1, 2} } = Tags
    /\ \E t, u \in MCTrees : t # u /\ ExprHash(t, 2) = ExprHash(u, 2)
=============================================================================
