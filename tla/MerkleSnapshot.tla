---------------------------- MODULE MerkleSnapshot ----------------------------
(***************************************************************************)
(* The Merkle tree over the wallets of a snapshot                          *)
(* (scripts/snapshot/generate-arcns-v3-early-adopters.js) and the check of *)
(* a proof that the generator, the artifact's scripts and the contract     *)
(* share (scripts/mainnet/generate-discount-proof-artifact.js).            *)
(*                                                                         *)
(* A hash is a term: the leaf of a wallet, or the pair of two hashes       *)
(* without their order, for keccak256 of the sorted pair.                  *)
(***************************************************************************)
EXTENDS Naturals, SequencesExt

leafFor(w)     == [wallet |-> w, of |-> {}]
hashPair(a, b) == [wallet |-> 0, of |-> {a, b}]

\* In ascending order, each once.
uniqueWallets(S) ==
    [i \in 1..Cardinality(S) |-> CHOOSE w \in S : Cardinality({v \in S : v < w}) = i - 1]
leavesOf(S) == LET wallets == uniqueWallets(S)
               IN [i \in DOMAIN wallets |-> leafFor(wallets[i])]

\* An odd hash at the end of a level goes up as it is.
NextLevel(level) ==
    [i \in 1..(Len(level) + 1) \div 2 |->
       IF 2 * i <= Len(level) THEN hashPair(level[2 * i - 1], level[2 * i]) ELSE level[2 * i - 1]]

\* From the leaves up to the root.
levelsOf(leaves) ==
    LET upTo[k \in 0..Len(leaves)] ==
          IF k = 0 THEN <<leaves>>
          ELSE LET below == upTo[k - 1]
               IN IF Len(Last(below)) > 1 THEN Append(below, NextLevel(Last(below))) ELSE below
    IN upTo[Len(leaves)]

merkleRootOf(S) == Last(levelsOf(leavesOf(S)))[1]

\* Positions count from 0.
Sibling(level, position) ==
    LET s == IF position % 2 = 1 THEN position - 1 ELSE position + 1
    IN IF s < Len(level) THEN <<level[s + 1]>> ELSE <<>>

proofOf(S, w) ==
    LET levels == levelsOf(leavesOf(S))
        index  == Cardinality({v \in S : v < w})
    IN FlattenSeq([k \in 1..Len(levels) - 1 |-> Sibling(levels[k], index \div 2 ^ (k - 1))])

verifyProof(leaf, proof, root) == FoldLeft(hashPair, leaf, proof) = root
===============================================================================
