--------------------------- MODULE MCBlockDownload ---------------------------
(***************************************************************************)
(* Two peers on a tree of four blocks.                                     *)
(***************************************************************************)
EXTENDS BlockDownload, TLC

CONSTANTS p1, p2

\* 0 - 1 - 2, and the heavy block 0 - 3, which is bad
SmallParent == 1 :> 0 @@ 2 :> 1 @@ 3 :> 0
SmallBlocks == 0..3
SmallHeight == 0 :> 0 @@ 1 :> 1 @@ 2 :> 2 @@ 3 :> 1
SmallWork   == 0 :> 0 @@ 1 :> 1 @@ 2 :> 2 @@ 3 :> 5
SmallRank   == [b \in SmallBlocks |-> b]

BothPeers  == {p1, p2}
Symmetry   == Permutations(BothPeers)
Block2     == {2}
Block3     == {3}
=============================================================================
