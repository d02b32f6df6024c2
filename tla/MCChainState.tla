---------------------------- MODULE MCChainState ----------------------------
(***************************************************************************)
(* Block trees and bounds on which TLC checks ChainState.  Blocks are       *)
(* numbered; block 0 is the genesis block.  Each tree is given by parents.   *)
(***************************************************************************)
EXTENDS ChainState, TLC

CONSTANTS t1, t2

\* height of a block: length of the parent chain
HeightOf(parent, n) ==
    LET h[b \in 0..n] == IF b = 0 THEN 0 ELSE h[parent[b]] + 1 IN h

\* a tie at height 1, and more work in fewer blocks: 0 - 1 - 2, 0 - 3 - 4
HeavyParent == 1 :> 0 @@ 2 :> 1 @@ 3 :> 0 @@ 4 :> 3
HeavyBlocks == 0..4
HeavyHeight == HeightOf(HeavyParent, 4)
HeavyWork   == 0 :> 0 @@ 1 :> 1 @@ 2 :> 2 @@ 3 :> 1 @@ 4 :> 5
HeavyRank   == [b \in HeavyBlocks |-> 4 - b]

\* two blocks, the second of them heavy, against one: 0 - 1 - 2, 0 - 3
SmallParent == 1 :> 0 @@ 2 :> 1 @@ 3 :> 0
SmallBlocks == 0..3
SmallHeight == HeightOf(SmallParent, 3)
SmallWork   == 0 :> 0 @@ 1 :> 1 @@ 2 :> 5 @@ 3 :> 2
SmallRank   == [b \in SmallBlocks |-> 3 - b]

NoBlocks   == {}
Block1     == {1}
Block3     == {3}
Block4     == {4}
OneThread  == {t1}
TwoThreads == {t1, t2}
TwoAlike   == Permutations(TwoThreads)
=============================================================================
