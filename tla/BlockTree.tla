------------------------------ MODULE BlockTree ------------------------------
(***************************************************************************)
(* The tree of block headers that the outside world may show to the node,   *)
(* and the operations of CBlockIndex and CChain (chain.h, chain.cpp) that   *)
(* depend on nothing else.  A block is its header hash: its parent, height  *)
(* and cumulative work never change.                                        *)
(***************************************************************************)
EXTENDS Integers, FiniteSets

CONSTANTS
    Blocks,       \* every block that can ever be received
    Genesis,
    Parent,       \* pprev, for every block but Genesis
    Height,       \* nHeight
    Work,         \* nChainWork
    Rank          \* order of the CBlockIndex addresses, the last tie-breaker

ASSUME BlocksAssumption == IsFiniteSet(Blocks) /\ Genesis \in Blocks
ASSUME ParentAssumption == Parent \in [Blocks \ {Genesis} -> Blocks]
ASSUME HeightAssumption ==
    /\ Height \in [Blocks -> Nat]
    /\ \A b \in Blocks \ {Genesis} : Height[b] = Height[Parent[b]] + 1
    /\ Height[Genesis] = 0
\* GetBlockProof is positive for every header that passes CheckProofOfWork.
ASSUME WorkAssumption ==
    /\ Work \in [Blocks -> Nat]
    /\ \A b \in Blocks \ {Genesis} : Work[b] > Work[Parent[b]]
ASSUME RankAssumption ==
    /\ Rank \in [Blocks -> Nat]
    /\ \A a, b \in Blocks : a # b => Rank[a] # Rank[b]

\* S contains the parent of each of its blocks.
ParentClosed(S) == \A c \in S \ {Genesis} : Parent[c] \in S

\* Ancestors[b]: b, its parent, and so on down to Genesis: the vChain that
\* CChain::SetTip(b) builds, and the blocks GetAncestor(h) of b for some h.
Ancestors ==
    [b \in Blocks |->
        {a \in Blocks : \A S \in SUBSET Blocks : b \in S /\ ParentClosed(S) => a \in S}]

\* CBlockIndexWorkComparator()(a, b): a sorts before (is worse than) b, for
\* sequence ids sq.
Worse(sq, a, b) ==
    \/ Work[a] < Work[b]
    \/ Work[a] = Work[b] /\ sq[a] > sq[b]
    \/ Work[a] = Work[b] /\ sq[a] = sq[b] /\ Rank[a] > Rank[b]
=============================================================================
