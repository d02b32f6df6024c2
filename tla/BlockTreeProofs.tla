-------------------------- MODULE BlockTreeProofs --------------------------
(***************************************************************************)
(* The shape of the block tree, for every tree of blocks: what chain.h and   *)
(* main.cpp take for granted of pprev, nHeight and GetAncestor.               *)
(***************************************************************************)
EXTENDS BlockTree, FiniteSetTheorems, WellFoundedInduction, TLAPS

LEMMA AncestorsType ==
    ASSUME NEW b \in Blocks
    PROVE  /\ Ancestors[b] \subseteq Blocks
           /\ b \in Ancestors[b]
           /\ ParentClosed(Ancestors[b])
<1>1. Ancestors[b] = {a \in Blocks : \A S \in SUBSET Blocks : b \in S /\ ParentClosed(S) => a \in S}
  BY DEF Ancestors
<1>2. ASSUME NEW c \in Ancestors[b] \ {Genesis} PROVE Parent[c] \in Ancestors[b]
  <2>1. Parent[c] \in Blocks
    BY <1>1, ParentAssumption
  <2>2. ASSUME NEW S \in SUBSET Blocks, b \in S, ParentClosed(S) PROVE Parent[c] \in S
    BY <1>1, <2>2 DEF ParentClosed
  <2> QED BY <1>1, <2>1, <2>2
<1> QED BY <1>1, <1>2 DEF ParentClosed

LEMMA AncestorsLeast ==
    ASSUME NEW b \in Blocks, NEW S \in SUBSET Blocks, b \in S, ParentClosed(S)
    PROVE  Ancestors[b] \subseteq S
BY DEF Ancestors

LEMMA AncestorsParent ==
    ASSUME NEW n \in Blocks \ {Genesis}
    PROVE  /\ Parent[n] \in Blocks
           /\ Ancestors[n] = Ancestors[Parent[n]] \cup {n}
<1>1. Parent[n] \in Blocks
  BY ParentAssumption
<1>2. ParentClosed(Ancestors[Parent[n]] \cup {n})
  BY <1>1, AncestorsType DEF ParentClosed
<1>3. Ancestors[n] \subseteq Ancestors[Parent[n]] \cup {n}
  BY <1>1, <1>2, AncestorsType, AncestorsLeast
<1>4. Parent[n] \in Ancestors[n]
  BY AncestorsType DEF ParentClosed
<1>5. Ancestors[Parent[n]] \subseteq Ancestors[n]
  BY <1>1, <1>4, AncestorsType, AncestorsLeast
<1> QED BY <1>1, <1>3, <1>5, AncestorsType

LEMMA AncestorsGenesis == Ancestors[Genesis] = {Genesis}
<1>1. ParentClosed({Genesis})
  BY DEF ParentClosed
<1> QED BY <1>1, BlocksAssumption, AncestorsType, AncestorsLeast

\* Every branch goes down to the genesis block: a branch without it would have
\* no lowest block.
LEMMA GenesisIsAncestor ==
    ASSUME NEW b \in Blocks
    PROVE  Genesis \in Ancestors[b]
<1> SUFFICES ASSUME Genesis \notin Ancestors[b] PROVE FALSE
  OBVIOUS
<1> DEFINE H == {Height[a] : a \in Ancestors[b]}
<1>1. H \subseteq Nat /\ H # {}
  BY AncestorsType, HeightAssumption
<1>2. \E h \in H : \A k \in H : ~(<<k, h>> \in OpToRel(<, Nat))
  <2> HIDE DEF H
  <2> QED BY <1>1, NatLessThanWellFounded, WFMin
<1>3. PICK a \in Ancestors[b] : \A k \in H : ~(<<k, Height[a]>> \in OpToRel(<, Nat))
  BY <1>2
<1>4. a \in Blocks \ {Genesis} /\ Parent[a] \in Ancestors[b]
  BY AncestorsType DEF ParentClosed
<1>5. /\ Height[Parent[a]] \in H /\ Height[Parent[a]] \in Nat /\ Height[a] \in Nat
      /\ Height[Parent[a]] < Height[a]
  BY <1>4, HeightAssumption, ParentAssumption
<1>6. <<Height[Parent[a]], Height[a]>> \in OpToRel(<, Nat)
  BY <1>5 DEF OpToRel
<1> QED BY <1>3, <1>5, <1>6

LEMMA AncestorsOfAncestor ==
    ASSUME NEW b \in Blocks, NEW a \in Ancestors[b]
    PROVE  a \in Blocks /\ Ancestors[a] \subseteq Ancestors[b]
  BY AncestorsType, AncestorsLeast

\* Height and work grow along a branch.
LEMMA AncestorIsLower ==
    ASSUME NEW b \in Blocks, NEW a \in Ancestors[b], a # b
    PROVE  Height[a] < Height[b] /\ Work[a] < Work[b]
<1> DEFINE S == {b} \cup {x \in Blocks : Height[x] < Height[b] /\ Work[x] < Work[b]}
<1>1. ASSUME NEW c \in S \ {Genesis} PROVE Parent[c] \in S
  <2>1. /\ c \in Blocks /\ Parent[c] \in Blocks
        /\ Height[c] = Height[Parent[c]] + 1 /\ Work[c] > Work[Parent[c]]
        /\ {Height[b], Height[c], Height[Parent[c]], Work[b], Work[c], Work[Parent[c]]} \subseteq Nat
    BY ParentAssumption, HeightAssumption, WorkAssumption
  <2>2. c = b \/ (Height[c] < Height[b] /\ Work[c] < Work[b])
    OBVIOUS
  <2>3. Height[Parent[c]] < Height[b] /\ Work[Parent[c]] < Work[b]
    BY <2>1, <2>2
  <2> QED BY <2>1, <2>3
<1>2. ParentClosed(S) /\ b \in S /\ S \in SUBSET Blocks
  BY <1>1 DEF ParentClosed
<1> HIDE DEF S
<1>3. a \in S
  BY <1>2, AncestorsLeast
<1> QED BY <1>3 DEF S

\* Two blocks of a branch are one above the other, at different heights.
LEMMA BranchIsChain ==
    ASSUME NEW b \in Blocks, NEW a \in Ancestors[b], NEW c \in Ancestors[b]
    PROVE  /\ a \in Ancestors[c] \/ c \in Ancestors[a]
           /\ Height[a] = Height[c] => a = c
<1> DEFINE A == Ancestors[b]
           S == {x \in A : \A y \in A : x \in Ancestors[y] \/ y \in Ancestors[x]}
<1>1. A \subseteq Blocks /\ b \in A /\ ParentClosed(A)
  BY AncestorsType
<1>2. ASSUME NEW x \in S \ {Genesis} PROVE Parent[x] \in S
  <2>1. x \in A /\ x \in Blocks \ {Genesis} /\ Parent[x] \in A /\ Parent[x] \in Blocks
    BY <1>1 DEF ParentClosed
  <2>2. ASSUME NEW y \in A PROVE Parent[x] \in Ancestors[y] \/ y \in Ancestors[Parent[x]]
    <3>1. CASE x \in Ancestors[y]
      BY <1>1, <2>1, <3>1, AncestorsType DEF ParentClosed
    <3>2. CASE y \in Ancestors[x] /\ x \notin Ancestors[y]
      <4>1. y \in Blocks /\ y # x
        BY <1>1, <3>2, AncestorsType
      <4> QED BY <2>1, <3>2, <4>1, AncestorsParent
    <3> QED BY <3>1, <3>2
  <2> QED BY <2>1, <2>2
<1>3. ParentClosed(S) /\ S \in SUBSET Blocks
  BY <1>1, <1>2 DEF ParentClosed
<1>4. b \in S
  BY <1>1
<1>5. A \subseteq S
  <2> HIDE DEF S
  <2> QED BY <1>3, <1>4, AncestorsLeast
<1>6. a \in Ancestors[c] \/ c \in Ancestors[a]
  BY <1>5
<1>7. Height[a] = Height[c] => a = c
  <2>1. a \in Blocks /\ c \in Blocks /\ Height[a] \in Nat /\ Height[c] \in Nat
    BY <1>1, HeightAssumption
  <2> QED BY <1>6, <2>1, AncestorIsLower
<1> QED BY <1>6, <1>7

\* Below the top of a branch every block has a child on the branch.
LEMMA ChildOnBranch ==
    ASSUME NEW b \in Blocks, NEW a \in Ancestors[b], a # b
    PROVE  \E c \in Ancestors[b] \ {Genesis} : Parent[c] = a
<1> SUFFICES ASSUME \A c \in Ancestors[b] \ {Genesis} : Parent[c] # a PROVE FALSE
  OBVIOUS
<1> DEFINE S == Ancestors[b] \ {a}
<1>1. S \in SUBSET Blocks /\ b \in S /\ ParentClosed(S)
  BY AncestorsType DEF ParentClosed
<1> HIDE DEF S
<1>2. a \in S
  BY <1>1, AncestorsLeast
<1> QED BY <1>2 DEF S

\* A set of blocks of a branch has a highest one.
LEMMA HighestOfBranch ==
    ASSUME NEW b \in Blocks, NEW S \in SUBSET Ancestors[b], S # {}
    PROVE  \E x \in S : \A y \in S : Height[y] <= Height[x]
<1> DEFINE D == {Height[b] - Height[x] : x \in S}
<1>0. \A x \in S : x \in Blocks /\ Height[x] \in Nat /\ Height[b] \in Nat /\ Height[x] <= Height[b]
  BY AncestorsType, AncestorIsLower, HeightAssumption
<1>1. D \subseteq Nat /\ D # {}
  BY <1>0
<1>2. \E d \in D : \A k \in D : ~(<<k, d>> \in OpToRel(<, Nat))
  <2> HIDE DEF D
  <2> QED BY <1>1, NatLessThanWellFounded, WFMin
<1>3. PICK x \in S : \A k \in D : ~(<<k, Height[b] - Height[x]>> \in OpToRel(<, Nat))
  BY <1>2
<1>4. ASSUME NEW y \in S PROVE Height[y] <= Height[x]
  <2>1. Height[b] - Height[y] \in D /\ Height[b] - Height[y] \in Nat /\ Height[b] - Height[x] \in Nat
    BY <1>0
  <2>2. ~(Height[b] - Height[y] < Height[b] - Height[x])
    BY <1>3, <2>1 DEF OpToRel
  <2> QED BY <1>0, <2>1, <2>2
<1> QED BY <1>4

\* A set of blocks has a lowest one.
LEMMA LowestBlock ==
    ASSUME NEW S \in SUBSET Blocks, S # {}
    PROVE  \E x \in S : \A y \in S : Height[x] <= Height[y]
<1> DEFINE H == {Height[x] : x \in S}
<1>1. H \subseteq Nat /\ H # {}
  BY HeightAssumption
<1>2. \E h \in H : \A k \in H : ~(<<k, h>> \in OpToRel(<, Nat))
  <2> HIDE DEF H
  <2> QED BY <1>1, NatLessThanWellFounded, WFMin
<1>3. PICK x \in S : \A k \in H : ~(<<k, Height[x]>> \in OpToRel(<, Nat))
  BY <1>2
<1>4. ASSUME NEW y \in S PROVE Height[x] <= Height[y]
  <2>1. Height[y] \in H /\ Height[y] \in Nat /\ Height[x] \in Nat
    BY HeightAssumption
  <2>2. ~(Height[y] < Height[x])
    BY <1>3, <2>1 DEF OpToRel
  <2> QED BY <2>1, <2>2
<1> QED BY <1>4

\* chainActive[h] exists up to the height of the tip.
LEMMA AncestorAtHeight ==
    ASSUME NEW b \in Blocks, NEW h \in Nat, h <= Height[b]
    PROVE  \E a \in Ancestors[b] : Height[a] = h
<1> DEFINE S == {a \in Ancestors[b] : Height[a] <= h}
<1>1. S \in SUBSET Ancestors[b] /\ Genesis \in S
  BY GenesisIsAncestor, HeightAssumption
<1>2. PICK x \in S : \A y \in S : Height[y] <= Height[x]
  <2> HIDE DEF S
  <2> QED BY <1>1, HighestOfBranch
<1>3. x \in Ancestors[b] /\ x \in Blocks /\ Height[x] \in Nat /\ Height[b] \in Nat /\ Height[x] <= h
  BY AncestorsType, HeightAssumption
<1>4. CASE x = b
  BY <1>3, <1>4
<1>5. CASE x # b
  <2>1. PICK c \in Ancestors[b] \ {Genesis} : Parent[c] = x
    BY <1>3, <1>5, ChildOnBranch
  <2>2. Height[c] = Height[x] + 1
    BY <2>1, AncestorsType, HeightAssumption
  <2>3. c \notin S
    BY <1>2, <1>3, <2>2
  <2>4. ~(Height[c] <= h)
    BY <2>3
  <2> QED BY <1>3, <2>2, <2>4
<1> QED BY <1>4, <1>5

\* CBlockIndexWorkComparator is a strict total order.
LEMMA WorseOrder ==
    ASSUME NEW sq \in [Blocks -> Nat], NEW a \in Blocks, NEW b \in Blocks, NEW c \in Blocks
    PROVE  /\ ~Worse(sq, a, a)
           /\ Worse(sq, a, b) => ~Worse(sq, b, a)
           /\ a # b => Worse(sq, a, b) \/ Worse(sq, b, a)
           /\ ~Worse(sq, a, b) /\ ~Worse(sq, b, c) => ~Worse(sq, a, c)
<1>1. {Work[a], Work[b], Work[c], sq[a], sq[b], sq[c], Rank[a], Rank[b], Rank[c]} \subseteq Nat
  BY WorkAssumption, RankAssumption
<1>2. a # b => Rank[a] # Rank[b]
  BY RankAssumption
<1> QED BY <1>1, <1>2 DEF Worse

LEMMA MoreWorkNotWorse ==
    ASSUME NEW sq, NEW a \in Blocks, NEW b \in Blocks, Work[b] < Work[a]
    PROVE  ~Worse(sq, a, b) /\ Worse(sq, b, a)
<1>1. {Work[a], Work[b]} \subseteq Nat
  BY WorkAssumption
<1> QED BY <1>1 DEF Worse

\* Of two blocks of a branch, the higher one is above the lower one.
LEMMA OnBranchAbove ==
    ASSUME NEW c \in Blocks, NEW a \in Ancestors[c], NEW x \in Ancestors[c], Height[x] > Height[a]
    PROVE  /\ x \in Blocks /\ a \in Ancestors[x] /\ x # Genesis
           /\ Ancestors[a] \subseteq Ancestors[x] /\ Ancestors[x] \subseteq Ancestors[c]
<1>1. x \in Blocks /\ a \in Blocks /\ Ancestors[x] \subseteq Ancestors[c]
  BY AncestorsOfAncestor
<1>2. ~(Height[x] < Height[a]) /\ x # a
  BY <1>1, HeightAssumption
<1>3. x \notin Ancestors[a]
  BY <1>1, <1>2, AncestorIsLower
<1>4. a \in Ancestors[x]
  BY <1>3, BranchIsChain
<1> QED BY <1>1, <1>2, <1>4, AncestorsOfAncestor, AncestorsGenesis
=============================================================================
