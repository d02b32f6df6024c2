------------------------ MODULE BlockDownloadProofs ------------------------
(***************************************************************************)
(* The download bookkeeping for every block tree, any number of peers and    *)
(* any limits: the lists, the map and the counters agree, only a peer that   *)
(* owes a block is timed as stalling, and download does not stand still.     *)
(***************************************************************************)
EXTENDS BlockDownload, BlockTreeProofs

QueuedBlock == [hash : Blocks, fValidatedHeaders : BOOLEAN]

Validated(v)   == {e \in v : e.fValidatedHeaders}
Downloading(m) == {p \in DOMAIN m : m[p].nBlocksInFlightValidHeaders > 0}
Nice(m)        == {p \in DOMAIN m : m[p].fPreferredDownload}

\* A CNodeState whose counters count its list, in which a block is at most once
Counted(st) ==
    /\ st \in CNodeState
    /\ \A e, f \in st.vBlocksInFlight : e.hash = f.hash => e = f
    /\ st.nBlocksInFlight = Cardinality(st.vBlocksInFlight)
    /\ st.nBlocksInFlightValidHeaders = Cardinality(Validated(st.vBlocksInFlight))
    /\ st.stalling => st.vBlocksInFlight # {}

Types ==
    /\ known \subseteq Blocks /\ have \subseteq known /\ failed \subseteq Blocks
    /\ tip \in Linked
    /\ Connected \subseteq Peers /\ mapNodeState \in [Connected -> CNodeState]
    /\ InFlight \subseteq Blocks /\ mapBlocksInFlight \in [InFlight -> Connected]
    /\ greeted \subseteq Connected /\ fDisconnect \subseteq Connected
    /\ connects \in [Peers -> Nat]

\* The lists of the nodes and mapBlocksInFlight
Lists ==
    /\ \A p \in Connected : \A e \in mapNodeState[p].vBlocksInFlight : Requested(p, e.hash)
    /\ \A b \in InFlight : \E e \in mapNodeState[mapBlocksInFlight[b]].vBlocksInFlight : e.hash = b

Totals ==
    /\ nPeersWithValidatedDownloads = Cardinality(Downloading(mapNodeState))
    /\ nPreferredDownload = Cardinality(Nice(mapNodeState))
    /\ \A p \in Connected : mapNodeState[p].fPreferredDownload => p \in greeted

IInv ==
    /\ Types /\ Lists /\ Totals /\ InFlightMissing /\ LastCommonIsCommon
    /\ \A p \in Connected : Counted(mapNodeState[p])

-----------------------------------------------------------------------------
(* Counting *)

LEMMA DisjointUnion ==
    ASSUME NEW S, IsFiniteSet(S), NEW T, IsFiniteSet(T), S \cap T = {}
    PROVE  Cardinality(S \cup T) = Cardinality(S) + Cardinality(T)
<1>1. Cardinality(S \cup T) = Cardinality(S) + Cardinality(T) - Cardinality(S \cap T)
  BY FS_Union
<1>2. Cardinality(S \cap T) = 0 /\ Cardinality(S) \in Nat /\ Cardinality(T) \in Nat
  BY FS_EmptySet, FS_CardinalityType
<1> QED BY <1>1, <1>2

\* The blocks of a node's list
Hashes(v) == {e.hash : e \in v}

Distinct(v) == \A e, f \in v : e.hash = f.hash => e = f

LEMMA ListFacts ==
    ASSUME NEW v \in SUBSET QueuedBlock, Distinct(v)
    PROVE  /\ IsFiniteSet(v) /\ Cardinality(v) \in Nat
           /\ Hashes(v) \subseteq Blocks /\ Cardinality(Hashes(v)) = Cardinality(v)
           /\ IsFiniteSet(Validated(v)) /\ Cardinality(Validated(v)) \in Nat
           /\ Cardinality(Validated(v)) <= Cardinality(v)
           /\ Cardinality(Validated(v)) = 0 <=> Validated(v) = {}
           /\ Cardinality(v) = 0 <=> v = {}
<1> DEFINE f == [e \in v |-> e.hash]
<1>1. Hashes(v) \subseteq Blocks
  BY DEF Hashes, QueuedBlock
<1>2. f \in Bijection(v, Hashes(v))
  <2>1. f \in [v -> Hashes(v)]
    BY DEF Hashes
  <2>2. \A a, b \in v : f[a] = f[b] => a = b
    BY DEF Distinct
  <2>3. \A t \in Hashes(v) : \E e \in v : f[e] = t
    BY DEF Hashes
  <2> QED BY <2>1, <2>2, <2>3 DEF Bijection, Injection, Surjection, IsInjective
<1>3. IsFiniteSet(Hashes(v))
  BY <1>1, BlocksAssumption, FS_Subset
<1>4. f \in Injection(v, Hashes(v)) /\ f \in Surjection(v, Hashes(v))
  BY <1>2 DEF Bijection
<1>5. IsFiniteSet(v) /\ Cardinality(v) = Cardinality(Hashes(v))
  BY <1>3, <1>4, FS_Injection
<1>6. Validated(v) \in SUBSET v
  BY DEF Validated
<1>7. IsFiniteSet(Validated(v)) /\ Cardinality(Validated(v)) <= Cardinality(v)
  BY <1>5, <1>6, FS_Subset
<1> QED BY <1>1, <1>5, <1>7, FS_CardinalityType, FS_EmptySet

\* The entries that MarkBlockAsInFlight adds for S
LEMMA NewEntries ==
    ASSUME NEW S \in SUBSET Blocks, NEW x \in BOOLEAN
    PROVE  LET T == {[hash |-> b, fValidatedHeaders |-> x] : b \in S}
           IN  /\ T \in SUBSET QueuedBlock /\ Distinct(T) /\ Hashes(T) = S
               /\ IsFiniteSet(T) /\ Cardinality(T) = Cardinality(S) /\ Cardinality(S) \in Nat
               /\ Validated(T) = (IF x THEN T ELSE {})
               /\ T = {} <=> S = {}
<1> DEFINE T == {[hash |-> b, fValidatedHeaders |-> x] : b \in S}
<1>1. T \in SUBSET QueuedBlock /\ Distinct(T)
  BY DEF QueuedBlock, Distinct
<1>2. Hashes(T) = S
  <2>1. \A e \in T : e.hash \in S
    OBVIOUS
  <2>2. ASSUME NEW b \in S PROVE \E e \in T : e.hash = b
    <3>1. [hash |-> b, fValidatedHeaders |-> x] \in T
      OBVIOUS
    <3> QED BY <3>1
  <2> HIDE DEF T
  <2> QED BY <2>1, <2>2 DEF Hashes
<1>3. Validated(T) = IF x THEN T ELSE {}
  BY DEF Validated
<1>4. T = {} <=> S = {}
  OBVIOUS
<1> HIDE DEF T
<1>5. IsFiniteSet(T) /\ Cardinality(T) = Cardinality(S) /\ Cardinality(S) \in Nat
  BY <1>1, <1>2, ListFacts
<1> QED BY <1>1, <1>2, <1>3, <1>4, <1>5 DEF T

\* Of blocks on one branch, Lowest(S, n) takes n at most: the number of blocks of S
\* below a block tells those taken apart.
LEMMA LowestFacts ==
    ASSUME NEW b \in Blocks, NEW S \in SUBSET Ancestors[b], NEW n \in Nat
    PROVE  /\ Lowest(S, n) \subseteq S /\ IsFiniteSet(Lowest(S, n))
           /\ Cardinality(Lowest(S, n)) \in Nat /\ Cardinality(Lowest(S, n)) <= n
<1> DEFINE Under(x) == {c \in S : Height[c] < Height[x]}
           L == Lowest(S, n)
           f == [x \in L |-> Cardinality(Under(x))]
<1>0. S \subseteq Blocks /\ IsFiniteSet(S) /\ \A x \in S : Height[x] \in Nat
  <2>1. S \in SUBSET Blocks
    BY AncestorsType
  <2> QED BY <2>1, BlocksAssumption, FS_Subset, HeightAssumption
<1>1. \A x \in S : IsFiniteSet(Under(x)) /\ Cardinality(Under(x)) \in Nat
  <2> SUFFICES ASSUME NEW x \in S PROVE IsFiniteSet(Under(x)) /\ Cardinality(Under(x)) \in Nat
    OBVIOUS
  <2>1. Under(x) \in SUBSET S
    OBVIOUS
  <2> HIDE DEF Under
  <2> QED BY <1>0, <2>1, FS_Subset, FS_CardinalityType
<1>2. L \subseteq S /\ \A x \in L : Cardinality(Under(x)) < n
  BY DEF Lowest
<1>3. ASSUME NEW x \in S, NEW y \in S, Height[x] < Height[y]
      PROVE  Cardinality(Under(x)) < Cardinality(Under(y))
  <2>1. Under(x) \in SUBSET Under(y) /\ Under(x) # Under(y)
    <3>1. \A c \in S : Height[c] < Height[x] => Height[c] < Height[y]
      BY <1>0, <1>3
    <3>2. x \in Under(y) /\ x \notin Under(x)
      BY <1>0, <1>3
    <3> QED BY <3>1, <3>2
  <2> HIDE DEF Under
  <2>2. /\ Cardinality(Under(x)) <= Cardinality(Under(y))
        /\ Cardinality(Under(x)) # Cardinality(Under(y))
    BY <1>1, <2>1, FS_Subset
  <2> QED BY <1>1, <2>2
<1>4. \A x, y \in S : Cardinality(Under(x)) = Cardinality(Under(y)) => x = y
  <2> SUFFICES ASSUME NEW x \in S, NEW y \in S, Cardinality(Under(x)) = Cardinality(Under(y))
               PROVE  x = y
    OBVIOUS
  <2> HIDE DEF Under
  <2>1. ~(Height[x] < Height[y]) /\ ~(Height[y] < Height[x])
    BY <1>1, <1>3
  <2>2. Height[x] = Height[y]
    BY <1>0, <2>1
  <2> QED BY <2>2, BranchIsChain
<1> HIDE DEF Under
<1>5. f \in Injection(L, 0..(n - 1))
  <2>1. f \in [L -> 0..(n - 1)]
    BY <1>1, <1>2
  <2>2. \A x, y \in L : f[x] = f[y] => x = y
    BY <1>2, <1>4
  <2> QED BY <2>1, <2>2 DEF Injection, IsInjective
<1>6. IsFiniteSet(0..(n - 1)) /\ Cardinality(0..(n - 1)) = n
  <2>1. 0 \in Int /\ n - 1 \in Int
    OBVIOUS
  <2>2. /\ IsFiniteSet(0..(n - 1))
        /\ Cardinality(0..(n - 1)) = IF 0 > n - 1 THEN 0 ELSE (n - 1) - 0 + 1
    BY <2>1, FS_Interval
  <2> QED BY <2>2
<1> HIDE DEF f
<1>7. IsFiniteSet(L) /\ Cardinality(L) <= n
  <2> HIDE DEF L
  <2> QED BY <1>5, <1>6, FS_Injection
<1> QED BY <1>2, <1>7, FS_CardinalityType

-----------------------------------------------------------------------------
(* One node *)

\* What ProcessBlockAvailability and UpdateBlockAvailability may change
SameDownloads(s, st) ==
    /\ s \in CNodeState
    /\ s.vBlocksInFlight = st.vBlocksInFlight /\ s.nBlocksInFlight = st.nBlocksInFlight
    /\ s.nBlocksInFlightValidHeaders = st.nBlocksInFlightValidHeaders
    /\ s.stalling = st.stalling /\ s.common = st.common
    /\ s.fPreferredDownload = st.fPreferredDownload
    /\ st.best # NoBlock => s.best # NoBlock

LEMMA AvailabilityFacts ==
    ASSUME NEW st \in CNodeState, known \subseteq Blocks
    PROVE  SameDownloads(ProcessBlockAvailability(st), st)
<1>1. CASE st.unknown \notin known
  BY <1>1 DEF ProcessBlockAvailability, SameDownloads
<1>2. CASE st.unknown \in known
  <2>1. st.unknown \in Blocks /\ NoBlock \notin Blocks
    BY <1>2, PeersAssumption
  <2> QED BY <1>2, <2>1 DEF ProcessBlockAvailability, SameDownloads, CNodeState
<1> QED BY <1>1, <1>2

LEMMA UpdateFacts ==
    ASSUME NEW st \in CNodeState, known \subseteq Blocks, NEW b \in Blocks, NEW k
    PROVE  SameDownloads(UpdateBlockAvailability(st, b, k), st)
<1> DEFINE s == ProcessBlockAvailability(st)
<1>1. SameDownloads(s, st)
  BY AvailabilityFacts
<1>2. b # NoBlock
  BY PeersAssumption
<1> HIDE DEF s
<1>3. UpdateBlockAvailability(st, b, k) =
        IF b \notin k THEN [s EXCEPT !.unknown = b]
        ELSE IF Better(s, b) THEN [s EXCEPT !.best = b]
        ELSE s
  BY DEF UpdateBlockAvailability, s
<1> QED BY <1>1, <1>2, <1>3 DEF SameDownloads, CNodeState

LEMMA SameDownloadsCounted ==
    ASSUME NEW st, NEW s, Counted(st), SameDownloads(s, st)
    PROVE  Counted(s)
  BY DEF Counted, SameDownloads

\* MarkBlockAsInFlight may be called for S, and what it makes of st
MayMark(st, S, x) ==
    /\ Counted(st) /\ S \in SUBSET Blocks /\ x \in BOOLEAN
    /\ S \cap Hashes(st.vBlocksInFlight) = {}
    /\ st.nBlocksInFlight + Cardinality(S) <= MaxInTransit

Marked(s, st, S, x) ==
    /\ Counted(s)
    /\ Hashes(s.vBlocksInFlight) = Hashes(st.vBlocksInFlight) \cup S
    /\ s.fPreferredDownload = st.fPreferredDownload
    /\ s.common = st.common /\ s.best = st.best
    /\ s.nBlocksInFlightValidHeaders > 0 <=> st.nBlocksInFlightValidHeaders > 0 \/ (x = TRUE /\ S # {})
    /\ st.vBlocksInFlight \subseteq s.vBlocksInFlight

\* MarkBlockAsInFlight for blocks that are not in the list
LEMMA MarkCounted ==
    ASSUME NEW p, NEW st, NEW S, NEW x, MayMark(st, S, x),
           NEW s, s = MarkBlocksAsInFlight(p, st, S, x)
    PROVE  Marked(s, st, S, x)
<1> USE DEF MayMark
<1> DEFINE T == {[hash |-> b, fValidatedHeaders |-> x] : b \in S}
           v == st.vBlocksInFlight
           w == v \cup T
<1>0. /\ st \in CNodeState /\ v \in SUBSET QueuedBlock /\ Distinct(v)
      /\ st.nBlocksInFlight = Cardinality(v)
      /\ st.nBlocksInFlightValidHeaders = Cardinality(Validated(v))
      /\ MaxInTransit \in Nat
  BY LimitsAssumption DEF Counted, CNodeState, QueuedBlock, Distinct
<1>1. /\ T \in SUBSET QueuedBlock /\ Distinct(T) /\ Hashes(T) = S
      /\ IsFiniteSet(T) /\ Cardinality(T) = Cardinality(S) /\ Cardinality(S) \in Nat
      /\ Validated(T) = (IF x THEN T ELSE {})
      /\ T = {} <=> S = {}
  BY NewEntries
<1>2. s = [st EXCEPT !.vBlocksInFlight = w,
                     !.nBlocksInFlight = st.nBlocksInFlight + Cardinality(S),
                     !.nBlocksInFlightValidHeaders =
                         st.nBlocksInFlightValidHeaders + (IF x THEN Cardinality(S) ELSE 0)]
  BY DEF MarkBlocksAsInFlight
<1> HIDE DEF T
<1>3. v \cap T = {}
  BY <1>1 DEF Hashes
<1>4. w \in SUBSET QueuedBlock /\ Distinct(w)
  BY <1>0, <1>1 DEF Distinct, Hashes
<1>5. Hashes(w) = Hashes(v) \cup S
  BY <1>1 DEF Hashes
<1>6. Cardinality(w) = Cardinality(v) + Cardinality(S)
  <2>1. IsFiniteSet(v) /\ Cardinality(v) \in Nat
    BY <1>0, ListFacts
  <2>2. Cardinality(w) = Cardinality(v) + Cardinality(T)
    BY <1>1, <1>3, <2>1, DisjointUnion
  <2> QED BY <1>1, <2>2
<1>7. Cardinality(Validated(w)) = Cardinality(Validated(v)) + (IF x THEN Cardinality(S) ELSE 0)
  <2>0. IsFiniteSet(Validated(v)) /\ Cardinality(Validated(v)) \in Nat
    BY <1>0, ListFacts
  <2>1. Validated(w) = Validated(v) \cup Validated(T)
    BY DEF Validated
  <2>2. CASE x = TRUE
    <3>1. Validated(w) = Validated(v) \cup T /\ Validated(v) \cap T = {}
      BY <1>1, <1>3, <2>1, <2>2 DEF Validated
    <3>2. Cardinality(Validated(w)) = Cardinality(Validated(v)) + Cardinality(T)
      BY <1>1, <2>0, <3>1, DisjointUnion
    <3> QED BY <1>1, <2>2, <3>2
  <2>3. CASE x = FALSE
    <3>1. Validated(w) = Validated(v)
      BY <1>1, <2>1, <2>3
    <3> QED BY <2>0, <2>3, <3>1
  <2> QED BY <2>2, <2>3
<1>8. Cardinality(Validated(w)) <= Cardinality(w) /\ Cardinality(Validated(w)) \in Nat
      /\ Cardinality(v) \in Nat /\ Cardinality(Validated(v)) \in Nat
  BY <1>0, <1>4, ListFacts
<1>9. Cardinality(w) \in 0..MaxInTransit /\ Cardinality(Validated(w)) \in 0..MaxInTransit
  BY <1>0, <1>1, <1>6, <1>8
<1>10. /\ s.vBlocksInFlight = w /\ s.nBlocksInFlight = Cardinality(w)
       /\ s.nBlocksInFlightValidHeaders = Cardinality(Validated(w))
       /\ s.stalling = st.stalling /\ s.common = st.common /\ s.best = st.best
       /\ s.fPreferredDownload = st.fPreferredDownload
       /\ s \in CNodeState
  <2>1. /\ s.vBlocksInFlight = w
        /\ s.nBlocksInFlight = st.nBlocksInFlight + Cardinality(S)
        /\ s.nBlocksInFlightValidHeaders =
              st.nBlocksInFlightValidHeaders + (IF x THEN Cardinality(S) ELSE 0)
        /\ s.stalling = st.stalling /\ s.common = st.common /\ s.best = st.best
        /\ s.fPreferredDownload = st.fPreferredDownload
    BY <1>0, <1>2 DEF CNodeState
  <2>2. s.nBlocksInFlight = Cardinality(w) /\ s.nBlocksInFlightValidHeaders = Cardinality(Validated(w))
    BY <1>0, <1>6, <1>7, <2>1
  <2>3. s = [st EXCEPT !.vBlocksInFlight = w, !.nBlocksInFlight = Cardinality(w),
                       !.nBlocksInFlightValidHeaders = Cardinality(Validated(w))]
    BY <1>0, <1>2, <1>6, <1>7
  <2>4. s \in CNodeState
    BY <1>0, <1>4, <1>9, <2>3 DEF CNodeState, QueuedBlock
  <2> QED BY <2>1, <2>2, <2>4
<1>11. Counted(s)
  BY <1>4, <1>10 DEF Counted, Distinct
<1>12. Cardinality(Validated(w)) > 0 <=> Cardinality(Validated(v)) > 0 \/ (x = TRUE /\ S # {})
  <2>1. Cardinality(S) = 0 <=> S = {}
    <3>1. IsFiniteSet(S)
      BY BlocksAssumption, FS_Subset
    <3> QED BY <3>1, FS_EmptySet
  <2> QED BY <1>1, <1>7, <1>8, <2>1
<1> QED BY <1>0, <1>5, <1>10, <1>11, <1>12 DEF Marked

LEMMA LinkedFacts ==
    /\ Linked \subseteq have
    /\ have \subseteq have' => Linked \subseteq Linked'
    /\ have' = have => Linked' = Linked
  BY DEF Linked

LEMMA TotalsFacts ==
    ASSUME IInv
    PROVE  /\ IsFiniteSet(Downloading(mapNodeState)) /\ IsFiniteSet(Nice(mapNodeState))
           /\ nPeersWithValidatedDownloads \in Nat /\ nPreferredDownload \in Nat
<1>1. Downloading(mapNodeState) \in SUBSET Peers /\ Nice(mapNodeState) \in SUBSET Peers
  BY DEF IInv, Types, Connected, Downloading, Nice
<1>2. IsFiniteSet(Downloading(mapNodeState)) /\ IsFiniteSet(Nice(mapNodeState))
  BY <1>1, PeersAssumption, FS_Subset
<1> QED BY <1>2, FS_CardinalityType DEF IInv, Totals

\* s differs from the state of p in what p has, and what of it we have, at most.
Ready(s, p) ==
    /\ Counted(s)
    /\ s.vBlocksInFlight = mapNodeState[p].vBlocksInFlight
    /\ s.nBlocksInFlight = mapNodeState[p].nBlocksInFlight
    /\ s.nBlocksInFlightValidHeaders = mapNodeState[p].nBlocksInFlightValidHeaders
    /\ s.fPreferredDownload = mapNodeState[p].fPreferredDownload
    /\ s.common # NoBlock => s.common \in Linked /\ s.best # NoBlock

\* The state of p becomes s, and a peer that owes a block may be stalling.
NodesAfter(p, s) ==
    /\ DOMAIN mapNodeState' = Connected
    /\ mapNodeState' = [q \in DOMAIN mapNodeState' |-> mapNodeState'[q]]
    /\ mapNodeState'[p] = s
    /\ \A q \in Connected : q # p =>
          \/ mapNodeState'[q] = mapNodeState[q]
          \/ /\ mapNodeState[q].vBlocksInFlight # {}
             /\ mapNodeState'[q] = [mapNodeState[q] EXCEPT !.stalling = TRUE]

\* A step that asks p for the blocks S
LEMMA RequestKeeps ==
    ASSUME IInv, NEW p \in Connected, NEW st, Ready(st, p),
           NEW S \in SUBSET Blocks, NEW x \in BOOLEAN,
           S \cap (InFlight \cup have) = {},
           st.nBlocksInFlight + Cardinality(S) <= MaxInTransit,
           NodesAfter(p, MarkBlocksAsInFlight(p, st, S, x)),
           mapBlocksInFlight' = InFlightWith(p, S),
           nPeersWithValidatedDownloads' = ValidatedPeersWith(st, S, x),
           known \subseteq known', known' \subseteq Blocks, fDisconnect' \subseteq Connected,
           UNCHANGED <<have, failed, tip, greeted, connects, nPreferredDownload>>
    PROVE  IInv'
<1> USE DEF Ready, NodesAfter
<1> DEFINE new == MarkBlocksAsInFlight(p, st, S, x)
<1>0. /\ Types /\ Lists /\ Totals /\ InFlightMissing /\ LastCommonIsCommon
      /\ \A q \in Connected : Counted(mapNodeState[q])
      /\ Connected' = Connected /\ InFlight' = InFlight \cup S
      /\ \A b \in S : mapBlocksInFlight'[b] = p
      /\ \A b \in InFlight : b \notin S /\ mapBlocksInFlight'[b] = mapBlocksInFlight[b]
  BY DEF IInv, Connected, InFlight, InFlightWith
<1>1. S \cap Hashes(st.vBlocksInFlight) = {}
  BY <1>0 DEF Lists, Requested, Hashes
<1>2. /\ Counted(new)
      /\ Hashes(new.vBlocksInFlight) = Hashes(st.vBlocksInFlight) \cup S
      /\ new.fPreferredDownload = st.fPreferredDownload
      /\ new.common = st.common /\ new.best = st.best
      /\ new.nBlocksInFlightValidHeaders > 0 <=> st.nBlocksInFlightValidHeaders > 0 \/ (x = TRUE /\ S # {})
      /\ st.vBlocksInFlight \subseteq new.vBlocksInFlight
  <2>1. MayMark(st, S, x)
    BY <1>1 DEF MayMark
  <2>2. \A s : s = MarkBlocksAsInFlight(p, st, S, x) => Marked(s, st, S, x)
    BY <2>1, MarkCounted, Zenon
  <2>3. Marked(new, st, S, x)
    BY <2>2
  <2> QED BY <2>3 DEF Marked
<1> HIDE DEF new
<1>3. mapNodeState'[p] = new
  BY DEF new
<1>4. \A q \in Connected : q # p =>
        /\ mapNodeState'[q].vBlocksInFlight = mapNodeState[q].vBlocksInFlight
        /\ mapNodeState'[q].nBlocksInFlightValidHeaders = mapNodeState[q].nBlocksInFlightValidHeaders
        /\ mapNodeState'[q].fPreferredDownload = mapNodeState[q].fPreferredDownload
        /\ mapNodeState'[q].common = mapNodeState[q].common
        /\ mapNodeState'[q].best = mapNodeState[q].best
        /\ Counted(mapNodeState'[q])
  <2> SUFFICES ASSUME NEW q \in Connected, q # p
               PROVE  /\ mapNodeState'[q].vBlocksInFlight = mapNodeState[q].vBlocksInFlight
                      /\ mapNodeState'[q].nBlocksInFlightValidHeaders = mapNodeState[q].nBlocksInFlightValidHeaders
                      /\ mapNodeState'[q].fPreferredDownload = mapNodeState[q].fPreferredDownload
                      /\ mapNodeState'[q].common = mapNodeState[q].common
                      /\ mapNodeState'[q].best = mapNodeState[q].best
                      /\ Counted(mapNodeState'[q])
    OBVIOUS
  <2>0. Counted(mapNodeState[q])
    BY <1>0
  <2>1. CASE mapNodeState'[q] = mapNodeState[q]
    BY <2>0, <2>1
  <2>2. CASE /\ mapNodeState[q].vBlocksInFlight # {}
             /\ mapNodeState'[q] = [mapNodeState[q] EXCEPT !.stalling = TRUE]
    BY <2>0, <2>2 DEF Counted, CNodeState
  <2> QED BY <2>1, <2>2
<1>5. \A q \in Connected : Counted(mapNodeState'[q])
  BY <1>2, <1>3, <1>4
<1>6. Types'
  <2>1. mapNodeState' \in [Connected' -> CNodeState]
    BY <1>0, <1>5 DEF Counted, Connected
  <2>2. mapBlocksInFlight' \in [InFlight' -> Connected']
    BY <1>0 DEF InFlightWith, Types, InFlight
  <2>3. Linked' = Linked
    BY LinkedFacts
  <2> QED BY <1>0, <2>1, <2>2, <2>3 DEF Types
<1>7. Lists'
  <2>1. ASSUME NEW q \in Connected, NEW e \in mapNodeState'[q].vBlocksInFlight
        PROVE  Requested(q, e.hash)'
    <3>1. CASE q # p
      BY <1>0, <1>4, <2>1, <3>1 DEF Lists, Requested
    <3>2. CASE q = p
      <4>1. e.hash \in Hashes(mapNodeState[p].vBlocksInFlight) \cup S
        BY <1>2, <1>3, <2>1, <3>2 DEF Hashes
      <4>2. \A h \in Hashes(mapNodeState[p].vBlocksInFlight) : Requested(p, h)
        BY <1>0 DEF Lists, Hashes
      <4> QED BY <1>0, <3>2, <4>1, <4>2 DEF Requested
    <3> QED BY <3>1, <3>2
  <2>2. ASSUME NEW b \in InFlight'
        PROVE  \E e \in mapNodeState'[mapBlocksInFlight'[b]].vBlocksInFlight : e.hash = b
    <3>1. CASE b \in S
      <4>1. b \in Hashes(new.vBlocksInFlight) /\ mapBlocksInFlight'[b] = p
        BY <1>0, <1>2, <3>1
      <4> QED BY <1>3, <4>1 DEF Hashes
    <3>2. CASE b \in InFlight
      <4>1. PICK e \in mapNodeState[mapBlocksInFlight[b]].vBlocksInFlight : e.hash = b
        BY <1>0, <3>2 DEF Lists
      <4>2. mapBlocksInFlight'[b] = mapBlocksInFlight[b] /\ mapBlocksInFlight[b] \in Connected
        BY <1>0, <3>2 DEF Types
      <4>3. e \in mapNodeState'[mapBlocksInFlight[b]].vBlocksInFlight
        BY <1>2, <1>3, <1>4, <4>1, <4>2
      <4> QED BY <4>1, <4>2, <4>3
    <3> QED BY <1>0, <3>1, <3>2
  <2> QED BY <1>0, <2>1, <2>2 DEF Lists
<1>8. Totals'
  <2>1. Nice(mapNodeState') = Nice(mapNodeState)
    BY <1>0, <1>2, <1>3, <1>4 DEF Nice, Connected
  <2>2. \A q \in Connected' : mapNodeState'[q].fPreferredDownload => q \in greeted'
    BY <1>0, <1>2, <1>3, <1>4 DEF Totals
  <2>3. nPeersWithValidatedDownloads' = Cardinality(Downloading(mapNodeState'))
    <3>0. st.nBlocksInFlightValidHeaders \in Nat
      BY LimitsAssumption DEF Counted, CNodeState
    <3>1. CASE x /\ S # {} /\ st.nBlocksInFlightValidHeaders = 0
      <4>1. Downloading(mapNodeState') = Downloading(mapNodeState) \cup {p}
        BY <1>0, <1>2, <1>3, <1>4, <3>1 DEF Downloading, Connected
      <4>2. p \notin Downloading(mapNodeState)
        <5>1. ~(mapNodeState[p].nBlocksInFlightValidHeaders > 0)
          BY <3>1
        <5> QED BY <5>1 DEF Downloading
      <4>3. nPeersWithValidatedDownloads' = nPeersWithValidatedDownloads + 1
        BY <3>1, TotalsFacts DEF ValidatedPeersWith
      <4>4. Cardinality(Downloading(mapNodeState) \cup {p}) = Cardinality(Downloading(mapNodeState)) + 1
        BY <4>2, TotalsFacts, FS_AddElement
      <4> QED BY <1>0, <4>1, <4>3, <4>4 DEF Totals
    <3>2. CASE ~(x /\ S # {} /\ st.nBlocksInFlightValidHeaders = 0)
      <4>1. new.nBlocksInFlightValidHeaders > 0 <=> st.nBlocksInFlightValidHeaders > 0
        BY <1>2, <3>0, <3>2
      <4>2. Downloading(mapNodeState') = Downloading(mapNodeState)
        BY <1>0, <1>3, <1>4, <4>1 DEF Downloading, Connected
      <4>3. nPeersWithValidatedDownloads' = nPeersWithValidatedDownloads
        BY <3>2, TotalsFacts DEF ValidatedPeersWith
      <4> QED BY <1>0, <4>2, <4>3 DEF Totals
    <3> QED BY <3>1, <3>2
  <2> QED BY <1>0, <2>1, <2>2, <2>3 DEF Totals
<1>9. InFlightMissing'
  BY <1>0 DEF InFlightMissing
<1>10. LastCommonIsCommon'
  <2>1. Linked' = Linked
    BY LinkedFacts
  <2> QED BY <1>0, <1>2, <1>3, <1>4, <2>1 DEF LastCommonIsCommon
<1> QED BY <1>0, <1>5, <1>6, <1>7, <1>8, <1>9, <1>10 DEF IInv, Counted, CNodeState, Validated

-----------------------------------------------------------------------------
(* A block comes *)

\* What MarkBlockAsReceived makes of nBlocksInFlightValidHeaders and of the node
Left(st, e) == st.nBlocksInFlightValidHeaders - (IF e.fValidatedHeaders THEN 1 ELSE 0)
Unmark(st, e, left) ==
    [st EXCEPT !.vBlocksInFlight = @ \ {e}, !.nBlocksInFlight = @ - 1,
               !.nBlocksInFlightValidHeaders = left, !.stalling = FALSE]

Unmarked(s, st, e, left) ==
    /\ Counted(s) /\ s.vBlocksInFlight = st.vBlocksInFlight \ {e}
    /\ s.fPreferredDownload = st.fPreferredDownload
    /\ s.common = st.common /\ s.best = st.best
    /\ s.nBlocksInFlightValidHeaders = left /\ left \in Nat
    /\ st.nBlocksInFlightValidHeaders \in Nat
    /\ left = st.nBlocksInFlightValidHeaders - (IF e.fValidatedHeaders THEN 1 ELSE 0)

\* An entry leaves the list, and nStallingSince is reset.
LEMMA UnmarkCounted ==
    ASSUME NEW st, Counted(st), NEW e \in st.vBlocksInFlight,
           NEW left, left = Left(st, e), NEW s, s = Unmark(st, e, left)
    PROVE  Unmarked(s, st, e, left)
<1> USE DEF Left, Unmark
<1> DEFINE v == st.vBlocksInFlight
           w == v \ {e}
<1>0. /\ st \in CNodeState /\ v \in SUBSET QueuedBlock /\ Distinct(v)
      /\ st.nBlocksInFlight = Cardinality(v)
      /\ st.nBlocksInFlightValidHeaders = Cardinality(Validated(v))
      /\ MaxInTransit \in Nat /\ e.fValidatedHeaders \in BOOLEAN
      /\ st.nBlocksInFlight \in 0..MaxInTransit /\ st.nBlocksInFlightValidHeaders \in 0..MaxInTransit
  BY LimitsAssumption DEF Counted, CNodeState, QueuedBlock, Distinct
<1>1. w \in SUBSET QueuedBlock /\ Distinct(w)
  BY <1>0 DEF Distinct
<1>2. Cardinality(w) = Cardinality(v) - 1 /\ Cardinality(v) \in Nat /\ Cardinality(w) \in Nat
  <2>1. IsFiniteSet(v) /\ Cardinality(v) \in Nat
    BY <1>0, ListFacts
  <2>2. Cardinality(w) = IF e \in v THEN Cardinality(v) - 1 ELSE Cardinality(v)
    BY <2>1, FS_RemoveElement
  <2>3. Cardinality(w) \in Nat
    BY <1>1, ListFacts
  <2> QED BY <2>1, <2>2, <2>3
<1>3. Cardinality(Validated(w)) = left /\ left \in Nat
  <2>0. IsFiniteSet(Validated(v)) /\ Cardinality(Validated(v)) \in Nat
    BY <1>0, ListFacts
  <2>1. Validated(w) = Validated(v) \ {e}
    BY DEF Validated
  <2>2. e \in Validated(v) <=> e.fValidatedHeaders
    BY DEF Validated
  <2>3. Cardinality(Validated(v) \ {e}) =
          IF e \in Validated(v) THEN Cardinality(Validated(v)) - 1 ELSE Cardinality(Validated(v))
    BY <2>0, FS_RemoveElement
  <2>4. Cardinality(Validated(w)) \in Nat
    BY <1>1, ListFacts
  <2>5. CASE e.fValidatedHeaders
    BY <1>0, <2>0, <2>1, <2>2, <2>3, <2>4, <2>5
  <2>6. CASE ~e.fValidatedHeaders
    <3>1. left = st.nBlocksInFlightValidHeaders
      BY <1>0, <2>6
    <3>2. e \notin Validated(v)
      BY <2>2, <2>6
    <3>3. Cardinality(Validated(w)) = Cardinality(Validated(v))
      BY <2>1, <2>3, <3>2
    <3> QED BY <1>0, <2>4, <3>1, <3>3
  <2> QED BY <2>5, <2>6
<1>4. Cardinality(w) \in 0..MaxInTransit /\ left \in 0..MaxInTransit
  BY <1>0, <1>2, <1>3
<1>5. /\ s.vBlocksInFlight = w /\ s.nBlocksInFlight = st.nBlocksInFlight - 1
      /\ s.nBlocksInFlightValidHeaders = left /\ s.stalling = FALSE
      /\ s.common = st.common /\ s.best = st.best
      /\ s.fPreferredDownload = st.fPreferredDownload
  BY <1>0 DEF CNodeState
<1>6. s.nBlocksInFlight = Cardinality(w)
  BY <1>0, <1>2, <1>5
<1>7. s \in CNodeState
  <2>1. s = [st EXCEPT !.vBlocksInFlight = w, !.nBlocksInFlight = Cardinality(w),
                       !.nBlocksInFlightValidHeaders = left, !.stalling = FALSE]
    BY <1>0, <1>2
  <2> QED BY <1>0, <1>1, <1>4, <2>1 DEF CNodeState, QueuedBlock
<1>8. Counted(s)
  BY <1>1, <1>3, <1>5, <1>6, <1>7 DEF Counted, Distinct
<1>9. /\ st.nBlocksInFlightValidHeaders \in Nat
      /\ left = st.nBlocksInFlightValidHeaders - (IF e.fValidatedHeaders THEN 1 ELSE 0)
  BY <1>0
<1> HIDE DEF Left, Unmark
<1>10. /\ Counted(s) /\ s.vBlocksInFlight = st.vBlocksInFlight \ {e}
       /\ s.fPreferredDownload = st.fPreferredDownload
       /\ s.common = st.common /\ s.best = st.best
       /\ s.nBlocksInFlightValidHeaders = left /\ left \in Nat
  BY <1>3, <1>5, <1>8
<1> QED BY <1>9, <1>10, Zenon DEF Unmarked

LEMMA ReceivedKeeps ==
    ASSUME IInv, NEW b \in Blocks, MarkBlockAsReceived(b),
           have \subseteq have', have' \subseteq have \cup {b}, have' \subseteq known',
           known' \subseteq Blocks, failed' \subseteq Blocks, fDisconnect' \subseteq Connected,
           UNCHANGED <<tip, greeted, connects, nPreferredDownload>>
    PROVE  IInv'
<1>0. /\ Types /\ Lists /\ Totals /\ InFlightMissing /\ LastCommonIsCommon
      /\ \A q \in Connected : Counted(mapNodeState[q])
      /\ Linked \subseteq Linked'
  BY LinkedFacts DEF IInv
<1>1. CASE b \notin InFlight
  <2>1. UNCHANGED <<mapNodeState, mapBlocksInFlight, nPeersWithValidatedDownloads>>
    BY <1>1 DEF MarkBlockAsReceived, download
  <2>2. Connected' = Connected /\ InFlight' = InFlight
    BY <2>1 DEF Connected, InFlight
  <2>3. Types'
    BY <1>0, <2>1, <2>2 DEF Types
  <2>4. Lists' /\ Totals'
    BY <1>0, <2>1, <2>2 DEF Lists, Totals, Requested
  <2>5. InFlightMissing'
    BY <1>0, <1>1, <2>2 DEF InFlightMissing
  <2>6. LastCommonIsCommon'
    BY <1>0, <2>1, <2>2 DEF LastCommonIsCommon
  <2>7. \A q \in Connected' : Counted(mapNodeState[q])'
    BY <1>0, <2>1, <2>2 DEF Counted
  <2> QED BY <2>3, <2>4, <2>5, <2>6, <2>7 DEF IInv
<1>2. CASE b \in InFlight
  <2> DEFINE p     == mapBlocksInFlight[b]
             st    == mapNodeState[p]
             entry == CHOOSE e \in st.vBlocksInFlight : e.hash = b
             left  == Left(st, entry)
             s     == Unmark(st, entry, left)
  <2>1. p \in Connected /\ Counted(st) /\ entry \in st.vBlocksInFlight /\ entry.hash = b
    <3>1. p \in Connected /\ \E e \in st.vBlocksInFlight : e.hash = b
      BY <1>0, <1>2 DEF Types, Lists
    <3> QED BY <1>0, <3>1
  <2>2. /\ mapNodeState' = [mapNodeState EXCEPT ![p] = s]
        /\ nPeersWithValidatedDownloads' =
              nPeersWithValidatedDownloads - (IF left = 0 /\ entry.fValidatedHeaders THEN 1 ELSE 0)
        /\ mapBlocksInFlight' = Without(mapBlocksInFlight, {b})
    BY <1>2 DEF MarkBlockAsReceived, StillStalling, FewerPeers, Left, Unmark
  <2>3. \A e \in st.vBlocksInFlight : e.hash = b => e = entry
    BY <2>1 DEF Counted
  <2> HIDE DEF entry
  <2>4. Unmarked(s, st, entry, left)
    <3>1. \A l, r : l = Left(st, entry) /\ r = Unmark(st, entry, l) => Unmarked(r, st, entry, l)
      BY <2>1, UnmarkCounted, Zenon
    <3> QED BY <3>1
  <2> HIDE DEF s, left, st, p
  <2>5. /\ Connected' = Connected /\ InFlight' = InFlight \ {b}
        /\ \A q \in Connected : q # p => mapNodeState'[q] = mapNodeState[q]
        /\ mapNodeState'[p] = s
        /\ \A x \in InFlight \ {b} : mapBlocksInFlight'[x] = mapBlocksInFlight[x]
        /\ mapBlocksInFlight' \in [InFlight \ {b} -> Connected]
    BY <1>0, <2>1, <2>2 DEF Types, Connected, InFlight, Without, Restrict
  <2>6. \A q \in Connected' : Counted(mapNodeState'[q])
    BY <1>0, <2>4, <2>5 DEF Unmarked
  <2>7. Types'
    <3>1. mapNodeState' \in [Connected' -> CNodeState]
      BY <1>0, <2>2, <2>5, <2>6 DEF Types, Counted
    <3> QED BY <1>0, <2>5, <3>1 DEF Types
  <2>8. Lists'
    <3>1. ASSUME NEW q \in Connected, NEW e \in mapNodeState'[q].vBlocksInFlight
          PROVE  Requested(q, e.hash)'
      <4>1. e \in mapNodeState[q].vBlocksInFlight /\ e.hash # b
        <5>1. CASE q = p
          BY <2>3, <2>4, <2>5, <3>1, <5>1 DEF Unmarked, st
        <5>2. CASE q # p
          <6>1. e \in mapNodeState[q].vBlocksInFlight
            BY <2>5, <3>1, <5>2
          <6>2. Requested(q, e.hash)
            BY <1>0, <6>1 DEF Lists
          <6> QED BY <5>2, <6>1, <6>2 DEF Requested, p
        <5> QED BY <5>1, <5>2
      <4>2. Requested(q, e.hash)
        BY <1>0, <4>1 DEF Lists
      <4> QED BY <2>5, <4>1, <4>2 DEF Requested
    <3>2. ASSUME NEW x \in InFlight \ {b}
          PROVE  \E e \in mapNodeState'[mapBlocksInFlight'[x]].vBlocksInFlight : e.hash = x
      <4>1. PICK e \in mapNodeState[mapBlocksInFlight[x]].vBlocksInFlight : e.hash = x
        BY <1>0 DEF Lists
      <4>2. mapBlocksInFlight'[x] = mapBlocksInFlight[x] /\ mapBlocksInFlight[x] \in Connected
        BY <1>0, <2>5 DEF Types
      <4>3. CASE mapBlocksInFlight[x] = p
        BY <2>1, <2>4, <2>5, <4>1, <4>2, <4>3 DEF Unmarked, st
      <4>4. CASE mapBlocksInFlight[x] # p
        BY <2>5, <4>1, <4>2, <4>4
      <4> QED BY <4>3, <4>4
    <3> QED BY <2>5, <3>1, <3>2 DEF Lists
  <2>9. Totals'
    <3>1. Nice(mapNodeState') = Nice(mapNodeState)
      BY <2>4, <2>5 DEF Nice, Connected, Unmarked, st
    <3>2. \A q \in Connected' : mapNodeState'[q].fPreferredDownload => q \in greeted'
      BY <1>0, <2>4, <2>5 DEF Totals, Unmarked, st
    <3>3. nPeersWithValidatedDownloads' = Cardinality(Downloading(mapNodeState'))
      <4>1. CASE left = 0 /\ entry.fValidatedHeaders
        <5>1. st.nBlocksInFlightValidHeaders > 0 /\ ~(s.nBlocksInFlightValidHeaders > 0)
          BY <2>4, <4>1 DEF Unmarked
        <5>2. /\ Downloading(mapNodeState') = Downloading(mapNodeState) \ {p}
              /\ p \in Downloading(mapNodeState)
          BY <2>1, <2>5, <5>1 DEF Downloading, Connected, st
        <5>3. Cardinality(Downloading(mapNodeState) \ {p}) =
                IF p \in Downloading(mapNodeState) THEN Cardinality(Downloading(mapNodeState)) - 1
                ELSE Cardinality(Downloading(mapNodeState))
          BY TotalsFacts, FS_RemoveElement
        <5>4. nPeersWithValidatedDownloads' = nPeersWithValidatedDownloads - 1
          BY <2>2, <4>1
        <5> QED BY <1>0, <5>2, <5>3, <5>4 DEF Totals
      <4>2. CASE ~(left = 0 /\ entry.fValidatedHeaders)
        <5>1. st.nBlocksInFlightValidHeaders > 0 <=> s.nBlocksInFlightValidHeaders > 0
          BY <2>4, <4>2 DEF Unmarked
        <5>2. Downloading(mapNodeState') = Downloading(mapNodeState)
          BY <2>1, <2>5, <5>1 DEF Downloading, Connected, st
        <5>3. nPeersWithValidatedDownloads' = nPeersWithValidatedDownloads
          BY <2>2, <4>2, TotalsFacts
        <5> QED BY <1>0, <5>2, <5>3 DEF Totals
      <4> QED BY <4>1, <4>2
    <3> QED BY <1>0, <3>1, <3>2, <3>3 DEF Totals
  <2>10. InFlightMissing'
    BY <1>0, <2>5 DEF InFlightMissing
  <2>11. LastCommonIsCommon'
    BY <1>0, <2>4, <2>5 DEF LastCommonIsCommon, Unmarked, st
  <2> QED BY <2>6, <2>7, <2>8, <2>9, <2>10, <2>11 DEF IInv, Counted, CNodeState, Validated
<1> QED BY <1>1, <1>2

-----------------------------------------------------------------------------
(* Connections *)

LEMMA NewNodeCounted == Counted(NewNodeState)
<1>1. Cardinality({}) = 0 /\ Validated({}) = {}
  BY FS_EmptySet DEF Validated
<1>2. NewNodeState \in CNodeState
  BY LimitsAssumption DEF NewNodeState, CNodeState
<1> QED BY <1>1, <1>2 DEF Counted, NewNodeState

LEMMA InitializeKeeps ==
    ASSUME IInv, NEW p \in Peers, InitializeNode(p)
    PROVE  IInv'
<1>0. /\ Types /\ Lists /\ Totals /\ InFlightMissing /\ LastCommonIsCommon
      /\ \A q \in Connected : Counted(mapNodeState[q])
  BY DEF IInv
<1>1. /\ p \notin Connected /\ connects' = [connects EXCEPT ![p] = @ + 1]
      /\ mapNodeState' = [q \in Connected \cup {p} |-> IF q = p THEN NewNodeState ELSE mapNodeState[q]]
      /\ UNCHANGED <<known, have, failed, tip, mapBlocksInFlight, nPeersWithValidatedDownloads, greeted,
                     fDisconnect, nPreferredDownload>>
  BY DEF InitializeNode, chain
<1>2. /\ Connected' = Connected \cup {p} /\ InFlight' = InFlight /\ Linked' = Linked
      /\ \A q \in Connected : mapNodeState'[q] = mapNodeState[q]
      /\ mapNodeState'[p] = NewNodeState
  BY <1>1, LinkedFacts DEF Connected, InFlight
<1>3. \A q \in Connected' : Counted(mapNodeState'[q])
  BY <1>0, <1>2, NewNodeCounted
<1>4. Types'
  <2>1. mapNodeState' \in [Connected' -> CNodeState]
    BY <1>1, <1>2, <1>3 DEF Counted
  <2>2. connects' \in [Peers -> Nat]
    BY <1>0, <1>1 DEF Types
  <2>3. mapBlocksInFlight' \in [InFlight' -> Connected']
    BY <1>0, <1>1, <1>2 DEF Types
  <2> QED BY <1>0, <1>1, <1>2, <2>1, <2>2, <2>3 DEF Types
<1>5. Lists'
  <2>1. mapNodeState'[p].vBlocksInFlight = {}
    BY <1>2 DEF NewNodeState
  <2>2. \A b \in InFlight : mapBlocksInFlight[b] \in Connected
    BY <1>0 DEF Types
  <2>3. \A q \in Connected' : \A e \in mapNodeState'[q].vBlocksInFlight : Requested(q, e.hash)'
    BY <1>0, <1>1, <1>2, <2>1 DEF Lists, Requested
  <2>4. \A b \in InFlight' : \E e \in mapNodeState'[mapBlocksInFlight'[b]].vBlocksInFlight : e.hash = b
    BY <1>0, <1>1, <1>2, <2>2 DEF Lists
  <2> QED BY <2>3, <2>4 DEF Lists
<1>6. Totals'
  <2>1. /\ ~(mapNodeState'[p].nBlocksInFlightValidHeaders > 0)
        /\ mapNodeState'[p].fPreferredDownload = FALSE
    BY <1>2 DEF NewNodeState
  <2>2. Downloading(mapNodeState') = Downloading(mapNodeState) /\ Nice(mapNodeState') = Nice(mapNodeState)
    BY <1>2, <2>1 DEF Downloading, Nice, Connected
  <2> QED BY <1>0, <1>1, <1>2, <2>1, <2>2 DEF Totals
<1>7. InFlightMissing'
  BY <1>0, <1>1, <1>2 DEF InFlightMissing
<1>8. LastCommonIsCommon'
  <2>1. mapNodeState'[p].common = NoBlock
    BY <1>2 DEF NewNodeState
  <2> QED BY <1>0, <1>2, <2>1 DEF LastCommonIsCommon
<1> QED BY <1>3, <1>4, <1>5, <1>6, <1>7, <1>8 DEF IInv, Counted, CNodeState, Validated

LEMMA VersionKeeps ==
    ASSUME IInv, NEW p \in Peers, Version(p)
    PROVE  IInv'
<1> DEFINE st == mapNodeState[p]
           s  == [st EXCEPT !.fPreferredDownload = p \in Preferred]
<1>0. /\ Types /\ Lists /\ Totals /\ InFlightMissing /\ LastCommonIsCommon
      /\ \A q \in Connected : Counted(mapNodeState[q])
  BY DEF IInv
<1>1. /\ p \in Connected /\ p \notin greeted /\ greeted' = greeted \cup {p}
      /\ mapNodeState' = [mapNodeState EXCEPT ![p] = s]
      /\ nPreferredDownload' = nPreferredDownload + (IF p \in Preferred THEN 1 ELSE 0)
      /\ UNCHANGED <<known, have, failed, tip, mapBlocksInFlight, nPeersWithValidatedDownloads,
                     fDisconnect, connects>>
  BY DEF Version, chain
<1>2. /\ s.vBlocksInFlight = st.vBlocksInFlight /\ s.common = st.common /\ s.best = st.best
      /\ s.nBlocksInFlightValidHeaders = st.nBlocksInFlightValidHeaders
      /\ s.fPreferredDownload = (p \in Preferred)
      /\ Counted(s)
  <2>1. Counted(st) /\ st \in CNodeState
    BY <1>0, <1>1 DEF Counted
  <2> DEFINE y == p \in Preferred
  <2>2. y \in BOOLEAN
    OBVIOUS
  <2>3. s = [st EXCEPT !.fPreferredDownload = y]
    OBVIOUS
  <2> HIDE DEF s, st, y
  <2>4. s \in CNodeState
    BY <2>1, <2>2, <2>3 DEF CNodeState
  <2>5. /\ s.vBlocksInFlight = st.vBlocksInFlight /\ s.common = st.common /\ s.best = st.best
        /\ s.nBlocksInFlightValidHeaders = st.nBlocksInFlightValidHeaders
        /\ s.nBlocksInFlight = st.nBlocksInFlight /\ s.stalling = st.stalling
        /\ s.fPreferredDownload = y
    BY <2>1, <2>2, <2>3 DEF CNodeState
  <2>6. Counted(s)
    BY <2>1, <2>4, <2>5 DEF Counted
  <2> QED BY <2>5, <2>6 DEF st, y
<1> HIDE DEF s
<1>3. /\ Connected' = Connected /\ InFlight' = InFlight /\ Linked' = Linked
      /\ \A q \in Connected : q # p => mapNodeState'[q] = mapNodeState[q]
      /\ mapNodeState'[p] = s
  BY <1>0, <1>1, LinkedFacts DEF Connected, InFlight, Types
<1>4. \A q \in Connected' : Counted(mapNodeState'[q])
  BY <1>0, <1>2, <1>3
<1>5. Types'
  <2>1. mapNodeState' \in [Connected' -> CNodeState]
    BY <1>0, <1>1, <1>3, <1>4 DEF Counted, Types
  <2> QED BY <1>0, <1>1, <1>3, <2>1 DEF Types
<1>6. Lists'
  BY <1>0, <1>1, <1>2, <1>3 DEF Lists, Requested
<1>7. Totals'
  <2>1. Downloading(mapNodeState') = Downloading(mapNodeState)
    BY <1>2, <1>3 DEF Downloading, Connected
  <2>2. p \notin Nice(mapNodeState)
    BY <1>0, <1>1 DEF Totals, Nice
  <2>3. nPreferredDownload' = Cardinality(Nice(mapNodeState'))
    <3>1. CASE p \in Preferred
      <4>1. Nice(mapNodeState') = Nice(mapNodeState) \cup {p}
        BY <1>1, <1>2, <1>3, <3>1 DEF Nice, Connected
      <4>2. Cardinality(Nice(mapNodeState) \cup {p}) = Cardinality(Nice(mapNodeState)) + 1
        BY <2>2, TotalsFacts, FS_AddElement
      <4> QED BY <1>0, <1>1, <3>1, <4>1, <4>2 DEF Totals
    <3>2. CASE p \notin Preferred
      <4>1. Nice(mapNodeState') = Nice(mapNodeState)
        BY <1>1, <1>2, <1>3, <2>2, <3>2 DEF Nice, Connected
      <4>2. nPreferredDownload' = nPreferredDownload
        BY <1>1, <3>2, TotalsFacts
      <4> QED BY <1>0, <4>1, <4>2 DEF Totals
    <3> QED BY <3>1, <3>2
  <2> QED BY <1>0, <1>1, <1>3, <2>1, <2>3 DEF Totals
<1>8. InFlightMissing'
  BY <1>0, <1>1, <1>3 DEF InFlightMissing
<1>9. LastCommonIsCommon'
  BY <1>0, <1>2, <1>3 DEF LastCommonIsCommon
<1> QED BY <1>4, <1>5, <1>6, <1>7, <1>8, <1>9 DEF IInv, Counted, CNodeState, Validated

\* The blocks of the node leave mapBlocksInFlight with it.
LEMMA FinalizeKeeps ==
    ASSUME IInv, NEW p \in Peers, FinalizeNode(p)
    PROVE  IInv'
<1> DEFINE st == mapNodeState[p]
           H  == {e.hash : e \in st.vBlocksInFlight}
<1>0. /\ Types /\ Lists /\ Totals /\ InFlightMissing /\ LastCommonIsCommon
      /\ \A q \in Connected : Counted(mapNodeState[q])
  BY DEF IInv
<1>1. /\ p \in Connected
      /\ nPreferredDownload' = nPreferredDownload - (IF st.fPreferredDownload THEN 1 ELSE 0)
      /\ nPeersWithValidatedDownloads' =
            nPeersWithValidatedDownloads - (IF st.nBlocksInFlightValidHeaders # 0 THEN 1 ELSE 0)
      /\ mapBlocksInFlight' = Without(mapBlocksInFlight, H)
      /\ mapNodeState' = Without(mapNodeState, {p})
      /\ greeted' = greeted \ {p} /\ fDisconnect' = fDisconnect \ {p}
      /\ UNCHANGED <<known, have, failed, tip, connects>>
  BY DEF FinalizeNode, InFlightAfter, chain
<1>2. \A b \in InFlight : b \in H <=> mapBlocksInFlight[b] = p
  BY <1>0, <1>1 DEF Lists, Requested
<1> HIDE DEF H
<1>3. /\ Connected' = Connected \ {p} /\ InFlight' = InFlight \ H /\ Linked' = Linked
      /\ mapNodeState' = [q \in Connected \ {p} |-> mapNodeState[q]]
      /\ mapBlocksInFlight' = [b \in InFlight \ H |-> mapBlocksInFlight[b]]
  BY <1>1, LinkedFacts DEF Connected, InFlight, Without, Restrict
<1>4. \A q \in Connected' : Counted(mapNodeState'[q]) /\ mapNodeState'[q] = mapNodeState[q]
  BY <1>0, <1>3
<1>5. Types'
  <2>1. mapNodeState' \in [Connected' -> CNodeState]
    BY <1>3, <1>4 DEF Counted
  <2>2. mapBlocksInFlight' \in [InFlight' -> Connected']
    BY <1>0, <1>2, <1>3 DEF Types
  <2> QED BY <1>0, <1>1, <1>3, <2>1, <2>2 DEF Types
<1>6. Lists'
  <2>1. ASSUME NEW q \in Connected', NEW e \in mapNodeState'[q].vBlocksInFlight
        PROVE  Requested(q, e.hash)'
    <3>1. q # p /\ Requested(q, e.hash)
      BY <1>0, <1>3, <1>4 DEF Lists
    <3> QED BY <1>2, <1>3, <3>1 DEF Requested
  <2>2. ASSUME NEW b \in InFlight'
        PROVE  \E e \in mapNodeState'[mapBlocksInFlight'[b]].vBlocksInFlight : e.hash = b
    <3>1. b \in InFlight /\ mapBlocksInFlight'[b] = mapBlocksInFlight[b] /\ mapBlocksInFlight[b] \in Connected'
      BY <1>0, <1>2, <1>3 DEF Types
    <3> QED BY <1>0, <1>4, <3>1 DEF Lists
  <2> QED BY <2>1, <2>2 DEF Lists
<1>7. Totals'
  <2>0. st.nBlocksInFlightValidHeaders \in Nat
    BY <1>0, <1>1, LimitsAssumption DEF Counted, CNodeState
  <2>1. Downloading(mapNodeState') = Downloading(mapNodeState) \ {p} /\ Nice(mapNodeState') = Nice(mapNodeState) \ {p}
    BY <1>3 DEF Downloading, Nice, Connected
  <2>2. /\ p \in Downloading(mapNodeState) <=> st.nBlocksInFlightValidHeaders # 0
        /\ p \in Nice(mapNodeState) <=> st.fPreferredDownload
    BY <1>1, <2>0 DEF Downloading, Nice, Connected
  <2>3. Cardinality(Downloading(mapNodeState) \ {p}) =
          IF p \in Downloading(mapNodeState) THEN Cardinality(Downloading(mapNodeState)) - 1
          ELSE Cardinality(Downloading(mapNodeState))
    BY TotalsFacts, FS_RemoveElement
  <2>4. Cardinality(Nice(mapNodeState) \ {p}) =
          IF p \in Nice(mapNodeState) THEN Cardinality(Nice(mapNodeState)) - 1
          ELSE Cardinality(Nice(mapNodeState))
    BY TotalsFacts, FS_RemoveElement
  <2>5. nPeersWithValidatedDownloads' = Cardinality(Downloading(mapNodeState'))
    <3>1. CASE st.nBlocksInFlightValidHeaders # 0
      <4>1. nPeersWithValidatedDownloads' = nPeersWithValidatedDownloads - 1
        BY <1>1, <3>1
      <4> QED BY <1>0, <2>1, <2>2, <2>3, <3>1, <4>1 DEF Totals
    <3>2. CASE st.nBlocksInFlightValidHeaders = 0
      <4>1. nPeersWithValidatedDownloads' = nPeersWithValidatedDownloads
        BY <1>1, <3>2, TotalsFacts
      <4> QED BY <1>0, <2>1, <2>2, <2>3, <3>2, <4>1 DEF Totals
    <3> QED BY <3>1, <3>2
  <2>6. nPreferredDownload' = Cardinality(Nice(mapNodeState'))
    <3>1. CASE st.fPreferredDownload
      BY <1>0, <1>1, <2>1, <2>2, <2>4, <3>1, TotalsFacts DEF Totals
    <3>2. CASE ~st.fPreferredDownload
      <4>1. nPreferredDownload' = nPreferredDownload
        BY <1>1, <3>2, TotalsFacts
      <4>2. p \notin Nice(mapNodeState)
        BY <2>2, <3>2
      <4> QED BY <1>0, <2>1, <2>4, <4>1, <4>2 DEF Totals
    <3> QED BY <3>1, <3>2
  <2>7. \A q \in Connected' : mapNodeState'[q].fPreferredDownload => q \in greeted'
    BY <1>0, <1>1, <1>3, <1>4 DEF Totals
  <2> QED BY <2>5, <2>6, <2>7 DEF Totals
<1>8. InFlightMissing'
  BY <1>0, <1>1, <1>3 DEF InFlightMissing
<1>9. LastCommonIsCommon'
  BY <1>0, <1>3, <1>4 DEF LastCommonIsCommon
<1> QED BY <1>4, <1>5, <1>6, <1>7, <1>8, <1>9 DEF IInv, Counted, CNodeState, Validated

-----------------------------------------------------------------------------
(* FindNextBlocksToDownload *)

LEMMA LinkedDown ==
    ASSUME have \subseteq Blocks, NEW b \in Linked, NEW a \in Ancestors[b]
    PROVE  a \in Linked
<1>1. b \in Blocks /\ Ancestors[b] \subseteq have
  BY DEF Linked
<1>2. a \in Blocks /\ Ancestors[a] \subseteq Ancestors[b] /\ a \in Ancestors[a]
  BY <1>1, AncestorsOfAncestor, AncestorsType
<1> QED BY <1>1, <1>2 DEF Linked

\* A node state that FindNext is called for
Searchable(st) ==
    /\ have \subseteq Blocks /\ tip \in Linked
    /\ st \in CNodeState /\ st.best \in Blocks
    /\ st.common # NoBlock => st.common \in Linked

\* The walk starts at a block that we have all ancestors of, and the peer too.
LEMMA CommonFacts ==
    ASSUME NEW st, Searchable(st)
    PROVE  CommonBefore(st) \in Linked /\ CommonBefore(st) \in Ancestors[st.best]
<1> USE DEF Searchable
<1> DEFINE a == IF st.common = NoBlock THEN GuessCommon(st.best) ELSE st.common
           B == Ancestors[a] \cap Ancestors[st.best]
<1>0. Linked \subseteq Blocks /\ tip \in Blocks
  BY DEF Linked
<1>1. GuessCommon(st.best) \in Active
  <2>1. CASE Height[st.best] >= Height[tip]
    BY <1>0, <2>1, AncestorsType DEF GuessCommon, Active
  <2>2. CASE ~(Height[st.best] >= Height[tip])
    <3>1. Height[st.best] \in Nat /\ Height[tip] \in Nat
      BY <1>0, HeightAssumption
    <3>2. Height[st.best] <= Height[tip]
      BY <2>2, <3>1
    <3>3. \E b \in Active : Height[b] = Height[st.best]
      BY <1>0, <3>1, <3>2, AncestorAtHeight DEF Active
    <3> QED BY <2>2, <3>3 DEF GuessCommon
  <2> QED BY <2>1, <2>2
<1>2. a \in Linked
  BY <1>1, LinkedDown DEF Active
<1> HIDE DEF a
<1>3. Genesis \in B /\ B \in SUBSET Ancestors[st.best]
  BY <1>0, <1>2, GenesisIsAncestor
<1>4. \E c \in B : \A d \in B : Height[d] <= Height[c]
  <2> HIDE DEF B
  <2> QED BY <1>3, HighestOfBranch
<1>5. LastCommonAncestor(a, st.best) \in B
  BY <1>4 DEF LastCommonAncestor
<1>6. CommonBefore(st) = LastCommonAncestor(a, st.best)
  BY DEF CommonBefore, a
<1> QED BY <1>2, <1>5, <1>6, LinkedDown

\* The blocks that the walk of FindNext looks at
Walk(st) ==
    {b \in Ancestors[st.best] :
        /\ Height[b] > Height[CommonBefore(st)]
        /\ Height[b] <= (Height[CommonBefore(st)] + Window) + 1
        /\ \A c \in Ancestors[b] : Height[c] > Height[CommonBefore(st)] => c \notin failed}
InWindow(st) ==
    {b \in {c \in Walk(st) : Fetchable(c)} : Height[b] <= Height[CommonBefore(st)] + Window}

LEMMA LastCommonFacts ==
    ASSUME NEW st, Searchable(st)
    PROVE  LET c == LastCommonAfter(CommonBefore(st), Walk(st))
           IN  /\ c \in Linked
               /\ \A b \in Walk(st) \cap Linked : Height[b] <= Height[c]
<1> DEFINE P == {CommonBefore(st)} \cup (Walk(st) \cap Linked)
           c == LastCommonAfter(CommonBefore(st), Walk(st))
<1>1. st.best \in Blocks /\ P \in SUBSET Ancestors[st.best] /\ P # {} /\ P \subseteq Linked
  BY CommonFacts DEF Walk, Searchable
<1>2. \E x \in P : \A y \in P : Height[y] <= Height[x]
  <2> HIDE DEF P
  <2> QED BY <1>1, HighestOfBranch
<1>3. c = CHOOSE x \in P : \A y \in P : Height[y] <= Height[x]
  BY DEF LastCommonAfter
<1>4. c \in P /\ \A y \in P : Height[y] <= Height[c]
  <2> HIDE DEF P, c
  <2> QED BY <1>2, <1>3
<1> QED BY <1>1, <1>4

\* What FindNextBlocksToDownload may return for p
Found(p, n, found) ==
    /\ Ready(found.state, p)
    /\ found.vBlocks \in SUBSET Blocks /\ found.vBlocks \cap (InFlight \cup have) = {}
    /\ Cardinality(found.vBlocks) \in Nat /\ Cardinality(found.vBlocks) <= n
    /\ found.staller # NoPeer =>
          found.staller \in Connected /\ mapNodeState[found.staller].vBlocksInFlight # {}

LEMMA FindNextFacts ==
    ASSUME IInv, NEW p \in Connected, NEW st, Ready(st, p), st.best # NoBlock, NEW n \in Nat
    PROVE  Found(p, n, FindNext(p, st, n))
<1> DEFINE found == FindNext(p, st, n)
           c == LastCommonAfter(CommonBefore(st), Walk(st))
           busy == Walk(st) \cap InFlight
           w == CHOOSE b \in busy : \A d \in busy : Height[b] <= Height[d]
<1>0. /\ Types /\ Lists /\ Counted(st) /\ st \in CNodeState
      /\ st.best \in Blocks
  BY DEF IInv, Ready, Counted, CNodeState
<1>1. Searchable(st)
  BY <1>0 DEF Searchable, Types, Ready
<1>2. found.state = [st EXCEPT !.common = c] /\ found.vBlocks = Lowest(InWindow(st), n)
  BY DEF FindNext, Walk, InWindow
<1>3. found.staller # NoPeer => busy # {} /\ found.staller = mapBlocksInFlight[w]
  BY DEF FindNext, Walk
<1> HIDE DEF found, w
<1>4. Ready(found.state, p)
  <2>1. c \in Linked /\ c \in Blocks
    <3>1. c \in Linked
      BY <1>1, LastCommonFacts
    <3> QED BY <1>0, <3>1 DEF Types, Linked
  <2> HIDE DEF c
  <2>2. found.state \in CNodeState
    BY <1>0, <1>2, <2>1 DEF CNodeState
  <2>3. /\ found.state.vBlocksInFlight = st.vBlocksInFlight
        /\ found.state.nBlocksInFlight = st.nBlocksInFlight
        /\ found.state.nBlocksInFlightValidHeaders = st.nBlocksInFlightValidHeaders
        /\ found.state.stalling = st.stalling /\ found.state.best = st.best
        /\ found.state.fPreferredDownload = st.fPreferredDownload
        /\ found.state.common = c
    BY <1>0, <1>2 DEF CNodeState
  <2>4. Counted(found.state)
    BY <1>0, <2>2, <2>3 DEF Counted
  <2> QED BY <2>1, <2>3, <2>4 DEF Ready
<1>5. /\ found.vBlocks \in SUBSET Blocks /\ found.vBlocks \cap (InFlight \cup have) = {}
      /\ Cardinality(found.vBlocks) \in Nat /\ Cardinality(found.vBlocks) <= n
  <2>1. InWindow(st) \in SUBSET Ancestors[st.best] /\ \A b \in InWindow(st) : Fetchable(b)
    BY DEF InWindow, Walk
  <2>2. /\ Lowest(InWindow(st), n) \subseteq InWindow(st)
        /\ Cardinality(Lowest(InWindow(st), n)) \in Nat /\ Cardinality(Lowest(InWindow(st), n)) <= n
    BY <1>0, <2>1, LowestFacts
  <2>3. Ancestors[st.best] \subseteq Blocks
    BY <1>0, AncestorsType
  <2> QED BY <1>2, <2>1, <2>2, <2>3 DEF Fetchable
<1>6. ASSUME found.staller # NoPeer
      PROVE  found.staller \in Connected /\ mapNodeState[found.staller].vBlocksInFlight # {}
  <2>1. busy \in SUBSET Blocks /\ busy # {}
    BY <1>0, <1>3, <1>6 DEF Types
  <2>2. \E b \in busy : \A d \in busy : Height[b] <= Height[d]
    <3> HIDE DEF busy
    <3> QED BY <2>1, LowestBlock
  <2>3. w \in InFlight
    BY <2>2 DEF w
  <2>4. mapBlocksInFlight[w] \in Connected /\ mapNodeState[mapBlocksInFlight[w]].vBlocksInFlight # {}
    BY <1>0, <2>3 DEF Types, Lists
  <2> QED BY <1>3, <1>6, <2>4
<1>7. Found(p, n, found)
  BY <1>4, <1>5, <1>6 DEF Found
<1> QED BY <1>7 DEF found

LEMMA SameReady ==
    ASSUME NEW st, NEW p, Ready(st, p), NEW s, SameDownloads(s, st)
    PROVE  Ready(s, p)
<1>1. Counted(st) /\ Counted(s)
  BY SameDownloadsCounted DEF Ready
<1> QED BY <1>1 DEF Ready, SameDownloads

LEMMA NodeReady ==
    ASSUME IInv, NEW p \in Connected
    PROVE  Ready(mapNodeState[p], p)
  BY DEF IInv, Ready, LastCommonIsCommon

LEMMA AvailabilityReady ==
    ASSUME IInv, NEW p \in Connected, NEW st, Ready(st, p)
    PROVE  Ready(ProcessBlockAvailability(st), p)
<1>1. st \in CNodeState /\ known \subseteq Blocks
  BY DEF Ready, Counted, IInv, Types
<1>2. \A s : s = ProcessBlockAvailability(st) => SameDownloads(s, st)
  BY <1>1, AvailabilityFacts
<1>3. \A s : s = ProcessBlockAvailability(st) => Ready(s, p)
  BY <1>2, SameReady
<1> QED BY <1>3

LEMMA UpdateReady ==
    ASSUME IInv, NEW p \in Connected, NEW b \in Blocks, NEW k
    PROVE  Ready(UpdateBlockAvailability(mapNodeState[p], b, k), p)
<1>0. Ready(mapNodeState[p], p)
  BY NodeReady
<1>1. mapNodeState[p] \in CNodeState /\ known \subseteq Blocks
  BY <1>0 DEF Ready, Counted, IInv, Types
<1>2. \A s : s = UpdateBlockAvailability(mapNodeState[p], b, k) => SameDownloads(s, mapNodeState[p])
  BY <1>1, UpdateFacts
<1>3. \A s : s = UpdateBlockAvailability(mapNodeState[p], b, k) => Ready(s, p)
  BY <1>0, <1>2, SameReady
<1> QED BY <1>3

LEMMA FindFacts ==
    ASSUME IInv, NEW p \in Connected, NEW st, Ready(st, p), NEW n \in Nat
    PROVE  Found(p, n, FindNextBlocksToDownload(p, st, n))
<1> DEFINE s == ProcessBlockAvailability(st)
<1>1. Ready(s, p)
  BY AvailabilityReady
<1> HIDE DEF s
<1>2. CASE Interesting(s)
  <2>1. FindNextBlocksToDownload(p, st, n) = FindNext(p, s, n)
    BY <1>2 DEF FindNextBlocksToDownload, s
  <2>2. s.best # NoBlock
    BY <1>2 DEF Interesting
  <2> QED BY <1>1, <2>1, <2>2, FindNextFacts
<1>3. CASE ~Interesting(s)
  <2>1. FindNextBlocksToDownload(p, st, n) = [state |-> s, vBlocks |-> {}, staller |-> NoPeer]
    BY <1>3 DEF FindNextBlocksToDownload, s
  <2>2. Cardinality({}) = 0
    BY FS_EmptySet
  <2> QED BY <1>1, <2>1, <2>2 DEF Found
<1> QED BY <1>2, <1>3

-----------------------------------------------------------------------------
(* Messages *)

\* A step that only brings the availability of p's blocks up to date
LEMMA AvailabilityKeeps ==
    ASSUME IInv, NEW p \in Connected, NEW st, Ready(st, p),
           mapNodeState' = [mapNodeState EXCEPT ![p] = st], fDisconnect' \subseteq Connected,
           known \subseteq known', known' \subseteq Blocks,
           UNCHANGED <<have, failed, tip, mapBlocksInFlight, nPeersWithValidatedDownloads, greeted,
                       connects, nPreferredDownload>>
    PROVE  IInv'
<1>0. Types /\ Counted(st) /\ st \in CNodeState
  BY DEF IInv, Ready, Counted
<1>1. st.nBlocksInFlight \in 0..MaxInTransit /\ st.nBlocksInFlightValidHeaders \in Nat /\ MaxInTransit \in Nat
  BY <1>0, LimitsAssumption DEF CNodeState
<1>2. Cardinality({}) = 0
  BY FS_EmptySet
<1>3. MarkBlocksAsInFlight(p, st, {}, FALSE) = st
  <2>1. \A n \in Nat : n + 0 = n
    OBVIOUS
  <2>2. /\ st.vBlocksInFlight \cup {[hash |-> b, fValidatedHeaders |-> FALSE] : b \in {}} = st.vBlocksInFlight
        /\ st.nBlocksInFlight + Cardinality({}) = st.nBlocksInFlight
        /\ st.nBlocksInFlightValidHeaders + 0 = st.nBlocksInFlightValidHeaders
    BY <1>1, <1>2
  <2> QED BY <1>0, <2>2 DEF MarkBlocksAsInFlight, CNodeState
<1>4. NodesAfter(p, MarkBlocksAsInFlight(p, st, {}, FALSE))
  BY <1>0, <1>3 DEF NodesAfter, Types, Connected
<1>5. mapBlocksInFlight' = InFlightWith(p, {})
  BY <1>0 DEF InFlightWith, Types, InFlight
<1>6. nPeersWithValidatedDownloads' = ValidatedPeersWith(st, {}, FALSE)
  BY TotalsFacts DEF ValidatedPeersWith
<1>7. st.nBlocksInFlight + Cardinality({}) <= MaxInTransit
  BY <1>1, <1>2
<1>8. {} \in SUBSET Blocks /\ {} \cap (InFlight \cup have) = {}
  OBVIOUS
<1> QED BY <1>4, <1>5, <1>6, <1>7, <1>8, RequestKeeps

LEMMA InvKeeps ==
    ASSUME IInv, NEW p \in Peers, NEW b \in InvBlocks, Inv(p, b)
    PROVE  IInv'
<1>0. Types /\ p \in Connected /\ b \in Blocks
  BY InvBlocksAssumption DEF IInv, Types, Inv, Talking
<1>1. PICK st : st = UpdateBlockAvailability(mapNodeState[p], b, known)
  OBVIOUS
<1>2. PICK direct \in BOOLEAN :
        LET S == IF /\ b \notin known /\ b \notin InFlight
                    /\ direct /\ st.nBlocksInFlight < MaxInTransit
                 THEN {b} ELSE {}
        IN  /\ mapNodeState' = [mapNodeState EXCEPT ![p] = MarkBlocksAsInFlight(p, st, S, FALSE)]
            /\ mapBlocksInFlight' = InFlightWith(p, S)
  BY <1>1 DEF Inv
<1> DEFINE T == IF /\ b \notin known /\ b \notin InFlight
                   /\ direct /\ st.nBlocksInFlight < MaxInTransit
                THEN {b} ELSE {}
<1>3. UNCHANGED <<known, have, failed, tip, nPeersWithValidatedDownloads, greeted, fDisconnect,
                  connects, nPreferredDownload>>
  BY DEF Inv, chain, nodes
<1>4. PICK S : S = T
  OBVIOUS
<1>5. /\ mapNodeState' = [mapNodeState EXCEPT ![p] = MarkBlocksAsInFlight(p, st, S, FALSE)]
      /\ mapBlocksInFlight' = InFlightWith(p, S)
  BY <1>2, <1>4
<1>6. Ready(st, p)
  BY <1>0, <1>1, UpdateReady
<1>7. st.nBlocksInFlight \in 0..MaxInTransit /\ MaxInTransit \in Nat
  BY <1>6, LimitsAssumption DEF Ready, Counted, CNodeState
<1>8. /\ S \in SUBSET Blocks /\ S \cap (InFlight \cup have) = {}
      /\ st.nBlocksInFlight + Cardinality(S) <= MaxInTransit
  <2>0. Cardinality({}) = 0 /\ Cardinality({b}) = 1
    BY FS_EmptySet, FS_Singleton
  <2>1. CASE S = {}
    BY <1>7, <2>0, <2>1
  <2>2. CASE S # {}
    <3>1. S = {b} /\ b \notin known /\ b \notin InFlight /\ st.nBlocksInFlight < MaxInTransit
      BY <1>4, <2>2
    <3> QED BY <1>0, <1>7, <2>0, <3>1 DEF Types
  <2> QED BY <2>1, <2>2
<1> HIDE DEF T
<1>9. NodesAfter(p, MarkBlocksAsInFlight(p, st, S, FALSE))
  BY <1>0, <1>5 DEF NodesAfter, Types, Connected
<1>10. nPeersWithValidatedDownloads' = ValidatedPeersWith(st, S, FALSE)
  BY <1>3, TotalsFacts DEF ValidatedPeersWith
<1>11. known \subseteq known' /\ known' \subseteq Blocks /\ fDisconnect' \subseteq Connected
  BY <1>0, <1>3 DEF Types
<1> QED BY <1>0, <1>3, <1>5, <1>6, <1>8, <1>9, <1>10, <1>11, RequestKeeps

LEMMA HeadersKeeps ==
    ASSUME IInv, NEW p \in Peers, NEW start \in Blocks, NEW b \in Blocks, Headers(p, start, b)
    PROVE  IInv'
<1> DEFINE sent  == Ancestors[b] \ Ancestors[start]
           bad   == {c \in sent : c \in failed \/ (c \notin known /\ Parent[c] \in failed)}
           added == {c \in sent : Ancestors[c] \cap bad = {}}
           off   == Ancestors[b] \ Active
           vToFetch   == {c \in off : Fetchable(c)}
           largeReorg == \E x \in off : Cardinality({c \in vToFetch : Height[c] > Height[x]}) > MaxInTransit
<1>0. Types /\ p \in Connected
  BY DEF IInv, Types, Headers, Talking
<1>1. PICK st : st = UpdateBlockAvailability(mapNodeState[p], b, known \cup added)
  OBVIOUS
<1>2. Ready(st, p)
  BY <1>0, <1>1, UpdateReady
<1>3. /\ UNCHANGED <<have, failed, tip, greeted, fDisconnect, connects, nPreferredDownload>>
      /\ known' = known \cup added
  BY DEF Headers, nodes
<1>4. known \subseteq known' /\ known' \subseteq Blocks /\ fDisconnect' \subseteq Connected
  <2>1. added \subseteq Blocks
    BY AncestorsType
  <2> HIDE DEF added
  <2> QED BY <1>0, <1>3, <2>1 DEF Types
<1>5. \/ UNCHANGED download
      \/ \E direct \in BOOLEAN :
            LET S == IF direct /\ Work[tip] <= Work[b] /\ ~largeReorg /\ st.nBlocksInFlight < MaxInTransit
                     THEN Lowest(vToFetch, MaxInTransit - st.nBlocksInFlight) ELSE {}
            IN  /\ mapNodeState' = [mapNodeState EXCEPT ![p] = MarkBlocksAsInFlight(p, st, S, TRUE)]
                /\ mapBlocksInFlight' = InFlightWith(p, S)
                /\ nPeersWithValidatedDownloads' = ValidatedPeersWith(st, S, TRUE)
  BY <1>1 DEF Headers
<1>6. vToFetch \in SUBSET Ancestors[b] /\ \A c \in vToFetch : Fetchable(c)
  OBVIOUS
<1> HIDE DEF vToFetch, largeReorg, added, bad, off
<1>7. CASE UNCHANGED download
  <2>1. Ready(mapNodeState[p], p)
    BY <1>0, NodeReady
  <2>2. UNCHANGED <<mapNodeState, mapBlocksInFlight, nPeersWithValidatedDownloads>>
    BY <1>7 DEF download
  <2>3. mapNodeState' = [mapNodeState EXCEPT ![p] = mapNodeState[p]]
    BY <1>0, <2>2 DEF Types
  <2>4. PICK s : s = mapNodeState[p]
    OBVIOUS
  <2> QED BY <1>0, <1>3, <1>4, <2>1, <2>2, <2>3, <2>4, AvailabilityKeeps
<1>8. ASSUME NEW direct \in BOOLEAN, NEW S,
             S = IF direct /\ Work[tip] <= Work[b] /\ ~largeReorg /\ st.nBlocksInFlight < MaxInTransit
                 THEN Lowest(vToFetch, MaxInTransit - st.nBlocksInFlight) ELSE {},
             mapNodeState' = [mapNodeState EXCEPT ![p] = MarkBlocksAsInFlight(p, st, S, TRUE)],
             mapBlocksInFlight' = InFlightWith(p, S),
             nPeersWithValidatedDownloads' = ValidatedPeersWith(st, S, TRUE)
      PROVE  IInv'
  <2>1. st.nBlocksInFlight \in 0..MaxInTransit /\ MaxInTransit \in Nat
    BY <1>2, LimitsAssumption DEF Ready, Counted, CNodeState
  <2>2. /\ S \in SUBSET Blocks /\ S \cap (InFlight \cup have) = {}
        /\ st.nBlocksInFlight + Cardinality(S) <= MaxInTransit
    <3>1. CASE S = {}
      <4>1. Cardinality({}) = 0
        BY FS_EmptySet
      <4> QED BY <2>1, <3>1, <4>1
    <3>2. CASE S # {}
      <4>1. S = Lowest(vToFetch, MaxInTransit - st.nBlocksInFlight)
        BY <1>8, <3>2
      <4>2. MaxInTransit - st.nBlocksInFlight \in Nat
        BY <2>1
      <4>3. S \subseteq vToFetch /\ Cardinality(S) \in Nat /\ Cardinality(S) <= MaxInTransit - st.nBlocksInFlight
        BY <1>6, <4>1, <4>2, LowestFacts
      <4>4. S \in SUBSET Blocks /\ S \cap (InFlight \cup have) = {}
        BY <1>6, <4>3, AncestorsType DEF Fetchable
      <4> QED BY <2>1, <4>3, <4>4
    <3> QED BY <3>1, <3>2
  <2>3. NodesAfter(p, MarkBlocksAsInFlight(p, st, S, TRUE))
    BY <1>0, <1>8 DEF NodesAfter, Types, Connected
  <2> QED BY <1>0, <1>2, <1>3, <1>4, <1>8, <2>2, <2>3, RequestKeeps
<1> QED BY <1>5, <1>7, <1>8

LEMMA SendKeeps ==
    ASSUME IInv, NEW p \in Peers, NEW ibd \in BOOLEAN, NEW expired \in BOOLEAN,
           SendMessages(p, ibd, expired)
    PROVE  IInv'
<1>0. Types /\ p \in Connected
  BY DEF IInv, Types, SendMessages, Talking
<1>1. PICK st : st = ProcessBlockAvailability(mapNodeState[p])
  OBVIOUS
<1>2. Ready(st, p)
  BY <1>0, <1>1, NodeReady, AvailabilityReady
<1>3. st.nBlocksInFlight \in 0..MaxInTransit /\ MaxInTransit \in Nat
  BY <1>2, LimitsAssumption DEF Ready, Counted, CNodeState
<1>4. PICK found : found = FindNextBlocksToDownload(p, st, MaxInTransit - st.nBlocksInFlight)
  OBVIOUS
<1>5. Found(p, MaxInTransit - st.nBlocksInFlight, found)
  <2>1. MaxInTransit - st.nBlocksInFlight \in Nat
    BY <1>3
  <2> QED BY <1>0, <1>2, <1>4, <2>1, FindFacts
<1>6. UNCHANGED <<known, have, failed, tip, greeted, connects, nPreferredDownload>>
  BY DEF SendMessages, chain
<1>7. known \subseteq known' /\ known' \subseteq Blocks
  BY <1>0, <1>6 DEF Types
<1>8. \/ /\ mapNodeState' = [mapNodeState EXCEPT ![p] = st]
         /\ fDisconnect' \subseteq fDisconnect \cup {p}
         /\ UNCHANGED <<mapBlocksInFlight, nPeersWithValidatedDownloads>>
      \/ /\ LET new == MarkBlocksAsInFlight(p, found.state, found.vBlocks, TRUE)
            IN  mapNodeState' =
                   [q \in Connected |->
                      IF q = p THEN new
                      ELSE IF new.nBlocksInFlight = 0 /\ q \in Stalls(found)
                      THEN [mapNodeState[q] EXCEPT !.stalling = TRUE]
                      ELSE mapNodeState[q]]
         /\ mapBlocksInFlight' = InFlightWith(p, found.vBlocks)
         /\ nPeersWithValidatedDownloads' = ValidatedPeersWith(st, found.vBlocks, TRUE)
         /\ UNCHANGED fDisconnect
  BY <1>1, <1>4 DEF SendMessages
<1>9. CASE /\ mapNodeState' = [mapNodeState EXCEPT ![p] = st]
           /\ fDisconnect' \subseteq fDisconnect \cup {p}
           /\ UNCHANGED <<mapBlocksInFlight, nPeersWithValidatedDownloads>>
  <2>1. fDisconnect' \subseteq Connected
    BY <1>0, <1>9 DEF Types
  <2> QED BY <1>0, <1>2, <1>6, <1>7, <1>9, <2>1, AvailabilityKeeps
<1>10. CASE /\ LET new == MarkBlocksAsInFlight(p, found.state, found.vBlocks, TRUE)
               IN  mapNodeState' =
                      [q \in Connected |->
                         IF q = p THEN new
                         ELSE IF new.nBlocksInFlight = 0 /\ q \in Stalls(found)
                         THEN [mapNodeState[q] EXCEPT !.stalling = TRUE]
                         ELSE mapNodeState[q]]
            /\ mapBlocksInFlight' = InFlightWith(p, found.vBlocks)
            /\ nPeersWithValidatedDownloads' = ValidatedPeersWith(st, found.vBlocks, TRUE)
            /\ UNCHANGED fDisconnect
  <2>1. PICK s : s = found.state
    OBVIOUS
  <2>2. PICK S : S = found.vBlocks
    OBVIOUS
  <2>3. /\ Ready(s, p) /\ S \in SUBSET Blocks /\ S \cap (InFlight \cup have) = {}
        /\ Cardinality(S) \in Nat /\ Cardinality(S) <= MaxInTransit - st.nBlocksInFlight
    BY <1>5, <2>1, <2>2 DEF Found
  <2>4. \A q \in Stalls(found) : mapNodeState[q].vBlocksInFlight # {}
    BY <1>5 DEF Found, Stalls
  <2>5. /\ s.nBlocksInFlight = st.nBlocksInFlight
        /\ s.nBlocksInFlightValidHeaders = st.nBlocksInFlightValidHeaders
    BY <1>2, <2>3 DEF Ready
  <2>6. s.nBlocksInFlight + Cardinality(S) <= MaxInTransit
    BY <1>3, <2>3, <2>5
  <2>7. NodesAfter(p, MarkBlocksAsInFlight(p, s, S, TRUE))
    <3>1. PICK new : new = MarkBlocksAsInFlight(p, s, S, TRUE)
      OBVIOUS
    <3>2. mapNodeState' =
            [q \in Connected |->
               IF q = p THEN new
               ELSE IF new.nBlocksInFlight = 0 /\ q \in Stalls(found)
               THEN [mapNodeState[q] EXCEPT !.stalling = TRUE]
               ELSE mapNodeState[q]]
      BY <1>10, <2>1, <2>2, <3>1
    <3>3. NodesAfter(p, new)
      BY <1>0, <2>4, <3>2 DEF NodesAfter, Connected
    <3> QED BY <3>1, <3>3
  <2>8. nPeersWithValidatedDownloads' = ValidatedPeersWith(s, S, TRUE)
    BY <1>10, <2>2, <2>5 DEF ValidatedPeersWith
  <2>9. mapBlocksInFlight' = InFlightWith(p, S) /\ fDisconnect' \subseteq Connected
    BY <1>0, <1>10, <2>2 DEF Types
  <2> QED BY <1>0, <1>6, <1>7, <2>3, <2>6, <2>7, <2>8, <2>9, RequestKeeps
<1> QED BY <1>8, <1>9, <1>10

LEMMA BlockKeeps ==
    ASSUME IInv, NEW b \in Blocks, NEW force \in BOOLEAN, ProcessNewBlock(b, force)
    PROVE  IInv'
<1>0. Types
  BY DEF IInv
<1>1. /\ MarkBlockAsReceived(b)
      /\ UNCHANGED <<tip, greeted, fDisconnect, connects, nPreferredDownload>>
  BY DEF ProcessNewBlock, nodes
<1>2. /\ have \subseteq have' /\ have' \subseteq have \cup {b} /\ have' \subseteq known'
      /\ known' \subseteq Blocks /\ failed' \subseteq Blocks
  BY <1>0 DEF ProcessNewBlock, Types
<1>3. fDisconnect' \subseteq Connected
  BY <1>0, <1>1 DEF Types
<1> QED BY <1>1, <1>2, <1>3, ReceivedKeeps

LEMMA CorruptKeeps ==
    ASSUME IInv, NEW p \in Peers, NEW b \in Blocks, CorruptBlock(p, b)
    PROVE  IInv'
<1>0. Types
  BY DEF IInv
<1>1. /\ MarkBlockAsReceived(b) /\ fDisconnect' \in {fDisconnect, fDisconnect \cup {p}} /\ p \in greeted
      /\ UNCHANGED <<known, have, failed, tip, greeted, connects, nPreferredDownload>>
  BY DEF CorruptBlock, Talking, chain
<1>2. /\ have \subseteq have' /\ have' \subseteq have \cup {b} /\ have' \subseteq known'
      /\ known' \subseteq Blocks /\ failed' \subseteq Blocks /\ fDisconnect' \subseteq Connected
  BY <1>0, <1>1 DEF Types
<1> QED BY <1>1, <1>2, ReceivedKeeps

\* Steps that leave the bookkeeping alone
LEMMA ChainKeeps ==
    ASSUME IInv, UNCHANGED <<known, have, download, greeted, connects, nPreferredDownload>>,
           tip' \in Linked, failed' \subseteq Blocks, fDisconnect' \subseteq Connected
    PROVE  IInv'
<1>1. /\ UNCHANGED <<mapNodeState, mapBlocksInFlight, nPeersWithValidatedDownloads>>
      /\ Connected' = Connected /\ InFlight' = InFlight /\ Linked' = Linked
  BY LinkedFacts DEF download, Connected, InFlight
<1>2. Types'
  BY <1>1 DEF IInv, Types
<1>3. Lists' /\ Totals'
  BY <1>1 DEF IInv, Lists, Totals, Requested
<1>4. InFlightMissing' /\ LastCommonIsCommon'
  BY <1>1 DEF IInv, InFlightMissing, LastCommonIsCommon
<1>5. \A p \in Connected' : Counted(mapNodeState[p])'
  BY <1>1 DEF IInv, Counted
<1> QED BY <1>2, <1>3, <1>4, <1>5 DEF IInv

LEMMA ActivateKeeps ==
    ASSUME IInv, ActivateBestChain
    PROVE  IInv'
<1>0. Types
  BY DEF IInv
<1>1. Linked \subseteq Blocks
  BY <1>0 DEF Types, Linked
<1>2. tip' \in Linked /\ failed' \subseteq Blocks
      /\ UNCHANGED <<known, have, download, greeted, fDisconnect, connects, nPreferredDownload>>
  BY <1>0, <1>1, AncestorsType DEF ActivateBestChain, Types, nodes
<1>3. fDisconnect' \subseteq Connected
  BY <1>0, <1>2 DEF Types
<1> QED BY <1>2, <1>3, ChainKeeps

LEMMA InitIInv == Init => IInv
<1> SUFFICES ASSUME Init PROVE IInv
  OBVIOUS
<1> USE DEF Init
<1>1. Connected = {} /\ InFlight = {} /\ Linked = {Genesis}
  BY AncestorsGenesis DEF Connected, InFlight, Linked
<1>2. Types
  BY <1>1, BlocksAssumption DEF Types
<1>3. Downloading(mapNodeState) = {} /\ Nice(mapNodeState) = {} /\ Cardinality({}) = 0
  BY <1>1, FS_EmptySet DEF Downloading, Nice, Connected
<1> QED BY <1>1, <1>2, <1>3 DEF IInv, Lists, Totals, InFlightMissing, LastCommonIsCommon

LEMMA NextKeeps == IInv /\ [Next]_vars => IInv'
<1> SUFFICES ASSUME IInv, [Next]_vars PROVE IInv'
  OBVIOUS
<1>0. Types
  BY DEF IInv
<1>1. ASSUME NEW p \in Peers, InitializeNode(p) PROVE IInv'
  BY <1>1, InitializeKeeps
<1>2. ASSUME NEW p \in Peers, Version(p) PROVE IInv'
  BY <1>2, VersionKeeps
<1>3. ASSUME NEW p \in Peers, CloseSocketDisconnect(p) PROVE IInv'
  <2>1. UNCHANGED <<known, have, failed, tip, download, greeted, connects, nPreferredDownload>>
        /\ fDisconnect' \subseteq Connected
    BY <1>0, <1>3 DEF CloseSocketDisconnect, Types, chain
  <2>2. tip' \in Linked /\ failed' \subseteq Blocks
    BY <1>0, <2>1 DEF Types
  <2> QED BY <2>1, <2>2, ChainKeeps
<1>4. ASSUME NEW p \in Peers, FinalizeNode(p) PROVE IInv'
  BY <1>4, FinalizeKeeps
<1>5. ASSUME NEW p \in Peers, NEW b \in InvBlocks, Inv(p, b) PROVE IInv'
  BY <1>5, InvKeeps
<1>6. ASSUME NEW p \in Peers, NEW b \in Blocks \ {Genesis}, CorruptBlock(p, b) PROVE IInv'
  BY <1>6, CorruptKeeps
<1>7. ASSUME NEW p \in Peers, NEW b \in Blocks \ {Genesis}, NEW start \in Blocks, Headers(p, start, b)
      PROVE  IInv'
  BY <1>7, HeadersKeeps
<1>8. ASSUME NEW p \in Peers, NEW ibd \in BOOLEAN, NEW expired \in BOOLEAN, SendMessages(p, ibd, expired)
      PROVE  IInv'
  BY <1>8, SendKeeps
<1>9. ASSUME NEW b \in Blocks \ {Genesis}, NEW force \in BOOLEAN, ProcessNewBlock(b, force)
      PROVE  IInv'
  BY <1>9, BlockKeeps
<1>10. CASE ActivateBestChain
  BY <1>10, ActivateKeeps
<1>11. CASE UNCHANGED vars
  <2>1. UNCHANGED <<known, have, failed, tip, download, greeted, fDisconnect, connects, nPreferredDownload>>
    BY <1>11 DEF vars, chain, nodes
  <2>2. tip' \in Linked /\ failed' \subseteq Blocks /\ fDisconnect' \subseteq Connected
    BY <1>0, <2>1 DEF Types
  <2> QED BY <2>1, <2>2, ChainKeeps
<1> QED BY <1>1, <1>2, <1>3, <1>4, <1>5, <1>6, <1>7, <1>8, <1>9, <1>10, <1>11 DEF Next

LEMMA Invariance == Spec => []IInv
  BY InitIInv, NextKeeps, PTL DEF Spec

-----------------------------------------------------------------------------
(* What the invariant says *)

LEMMA IInvExact == IInv => DownloadExact
<1> SUFFICES ASSUME IInv PROVE DownloadExact
  OBVIOUS
<1>0. /\ Types /\ Lists /\ Totals /\ InFlightMissing
      /\ \A q \in Connected : Counted(mapNodeState[q])
  BY DEF IInv
<1>1. TypeOK
  <2>1. have \subseteq Blocks /\ tip \in Blocks
    BY <1>0 DEF Types, Linked
  <2>2. mapBlocksInFlight \in [InFlight -> Peers]
    BY <1>0 DEF Types
  <2> QED BY <1>0, <2>1, <2>2, TotalsFacts DEF Types, TypeOK
<1>2. ASSUME NEW b \in InFlight
      PROVE  /\ mapBlocksInFlight[b] \in Connected
             /\ \E e \in mapNodeState[mapBlocksInFlight[b]].vBlocksInFlight : e.hash = b
  BY <1>0 DEF Types, Lists
<1>3. ASSUME NEW p \in Connected
      PROVE  LET st == mapNodeState[p]
             IN  /\ \A e \in st.vBlocksInFlight : Requested(p, e.hash)
                 /\ st.nBlocksInFlight = Cardinality({b \in InFlight : mapBlocksInFlight[b] = p})
                 /\ st.nBlocksInFlight = Cardinality(st.vBlocksInFlight)
                 /\ st.nBlocksInFlightValidHeaders = Cardinality({e \in st.vBlocksInFlight : e.fValidatedHeaders})
  <2> DEFINE v == mapNodeState[p].vBlocksInFlight
             B == {b \in InFlight : mapBlocksInFlight[b] = p}
  <2>1. Counted(mapNodeState[p])
    BY <1>0
  <2>2. v \in SUBSET QueuedBlock /\ Distinct(v)
    BY <2>1 DEF Counted, CNodeState, QueuedBlock, Distinct
  <2>3. B = Hashes(v)
    <3>1. \A b \in B : b \in Hashes(v)
      BY <1>0 DEF Lists, Hashes
    <3>2. \A e \in v : e.hash \in B
      BY <1>0 DEF Lists, Requested
    <3> QED BY <3>1, <3>2 DEF Hashes
  <2>4. Cardinality(Hashes(v)) = Cardinality(v)
    BY <2>2, ListFacts
  <2>5. \A e \in v : Requested(p, e.hash)
    BY <1>0 DEF Lists
  <2> QED BY <2>1, <2>3, <2>4, <2>5 DEF Counted, Validated
<1>4. BookkeepingExact
  BY <1>0, <1>2, <1>3 DEF BookkeepingExact, Totals, Downloading, Nice, Connected
<1> QED BY <1>0, <1>1, <1>4 DEF DownloadExact

LEMMA IInvStaller == IInv => StallerOwesBlock
  BY DEF IInv, Counted, StallerOwesBlock

\* Above the block where the walk starts there is a block of the peer's branch.
\* Either it is stored, then it is linked, and pindexLastCommonBlock passes the
\* start; or it is missing and not in flight, then it is the lowest to be fetched.
LEMMA WalkMoves ==
    ASSUME IInv, NEW p \in Connected, NEW st, Ready(st, p), st.best # NoBlock,
           Ancestors[st.best] \cap failed = {}, ~(Ancestors[st.best] \subseteq have),
           Ancestors[st.best] \cap InFlight = {}
    PROVE  LET found == FindNext(p, st, MaxInTransit)
           IN  found.vBlocks # {} \/ Height[found.state.common] > Height[CommonBefore(st)]
<1> DEFINE found == FindNext(p, st, MaxInTransit)
           a == CommonBefore(st)
           new == LastCommonAfter(a, Walk(st))
<1>0. /\ Types /\ st \in CNodeState /\ st.best \in Blocks
      /\ MaxInTransit \in Nat \ {0} /\ Window \in Nat \ {0}
  BY LimitsAssumption DEF IInv, Ready, Counted, CNodeState
<1>1. Searchable(st)
  BY <1>0 DEF Searchable, Types, Ready
<1>2. found.state = [st EXCEPT !.common = new] /\ found.vBlocks = Lowest(InWindow(st), MaxInTransit)
  BY DEF FindNext, Walk, InWindow
<1>3. found.state.common = new
  BY <1>0, <1>2 DEF CNodeState
<1>4. a \in Linked /\ a \in Ancestors[st.best]
  BY <1>1, CommonFacts
<1>5. a # st.best
  BY <1>4 DEF Linked
<1>6. PICK c \in Ancestors[st.best] \ {Genesis} : Parent[c] = a
  BY <1>0, <1>4, <1>5, ChildOnBranch
<1>7. c \in Blocks /\ Height[c] = Height[a] + 1 /\ Height[a] \in Nat /\ Height[c] \in Nat
  <2>1. c \in Blocks /\ a \in Blocks
    BY <1>0, <1>4, <1>6, AncestorsType
  <2> QED BY <1>6, <2>1, HeightAssumption
<1>8. c \in Walk(st)
  <2>1. \A d \in Ancestors[c] : d \notin failed
    BY <1>0, <1>6, AncestorsOfAncestor
  <2>2. Height[c] > Height[a] /\ Height[c] <= (Height[a] + Window) + 1
    BY <1>0, <1>7
  <2> QED BY <1>6, <2>1, <2>2 DEF Walk
<1> HIDE DEF a, new, found
<1>9. CASE c \in have
  <2>1. c \in Linked
    <3>1. Ancestors[c] = Ancestors[a] \cup {c}
      BY <1>6, <1>7, AncestorsParent
    <3> QED BY <1>4, <1>9, <3>1 DEF Linked
  <2>2. Height[c] <= Height[new] /\ new \in Linked
    BY <1>1, <1>8, <2>1, LastCommonFacts DEF new, a
  <2>3. Height[new] \in Nat
    BY <1>0, <2>2, HeightAssumption DEF Types, Linked
  <2>4. Height[new] > Height[a]
    BY <1>7, <2>2, <2>3
  <2> QED BY <1>3, <2>4 DEF a, found
<1>10. CASE c \notin have
  <2>1. Active \subseteq have
    BY <1>0 DEF Types, Linked, Active
  <2>2. c \in InWindow(st)
    <3>1. Fetchable(c)
      BY <1>6, <1>10, <2>1 DEF Fetchable
    <3>2. Height[c] <= Height[a] + Window
      BY <1>0, <1>7
    <3> QED BY <1>8, <3>1, <3>2 DEF InWindow, a
  <2> DEFINE under == {d \in InWindow(st) : Height[d] < Height[c]}
  <2>3. under = {}
    <3> SUFFICES ASSUME NEW d \in InWindow(st), Height[d] < Height[c] PROVE FALSE
      OBVIOUS
    <3>1. Height[d] > Height[a] /\ d \in Blocks
      BY <1>0, AncestorsType DEF InWindow, Walk, a
    <3>2. Height[d] \in Nat
      BY <3>1, HeightAssumption
    <3> QED BY <1>7, <3>1, <3>2
  <2>4. Cardinality(under) < MaxInTransit
    <3>1. Cardinality(under) = 0
      BY <2>3, FS_EmptySet
    <3> HIDE DEF under
    <3> QED BY <1>0, <3>1
  <2>5. c \in Lowest(InWindow(st), MaxInTransit)
    BY <2>2, <2>4 DEF Lowest
  <2> QED BY <1>2, <2>5 DEF found
<1> QED BY <1>9, <1>10

LEMMA IInvNeverIdle == IInv => NeverIdle
<1> SUFFICES ASSUME IInv PROVE NeverIdle
  OBVIOUS
<1>1. LastCommonIsCommon
  BY DEF IInv
<1>2. ASSUME NEW p \in Connected, NEW st, st = ProcessBlockAvailability(mapNodeState[p]),
             Interesting(st), Ancestors[st.best] \cap failed = {}, ~(Ancestors[st.best] \subseteq have)
      PROVE  \/ Ancestors[st.best] \cap InFlight # {}
             \/ LET found == FindNext(p, st, MaxInTransit)
                IN  found.vBlocks # {} \/ Height[found.state.common] > Height[CommonBefore(st)]
  <2>1. Ready(st, p) /\ st.best # NoBlock
    BY <1>2, NodeReady, AvailabilityReady DEF Interesting
  <2> QED BY <1>2, <2>1, WalkMoves
<1> QED BY <1>1, <1>2 DEF NeverIdle

\* For every block tree, any number of peers and any limits: mapBlocksInFlight, the
\* lists of the nodes and the counters of main.cpp agree in every reachable state,
\* so the assertions of FinalizeNode hold, no peer has more blocks in flight than
\* MAX_BLOCKS_IN_TRANSIT_PER_PEER, and no block that is stored is in flight.
THEOREM BookkeepingStaysExact == Spec => []DownloadExact
  BY Invariance, IInvExact, PTL

\* nStallingSince runs only for a peer that owes us a block: MarkBlockAsReceived
\* resets it, and FindNextBlocksToDownload names only peers with blocks in flight.
THEOREM StallerOwes == Spec => []StallerOwesBlock
  BY Invariance, IInvStaller, PTL

\* pindexLastCommonBlock is always a block we have all ancestors of, and while a
\* block of a peer's valid chain is missing and none of that chain is in flight,
\* FindNextBlocksToDownload returns a block or moves pindexLastCommonBlock up,
\* whatever the window and the forks.
THEOREM DownloadNeverIdle == Spec => []NeverIdle
  BY Invariance, IInvNeverIdle, PTL
=============================================================================
